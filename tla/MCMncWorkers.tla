----------------------------- MODULE MCMncWorkers -----------------------------
(***************************************************************************)
(* Instances of MncWorkers for TLC: one release whose request is drained   *)
(* by its monthly run, by the poller's workers, or by both.                *)
(***************************************************************************)
EXTENDS MncWorkers, TLC

CONSTANTS s1, s2, ra

ByName == [s \in Snaps |-> IF s = s1 THEN 1 ELSE 2]
Runnable == [s \in Snaps |-> {[req |-> ra, outcome |-> "runnable"]}]
OneYear == [d \in 1..NumDates |-> 2026]
NewYear == [d \in 1..NumDates |-> IF d = NumDates THEN 2026 ELSE 2025]
=============================================================================
