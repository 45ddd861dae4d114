----------------------------- MODULE MCMncRequests -----------------------------
(***************************************************************************)
(* Instances of MncRequests for TLC: a month whose runs fail and decide    *)
(* otherwise when they are run again; and the small months of the          *)
(* findings.                                                               *)
(***************************************************************************)
EXTENDS MncRequests, TLC

CONSTANTS s1, s2, ra, rb

ByName == [s \in Snaps |-> IF s = s1 THEN 1 ELSE 2]
Says(r, o) == [req |-> r, outcome |-> o]

Runnable == Says(rb, "runnable")

(* not runnable for want of coverage at first; the same core, or another   *)
Undecided ==
    (s1 :> {Says(ra, "blocked"), Says(ra, "runnable")})
    @@ (s2 :> {Says(ra, "runnable"), Says(rb, "runnable")})

SameCore == (s1 :> {Runnable}) @@ (s2 :> {Runnable})
NewCore == (s1 :> {Says(ra, "runnable"), Says(NoRequest, "deferred")}) @@ (s2 :> {Runnable})
=============================================================================
