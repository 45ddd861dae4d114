------------------------ MODULE MCDerivedGeneration ------------------------
(***************************************************************************)
(* An instance of DerivedGeneration for TLC, with the inductive invariant  *)
(* of its proofs.                                                          *)
(***************************************************************************)
EXTENDS DerivedGenerationProofs, FiniteSets, TLC

CONSTANTS c1, d1, d2, daily, later, seed, retry, seed2,
          MaxSwept   \* bound on the rows purged or deleted

(* Two scenes on one code.  The seeds of two requests in one series, and   *)
(* the retry of one: the same request and day, a new identity.  And the    *)
(* Daily of day 1, a seed of day 1 and the Daily of day 2.                 *)
MCProfile == [g \in Gens |->
    IF g \in {daily, later} THEN "snapshot_series_latest" ELSE "series_only"]
MCDate == [g \in Gens |-> IF g = later THEN 2 ELSE 1]
MCCodes == [g \in Gens |-> {c1}]
MCRequest == [g \in Gens |->
    IF g \in {daily, later} THEN "-" ELSE IF g = seed2 THEN "r2" ELSE "r1"]

(* Bounds the calls: a caller registers, marks, stages and seals all its   *)
(* objects in one call each, in that order, and gives all of them one      *)
(* digest.  A commit is refused in every state this leaves out.            *)
WholeBatches ==
    \A g \in Gens : gen[g] = "pending" =>
        /\ Pending(g) \in {{}, SlotsOf(g)}
        /\ uploaded[g] \in {{}, SlotsOf(g)}
        /\ staged[g] \in {{}, members[g]}
        /\ \A s, t \in Pending(g) : digest[g][s] = digest[g][t]
        /\ staged[g] # {} => uploaded[g] # {}
        /\ sealed[g] \in {{}, SlotsOf(g)}
        /\ sealed[g] # {} => uploaded[g] # {} /\ StagingComplete(g)

(* At most MaxSwept rows are purged or deleted in a run.                   *)
Swept == {r \in Gens \X Slots : r[2] \in purged[r[1]] \/ obj[r[1]][r[2]] = "deleted"}

Begun == {g \in Gens : gen[g] # "none"}

(* The seeds: one content will do.                                         *)
SeedScene ==
    /\ Begun \subseteq {seed, retry, seed2}
    /\ \A g \in Gens, s \in Slots : digest[g][s] # d2 /\ prior[g][s] # d2
    /\ Cardinality(Swept) <= MaxSwept

(* The Daily runs: all codes are given to begin, the sweeper is away, and  *)
(* a Daily passes no expected digest to begin (a reconcile does).          *)
SeriesScene ==
    /\ Begun \subseteq {daily, later, seed, retry} /\ ~({seed, retry} \subseteq Begun)
    /\ \A g \in Begun : members[g] = Candidates[g]
    /\ \A g \in {daily, later} : prior[g]["snapshot"] = Absent
    /\ Swept = {}

Scenes == SeedScene \/ SeriesScene

RetrySymmetry == Permutations({seed, retry})
=============================================================================
