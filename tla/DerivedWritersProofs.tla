-------------------------- MODULE DerivedWritersProofs --------------------------
(***************************************************************************)
(* Proofs about DerivedWriters, for every set of runs, codes, dates and    *)
(* requests, every number of attempts and every scenario (which runs go,   *)
(* how often, with or without the sweeper).  What the tables are left with *)
(* by any caller is taken from DerivedGenerationProofs.                    *)
(*                                                                         *)
(* The argument: a run that is not killed knows at each of its places what *)
(* it has read, registered and put, because rows only move forward, a      *)
(* digest is written once, and only the run itself ends its generation.    *)
(* The sweeper deletes only what belongs to a row that will never be       *)
(* served: an orphan stays one, and a generation that has ended gets no    *)
(* new row.  A seed registers what it was told of the prior, and commits   *)
(* only over that prior: so no day of a seed is lost to another seed.      *)
(***************************************************************************)
EXTENDS DerivedWriters, TLAPS

GP == INSTANCE DerivedGenerationProofs WITH Digests <- Contents

Begun == {"register", "put", "mark", "list", "stage", "seal", "commit"}
Going == Begun \cup {"begin", "fetch"}
AfterBegin(g) == pc[g] \in Begun \/ (pc[g] = "fetch" /\ ~IsSeed(g))

OwnDay(g, x) == [x EXCEPT ![TradeDate[g]] = g]
PriorContent(g, c) == IF prior[g][c] = Absent THEN Nothing ELSE prior[g][c]

(* A row that is there has a content, which has the day of its run; what   *)
(* is no series has no other day; what a seed writes is the prior it told  *)
(* begin of, with its day put in.                                          *)
DigestsFit ==
    \A g \in Gens, s \in G!Slots : obj[g][s] # "none" =>
        /\ digest[g][s] \in Contents /\ digest[g][s][TradeDate[g]] = g
        /\ s \notin Codes => digest[g][s] = OwnDay(g, Nothing)
        /\ s \in Codes /\ IsSeed(g) => digest[g][s] = OwnDay(g, PriorContent(g, s))

(* Only rows that are there are marked uploaded.                           *)
UploadsHaveRows == \A g \in Gens, s \in G!Slots : s \in uploaded[g] => obj[g][s] # "none"

(* What a run has read was committed and has not been forgotten.           *)
ReadFits ==
    \A g \in Gens, s \in G!Slots : read[g][s] # NoGen =>
        gen[read[g][s]] = "committed" /\ obj[read[g][s]][s] # "none"

(* The slots S of g are registered with what g has read.                   *)
Registered(g, S) ==
    \A s \in S : /\ s \in G!SlotsOf(g) /\ obj[g][s] # "none"
                 /\ digest[g][s] = ContentOf(g, s)

(* What the run of g knows, as far as it has come.                         *)
SeedKnows(g) ==
    IsSeed(g) /\ AfterBegin(g) =>
        members[g] = Missing(g) /\ \A c \in members[g] : prior[g][c] = DigestRead(g, c)

ReconcileKnows(g) ==
    g \in Reconciles /\ ~IsSeed(g) =>
        /\ pc[g] = "begin" \/ AfterBegin(g) => read[g]["snapshot"] # NoGen
        /\ AfterBegin(g) /\ Profile[g] # "web_asof" => prior[g]["snapshot"] = DigestRead(g, "snapshot")

(* The snapshot comes first, and series come only of a run that has them.  *)
FirstFits(g) ==
    ~IsSeed(g) =>
        /\ pc[g] \in Going /\ handled[g] # {} => FirstSlot(g) \in handled[g]
        /\ pc[g] = "begin" => handled[g] = {}
        /\ pc[g] = "list" => handled[g] \subseteq {"snapshot"}
        /\ pc[g] = "list" \/ (pc[g] \in {"fetch", "register"} /\ handled[g] # {}) =>
              Profile[g] \in G!DailySeriesProfiles
        /\ pc[g] \in {"put", "mark"} =>
              \/ handled[g] = {} /\ batch[g] = {FirstSlot(g)}
              \/ handled[g] # {} /\ Profile[g] \in G!DailySeriesProfiles /\ batch[g] \subseteq Codes

RunFits(g) ==
    /\ gen[g] = "none" => handled[g] = {}
    /\ handled[g] \subseteq G!SlotsOf(g)
    /\ pc[g] \in Begun \ {"register"} => gen[g] = "pending"
    /\ pc[g] \in Going => Registered(g, handled[g])
    /\ pc[g] \in {"put", "mark"} => Registered(g, batch[g])
    /\ pc[g] = "mark" => \A s \in batch[g] : <<g, s>> \in blob
    /\ pc[g] = "commit" => sealed[g] = handled[g]
    /\ pc[g] = "list" => ~IsSeed(g)
    /\ SeedKnows(g) /\ ReconcileKnows(g) /\ FirstFits(g)

(* What the sweeper has listed stays out of use.                           *)
SweepFits ==
    /\ \A r \in swRows \cup swGone : obj[r[1]][r[2]] \in {"orphan", "deleted"}
    /\ \A g \in swOnly : /\ gen[g] \in {"failed", "committed"}
                         /\ obj[g]["snapshot"] \in {"none", "orphan", "deleted"}
    /\ \A r \in swGone : r \notin blob

(* While only seeds commit, their rows are only ever superseded, and each  *)
(* day of each of them is still served.                                    *)
Served(c, d) == \E h \in G!Holders(c) : digest[h][c][d] # NoGen

SeedRowsStay ==
    OnlySeeds => \A g \in Gens, s \in G!Slots :
        gen[g] = "committed" /\ obj[g][s] # "none" => obj[g][s] \in {"committed", "superseded"}

DaysServed ==
    OnlySeeds => \A g \in Gens, c \in Codes, d \in Days :
        gen[g] = "committed" /\ obj[g][c] # "none" /\ digest[g][c][d] # NoGen => Served(c, d)

DInv ==
    /\ TypeOK /\ GP!IInv
    /\ DigestsFit /\ UploadsHaveRows /\ ReadFits /\ SweepFits /\ ObjectsMatchRows
    /\ SeedRowsStay /\ DaysServed /\ DoneSeedIsServed
    /\ \A g \in Gens : RunFits(g)

-----------------------------------------------------------------------------
(* The assumptions on the tables, and what they say of profiles and slots. *)
LEMMA Bounds ==
    /\ Profile \in [Gens -> {"snapshot_only", "snapshot_series", "snapshot_series_latest",
                             "series_only", "web_asof"}]
    /\ TradeDate \in [Gens -> Nat] /\ Candidates \in [Gens -> SUBSET Codes]
    /\ "snapshot" \notin Codes /\ "delta" \notin Codes /\ "asof" \notin Codes
    /\ Absent \notin Contents /\ NoGen \notin Gens
BY TablesAssumption DEF G!ProfileAssumption, G!Profiles, G!TradeDateAssumption,
   G!CandidatesAssumption, G!CodesAssumption, G!AbsentAssumption, G!NoGenAssumption

LEMMA SlotsAre ==
    ASSUME NEW g \in Gens
    PROVE  /\ IsSeed(g) => G!SlotsOf(g) = members[g] \cup {"delta"}
           /\ Profile[g] = "web_asof" => G!SlotsOf(g) = {"asof"}
           /\ Profile[g] = "snapshot_only" => G!SlotsOf(g) = {"snapshot"}
           /\ Profile[g] \in G!DailySeriesProfiles => G!SlotsOf(g) = members[g] \cup {"snapshot"}
BY Bounds DEF IsSeed, G!SlotsOf, G!SlotsWith, G!SeriesWith, G!DailySeriesProfiles

LEMMA SlotsSubset ==
    ASSUME G!TypeOK
    PROVE  \A g \in Gens : G!SlotsOf(g) \subseteq G!Slots
BY DEF G!TypeOK, G!SlotsOf, G!SlotsWith, G!SeriesWith, G!Slots

LEMMA ContentsHave ==
    /\ Nothing \in Contents
    /\ \A g \in Gens, x \in Contents :
          /\ OwnDay(g, x) \in Contents /\ OwnDay(g, x)[TradeDate[g]] = g
          /\ \A d \in Days \ {TradeDate[g]} : OwnDay(g, x)[d] = x[d]
BY DEF Contents, Nothing, OwnDay, Days

(* The tables here are those of DerivedGeneration.                         *)
LEMMA SameOperators ==
    /\ GP!Slots = G!Slots /\ GP!OrphanRows = G!OrphanRows
    /\ \A g : GP!SlotsOf(g) = G!SlotsOf(g) /\ GP!Pending(g) = G!Pending(g)
    /\ \A s : GP!Holders(s) = G!Holders(s)
    /\ \A s, g, h : GP!SameCoordinate(s, g, h) <=> G!SameCoordinate(s, g, h)
    /\ \A g : GP!CommitAllowed(g) <=> G!CommitAllowed(g)
    /\ GP!ObjStatus = G!ObjStatus /\ GP!GenStatus = G!GenStatus
<1>1. GP!Slots = G!Slots /\ GP!ObjStatus = G!ObjStatus /\ GP!GenStatus = G!GenStatus
    BY DEF GP!Slots, G!Slots, GP!ObjStatus, G!ObjStatus, GP!GenStatus, G!GenStatus
<1>2. ASSUME NEW g PROVE GP!SlotsOf(g) = G!SlotsOf(g) /\ GP!Pending(g) = G!Pending(g)
    BY <1>1 DEF GP!SlotsOf, G!SlotsOf, GP!SlotsWith, G!SlotsWith, GP!SeriesWith, G!SeriesWith,
       GP!DailySeriesProfiles, G!DailySeriesProfiles, GP!Pending, G!Pending
<1>3. ASSUME NEW s PROVE GP!Holders(s) = G!Holders(s)
    BY DEF GP!Holders, G!Holders
<1>4. ASSUME NEW s, NEW g, NEW h PROVE GP!SameCoordinate(s, g, h) <=> G!SameCoordinate(s, g, h)
    BY DEF GP!SameCoordinate, G!SameCoordinate
<1>5. ASSUME NEW g PROVE GP!CommitAllowed(g) <=> G!CommitAllowed(g)
    BY <1>2, <1>3, <1>4 DEF GP!CommitAllowed, G!CommitAllowed, GP!PriorHolds, G!PriorHolds,
       GP!ObjectsComplete, G!ObjectsComplete, GP!StagingComplete, G!StagingComplete,
       GP!DeltaIndexAllows, G!DeltaIndexAllows
<1>6. GP!OrphanRows = G!OrphanRows
    BY <1>1 DEF GP!OrphanRows, G!OrphanRows
<1> QED BY <1>1, <1>2, <1>3, <1>4, <1>5, <1>6

LEMMA SameCommit == \A g : GP!Commit(g) <=> G!Commit(g)
<1> SUFFICES ASSUME NEW g PROVE GP!Commit(g) <=> G!Commit(g)
    OBVIOUS
<1>1. \A s : GP!Displaces(g, s) <=> G!Displaces(g, s)
    BY DEF GP!Displaces, G!Displaces, GP!SeriesWith, G!SeriesWith,
       GP!DailySeriesProfiles, G!DailySeriesProfiles
<1>2. GP!ObjAfterCommit(g) = G!ObjAfterCommit(g)
    BY <1>1, SameOperators DEF GP!ObjAfterCommit, G!ObjAfterCommit, GP!DisplacedStatus, G!DisplacedStatus
<1>3. GP!LatestAfterCommit(g) = G!LatestAfterCommit(g)
    BY DEF GP!LatestAfterCommit, G!LatestAfterCommit
<1> QED BY <1>2, <1>3, SameOperators DEF GP!Commit, G!Commit

LEMMA SameTables ==
    /\ GP!Init <=> G!Init
    /\ GP!TypeOK <=> G!TypeOK
    /\ GP!Next <=> G!Next
    /\ (UNCHANGED GP!vars) <=> UNCHANGED tables
    /\ (UNCHANGED G!vars) <=> UNCHANGED tables
<1>1. GP!Init <=> G!Init
    BY DEF GP!Init, G!Init, GP!Slots, G!Slots
<1>2. GP!TypeOK <=> G!TypeOK
    BY SameOperators DEF GP!TypeOK, G!TypeOK
<1>3. GP!Next <=> G!Next
    <2>1. \A g, M : GP!Expectations(g, M) = G!Expectations(g, M)
        BY DEF GP!Expectations, G!Expectations
    <2>2. \A g, M, e : GP!Begin(g, M, e) <=> G!Begin(g, M, e)
        BY <2>1, SameOperators DEF GP!Begin, G!Begin, GP!PriorGiven, G!PriorGiven
    <2>3. \A g, D : GP!RegisterPendingObjects(g, D) <=> G!RegisterPendingObjects(g, D)
        BY SameOperators DEF GP!RegisterPendingObjects, G!RegisterPendingObjects
    <2>4. \A g, s, d : GP!RegisterPendingObject(g, s, d) <=> G!RegisterPendingObject(g, s, d)
        BY <2>3 DEF GP!RegisterPendingObject, G!RegisterPendingObject
    <2>5. /\ \A g, s : GP!MarkObjectUploaded(g, s) <=> G!MarkObjectUploaded(g, s)
          /\ \A g, S : GP!MarkObjectsUploaded(g, S) <=> G!MarkObjectsUploaded(g, S)
        BY SameOperators DEF GP!MarkObjectUploaded, G!MarkObjectUploaded,
           GP!MarkObjectsUploaded, G!MarkObjectsUploaded
    <2>6. /\ \A g, C : GP!StageLatest(g, C) <=> G!StageLatest(g, C)
          /\ \A g, S : GP!SetObjectSetDigest(g, S) <=> G!SetObjectSetDigest(g, S)
        BY DEF GP!StageLatest, G!StageLatest, GP!SetObjectSetDigest, G!SetObjectSetDigest
    <2>7. /\ \A g : GP!Fail(g) <=> G!Fail(g)
          /\ \A g, s : GP!MarkPurged(g, s) <=> G!MarkPurged(g, s)
          /\ \A R : GP!DeleteOrphanObjects(R) <=> G!DeleteOrphanObjects(R)
        BY SameOperators DEF GP!Fail, G!Fail, GP!MarkPurged, G!MarkPurged,
           GP!DeleteOrphanObjects, G!DeleteOrphanObjects
    <2> QED BY <2>1, <2>2, <2>3, <2>4, <2>5, <2>6, <2>7, SameOperators, SameCommit DEF GP!Next, G!Next
<1>4. ((UNCHANGED GP!vars) <=> UNCHANGED tables) /\ ((UNCHANGED G!vars) <=> UNCHANGED tables)
    BY DEF GP!vars, G!vars, tables
<1> QED BY <1>1, <1>2, <1>3, <1>4

-----------------------------------------------------------------------------
(* What the invariant of the tables says to their callers.                 *)
LEMMA TableFacts ==
    ASSUME DInv
    PROVE  /\ G!TypeOK
           /\ \A g \in Gens : members[g] \subseteq Candidates[g]
           /\ \A g \in Gens, s \in G!Slots :
                 /\ obj[g][s] # "none" => s \in G!SlotsOf(g)
                 /\ gen[g] = "none" => obj[g][s] = "none"
                 /\ gen[g] = "pending" => obj[g][s] \in {"none", "pending"}
                 /\ gen[g] = "failed" => obj[g][s] \in {"none", "orphan", "deleted"}
                 /\ gen[g] = "committed" /\ s \in G!SlotsOf(g) => obj[g][s] \notin {"none", "pending"}
                 /\ s \in purged[g] => obj[g][s] \in {"orphan", "deleted"}
           /\ \A g, h \in Gens, s \in G!Slots :
                 obj[g][s] = "committed" /\ obj[h][s] = "committed" /\ G!SameCoordinate(s, g, h) => g = h
           /\ \A g \in Gens, s \in G!Slots : obj[g][s] = "committed" => gen[g] = "committed"
<1>1. G!TypeOK
    BY DEF DInv, TypeOK
<1>2. /\ GP!MembersFit /\ GP!RowsFit /\ GP!PurgedFit /\ GP!OneCommitted
    BY DEF DInv, GP!IInv
<1>3. \A g \in Gens : members[g] \subseteq Candidates[g]
    BY <1>2 DEF GP!MembersFit
<1>4. \A g \in Gens, s \in G!Slots :
                 /\ obj[g][s] # "none" => s \in G!SlotsOf(g)
                 /\ gen[g] = "none" => obj[g][s] = "none"
                 /\ gen[g] = "pending" => obj[g][s] \in {"none", "pending"}
                 /\ gen[g] = "failed" => obj[g][s] \in {"none", "orphan", "deleted"}
                 /\ gen[g] = "committed" /\ s \in G!SlotsOf(g) => obj[g][s] \notin {"none", "pending"}
                 /\ s \in purged[g] => obj[g][s] \in {"orphan", "deleted"}
    BY <1>2, SameOperators DEF GP!RowsFit, GP!PurgedFit
<1>5. \A g, h \in Gens, s \in G!Slots :
                 obj[g][s] = "committed" /\ obj[h][s] = "committed" /\ G!SameCoordinate(s, g, h) => g = h
    BY <1>2, SameOperators DEF GP!OneCommitted
<1>6. \A g \in Gens : gen[g] \in {"none", "pending", "committed", "failed"}
    BY <1>1 DEF G!TypeOK, G!GenStatus
<1>7. \A g \in Gens, s \in G!Slots : obj[g][s] = "committed" => gen[g] = "committed"
    BY <1>4, <1>6
<1> QED BY <1>1, <1>3, <1>4, <1>5, <1>7

LEMMA TablesTyped ==
    ASSUME G!TypeOK
    PROVE  /\ gen \in [Gens -> {"none", "pending", "committed", "failed"}]
           /\ members \in [Gens -> SUBSET Codes]
           /\ prior \in [Gens -> [G!Slots -> Contents \cup {Absent}]]
           /\ sealed \in [Gens -> SUBSET G!Slots]
           /\ obj \in [Gens -> [G!Slots -> {"none", "pending", "committed", "superseded", "orphan", "deleted"}]]
           /\ digest \in [Gens -> [G!Slots -> Contents \cup {Absent}]]
           /\ uploaded \in [Gens -> SUBSET G!Slots] /\ purged \in [Gens -> SUBSET G!Slots]
           /\ "snapshot" \in G!Slots /\ "asof" \in G!Slots /\ "delta" \in G!Slots /\ Codes \subseteq G!Slots
BY DEF G!TypeOK, G!GenStatus, G!ObjStatus, G!Slots

(* A commit, as its effects on the rows.                                   *)
Displaced(g, h, s) ==
    /\ h # g /\ obj[h][s] = "committed" /\ s \in G!SlotsOf(g) /\ G!SameCoordinate(s, g, h)

LEMMA CommitMoves ==
    ASSUME DInv, NEW g \in Gens, G!Commit(g)
    PROVE  /\ gen[g] = "pending" /\ gen' = [gen EXCEPT ![g] = "committed"]
           /\ G!SlotsOf(g) \subseteq uploaded[g] /\ sealed[g] = G!SlotsOf(g) /\ G!PriorHolds(g)
           /\ \A s \in G!Slots : obj[g][s] = "pending" <=> s \in G!SlotsOf(g)
           /\ \A s \in G!Slots : obj'[g][s] = IF s \in G!SlotsOf(g) THEN "committed" ELSE obj[g][s]
           /\ \A h \in Gens \ {g}, s \in G!Slots :
                 obj'[h][s] = IF Displaced(g, h, s) THEN G!DisplacedStatus(g) ELSE obj[h][s]
           /\ G!DisplacedStatus(g) = IF IsSeed(g) THEN "superseded" ELSE "orphan"
           /\ UNCHANGED <<members, prior, sealed, digest, uploaded, purged>>
<1>1. /\ gen[g] = "pending" /\ G!Pending(g) = G!SlotsOf(g) /\ G!Pending(g) \subseteq uploaded[g]
      /\ sealed[g] = G!Pending(g) /\ G!PriorHolds(g)
    BY DEF G!Commit, G!CommitAllowed, G!ObjectsComplete
<1>2. G!TypeOK
    BY TableFacts
<1>3. \A s \in G!Slots : obj[g][s] = "pending" <=> s \in G!SlotsOf(g)
    BY <1>1 DEF G!Pending
<1>4. obj' = G!ObjAfterCommit(g)
    BY DEF G!Commit
<1>5. \A s \in G!Slots : obj'[g][s] = IF s \in G!SlotsOf(g) THEN "committed" ELSE obj[g][s]
    BY <1>3, <1>4 DEF G!ObjAfterCommit
<1>6. GP!TypeOK /\ GP!RowsFit
    BY DEF DInv, GP!IInv
<1>7. GP!CommitAllowed(g) /\ obj' = GP!ObjAfterCommit(g)
    BY SameCommit DEF GP!Commit
<1>8. \A h \in Gens, s \in GP!Slots :
              obj'[h][s] = "committed" <=>
                 IF h = g THEN s \in GP!SlotsOf(g)
                 ELSE /\ obj[h][s] = "committed"
                      /\ ~(s \in GP!SlotsOf(g) /\ GP!SameCoordinate(s, g, h))
    BY <1>6, <1>7, GP!CommitEffect, TablesAssumption
    DEF G!ProfileAssumption, G!TradeDateAssumption, G!CandidatesAssumption, G!CodesAssumption,
        G!AbsentAssumption, G!NoGenAssumption, G!Profiles, GP!Profiles
<1>9. \A h \in Gens \ {g}, s \in G!Slots :
              obj'[h][s] = "committed" <=> obj[h][s] = "committed" /\ ~Displaced(g, h, s)
    BY <1>8, SameOperators DEF Displaced
<1>10. G!DisplacedStatus(g) = IF IsSeed(g) THEN "superseded" ELSE "orphan"
    BY DEF G!DisplacedStatus, IsSeed
<1>11. ASSUME NEW h \in Gens \ {g}, NEW s \in G!Slots
       PROVE  obj'[h][s] = IF Displaced(g, h, s) THEN G!DisplacedStatus(g) ELSE obj[h][s]
    <2>1. \/ obj'[h][s] = obj[h][s]
          \/ obj[h][s] = "committed" /\ obj'[h][s] = G!DisplacedStatus(g)
        BY <1>4 DEF G!ObjAfterCommit
    <2>2. CASE Displaced(g, h, s)
        BY <2>1, <2>2, <1>9 DEF Displaced
    <2>3. CASE ~Displaced(g, h, s)
        BY <2>1, <2>3, <1>9
    <2> QED BY <2>2, <2>3
<1> QED BY <1>1, <1>3, <1>5, <1>10, <1>11 DEF G!Commit

(* What no step of the tables undoes.                                      *)
TablesMove ==
    /\ \A g \in Gens : /\ gen'[g] = gen[g] \/ gen[g] = "none" \/ gen[g] = "pending"
                       /\ gen'[g] = "none" => gen[g] = "none"
                       /\ gen[g] # "none" => members'[g] = members[g] /\ prior'[g] = prior[g]
    /\ \A g \in Gens, s \in G!Slots :
          /\ obj[g][s] # "none" => obj'[g][s] # "none" /\ digest'[g][s] = digest[g][s]
          /\ obj[g][s] = "none" /\ gen[g] # "pending" => obj'[g][s] = "none"
          /\ obj[g][s] \in {"orphan", "deleted"} => obj'[g][s] \in {"orphan", "deleted"}
          /\ obj'[g][s] \in {"pending", "committed", "superseded"} =>
                obj[g][s] \in {"none", "pending", "committed", "superseded"}
          /\ s \in uploaded'[g] => s \in uploaded[g] \/ obj[g][s] = "pending"

LEMMA TablesKeep ==
    ASSUME DInv, G!Next \/ UNCHANGED tables
    PROVE  GP!IInv' /\ G!TypeOK' /\ TablesMove
<1> USE TablesAssumption
    DEF G!ProfileAssumption, G!TradeDateAssumption, G!CandidatesAssumption, G!CodesAssumption,
        G!AbsentAssumption, G!NoGenAssumption, G!Profiles, GP!Profiles
<1>1. GP!IInv /\ [GP!Next]_(GP!vars)
    BY SameTables DEF DInv
<1>2. GP!IInv'
    BY <1>1, GP!IInvStep
<1>3. G!TypeOK'
    BY <1>2, SameTables, SameOperators DEF GP!IInv, GP!TypeOK, G!TypeOK, GP!Slots, G!Slots, GP!ObjStatus, G!ObjStatus,
       GP!GenStatus, G!GenStatus
<1>4. GP!RowMoves
    BY <1>1, GP!StepMovesRows DEF GP!IInv
<1> QED
  <2>1. G!TypeOK
      BY TableFacts
  <2>2. ASSUME NEW g \in Gens, NEW s \in G!Slots
        PROVE  /\ obj[g][s] # "none" => obj'[g][s] # "none"
               /\ obj[g][s] \in {"orphan", "deleted"} => obj'[g][s] \in {"orphan", "deleted"}
               /\ obj'[g][s] \in {"pending", "committed", "superseded"} =>
                     obj[g][s] \in {"none", "pending", "committed", "superseded"}
      <3>1. \/ obj'[g][s] = obj[g][s]
            \/ obj[g][s] = "none" /\ obj'[g][s] = "pending"
            \/ obj[g][s] = "pending" /\ obj'[g][s] \in {"committed", "orphan"}
            \/ s # "delta" /\ obj[g][s] = "committed" /\ obj'[g][s] \in {"superseded", "orphan"}
            \/ obj[g][s] = "orphan" /\ obj'[g][s] = "deleted"
          BY <1>4, SameOperators DEF GP!RowMoves
      <3>2. obj[g][s] \in {"none", "pending", "committed", "superseded", "orphan", "deleted"}
          BY <2>1, TablesTyped
      <3> QED BY <3>1, <3>2
  <2>3. ASSUME NEW g \in Gens, NEW s \in G!Slots
        PROVE  /\ obj[g][s] # "none" => digest'[g][s] = digest[g][s]
               /\ obj[g][s] = "none" /\ gen[g] # "pending" => obj'[g][s] = "none"
               /\ s \in uploaded'[g] => s \in uploaded[g] \/ obj[g][s] = "pending"
               /\ gen'[g] = gen[g] \/ gen[g] = "none" \/ gen[g] = "pending"
               /\ gen'[g] = "none" => gen[g] = "none"
               /\ gen[g] # "none" => members'[g] = members[g] /\ prior'[g] = prior[g]
      <3> DEFINE Claim ==
               /\ obj[g][s] # "none" => digest'[g][s] = digest[g][s]
               /\ obj[g][s] = "none" /\ gen[g] # "pending" => obj'[g][s] = "none"
               /\ s \in uploaded'[g] => s \in uploaded[g] \/ obj[g][s] = "pending"
               /\ gen'[g] = gen[g] \/ gen[g] = "none" \/ gen[g] = "pending"
               /\ gen'[g] = "none" => gen[g] = "none"
               /\ gen[g] # "none" => members'[g] = members[g] /\ prior'[g] = prior[g]
      <3>0. /\ gen \in [Gens -> {"none", "pending", "committed", "failed"}]
            /\ members \in [Gens -> SUBSET Codes]
            /\ obj \in [Gens -> [G!Slots -> {"none", "pending", "committed", "superseded", "orphan", "deleted"}]]
            /\ uploaded \in [Gens -> SUBSET G!Slots]
            /\ DOMAIN prior = Gens
            /\ DOMAIN digest = Gens /\ DOMAIN digest[g] = G!Slots
          BY <2>1, TablesTyped
      <3>1. ASSUME UNCHANGED tables PROVE Claim
          BY <3>1 DEF tables
      <3>2. ASSUME NEW h \in Gens, NEW M, NEW e, G!Begin(h, M, e) PROVE Claim
          BY <3>0, <3>2 DEF G!Begin
      <3>3. ASSUME NEW h \in Gens, NEW D, G!RegisterPendingObjects(h, D) PROVE Claim
          BY <3>0, <3>3 DEF G!RegisterPendingObjects
      <3>4. ASSUME NEW h \in Gens, NEW t, G!MarkObjectUploaded(h, t) PROVE Claim
          BY <3>0, <3>4 DEF G!MarkObjectUploaded
      <3>5. ASSUME NEW h \in Gens, NEW S, G!MarkObjectsUploaded(h, S) PROVE Claim
          BY <3>0, <3>5 DEF G!MarkObjectsUploaded, G!Pending
      <3>6. ASSUME NEW h \in Gens, G!Commit(h) PROVE Claim
        <4>1. /\ gen[h] = "pending" /\ gen' = [gen EXCEPT ![h] = "committed"]
              /\ \A t \in G!Slots : obj[h][t] = "pending" <=> t \in G!SlotsOf(h)
              /\ \A t \in G!Slots : obj'[h][t] = IF t \in G!SlotsOf(h) THEN "committed" ELSE obj[h][t]
              /\ \A k \in Gens \ {h}, t \in G!Slots :
                    obj'[k][t] = IF Displaced(h, k, t) THEN G!DisplacedStatus(h) ELSE obj[k][t]
              /\ UNCHANGED <<members, prior, sealed, digest, uploaded, purged>>
            BY <3>6, CommitMoves
        <4>2. obj[g][s] = "none" /\ gen[g] # "pending" => obj'[g][s] = "none"
            BY <4>1 DEF Displaced
        <4> QED BY <4>1, <4>2, <3>0
      <3>7. ASSUME NEW h \in Gens, G!Fail(h) PROVE Claim
          BY <3>0, <3>7 DEF G!Fail
      <3>8. ASSUME NEW R \in SUBSET G!OrphanRows, G!DeleteOrphanObjects(R) PROVE Claim
        <4>1. <<g, s>> \in R => obj[g][s] = "orphan"
            BY DEF G!OrphanRows
        <4> QED BY <3>0, <3>8, <4>1 DEF G!DeleteOrphanObjects
      <3>9. ASSUME NEW h \in Gens, NEW S, G!StageLatest(h, S) \/ G!SetObjectSetDigest(h, S) \/ G!MarkPurged(h, S)
            PROVE  Claim
          BY <3>0, <3>9 DEF G!StageLatest, G!SetObjectSetDigest, G!MarkPurged
      <3> HIDE DEF Claim
      <3>10. ASSUME G!Next PROVE Claim
        <4>1. ASSUME NEW h \in Gens, NEW t, NEW d, G!RegisterPendingObject(h, t, d) PROVE Claim
            BY <4>1, <3>3 DEF G!RegisterPendingObject
        <4> QED BY <3>10, <4>1, <3>2, <3>3, <3>4, <3>5, <3>6, <3>7, <3>8, <3>9, Zenon DEF G!Next
      <3>11. Claim
          BY <3>1, <3>10
      <3> QED BY <3>11 DEF Claim
  <2>4. TablesMove
      <3>1. "delta" \in G!Slots
          BY DEF G!Slots
      <3> QED BY <2>2, <2>3, <3>1 DEF TablesMove
  <2> QED BY <1>2, <1>3, <2>4

-----------------------------------------------------------------------------
(* The variables of the runs and of the sweeper.                           *)
LEMMA RunsTyped ==
    ASSUME TypeOK
    PROVE  /\ pc \in [Gens -> {"idle", "begin", "register", "put", "mark", "list", "fetch", "stage",
                         "seal", "commit", "failing", "done", "exit", "stopped"}]
           /\ read \in [Gens -> [G!Slots -> Gens \cup {NoGen}]]
           /\ handled \in [Gens -> SUBSET G!Slots] /\ batch \in [Gens -> SUBSET G!Slots]
           /\ tries \in [Gens -> 0..MaxAttempts] /\ blob \subseteq Gens \X G!Slots
           /\ swRows \subseteq Gens \X G!Slots /\ swOnly \subseteq Gens /\ swGone \subseteq Gens \X G!Slots
BY DEF TypeOK

(* What a run has read is there, and stays what it is.                     *)
LEMMA ReadFacts ==
    ASSUME DInv, NEW g \in Gens, NEW s \in G!Slots
    PROVE  /\ DigestRead(g, s) \in Contents \cup {Absent}
           /\ read[g][s] = NoGen <=> DigestRead(g, s) = Absent
           /\ read[g][s] # NoGen =>
                 /\ read[g][s] \in Gens /\ gen[read[g][s]] = "committed" /\ obj[read[g][s]][s] # "none"
                 /\ DigestRead(g, s) = digest[read[g][s]][s]
           /\ s \in Codes => ReadContent(g, s) = IF DigestRead(g, s) = Absent THEN Nothing ELSE DigestRead(g, s)
           /\ ContentOf(g, s) \in Contents /\ ContentOf(g, s)[TradeDate[g]] = g
           /\ s \in Codes => ContentOf(g, s) = OwnDay(g, ReadContent(g, s)) /\ ReadContent(g, s) \in Contents
           /\ s \notin Codes => ContentOf(g, s) = OwnDay(g, Nothing)
<1>1. read[g][s] \in Gens \cup {NoGen}
    BY RunsTyped DEF DInv
<1>2. read[g][s] # NoGen =>
                 /\ read[g][s] \in Gens /\ gen[read[g][s]] = "committed" /\ obj[read[g][s]][s] # "none"
                 /\ DigestRead(g, s) = digest[read[g][s]][s]
    BY <1>1 DEF DInv, ReadFits, DigestRead
<1>3. read[g][s] # NoGen => digest[read[g][s]][s] \in Contents
    BY <1>2 DEF DInv, DigestsFit
<1>4. Absent \notin Contents /\ Nothing \in Contents
    BY Bounds, ContentsHave
<1>5. DigestRead(g, s) \in Contents \cup {Absent} /\ (read[g][s] = NoGen <=> DigestRead(g, s) = Absent)
    BY <1>2, <1>3, <1>4 DEF DigestRead
<1>6. ReadContent(g, s) = IF DigestRead(g, s) = Absent THEN Nothing ELSE DigestRead(g, s)
    BY <1>2, <1>5 DEF ReadContent, DigestRead
<1>7. ReadContent(g, s) \in Contents
    BY <1>4, <1>5, <1>6
<1>8. ContentOf(g, s) = IF s \in Codes THEN OwnDay(g, ReadContent(g, s)) ELSE OwnDay(g, Nothing)
    BY DEF ContentOf, Merged, OwnDay
<1>9. ContentOf(g, s) \in Contents /\ ContentOf(g, s)[TradeDate[g]] = g
    BY <1>4, <1>7, <1>8, ContentsHave
<1> QED BY <1>2, <1>5, <1>6, <1>7, <1>8, <1>9

LEMMA ReadKept ==
    ASSUME DInv, TablesMove, NEW g \in Gens, NEW s \in G!Slots, read'[g][s] = read[g][s]
    PROVE  /\ DigestRead(g, s)' = DigestRead(g, s)
           /\ ReadContent(g, s)' = ReadContent(g, s)
           /\ ContentOf(g, s)' = ContentOf(g, s)
<1>1. read[g][s] # NoGen => digest'[read[g][s]][s] = digest[read[g][s]][s]
    BY ReadFacts DEF TablesMove
<1>2. DigestRead(g, s)' = DigestRead(g, s) /\ ReadContent(g, s)' = ReadContent(g, s)
    BY <1>1 DEF DigestRead, ReadContent
<1> QED BY <1>2 DEF ContentOf, Merged

LEMMA MissingKept ==
    ASSUME DInv, TablesMove, NEW g \in Gens, \A s \in Codes : read'[g][s] = read[g][s]
    PROVE  Missing(g)' = Missing(g)
<1>1. \A c \in Candidates[g] : c \in G!Slots /\ c \in Codes
    BY Bounds DEF G!Slots
<1>2. \A c \in Candidates[g] : ReadContent(g, c)' = ReadContent(g, c)
    BY <1>1, ReadKept
<1> QED BY <1>2 DEF Missing

LEMMA SlotsKept ==
    ASSUME NEW g \in Gens, members'[g] = members[g]
    PROVE  G!SlotsOf(g)' = G!SlotsOf(g)
BY DEF G!SlotsOf, G!SlotsWith, G!SeriesWith

LEMMA RegisteredKept ==
    ASSUME DInv, TablesMove, NEW g \in Gens, members'[g] = members[g],
           NEW S \in SUBSET G!Slots, Registered(g, S), \A s \in S \cap Codes : read'[g][s] = read[g][s]
    PROVE  Registered(g, S)'
<1> SUFFICES ASSUME NEW s \in S
             PROVE  s \in G!SlotsOf(g)' /\ obj'[g][s] # "none" /\ digest'[g][s] = ContentOf(g, s)'
    BY DEF Registered
<1>1. s \in G!SlotsOf(g) /\ obj[g][s] # "none" /\ digest[g][s] = ContentOf(g, s)
    BY DEF Registered
<1>2. s \in G!SlotsOf(g)' /\ obj'[g][s] # "none" /\ digest'[g][s] = digest[g][s]
    BY <1>1, SlotsKept DEF TablesMove
<1>3. ContentOf(g, s)' = ContentOf(g, s)
    <2>1. CASE s \in Codes
        BY <2>1, ReadKept
    <2>2. CASE s \notin Codes
        BY <2>2 DEF ContentOf
    <2> QED BY <2>1, <2>2
<1> QED BY <1>1, <1>2, <1>3

-----------------------------------------------------------------------------
(* The calls of the writers and of the sweeper are calls of the tables.    *)
LEMMA BatchesFit ==
    ASSUME DInv, NEW g \in Gens, pc[g] = "register", NEW S \in NextBatches(g)
    PROVE  /\ S \in SUBSET G!SlotsOf(g)
           /\ ~IsSeed(g) => \/ handled[g] = {} /\ S = {FirstSlot(g)}
                            \/ /\ handled[g] # {} /\ Profile[g] \in G!DailySeriesProfiles
                               /\ S \subseteq Codes
<1>1. members[g] \subseteq Codes
    BY TableFacts, TablesTyped
<1>2. RunFits(g) /\ FirstFits(g)
    BY DEF DInv, RunFits
<1>3. CASE IsSeed(g)
    <2>1. S = {"delta"} \/ S = members[g]
        BY <1>3 DEF NextBatches
    <2> QED BY <1>3, <2>1, SlotsAre
<1>4. CASE ~IsSeed(g) /\ FirstSlot(g) \notin handled[g]
    <2>1. S = {FirstSlot(g)} /\ handled[g] = {}
        BY <1>2, <1>4 DEF NextBatches, FirstFits, Going, Begun
    <2>2. FirstSlot(g) \in G!SlotsOf(g)
        BY <1>4, Bounds, SlotsAre DEF FirstSlot, IsSeed, G!DailySeriesProfiles
    <2> QED BY <2>1, <2>2
<1>5. CASE ~IsSeed(g) /\ FirstSlot(g) \in handled[g]
    <2>1. PICK c \in members[g] \ handled[g] : S = {c}
        BY <1>5 DEF NextBatches
    <2>2. Profile[g] \in G!DailySeriesProfiles
        BY <1>2, <1>5 DEF FirstFits
    <2> QED BY <1>1, <1>5, <2>1, <2>2, SlotsAre
<1> QED BY <1>3, <1>4, <1>5

LEMMA CallsCall == DInv /\ [Next]_vars => G!Next \/ UNCHANGED tables
<1> SUFFICES ASSUME DInv, [Next]_vars PROVE G!Next \/ UNCHANGED tables
    OBVIOUS
<1> DEFINE Calls == G!Next \/ UNCHANGED tables
<1>0. G!TypeOK /\ TypeOK
    BY DEF DInv, TypeOK
<1>1. ASSUME NEW g \in Gens, Begin(g) PROVE Calls
    <2> DEFINE M == CodesToBegin(g)
    <2>1. M \in SUBSET Candidates[g]
        BY DEF CodesToBegin, Missing
    <2>2. \A s \in G!Expectations(g, M) : s \in G!Slots
        BY <2>1, Bounds DEF G!Expectations, G!Slots
    <2>3. Expected(g) \in [G!Expectations(g, M) -> Contents \cup {Absent}]
        BY <2>2, ReadFacts DEF Expected
    <2>4. G!Begin(g, M, Expected(g)) \/ UNCHANGED tables
        BY <1>1 DEF Begin
    <2> HIDE DEF M
    <2> QED BY <2>1, <2>3, <2>4 DEF G!Next
<1>2. ASSUME NEW g \in Gens, NEW S \in NextBatches(g), Register(g, S) PROVE Calls
    <2> DEFINE D == [s \in S |-> ContentOf(g, s)]
    <2>1. S \in SUBSET G!SlotsOf(g)
        BY <1>2, BatchesFit DEF Register
    <2>2. D \in [S -> Contents]
        BY <1>0, <2>1, SlotsSubset, ReadFacts
    <2>3. G!RegisterPendingObjects(g, D) \/ UNCHANGED tables
        BY <1>2 DEF Register
    <2> HIDE DEF D
    <2> QED BY <2>1, <2>2, <2>3 DEF G!Next
<1>3. ASSUME NEW g \in Gens, Mark(g) PROVE Calls
    <2>1. UNCHANGED tables \/ (batch[g] \subseteq G!Pending(g) /\ G!MarkObjectsUploaded(g, batch[g]))
        BY <1>3 DEF Mark
    <2>2. G!Pending(g) \subseteq G!SlotsOf(g)
        BY TableFacts DEF G!Pending
    <2> QED BY <2>1, <2>2 DEF G!Next
<1>4. ASSUME NEW g \in Gens, Stage(g) PROVE Calls
    BY <1>4 DEF Stage, G!Next
<1>5. ASSUME NEW g \in Gens, Seal(g) PROVE Calls
    <2>1. handled[g] \in SUBSET G!SlotsOf(g)
        BY DEF DInv, RunFits
    <2>2. UNCHANGED tables \/ G!SetObjectSetDigest(g, handled[g])
        BY <1>5 DEF Seal
    <2> QED BY <2>1, <2>2 DEF G!Next
<1>6. ASSUME NEW g \in Gens, Commit(g) \/ FailGeneration(g) PROVE Calls
    BY <1>6 DEF Commit, FailGeneration, G!Next
<1>7. ASSUME NEW r \in swGone, SweepPurge(r) PROVE Calls
    <2>1. r[1] \in Gens /\ r[2] \in G!Slots
        BY <1>0, RunsTyped
    <2>2. UNCHANGED tables \/ G!MarkPurged(r[1], r[2])
        BY <1>7 DEF SweepPurge
    <2>3. G!MarkPurged(r[1], r[2]) => r[2] \in G!SlotsOf(r[1])
        BY <2>1, TableFacts DEF G!MarkPurged
    <2> QED BY <2>1, <2>2, <2>3 DEF G!Next
<1>8. ASSUME SweepDeleteRows PROVE Calls
    BY <1>8 DEF SweepDeleteRows, G!Next
<1>9. ASSUME NEW g \in Gens, Start(g) \/ Fetch(g) \/ Put(g) \/ List(g) \/ Interrupt(g) \/ ReRun(g) PROVE Calls
    BY <1>9 DEF Start, Fetch, Put, List, Interrupt, ReRun
<1>10. ASSUME SweeperStep PROVE Calls
    <2>1. ASSUME NEW deletes, SweepList(deletes) PROVE Calls
        BY <2>1 DEF SweepList
    <2>2. ASSUME NEW r, SweepObject(r) PROVE Calls
        BY <2>2 DEF SweepObject
    <2>3. ASSUME SweepClassify \/ SweepPrefix \/ SweepEnd \/ SweepKilled PROVE Calls
        BY <2>3 DEF SweepClassify, SweepPrefix, SweepEnd, SweepKilled
    <2> HIDE DEF Calls
    <2> QED BY <1>7, <1>8, <1>10, <2>1, <2>2, <2>3, Zenon DEF SweeperStep
<1>11. ASSUME UNCHANGED vars PROVE Calls
    BY <1>11 DEF vars
<1> HIDE DEF Calls
<1>12. ASSUME Next PROVE Calls
    BY <1>12, <1>1, <1>2, <1>3, <1>4, <1>5, <1>6, <1>9, <1>10, Zenon DEF Next, RunStep
<1>13. Calls
    BY <1>11, <1>12
<1> QED BY <1>13 DEF Calls

-----------------------------------------------------------------------------
(* A run changes nothing of another run, the sweeper nothing of a run, and *)
(* a run nothing of the sweeper.                                           *)
StaysOf(h) ==
    /\ gen'[h] = gen[h] /\ members'[h] = members[h] /\ prior'[h] = prior[h] /\ sealed'[h] = sealed[h]
    /\ pc'[h] = pc[h] /\ read'[h] = read[h] /\ handled'[h] = handled[h] /\ batch'[h] = batch[h]

RunMoves(g) == RunStep(g) \/ Interrupt(g) \/ ReRun(g)

Places == {"idle", "begin", "register", "put", "mark", "list", "fetch", "stage",
           "seal", "commit", "failing", "done", "exit", "stopped"}

LEMMA RunStays ==
    ASSUME DInv, NEW g \in Gens, RunMoves(g)
    PROVE  /\ \A h \in Gens \ {g} : StaysOf(h)
           /\ UNCHANGED sweeper
           /\ pc' \in [Gens -> Places]
           /\ tries' \in [Gens -> 0..MaxAttempts]
<1>0. /\ TypeOK /\ G!TypeOK
    BY TableFacts DEF DInv
<1> DEFINE Stays == \A h \in Gens \ {g} : StaysOf(h)
           Moves == Stays /\ UNCHANGED sweeper /\ (\E l \in Places : Goto(g, l))
<1> USE TablesTyped, RunsTyped, <1>0
<1>1. ASSUME Start(g) PROVE Moves /\ tries' = [tries EXCEPT ![g] = @ + 1] /\ tries[g] < MaxAttempts
    <2>1. UNCHANGED tables /\ UNCHANGED batch /\ handled' = [handled EXCEPT ![g] = {}] /\ UNCHANGED sweeper
        BY <1>1 DEF Start
    <2>2. \E l \in Places : Goto(g, l)
        BY <1>1 DEF Start, Places
    <2>3. \E S : ListFor(g, S)
        BY <1>1 DEF Start
    <2>4. \A h \in Gens \ {g} : read'[h] = read[h]
        BY <2>3 DEF ListFor
    <2>5. Stays
        BY <2>1, <2>2, <2>4 DEF StaysOf, Goto, tables
    <2> QED BY <1>1, <2>1, <2>2, <2>5 DEF Start
<1>2. ASSUME Fetch(g) PROVE Moves /\ UNCHANGED tries
    <2>1. \E l \in Places : Goto(g, l)
        BY <1>2 DEF Fetch, Places, OnError
    <2> QED BY <1>2, <2>1 DEF Fetch, StaysOf, Goto, tables
<1>3. ASSUME Begin(g) PROVE Moves /\ UNCHANGED tries
    <2>1. \E l \in Places : Goto(g, l)
        BY <1>3 DEF Begin, Places
    <2>2. UNCHANGED tables \/ (\E M, e : G!Begin(g, M, e))
        BY <1>3 DEF Begin
    <2>3. \A h \in Gens \ {g} : gen'[h] = gen[h] /\ members'[h] = members[h] /\ prior'[h] = prior[h]
                                 /\ sealed'[h] = sealed[h]
        BY <2>2 DEF G!Begin, tables
    <2> QED BY <1>3, <2>1, <2>3 DEF Begin, StaysOf, Goto
<1>4. ASSUME NEW S, Register(g, S) PROVE Moves /\ UNCHANGED tries
    <2>1. \E l \in Places : Goto(g, l)
        BY <1>4 DEF Register, Places, OnError
    <2>2. UNCHANGED <<gen, members, prior, sealed>>
        BY <1>4 DEF Register, G!RegisterPendingObjects, tables
    <2>3. batch' = batch \/ batch' = [batch EXCEPT ![g] = S]
        BY <1>4 DEF Register
    <2> QED BY <1>4, <2>1, <2>2, <2>3 DEF Register, StaysOf, Goto
<1>5. ASSUME Put(g) PROVE Moves /\ UNCHANGED tries
    <2>1. \E l \in Places : Goto(g, l)
        BY <1>5 DEF Put, Places
    <2> QED BY <1>5, <2>1 DEF Put, StaysOf, Goto, tables
<1>6. ASSUME Mark(g) PROVE Moves /\ UNCHANGED tries
    <2>1. \E l \in Places : Goto(g, l)
        BY <1>6 DEF Mark, Places, OnError, AfterMark
    <2>2. UNCHANGED <<gen, members, prior, sealed>>
        BY <1>6 DEF Mark, G!MarkObjectsUploaded, tables
    <2>3. handled' = handled \/ handled' = [handled EXCEPT ![g] = @ \cup batch[g]]
        BY <1>6 DEF Mark
    <2> QED BY <1>6, <2>1, <2>2, <2>3 DEF Mark, StaysOf, Goto
<1>7. ASSUME List(g) PROVE Moves /\ UNCHANGED tries
    <2>1. \E l \in Places : Goto(g, l)
        BY <1>7 DEF List, Places
    <2>2. \A h \in Gens \ {g} : read'[h] = read[h]
        BY <1>7 DEF List, ListFor
    <2> QED BY <1>7, <2>1, <2>2 DEF List, StaysOf, Goto, tables
<1>8. ASSUME Stage(g) PROVE Moves /\ UNCHANGED tries
    <2>1. \E l \in Places : Goto(g, l)
        BY <1>8 DEF Stage, Places
    <2> QED BY <1>8, <2>1 DEF Stage, StaysOf, Goto, G!StageLatest
<1>9. ASSUME Seal(g) PROVE Moves /\ UNCHANGED tries
    <2>1. \E l \in Places : Goto(g, l)
        BY <1>9 DEF Seal, Places, OnError
    <2>2. UNCHANGED <<gen, members, prior>> /\ \A h \in Gens \ {g} : sealed'[h] = sealed[h]
        BY <1>9 DEF Seal, G!SetObjectSetDigest, tables
    <2> QED BY <1>9, <2>1, <2>2 DEF Seal, StaysOf, Goto
<1>10. ASSUME Commit(g) PROVE Moves /\ UNCHANGED tries
    <2>1. \E l \in Places : Goto(g, l)
        BY <1>10 DEF Commit, Places, OnError
    <2>2. UNCHANGED <<sealed, members, prior>> /\ \A h \in Gens \ {g} : gen'[h] = gen[h]
        BY <1>10 DEF Commit, G!Commit, tables
    <2> QED BY <1>10, <2>1, <2>2 DEF Commit, StaysOf, Goto
<1>11. ASSUME FailGeneration(g) PROVE Moves /\ UNCHANGED tries
    <2>1. \E l \in Places : Goto(g, l)
        BY <1>11 DEF FailGeneration, Places
    <2>2. UNCHANGED <<sealed, members, prior>> /\ \A h \in Gens \ {g} : gen'[h] = gen[h]
        BY <1>11 DEF FailGeneration, G!Fail, tables
    <2> QED BY <1>11, <2>1, <2>2 DEF FailGeneration, StaysOf, Goto
<1>12. ASSUME Interrupt(g) \/ ReRun(g) PROVE Moves /\ UNCHANGED tries
    <2>1. \E l \in Places : Goto(g, l)
        BY <1>12 DEF Interrupt, ReRun, Places
    <2> QED BY <1>12, <2>1 DEF Interrupt, ReRun, StaysOf, Goto, tables
<1>13. tries[g] \in 0..MaxAttempts /\ MaxAttempts \in Nat
    BY MaxAttemptsAssumption
<1> HIDE DEF Moves
<1>14. Moves /\ (UNCHANGED tries \/ (tries' = [tries EXCEPT ![g] = @ + 1] /\ tries[g] < MaxAttempts))
    BY <1>1, <1>2, <1>3, <1>4, <1>5, <1>6, <1>7, <1>8, <1>9, <1>10, <1>11, <1>12, Zenon DEF RunMoves, RunStep
<1>15. tries' \in [Gens -> 0..MaxAttempts]
    <2>1. tries \in [Gens -> 0..MaxAttempts]
        OBVIOUS
    <2>2. CASE UNCHANGED tries
        BY ONLY <2>1, <2>2
    <2>3. CASE tries' = [tries EXCEPT ![g] = @ + 1] /\ tries[g] < MaxAttempts
      <3>1. tries[g] + 1 \in 0..MaxAttempts
          BY ONLY <1>13, <2>3
      <3> QED BY ONLY <2>1, <2>3, <3>1
    <2> QED BY <1>14, <2>2, <2>3
<1>16. pc' \in [Gens -> Places]
    BY <1>14 DEF Moves, Goto, Places
<1> QED BY <1>14, <1>15, <1>16 DEF Moves

LEMMA SweeperStays ==
    ASSUME DInv, SweeperStep
    PROVE  (\A h \in Gens : StaysOf(h)) /\ UNCHANGED run
<1> DEFINE Stays == UNCHANGED <<gen, members, prior, sealed>> /\ UNCHANGED run
<1>1. ASSUME NEW deletes, SweepList(deletes) PROVE Stays
    BY <1>1 DEF SweepList, tables
<1>2. ASSUME NEW r, SweepObject(r) PROVE Stays
    BY <1>2 DEF SweepObject, tables
<1>3. ASSUME NEW r, SweepPurge(r) PROVE Stays
    BY <1>3 DEF SweepPurge, tables, G!MarkPurged
<1>4. ASSUME SweepDeleteRows PROVE Stays
    BY <1>4 DEF SweepDeleteRows, G!DeleteOrphanObjects
<1>5. ASSUME SweepClassify \/ SweepPrefix \/ SweepEnd \/ SweepKilled PROVE Stays
    BY <1>5 DEF SweepClassify, SweepPrefix, SweepEnd, SweepKilled, tables
<1> HIDE DEF Stays
<1>6. Stays
    BY <1>1, <1>2, <1>3, <1>4, <1>5, Zenon DEF SweeperStep
<1> QED BY <1>6 DEF Stays, StaysOf, run

(* Which objects come and go: a run puts pending rows, and the sweeper     *)
(* deletes what is no row or an orphan.                                    *)
LEMMA BlobMoves ==
    ASSUME DInv, Next, NEW h \in Gens, NEW s \in G!Slots
    PROVE  /\ <<h, s>> \in blob /\ <<h, s>> \notin blob' =>
                 gen[h] # "pending" /\ obj[h][s] \in {"none", "orphan", "deleted"}
           /\ <<h, s>> \notin blob /\ <<h, s>> \in blob' =>
                 gen[h] = "pending" /\ obj[h][s] = "pending"
<1> DEFINE Good == /\ <<h, s>> \in blob /\ <<h, s>> \notin blob' =>
                         gen[h] # "pending" /\ obj[h][s] \in {"none", "orphan", "deleted"}
                   /\ <<h, s>> \notin blob /\ <<h, s>> \in blob' =>
                         gen[h] = "pending" /\ obj[h][s] = "pending"
<1>0. TypeOK /\ SweepFits
    BY DEF DInv
<1>1. ASSUME UNCHANGED blob PROVE Good
    BY <1>1
<1>2. ASSUME NEW g \in Gens, Put(g) PROVE Good
    <2>1. /\ blob' = blob \cup ({g} \X batch[g]) /\ RunFits(g)
        BY <1>2 DEF Put, DInv
    <2>2. gen[g] = "pending" /\ \A t \in batch[g] : obj[g][t] # "none"
        BY <1>2, <2>1 DEF Put, RunFits, Registered, Begun
    <2>3. \A t \in batch[g] : t \in G!Slots
        BY <1>0, RunsTyped
    <2>4. \A t \in batch[g] : obj[g][t] = "pending"
        BY <2>2, <2>3, TableFacts
    <2> QED BY <2>1, <2>2, <2>4
<1>3. ASSUME SweepPrefix PROVE Good
    <2>1. blob' = blob \/ \E g \in swOnly : blob' = blob \ {<<g, "snapshot">>}
        BY <1>3 DEF SweepPrefix
    <2>2. ASSUME NEW g \in swOnly PROVE gen[g] # "pending" /\ obj[g]["snapshot"] \in {"none", "orphan", "deleted"}
        BY <1>0 DEF SweepFits
    <2> QED BY <2>1, <2>2
<1>4. ASSUME NEW r \in swRows, SweepObject(r) PROVE Good
    <2>1. blob' = blob \/ blob' = blob \ {r}
        BY <1>4 DEF SweepObject
    <2>2. r[1] \in Gens /\ r[2] \in G!Slots /\ obj[r[1]][r[2]] \in {"orphan", "deleted"}
        BY <1>0, RunsTyped DEF SweepFits
    <2>3. gen[r[1]] # "pending"
        BY <2>2, TableFacts
    <2> QED BY <2>1, <2>2, <2>3
<1>5. ASSUME NEW g \in Gens, Start(g) \/ Fetch(g) \/ Begin(g) \/ Mark(g) \/ List(g) \/ Stage(g) \/ Seal(g)
                             \/ Commit(g) \/ FailGeneration(g) \/ Interrupt(g) \/ ReRun(g)
      PROVE  UNCHANGED blob
    BY <1>5 DEF Start, Fetch, Begin, Mark, List, Stage, Seal, Commit, FailGeneration, Interrupt, ReRun
<1>6. ASSUME NEW g, NEW S, Register(g, S) PROVE UNCHANGED blob
    BY <1>6 DEF Register
<1>7. ASSUME NEW r, SweepList(r) \/ SweepPurge(r) PROVE UNCHANGED blob
    BY <1>7 DEF SweepList, SweepPurge
<1>8. ASSUME SweepClassify \/ SweepDeleteRows \/ SweepEnd \/ SweepKilled PROVE UNCHANGED blob
    BY <1>8 DEF SweepClassify, SweepDeleteRows, SweepEnd, SweepKilled
<1> HIDE DEF Good
<1>9. Good
    BY <1>1, <1>2, <1>3, <1>4, <1>5, <1>6, <1>7, <1>8, Zenon DEF Next, RunStep, SweeperStep
<1> QED BY <1>9 DEF Good

LEMMA StayedFits ==
    ASSUME DInv, Next, TablesMove, NEW h \in Gens, StaysOf(h)
    PROVE  RunFits(h)'
<1>0. RunFits(h) /\ TypeOK
    BY DEF DInv
<1>1. handled[h] \in SUBSET G!Slots /\ batch[h] \in SUBSET G!Slots
    BY <1>0, RunsTyped
<1>2. G!SlotsOf(h)' = G!SlotsOf(h)
    BY SlotsKept DEF StaysOf
<1>3. \A S \in SUBSET G!Slots : Registered(h, S) => Registered(h, S)'
    BY RegisteredKept DEF StaysOf
<1>4. /\ pc[h] \in Going => Registered(h, handled[h])'
      /\ pc[h] \in {"put", "mark"} => Registered(h, batch[h])'
    <2>1. /\ pc[h] \in Going => Registered(h, handled[h])
          /\ pc[h] \in {"put", "mark"} => Registered(h, batch[h])
        BY <1>0 DEF RunFits
    <2> QED BY <1>1, <1>3, <2>1 DEF StaysOf, Registered
<1>5. ASSUME pc[h] = "mark", NEW s \in batch[h]
      PROVE  <<h, s>> \in blob'
    <2>1. <<h, s>> \in blob /\ gen[h] = "pending"
        BY <1>0, <1>5 DEF RunFits, Begun
    <2> QED BY <1>1, <2>1, BlobMoves
<1>6. /\ AfterBegin(h)' <=> AfterBegin(h)
      /\ Missing(h)' = Missing(h)
      /\ \A s \in G!Slots : DigestRead(h, s)' = DigestRead(h, s)
    <2>1. \A s \in G!Slots : read'[h][s] = read[h][s]
        BY DEF StaysOf
    <2>2. \A s \in Codes : s \in G!Slots
        BY DEF G!Slots
    <2> QED BY <2>1, <2>2, ReadKept, MissingKept DEF AfterBegin, StaysOf
<1>7. SeedKnows(h)'
    <2>1. members[h] \subseteq G!Slots
        BY TableFacts, TablesTyped
    <2> QED BY <1>0, <1>6, <2>1 DEF RunFits, SeedKnows, StaysOf
<1>8. ReconcileKnows(h)'
    <2>1. "snapshot" \in G!Slots
        BY DEF G!Slots
    <2> QED BY <1>0, <1>6, <2>1 DEF RunFits, ReconcileKnows, StaysOf
<1>9. FirstFits(h)'
    BY <1>0 DEF RunFits, FirstFits, StaysOf
<1> QED BY <1>0, <1>2, <1>4, <1>5, <1>7, <1>8, <1>9 DEF RunFits, StaysOf

-----------------------------------------------------------------------------
(* Where a run that is not going on stands, nothing is known of it but its *)
(* slots; and what a run knows it keeps as long as it does not read again. *)
LEMMA OutOfGoing ==
    ASSUME DInv, TablesMove, NEW g \in Gens, pc'[g] \notin Going, handled'[g] \in {handled[g], {}}
    PROVE  RunFits(g)'
<1>1. /\ gen[g] = "none" => handled[g] = {}
      /\ handled[g] \subseteq G!SlotsOf(g)
    BY DEF DInv, RunFits
<1>2. /\ gen'[g] = "none" => gen[g] = "none"
      /\ gen[g] # "none" => members'[g] = members[g]
    BY DEF TablesMove
<1>3. (gen'[g] = "none" => handled'[g] = {}) /\ handled'[g] \subseteq G!SlotsOf(g)'
    BY <1>1, <1>2, SlotsKept
<1>4. ~AfterBegin(g)' /\ pc'[g] # "begin"
    BY DEF AfterBegin, Going
<1>5. SeedKnows(g)' /\ ReconcileKnows(g)'
    BY <1>4 DEF SeedKnows, ReconcileKnows
<1>6. FirstFits(g)'
    BY DEF FirstFits, Going, Begun
<1> QED BY <1>3, <1>5, <1>6 DEF RunFits, Going, Begun

LEMMA KnowsKept ==
    ASSUME DInv, TablesMove, NEW g \in Gens, AfterBegin(g), members'[g] = members[g], prior'[g] = prior[g],
           read'[g] = read[g]
    PROVE  SeedKnows(g)' /\ ReconcileKnows(g)'
<1>1. SeedKnows(g) /\ ReconcileKnows(g)
    BY DEF DInv, RunFits
<1>2. "snapshot" \in G!Slots /\ Codes \subseteq G!Slots /\ members[g] \subseteq G!Slots
    BY TableFacts, TablesTyped
<1>3. Missing(g)' = Missing(g) /\ \A s \in G!Slots : DigestRead(g, s)' = DigestRead(g, s)
    BY <1>2, ReadKept, MissingKept
<1>4. SeedKnows(g)'
    BY <1>1, <1>2, <1>3 DEF SeedKnows
<1>5. ReconcileKnows(g)'
    BY <1>1, <1>2, <1>3 DEF ReconcileKnows
<1> QED BY <1>4, <1>5

(* A run that went on without reading, with what it had registered.        *)
WentOn(g) ==
    /\ members'[g] = members[g] /\ prior'[g] = prior[g] /\ read'[g] = read[g]
    /\ gen'[g] = gen[g]

LEMMA HandledKept ==
    ASSUME DInv, TablesMove, NEW g \in Gens, WentOn(g), pc[g] \in Going
    PROVE  /\ Registered(g, handled[g]) /\ handled[g] \in SUBSET G!Slots
           /\ \A S \in SUBSET G!Slots : Registered(g, S) => Registered(g, S)'
           /\ (gen'[g] = "none" => handled[g] = {}) /\ handled[g] \subseteq G!SlotsOf(g)'
<1>1. /\ RunFits(g) /\ TypeOK
    BY DEF DInv
<1>2. handled[g] \in SUBSET G!Slots
    BY <1>1, RunsTyped
<1>3. Registered(g, handled[g])
    BY <1>1 DEF RunFits
<1>4. \A S \in SUBSET G!Slots : Registered(g, S) => Registered(g, S)'
    BY RegisteredKept DEF WentOn
<1> QED BY <1>1, <1>2, <1>3, <1>4, SlotsKept DEF RunFits, WentOn
(* The same run with the same slots handled, at a place that asks no more. *)
LEMMA SameHandled ==
    ASSUME DInv, TablesMove, NEW g \in Gens, WentOn(g), AfterBegin(g), handled'[g] = handled[g],
           pc'[g] \in Going, pc'[g] # "list", pc'[g] \notin {"put", "mark", "commit"},
           pc'[g] \in Begun \ {"register"} => gen[g] = "pending",
           FirstFits(g)'
    PROVE  RunFits(g)'
<1>1. pc[g] \in Going
    BY DEF AfterBegin, Going
<1>2. Registered(g, handled[g])'
    BY <1>1, HandledKept DEF Registered
<1>3. SeedKnows(g)' /\ ReconcileKnows(g)'
    BY KnowsKept DEF WentOn
<1> QED BY <1>1, <1>2, <1>3, HandledKept DEF RunFits, WentOn

LEMMA StartFits ==
    ASSUME DInv, TablesMove, NEW g \in Gens, Start(g)
    PROVE  RunFits(g)' /\ handled' \in [Gens -> SUBSET G!Slots] /\ batch' = batch
<1>0. TypeOK /\ G!TypeOK
    BY TableFacts DEF DInv
<1>1. handled' = [handled EXCEPT ![g] = {}] /\ batch' = batch
    BY DEF Start
<1>2. handled'[g] = {} /\ handled' \in [Gens -> SUBSET G!Slots]
    BY <1>0, <1>1, RunsTyped
<1>3. \/ IsSeed(g) /\ pc'[g] = "fetch"
      \/ ~IsSeed(g) /\ g \notin Reconciles /\ pc'[g] = "begin"
      \/ g \in Reconciles /\ pc'[g] = "begin" /\ read'[g]["snapshot"] # NoGen
      \/ g \in Reconciles /\ pc'[g] = "exit"
    BY <1>0, RunsTyped DEF Start, Goto
<1>4. CASE pc'[g] = "exit"
    BY <1>1, <1>2, <1>4, OutOfGoing DEF Going, Begun
<1>5. CASE pc'[g] # "exit"
    <2>1. ~AfterBegin(g)'
        BY <1>3, <1>5 DEF AfterBegin, Begun
    <2>2. SeedKnows(g)' /\ ReconcileKnows(g)' /\ FirstFits(g)'
        BY <1>2, <1>3, <1>5, <2>1 DEF SeedKnows, ReconcileKnows, FirstFits
    <2> QED BY <1>1, <1>2, <1>3, <1>5, <2>2 DEF RunFits, Registered, Begun
<1> QED BY <1>1, <1>2, <1>4, <1>5

LEMMA FetchFits ==
    ASSUME DInv, TablesMove, NEW g \in Gens, Fetch(g)
    PROVE  RunFits(g)' /\ UNCHANGED <<handled, batch>>
<1>0. TypeOK /\ G!TypeOK /\ RunFits(g)
    BY TableFacts DEF DInv
<1>1. /\ UNCHANGED <<tables, handled, batch, read>> /\ pc[g] = "fetch"
      /\ \/ pc'[g] = IF IsSeed(g) THEN "begin" ELSE "register"
         \/ pc'[g] = OnError(g)
    BY <1>0, RunsTyped DEF Fetch, Goto
<1>2. CASE pc'[g] = OnError(g)
    BY <1>1, <1>2, OutOfGoing DEF OnError, Going, Begun
<1>3. CASE IsSeed(g) /\ pc'[g] = "begin"
    <2>1. SeedKnows(g)' /\ ReconcileKnows(g)' /\ FirstFits(g)'
        BY <1>3 DEF SeedKnows, ReconcileKnows, FirstFits, AfterBegin, Begun
    <2>2. WentOn(g)
        BY <1>1 DEF WentOn, tables
    <2>3. Registered(g, handled[g])'
        BY <1>1, <2>2, HandledKept DEF Registered, Going
    <2> QED BY <1>1, <1>3, <2>1, <2>2, <2>3, HandledKept DEF RunFits, Begun, Going
<1>4. CASE ~IsSeed(g) /\ pc'[g] = "register"
    <2>1. WentOn(g) /\ AfterBegin(g)
        BY <1>1, <1>4 DEF WentOn, tables, AfterBegin
    <2>2. FirstFits(g)'
        BY <1>0, <1>1, <1>4 DEF RunFits, FirstFits, Going, Begun
    <2> QED BY <1>1, <1>4, <2>1, <2>2, SameHandled DEF Going, Begun
<1> QED BY <1>1, <1>2, <1>3, <1>4

LEMMA BeginFits ==
    ASSUME DInv, TablesMove, NEW g \in Gens, Begin(g)
    PROVE  RunFits(g)' /\ UNCHANGED <<handled, batch>>
<1>0. TypeOK /\ G!TypeOK /\ RunFits(g)
    BY TableFacts DEF DInv
<1> DEFINE M == CodesToBegin(g)
<1>1. /\ UNCHANGED <<handled, batch, read>> /\ pc[g] = "begin"
      /\ \/ pc'[g] \in {"done", "stopped", "exit"}
         \/ pc'[g] = "register" /\ (G!Begin(g, M, Expected(g)) \/ (G!BeginFinds(g, M, Expected(g)) /\ UNCHANGED tables))
    BY <1>0, RunsTyped DEF Begin, Goto
<1>2. CASE pc'[g] \in {"done", "stopped", "exit"}
    BY <1>1, <1>2, OutOfGoing DEF Going, Begun
<1>3. CASE /\ pc'[g] = "register"
           /\ G!Begin(g, M, Expected(g)) \/ (G!BeginFinds(g, M, Expected(g)) /\ UNCHANGED tables)
    <2>1. members'[g] = M /\ \/ prior'[g] = G!PriorGiven(g, M, Expected(g))
                             \/ Profile[g] \in G!SnapshotProfiles /\ Expected(g)["snapshot"] = Absent
        BY <1>0, <1>3, TablesTyped DEF G!Begin, G!BeginFinds, tables
    <2>2. /\ Candidates[g] \subseteq Codes /\ Codes \subseteq G!Slots /\ "snapshot" \in G!Slots
        BY Bounds DEF G!Slots
    <2>3. \A s \in G!Slots : DigestRead(g, s)' = DigestRead(g, s)
        BY <1>1, ReadKept
    <2>4. Missing(g)' = Missing(g)
        BY <1>1, MissingKept
    <2>5. SeedKnows(g)'
        <3> SUFFICES ASSUME IsSeed(g)
                     PROVE  members'[g] = Missing(g) /\ \A c \in members'[g] : prior'[g][c] = DigestRead(g, c)'
            BY <2>4 DEF SeedKnows
        <3>1. M = Missing(g) /\ G!Expectations(g, M) = M
            BY DEF IsSeed, CodesToBegin, G!Expectations
        <3>2. Profile[g] \notin G!SnapshotProfiles
            BY DEF IsSeed, G!SnapshotProfiles
        <3>3. \A c \in M : c \in G!Slots
            BY <2>2, <3>1 DEF Missing
        <3>4. \A c \in M : prior'[g][c] = DigestRead(g, c)
            <4>1. ASSUME NEW c \in M PROVE prior'[g][c] = DigestRead(g, c)
                <5>1. prior'[g] = G!PriorGiven(g, M, Expected(g))
                    BY <2>1, <3>2
                <5>2. Expected(g)[c] = DigestRead(g, c)
                    BY <3>1 DEF Expected
                <5> HIDE DEF M
                <5> QED BY <3>1, <3>3, <5>1, <5>2 DEF G!PriorGiven
            <4> QED BY <4>1
        <3> QED BY <2>1, <2>3, <3>1, <3>3, <3>4
    <2>6. ReconcileKnows(g)'
        <3> SUFFICES ASSUME g \in Reconciles, ~IsSeed(g)
                     PROVE  /\ read'[g]["snapshot"] # NoGen
                            /\ Profile[g] # "web_asof" => prior'[g]["snapshot"] = DigestRead(g, "snapshot")'
            BY DEF ReconcileKnows
        <3>1. read[g]["snapshot"] # NoGen
            BY <1>0, <1>1 DEF RunFits, ReconcileKnows
        <3>2. ASSUME Profile[g] # "web_asof"
              PROVE  prior'[g]["snapshot"] = DigestRead(g, "snapshot")
            <4>1. G!Expectations(g, M) = {"snapshot"}
                BY <3>2 DEF IsSeed, G!Expectations
            <4>2. Expected(g)["snapshot"] = DigestRead(g, "snapshot")
                BY <4>1 DEF Expected
            <4>3. DigestRead(g, "snapshot") # Absent
                BY <2>2, <3>1, ReadFacts
            <4>4. prior'[g] = G!PriorGiven(g, M, Expected(g))
                BY <2>1, <4>2, <4>3
            <4> HIDE DEF M
            <4> QED BY <2>2, <4>1, <4>2, <4>4 DEF G!PriorGiven
        <3> QED BY <1>1, <2>2, <2>3, <3>1, <3>2
    <2>7. ~IsSeed(g) => handled[g] = {}
        BY <1>0, <1>1 DEF RunFits, FirstFits
    <2>8. FirstFits(g)'
        BY <1>1, <1>3, <2>7 DEF FirstFits
    <2>9. handled[g] = {} \/ WentOn(g)
        <3>1. gen[g] = "none" \/ UNCHANGED tables
            BY <1>3 DEF G!Begin
        <3> QED BY <1>0, <1>1, <3>1 DEF RunFits, WentOn, tables
    <2>10. Registered(g, handled[g])' /\ (gen'[g] = "none" => handled'[g] = {}) /\ handled'[g] \subseteq G!SlotsOf(g)'
        <3>1. CASE handled[g] = {}
            BY <1>1, <3>1 DEF Registered
        <3>2. CASE WentOn(g)
            BY <1>1, <3>2, HandledKept DEF Registered, Going
        <3> QED BY <2>9, <3>1, <3>2
    <2> QED BY <1>1, <1>3, <2>5, <2>6, <2>8, <2>10 DEF RunFits, Begun
<1> QED BY <1>1, <1>2, <1>3

(* A registration leaves each slot of the batch with what is written for   *)
(* it, and any other row as it was.                                        *)
LEMMA RegisterMoves ==
    ASSUME DInv, NEW g \in Gens, NEW S \in NextBatches(g), Register(g, S), RegisterAllowed(g, S)
    PROVE  /\ gen[g] = "pending" /\ pc[g] = "register" /\ S \in SUBSET G!SlotsOf(g) /\ S \in SUBSET G!Slots
           /\ UNCHANGED <<gen, members, prior, sealed, uploaded, purged, staged, latest>>
           /\ \A s \in G!Slots :
                 /\ obj'[g][s] = IF s \in S /\ obj[g][s] = "none" THEN "pending" ELSE obj[g][s]
                 /\ digest'[g][s] = IF s \in S /\ obj[g][s] = "none" THEN ContentOf(g, s) ELSE digest[g][s]
           /\ \A s \in S : digest'[g][s] = ContentOf(g, s) /\ obj'[g][s] # "none"
           /\ \A h \in Gens \ {g} : obj'[h] = obj[h] /\ digest'[h] = digest[h]
           /\ batch' = [batch EXCEPT ![g] = S] /\ pc'[g] = "put" /\ UNCHANGED <<read, handled, tries, blob, sweeper>>
<1>0. TypeOK /\ G!TypeOK
    BY TableFacts DEF DInv
<1>1. pc[g] = "register" /\ S \in SUBSET G!SlotsOf(g) /\ S \in SUBSET G!Slots
    BY <1>0, BatchesFit, SlotsSubset DEF Register
<1> DEFINE D == [s \in S |-> ContentOf(g, s)]
<1>2. /\ G!RegisterPendingObjects(g, D) /\ batch' = [batch EXCEPT ![g] = S] /\ Goto(g, "put")
      /\ UNCHANGED <<read, handled, tries, blob, sweeper>>
    BY DEF Register
<1>3. pc'[g] = "put"
    BY <1>0, <1>2, RunsTyped DEF Goto
<1>4. DOMAIN D = S /\ \A s \in S : D[s] = ContentOf(g, s)
    OBVIOUS
<1> HIDE DEF D
<1>5. \A s \in G!Slots :
                 /\ obj'[g][s] = IF s \in S /\ obj[g][s] = "none" THEN "pending" ELSE obj[g][s]
                 /\ digest'[g][s] = IF s \in S /\ obj[g][s] = "none" THEN ContentOf(g, s) ELSE digest[g][s]
    BY <1>0, <1>2, <1>4, TablesTyped DEF G!RegisterPendingObjects
<1>6. \A h \in Gens \ {g} : obj'[h] = obj[h] /\ digest'[h] = digest[h]
    BY <1>0, <1>2, TablesTyped DEF G!RegisterPendingObjects
<1>7. gen[g] = "pending" /\ \A s \in S : obj[g][s] # "none" => digest[g][s] = ContentOf(g, s)
    BY DEF RegisterAllowed
<1>8. \A s \in S : digest'[g][s] = ContentOf(g, s) /\ obj'[g][s] # "none"
    BY <1>1, <1>5, <1>7
<1>9. UNCHANGED <<gen, members, prior, sealed, uploaded, purged, staged, latest>>
    BY <1>2 DEF G!RegisterPendingObjects
<1> QED BY <1>1, <1>2, <1>3, <1>5, <1>6, <1>7, <1>8, <1>9

LEMMA RegisterFits ==
    ASSUME DInv, TablesMove, NEW g \in Gens, NEW S \in NextBatches(g), Register(g, S)
    PROVE  RunFits(g)' /\ handled' = handled /\ batch' \in [Gens -> SUBSET G!Slots]
<1>0. TypeOK /\ G!TypeOK /\ RunFits(g)
    BY TableFacts DEF DInv
<1>1. pc[g] = "register" /\ handled' = handled
    BY DEF Register
<1>2. CASE ~RegisterAllowed(g, S)
    <2>1. batch' = batch /\ pc'[g] = OnError(g)
        BY <1>0, <1>2, RunsTyped DEF Register, Goto
    <2> QED BY <1>0, <1>1, <2>1, RunsTyped, OutOfGoing DEF OnError, Going, Begun
<1>3. CASE RegisterAllowed(g, S)
    <2>1. /\ gen[g] = "pending" /\ S \in SUBSET G!SlotsOf(g) /\ S \in SUBSET G!Slots
          /\ UNCHANGED <<gen, members, prior, sealed>>
          /\ \A s \in S : digest'[g][s] = ContentOf(g, s) /\ obj'[g][s] # "none"
          /\ batch' = [batch EXCEPT ![g] = S] /\ pc'[g] = "put" /\ UNCHANGED <<read, handled, tries, blob, sweeper>>
        BY <1>3, RegisterMoves
    <2>2. batch'[g] = S /\ batch' \in [Gens -> SUBSET G!Slots]
        BY <1>0, <2>1, RunsTyped
    <2>3. WentOn(g) /\ AfterBegin(g)
        BY <1>1, <2>1 DEF WentOn, AfterBegin, Begun
    <2>4. Registered(g, handled[g])'
        BY <1>1, <2>3, HandledKept DEF Registered, Going, Begun
    <2>5. \A s \in S : ContentOf(g, s)' = ContentOf(g, s)
        BY <2>1, ReadKept
    <2>6. Registered(g, batch[g])'
        BY <2>1, <2>2, <2>5, SlotsKept DEF Registered
    <2>7. SeedKnows(g)' /\ ReconcileKnows(g)'
        BY <2>3, KnowsKept DEF WentOn
    <2>8. FirstFits(g)'
        BY <1>0, <1>1, <2>1, <2>2, BatchesFit DEF RunFits, FirstFits, Going, Begun
    <2>9. (gen'[g] = "none" => handled[g] = {}) /\ handled[g] \subseteq G!SlotsOf(g)'
        BY <1>1, <2>3, HandledKept DEF Going, Begun
    <2> QED BY <1>1, <2>1, <2>2, <2>4, <2>6, <2>7, <2>8, <2>9 DEF RunFits
<1> QED BY <1>2, <1>3

LEMMA PutFits ==
    ASSUME DInv, TablesMove, NEW g \in Gens, Put(g)
    PROVE  RunFits(g)' /\ UNCHANGED <<handled, batch>>
<1>0. TypeOK /\ G!TypeOK /\ RunFits(g)
    BY TableFacts DEF DInv
<1>1. /\ pc[g] = "put" /\ pc'[g] = "mark" /\ UNCHANGED <<tables, read, handled, batch>>
      /\ blob' = blob \cup ({g} \X batch[g])
    BY <1>0, RunsTyped DEF Put, Goto
<1>2. WentOn(g) /\ AfterBegin(g)
    BY <1>1 DEF WentOn, AfterBegin, tables, Begun
<1>3. Registered(g, handled[g])'
    BY <1>1, <1>2, HandledKept DEF Registered, Going, Begun
<1>4. Registered(g, batch[g])'
    <2>1. Registered(g, batch[g]) /\ batch[g] \in SUBSET G!Slots
        BY <1>0, <1>1, RunsTyped DEF RunFits
    <2> QED BY <1>1, <1>2, <2>1, HandledKept DEF Registered, Going, Begun
<1>5. SeedKnows(g)' /\ ReconcileKnows(g)'
    BY <1>2, KnowsKept DEF WentOn
<1>6. FirstFits(g)'
    BY <1>0, <1>1 DEF RunFits, FirstFits, Going, Begun
<1>7. (gen'[g] = "none" => handled[g] = {}) /\ handled[g] \subseteq G!SlotsOf(g)'
    BY <1>1, <1>2, HandledKept DEF Going, Begun
<1>8. gen'[g] = "pending"
    BY <1>0, <1>1 DEF RunFits, Begun, tables
<1> QED BY <1>1, <1>3, <1>4, <1>5, <1>6, <1>7, <1>8 DEF RunFits

LEMMA MarkFits ==
    ASSUME DInv, TablesMove, NEW g \in Gens, Mark(g)
    PROVE  RunFits(g)' /\ handled' \in [Gens -> SUBSET G!Slots] /\ batch' \in [Gens -> SUBSET G!Slots]
<1>0. TypeOK /\ G!TypeOK /\ RunFits(g)
    BY TableFacts DEF DInv
<1>1. /\ pc[g] = "mark" /\ batch' = [batch EXCEPT ![g] = {}] /\ UNCHANGED read
    BY DEF Mark
<1>2. batch' \in [Gens -> SUBSET G!Slots] /\ batch[g] \in SUBSET G!Slots /\ handled[g] \in SUBSET G!Slots
    BY <1>0, <1>1, RunsTyped
<1>3. CASE ~(gen[g] = "pending" /\ batch[g] \subseteq G!Pending(g))
    <2>1. handled' = handled /\ pc'[g] = OnError(g)
        BY <1>0, <1>3, RunsTyped DEF Mark, Goto
    <2> QED BY <1>0, <1>2, <2>1, RunsTyped, OutOfGoing DEF OnError, Going, Begun
<1>4. CASE gen[g] = "pending" /\ batch[g] \subseteq G!Pending(g)
    <2> DEFINE H == handled[g] \cup batch[g]
               rest == G!SlotsOf(g) \ H
    <2>1. /\ handled' = [handled EXCEPT ![g] = H] /\ G!MarkObjectsUploaded(g, batch[g])
          /\ Goto(g, AfterMark(g, batch[g]))
        BY <1>4 DEF Mark
    <2>2. handled'[g] = H /\ H \in SUBSET G!Slots /\ handled' \in [Gens -> SUBSET G!Slots]
        BY <1>0, <1>2, <2>1, RunsTyped
    <2>3. pc'[g] = CASE ~IsSeed(g) /\ batch[g] = {"snapshot"} /\ rest # {} -> "list"
                     [] rest # {} -> "register"
                     [] Profile[g] = "snapshot_series_latest" -> "stage"
                     [] OTHER -> "seal"
        BY <1>0, <2>1, RunsTyped DEF Goto, AfterMark
    <2>4. WentOn(g) /\ AfterBegin(g) /\ UNCHANGED gen /\ pc[g] \in Going
        BY <1>1, <2>1 DEF G!MarkObjectsUploaded, WentOn, AfterBegin, Begun, Going
    <2>5. Registered(g, H)
        BY <1>0, <1>1 DEF RunFits, Registered, Going, Begun
    <2>6. Registered(g, handled[g])'
        <3> HIDE DEF H
        <3> QED BY <2>2, <2>4, <2>5, HandledKept DEF Registered
    <2>7. handled'[g] \subseteq G!SlotsOf(g)'
        <3>1. H \subseteq G!SlotsOf(g)
            BY <2>5 DEF Registered
        <3> QED BY <2>2, <2>4, <3>1, SlotsKept DEF WentOn
    <2>8. SeedKnows(g)' /\ ReconcileKnows(g)'
        BY <2>4, KnowsKept DEF WentOn
    <2>9. FirstFits(g)'
        <3> SUFFICES ASSUME ~IsSeed(g) PROVE FirstFits(g)'
            BY DEF FirstFits
        <3>1. \/ handled[g] = {} /\ batch[g] = {FirstSlot(g)}
              \/ handled[g] # {} /\ Profile[g] \in G!DailySeriesProfiles /\ batch[g] \subseteq Codes
            BY <1>0, <1>1 DEF RunFits, FirstFits
        <3>2. FirstSlot(g) \in H
            BY <1>0, <1>1, <3>1 DEF RunFits, FirstFits, Going, Begun
        <3>3. pc'[g] = "list" => H \subseteq {"snapshot"}
            BY <2>3, <3>1, Bounds
        <3>4. rest # {} => Profile[g] \in G!DailySeriesProfiles
            <4>1. Profile[g] \in {"snapshot_only", "snapshot_series", "snapshot_series_latest", "web_asof"}
                BY Bounds DEF IsSeed
            <4>2. CASE Profile[g] \in {"snapshot_only", "web_asof"}
                BY <3>2, <4>2, SlotsAre DEF FirstSlot
            <4> QED BY <4>1, <4>2 DEF G!DailySeriesProfiles
        <3>5. pc'[g] \in {"list", "register", "stage", "seal"} /\ (pc'[g] \in {"list", "register"} => rest # {})
            BY <2>3
        <3> HIDE DEF H, rest
        <3> QED BY <2>2, <3>2, <3>3, <3>4, <3>5 DEF FirstFits
    <2>10. pc'[g] \in {"list", "register", "stage", "seal"} /\ (pc'[g] = "list" => ~IsSeed(g))
        BY <2>3
    <2> HIDE DEF H, rest
    <2> QED BY <1>2, <1>4, <2>2, <2>4, <2>6, <2>7, <2>8, <2>9, <2>10 DEF RunFits
<1> QED BY <1>3, <1>4

LEMMA ListFits ==
    ASSUME DInv, TablesMove, NEW g \in Gens, List(g)
    PROVE  RunFits(g)' /\ UNCHANGED <<handled, batch>>
<1>0. TypeOK /\ G!TypeOK /\ RunFits(g)
    BY TableFacts DEF DInv
<1>1. /\ pc[g] = "list" /\ pc'[g] = "fetch" /\ UNCHANGED <<tables, handled, batch>>
      /\ ListFor(g, Candidates[g])
    BY <1>0, RunsTyped DEF List, Goto
<1>2. ~IsSeed(g) /\ handled[g] \subseteq {"snapshot"} /\ Profile[g] \in G!DailySeriesProfiles
    BY <1>0, <1>1 DEF RunFits, FirstFits
<1>3. "snapshot" \in G!Slots /\ "snapshot" \notin Codes /\ "snapshot" \notin Candidates[g]
    BY Bounds DEF G!Slots
<1>4. read'[g]["snapshot"] = read[g]["snapshot"]
    BY <1>0, <1>1, <1>3, RunsTyped DEF ListFor
<1>5. DigestRead(g, "snapshot")' = DigestRead(g, "snapshot")
    BY <1>3, <1>4, ReadKept
<1>6. members'[g] = members[g] /\ prior'[g] = prior[g] /\ gen'[g] = gen[g]
    BY <1>1 DEF tables
<1>7. Registered(g, handled[g])'
    <2>1. Registered(g, handled[g]) /\ handled[g] \in SUBSET G!Slots
        BY <1>0, <1>1, RunsTyped DEF RunFits, Going, Begun
    <2>2. \A s \in handled[g] : ContentOf(g, s)' = ContentOf(g, s)
        BY <1>2, <1>3 DEF ContentOf
    <2> QED BY <1>1, <1>6, <2>1, <2>2, SlotsKept DEF Registered, TablesMove
<1>8. SeedKnows(g)' /\ ReconcileKnows(g)'
    <2>1. ReconcileKnows(g) /\ AfterBegin(g)
        BY <1>0, <1>1 DEF RunFits, AfterBegin, Begun
    <2> QED BY <1>2, <1>4, <1>5, <1>6, <2>1 DEF SeedKnows, ReconcileKnows
<1>9. FirstFits(g)'
    BY <1>0, <1>1, <1>2 DEF RunFits, FirstFits, Going, Begun
<1>10. (gen'[g] = "none" => handled[g] = {}) /\ handled[g] \subseteq G!SlotsOf(g)'
    BY <1>0, <1>6, SlotsKept DEF RunFits
<1> QED BY <1>1, <1>7, <1>8, <1>9, <1>10 DEF RunFits, Begun

LEMMA StageFits ==
    ASSUME DInv, TablesMove, NEW g \in Gens, Stage(g)
    PROVE  RunFits(g)' /\ UNCHANGED <<handled, batch>>
<1>0. TypeOK /\ G!TypeOK /\ RunFits(g)
    BY TableFacts DEF DInv
<1>1. /\ pc[g] = "stage" /\ pc'[g] = "seal" /\ UNCHANGED <<read, handled, batch>>
      /\ UNCHANGED <<gen, members, prior>>
    BY <1>0, RunsTyped DEF Stage, Goto, G!StageLatest
<1>2. WentOn(g) /\ AfterBegin(g) /\ gen[g] = "pending"
    BY <1>0, <1>1 DEF WentOn, AfterBegin, Begun, RunFits
<1>3. FirstFits(g)'
    BY <1>0, <1>1 DEF RunFits, FirstFits, Going, Begun
<1> QED BY <1>1, <1>2, <1>3, SameHandled DEF Going, Begun

LEMMA SealFits ==
    ASSUME DInv, TablesMove, NEW g \in Gens, Seal(g)
    PROVE  RunFits(g)' /\ UNCHANGED <<handled, batch>>
<1>0. TypeOK /\ G!TypeOK /\ RunFits(g)
    BY TableFacts DEF DInv
<1>1. /\ pc[g] = "seal" /\ UNCHANGED <<read, handled, batch>>
    BY DEF Seal
<1>2. CASE ~(gen[g] = "pending" /\ sealed[g] \in {{}, handled[g]})
    <2>1. pc'[g] = OnError(g)
        BY <1>0, <1>2, RunsTyped DEF Seal, Goto
    <2> QED BY <1>1, <2>1, OutOfGoing DEF OnError, Going, Begun
<1>3. CASE gen[g] = "pending" /\ sealed[g] \in {{}, handled[g]}
    <2>1. G!SetObjectSetDigest(g, handled[g]) /\ pc'[g] = "commit"
        BY <1>0, <1>3, RunsTyped DEF Seal, Goto
    <2>2. sealed'[g] = handled[g] /\ UNCHANGED <<gen, members, prior>>
        BY <1>0, <2>1, TablesTyped DEF G!SetObjectSetDigest
    <2>3. WentOn(g) /\ AfterBegin(g) /\ pc[g] \in Going
        BY <1>1, <2>2 DEF WentOn, AfterBegin, Begun, Going
    <2>4. FirstFits(g)'
        BY <1>0, <1>1, <2>1 DEF RunFits, FirstFits, Going, Begun
    <2>5. Registered(g, handled[g])'
        BY <1>1, <2>3, HandledKept DEF Registered
    <2>6. SeedKnows(g)' /\ ReconcileKnows(g)'
        BY <2>3, KnowsKept DEF WentOn
    <2>7. (gen'[g] = "none" => handled[g] = {}) /\ handled[g] \subseteq G!SlotsOf(g)'
        BY <2>3, HandledKept
    <2> QED BY <1>1, <1>3, <2>1, <2>2, <2>4, <2>5, <2>6, <2>7 DEF RunFits
<1> QED BY <1>2, <1>3

LEMMA EndFits ==
    ASSUME DInv, TablesMove, NEW g \in Gens, Commit(g) \/ FailGeneration(g) \/ Interrupt(g) \/ ReRun(g)
    PROVE  RunFits(g)' /\ UNCHANGED <<handled, batch>>
<1>0. TypeOK
    BY DEF DInv
<1>1. UNCHANGED <<handled, batch>>
    BY DEF Commit, FailGeneration, Interrupt, ReRun
<1>2. pc'[g] \in {"done", "failing", "stopped", "exit", "idle"}
    BY <1>0, RunsTyped DEF Commit, FailGeneration, Interrupt, ReRun, Goto, OnError
<1> QED BY <1>1, <1>2, OutOfGoing DEF Going, Begun

LEMMA OwnFits ==
    ASSUME DInv, TablesMove, NEW g \in Gens, RunMoves(g)
    PROVE  RunFits(g)' /\ handled' \in [Gens -> SUBSET G!Slots] /\ batch' \in [Gens -> SUBSET G!Slots]
<1>1. handled \in [Gens -> SUBSET G!Slots] /\ batch \in [Gens -> SUBSET G!Slots]
    BY RunsTyped DEF DInv
<1> DEFINE Fits == RunFits(g)' /\ handled' \in [Gens -> SUBSET G!Slots] /\ batch' \in [Gens -> SUBSET G!Slots]
<1>2. ASSUME NEW S \in NextBatches(g), Register(g, S) PROVE Fits
    BY <1>1, <1>2, RegisterFits
<1>3. ASSUME Start(g) PROVE Fits
    BY <1>1, <1>3, StartFits
<1>4. ASSUME Fetch(g) PROVE Fits
    BY <1>1, <1>4, FetchFits
<1>5. ASSUME Begin(g) PROVE Fits
    BY <1>1, <1>5, BeginFits
<1>6. ASSUME Put(g) PROVE Fits
    BY <1>1, <1>6, PutFits
<1>7. ASSUME Mark(g) PROVE Fits
    BY <1>1, <1>7, MarkFits
<1>8. ASSUME List(g) PROVE Fits
    BY <1>1, <1>8, ListFits
<1>9. ASSUME Stage(g) PROVE Fits
    BY <1>1, <1>9, StageFits
<1>10. ASSUME Seal(g) PROVE Fits
    BY <1>1, <1>10, SealFits
<1>11. ASSUME Commit(g) \/ FailGeneration(g) \/ Interrupt(g) \/ ReRun(g) PROVE Fits
    BY <1>1, <1>11, EndFits
<1> HIDE DEF Fits
<1>12. Fits
    BY <1>2, <1>3, <1>4, <1>5, <1>6, <1>7, <1>8, <1>9, <1>10, <1>11, Zenon DEF RunMoves, RunStep
<1> QED BY <1>12 DEF Fits

(* Every step: a run's own, the sweeper's, or none.                        *)
LEMMA WhoMoves ==
    ASSUME Next
    PROVE  SweeperStep \/ \E g \in Gens : RunMoves(g)
BY DEF Next, RunMoves

LEMMA RunsKeep ==
    ASSUME DInv, Next, TablesMove
    PROVE  (\A g \in Gens : RunFits(g)')
           /\ handled' \in [Gens -> SUBSET G!Slots] /\ batch' \in [Gens -> SUBSET G!Slots]
           /\ pc' \in [Gens -> Places] /\ tries' \in [Gens -> 0..MaxAttempts]
<1>1. CASE SweeperStep
    <2>1. (\A h \in Gens : StaysOf(h)) /\ UNCHANGED run
        BY <1>1, SweeperStays
    <2>2. handled' = handled /\ batch' = batch /\ pc' = pc /\ tries' = tries
        BY <2>1 DEF run
    <2>3. TypeOK
        BY DEF DInv
    <2> QED BY <2>1, <2>2, <2>3, RunsTyped, StayedFits DEF Places
<1>2. ASSUME NEW g \in Gens, RunMoves(g)
      PROVE  (\A h \in Gens : RunFits(h)')
             /\ handled' \in [Gens -> SUBSET G!Slots] /\ batch' \in [Gens -> SUBSET G!Slots]
             /\ pc' \in [Gens -> Places] /\ tries' \in [Gens -> 0..MaxAttempts]
    <2>1. \A h \in Gens \ {g} : StaysOf(h)
        BY <1>2, RunStays
    <2>2. \A h \in Gens \ {g} : RunFits(h)'
        BY <2>1, StayedFits
    <2>3. RunFits(g)' /\ handled' \in [Gens -> SUBSET G!Slots] /\ batch' \in [Gens -> SUBSET G!Slots]
        BY <1>2, OwnFits
    <2> QED BY <1>2, <2>2, <2>3, RunStays
<1> QED BY <1>1, <1>2, WhoMoves

-----------------------------------------------------------------------------
(* What is read is a committed holder.                                     *)
LEMMA ReadMoves ==
    ASSUME DInv, Next
    PROVE  /\ read' \in [Gens -> [G!Slots -> Gens \cup {NoGen}]]
           /\ \A g \in Gens, s \in G!Slots :
                 \/ read'[g][s] = read[g][s] \/ read'[g][s] = NoGen
                 \/ read'[g][s] \in G!Holders(s)
<1> DEFINE Good == /\ read' \in [Gens -> [G!Slots -> Gens \cup {NoGen}]]
                   /\ \A g \in Gens, s \in G!Slots :
                         \/ read'[g][s] = read[g][s] \/ read'[g][s] = NoGen
                         \/ read'[g][s] \in G!Holders(s)
<1>0. read \in [Gens -> [G!Slots -> Gens \cup {NoGen}]]
    BY RunsTyped DEF DInv
<1>1. ASSUME UNCHANGED read PROVE Good
    BY <1>0, <1>1
<1>2. ASSUME NEW g \in Gens, NEW S, S \subseteq G!Slots, ListFor(g, S) PROVE Good
    <2>1. PICK f \in [S -> Gens \cup {NoGen}] :
              /\ \A s \in S : Listed(g, s, f[s])
              /\ read' = [read EXCEPT ![g] = [s \in G!Slots |-> IF s \in S THEN f[s] ELSE read[g][s]]]
        BY <1>2 DEF ListFor
    <2>2. \A s \in S : f[s] \in Gens \cup {NoGen} /\ (f[s] = NoGen \/ f[s] \in G!Holders(s))
        BY <2>1 DEF Listed
    <2>3. read' \in [Gens -> [G!Slots -> Gens \cup {NoGen}]]
        BY <1>0, <2>1, <2>2
    <2>4. \A s \in G!Slots : read'[g][s] = IF s \in S THEN f[s] ELSE read[g][s]
        BY <1>0, <2>1
    <2>5. \A h \in Gens \ {g} : read'[h] = read[h]
        BY <1>0, <2>1
    <2> QED BY <2>2, <2>3, <2>4, <2>5
<1>3. ASSUME NEW g \in Gens, Start(g) \/ List(g) PROVE Good
    <2>1. \E S : S \subseteq G!Slots /\ ListFor(g, S)
        <3>1. Candidates[g] \subseteq G!Slots /\ {"snapshot"} \subseteq G!Slots /\ {} \subseteq G!Slots
            BY Bounds DEF G!Slots
        <3>2. ListFor(g, Candidates[g]) \/ ListFor(g, {"snapshot"}) \/ ListFor(g, {})
            BY <1>3 DEF Start, List
        <3> QED BY <3>1, <3>2
    <2> HIDE DEF Good
    <2> QED BY <2>1, <1>2
<1>4. ASSUME NEW g, Fetch(g) \/ Begin(g) \/ Put(g) \/ Mark(g) \/ Stage(g) \/ Seal(g) \/ Commit(g)
                    \/ FailGeneration(g) \/ Interrupt(g) \/ ReRun(g)
      PROVE  UNCHANGED read
    BY <1>4 DEF Fetch, Begin, Put, Mark, Stage, Seal, Commit, FailGeneration, Interrupt, ReRun
<1>5. ASSUME NEW g, NEW S, Register(g, S) PROVE UNCHANGED read
    BY <1>5 DEF Register
<1>6. ASSUME SweeperStep PROVE UNCHANGED read
    BY <1>6, SweeperStays DEF run
<1> HIDE DEF Good
<1>7. Good
    BY <1>1, <1>3, <1>4, <1>5, <1>6, Zenon DEF Next, RunStep
<1> QED BY <1>7 DEF Good

LEMMA ReadFitsStep ==
    ASSUME DInv, Next, TablesMove
    PROVE  ReadFits'
<1> SUFFICES ASSUME NEW g \in Gens, NEW s \in G!Slots, read'[g][s] # NoGen
             PROVE  gen'[read'[g][s]] = "committed" /\ obj'[read'[g][s]][s] # "none"
    BY SameOperators DEF ReadFits, G!Slots
<1> DEFINE h == read'[g][s]
<1>1. h \in Gens /\ gen[h] = "committed" /\ obj[h][s] # "none"
    <2>1. h = read[g][s] \/ h \in G!Holders(s)
        BY ReadMoves
    <2>2. CASE h = read[g][s]
        BY <2>2, ReadFacts
    <2>3. CASE h \in G!Holders(s)
        BY <2>3, TableFacts DEF G!Holders
    <2> QED BY <2>1, <2>2, <2>3
<1> HIDE DEF h
<1>2. gen'[h] = "committed" /\ obj'[h][s] # "none"
    BY <1>1 DEF TablesMove
<1> QED BY <1>2 DEF h

-----------------------------------------------------------------------------
(* Which steps touch the rows, their marks and the generations.            *)
LEMMA RowsMoveBy ==
    ASSUME DInv, Next
    PROVE  /\ \/ UNCHANGED <<obj, digest, gen>>
              \/ \E g \in Gens : Begin(g) /\ UNCHANGED <<obj, digest>>
              \/ \E g \in Gens : \E S \in NextBatches(g) : Register(g, S) /\ RegisterAllowed(g, S)
              \/ \E g \in Gens : Commit(g) /\ G!Commit(g)
              \/ \E g \in Gens : FailGeneration(g) /\ G!Fail(g)
              \/ SweepDeleteRows /\ UNCHANGED <<digest, gen>>
           /\ uploaded' = uploaded \/ \E g \in Gens : Mark(g) /\ uploaded' = [uploaded EXCEPT ![g] = @ \cup batch[g]]
           /\ purged' = purged \/ \E r \in swGone : SweepPurge(r) /\ G!MarkPurged(r[1], r[2])
<1> DEFINE Rows ==
              \/ UNCHANGED <<obj, digest, gen>>
              \/ \E g \in Gens : Begin(g) /\ UNCHANGED <<obj, digest>>
              \/ \E g \in Gens : \E S \in NextBatches(g) : Register(g, S) /\ RegisterAllowed(g, S)
              \/ \E g \in Gens : Commit(g) /\ G!Commit(g)
              \/ \E g \in Gens : FailGeneration(g) /\ G!Fail(g)
              \/ SweepDeleteRows /\ UNCHANGED <<digest, gen>>
           Marks == \/ uploaded' = uploaded
                    \/ \E g \in Gens : Mark(g) /\ uploaded' = [uploaded EXCEPT ![g] = @ \cup batch[g]]
           Purges == \/ purged' = purged
                     \/ \E r \in swGone : SweepPurge(r) /\ G!MarkPurged(r[1], r[2])
           Good == Rows /\ Marks /\ Purges
<1>1. ASSUME UNCHANGED tables PROVE Good
    BY <1>1 DEF tables
<1>2. ASSUME NEW g \in Gens, Begin(g) PROVE Good
    BY <1>2 DEF Begin, G!Begin, tables
<1>3. ASSUME NEW g \in Gens, NEW S \in NextBatches(g), Register(g, S) PROVE Good
    <2>1. CASE RegisterAllowed(g, S)
        BY <1>3, <2>1 DEF Register, G!RegisterPendingObjects
    <2>2. CASE ~RegisterAllowed(g, S)
        BY <1>3, <2>2, <1>1 DEF Register
    <2> QED BY <2>1, <2>2
<1>4. ASSUME NEW g \in Gens, Mark(g) PROVE Good
    <2>1. UNCHANGED tables \/ G!MarkObjectsUploaded(g, batch[g])
        BY <1>4 DEF Mark
    <2> QED BY <1>1, <1>4, <2>1 DEF G!MarkObjectsUploaded
<1>5. ASSUME NEW g \in Gens, Stage(g) PROVE Good
    BY <1>5 DEF Stage, G!StageLatest
<1>6. ASSUME NEW g \in Gens, Seal(g) PROVE Good
    <2>1. UNCHANGED tables \/ G!SetObjectSetDigest(g, handled[g])
        BY <1>6 DEF Seal
    <2> QED BY <1>1, <2>1 DEF G!SetObjectSetDigest
<1>7. ASSUME NEW g \in Gens, Commit(g) PROVE Good
    <2>1. UNCHANGED tables \/ G!Commit(g)
        BY <1>7 DEF Commit
    <2>2. ASSUME G!Commit(g) PROVE Good
        <3>1. uploaded' = uploaded /\ purged' = purged
            BY <2>2 DEF G!Commit
        <3>2. Rows
            BY <1>7, <2>2
        <3> QED BY <3>1, <3>2
    <2> HIDE DEF Good
    <2> QED BY <1>1, <2>1, <2>2
<1>8. ASSUME NEW g \in Gens, FailGeneration(g) PROVE Good
    <2>1. UNCHANGED tables \/ G!Fail(g)
        BY <1>8 DEF FailGeneration
    <2>2. ASSUME G!Fail(g) PROVE Good
        <3>1. uploaded' = uploaded /\ purged' = purged
            BY <2>2 DEF G!Fail
        <3>2. Rows
            BY <1>8, <2>2
        <3> QED BY <3>1, <3>2
    <2> HIDE DEF Good
    <2> QED BY <1>1, <2>1, <2>2
<1>9. ASSUME NEW g \in Gens, Start(g) \/ Fetch(g) \/ Put(g) \/ List(g) \/ Interrupt(g) \/ ReRun(g)
      PROVE  UNCHANGED tables
    BY <1>9 DEF Start, Fetch, Put, List, Interrupt, ReRun
<1>10. ASSUME NEW r \in swGone, SweepPurge(r) PROVE Good
    <2>1. UNCHANGED tables \/ G!MarkPurged(r[1], r[2])
        BY <1>10 DEF SweepPurge
    <2>2. G!MarkPurged(r[1], r[2]) => UNCHANGED <<obj, digest, gen, uploaded>>
        BY DEF G!MarkPurged
    <2> QED BY <1>1, <1>10, <2>1, <2>2
<1>11. ASSUME SweepDeleteRows PROVE Good
    <2>1. UNCHANGED <<digest, gen>> /\ uploaded' = uploaded /\ purged' = purged
        BY <1>11 DEF SweepDeleteRows, G!DeleteOrphanObjects
    <2>2. Rows
        BY <1>11, <2>1
    <2> QED BY <2>1, <2>2
<1>12. ASSUME NEW r, SweepList(r) \/ SweepObject(r) PROVE UNCHANGED tables
    BY <1>12 DEF SweepList, SweepObject
<1>13. ASSUME SweepClassify \/ SweepPrefix \/ SweepEnd \/ SweepKilled PROVE UNCHANGED tables
    BY <1>13 DEF SweepClassify, SweepPrefix, SweepEnd, SweepKilled
<1> HIDE DEF Good
<1>14. Good
    BY <1>1, <1>2, <1>3, <1>4, <1>5, <1>6, <1>7, <1>8, <1>9, <1>10, <1>11, <1>12, <1>13, Zenon
    DEF Next, RunStep, SweeperStep
<1> QED BY <1>14 DEF Good

(* A new row comes of a registration.                                      *)
LEMMA NewRows ==
    ASSUME DInv, Next, NEW h \in Gens, NEW s \in G!Slots, obj[h][s] = "none", obj'[h][s] # "none"
    PROVE  /\ s \in G!SlotsOf(h) /\ digest'[h][s] = ContentOf(h, s) /\ gen[h] = "pending"
           /\ AfterBegin(h) /\ members'[h] = members[h] /\ prior'[h] = prior[h] /\ uploaded' = uploaded
<1>0. G!TypeOK
    BY TableFacts
<1>1. ASSUME NEW g \in Gens, NEW S \in NextBatches(g), Register(g, S), RegisterAllowed(g, S)
      PROVE  h = g /\ s \in S
    BY <1>1, RegisterMoves
<1>2. ASSUME NEW g \in Gens, G!Commit(g) PROVE FALSE
    <2>1. /\ \A t \in G!Slots : obj[g][t] = "pending" <=> t \in G!SlotsOf(g)
          /\ \A t \in G!Slots : obj'[g][t] = IF t \in G!SlotsOf(g) THEN "committed" ELSE obj[g][t]
          /\ \A k \in Gens \ {g}, t \in G!Slots :
                 obj'[k][t] = IF Displaced(g, k, t) THEN G!DisplacedStatus(g) ELSE obj[k][t]
        BY <1>2, CommitMoves
    <2> QED BY <2>1 DEF Displaced
<1>3. ASSUME NEW g \in Gens, G!Fail(g) PROVE FALSE
    BY <1>0, <1>3, TablesTyped DEF G!Fail
<1>4. ASSUME SweepDeleteRows PROVE FALSE
    <2>1. <<h, s>> \notin G!OrphanRows
        BY DEF G!OrphanRows
    <2> QED BY <1>4, <2>1 DEF SweepDeleteRows, G!DeleteOrphanObjects
<1>5. \E S \in NextBatches(h) : Register(h, S) /\ RegisterAllowed(h, S) /\ s \in S
    <2>1. UNCHANGED <<obj>> => FALSE
        OBVIOUS
    <2>2. \E g \in Gens : \E S \in NextBatches(g) : Register(g, S) /\ RegisterAllowed(g, S)
        BY <1>2, <1>3, <1>4, <2>1, RowsMoveBy
    <2> QED BY <1>1, <2>2
<1>6. PICK S \in NextBatches(h) : Register(h, S) /\ RegisterAllowed(h, S) /\ s \in S
    BY <1>5
<1> QED BY <1>6, RegisterMoves DEF AfterBegin, Begun

LEMMA DigestsFitStep ==
    ASSUME DInv, Next, TablesMove
    PROVE  DigestsFit'
<1> DEFINE Fits(g, s) ==
        /\ digest'[g][s] \in Contents /\ digest'[g][s][TradeDate[g]] = g
        /\ s \notin Codes => digest'[g][s] = OwnDay(g, Nothing)
        /\ s \in Codes /\ IsSeed(g) => digest'[g][s] = OwnDay(g, PriorContent(g, s)')
<1>1. ASSUME NEW g \in Gens, NEW s \in G!Slots, obj'[g][s] # "none"
      PROVE  Fits(g, s)
    <2>1. CASE obj[g][s] # "none"
        <3>1. digest'[g][s] = digest[g][s] /\ gen[g] # "none"
            BY <2>1, TableFacts DEF TablesMove
        <3>2. prior'[g] = prior[g]
            BY <3>1 DEF TablesMove
        <3>3. PriorContent(g, s)' = PriorContent(g, s)
            BY <3>2 DEF PriorContent
        <3> QED BY <2>1, <3>1, <3>3 DEF DInv, DigestsFit
    <2>2. CASE obj[g][s] = "none"
        <3>1. /\ s \in G!SlotsOf(g) /\ digest'[g][s] = ContentOf(g, s) /\ AfterBegin(g)
              /\ prior'[g] = prior[g] /\ members'[g] = members[g]
            BY <1>1, <2>2, NewRows
        <3>2. s \in Codes /\ IsSeed(g) => PriorContent(g, s)' = ReadContent(g, s)
            <4> SUFFICES ASSUME s \in Codes, IsSeed(g) PROVE PriorContent(g, s)' = ReadContent(g, s)
                OBVIOUS
            <4>1. s \in members[g]
                BY <3>1, SlotsAre, Bounds
            <4>2. prior[g][s] = DigestRead(g, s)
                BY <3>1, <4>1 DEF DInv, RunFits, SeedKnows
            <4> QED BY <3>1, <4>2, ReadFacts DEF PriorContent
        <3> QED BY <3>1, <3>2, ReadFacts
    <2> QED BY <2>1, <2>2
<1> QED BY <1>1 DEF DigestsFit, G!Slots

LEMMA UploadsStep ==
    ASSUME DInv, Next, TablesMove
    PROVE  UploadsHaveRows'
<1>1. ASSUME NEW g \in Gens, NEW s \in G!Slots, s \in uploaded'[g] PROVE obj'[g][s] # "none"
    <2>1. s \in uploaded[g] \/ obj[g][s] = "pending"
        BY <1>1 DEF TablesMove
    <2>2. obj[g][s] # "none"
        BY <2>1 DEF DInv, UploadsHaveRows
    <2> QED BY <2>2 DEF TablesMove
<1> QED BY <1>1 DEF UploadsHaveRows, G!Slots

-----------------------------------------------------------------------------
(* The bucket and the rows.                                                *)
LEMMA ServedStep ==
    ASSUME DInv, Next, TablesMove
    PROVE  ServedHasObject'
<1>0. G!TypeOK /\ TypeOK
    BY TableFacts DEF DInv
<1>1. ASSUME NEW h \in Gens, NEW s \in G!Slots,
             obj'[h][s] \in {"committed", "superseded"} \/ (obj'[h][s] = "pending" /\ s \in uploaded'[h])
      PROVE  <<h, s>> \in blob'
    <2>1. obj[h][s] \in {"none", "pending", "committed", "superseded"}
        BY <1>1 DEF TablesMove
    <2>2. obj[h][s] # "none"
        <3> SUFFICES ASSUME obj[h][s] = "none" PROVE FALSE
            OBVIOUS
        <3>1. uploaded' = uploaded /\ gen[h] = "pending"
            BY <1>1, NewRows
        <3>2. s \notin uploaded[h]
            BY DEF DInv, UploadsHaveRows
        <3>3. gen'[h] = "pending"
            <4>1. \E g \in Gens : \E S \in NextBatches(g) : Register(g, S) /\ RegisterAllowed(g, S)
                <5>1. ASSUME NEW g \in Gens, G!Commit(g) PROVE FALSE
                    <6>1. /\ \A t \in G!Slots : obj[g][t] = "pending" <=> t \in G!SlotsOf(g)
                          /\ \A t \in G!Slots : obj'[g][t] = IF t \in G!SlotsOf(g) THEN "committed" ELSE obj[g][t]
                          /\ \A k \in Gens \ {g}, t \in G!Slots :
                                 obj'[k][t] = IF Displaced(g, k, t) THEN G!DisplacedStatus(g) ELSE obj[k][t]
                        BY <5>1, CommitMoves
                    <6> QED BY <1>1, <6>1 DEF Displaced
                <5>2. ASSUME NEW g \in Gens, G!Fail(g) PROVE FALSE
                    BY <1>0, <1>1, <5>2, TablesTyped DEF G!Fail
                <5>3. ASSUME SweepDeleteRows PROVE FALSE
                    <6>1. <<h, s>> \notin G!OrphanRows
                        BY DEF G!OrphanRows
                    <6> QED BY <1>1, <5>3, <6>1 DEF SweepDeleteRows, G!DeleteOrphanObjects
                <5> QED BY <1>1, <5>1, <5>2, <5>3, RowsMoveBy
            <4> QED BY <3>1, <4>1, RegisterMoves
        <3>4. obj'[h][s] \in {"none", "pending"}
            <4>1. GP!IInv'
                BY CallsCall, TablesKeep
            <4>2. GP!RowsFit'
                BY <4>1 DEF GP!IInv
            <4> QED BY <3>3, <4>2, SameOperators DEF GP!RowsFit, GP!Slots, G!Slots
        <3> QED BY <1>1, <3>1, <3>2, <3>4
    <2>3. <<h, s>> \in blob
        <3>1. CASE obj[h][s] \in {"committed", "superseded"} \/ s \in uploaded[h]
            BY <2>1, <2>2, <3>1 DEF DInv, ObjectsMatchRows, ServedHasObject
        <3>2. CASE obj[h][s] = "pending" /\ s \notin uploaded[h]
            <4>1. ASSUME NEW g \in Gens, Commit(g), G!Commit(g) PROVE obj'[h][s] = "pending"
                <5>1. /\ G!SlotsOf(g) \subseteq uploaded[g]
                      /\ \A t \in G!Slots : obj'[g][t] = IF t \in G!SlotsOf(g) THEN "committed" ELSE obj[g][t]
                      /\ \A k \in Gens \ {g}, t \in G!Slots :
                             obj'[k][t] = IF Displaced(g, k, t) THEN G!DisplacedStatus(g) ELSE obj[k][t]
                    BY <4>1, CommitMoves
                <5> QED BY <3>2, <5>1 DEF Displaced
            <4>2. ASSUME NEW g \in Gens, G!Fail(g) PROVE obj'[h][s] \in {"pending", "orphan"}
                BY <1>0, <3>2, <4>2, TablesTyped DEF G!Fail
            <4>3. ASSUME NEW g \in Gens, NEW S \in NextBatches(g), Register(g, S), RegisterAllowed(g, S)
                  PROVE  obj'[h][s] = "pending"
                BY <3>2, <4>3, RegisterMoves
            <4>4. ASSUME SweepDeleteRows PROVE obj'[h][s] = "pending"
                <5>1. <<h, s>> \notin G!OrphanRows
                    BY <3>2 DEF G!OrphanRows
                <5> QED BY <3>2, <4>4, <5>1 DEF SweepDeleteRows, G!DeleteOrphanObjects
            <4>5. obj'[h][s] \in {"pending", "orphan"}
                BY <3>2, <4>1, <4>2, <4>3, <4>4, RowsMoveBy
            <4>6. s \in uploaded'[h]
                BY <1>1, <4>5
            <4>7. PICK g \in Gens : Mark(g) /\ uploaded' = [uploaded EXCEPT ![g] = @ \cup batch[g]]
                BY <3>2, <4>6, RowsMoveBy
            <4>8. h = g /\ s \in batch[g]
                BY <1>0, <3>2, <4>6, <4>7, TablesTyped
            <4> QED BY <4>7, <4>8 DEF Mark, DInv, RunFits
        <3> QED BY <2>1, <2>2, <3>1, <3>2
    <2> QED BY <2>1, <2>2, <2>3, BlobMoves
<1> QED BY <1>1 DEF ServedHasObject, G!Slots

LEMMA PurgedStep ==
    ASSUME DInv, Next, TablesMove
    PROVE  PurgedIsGone'
<1>0. G!TypeOK /\ TypeOK
    BY TableFacts DEF DInv
<1>1. ASSUME NEW h \in Gens, NEW s \in G!Slots, s \in purged'[h]
      PROVE  <<h, s>> \notin blob'
    <2>1. CASE s \in purged[h]
        <3>1. <<h, s>> \notin blob /\ obj[h][s] \in {"orphan", "deleted"}
            BY <2>1, TableFacts DEF DInv, ObjectsMatchRows, PurgedIsGone
        <3> QED BY <3>1, BlobMoves
    <2>2. CASE s \notin purged[h]
        <3>1. PICK r \in swGone : SweepPurge(r) /\ G!MarkPurged(r[1], r[2])
            BY <1>1, <2>2, RowsMoveBy
        <3>2. r[1] \in Gens /\ r[2] \in G!Slots /\ r = <<r[1], r[2]>>
            BY <1>0, RunsTyped
        <3>3. h = r[1] /\ s = r[2]
            BY <1>0, <1>1, <2>2, <3>1, <3>2, TablesTyped DEF G!MarkPurged
        <3>4. r \notin blob
            BY DEF DInv, SweepFits
        <3> QED BY <3>1, <3>2, <3>3, <3>4 DEF SweepPurge
    <2> QED BY <2>1, <2>2
<1> QED BY <1>1 DEF PurgedIsGone, G!Slots

-----------------------------------------------------------------------------
(* What the sweeper lists, and what it has deleted.                        *)
Unserved(g) == \A s \in G!Slots : obj[g][s] \notin {"pending", "committed", "superseded"}

LEMMA SweeperLists ==
    ASSUME DInv, Next
    PROVE  /\ swRows' \cup swGone' \subseteq swRows \cup swGone \cup G!OrphanRows
           /\ \A r \in swGone' : r \in swGone \/ r \notin blob'
           /\ \A g \in swOnly' : g \in swOnly \/ ((\E r \in swRows : g = r[1]) /\ Unserved(g))
           /\ swPc' \in {"off", "idle", "classify", "prefix", "rows"} /\ swDeletes' \in BOOLEAN
<1> DEFINE Good ==
           /\ swRows' \cup swGone' \subseteq swRows \cup swGone \cup G!OrphanRows
           /\ \A r \in swGone' : r \in swGone \/ r \notin blob'
           /\ \A g \in swOnly' : g \in swOnly \/ ((\E r \in swRows : g = r[1]) /\ Unserved(g))
           /\ swPc' \in {"off", "idle", "classify", "prefix", "rows"} /\ swDeletes' \in BOOLEAN
<1>0. swPc \in {"off", "idle", "classify", "prefix", "rows"} /\ swDeletes \in BOOLEAN
    BY DEF DInv, TypeOK
<1>1. ASSUME UNCHANGED sweeper PROVE Good
    BY <1>0, <1>1 DEF sweeper
<1>2. ASSUME NEW deletes \in BOOLEAN, SweepList(deletes) PROVE Good
    <2>1. swRows' \subseteq G!OrphanRows
        BY <1>2 DEF SweepList
    <2> QED BY <1>2, <2>1 DEF SweepList
<1>3. ASSUME SweepClassify PROVE Good
    <2>1. \A g \in swOnly' : (\E r \in swRows : g = r[1]) /\ Unserved(g)
        BY <1>3 DEF SweepClassify, OrphanOnly, Unserved
    <2> QED BY <1>0, <1>3, <2>1 DEF SweepClassify
<1>4. ASSUME SweepPrefix PROVE Good
    <2>1. swOnly' \subseteq swOnly /\ swPc' \in {"prefix", "rows"} /\ UNCHANGED <<swRows, swGone, swDeletes>>
        BY <1>4 DEF SweepPrefix
    <2> QED BY <1>0, <2>1
<1>5. ASSUME NEW r \in swRows, SweepObject(r) PROVE Good
    <2>1. swRows' \subseteq swRows /\ swGone' \subseteq swGone \cup {r} /\ UNCHANGED <<swPc, swOnly, swDeletes>>
        BY <1>5 DEF SweepObject
    <2>2. r \in swGone' => r \in swGone \/ r \notin blob'
        BY <1>5 DEF SweepObject
    <2> QED BY <1>0, <2>1, <2>2
<1>6. ASSUME NEW r \in swGone, SweepPurge(r) PROVE Good
    BY <1>0, <1>6 DEF SweepPurge
<1>7. ASSUME SweepDeleteRows \/ SweepEnd \/ SweepKilled PROVE Good
    BY <1>0, <1>1, <1>7 DEF SweepDeleteRows, SweepEnd, SweepKilled
<1>8. ASSUME NEW g \in Gens, RunMoves(g) PROVE UNCHANGED sweeper
    BY <1>8, RunStays
<1> HIDE DEF Good
<1>9. ASSUME SweeperStep PROVE Good
    BY <1>9, <1>2, <1>3, <1>4, <1>5, <1>6, <1>7, Zenon DEF SweeperStep
<1>10. Good
    BY <1>1, <1>8, <1>9, WhoMoves
<1> QED BY <1>10 DEF Good

LEMMA SweepFitsStep ==
    ASSUME DInv, Next, TablesMove
    PROVE  SweepFits'
<1>0. TypeOK /\ SweepFits
    BY DEF DInv
<1>1. ASSUME NEW r \in swRows' \cup swGone'
      PROVE  obj'[r[1]][r[2]] \in {"orphan", "deleted"}
    <2>1. r \in swRows \cup swGone \cup G!OrphanRows
        BY SweeperLists
    <2>2. r[1] \in Gens /\ r[2] \in G!Slots /\ obj[r[1]][r[2]] \in {"orphan", "deleted"}
        BY <1>0, <2>1, RunsTyped DEF SweepFits, G!OrphanRows
    <2> QED BY <2>2 DEF TablesMove
<1>2. ASSUME NEW g \in swOnly'
      PROVE  gen'[g] \in {"failed", "committed"} /\ obj'[g]["snapshot"] \in {"none", "orphan", "deleted"}
    <2>1. g \in Gens /\ gen[g] \in {"failed", "committed"} /\ obj[g]["snapshot"] \in {"none", "orphan", "deleted"}
        <3>1. CASE g \in swOnly
            BY <1>0, <3>1, RunsTyped DEF SweepFits
        <3>2. ASSUME NEW r \in swRows, g = r[1], Unserved(g)
              PROVE  g \in Gens /\ gen[g] \in {"failed", "committed"} /\ obj[g]["snapshot"] \in {"none", "orphan", "deleted"}
            <4>1. r[1] \in Gens /\ r[2] \in G!Slots /\ obj[r[1]][r[2]] \in {"orphan", "deleted"}
                BY <1>0, RunsTyped DEF SweepFits
            <4>2. gen[g] \in {"none", "pending", "committed", "failed"}
                BY <3>2, <4>1, TableFacts, TablesTyped
            <4>3. gen[g] # "none" /\ gen[g] # "pending"
                BY <3>2, <4>1, TableFacts
            <4>4. "snapshot" \in G!Slots
                BY DEF G!Slots
            <4>5. obj[g]["snapshot"] \in {"none", "orphan", "deleted"}
                BY <3>2, <4>1, <4>4, TableFacts, TablesTyped DEF Unserved
            <4> QED BY <3>2, <4>1, <4>2, <4>3, <4>5
        <3> QED BY <3>1, <3>2, SweeperLists
    <2>2. "snapshot" \in G!Slots
        BY DEF G!Slots
    <2>3. gen'[g] = gen[g]
        BY <2>1 DEF TablesMove
    <2>4. obj'[g]["snapshot"] \in {"none", "orphan", "deleted"}
        BY <2>1, <2>2 DEF TablesMove
    <2> QED BY <2>1, <2>3, <2>4
<1>3. ASSUME NEW r \in swGone'
      PROVE  r \notin blob'
    <2>1. CASE r \in swGone
        <3>1. r[1] \in Gens /\ r[2] \in G!Slots /\ r = <<r[1], r[2]>> /\ r \notin blob
              /\ obj[r[1]][r[2]] \in {"orphan", "deleted"}
            BY <1>0, <2>1, RunsTyped DEF SweepFits
        <3> QED BY <3>1, BlobMoves
    <2> QED BY <2>1, SweeperLists
<1> QED BY <1>1, <1>2, <1>3 DEF SweepFits

LEMMA TypeStep ==
    ASSUME DInv, Next
    PROVE  TypeOK'
<1>0. TypeOK
    BY DEF DInv
<1>1. G!TypeOK' /\ TablesMove
    BY CallsCall, TablesKeep
<1>2. /\ handled' \in [Gens -> SUBSET G!Slots] /\ batch' \in [Gens -> SUBSET G!Slots]
      /\ pc' \in [Gens -> Places] /\ tries' \in [Gens -> 0..MaxAttempts]
    BY <1>1, RunsKeep
<1>3. read' \in [Gens -> [G!Slots -> Gens \cup {NoGen}]]
    BY ReadMoves
<1>4. swPc' \in {"off", "idle", "classify", "prefix", "rows"} /\ swDeletes' \in BOOLEAN
    BY SweeperLists
<1>5. swRows' \subseteq Gens \X G!Slots /\ swGone' \subseteq Gens \X G!Slots /\ swOnly' \subseteq Gens
    <2>1. G!OrphanRows \subseteq Gens \X G!Slots
        BY DEF G!OrphanRows
    <2>2. swRows' \subseteq Gens \X G!Slots /\ swGone' \subseteq Gens \X G!Slots
        BY <1>0, <2>1, SweeperLists, RunsTyped
    <2>3. \A r \in swRows : r[1] \in Gens
        BY <1>0, RunsTyped
    <2>4. swOnly' \subseteq Gens
        BY <1>0, <2>3, SweeperLists, RunsTyped
    <2> QED BY <2>2, <2>4
<1>6. blob' \subseteq Gens \X G!Slots
    <2> DEFINE Good == blob' \subseteq Gens \X G!Slots
    <2>0. blob \subseteq Gens \X G!Slots
        BY <1>0, RunsTyped
    <2>1. ASSUME NEW X, blob' = blob \ X PROVE Good
        BY <2>0, <2>1
    <2>2. ASSUME UNCHANGED blob PROVE Good
        BY <2>0, <2>2
    <2>3. ASSUME NEW g \in Gens, Put(g) PROVE Good
        <3>1. batch[g] \subseteq G!Slots
            BY <1>0, RunsTyped
        <3> QED BY <2>0, <2>3, <3>1 DEF Put
    <2>4. ASSUME NEW g \in Gens, Start(g) \/ Fetch(g) \/ Begin(g) \/ Mark(g) \/ List(g) \/ Stage(g) \/ Seal(g)
                                 \/ Commit(g) \/ FailGeneration(g) \/ Interrupt(g) \/ ReRun(g)
          PROVE  UNCHANGED blob
        BY <2>4 DEF Start, Fetch, Begin, Mark, List, Stage, Seal, Commit, FailGeneration, Interrupt, ReRun
    <2>5. ASSUME NEW g, NEW S, Register(g, S) PROVE UNCHANGED blob
        BY <2>5 DEF Register
    <2>6. ASSUME NEW r, SweepList(r) \/ SweepPurge(r) PROVE UNCHANGED blob
        BY <2>6 DEF SweepList, SweepPurge
    <2>7. ASSUME SweepClassify \/ SweepDeleteRows \/ SweepEnd \/ SweepKilled PROVE UNCHANGED blob
        BY <2>7 DEF SweepClassify, SweepDeleteRows, SweepEnd, SweepKilled
    <2>8. ASSUME NEW r, SweepObject(r) PROVE Good
        BY <2>1, <2>2, <2>8 DEF SweepObject
    <2>9. ASSUME SweepPrefix PROVE Good
        <3>1. blob' = blob \/ \E g \in swOnly : blob' = blob \ {<<g, "snapshot">>}
            BY <2>9 DEF SweepPrefix
        <3> QED BY <2>1, <2>2, <3>1
    <2> HIDE DEF Good
    <2>10. Good
        BY <2>2, <2>3, <2>4, <2>5, <2>6, <2>7, <2>8, <2>9, Zenon DEF Next, RunStep, SweeperStep
    <2> QED BY <2>10 DEF Good
<1> QED BY <1>1, <1>2, <1>3, <1>4, <1>5, <1>6, SameOperators DEF TypeOK, Places, G!Slots

-----------------------------------------------------------------------------
(* Among seeds: a commit over what the seed was told of keeps every day.   *)
LEMMA OnlySeedsBefore ==
    ASSUME DInv, TablesMove, OnlySeeds'
    PROVE  OnlySeeds
BY DEF OnlySeeds, TablesMove

(* Which commits there are: each says what it left of the rows.            *)
LEMMA QuietOrCommit ==
    ASSUME DInv, Next
    PROVE  \/ \E k \in Gens : Commit(k) /\ G!Commit(k)
           \/ /\ \A g \in Gens : gen'[g] = "committed" <=> gen[g] = "committed"
              /\ \A g \in Gens, s \in G!Slots : gen[g] = "committed" =>
                    \/ obj'[g][s] = obj[g][s]
                    \/ obj[g][s] = "orphan" /\ obj'[g][s] = "deleted"
              /\ \A s \in G!Slots : G!Holders(s)' = G!Holders(s)
<1> DEFINE Q == /\ \A g \in Gens : gen'[g] = "committed" <=> gen[g] = "committed"
                /\ \A g \in Gens, s \in G!Slots : gen[g] = "committed" =>
                    \/ obj'[g][s] = obj[g][s]
                    \/ obj[g][s] = "orphan" /\ obj'[g][s] = "deleted"
                /\ \A g \in Gens, s \in G!Slots : obj'[g][s] = "committed" <=> obj[g][s] = "committed"
<1>0. G!TypeOK
    BY TableFacts
<1>1. ASSUME UNCHANGED <<obj, digest, gen>> PROVE Q
    BY <1>1
<1>2. ASSUME NEW g \in Gens, Begin(g), UNCHANGED <<obj, digest>> PROVE Q
    <2>1. UNCHANGED gen \/ (gen[g] = "none" /\ gen' = [gen EXCEPT ![g] = "pending"])
        BY <1>2 DEF Begin, G!Begin, tables
    <2> QED BY <1>0, <1>2, <2>1, TablesTyped
<1>3. ASSUME NEW g \in Gens, NEW S \in NextBatches(g), Register(g, S), RegisterAllowed(g, S) PROVE Q
    BY <1>3, RegisterMoves
<1>4. ASSUME NEW g \in Gens, G!Fail(g) PROVE Q
    BY <1>0, <1>4, TablesTyped DEF G!Fail
<1>5. ASSUME SweepDeleteRows, UNCHANGED <<digest, gen>> PROVE Q
    <2>1. ASSUME NEW g \in Gens, NEW s \in G!Slots
          PROVE  obj'[g][s] = IF obj[g][s] = "orphan" THEN "deleted" ELSE obj[g][s]
        <3>1. <<g, s>> \in G!OrphanRows <=> obj[g][s] = "orphan"
            BY DEF G!OrphanRows
        <3> QED BY <1>5, <3>1 DEF SweepDeleteRows, G!DeleteOrphanObjects
    <2> QED BY <1>5, <2>1
<1> HIDE DEF Q
<1>6. Q \/ \E k \in Gens : Commit(k) /\ G!Commit(k)
    BY <1>1, <1>2, <1>3, <1>4, <1>5, RowsMoveBy
<1>7. Q => \A s \in G!Slots : G!Holders(s)' = G!Holders(s)
    BY DEF Q, G!Holders
<1> QED BY <1>6, <1>7 DEF Q

LEMMA SeedRowsStep ==
    ASSUME DInv, Next, TablesMove
    PROVE  SeedRowsStay'
<1>1. ASSUME OnlySeeds', NEW g \in Gens, NEW s \in G!Slots, gen'[g] = "committed", obj'[g][s] # "none"
      PROVE  obj'[g][s] \in {"committed", "superseded"}
    <2>1. OnlySeeds
        BY <1>1, OnlySeedsBefore
    <2>2. gen[g] = "committed" /\ obj[g][s] # "none" => obj[g][s] \in {"committed", "superseded"}
        BY <2>1 DEF DInv, SeedRowsStay
    <2>3. ASSUME NEW k \in Gens, G!Commit(k)
          PROVE  obj'[g][s] \in {"committed", "superseded"}
        <3>1. /\ gen[k] = "pending" /\ gen' = [gen EXCEPT ![k] = "committed"]
              /\ \A t \in G!Slots : obj[k][t] = "pending" <=> t \in G!SlotsOf(k)
              /\ \A t \in G!Slots : obj'[k][t] = IF t \in G!SlotsOf(k) THEN "committed" ELSE obj[k][t]
              /\ \A h \in Gens \ {k}, t \in G!Slots :
                     obj'[h][t] = IF Displaced(k, h, t) THEN G!DisplacedStatus(k) ELSE obj[h][t]
              /\ G!DisplacedStatus(k) = IF IsSeed(k) THEN "superseded" ELSE "orphan"
            BY <2>3, CommitMoves
        <3>2. IsSeed(k)
            <4>1. gen'[k] = "committed"
                BY <3>1, TableFacts, TablesTyped
            <4> QED BY <1>1, <4>1 DEF OnlySeeds
        <3>3. CASE g = k
            <4>1. obj[k][s] # "none" => s \in G!SlotsOf(k)
                BY TableFacts
            <4> QED BY <1>1, <3>1, <3>3, <4>1
        <3>4. CASE g # k
            <4>1. gen[g] = "committed"
                BY <1>1, <3>1, <3>4, TableFacts, TablesTyped
            <4> QED BY <1>1, <2>2, <3>1, <3>2, <3>4, <4>1
        <3> QED BY <3>3, <3>4
    <2> QED BY <1>1, <2>2, <2>3, QuietOrCommit
<1> QED BY <1>1 DEF SeedRowsStay, G!Slots

LEMMA ServedStays ==
    ASSUME DInv, Next, TablesMove, OnlySeeds', NEW c \in Codes, NEW d \in Days, Served(c, d)
    PROVE  Served(c, d)'
<1>1. PICK h \in G!Holders(c) : digest[h][c][d] # NoGen
    BY DEF Served
<1>2. h \in Gens /\ c \in G!Slots /\ obj[h][c] = "committed"
    BY <1>1 DEF G!Holders, G!Slots
<1>3. digest'[h][c] = digest[h][c]
    BY <1>2 DEF TablesMove
<1>4. CASE obj'[h][c] = "committed"
    <2>1. h \in G!Holders(c)'
        BY <1>2, <1>4 DEF G!Holders
    <2> QED BY <1>1, <1>3, <2>1 DEF Served
<1>5. CASE obj'[h][c] # "committed"
    <2>1. PICK k \in Gens : G!Commit(k)
        <3>1. gen[h] = "committed"
            BY <1>2, TableFacts
        <3> QED BY <1>2, <1>5, <3>1, QuietOrCommit
    <2>2. /\ gen[k] = "pending" /\ gen' = [gen EXCEPT ![k] = "committed"] /\ G!PriorHolds(k)
          /\ \A t \in G!Slots : obj[k][t] = "pending" <=> t \in G!SlotsOf(k)
          /\ \A t \in G!Slots : obj'[k][t] = IF t \in G!SlotsOf(k) THEN "committed" ELSE obj[k][t]
          /\ \A j \in Gens \ {k}, t \in G!Slots :
                 obj'[j][t] = IF Displaced(k, j, t) THEN G!DisplacedStatus(k) ELSE obj[j][t]
        BY <2>1, CommitMoves
    <2>3. Displaced(k, h, c)
        BY <1>2, <1>5, <2>2
    <2>4. IsSeed(k)
        <3>1. gen'[k] = "committed"
            BY <2>2, TableFacts, TablesTyped
        <3> QED BY <3>1 DEF OnlySeeds
    <2>5. c \in members[k] /\ c \in G!SlotsOf(k)
        BY <2>3, <2>4, SlotsAre, Bounds DEF Displaced
    <2>6. prior[k][c] = digest[h][c]
        <3>1. IF prior[k][c] = Absent THEN G!Holders(c) = {}
              ELSE \E j \in G!Holders(c) : digest[j][c] = prior[k][c]
            BY <2>2, <2>4, <2>5 DEF G!PriorHolds, IsSeed
        <3>2. \A j \in G!Holders(c) : j = h
            BY <1>2, TableFacts DEF G!Holders, G!SameCoordinate
        <3> QED BY <1>1, <3>1, <3>2
    <2>7. digest[h][c] \in Contents
        BY <1>2 DEF DInv, DigestsFit
    <2>8. digest[k][c] = OwnDay(k, digest[h][c]) /\ digest'[k][c] = digest[k][c]
        <3>1. obj[k][c] = "pending"
            BY <1>2, <2>2, <2>5
        <3>2. digest[k][c] = OwnDay(k, PriorContent(k, c))
            BY <1>2, <2>4, <3>1 DEF DInv, DigestsFit
        <3>3. PriorContent(k, c) = digest[h][c]
            BY <2>6, <2>7, Bounds DEF PriorContent
        <3> QED BY <1>2, <3>1, <3>2, <3>3 DEF TablesMove
    <2>9. digest'[k][c][d] # NoGen
        BY <1>1, <2>7, <2>8, ContentsHave, Bounds
    <2>10. k \in G!Holders(c)'
        BY <1>2, <2>2, <2>5 DEF G!Holders
    <2> QED BY <2>9, <2>10 DEF Served
<1> QED BY <1>4, <1>5

(* A generation just committed is the holder of each of its series.        *)
LEMMA CommitHolds ==
    ASSUME DInv, TablesMove, NEW k \in Gens, G!Commit(k), NEW c \in Codes, c \in G!SlotsOf(k)
    PROVE  k \in G!Holders(c)' /\ digest'[k][c] = digest[k][c] /\ digest[k][c][TradeDate[k]] = k
<1>1. c \in G!Slots
    BY DEF G!Slots
<1>2. obj[k][c] = "pending" /\ obj'[k][c] = "committed"
    BY <1>1, CommitMoves
<1> QED BY <1>1, <1>2 DEF G!Holders, TablesMove, DInv, DigestsFit

LEMMA DaysServedStep ==
    ASSUME DInv, Next, TablesMove
    PROVE  DaysServed'
<1>1. ASSUME OnlySeeds', NEW g \in Gens, NEW c \in Codes, NEW d \in Days,
             gen'[g] = "committed", obj'[g][c] # "none", digest'[g][c][d] # NoGen
      PROVE  Served(c, d)'
    <2>0. c \in G!Slots /\ OnlySeeds
        BY <1>1, OnlySeedsBefore DEF G!Slots
    <2>1. CASE gen[g] = "committed"
        <3>1. obj[g][c] # "none"
            BY <1>1, <2>0, <2>1 DEF TablesMove
        <3>2. digest[g][c][d] # NoGen
            BY <1>1, <2>0, <3>1 DEF TablesMove
        <3>3. Served(c, d)
            BY <2>0, <2>1, <3>1, <3>2 DEF DInv, DaysServed
        <3> QED BY <1>1, <3>3, ServedStays
    <2>2. CASE gen[g] # "committed"
        <3>1. PICK k \in Gens : G!Commit(k)
            BY <1>1, <2>2, QuietOrCommit
        <3>2. /\ gen[k] = "pending" /\ gen' = [gen EXCEPT ![k] = "committed"]
              /\ \A t \in G!Slots : obj'[k][t] = IF t \in G!SlotsOf(k) THEN "committed" ELSE obj[k][t]
            BY <3>1, CommitMoves
        <3>3. g = k
            BY <1>1, <2>2, <3>2, TableFacts, TablesTyped
        <3>4. c \in G!SlotsOf(k)
            BY <1>1, <2>0, <3>2, <3>3, TableFacts
        <3>5. k \in G!Holders(c)'
            BY <3>1, <3>4, CommitHolds
        <3> QED BY <1>1, <3>3, <3>5 DEF Served
    <2> QED BY <2>1, <2>2
<1> QED BY <1>1 DEF DaysServed, Days

LEMMA DoneBy ==
    ASSUME DInv, Next, NEW g \in Gens, IsSeed(g), pc[g] # "done", pc'[g] = "done"
    PROVE  (Begin(g) /\ Missing(g) = {}) \/ (Commit(g) /\ G!Commit(g))
<1> DEFINE Good == pc'[g] = "done" => (Begin(g) /\ Missing(g) = {}) \/ (Commit(g) /\ G!Commit(g))
<1>0. pc \in [Gens -> Places]
    BY RunsTyped DEF DInv, Places
<1>1. ASSUME SweeperStep PROVE FALSE
    BY <1>1, SweeperStays DEF run
<1>2. ASSUME NEW h \in Gens, h # g, RunMoves(h) PROVE FALSE
    BY <1>2, RunStays DEF StaysOf
<1>3. ASSUME Begin(g) PROVE Good
    <2>1. CodesToBegin(g) = Missing(g)
        BY DEF CodesToBegin, IsSeed
    <2> QED BY <1>0, <1>3, <2>1 DEF Begin, Goto
<1>4. ASSUME Commit(g) PROVE Good
    BY <1>0, <1>4 DEF Commit, Goto, OnError
<1>5. ASSUME Start(g) \/ Fetch(g) \/ Put(g) \/ List(g) \/ Stage(g) \/ Seal(g)
             \/ FailGeneration(g) \/ Interrupt(g) \/ ReRun(g)
      PROVE  Good
    BY <1>0, <1>5 DEF Start, Fetch, Put, List, Stage, Seal, FailGeneration, Interrupt, ReRun, Goto, OnError
<1>6. ASSUME Mark(g) PROVE Good
    BY <1>0, <1>6 DEF Mark, Goto, OnError, AfterMark
<1>7. ASSUME NEW S, Register(g, S) PROVE Good
    BY <1>0, <1>7 DEF Register, Goto, OnError
<1> HIDE DEF Good
<1>8. RunMoves(g)
    BY <1>1, <1>2, WhoMoves
<1>9. Good
    BY <1>8, <1>3, <1>4, <1>5, <1>6, <1>7, Zenon DEF RunMoves, RunStep
<1> QED BY <1>9 DEF Good

LEMMA DoneSeedStep ==
    ASSUME DInv, Next, TablesMove
    PROVE  DoneSeedIsServed'
<1>1. ASSUME OnlySeeds', NEW g \in Gens, pc'[g] = "done", IsSeed(g), NEW c \in Candidates[g]
      PROVE  Served(c, TradeDate[g])'
    <2>0. c \in Codes /\ c \in G!Slots /\ TradeDate[g] \in Days /\ OnlySeeds
        BY <1>1, OnlySeedsBefore, Bounds DEF G!Slots, Days
    <2>1. CASE pc[g] = "done"
        <3>1. Served(c, TradeDate[g])
            BY <1>1, <2>0, <2>1 DEF DInv, DoneSeedIsServed, Served
        <3> QED BY <1>1, <2>0, <3>1, ServedStays
    <2>2. CASE c \notin Missing(g)
        <3>1. ReadContent(g, c)[TradeDate[g]] # NoGen
            BY <2>2 DEF Missing
        <3>2. read[g][c] # NoGen
            BY <2>0, <3>1 DEF ReadContent, Nothing
        <3>3. /\ read[g][c] \in Gens /\ gen[read[g][c]] = "committed" /\ obj[read[g][c]][c] # "none"
              /\ digest[read[g][c]][c][TradeDate[g]] # NoGen
            BY <2>0, <3>1, <3>2, ReadFacts DEF ReadContent
        <3>4. Served(c, TradeDate[g])
            BY <2>0, <3>3 DEF DInv, DaysServed
        <3> QED BY <1>1, <2>0, <3>4, ServedStays
    <2>3. CASE pc[g] # "done" /\ c \in Missing(g)
        <3>1. Commit(g) /\ G!Commit(g)
            BY <1>1, <2>3, DoneBy
        <3>2. members[g] = Missing(g)
            <4>1. AfterBegin(g)
                BY <3>1 DEF Commit, AfterBegin, Begun
            <4> QED BY <1>1, <4>1 DEF DInv, RunFits, SeedKnows
        <3>3. c \in G!SlotsOf(g)
            BY <1>1, <2>3, <3>2, SlotsAre
        <3>4. g \in G!Holders(c)' /\ digest'[g][c][TradeDate[g]] # NoGen
            BY <2>0, <3>1, <3>3, CommitHolds, Bounds
        <3> QED BY <3>4 DEF Served
    <2> QED BY <2>1, <2>2, <2>3
<1> QED BY <1>1 DEF DoneSeedIsServed, Served

-----------------------------------------------------------------------------
LEMMA StutterDInv == DInv /\ UNCHANGED vars => DInv'
<1> SUFFICES ASSUME DInv, UNCHANGED vars PROVE DInv'
    OBVIOUS
<1>0. UNCHANGED <<gen, members, prior, sealed, obj, digest, uploaded, purged, staged, latest,
                  pc, read, handled, batch, tries, blob, swPc, swRows, swOnly, swGone, swDeletes>>
    BY DEF vars, tables, run, sweeper
<1>1. GP!IInv' /\ G!TypeOK'
    BY <1>0, TablesKeep DEF tables
<1>2. TypeOK'
    BY <1>0, <1>1 DEF DInv, TypeOK, G!Slots
<1>3. DigestsFit' /\ UploadsHaveRows' /\ ReadFits' /\ SweepFits' /\ ObjectsMatchRows'
    BY <1>0 DEF DInv, DigestsFit, PriorContent, UploadsHaveRows, ReadFits, SweepFits, ObjectsMatchRows,
       ServedHasObject, PurgedIsGone
<1>4. \A c, d : Served(c, d)' <=> Served(c, d)
    BY <1>0 DEF Served, G!Holders
<1>5. OnlySeeds' <=> OnlySeeds
    BY <1>0 DEF OnlySeeds
<1>6. SeedRowsStay'
    BY <1>0, <1>5 DEF DInv, SeedRowsStay
<1>7. DaysServed'
    BY <1>0, <1>4, <1>5 DEF DInv, DaysServed
<1>8. DoneSeedIsServed'
    <2>1. DoneSeedIsServed <=> (OnlySeeds => \A g \in Gens : pc[g] = "done" /\ IsSeed(g) =>
                                    \A c \in Candidates[g] : Served(c, TradeDate[g]))
        BY DEF DoneSeedIsServed, Served
    <2>2. DoneSeedIsServed' <=> (OnlySeeds' => \A g \in Gens : pc'[g] = "done" /\ IsSeed(g) =>
                                    \A c \in Candidates[g] : Served(c, TradeDate[g])')
        BY DEF DoneSeedIsServed, Served
    <2> QED BY <1>0, <1>4, <1>5, <2>1, <2>2 DEF DInv
<1>9. ASSUME NEW g \in Gens PROVE RunFits(g)'
    <2>1. StaysOf(g)
        BY <1>0 DEF StaysOf
    <2>2. /\ AfterBegin(g)' <=> AfterBegin(g)
          /\ Missing(g)' = Missing(g) /\ \A s : DigestRead(g, s)' = DigestRead(g, s)
          /\ \A S : Registered(g, S)' <=> Registered(g, S)
          /\ G!SlotsOf(g)' = G!SlotsOf(g)
        <3>1. \A s : DigestRead(g, s)' = DigestRead(g, s) /\ ReadContent(g, s)' = ReadContent(g, s)
            BY <1>0 DEF DigestRead, ReadContent
        <3>2. Missing(g)' = Missing(g) /\ \A s : ContentOf(g, s)' = ContentOf(g, s)
            BY <3>1 DEF Missing, ContentOf, Merged
        <3>3. G!SlotsOf(g)' = G!SlotsOf(g)
            BY <1>0, SlotsKept
        <3>4. \A S : Registered(g, S)' <=> Registered(g, S)
            BY <1>0, <3>2, <3>3 DEF Registered
        <3>5. AfterBegin(g)' <=> AfterBegin(g)
            BY <1>0 DEF AfterBegin
        <3> QED BY <3>1, <3>2, <3>3, <3>4, <3>5
    <2>3. RunFits(g)
        BY DEF DInv
    <2>4. SeedKnows(g)' /\ ReconcileKnows(g)' /\ FirstFits(g)'
        BY <1>0, <2>2, <2>3 DEF RunFits, SeedKnows, ReconcileKnows, FirstFits
    <2>5. /\ Registered(g, handled[g])' <=> Registered(g, handled[g])
          /\ Registered(g, batch[g])' <=> Registered(g, batch[g])
        BY <1>0, <2>2 DEF Registered
    <2> QED BY <1>0, <2>2, <2>3, <2>4, <2>5 DEF RunFits
<1> QED BY <1>1, <1>2, <1>3, <1>6, <1>7, <1>8, <1>9 DEF DInv

LEMMA NextDInv == DInv /\ [Next]_vars => DInv'
<1> SUFFICES ASSUME DInv, Next PROVE DInv'
    BY StutterDInv
<1>1. GP!IInv' /\ TablesMove
    BY CallsCall, TablesKeep
<1>2. TypeOK'
    BY TypeStep
<1>3. DigestsFit' /\ UploadsHaveRows' /\ ReadFits' /\ SweepFits'
    BY <1>1, DigestsFitStep, UploadsStep, ReadFitsStep, SweepFitsStep
<1>4. ObjectsMatchRows'
    BY <1>1, ServedStep, PurgedStep DEF ObjectsMatchRows
<1>5. SeedRowsStay' /\ DaysServed' /\ DoneSeedIsServed'
    BY <1>1, SeedRowsStep, DaysServedStep, DoneSeedStep
<1>6. \A g \in Gens : RunFits(g)'
    BY <1>1, RunsKeep
<1> QED BY <1>1, <1>2, <1>3, <1>4, <1>5, <1>6 DEF DInv

(* Every scenario starts well.                                             *)
LEMMA InitDInv ==
    ASSUME NEW S, NEW n \in 0..MaxAttempts, NEW sweeps \in BOOLEAN, InitOf(S, n, sweeps)
    PROVE  DInv
<1>1. GP!IInv /\ G!TypeOK
    <2>1. GP!Init
        BY SameTables DEF InitOf
    <2>2. GP!IInv
        BY <2>1, GP!InitIInv, TablesAssumption
        DEF G!ProfileAssumption, G!TradeDateAssumption, G!CandidatesAssumption, G!CodesAssumption,
            G!AbsentAssumption, G!NoGenAssumption, G!Profiles, GP!Profiles
    <2> QED BY <2>2, SameTables DEF GP!IInv
<1>2. tries \in [Gens -> 0..MaxAttempts]
    <2>1. MaxAttempts - n \in 0..MaxAttempts /\ MaxAttempts \in 0..MaxAttempts
        BY MaxAttemptsAssumption
    <2>2. tries = [g \in Gens |-> IF g \in S THEN MaxAttempts - n ELSE MaxAttempts]
        BY DEF InitOf
    <2> QED BY ONLY <2>1, <2>2
<1>3. TypeOK
    BY <1>1, <1>2 DEF InitOf, TypeOK
<1>4. /\ \A g \in Gens : gen[g] = "none" /\ pc[g] = "idle" /\ handled[g] = {} /\ uploaded[g] = {} /\ purged[g] = {}
      /\ \A g \in Gens, s \in G!Slots : obj[g][s] = "none" /\ read[g][s] = NoGen
      /\ blob = {} /\ swRows = {} /\ swOnly = {} /\ swGone = {}
    BY DEF InitOf, G!Init
<1>5. DigestsFit /\ UploadsHaveRows /\ ReadFits /\ SweepFits /\ ObjectsMatchRows
    BY <1>4 DEF DigestsFit, UploadsHaveRows, ReadFits, SweepFits, ObjectsMatchRows, ServedHasObject, PurgedIsGone
<1>6. SeedRowsStay /\ DaysServed /\ DoneSeedIsServed
    BY <1>4 DEF SeedRowsStay, DaysServed, DoneSeedIsServed
<1>7. \A g \in Gens : RunFits(g)
    BY <1>4 DEF RunFits, Begun, Going, Registered, SeedKnows, ReconcileKnows, FirstFits, AfterBegin
<1> QED BY <1>1, <1>3, <1>5, <1>6, <1>7 DEF DInv

(* The invariant holds of every scenario, and so of all runs together.     *)
THEOREM ScenesInvariant ==
    ASSUME NEW S \in SUBSET Gens, NEW n \in 0..MaxAttempts, NEW sweeps \in BOOLEAN
    PROVE  InitOf(S, n, sweeps) /\ [][Next]_vars => []DInv
<1>1. InitOf(S, n, sweeps) => DInv
    BY InitDInv
<1> QED BY <1>1, NextDInv, PTL

THEOREM WritersInvariant == Spec => []DInv
<1>1. Init => DInv
    <2>1. MaxAttempts \in 0..MaxAttempts /\ TRUE \in BOOLEAN
        BY MaxAttemptsAssumption
    <2> QED BY <2>1, InitDInv DEF Init
<1> QED BY <1>1, NextDInv, PTL DEF Spec

(* Every variable keeps its type.                                          *)
THEOREM TypeCorrect == Spec => []TypeOK
<1>1. DInv => TypeOK
    BY DEF DInv
<1> QED BY <1>1, WritersInvariant, PTL

(* Rows and bucket agree both ways, wherever runs and sweeper are killed   *)
(* and whatever the sweeper had read before a row became what it is.       *)
THEOREM RowsHaveObjects == Spec => []ObjectsMatchRows
<1>1. DInv => ObjectsMatchRows
    BY DEF DInv
<1> QED BY <1>1, WritersInvariant, PTL

(* While only seeds commit, no day one of them published is lost.          *)
THEOREM SeededDaysAreKept == Spec => []SeedsKeepDays
<1>1. DInv => SeedsKeepDays
    <2> SUFFICES ASSUME DInv, OnlySeeds, NEW g \in Gens, NEW c \in Codes,
                        obj[g][c] \in {"committed", "superseded", "orphan"}, gen[g] = "committed"
                 PROVE  \E h \in G!Holders(c) : digest[h][c][TradeDate[g]] # NoGen
        BY DEF SeedsKeepDays, SeededDaysStay
    <2>1. c \in G!Slots /\ TradeDate[g] \in Days
        BY DEF G!Slots, Days
    <2>2. digest[g][c][TradeDate[g]] # NoGen
        BY <2>1, Bounds DEF DInv, DigestsFit
    <2>3. Served(c, TradeDate[g])
        BY <2>1, <2>2 DEF DInv, DaysServed
    <2> QED BY <2>3 DEF Served
<1> QED BY <1>1, WritersInvariant, PTL

(* A seed that ended well has its day in each series it was given.         *)
THEOREM DoneSeedsAreServed == Spec => []DoneSeedIsServed
<1>1. DInv => DoneSeedIsServed
    BY DEF DInv
<1> QED BY <1>1, WritersInvariant, PTL

(* The step by which a generation becomes committed is its own commit.     *)
LEMMA CommitOf ==
    ASSUME DInv, [Next]_vars, NEW g \in Gens, gen[g] # "committed", gen'[g] = "committed"
    PROVE  Commit(g) /\ G!Commit(g)
<1>1. Next
    BY DEF vars, tables
<1>2. PICK k \in Gens : Commit(k) /\ G!Commit(k)
    BY <1>1, QuietOrCommit
<1>3. gen' = [gen EXCEPT ![k] = "committed"]
    BY <1>2, CommitMoves
<1>4. g = k
    BY <1>3, TableFacts, TablesTyped
<1> QED BY <1>2, <1>4

(* What the committing run has written, and what it displaces.             *)
LEMMA CommitStands ==
    ASSUME DInv, NEW g \in Gens, Commit(g), G!Commit(g)
    PROVE  /\ \A s \in G!SlotsOf(g) : s \in G!Slots /\ obj[g][s] = "pending" /\ digest[g][s] = ContentOf(g, s)
           /\ AfterBegin(g) /\ G!PriorHolds(g)
           /\ \A h \in Gens, s \in G!Slots :
                 obj[h][s] = "committed" /\ obj'[h][s] # "committed" =>
                    h # g /\ s \in G!SlotsOf(g) /\ G!SameCoordinate(s, g, h)
<1>1. /\ sealed[g] = G!SlotsOf(g) /\ G!PriorHolds(g)
      /\ \A s \in G!Slots : obj[g][s] = "pending" <=> s \in G!SlotsOf(g)
      /\ \A s \in G!Slots : obj'[g][s] = IF s \in G!SlotsOf(g) THEN "committed" ELSE obj[g][s]
      /\ \A h \in Gens \ {g}, s \in G!Slots :
            obj'[h][s] = IF Displaced(g, h, s) THEN G!DisplacedStatus(g) ELSE obj[h][s]
    BY CommitMoves
<1>2. \A s \in G!SlotsOf(g) : s \in G!Slots
    BY TableFacts, SlotsSubset
<1>3. pc[g] = "commit" /\ RunFits(g)
    BY DEF Commit, DInv
<1>4. Registered(g, handled[g]) /\ handled[g] = sealed[g]
    BY <1>3 DEF RunFits, Going, Begun
<1>5. AfterBegin(g)
    BY <1>3 DEF AfterBegin, Begun
<1>6. \A h \in Gens, s \in G!Slots :
                 obj[h][s] = "committed" /\ obj'[h][s] # "committed" =>
                    h # g /\ s \in G!SlotsOf(g) /\ G!SameCoordinate(s, g, h)
    BY <1>1 DEF Displaced
<1> QED BY <1>1, <1>2, <1>4, <1>5, <1>6 DEF Registered

LEMMA PublishKeeps ==
    ASSUME DInv, [Next]_vars, NEW g \in Gens, gen[g] # "committed", gen'[g] = "committed",
           NEW c \in G!SeriesWith(g, members[g]), NEW h \in Gens,
           obj[h][c] = "committed", obj'[h][c] # "committed", IsSeed(g) \/ h = read[g][c]
    PROVE  \A d \in Days \ {TradeDate[g]} : digest[g][c][d] = digest[h][c][d]
<1>1. Commit(g) /\ G!Commit(g)
    BY CommitOf
<1>2. c \in members[g] /\ c \in G!SlotsOf(g)
    BY DEF G!SeriesWith, G!SlotsOf, G!SlotsWith
<1>3. c \in Codes /\ c \in G!Slots
    BY <1>2, TableFacts, TablesTyped
<1>4. /\ obj[g][c] = "pending" /\ digest[g][c] = ContentOf(g, c) /\ AfterBegin(g) /\ G!PriorHolds(g)
      /\ h # g
    BY <1>1, <1>2, <1>3, CommitStands
<1>5. digest[h][c] \in Contents
    BY <1>3 DEF DInv, DigestsFit
<1>6. digest[g][c] = OwnDay(g, digest[h][c])
    <2>1. CASE IsSeed(g)
        <3>1. IF prior[g][c] = Absent THEN G!Holders(c) = {}
              ELSE \E j \in G!Holders(c) : digest[j][c] = prior[g][c]
            BY <1>2, <1>4, <2>1 DEF G!PriorHolds, IsSeed
        <3>2. h \in G!Holders(c) /\ \A j \in G!Holders(c) : j = h
            BY <1>3, TableFacts DEF G!Holders, G!SameCoordinate
        <3>3. prior[g][c] = digest[h][c]
            BY <3>1, <3>2
        <3>4. PriorContent(g, c) = digest[h][c]
            BY <1>5, <3>3, Bounds DEF PriorContent
        <3> QED BY <1>3, <1>4, <2>1, <3>4 DEF DInv, DigestsFit
    <2>2. CASE h = read[g][c]
        <3>1. read[g][c] # NoGen
            BY <2>2, Bounds
        <3>2. ReadContent(g, c) = digest[h][c]
            BY <2>2, <3>1 DEF ReadContent
        <3> QED BY <1>3, <1>4, <3>2, ReadFacts
    <2> QED BY <2>1, <2>2
<1> QED BY <1>5, <1>6, ContentsHave

(* A commit keeps the days of the series it takes over, as far as its run  *)
(* knew of it: a seed always does.                                         *)
THEOREM PublishKeepsTheDays == Spec => PublishKeepsDays
<1>1. DInv /\ [Next]_vars =>
         [\A g \in Gens : gen[g] # "committed" /\ gen'[g] = "committed" =>
             \A c \in G!SeriesWith(g, members[g]), h \in Gens :
                /\ obj[h][c] = "committed" /\ obj'[h][c] # "committed"
                /\ IsSeed(g) \/ h = read[g][c]
                => \A d \in Days \ {TradeDate[g]} : digest[g][c][d] = digest[h][c][d]]_vars
    BY PublishKeeps
<1> QED BY <1>1, WritersInvariant, PTL DEF Spec, PublishKeepsDays

LEMMA ReconcileReplaces ==
    ASSUME DInv, [Next]_vars, NEW g \in Reconciles, NEW h \in Gens,
           gen[g] = "pending", gen'[g] = "committed",
           obj[h]["snapshot"] = "committed", obj'[h]["snapshot"] # "committed"
    PROVE  read[g]["snapshot"] = h
<1>0. g \in Gens /\ "snapshot" \in G!Slots /\ "snapshot" \notin Codes
    BY ReconcilesAssumption, Bounds DEF G!Slots
<1>1. Commit(g) /\ G!Commit(g)
    BY <1>0, CommitOf
<1>2. /\ AfterBegin(g) /\ G!PriorHolds(g)
      /\ h # g /\ "snapshot" \in G!SlotsOf(g) /\ G!SameCoordinate("snapshot", g, h)
    BY <1>0, <1>1, CommitStands
<1>3. ~IsSeed(g) /\ Profile[g] # "web_asof"
    <2>1. "snapshot" \notin members[g]
        BY <1>0, TableFacts, TablesTyped
    <2> QED BY <1>0, <1>2, <2>1, SlotsAre
<1>4. read[g]["snapshot"] # NoGen /\ prior[g]["snapshot"] = DigestRead(g, "snapshot")
    BY <1>0, <1>2, <1>3 DEF DInv, RunFits, ReconcileKnows
<1> DEFINE r == read[g]["snapshot"]
<1>5. r \in Gens /\ obj[r]["snapshot"] # "none" /\ prior[g]["snapshot"] = digest[r]["snapshot"]
      /\ prior[g]["snapshot"] # Absent
    BY <1>0, <1>4, ReadFacts
<1>6. PICK k \in G!Holders("snapshot") : TradeDate[k] = TradeDate[g] /\ digest[k]["snapshot"] = prior[g]["snapshot"]
    BY <1>2, <1>3, <1>5 DEF G!PriorHolds, IsSeed
<1>7. k = h
    <2>1. k \in Gens /\ obj[k]["snapshot"] = "committed"
        BY <1>6 DEF G!Holders
    <2>2. TradeDate[g] = TradeDate[h]
        BY <1>0, <1>2, Bounds DEF G!SameCoordinate
    <2>3. G!SameCoordinate("snapshot", k, h)
        BY <1>6, <2>2 DEF G!SameCoordinate
    <2> QED BY <1>0, <2>1, <2>3, TableFacts
<1>8. digest[h]["snapshot"] = OwnDay(h, Nothing) /\ digest[r]["snapshot"] = OwnDay(r, Nothing)
    BY <1>0, <1>5 DEF DInv, DigestsFit
<1>9. OwnDay(h, Nothing) = OwnDay(r, Nothing)
    BY <1>5, <1>6, <1>7, <1>8
<1> HIDE DEF r
<1>10. r = h
    <2>1. TradeDate[h] \in Days /\ TradeDate[r] \in Days
        BY <1>5 DEF Days
    <2>2. OwnDay(h, Nothing)[TradeDate[h]] = h
        BY ContentsHave
    <2>3. TradeDate[h] # TradeDate[r] => OwnDay(r, Nothing)[TradeDate[h]] = NoGen
        <3>1. Nothing[TradeDate[h]] = NoGen
            BY <2>1 DEF Nothing
        <3>2. TradeDate[h] # TradeDate[r] => OwnDay(r, Nothing)[TradeDate[h]] = Nothing[TradeDate[h]]
            BY <1>5, <2>1, ContentsHave
        <3> QED BY <3>1, <3>2
    <2>4. OwnDay(r, Nothing)[TradeDate[r]] = r
        BY <1>5, ContentsHave
    <2> QED BY <1>9, <2>2, <2>3, <2>4, Bounds
<1> QED BY <1>10 DEF r

(* Whatever a run publishes stands on what it read.                        *)
THEOREM PublishesOnReading == Spec => PublishesOnWhatItRead
<1>1. DInv /\ [Next]_vars =>
         [\A g \in Reconciles, h \in Gens :
             /\ gen[g] = "pending" /\ gen'[g] = "committed"
             /\ obj[h]["snapshot"] = "committed" /\ obj'[h]["snapshot"] # "committed"
             => read[g]["snapshot"] = h]_vars
    BY ReconcileReplaces
<1>2. Spec => ReconcileReplacesWhatItRead
    BY <1>1, WritersInvariant, PTL DEF Spec, ReconcileReplacesWhatItRead
<1> QED BY <1>2, PublishKeepsTheDays, PTL DEF PublishesOnWhatItRead

(* The programs are callers of the tables as any other: what readers see   *)
(* under them is the catalog.                                              *)
THEOREM WritersImplementCatalog == Spec => ImplementsCatalog
<1>1. Init => GP!Init
    BY SameTables DEF Init, InitOf
<1>2. DInv /\ [Next]_vars => [GP!Next]_(GP!vars)
    BY CallsCall, SameTables
<1>3. Spec => GP!Spec
    BY <1>1, <1>2, WritersInvariant, PTL DEF Spec, GP!Spec
<1>4. GP!Spec => GP!ImplementsCatalog
    BY GP!Refinement, TablesAssumption
    DEF G!ProfileAssumption, G!TradeDateAssumption, G!CandidatesAssumption, G!CodesAssumption,
        G!AbsentAssumption, G!NoGenAssumption, G!Profiles, GP!Profiles
<1>5. /\ GP!Catalog!Init <=> G!Catalog!Init
      /\ GP!Catalog!Next <=> G!Catalog!Next
      /\ (UNCHANGED GP!Catalog!catalog) <=> UNCHANGED G!Catalog!catalog
    <2>1. GP!CommittedGens = G!CommittedGens /\ GP!LiveObjects = G!LiveObjects
        BY SameOperators DEF GP!CommittedGens, G!CommittedGens, GP!LiveObjects, G!LiveObjects
    <2>2. GP!CommittedGens' = G!CommittedGens' /\ GP!LiveObjects' = G!LiveObjects'
        BY DEF GP!CommittedGens, G!CommittedGens, GP!LiveObjects, G!LiveObjects, GP!Slots, G!Slots
    <2>3. GP!OffersOf = G!OffersOf
        BY DEF GP!OffersOf, G!OffersOf, GP!SlotsWith, G!SlotsWith, GP!SeriesWith, G!SeriesWith,
           GP!DailySeriesProfiles, G!DailySeriesProfiles, GP!TopsWith, G!TopsWith
    <2>4. \A g, W : GP!Catalog!TakenOver(g, W) = G!Catalog!TakenOver(g, W)
        BY <2>1, SameOperators DEF GP!Catalog!TakenOver, G!Catalog!TakenOver
    <2>5. \A g, W, T : GP!Catalog!Publish(g, W, T) <=> G!Catalog!Publish(g, W, T)
        BY <2>1, <2>2, <2>4 DEF GP!Catalog!Publish, G!Catalog!Publish
    <2>6. GP!Catalog!Next <=> G!Catalog!Next
        BY <2>3, <2>5 DEF GP!Catalog!Next, G!Catalog!Next
    <2> QED BY <2>1, <2>2, <2>6 DEF GP!Catalog!Init, G!Catalog!Init, GP!Catalog!catalog, G!Catalog!catalog
<1>6. GP!ImplementsCatalog => G!ImplementsCatalog
    BY <1>5, PTL DEF GP!ImplementsCatalog, G!ImplementsCatalog, GP!Catalog!Spec, G!Catalog!Spec
<1> QED BY <1>3, <1>4, <1>6, PTL DEF ImplementsCatalog
=============================================================================
