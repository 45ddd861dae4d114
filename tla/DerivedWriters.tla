---------------------------- MODULE DerivedWriters ----------------------------
(***************************************************************************)
(* The programs that call the derived generation control plane, with the   *)
(* bucket they write: the derived writer (Daily, backfill, reconcile), the *)
(* series-only writer (seed, repair), the web as-of writer, and the        *)
(* sweeper of orphans.  A writer is one workflow run for one trade date,   *)
(* so it is named by its generation.  Each call to the database or to the  *)
(* bucket is a step; a run may stop between any two, or lose the answer of *)
(* the last one, and be run again under the same identity.                 *)
(*                                                                         *)
(* A content is, for each day, the run whose values it holds.  The leases  *)
(* of series_write_leases are polled before begin and written by nobody,   *)
(* so the poll never waits and is not a step.                              *)
(***************************************************************************)
EXTENDS Naturals

CONSTANTS
    Gens, Codes, Absent, NoGen, Profile, TradeDate, Candidates, Request,
    Reconciles,    \* the runs of derived_reconcile.yml
    Group,         \* concurrency group of each run
    MaxAttempts    \* bound on the attempts of one run

ASSUME ReconcilesAssumption == Reconciles \subseteq Gens
ASSUME MaxAttemptsAssumption == MaxAttempts \in Nat

VARIABLES
    gen, members, prior, sealed, obj, digest, uploaded, purged, staged, latest,
    pc,        \* where the run of each generation is
    read,      \* the committed holders it listed, per slot
    handled,   \* the slots this attempt has registered, put and marked
    batch,     \* the slots it is working on
    tries,     \* attempts started
    blob,      \* the objects in the bucket, <<generation, slot>>
    swPc,      \* where the sweeper is
    swRows,    \* the orphan rows it has listed and not dealt with
    swOnly,    \* the orphan-only generations it has found
    swGone,    \* the row whose object it has deleted, to be marked purged
    swDeletes  \* --delete-orphan-rows

tables == <<gen, members, prior, sealed, obj, digest, uploaded, purged, staged, latest>>
run == <<pc, read, handled, batch, tries>>
sweeper == <<swPc, swRows, swOnly, swGone, swDeletes>>
vars == <<tables, run, blob, sweeper>>

Days == {TradeDate[g] : g \in Gens}
Contents == [Days -> Gens \cup {NoGen}]
Nothing == [d \in Days |-> NoGen]

G == INSTANCE DerivedGeneration WITH Digests <- Contents

ASSUME TablesAssumption ==
    /\ G!ProfileAssumption /\ G!TradeDateAssumption /\ G!CandidatesAssumption
    /\ G!CodesAssumption /\ G!AbsentAssumption /\ G!NoGenAssumption

-----------------------------------------------------------------------------
IsSeed(g) == Profile[g] = "series_only"
WritesSeries(g) == Profile[g] \in G!DailySeriesProfiles /\ Candidates[g] # {}
FirstSlot(g) == IF Profile[g] = "web_asof" THEN "asof" ELSE "snapshot"

Active(g) == pc[g] \notin {"idle", "done", "exit", "stopped"}

(* What g read of a series, and the series it writes: its own day put into *)
(* what it read.  Seeds only write where the day is missing.               *)
ReadContent(g, c) == IF read[g][c] = NoGen THEN Nothing ELSE digest[read[g][c]][c]

(* Mutant: the merge starts a new series.                                  *)
MergedAfresh(g, c) == [Nothing EXCEPT ![TradeDate[g]] = g]

Merged(g, c) == [ReadContent(g, c) EXCEPT ![TradeDate[g]] = g]

(* Mutant: a code that has a series of the year is not missing.            *)
MissingSeries(g) == {c \in Candidates[g] : read[g][c] = NoGen}

Missing(g) == {c \in Candidates[g] : ReadContent(g, c)[TradeDate[g]] = NoGen}
ContentOf(g, s) ==
    IF s \in Codes THEN Merged(g, s) ELSE [Nothing EXCEPT ![TradeDate[g]] = g]

(* The codes and the expected digests given to begin.                      *)
CodesToBegin(g) ==
    CASE IsSeed(g) -> Missing(g)
      [] Profile[g] = "web_asof" -> {}
      [] OTHER -> Candidates[g]
DigestRead(g, s) == IF read[g][s] = NoGen THEN Absent ELSE digest[read[g][s]][s]
Expected(g) == [s \in G!Expectations(g, CodesToBegin(g)) |-> DigestRead(g, s)]

(* The batches in the order of the writer: the snapshot and its manifest,  *)
(* then chunks of series (of one code); or all the series, then the delta. *)
NextBatches(g) ==
    IF IsSeed(g)
    THEN IF members[g] \subseteq handled[g] THEN {{"delta"}} ELSE {members[g]}
    ELSE IF FirstSlot(g) \notin handled[g] THEN {{FirstSlot(g)}}
    ELSE {{c} : c \in members[g] \ handled[g]}

AfterMark(g, S) ==
    LET rest == G!SlotsOf(g) \ (handled[g] \cup S) IN
    CASE ~IsSeed(g) /\ S = {"snapshot"} /\ rest # {} -> "list"
      [] rest # {} -> "register"
      [] Profile[g] = "snapshot_series_latest" -> "stage"
      [] OTHER -> "seal"

(* Mutant: the series-only writer reports a status of its own.             *)
OnErrorReported(g) == IF IsSeed(g) THEN "failed" ELSE "failing"

(* Where an exception takes a run: both writers but the series-only one    *)
(* catch it and fail the generation.                                       *)
OnError(g) == IF IsSeed(g) THEN "stopped" ELSE "failing"

Goto(g, l) == pc' = [pc EXCEPT ![g] = l]

(* The runs of S start up to n times, the others never, and the sweeper    *)
(* only if it is said to.                                                  *)
InitOf(S, n, sweeps) ==
    /\ G!Init
    /\ pc = [g \in Gens |-> "idle"]
    /\ read = [g \in Gens |-> [s \in G!Slots |-> NoGen]]
    /\ handled = [g \in Gens |-> {}]
    /\ batch = [g \in Gens |-> {}]
    /\ tries = [g \in Gens |-> IF g \in S THEN MaxAttempts - n ELSE MaxAttempts]
    /\ blob = {}
    /\ swPc = IF sweeps THEN "idle" ELSE "off"
    /\ swRows = {} /\ swOnly = {} /\ swGone = {} /\ swDeletes = FALSE

Init == InitOf(Gens, MaxAttempts, TRUE)

-----------------------------------------------------------------------------
(* The listing of the committed rows of the slots S: a holder or none.     *)
Listed(g, s, h) ==
    IF \E k \in G!Holders(s) : G!SameCoordinate(s, g, k)
    THEN h \in G!Holders(s) /\ G!SameCoordinate(s, g, h)
    ELSE h = NoGen

ListFor(g, S) ==
    \E f \in [S -> Gens \cup {NoGen}] :
        /\ \A s \in S : Listed(g, s, f[s])
        /\ read' = [read EXCEPT ![g] = [s \in G!Slots |-> IF s \in S THEN f[s] ELSE @[s]]]

(* A run starts when no other run of its concurrency group is active.      *)
(* Reconcile first looks the committed snapshot digest up and exits        *)
(* without one; the series-only writer lists the series of its codes.      *)
Start(g) ==
    /\ pc[g] = "idle" /\ tries[g] < MaxAttempts
    /\ \A h \in Gens \ {g} : Group[h] = Group[g] => ~Active(h)
    /\ tries' = [tries EXCEPT ![g] = @ + 1]
    /\ handled' = [handled EXCEPT ![g] = {}]
    /\ \/ IsSeed(g) /\ ListFor(g, Candidates[g]) /\ Goto(g, "fetch")
       \/ ~IsSeed(g) /\ g \notin Reconciles /\ ListFor(g, {}) /\ Goto(g, "begin")
       \/ /\ g \in Reconciles
          /\ ListFor(g, {"snapshot"})
          /\ Goto(g, IF read'[g]["snapshot"] = NoGen THEN "exit" ELSE "begin")
    /\ UNCHANGED <<tables, batch, blob, sweeper>>

(* The bytes of what was listed; an object that is gone is an exception.   *)
Fetch(g) ==
    /\ pc[g] = "fetch"
    /\ Goto(g, IF \A c \in Candidates[g] : read[g][c] # NoGen => <<read[g][c], c>> \in blob
               THEN IF IsSeed(g) THEN "begin" ELSE "register"
               ELSE OnError(g))
    /\ UNCHANGED <<tables, read, handled, batch, tries, blob, sweeper>>

(* begin_derived_generation; a seed without missing codes is done, and a   *)
(* generation found committed is skipped by the writers that look.         *)
Begin(g) ==
    /\ pc[g] = "begin"
    /\ LET M == CodesToBegin(g) IN
       \/ IsSeed(g) /\ M = {} /\ Goto(g, "done") /\ UNCHANGED tables
       \/ G!Begin(g, M, Expected(g)) /\ Goto(g, "register")
       \/ /\ G!BeginFinds(g, M, Expected(g))
          /\ Goto(g, IF gen[g] = "committed" /\ ~IsSeed(g) THEN "done" ELSE "register")
          /\ UNCHANGED tables
       \/ /\ G!BeginRaises(g, M, Expected(g)) /\ ~(IsSeed(g) /\ M = {})
          /\ Goto(g, IF IsSeed(g) THEN "stopped" ELSE "exit")
          /\ UNCHANGED tables
    /\ UNCHANGED <<read, handled, batch, tries, blob, sweeper>>

RegisterAllowed(g, S) ==
    /\ gen[g] = "pending"
    /\ \A s \in S : obj[g][s] # "none" => digest[g][s] = ContentOf(g, s)

Register(g, S) ==
    /\ pc[g] = "register"
    /\ IF RegisterAllowed(g, S)
       THEN /\ G!RegisterPendingObjects(g, [s \in S |-> ContentOf(g, s)])
            /\ batch' = [batch EXCEPT ![g] = S]
            /\ Goto(g, "put")
       ELSE Goto(g, OnError(g)) /\ UNCHANGED <<tables, batch>>
    /\ UNCHANGED <<read, handled, tries, blob, sweeper>>

(* Mutant: the parallel put does not raise what a worker raised.           *)
PutLosingErrors(g) ==
    /\ pc[g] = "put"
    /\ blob' \in {blob, blob \cup ({g} \X batch[g])}
    /\ Goto(g, "mark")
    /\ UNCHANGED <<tables, read, handled, batch, tries, sweeper>>

(* put_create_only: the key holds the generation and the digest, so an     *)
(* object that exists holds the same bytes.                                *)
Put(g) ==
    /\ pc[g] = "put"
    /\ blob' = blob \cup ({g} \X batch[g])
    /\ Goto(g, "mark")
    /\ UNCHANGED <<tables, read, handled, batch, tries, sweeper>>

Mark(g) ==
    /\ pc[g] = "mark"
    /\ IF gen[g] = "pending" /\ batch[g] \subseteq G!Pending(g)
       THEN /\ G!MarkObjectsUploaded(g, batch[g])
            /\ handled' = [handled EXCEPT ![g] = @ \cup batch[g]]
            /\ Goto(g, AfterMark(g, batch[g]))
       ELSE Goto(g, OnError(g)) /\ UNCHANGED <<tables, handled>>
    /\ batch' = [batch EXCEPT ![g] = {}]
    /\ UNCHANGED <<read, tries, blob, sweeper>>

(* list_committed_series_keys, after the snapshot is uploaded.             *)
List(g) ==
    /\ pc[g] = "list"
    /\ ListFor(g, Candidates[g])
    /\ Goto(g, "fetch")
    /\ UNCHANGED <<tables, handled, batch, tries, blob, sweeper>>

Stage(g) ==
    /\ pc[g] = "stage"
    /\ G!StageLatest(g, members[g])
    /\ Goto(g, "seal")
    /\ UNCHANGED <<read, handled, batch, tries, blob, sweeper>>

Seal(g) ==
    /\ pc[g] = "seal"
    /\ IF gen[g] = "pending" /\ sealed[g] \in {{}, handled[g]}
       THEN G!SetObjectSetDigest(g, handled[g]) /\ Goto(g, "commit")
       ELSE Goto(g, OnError(g)) /\ UNCHANGED tables
    /\ UNCHANGED <<read, handled, batch, tries, blob, sweeper>>

(* commit_derived_generation; its answer may be lost.                      *)
Commit(g) ==
    /\ pc[g] = "commit"
    /\ \/ G!Commit(g) /\ \E l \in {"done", OnError(g)} : Goto(g, l)
       \/ ~G!CommitAllowed(g) /\ Goto(g, OnError(g)) /\ UNCHANGED tables
    /\ UNCHANGED <<read, handled, batch, tries, blob, sweeper>>

(* fail_generation: raises, and so ends the run, when there is nothing     *)
(* pending to fail.                                                        *)
FailGeneration(g) ==
    /\ pc[g] = "failing"
    /\ \/ G!Fail(g) /\ Goto(g, "exit")
       \/ gen[g] # "pending" /\ Goto(g, "stopped") /\ UNCHANGED tables
    /\ UNCHANGED <<read, handled, batch, tries, blob, sweeper>>

-----------------------------------------------------------------------------
(* The run is killed or loses a connection between two calls.  The derived *)
(* writer catches that only once the snapshot and its manifest are up.     *)
Interrupt(g) ==
    /\ Active(g)
    /\ \/ Goto(g, "stopped")
       \/ /\ Profile[g] = "web_asof" \/ "snapshot" \in handled[g]
          /\ pc[g] \notin {"begin", "failing"}
          /\ Goto(g, "failing")
    /\ UNCHANGED <<tables, read, handled, batch, tries, blob, sweeper>>

(* GitHub re-runs a job under the same run id, finished or not.            *)
ReRun(g) ==
    /\ pc[g] \in {"stopped", "exit", "done"}
    /\ tries[g] < MaxAttempts
    /\ Goto(g, "idle")
    /\ UNCHANGED <<tables, read, handled, batch, tries, blob, sweeper>>

RunStep(g) ==
    \/ Start(g) \/ Fetch(g) \/ Begin(g)
    \/ \E S \in NextBatches(g) : Register(g, S)
    \/ Put(g) \/ Mark(g) \/ List(g) \/ Stage(g) \/ Seal(g) \/ Commit(g)
    \/ FailGeneration(g)

-----------------------------------------------------------------------------
(* derived_generation_sweeper.py.  It lists the unpurged orphan rows,      *)
SweepList(deletes) ==
    /\ swPc = "idle"
    /\ swRows' = {r \in G!OrphanRows : r[2] \notin purged[r[1]]}
    /\ swDeletes' = deletes
    /\ swPc' = "classify"
    /\ UNCHANGED <<tables, run, blob, swOnly, swGone>>

(* Mutant: only pending rows keep the prefix of a generation.              *)
OrphanUnlessPending(g) == \A s \in G!Slots : obj[g][s] # "pending"

(* finds the generations with nothing but orphans and no latest row,       *)
OrphanOnly(g) ==
    /\ \A s \in G!Slots : obj[g][s] \notin {"pending", "committed", "superseded"}
    /\ \A c \in Codes : latest[c] # g

SweepClassify ==
    /\ swPc = "classify"
    /\ swOnly' = {g \in {r[1] : r \in swRows} : OrphanOnly(g)}
    /\ swPc' = "prefix"
    /\ UNCHANGED <<tables, run, blob, swRows, swGone, swDeletes>>

(* deletes what is under their prefix, which with the keys in use is the   *)
(* snapshot (an error is noted and passed over),                           *)
SweepPrefix ==
    /\ swPc = "prefix"
    /\ IF swOnly = {} THEN swPc' = "rows" /\ UNCHANGED <<blob, swOnly>>
       ELSE \E g \in swOnly :
               /\ blob' \in {blob, blob \ {<<g, "snapshot">>}}
               /\ swOnly' = swOnly \ {g}
               /\ UNCHANGED swPc
    /\ UNCHANGED <<tables, run, swRows, swGone, swDeletes>>

(* Mutant: the row counts as dealt with although the delete failed.        *)
SweepObjectUnchecked(r) ==
    /\ swPc = "rows" /\ swGone = {}
    /\ swRows' = swRows \ {r}
    /\ blob' \in {blob, blob \ {r}}
    /\ swGone' = IF swDeletes \/ r[2] = "delta" THEN {} ELSE {r}
    /\ UNCHANGED <<tables, run, swPc, swOnly, swDeletes>>

(* deletes the object of each row but the deltas, and goes on to the next  *)
(* row when that fails or when the rows are to be deleted,                 *)
SweepObject(r) ==
    /\ swPc = "rows" /\ swGone = {}
    /\ swRows' = swRows \ {r}
    /\ \/ UNCHANGED <<blob, swGone>>
       \/ /\ r[2] # "delta"
          /\ blob' = blob \ {r}
          /\ swGone' = IF swDeletes THEN {} ELSE {r}
    /\ UNCHANGED <<tables, run, swPc, swOnly, swDeletes>>

(* or else marks the row purged (which may fail too),                      *)
SweepPurge(r) ==
    /\ swPc = "rows" /\ r \in swGone
    /\ swGone' = {}
    /\ G!MarkPurged(r[1], r[2]) \/ UNCHANGED tables
    /\ UNCHANGED <<run, blob, swPc, swRows, swOnly, swDeletes>>

(* and at last deletes all orphan rows of that moment, purged or not,      *)
(* batch by batch until a call finds none.                                 *)
SweepDeleteRows ==
    /\ swPc = "rows" /\ swRows = {} /\ swDeletes
    /\ G!DeleteOrphanObjects(G!OrphanRows)
    /\ UNCHANGED <<run, blob, sweeper>>

SweepEnd ==
    /\ swPc = "rows" /\ swRows = {} /\ swGone = {}
    /\ swDeletes => G!OrphanRows = {}
    /\ swPc' = "idle" /\ swDeletes' = FALSE
    /\ UNCHANGED <<tables, run, blob, swRows, swOnly, swGone>>

(* It too may be killed anywhere.                                          *)
SweepKilled ==
    /\ swPc \notin {"idle", "off"}
    /\ swPc' = "idle" /\ swRows' = {} /\ swOnly' = {} /\ swGone' = {} /\ swDeletes' = FALSE
    /\ UNCHANGED <<tables, run, blob>>

SweeperStep ==
    \/ \E deletes \in BOOLEAN : SweepList(deletes)
    \/ SweepClassify
    \/ SweepPrefix
    \/ \E r \in swRows : SweepObject(r)
    \/ \E r \in swGone : SweepPurge(r)
    \/ SweepDeleteRows
    \/ SweepEnd
    \/ SweepKilled

Next ==
    \/ \E g \in Gens : RunStep(g) \/ Interrupt(g) \/ ReRun(g)
    \/ SweeperStep

Spec == Init /\ [][Next]_vars

-----------------------------------------------------------------------------
TypeOK ==
    /\ G!TypeOK
    /\ pc \in [Gens -> {"idle", "begin", "register", "put", "mark", "list", "fetch", "stage",
                         "seal", "commit", "failing", "done", "exit", "stopped"}]
    /\ read \in [Gens -> [G!Slots -> Gens \cup {NoGen}]]
    /\ handled \in [Gens -> SUBSET G!Slots]
    /\ batch \in [Gens -> SUBSET G!Slots]
    /\ tries \in [Gens -> 0..MaxAttempts]
    /\ blob \subseteq Gens \X G!Slots
    /\ swPc \in {"off", "idle", "classify", "prefix", "rows"}
    /\ swRows \subseteq Gens \X G!Slots
    /\ swOnly \subseteq Gens
    /\ swGone \subseteq Gens \X G!Slots
    /\ swDeletes \in BOOLEAN

(* The promise to readers holds under the writers as they are, whatever    *)
(* they read before they commit and wherever they are killed.              *)
ImplementsCatalog == G!ImplementsCatalog

(* Behind every row a reader may be handed, committed or superseded, and   *)
(* every row marked uploaded that a commit may still publish, there is the *)
(* object: whatever the sweeper read before the row became what it is.     *)
ServedHasObject ==
    \A g \in Gens, s \in G!Slots :
        \/ obj[g][s] \in {"committed", "superseded"}
        \/ obj[g][s] = "pending" /\ s \in uploaded[g]
        => <<g, s>> \in blob

(* A row marked purged has no object left: the retention report of the     *)
(* sweeper is true, and no run puts the object back.                       *)
PurgedIsGone ==
    \A g \in Gens, s \in G!Slots : s \in purged[g] => <<g, s>> \notin blob

(* The rows and the bucket agree, both ways.                               *)
ObjectsMatchRows == ServedHasObject /\ PurgedIsGone

(* What a commit publishes for a series keeps every day of the series it   *)
(* takes over, of which it knew: always for a seed, which compares and     *)
(* sets, and for a Daily unless another run committed since it listed.     *)
PublishKeepsDays ==
    [][\A g \in Gens : gen[g] # "committed" /\ gen'[g] = "committed" =>
          \A c \in G!SeriesWith(g, members[g]), h \in Gens :
             /\ obj[h][c] = "committed" /\ obj'[h][c] # "committed"
             /\ IsSeed(g) \/ h = read[g][c]
             => \A d \in Days \ {TradeDate[g]} : digest[g][c][d] = digest[h][c][d]]_vars

(* A reconcile replaces the snapshot it looked up at its start and no      *)
(* other, even when it is run again or another run of that date publishes  *)
(* in between.                                                             *)
ReconcileReplacesWhatItRead ==
    [][\A g \in Reconciles, h \in Gens :
          /\ gen[g] = "pending" /\ gen'[g] = "committed"
          /\ obj[h]["snapshot"] = "committed" /\ obj'[h]["snapshot"] # "committed"
          => read[g]["snapshot"] = h]_vars

(* Whatever a run publishes stands on what it read: a series on the days   *)
(* of the one it takes over, a snapshot on the one it looked up.           *)
PublishesOnWhatItRead == PublishKeepsDays /\ ReconcileReplacesWhatItRead

(* While only seeds commit, a seed that ends well has left its day in each *)
(* series it was given, whichever days other seeds put there meanwhile.    *)
OnlySeeds == \A g \in Gens : gen[g] = "committed" => IsSeed(g)

DoneSeedIsServed ==
    OnlySeeds => \A g \in Gens : pc[g] = "done" /\ IsSeed(g) =>
        \A c \in Candidates[g] :
            \E h \in G!Holders(c) : digest[h][c][TradeDate[g]] # NoGen

(* A day a seed has published stays in the series that is served.  ADR-005 *)
(* asks that Daily and the asynchronous completion do not overwrite one    *)
(* another; a Daily commit does not compare what it read.                  *)
SeededDaysStay ==
    \A g \in Gens, c \in Codes :
        obj[g][c] \in {"committed", "superseded", "orphan"} /\ gen[g] = "committed" /\ IsSeed(g) =>
            \E h \in G!Holders(c) : digest[h][c][TradeDate[g]] # NoGen

(* While only seeds commit, it stays: they compare and set.                *)
SeedsKeepDays == OnlySeeds => SeededDaysStay

(* A re-run of a run that has published ends well ("generation already     *)
(* committed"): it is never told an error.                                 *)
PublishedRunNeverErrs ==
    \A g \in Gens : gen[g] = "committed" => pc[g] # "exit"
=============================================================================
