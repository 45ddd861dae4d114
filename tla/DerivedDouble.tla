---------------------------- MODULE DerivedDouble ----------------------------
(***************************************************************************)
(* FakeMetricGenerationStore, the in-memory double of the control plane    *)
(* on which the writers are tested.  It keeps the same tables, so this     *)
(* module keeps the variables of DerivedGeneration, and four indexes of    *)
(* what is committed that the database has no counterpart of: the lookups  *)
(* of the double read the indexes, its commit checks read both.  A method  *)
(* that raises keeps what it has written so far: nothing rolls back.       *)
(* Every method that writes holds the lock of the store and is one action, *)
(* but fail_generation, which takes none: calls of other threads may come  *)
(* between its check and its writes, or be under way meanwhile.            *)
(***************************************************************************)
EXTENDS DerivedGeneration

VARIABLES
    servedSeries,    \* committed_series_object_key_by_coord and its digests
    servedSnapshot,  \* committed_snapshot_digest_by_set_date
    servedBundle,    \* committed_web_asof_object_key_by_coord
    failing,         \* generations a fail_generation has found pending and not yet failed
    overtaken        \* history: generations committed while one was failing them

doubleVars == <<vars, servedSeries, servedSnapshot, servedBundle, failing, overtaken>>

Dates == {TradeDate[g] : g \in Gens}

DoubleTypeOK ==
    /\ TypeOK
    /\ servedSeries \in [Codes -> Gens \cup {NoGen}]
    /\ servedSnapshot \in [Dates -> Digests \cup {Absent}]
    /\ servedBundle \in [Dates -> Gens \cup {NoGen}]
    /\ failing \subseteq Gens /\ overtaken \subseteq Gens

DoubleInit ==
    /\ Init
    /\ servedSeries = [c \in Codes |-> NoGen]
    /\ servedSnapshot = [d \in Dates |-> Absent]
    /\ servedBundle = [d \in Dates |-> NoGen]
    /\ failing = {} /\ overtaken = {}

UnchangedFails == UNCHANGED <<failing, overtaken>>
UnchangedIndexes == UNCHANGED <<servedSeries, servedSnapshot, servedBundle>>

(* begin_generation on an identity it knows changes nothing.               *)
DoubleBegin(g, M, e) == Begin(g, M, e) /\ UnchangedIndexes /\ UnchangedFails

(* The kinds a profile may register: a series of a snapshot_only           *)
(* generation, or one beside the coordinates, is only refused at commit.   *)
KindAllowed(g, s) ==
    CASE Profile[g] = "web_asof"    -> s = "asof"
      [] Profile[g] = "series_only" -> s \in Codes \cup {"delta"}
      [] OTHER                      -> s \in Codes \cup {"snapshot"}

(* register_pending_objects: the items are taken one by one, in the order  *)
(* of the request; the first that is not allowed or reserved with another  *)
(* digest raises and leaves the items before it.  D is the prefix taken.   *)
DoubleRegister(g, D) ==
    /\ \A s \in DOMAIN D : KindAllowed(g, s)
    /\ RegisterPendingObjects(g, D)
    /\ UnchangedIndexes /\ UnchangedFails

(* mark_objects_uploaded, also item by item; unlike the database it looks  *)
(* at the generation and not at the status of the row.                     *)
DoubleMarkUploaded(g, s) ==
    /\ gen[g] = "pending"
    /\ obj[g][s] # "none"
    /\ uploaded' = [uploaded EXCEPT ![g] = @ \cup {s}]
    /\ UNCHANGED <<gen, members, prior, sealed, obj, digest, purged, staged, latest>>
    /\ UnchangedIndexes /\ UnchangedFails

(* stage_latest_observation, also in a batch                               *)
DoubleStageLatest(g, C) == StageLatest(g, C) /\ UnchangedIndexes /\ UnchangedFails

(* set_expected_object_set_digest                                          *)
DoubleSeal(g, S) == SetObjectSetDigest(g, S) /\ UnchangedIndexes /\ UnchangedFails

-----------------------------------------------------------------------------
RowsOf(g) == {s \in Slots : obj[g][s] # "none"}
SeriesRows(g) == RowsOf(g) \cap Codes

(* What each profile demands of the rows it commits.                       *)
RowsFitProfile(g) ==
    CASE Profile[g] = "web_asof"      -> RowsOf(g) = {"asof"}
      [] Profile[g] = "snapshot_only" -> SeriesRows(g) = {}
      [] Profile[g] = "series_only"   -> RowsOf(g) = members[g] \cup {"delta"}
      [] OTHER                        -> SeriesRows(g) # {}

(* The compare-and-set of the series, against the index.                   *)
SeriesHold(g) ==
    \A c \in members[g] :
        IF servedSeries[c] = NoGen
        THEN prior[g][c] = Absent
        ELSE digest[servedSeries[c]][c] = prior[g][c]

ExpectationHolds(g) ==
    CASE Profile[g] = "series_only" -> SeriesHold(g)
      [] Profile[g] = "web_asof"    -> TRUE
      [] OTHER -> prior[g]["snapshot"] \in {Absent, servedSnapshot[TradeDate[g]]}

(* Staging may be short of the instruments: the set is compared only when  *)
(* begin was given one.                                                    *)
StagingFits(g) ==
    IF Profile[g] = "snapshot_series_latest"
    THEN staged[g] # {} /\ "snapshot" \in RowsOf(g)
    ELSE staged[g] = {}

(* Mutant: the scan for a delta of the coordinate looks at pending rows.   *)
DeltaIsNewAmongPending(g) ==
    "delta" \in RowsOf(g) =>
        ~\E h \in Gens : /\ h # g /\ SameCoordinate("delta", g, h)
                         /\ obj[h]["delta"] = "pending"

(* A delta of the same coordinate is never committed twice.                *)
DeltaIsNew(g) ==
    "delta" \in RowsOf(g) =>
        ~\E h \in Holders("delta") : h # g /\ SameCoordinate("delta", g, h)

DoubleCommitAllowed(g) ==
    /\ gen[g] = "pending"
    /\ ExpectationHolds(g)
    /\ RowsOf(g) # {} /\ RowsOf(g) \subseteq uploaded[g]
    /\ RowsFitProfile(g)
    /\ RowsOf(g) = SlotsOf(g) /\ sealed[g] = RowsOf(g)
    /\ StagingFits(g)
    /\ DeltaIsNew(g)

(* The rows a commit takes out of service, before its last check.          *)
Displaced(g, h, s) ==
    /\ h # g /\ obj[h][s] = "committed"
    /\ CASE Profile[g] = "series_only" -> s \in members[g] /\ prior[g][s] # Absent
         [] Profile[g] = "web_asof" -> s = "asof" /\ TradeDate[h] = TradeDate[g]
         [] OTHER ->
              \/ s = "snapshot" /\ TradeDate[h] = TradeDate[g]
              \/ Profile[g] \in DailySeriesProfiles /\ s \in SeriesRows(g)

AfterDisplacing(g) ==
    [h \in Gens |-> [s \in Slots |->
        IF Displaced(g, h, s) THEN DisplacedStatus(g) ELSE obj[h][s]]]

(* "committed series coordinate already exists": raised when the rows are  *)
(* already displaced.                                                      *)
DuplicateSeries(g) ==
    \E c \in SeriesRows(g), h \in Gens \ {g} : AfterDisplacing(g)[h][c] = "committed"

(* What is left when that is raised: the displaced rows stay displaced.    *)
KeepDisplaced(g) ==
    /\ obj' = AfterDisplacing(g)
    /\ UNCHANGED <<gen, members, prior, sealed, digest, uploaded, purged, staged, latest>>
    /\ UnchangedIndexes

(* The rows, the indexes and the latest rows; these without a date guard.  *)
PublishRows(g) ==
    /\ obj' = [AfterDisplacing(g) EXCEPT ![g] =
                  [s \in Slots |-> IF s \in RowsOf(g) THEN "committed" ELSE obj[g][s]]]
    /\ gen' = [gen EXCEPT ![g] = "committed"]
    /\ servedSeries' = [c \in Codes |-> IF c \in SeriesRows(g) THEN g ELSE servedSeries[c]]
    /\ servedSnapshot' = IF "snapshot" \in RowsOf(g)
                         THEN [servedSnapshot EXCEPT ![TradeDate[g]] = digest[g]["snapshot"]]
                         ELSE servedSnapshot
    /\ servedBundle' = IF "asof" \in RowsOf(g)
                       THEN [servedBundle EXCEPT ![TradeDate[g]] = g]
                       ELSE servedBundle
    /\ latest' = [c \in Codes |-> IF c \in staged[g] THEN g ELSE latest[c]]
    /\ staged' = [staged EXCEPT ![g] = {}]
    /\ UNCHANGED <<members, prior, sealed, digest, uploaded, purged>>

(* commit_generation; on a committed generation it returns at once.        *)
DoubleCommit(g) ==
    /\ DoubleCommitAllowed(g)
    /\ IF DuplicateSeries(g) THEN KeepDisplaced(g) /\ UnchangedFails
       ELSE /\ PublishRows(g)
            /\ overtaken' = overtaken \cup ({g} \cap failing) /\ failing' = failing

(* fail_generation finds the generation pending ...                        *)
DoubleFailCalled(g) ==
    /\ gen[g] = "pending" /\ g \notin failing
    /\ failing' = failing \cup {g}
    /\ UNCHANGED <<vars, overtaken>> /\ UnchangedIndexes

(* ... and writes its status, then orphan over the status of every row it  *)
(* has, then drops its staging rows.  R and S are what the calls of other  *)
(* threads leave of that: a row registered meanwhile, of any generation,   *)
(* breaks off the loop over the rows (RuntimeError) and keeps the staging  *)
(* rows; one registered or staged by a call that had found the generation  *)
(* pending is missed; and of a commit of the generation the last write     *)
(* counts, for the status of the generation and of each row.               *)
DoubleFail(g, R, S, status) ==
    /\ g \in failing
    /\ status = "failed" \/ g \in overtaken
    /\ failing' = failing \ {g}
    /\ gen' = [gen EXCEPT ![g] = status]
    /\ obj' = [obj EXCEPT ![g] = [s \in Slots |-> IF s \in R THEN "orphan" ELSE obj[g][s]]]
    /\ staged' = [staged EXCEPT ![g] = S]
    /\ UNCHANGED <<members, prior, sealed, digest, uploaded, purged, latest, overtaken>>
    /\ UnchangedIndexes

DoubleNext ==
    \E g \in Gens :
        \/ \E M \in SUBSET Candidates[g] :
              \E e \in [Expectations(g, M) -> Digests \cup {Absent}] : DoubleBegin(g, M, e)
        \/ \E s \in SlotsOf(g) \cup Candidates[g], d \in Digests : DoubleRegister(g, [t \in {s} |-> d])
        \/ \E s \in Slots : DoubleMarkUploaded(g, s)
        \/ \E C \in SUBSET members[g] : DoubleStageLatest(g, C)
        \/ \E S \in SUBSET SlotsOf(g) : DoubleSeal(g, S)
        \/ DoubleCommit(g)
        \/ DoubleFailCalled(g)
        \/ \E R \in SUBSET RowsOf(g), S \in {{}, staged[g]}, status \in {gen[g], "failed"} :
              DoubleFail(g, R, S, status)

DoubleSpec == DoubleInit /\ [][DoubleNext]_doubleVars

-----------------------------------------------------------------------------
(* The lookups of the double (its indexes) and its rows do not disagree,   *)
(* although nothing ties them and a refused commit writes rows only: every *)
(* committed row is served, and every served series, snapshot and bundle   *)
(* is the one committed row, unless it is of a generation that was         *)
(* committed while an unlocked fail_generation was failing it: such a      *)
(* fail may take the rows of a published generation out of service and     *)
(* leave the indexes.                                                      *)
IndexesMatchRows ==
    /\ \A c \in Codes :
        Holders(c) \cup ({servedSeries[c]} \cap overtaken) = {servedSeries[c]} \ {NoGen}
    /\ \A d \in Dates :
        /\ {g \in Holders("asof") : TradeDate[g] = d} \cup ({servedBundle[d]} \cap overtaken)
              = {servedBundle[d]} \ {NoGen}
        /\ \A g \in Holders("snapshot") :
              TradeDate[g] = d => digest[g]["snapshot"] = servedSnapshot[d]
        /\ servedSnapshot[d] # Absent =>
              \E g \in Holders("snapshot") \cup overtaken : TradeDate[g] = d

(* The double is a catalog as the database is one, but for the date guard  *)
(* of latest: with all trade dates alike the guard of the catalog holds.   *)
DoubleCatalog == INSTANCE DerivedCatalog WITH
    Offers <- [g \in Gens |->
        {<<SlotsWith(g, M), T>> : M \in SUBSET Candidates[g],
            T \in IF Profile[g] = "snapshot_series_latest" THEN SUBSET Candidates[g] ELSE {{}}}],
    TradeDate <- [g \in Gens |-> 0],
    WriteOnce <- {"delta"}, published <- CommittedGens, live <- LiveObjects

(* What a test of a writer sees of the double is what the catalog allows:  *)
(* in particular a commit that raises leaves every published row served.   *)
(* This holds up to the first commit of a generation another thread is     *)
(* failing.  (DoubleCatalog!Spec; steps that change nothing are set aside  *)
(* first.)                                                                 *)
DoubleImplementsCatalog ==
    /\ DoubleCatalog!Init
    /\ [][UNCHANGED doubleVars \/ overtaken # {} \/ DoubleCatalog!Next]_(DoubleCatalog!catalog)

(* All that is claimed of the double: its state is well typed, its lookups *)
(* agree with its rows, and it is a catalog.                               *)
DoubleSafe == []DoubleTypeOK /\ []IndexesMatchRows /\ DoubleImplementsCatalog
=============================================================================
