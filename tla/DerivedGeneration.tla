-------------------------- MODULE DerivedGeneration --------------------------
(***************************************************************************)
(* The control plane of the derived generations: the PL/pgSQL functions    *)
(* that begin a generation, register and mark its objects, stage the       *)
(* latest observations, and commit or fail it, and the two that forget     *)
(* orphan rows.  Every function runs in one transaction, so it is one      *)
(* action.  The callers (Daily, reconcile, series seeding, web as-of) may  *)
(* interleave their calls in any way; DerivedWriters adds the order in     *)
(* which each of them really calls, and the objects themselves.            *)
(*                                                                         *)
(* One metric set and one series year: a series coordinate is its code.    *)
(* An object and its manifest are registered, uploaded, committed and      *)
(* displaced by the same statements, so one slot stands for the pair, and  *)
(* "asof" for the two web bundles and their manifest.                      *)
(***************************************************************************)
EXTENDS Naturals

CONSTANTS
    Gens,        \* source identities (run, date, mode): at most one row each
    Codes,       \* instrument codes
    Digests,     \* logical digests of object contents
    Absent,      \* no digest: prior_absent, or no expected_old_digest
    NoGen,       \* latest has no row
    Profile,     \* artifact_profile of each generation
    TradeDate,   \* trade_date of each generation
    Candidates,  \* the codes whose series a generation may write
    Request      \* the backfill request (and mode) a series_only one serves

Profiles == {"snapshot_only", "snapshot_series", "snapshot_series_latest",
             "series_only", "web_asof"}

ASSUME ProfileAssumption == Profile \in [Gens -> Profiles]
ASSUME TradeDateAssumption == TradeDate \in [Gens -> Nat]
ASSUME CandidatesAssumption == Candidates \in [Gens -> SUBSET Codes]
ASSUME CodesAssumption == {"snapshot", "delta", "asof"} \cap Codes = {}
ASSUME AbsentAssumption == Absent \notin Digests
ASSUME NoGenAssumption == NoGen \notin Gens
VARIABLES
    gen,       \* derived_generation_runs.status
    members,   \* the codes begun with: CAS coordinates, or the snapshot rows
    prior,     \* expected prior digests given to begin, per slot
    sealed,    \* the keys behind expected_object_set_digest; {} is NULL
    obj,       \* derived_object_index.status, per generation and slot
    digest,    \* derived_object_index.logical_digest
    uploaded,  \* rows with upload_verified_at
    purged,    \* rows with purged_at
    staged,    \* latest_derived_observations_staging, the codes per generation
    latest     \* latest_derived_observations, the generation per code

vars == <<gen, members, prior, sealed, obj, digest, uploaded, purged, staged, latest>>

-----------------------------------------------------------------------------
Slots == {"snapshot", "delta", "asof"} \cup Codes

GenStatus == {"none", "pending", "committed", "failed"}
ObjStatus == {"none", "pending", "committed", "superseded", "orphan", "deleted"}

SnapshotProfiles == {"snapshot_only", "snapshot_series", "snapshot_series_latest"}
DailySeriesProfiles == {"snapshot_series", "snapshot_series_latest"}

(* The series a generation begun with the codes M writes, and the objects  *)
(* it must hold when it commits.                                           *)
SeriesWith(g, M) ==
    IF Profile[g] \in DailySeriesProfiles \cup {"series_only"} THEN M ELSE {}

SlotsWith(g, M) ==
    SeriesWith(g, M) \cup
    CASE Profile[g] = "series_only" -> {"delta"}
      [] Profile[g] = "web_asof"    -> {"asof"}
      [] OTHER                      -> {"snapshot"}

SlotsOf(g) == SlotsWith(g, members[g])

(* The coordinate on which two generations' objects of one slot compete:   *)
(* the unique indexes of 006, 011 and 025.                                 *)
SameCoordinate(s, g, h) ==
    \/ s \in Codes
    \/ s \in {"snapshot", "asof"} /\ TradeDate[g] = TradeDate[h]
    \/ s = "delta" /\ TradeDate[g] = TradeDate[h] /\ Request[g] = Request[h]

Holders(s) == {g \in Gens : obj[g][s] = "committed"}
Pending(g) == {s \in Slots : obj[g][s] = "pending"}
(* Mutant: the delete takes every row no reader needs, superseded ones too. *)
OrphanRowsWithSuperseded ==
    {r \in Gens \X Slots : obj[r[1]][r[2]] \in {"orphan", "superseded"}}

OrphanRows == {r \in Gens \X Slots : obj[r[1]][r[2]] = "orphan"}

TypeOK ==
    /\ gen \in [Gens -> GenStatus]
    /\ members \in [Gens -> SUBSET Codes]
    /\ prior \in [Gens -> [Slots -> Digests \cup {Absent}]]
    /\ sealed \in [Gens -> SUBSET Slots]
    /\ obj \in [Gens -> [Slots -> ObjStatus]]
    /\ digest \in [Gens -> [Slots -> Digests \cup {Absent}]]
    /\ uploaded \in [Gens -> SUBSET Slots]
    /\ purged \in [Gens -> SUBSET Slots]
    /\ staged \in [Gens -> SUBSET Codes]
    /\ latest \in [Codes -> Gens \cup {NoGen}]

Init ==
    /\ gen = [g \in Gens |-> "none"]
    /\ members = [g \in Gens |-> {}]
    /\ prior = [g \in Gens |-> [s \in Slots |-> Absent]]
    /\ sealed = [g \in Gens |-> {}]
    /\ obj = [g \in Gens |-> [s \in Slots |-> "none"]]
    /\ digest = [g \in Gens |-> [s \in Slots |-> Absent]]
    /\ uploaded = [g \in Gens |-> {}]
    /\ purged = [g \in Gens |-> {}]
    /\ staged = [g \in Gens |-> {}]
    /\ latest = [c \in Codes |-> NoGen]

-----------------------------------------------------------------------------
(* What begin may be told about the state the writer read before it: a     *)
(* digest or "absent" for each series of a series_only generation, an      *)
(* optional snapshot digest for the snapshot profiles, nothing for as-of.  *)
Expectations(g, M) ==
    CASE Profile[g] = "series_only" -> M
      [] Profile[g] = "web_asof"    -> {}
      [] OTHER                      -> {"snapshot"}

PriorGiven(g, M, e) == [s \in Slots |-> IF s \in Expectations(g, M) THEN e[s] ELSE Absent]

(* begin_derived_generation: the insert.  series_only needs coordinates.   *)
Begin(g, M, e) ==
    /\ gen[g] = "none"
    /\ Profile[g] = "series_only" => M # {}
    /\ gen' = [gen EXCEPT ![g] = "pending"]
    /\ members' = [members EXCEPT ![g] = M]
    /\ prior' = [prior EXCEPT ![g] = PriorGiven(g, M, e)]
    /\ UNCHANGED <<sealed, obj, digest, uploaded, purged, staged, latest>>

(* The same function when the identity has a row: it returns the row when  *)
(* the payload is the one stored, and raises otherwise and for a failed    *)
(* one.  No caller passes the set digest to begin, so a sealed row never   *)
(* matches.  Only the heartbeat changes.                                   *)
BeginFinds(g, M, e) ==
    /\ gen[g] \in {"pending", "committed"}
    /\ M = members[g]
    /\ sealed[g] = {}
    /\ \/ prior[g] = PriorGiven(g, M, e)
       \/ Profile[g] \in SnapshotProfiles /\ e["snapshot"] = Absent

BeginRaises(g, M, e) ==
    \/ gen[g] = "none" /\ Profile[g] = "series_only" /\ M = {}
    \/ gen[g] # "none" /\ ~BeginFinds(g, M, e)

(* register_pending_derived_objects: a batch D of slot -> digest.  A row   *)
(* that exists with the same digest is reused; with another one the whole  *)
(* batch raises.                                                           *)
RegisterPendingObjects(g, D) ==
    /\ gen[g] = "pending"
    /\ \A s \in DOMAIN D : obj[g][s] # "none" => digest[g][s] = D[s]
    /\ obj' = [obj EXCEPT ![g] = [s \in Slots |->
                  IF s \in DOMAIN D /\ obj[g][s] = "none" THEN "pending" ELSE obj[g][s]]]
    /\ digest' = [digest EXCEPT ![g] = [s \in Slots |->
                  IF s \in DOMAIN D /\ obj[g][s] = "none" THEN D[s] ELSE digest[g][s]]]
    /\ UNCHANGED <<gen, members, prior, sealed, uploaded, purged, staged, latest>>

(* register_pending_derived_object: the same for one coordinate.           *)
RegisterPendingObject(g, s, d) == RegisterPendingObjects(g, [t \in {s} |-> d])

(* mark_derived_object_uploaded looks at the row only, not at its          *)
(* generation; mark_derived_objects_uploaded looks at both.                *)
MarkObjectUploaded(g, s) ==
    /\ obj[g][s] = "pending"
    /\ uploaded' = [uploaded EXCEPT ![g] = @ \cup {s}]
    /\ UNCHANGED <<gen, members, prior, sealed, obj, digest, purged, staged, latest>>

MarkObjectsUploaded(g, S) ==
    /\ gen[g] = "pending"
    /\ S \subseteq Pending(g)
    /\ uploaded' = [uploaded EXCEPT ![g] = @ \cup S]
    /\ UNCHANGED <<gen, members, prior, sealed, obj, digest, purged, staged, latest>>

(* stage_latest_derived_observations                                       *)
StageLatest(g, C) ==
    /\ gen[g] = "pending"
    /\ Profile[g] = "snapshot_series_latest"
    /\ staged' = [staged EXCEPT ![g] = @ \cup C]
    /\ UNCHANGED <<gen, members, prior, sealed, obj, digest, uploaded, purged, latest>>

(* set_pending_generation_object_set_digest: a second value must equal the *)
(* first.                                                                  *)
SetObjectSetDigest(g, S) ==
    /\ gen[g] = "pending"
    /\ S # {}
    /\ sealed[g] \in {{}, S}
    /\ sealed' = [sealed EXCEPT ![g] = S]
    /\ UNCHANGED <<gen, members, prior, obj, digest, uploaded, purged, staged, latest>>

-----------------------------------------------------------------------------
(* Mutants of the checks of a commit: prior_absent not looked at, a prior  *)
(* looked for but its digest not compared, an empty generation accepted,   *)
(* latest staging not required, no index on deltas.                        *)
PriorHoldsUnlessAbsent(g) ==
    Profile[g] = "series_only" =>
        \A c \in members[g] :
            prior[g][c] # Absent => \E h \in Holders(c) : digest[h][c] = prior[g][c]

PriorNotCompared(g) ==
    CASE Profile[g] = "series_only" ->
            \A c \in members[g] : Holders(c) = {} <=> prior[g][c] = Absent
      [] Profile[g] = "web_asof" -> TRUE
      [] OTHER ->
            prior[g]["snapshot"] # Absent =>
                \E h \in Holders("snapshot") : TradeDate[h] = TradeDate[g]

ObjectsUncounted(g) == Pending(g) \subseteq uploaded[g] /\ sealed[g] = Pending(g)

DeltaNotIndexed(g) == TRUE

(* commit_derived_generation, its checks.  For series_only every           *)
(* coordinate must still hold what the writer read; for a snapshot the     *)
(* check is made only when a digest is expected.                           *)
PriorHolds(g) ==
    CASE Profile[g] = "series_only" ->
            \A c \in members[g] :
                IF prior[g][c] = Absent
                THEN Holders(c) = {}
                ELSE \E h \in Holders(c) : digest[h][c] = prior[g][c]
      [] Profile[g] = "web_asof" -> TRUE
      [] OTHER ->
            prior[g]["snapshot"] # Absent =>
                \E h \in Holders("snapshot") :
                    /\ TradeDate[h] = TradeDate[g]
                    /\ digest[h]["snapshot"] = prior[g]["snapshot"]

(* The pending rows are the expected number (of slots the writer may       *)
(* register, so all of them), are uploaded, and are the keys sealed.       *)
ObjectsComplete(g) ==
    /\ Pending(g) = SlotsOf(g)
    /\ Pending(g) \subseteq uploaded[g]
    /\ sealed[g] = Pending(g)

StagingComplete(g) ==
    Profile[g] = "snapshot_series_latest" =>
        staged[g] # {} /\ staged[g] = members[g]

(* The unique index on committed deltas aborts a second delta of a date    *)
(* for one request.                                                        *)
DeltaIndexAllows(g) ==
    Profile[g] = "series_only" =>
        \A h \in Holders("delta") : ~SameCoordinate("delta", g, h)

CommitAllowed(g) ==
    /\ gen[g] = "pending"
    /\ PriorHolds(g)
    /\ ObjectsComplete(g)
    /\ StagingComplete(g)
    /\ DeltaIndexAllows(g)

(* Mutants of what a commit displaces: an as-of commit leaves the prior    *)
(* bundles; a status the table does not have.                              *)
DisplacesNoBundle(g, s) ==
    Profile[g] # "web_asof" /\ (s = "snapshot" \/ s \in SeriesWith(g, members[g]))

DisplacedReplaced(g) == "replaced"

(* Which committed objects of other generations a commit of g displaces.   *)
Displaces(g, s) ==
    CASE Profile[g] = "series_only" -> s \in members[g] /\ prior[g][s] # Absent
      [] Profile[g] = "web_asof"    -> s = "asof"
      [] OTHER                      -> s = "snapshot" \/ s \in SeriesWith(g, members[g])

DisplacedStatus(g) == IF Profile[g] = "series_only" THEN "superseded" ELSE "orphan"

(* Mutant: the displacing updates run last and do not spare the generation. *)
ObjDisplacedLast(g) ==
    [h \in Gens |-> [s \in Slots |->
        CASE (h = g \/ obj[h][s] = "committed")
                /\ Displaces(g, s) /\ SameCoordinate(s, g, h) -> DisplacedStatus(g)
          [] h = g /\ obj[h][s] = "pending" -> "committed"
          [] OTHER -> obj[h][s]]]

ObjAfterCommit(g) ==
    [h \in Gens |-> [s \in Slots |->
        CASE h = g /\ obj[h][s] = "pending" -> "committed"
          [] h # g /\ obj[h][s] = "committed"
                   /\ Displaces(g, s) /\ SameCoordinate(s, g, h) -> DisplacedStatus(g)
          [] OTHER -> obj[h][s]]]

(* Mutant: the upsert without its date guard.                              *)
LatestUnguarded(g) ==
    [c \in Codes |-> IF c \in staged[g] THEN g ELSE latest[c]]

(* The upsert into latest keeps a row of a later trade date.               *)
LatestAfterCommit(g) ==
    [c \in Codes |->
        IF /\ c \in staged[g]
           /\ Profile[g] = "snapshot_series_latest"
           /\ latest[c] # NoGen => TradeDate[latest[c]] <= TradeDate[g]
        THEN g ELSE latest[c]]

Commit(g) ==
    /\ CommitAllowed(g)
    /\ obj' = ObjAfterCommit(g)
    /\ latest' = LatestAfterCommit(g)
    /\ staged' = [staged EXCEPT ![g] = {}]
    /\ gen' = [gen EXCEPT ![g] = "committed"]
    /\ UNCHANGED <<members, prior, sealed, digest, uploaded, purged>>

(* Mutant: the rows of the failed generation are left pending.             *)
FailKeepingRows(g) ==
    /\ gen[g] = "pending"
    /\ gen' = [gen EXCEPT ![g] = "failed"]
    /\ UNCHANGED <<members, prior, sealed, obj, digest, uploaded, purged, staged, latest>>

(* mark_derived_generation_failed: staging rows stay behind.               *)
Fail(g) ==
    /\ gen[g] = "pending"
    /\ gen' = [gen EXCEPT ![g] = "failed"]
    /\ obj' = [obj EXCEPT ![g] = [s \in Slots |->
                  IF obj[g][s] = "pending" THEN "orphan" ELSE obj[g][s]]]
    /\ UNCHANGED <<members, prior, sealed, digest, uploaded, purged, staged, latest>>

(* mark_orphan_object_purged                                               *)
MarkPurged(g, s) ==
    /\ obj[g][s] = "orphan"
    /\ s \notin purged[g]
    /\ purged' = [purged EXCEPT ![g] = @ \cup {s}]
    /\ UNCHANGED <<gen, members, prior, sealed, obj, digest, uploaded, staged, latest>>

(* delete_orphan_derived_objects: any orphan rows, up to a limit.          *)
DeleteOrphanObjects(R) ==
    /\ R # {} /\ R \subseteq OrphanRows
    /\ obj' = [g \in Gens |-> [s \in Slots |->
                  IF <<g, s>> \in R THEN "deleted" ELSE obj[g][s]]]
    /\ UNCHANGED <<gen, members, prior, sealed, digest, uploaded, purged, staged, latest>>

Next ==
    \/ \E g \in Gens :
        \/ \E M \in SUBSET Candidates[g] :
              \E e \in [Expectations(g, M) -> Digests \cup {Absent}] : Begin(g, M, e)
        \/ \E S \in SUBSET SlotsOf(g) : \E D \in [S -> Digests] : RegisterPendingObjects(g, D)
        \/ \E s \in SlotsOf(g), d \in Digests : RegisterPendingObject(g, s, d)
        \/ \E s \in SlotsOf(g) : MarkObjectUploaded(g, s)
        \/ \E S \in SUBSET SlotsOf(g) : MarkObjectsUploaded(g, S)
        \/ \E C \in SUBSET members[g] : StageLatest(g, C)
        \/ \E S \in SUBSET SlotsOf(g) : SetObjectSetDigest(g, S)
        \/ Commit(g)
        \/ Fail(g)
        \/ \E s \in SlotsOf(g) : MarkPurged(g, s)
    \/ \E R \in SUBSET OrphanRows : DeleteOrphanObjects(R)

Spec == Init /\ [][Next]_vars

-----------------------------------------------------------------------------
(* At most one committed object per coordinate: a reader that lists the    *)
(* committed keys (list_committed_series_keys, the signed-URL resolver)    *)
(* finds one answer, and the unique indexes of 006, 011 and 025 behind     *)
(* the series, snapshots and bundles never abort a commit.  The index on   *)
(* deltas is the one a commit relies on.                                   *)
OneCommitted ==
    \A g, h \in Gens, s \in Slots :
        /\ obj[g][s] = "committed" /\ obj[h][s] = "committed"
        /\ SameCoordinate(s, g, h)
        => g = h

(* A coordinate that was ever published stays served: displacing a         *)
(* committed object, sweeping orphans and failing generations never leave  *)
(* a series, snapshot, bundle or delta without a committed row.            *)
PublishedStaysServed ==
    \A g \in Gens : gen[g] = "committed" =>
        \A s \in SlotsOf(g) :
            \E h \in Gens : obj[h][s] = "committed" /\ SameCoordinate(s, g, h)

(* A generation becomes visible as a whole or not at all: a committed one  *)
(* has every object uploaded and none left behind as pending, and no       *)
(* object of any other is, or ever was, committed.                         *)
CommitIsWhole ==
    \A g \in Gens :
        IF gen[g] = "committed"
        THEN /\ uploaded[g] = SlotsOf(g)
             /\ \A s \in SlotsOf(g) : obj[g][s] \notin {"none", "pending"}
        ELSE \A s \in Slots : obj[g][s] \notin {"committed", "superseded"}

(* The latest row of a code is of the newest trade date among the current- *)
(* day generations committed for it, whatever the order they commit in     *)
(* (a delayed backfill of an older day never takes it back).               *)
LatestIsNewest ==
    \A g \in Gens :
        gen[g] = "committed" /\ Profile[g] = "snapshot_series_latest" =>
            \A c \in members[g] :
                /\ latest[c] # NoGen
                /\ gen[latest[c]] = "committed"
                /\ TradeDate[g] <= TradeDate[latest[c]]

(* The audit trail: what a series_only commit replaces stays superseded    *)
(* (028 keeps it "for audit"), a committed delta stays committed, and a    *)
(* row is only ever deleted or purged as an orphan.                        *)
AuditTrailKept ==
    [][\A g \in Gens, s \in Slots :
          /\ obj[g][s] = "superseded" => obj'[g][s] = "superseded"
          /\ obj[g]["delta"] = "committed" => obj'[g]["delta"] = "committed"
          /\ (obj'[g][s] = "deleted" /\ obj[g][s] # "deleted") => obj[g][s] = "orphan"
          /\ s \in purged'[g] => obj'[g][s] \in {"orphan", "deleted"}]_vars
-----------------------------------------------------------------------------
(* The refinement: what readers see of the tables is a DerivedCatalog.     *)
LiveObjects == {r \in Gens \X Slots : obj[r[1]][r[2]] = "committed"}
CommittedGens == {g \in Gens : gen[g] = "committed"}
TopsWith(g, M) == IF Profile[g] = "snapshot_series_latest" THEN M ELSE {}
OffersOf == [g \in Gens |->
                {<<SlotsWith(g, M), TopsWith(g, M)>> : M \in SUBSET Candidates[g]}]

Catalog == INSTANCE DerivedCatalog WITH
    Offers <- OffersOf,
    WriteOnce <- {"delta"}, published <- CommittedGens, live <- LiveObjects

(* Every step of the tables is invisible to the readers or publishes one   *)
(* generation as the catalog allows: a commit displaces the objects of its *)
(* own coordinates and no others (a series_only one although it displaces  *)
(* only where it expected a prior), and nothing else changes the view.     *)
ImplementsCatalog == Catalog!Spec
=============================================================================
