------------------------ MODULE DerivedGenerationProofs ------------------------
(***************************************************************************)
(* Proofs about DerivedGeneration, for every set of generations and codes. *)
(*                                                                         *)
(* The argument: RowsFit ties the status of an object to the status of its *)
(* generation, so that the pending objects a commit finds are exactly its  *)
(* slots.  With the checks of a commit this makes the effect of a commit   *)
(* on the committed rows one formula (CommitEffect): g's slots become      *)
(* committed and exactly the rivals of g's slots stop being so.  The       *)
(* safety invariants and the refinement of the catalog follow from it.     *)
(***************************************************************************)
EXTENDS DerivedGeneration, TLAPS

(* The status of a row and of its generation agree.                        *)
RowsFit ==
    \A g \in Gens, s \in Slots :
        /\ obj[g][s] # "none" => s \in SlotsOf(g)
        /\ gen[g] = "none" => obj[g][s] = "none"
        /\ gen[g] = "pending" => obj[g][s] \in {"none", "pending"}
        /\ gen[g] = "failed" => obj[g][s] \in {"none", "orphan", "deleted"}
        /\ gen[g] = "committed" /\ s \in SlotsOf(g) => obj[g][s] \notin {"none", "pending"}

(* Only the slots of a generation are marked, and all when it commits.     *)
UploadsFit ==
    \A g \in Gens :
        /\ gen[g] = "none" => uploaded[g] = {}
        /\ uploaded[g] \subseteq SlotsOf(g)
        /\ gen[g] = "committed" => uploaded[g] = SlotsOf(g)

(* A generation is begun with candidates of its own.                       *)
MembersFit == \A g \in Gens : members[g] \subseteq Candidates[g]

(* Only orphan rows are marked purged.                                     *)
PurgedFit ==
    \A g \in Gens, s \in Slots : s \in purged[g] => obj[g][s] \in {"orphan", "deleted"}

(* A latest row comes from a committed generation.                         *)
LatestCommitted == \A c \in Codes : latest[c] # NoGen => gen[latest[c]] = "committed"

IInv ==
    /\ TypeOK
    /\ MembersFit
    /\ RowsFit
    /\ UploadsFit
    /\ PurgedFit
    /\ OneCommitted
    /\ PublishedStaysServed
    /\ LatestCommitted
    /\ LatestIsNewest

-----------------------------------------------------------------------------
LEMMA SlotsOfSubset == TypeOK => \A g \in Gens : SlotsOf(g) \subseteq Slots
BY DEF TypeOK, SlotsOf, SlotsWith, SeriesWith, Slots

(* Without a begin the slots stay what they are.                           *)
LEMMA SlotsKept ==
    /\ members' = members => \A g \in Gens : SlotsOf(g)' = SlotsOf(g)
    /\ \A g \in Gens : members'[g] = members[g] => SlotsOf(g)' = SlotsOf(g)
BY DEF SlotsOf, SlotsWith, SeriesWith

LEMMA InitIInv == Init => IInv
BY SlotsOfSubset DEF Init, IInv, TypeOK, MembersFit, RowsFit, UploadsFit, PurgedFit, OneCommitted,
   PublishedStaysServed, LatestCommitted, LatestIsNewest, GenStatus, ObjStatus

(* What a commit does to the committed rows.                               *)
LEMMA CommitEffect ==
    ASSUME TypeOK, RowsFit, NEW g \in Gens, CommitAllowed(g), obj' = ObjAfterCommit(g)
    PROVE  \A h \in Gens, s \in Slots :
              obj'[h][s] = "committed" <=>
                 IF h = g THEN s \in SlotsOf(g)
                 ELSE /\ obj[h][s] = "committed"
                      /\ ~(s \in SlotsOf(g) /\ SameCoordinate(s, g, h))
<1> SUFFICES ASSUME NEW h \in Gens, NEW s \in Slots
             PROVE  obj'[h][s] = "committed" <=>
                       IF h = g THEN s \in SlotsOf(g)
                       ELSE /\ obj[h][s] = "committed"
                            /\ ~(s \in SlotsOf(g) /\ SameCoordinate(s, g, h))
    OBVIOUS
<1>1. gen[g] = "pending" /\ Pending(g) = SlotsOf(g)
    BY DEF CommitAllowed, ObjectsComplete
<1>2. CASE h = g
    BY <1>1, <1>2 DEF ObjAfterCommit, RowsFit, Pending
<1>3. CASE h # g /\ obj[h][s] # "committed"
    BY <1>3 DEF ObjAfterCommit
<1>4. CASE h # g /\ obj[h][s] = "committed"
  <2>1. obj'[h][s] = "committed" <=> ~(Displaces(g, s) /\ SameCoordinate(s, g, h))
      BY <1>4 DEF ObjAfterCommit, DisplacedStatus
  <2>2. CASE Profile[g] = "series_only"
    <3>1. SlotsOf(g) = members[g] \cup {"delta"}
        BY <2>2 DEF SlotsOf, SlotsWith, SeriesWith, DailySeriesProfiles
    <3>2. Displaces(g, s) <=> s \in members[g] /\ prior[g][s] # Absent
        BY <2>2 DEF Displaces
    <3>3. s \in members[g] => prior[g][s] # Absent
        BY <1>4, <2>2 DEF CommitAllowed, PriorHolds, Holders
    <3>4. s = "delta" => ~SameCoordinate(s, g, h)
        BY <1>4, <2>2 DEF CommitAllowed, DeltaIndexAllows, Holders
    <3>5. "delta" \notin members[g]
        BY CodesAssumption DEF TypeOK
    <3> QED  BY <1>4, <2>1, <3>1, <3>2, <3>3, <3>4, <3>5
  <2>3. CASE Profile[g] = "web_asof"
    <3>1. SlotsOf(g) = {"asof"}
        BY <2>3 DEF SlotsOf, SlotsWith, SeriesWith, DailySeriesProfiles
    <3>2. Displaces(g, s) <=> s = "asof"
        BY <2>3 DEF Displaces
    <3> QED  BY <1>4, <2>1, <3>1, <3>2
  <2>4. CASE Profile[g] \notin {"series_only", "web_asof"}
    <3>1. SlotsOf(g) = SeriesWith(g, members[g]) \cup {"snapshot"}
        BY <2>4 DEF SlotsOf, SlotsWith
    <3>2. Displaces(g, s) <=> s = "snapshot" \/ s \in SeriesWith(g, members[g])
        BY <2>4 DEF Displaces
    <3> QED  BY <1>4, <2>1, <3>1, <3>2
  <2> QED  BY <2>2, <2>3, <2>4
<1> QED  BY <1>2, <1>3, <1>4

-----------------------------------------------------------------------------
LEMMA TypeStep == TypeOK /\ [Next]_vars => TypeOK'
<1> SUFFICES ASSUME TypeOK, [Next]_vars PROVE TypeOK'
    OBVIOUS
<1> USE SlotsOfSubset DEF TypeOK, GenStatus, ObjStatus
<1>1. ASSUME NEW g \in Gens, NEW M \in SUBSET Candidates[g],
             NEW e \in [Expectations(g, M) -> Digests \cup {Absent}], Begin(g, M, e)
      PROVE  TypeOK'
    BY <1>1, CandidatesAssumption DEF Begin, PriorGiven
<1>2. ASSUME NEW g \in Gens, NEW S \in SUBSET SlotsOf(g), NEW D \in [S -> Digests],
             RegisterPendingObjects(g, D)
      PROVE  TypeOK'
    BY <1>2 DEF RegisterPendingObjects
<1>3. ASSUME NEW g \in Gens, NEW s \in SlotsOf(g), MarkObjectUploaded(g, s)
      PROVE  TypeOK'
    BY <1>3 DEF MarkObjectUploaded
<1>4. ASSUME NEW g \in Gens, NEW S \in SUBSET SlotsOf(g), MarkObjectsUploaded(g, S)
      PROVE  TypeOK'
    BY <1>4 DEF MarkObjectsUploaded
<1>5. ASSUME NEW g \in Gens, NEW C \in SUBSET members[g], StageLatest(g, C)
      PROVE  TypeOK'
    BY <1>5, CandidatesAssumption DEF StageLatest
<1>6. ASSUME NEW g \in Gens, NEW S \in SUBSET SlotsOf(g), SetObjectSetDigest(g, S)
      PROVE  TypeOK'
    BY <1>6 DEF SetObjectSetDigest
<1>7. ASSUME NEW g \in Gens, Commit(g)
      PROVE  TypeOK'
  <2>1. obj' \in [Gens -> [Slots -> ObjStatus]]
      BY <1>7 DEF Commit, ObjAfterCommit, DisplacedStatus
  <2>2. latest' \in [Codes -> Gens \cup {NoGen}]
      BY <1>7 DEF Commit, LatestAfterCommit
  <2> QED  BY <1>7, <2>1, <2>2 DEF Commit
<1>8. ASSUME NEW g \in Gens, Fail(g)
      PROVE  TypeOK'
    BY <1>8 DEF Fail
<1>9. ASSUME NEW g \in Gens, NEW s \in SlotsOf(g), MarkPurged(g, s)
      PROVE  TypeOK'
    BY <1>9 DEF MarkPurged
<1>10. ASSUME NEW R \in SUBSET OrphanRows, DeleteOrphanObjects(R)
       PROVE  TypeOK'
    BY <1>10 DEF DeleteOrphanObjects
<1>11. ASSUME NEW g \in Gens, NEW s \in SlotsOf(g), NEW d \in Digests,
              RegisterPendingObject(g, s, d)
       PROVE  TypeOK'
    BY <1>11, <1>2, {s} \in SUBSET SlotsOf(g), [t \in {s} |-> d] \in [{s} -> Digests]
    DEF RegisterPendingObject
<1>12. CASE UNCHANGED vars
    BY <1>12 DEF vars
<1> QED
    BY <1>1, <1>2, <1>3, <1>4, <1>5, <1>6, <1>7, <1>8, <1>9, <1>10, <1>11, <1>12 DEF Next

-----------------------------------------------------------------------------
(* A step that is no commit is invisible: the committed and superseded     *)
(* rows, the committed generations and the latest rows stay what they are. *)
Quiet ==
    /\ \A h \in Gens, s \in Slots :
          /\ obj'[h][s] = "committed" <=> obj[h][s] = "committed"
          /\ obj'[h][s] = "superseded" <=> obj[h][s] = "superseded"
    /\ \A h \in Gens :
          /\ gen'[h] = "committed" <=> gen[h] = "committed"
          /\ gen[h] = "committed" => members'[h] = members[h]
    /\ latest' = latest

LEMMA CommitOrQuiet ==
    ASSUME TypeOK, RowsFit, [Next]_vars
    PROVE  (\E g \in Gens : Commit(g)) \/ Quiet
<1> USE SlotsOfSubset DEF TypeOK, GenStatus, ObjStatus, Quiet
<1>1. ASSUME NEW g \in Gens, NEW M, NEW e, Begin(g, M, e)
      PROVE  Quiet
    BY <1>1 DEF Begin
<1>2. ASSUME NEW g \in Gens, NEW D, RegisterPendingObjects(g, D)
      PROVE  Quiet
    BY <1>2 DEF RegisterPendingObjects
<1>3. ASSUME NEW g \in Gens, NEW s \in SlotsOf(g), MarkObjectUploaded(g, s)
      PROVE  Quiet
    BY <1>3 DEF MarkObjectUploaded
<1>4. ASSUME NEW g \in Gens, NEW S, MarkObjectsUploaded(g, S)
      PROVE  Quiet
    BY <1>4 DEF MarkObjectsUploaded
<1>5. ASSUME NEW g \in Gens, NEW C, StageLatest(g, C)
      PROVE  Quiet
    BY <1>5 DEF StageLatest
<1>6. ASSUME NEW g \in Gens, NEW S \in SUBSET SlotsOf(g), SetObjectSetDigest(g, S)
      PROVE  Quiet
    BY <1>6 DEF SetObjectSetDigest
<1>7. ASSUME NEW g \in Gens, Fail(g)
      PROVE  Quiet
    BY <1>7 DEF Fail
<1>8. ASSUME NEW g \in Gens, NEW s \in SlotsOf(g), MarkPurged(g, s)
      PROVE  Quiet
    BY <1>8 DEF MarkPurged
<1>9. ASSUME NEW R \in SUBSET OrphanRows, DeleteOrphanObjects(R)
      PROVE  Quiet
  <2>1. \A h \in Gens, s \in Slots : <<h, s>> \in R => obj[h][s] = "orphan"
      BY DEF OrphanRows
  <2> QED  BY <1>9, <2>1 DEF DeleteOrphanObjects
<1>10. CASE UNCHANGED vars
    BY <1>10 DEF vars
<1> QED
    BY <1>1, <1>2, <1>3, <1>4, <1>5, <1>6, <1>7, <1>8, <1>9, <1>10
    DEF Next, RegisterPendingObject

LEMMA RowsFitStep == TypeOK /\ RowsFit /\ [Next]_vars => RowsFit'
<1> SUFFICES ASSUME TypeOK, RowsFit, [Next]_vars PROVE RowsFit'
    OBVIOUS
<1> DEFINE Fits(h, s) ==
        /\ obj'[h][s] # "none" => s \in SlotsOf(h)
        /\ gen'[h] = "none" => obj'[h][s] = "none"
        /\ gen'[h] = "pending" => obj'[h][s] \in {"none", "pending"}
        /\ gen'[h] = "failed" => obj'[h][s] \in {"none", "orphan", "deleted"}
        /\ gen'[h] = "committed" /\ s \in SlotsOf(h) => obj'[h][s] \notin {"none", "pending"}
<1>0. ASSUME members' = members, \A h \in Gens, s \in Slots : Fits(h, s)
      PROVE  RowsFit'
    BY <1>0, SlotsKept DEF RowsFit, Slots
<1> USE DEF TypeOK, GenStatus, ObjStatus, RowsFit
<1>1. ASSUME NEW g \in Gens, NEW M, NEW e, Begin(g, M, e)
      PROVE  RowsFit'
  <2>1. obj' = obj /\ \A s \in Slots : obj[g][s] = "none"
      BY <1>1 DEF Begin
  <2>2. \A h \in Gens : h # g => gen'[h] = gen[h] /\ SlotsOf(h)' = SlotsOf(h)
      BY <1>1, SlotsKept DEF Begin
  <2>3. gen'[g] = "pending"
      BY <1>1 DEF Begin
  <2> QED  BY <2>1, <2>2, <2>3 DEF Slots
<1>2. ASSUME NEW g \in Gens, NEW S \in SUBSET SlotsOf(g), NEW D \in [S -> Digests],
             RegisterPendingObjects(g, D)
      PROVE  RowsFit'
  <2>1. \A h \in Gens, s \in Slots : Fits(h, s)
      BY <1>2 DEF RegisterPendingObjects
  <2> QED  BY <1>0, <1>2, <2>1 DEF RegisterPendingObjects
<1>3. ASSUME obj' = obj, gen' = gen, members' = members
      PROVE  RowsFit'
    BY <1>0, <1>3
<1>7. ASSUME NEW g \in Gens, Commit(g)
      PROVE  RowsFit'
  <2>1. gen[g] = "pending" /\ Pending(g) = SlotsOf(g)
      BY <1>7 DEF Commit, CommitAllowed, ObjectsComplete
  <2>2. \A s \in Slots : obj'[g][s] = IF s \in SlotsOf(g) THEN "committed" ELSE "none"
      BY <1>7, <2>1 DEF Commit, ObjAfterCommit, Pending
  <2>3. ASSUME NEW h \in Gens \ {g}, NEW s \in Slots
        PROVE  \/ obj'[h][s] = obj[h][s]
               \/ obj[h][s] = "committed" /\ obj'[h][s] \in {"superseded", "orphan"}
      BY <1>7 DEF Commit, ObjAfterCommit, DisplacedStatus
  <2>4. \A h \in Gens : gen'[h] = IF h = g THEN "committed" ELSE gen[h]
      BY <1>7 DEF Commit
  <2>5. ASSUME NEW h \in Gens, NEW s \in Slots
        PROVE  Fits(h, s)
    <3>1. CASE h = g
        BY <2>2, <2>4, <3>1
    <3>2. CASE h # g /\ obj'[h][s] = obj[h][s]
        BY <2>4, <3>2
    <3>3. CASE h # g /\ obj[h][s] = "committed" /\ obj'[h][s] \in {"superseded", "orphan"}
      <4>1. gen[h] = "committed" /\ gen'[h] = "committed" /\ s \in SlotsOf(h)
          BY <2>4, <3>3
      <4> QED  BY <3>3, <4>1
    <3> QED  BY <2>3, <3>1, <3>2, <3>3
  <2> QED  BY <1>0, <1>7, <2>5 DEF Commit
<1>8. ASSUME NEW g \in Gens, Fail(g)
      PROVE  RowsFit'
  <2>1. \A h \in Gens, s \in Slots : Fits(h, s)
      BY <1>8 DEF Fail
  <2> QED  BY <1>0, <1>8, <2>1 DEF Fail
<1>10. ASSUME NEW R \in SUBSET OrphanRows, DeleteOrphanObjects(R)
       PROVE  RowsFit'
  <2>1. \A h \in Gens, s \in Slots : <<h, s>> \in R => obj[h][s] = "orphan"
      BY DEF OrphanRows
  <2>2. \A h \in Gens, s \in Slots : Fits(h, s)
      BY <1>10, <2>1 DEF DeleteOrphanObjects
  <2> QED  BY <1>0, <1>10, <2>2 DEF DeleteOrphanObjects
<1>11. ASSUME NEW g \in Gens, NEW s \in SlotsOf(g), NEW d \in Digests,
              RegisterPendingObject(g, s, d)
       PROVE  RowsFit'
    BY <1>11, <1>2, {s} \in SUBSET SlotsOf(g), [t \in {s} |-> d] \in [{s} -> Digests]
    DEF RegisterPendingObject
<1> QED
    BY <1>1, <1>2, <1>3, <1>7, <1>8, <1>10, <1>11
    DEF Next, vars, MarkObjectUploaded, MarkObjectsUploaded, StageLatest,
        SetObjectSetDigest, MarkPurged

LEMMA MembersFitStep == TypeOK /\ MembersFit /\ [Next]_vars => MembersFit'
<1> SUFFICES ASSUME TypeOK, MembersFit, [Next]_vars PROVE MembersFit'
    OBVIOUS
<1>1. ASSUME NEW g \in Gens, NEW M \in SUBSET Candidates[g], NEW e, Begin(g, M, e)
      PROVE  MembersFit'
    BY <1>1 DEF Begin, TypeOK, MembersFit
<1>2. CASE members' = members
    BY <1>2 DEF MembersFit
<1> QED
    BY <1>1, <1>2
    DEF Next, vars, RegisterPendingObject, RegisterPendingObjects, MarkObjectUploaded,
        MarkObjectsUploaded, StageLatest, SetObjectSetDigest, Commit, Fail, MarkPurged,
        DeleteOrphanObjects

LEMMA UploadsFitStep ==
    TypeOK /\ RowsFit /\ UploadsFit /\ [Next]_vars => UploadsFit'
<1> SUFFICES ASSUME TypeOK, RowsFit, UploadsFit, [Next]_vars PROVE UploadsFit'
    OBVIOUS
<1>1. ASSUME NEW g \in Gens, NEW M, NEW e, Begin(g, M, e)
      PROVE  UploadsFit'
  <2>1. uploaded' = uploaded /\ uploaded[g] = {} /\ gen'[g] = "pending"
      BY <1>1 DEF Begin, TypeOK, UploadsFit
  <2>2. \A h \in Gens : h # g => gen'[h] = gen[h] /\ SlotsOf(h)' = SlotsOf(h)
      BY <1>1, SlotsKept DEF Begin, TypeOK
  <2> QED  BY <2>1, <2>2 DEF UploadsFit
<1>2. ASSUME NEW g \in Gens, NEW S \in SUBSET SlotsOf(g), S # {} => gen[g] = "pending",
             uploaded' = [uploaded EXCEPT ![g] = @ \cup S], gen' = gen, members' = members
      PROVE  UploadsFit'
    BY <1>2, SlotsKept DEF UploadsFit, TypeOK
<1>3. ASSUME NEW g \in Gens, NEW s \in SlotsOf(g), MarkObjectUploaded(g, s)
      PROVE  UploadsFit'
  <2>1. gen[g] = "pending"
      BY <1>3, SlotsOfSubset DEF MarkObjectUploaded, RowsFit, TypeOK, GenStatus
  <2> QED  BY <1>2, <1>3, <2>1, {s} \in SUBSET SlotsOf(g) DEF MarkObjectUploaded
<1>4. ASSUME NEW g \in Gens, NEW S \in SUBSET SlotsOf(g), MarkObjectsUploaded(g, S)
      PROVE  UploadsFit'
    BY <1>2, <1>4 DEF MarkObjectsUploaded
<1>5. ASSUME NEW g \in Gens, Commit(g)
      PROVE  UploadsFit'
  <2>1. SlotsOf(g) \subseteq uploaded[g]
      BY <1>5 DEF Commit, CommitAllowed, ObjectsComplete
  <2>2. /\ uploaded' = uploaded /\ members' = members
        /\ \A h \in Gens : gen'[h] = IF h = g THEN "committed" ELSE gen[h]
      BY <1>5 DEF Commit, TypeOK
  <2> QED  BY <2>1, <2>2, SlotsKept DEF UploadsFit
<1>6. ASSUME NEW g \in Gens, Fail(g)
      PROVE  UploadsFit'
  <2>1. /\ uploaded' = uploaded /\ members' = members
        /\ \A h \in Gens : gen'[h] = IF h = g THEN "failed" ELSE gen[h]
      BY <1>6 DEF Fail, TypeOK
  <2> QED  BY <2>1, SlotsKept DEF UploadsFit
<1>7. CASE uploaded' = uploaded /\ gen' = gen /\ members' = members
    BY <1>7, SlotsKept DEF UploadsFit
<1> QED
    BY <1>1, <1>3, <1>4, <1>5, <1>6, <1>7
    DEF Next, vars, RegisterPendingObject, RegisterPendingObjects, StageLatest,
        SetObjectSetDigest, MarkPurged, DeleteOrphanObjects

-----------------------------------------------------------------------------
(* The same coordinate is an equivalence on each slot.                     *)
LEMMA CoordinateEquivalence ==
    ASSUME NEW s, NEW g, NEW h, NEW k, SameCoordinate(s, g, h)
    PROVE  /\ SameCoordinate(s, h, g)
           /\ SameCoordinate(s, h, k) => SameCoordinate(s, g, k)
BY DEF SameCoordinate

LEMMA SlotCoordinate == TypeOK => \A g \in Gens : \A s \in SlotsOf(g) : SameCoordinate(s, g, g)
BY DEF TypeOK, SlotsOf, SlotsWith, SeriesWith, SameCoordinate

(* Commit(g), seen by the readers.                                         *)
LEMMA CommitView ==
    ASSUME TypeOK, RowsFit, NEW g \in Gens, Commit(g)
    PROVE  /\ \A h \in Gens, s \in Slots :
                 obj'[h][s] = "committed" <=>
                    IF h = g THEN s \in SlotsOf(g)
                    ELSE /\ obj[h][s] = "committed"
                         /\ ~(s \in SlotsOf(g) /\ SameCoordinate(s, g, h))
           /\ \A h \in Gens : gen'[h] = "committed" <=> h = g \/ gen[h] = "committed"
           /\ gen[g] = "pending"
<1>1. CommitAllowed(g) /\ obj' = ObjAfterCommit(g) /\ gen' = [gen EXCEPT ![g] = "committed"]
    BY DEF Commit
<1>2. gen[g] = "pending"
    BY <1>1 DEF CommitAllowed
<1> QED  BY <1>1, <1>2, CommitEffect DEF TypeOK

LEMMA OneCommittedStep ==
    ASSUME TypeOK, RowsFit, OneCommitted, [Next]_vars
    PROVE  OneCommitted'
<1>1. ASSUME NEW g \in Gens, Commit(g)
      PROVE  OneCommitted'
  <2> SUFFICES ASSUME NEW h \in Gens, NEW k \in Gens, NEW s \in Slots,
                      obj'[h][s] = "committed", obj'[k][s] = "committed",
                      SameCoordinate(s, h, k)
               PROVE  h = k
      BY DEF OneCommitted, SameCoordinate
  <2>1. CASE h # g /\ k # g
      BY <1>1, <2>1, CommitView DEF OneCommitted
  <2>2. CASE h = g
      BY <1>1, <2>2, CommitView
  <2>3. CASE k = g
      BY <1>1, <2>3, CommitView, CoordinateEquivalence
  <2> QED  BY <2>1, <2>2, <2>3
<1>2. CASE Quiet
    BY <1>2 DEF Quiet, OneCommitted, SameCoordinate
<1> QED  BY <1>1, <1>2, CommitOrQuiet

LEMMA PublishedStaysServedStep ==
    ASSUME TypeOK, RowsFit, PublishedStaysServed, [Next]_vars
    PROVE  PublishedStaysServed'
<1> SUFFICES ASSUME NEW h \in Gens, gen'[h] = "committed", NEW s \in SlotsOf(h)'
             PROVE  \E k \in Gens : obj'[k][s] = "committed" /\ SameCoordinate(s, h, k)
    BY DEF PublishedStaysServed, SameCoordinate
<1>3. s \in SlotsOf(h)
  <2>1. members'[h] = members[h]
      BY CommitOrQuiet DEF Quiet, Commit
  <2> QED  BY <2>1, SlotsKept
<1>0. s \in Slots
    BY <1>3, SlotsOfSubset
<1>1. ASSUME NEW g \in Gens, Commit(g)
      PROVE  \E k \in Gens : obj'[k][s] = "committed" /\ SameCoordinate(s, h, k)
  <2>1. CASE h = g
      BY <1>0, <1>1, <1>3, <2>1, CommitView, SlotCoordinate
  <2>2. CASE h # g
    <3>1. PICK k \in Gens : obj[k][s] = "committed" /\ SameCoordinate(s, h, k)
        BY <1>1, <1>3, <2>2, CommitView DEF PublishedStaysServed
    <3>2. CASE k # g /\ ~(s \in SlotsOf(g) /\ SameCoordinate(s, g, k))
        BY <1>0, <1>1, <3>1, <3>2, CommitView
    <3>3. CASE s \in SlotsOf(g) /\ SameCoordinate(s, g, k)
      <4>1. SameCoordinate(s, h, g)
          BY <3>1, <3>3, CoordinateEquivalence
      <4> QED  BY <1>0, <1>1, <3>3, <4>1, CommitView
    <3>4. CASE k = g
        BY <1>0, <1>1, <3>1, <3>4, CommitView DEF RowsFit
    <3> QED  BY <3>2, <3>3, <3>4
  <2> QED  BY <2>1, <2>2
<1>2. CASE Quiet
    BY <1>0, <1>2, <1>3 DEF Quiet, PublishedStaysServed
<1> QED  BY <1>1, <1>2, CommitOrQuiet

LEMMA LatestIsNewestStep ==
    ASSUME TypeOK, RowsFit, LatestCommitted, LatestIsNewest, [Next]_vars
    PROVE  LatestCommitted' /\ LatestIsNewest'
<1>0. ASSUME NEW g \in Gens, Commit(g)
      PROVE  LatestCommitted'
  <2>1. \A k \in Gens : gen'[k] = "committed" <=> k = g \/ gen[k] = "committed"
      BY <1>0, CommitView
  <2>2. \A c \in Codes : latest'[c] \in {g, latest[c]} /\ latest[c] \in Gens \cup {NoGen}
      BY <1>0 DEF Commit, LatestAfterCommit, TypeOK
  <2> QED  BY <2>1, <2>2 DEF LatestCommitted
<1>1. ASSUME NEW g \in Gens, Commit(g)
      PROVE  LatestIsNewest'
  <2> SUFFICES ASSUME NEW h \in Gens, gen'[h] = "committed",
                      Profile[h] = "snapshot_series_latest", NEW c \in members'[h]
               PROVE  /\ latest'[c] # NoGen
                      /\ gen'[latest'[c]] = "committed"
                      /\ TradeDate[h] <= TradeDate[latest'[c]]
      BY DEF LatestIsNewest
  <2>1. c \in members[h] /\ c \in Codes
      BY <1>1 DEF TypeOK, Commit
  <2>2. latest'[c] = IF /\ c \in staged[g]
                        /\ Profile[g] = "snapshot_series_latest"
                        /\ latest[c] # NoGen => TradeDate[latest[c]] <= TradeDate[g]
                     THEN g ELSE latest[c]
      BY <1>1, <2>1 DEF Commit, LatestAfterCommit
  <2>3. Profile[g] = "snapshot_series_latest" => staged[g] = members[g]
      BY <1>1 DEF Commit, CommitAllowed, StagingComplete
  <2>4. latest[c] \in Gens \cup {NoGen} /\ TradeDate[g] \in Nat /\ TradeDate[h] \in Nat
      BY <2>1, TradeDateAssumption DEF TypeOK
  <2>5. \A k \in Gens : TradeDate[k] \in Nat
      BY TradeDateAssumption
  <2>6. \A k \in Gens : gen'[k] = "committed" <=> k = g \/ gen[k] = "committed"
      BY <1>1, CommitView
  <2>7. CASE h = g
    <3>1. CASE latest'[c] = g
        BY <2>4, <2>6, <2>7, <3>1, NoGenAssumption
    <3>2. CASE latest'[c] # g
      <4>1. latest'[c] = latest[c] /\ latest[c] # NoGen /\ ~(TradeDate[latest[c]] <= TradeDate[g])
          BY <2>1, <2>2, <2>3, <2>7, <3>2
      <4>2. latest[c] \in Gens
          BY <2>4, <4>1
      <4>3. TradeDate[h] <= TradeDate[latest[c]]
          BY <2>5, <2>7, <4>1, <4>2
      <4>4. gen[latest[c]] = "committed"
          BY <2>1, <4>1 DEF LatestCommitted
      <4> QED  BY <2>6, <4>1, <4>2, <4>3, <4>4
    <3> QED  BY <3>1, <3>2
  <2>8. CASE h # g
    <3>1. /\ latest[c] # NoGen /\ gen[latest[c]] = "committed"
          /\ TradeDate[h] <= TradeDate[latest[c]]
        BY <2>1, <2>6, <2>8 DEF LatestIsNewest
    <3>2. latest[c] \in Gens
        BY <2>4, <3>1
    <3>3. latest'[c] = g => TradeDate[h] <= TradeDate[g] \/ latest[c] = g
        BY <2>2, <2>5, <3>1, <3>2
    <3> QED  BY <2>2, <2>6, <3>1, <3>2, <3>3, NoGenAssumption
  <2> QED  BY <2>7, <2>8
<1>2. CASE Quiet
    BY <1>2 DEF Quiet, LatestCommitted, LatestIsNewest, TypeOK
<1> QED  BY <1>0, <1>1, <1>2, CommitOrQuiet

-----------------------------------------------------------------------------
(* The ways a row may move.                                                *)
RowMoves ==
    \A h \in Gens, s \in Slots :
        \/ obj'[h][s] = obj[h][s]
        \/ obj[h][s] = "none" /\ obj'[h][s] = "pending"
        \/ obj[h][s] = "pending" /\ obj'[h][s] \in {"committed", "orphan"}
        \/ s # "delta" /\ obj[h][s] = "committed" /\ obj'[h][s] \in {"superseded", "orphan"}
        \/ obj[h][s] = "orphan" /\ obj'[h][s] = "deleted"

LEMMA StepMovesRows == TypeOK /\ [Next]_vars => RowMoves
<1> SUFFICES ASSUME TypeOK, [Next]_vars PROVE RowMoves
    OBVIOUS
<1>1. ASSUME obj' = obj
      PROVE  RowMoves
    BY <1>1 DEF RowMoves
<1>2. ASSUME NEW g \in Gens, NEW D, RegisterPendingObjects(g, D)
      PROVE  RowMoves
    BY <1>2 DEF RegisterPendingObjects, RowMoves, TypeOK
<1>3. ASSUME NEW g \in Gens, Commit(g)
      PROVE  RowMoves
  <2>1. ~Displaces(g, "delta")
    <3>1. "delta" \notin members[g]
        BY CodesAssumption DEF TypeOK
    <3>2. CASE Profile[g] = "series_only"
        BY <3>1, <3>2 DEF Displaces
    <3>3. CASE Profile[g] # "series_only"
        BY <3>1, <3>3 DEF Displaces, SeriesWith
    <3> QED  BY <3>2, <3>3
  <2>2. ASSUME NEW h \in Gens, NEW s \in Slots
        PROVE  \/ obj'[h][s] = obj[h][s]
               \/ obj[h][s] = "pending" /\ obj'[h][s] = "committed"
               \/ /\ obj[h][s] = "committed" /\ Displaces(g, s)
                  /\ obj'[h][s] \in {"superseded", "orphan"}
      BY <1>3 DEF Commit, ObjAfterCommit, DisplacedStatus
  <2> QED  BY <2>1, <2>2 DEF RowMoves
<1>4. ASSUME NEW g \in Gens, Fail(g)
      PROVE  RowMoves
    BY <1>4 DEF Fail, RowMoves, TypeOK
<1>5. ASSUME NEW R \in SUBSET OrphanRows, DeleteOrphanObjects(R)
      PROVE  RowMoves
  <2>1. \A h \in Gens, s \in Slots : <<h, s>> \in R => obj[h][s] = "orphan"
      BY DEF OrphanRows
  <2> QED  BY <1>5, <2>1 DEF DeleteOrphanObjects, RowMoves
<1> QED
    BY <1>1, <1>2, <1>3, <1>4, <1>5
    DEF Next, vars, Begin, RegisterPendingObject, MarkObjectUploaded, MarkObjectsUploaded,
        StageLatest, SetObjectSetDigest, MarkPurged

LEMMA PurgedFitStep == TypeOK /\ PurgedFit /\ [Next]_vars => PurgedFit'
<1> SUFFICES ASSUME TypeOK, PurgedFit, [Next]_vars,
                    NEW h \in Gens, NEW s \in Slots, s \in purged'[h]
             PROVE  obj'[h][s] \in {"orphan", "deleted"}
    BY DEF PurgedFit
<1>1. s \in purged[h] \/ obj[h][s] = "orphan"
  <2>1. \/ \E g \in Gens : \E t \in SlotsOf(g) : MarkPurged(g, t)
        \/ purged' = purged
      BY DEF Next, vars, Begin, RegisterPendingObject, RegisterPendingObjects,
         MarkObjectUploaded, MarkObjectsUploaded, StageLatest, SetObjectSetDigest,
         Commit, Fail, DeleteOrphanObjects
  <2>2. ASSUME NEW g \in Gens, NEW t \in SlotsOf(g), MarkPurged(g, t)
        PROVE  s \in purged[h] \/ obj[h][s] = "orphan"
      BY <2>2 DEF MarkPurged, TypeOK
  <2> QED  BY <2>1, <2>2
<1>2. obj[h][s] \in {"orphan", "deleted"}
    BY <1>1 DEF PurgedFit
<1> QED  BY <1>2, StepMovesRows DEF RowMoves

-----------------------------------------------------------------------------
LEMMA IInvStep == IInv /\ [Next]_vars => IInv'
BY TypeStep, MembersFitStep, RowsFitStep, UploadsFitStep, PurgedFitStep, OneCommittedStep,
   PublishedStaysServedStep, LatestIsNewestStep DEF IInv

(* The strengthened invariant holds of every reachable state.              *)
THEOREM Inductive == Spec => []IInv
BY InitIInv, IInvStep, PTL DEF Spec

(* Every variable keeps its type.                                          *)
THEOREM TypeCorrect == Spec => []TypeOK
<1>1. IInv => TypeOK
    BY DEF IInv
<1> QED  BY Inductive, <1>1, PTL

(* No coordinate has two committed objects, so the unique indexes behind   *)
(* series, snapshots and bundles never abort a commit.                     *)
THEOREM UniqueCommitted == Spec => []OneCommitted
<1>1. IInv => OneCommitted
    BY DEF IInv
<1> QED  BY Inductive, <1>1, PTL

(* A published coordinate is served for ever.                              *)
THEOREM AlwaysServed == Spec => []PublishedStaysServed
<1>1. IInv => PublishedStaysServed
    BY DEF IInv
<1> QED  BY Inductive, <1>1, PTL

(* Generations become visible as a whole or not at all.                    *)
THEOREM WholeCommits == Spec => []CommitIsWhole
<1>1. IInv => CommitIsWhole
  <2> SUFFICES ASSUME IInv, NEW g \in Gens
               PROVE  IF gen[g] = "committed"
                      THEN /\ uploaded[g] = SlotsOf(g)
                           /\ \A s \in SlotsOf(g) : obj[g][s] \notin {"none", "pending"}
                      ELSE \A s \in Slots : obj[g][s] \notin {"committed", "superseded"}
      BY DEF CommitIsWhole
  <2>1. CASE gen[g] = "committed"
      BY <2>1, SlotsOfSubset DEF IInv, RowsFit, UploadsFit
  <2>2. CASE gen[g] # "committed"
      BY <2>2 DEF IInv, RowsFit, TypeOK, GenStatus
  <2> QED  BY <2>1, <2>2
<1> QED  BY Inductive, <1>1, PTL

(* The latest row of a code never falls behind a committed generation.     *)
THEOREM LatestNewest == Spec => []LatestIsNewest
<1>1. IInv => LatestIsNewest
    BY DEF IInv
<1> QED  BY Inductive, <1>1, PTL

(* Superseded rows and committed deltas stay, and only orphans are swept.  *)
THEOREM AuditTrail == Spec => AuditTrailKept
<1> DEFINE Kept ==
      \A g \in Gens, s \in Slots :
          /\ obj[g][s] = "superseded" => obj'[g][s] = "superseded"
          /\ obj[g]["delta"] = "committed" => obj'[g]["delta"] = "committed"
          /\ (obj'[g][s] = "deleted" /\ obj[g][s] # "deleted") => obj[g][s] = "orphan"
          /\ s \in purged'[g] => obj'[g][s] \in {"orphan", "deleted"}
<1>1. IInv /\ [Next]_vars => Kept
  <2> SUFFICES ASSUME IInv, [Next]_vars PROVE Kept
      OBVIOUS
  <2>1. RowMoves /\ PurgedFit'
      BY StepMovesRows, PurgedFitStep DEF IInv
  <2>2. \A g \in Gens : obj[g]["delta"] = "committed" => obj'[g]["delta"] = "committed"
      BY <2>1 DEF RowMoves, Slots
  <2> QED  BY <2>1, <2>2 DEF RowMoves, PurgedFit
<1> QED  BY Inductive, <1>1, PTL DEF Spec, AuditTrailKept

-----------------------------------------------------------------------------
(* The refinement: a commit publishes its generation, every other step     *)
(* leaves the readers' view alone.                                         *)
LEMMA InitCatalog == Init => Catalog!Init
<1> SUFFICES ASSUME Init PROVE Catalog!Init
    OBVIOUS
<1>1. CommittedGens = {} /\ LiveObjects = {}
    BY DEF Init, CommittedGens, LiveObjects
<1> QED  BY <1>1 DEF Init, Catalog!Init

LEMMA CommitPublishes ==
    ASSUME IInv, NEW g \in Gens, Commit(g)
    PROVE  Catalog!Publish(g, SlotsOf(g), TopsWith(g, members[g]))
<1> DEFINE Taken == {l \in LiveObjects : l[2] \in SlotsOf(g) /\ SameCoordinate(l[2], g, l[1])}
<1>0. TypeOK /\ RowsFit
    BY DEF IInv
<1>1. Catalog!TakenOver(g, SlotsOf(g)) = Taken
    BY DEF Catalog!TakenOver
<1>2. g \notin CommittedGens /\ CommittedGens' = CommittedGens \cup {g}
    BY <1>0, CommitView DEF CommittedGens
<1>3. \A l \in Taken : l[2] # "delta"
  <2> SUFFICES ASSUME NEW l \in Taken, l[2] = "delta" PROVE FALSE
      OBVIOUS
  <2>1. l[1] \in Holders("delta") /\ SameCoordinate("delta", g, l[1])
      BY DEF LiveObjects, Holders
  <2>2. Profile[g] = "series_only"
    <3>1. "delta" \in SlotsOf(g) /\ "delta" \notin members[g]
        BY <1>0, CodesAssumption DEF TypeOK
    <3> QED  BY <3>1 DEF SlotsOf, SlotsWith, SeriesWith
  <2> QED  BY <2>1, <2>2 DEF Commit, CommitAllowed, DeltaIndexAllows
<1>4. LiveObjects' = (LiveObjects \ Taken) \cup ({g} \X SlotsOf(g))
  <2>1. ASSUME NEW h \in Gens, NEW s \in Slots
        PROVE  <<h, s>> \in LiveObjects' <=>
                  <<h, s>> \in (LiveObjects \ Taken) \cup ({g} \X SlotsOf(g))
    <3>1. obj'[h][s] = "committed" <=>
             IF h = g THEN s \in SlotsOf(g)
             ELSE /\ obj[h][s] = "committed"
                  /\ ~(s \in SlotsOf(g) /\ SameCoordinate(s, g, h))
        BY <1>0, CommitView
    <3>2. obj[g][s] # "committed"
        BY <1>0, CommitView DEF RowsFit
    <3>3. <<h, s>> \in LiveObjects' <=> obj'[h][s] = "committed"
        BY DEF LiveObjects
    <3>4. <<h, s>> \in LiveObjects <=> obj[h][s] = "committed"
        BY DEF LiveObjects
    <3>5. <<h, s>> \in Taken <=> /\ obj[h][s] = "committed"
                                 /\ s \in SlotsOf(g) /\ SameCoordinate(s, g, h)
        BY <3>4
    <3>6. <<h, s>> \in {g} \X SlotsOf(g) <=> h = g /\ s \in SlotsOf(g)
        OBVIOUS
    <3> QED  BY <3>1, <3>2, <3>3, <3>4, <3>5, <3>6
  <2>2. LiveObjects' \subseteq Gens \X Slots /\ LiveObjects \subseteq Gens \X Slots
      BY DEF LiveObjects
  <2>3. {g} \X SlotsOf(g) \subseteq Gens \X Slots
      BY <1>0, SlotsOfSubset
  <2>4. ASSUME NEW r \in Gens \X Slots
        PROVE  r \in LiveObjects' <=> r \in (LiveObjects \ Taken) \cup ({g} \X SlotsOf(g))
    <3>1. r = <<r[1], r[2]>> /\ r[1] \in Gens /\ r[2] \in Slots
        OBVIOUS
    <3> QED  BY <2>1, <3>1
  <2> QED  BY <2>2, <2>3, <2>4
<1>5. latest' = [c \in Codes |->
                    IF /\ c \in TopsWith(g, members[g])
                       /\ latest[c] # NoGen => TradeDate[latest[c]] <= TradeDate[g]
                    THEN g ELSE latest[c]]
  <2>1. ASSUME NEW c \in Codes
        PROVE  c \in TopsWith(g, members[g]) <=>
                  c \in staged[g] /\ Profile[g] = "snapshot_series_latest"
      BY DEF TopsWith, Commit, CommitAllowed, StagingComplete
  <2> QED  BY <2>1 DEF Commit, LatestAfterCommit
<1> QED
    BY <1>1, <1>2, <1>3, <1>4, <1>5 DEF Catalog!Publish

LEMMA QuietHides == ASSUME IInv, Quiet PROVE UNCHANGED <<CommittedGens, LiveObjects, latest>>
<1>1. CommittedGens' = CommittedGens
    BY DEF Quiet, CommittedGens
<1>2. LiveObjects' = LiveObjects
    BY DEF Quiet, LiveObjects
<1> QED  BY <1>1, <1>2 DEF Quiet

(* The tables implement the catalog their readers rely on.                 *)
THEOREM Refinement == Spec => ImplementsCatalog
<1>1. IInv /\ [Next]_vars => [Catalog!Next]_(Catalog!catalog)
  <2> SUFFICES ASSUME IInv, [Next]_vars PROVE [Catalog!Next]_(Catalog!catalog)
      OBVIOUS
  <2>1. ASSUME NEW g \in Gens, Commit(g)
        PROVE  Catalog!Next
    <3> DEFINE o == <<SlotsOf(g), TopsWith(g, members[g])>>
    <3>1. o \in OffersOf[g]
        BY DEF OffersOf, SlotsOf, IInv, MembersFit
    <3>2. Catalog!Publish(g, o[1], o[2])
        BY <2>1, CommitPublishes
    <3> QED  BY <3>1, <3>2 DEF Catalog!Next
  <2>2. ASSUME Quiet
        PROVE  UNCHANGED Catalog!catalog
      BY <2>2, QuietHides DEF Catalog!catalog
  <2> QED  BY <2>1, <2>2, CommitOrQuiet DEF IInv
<1> QED  BY Inductive, InitCatalog, <1>1, PTL DEF Spec, ImplementsCatalog, Catalog!Spec
=============================================================================
