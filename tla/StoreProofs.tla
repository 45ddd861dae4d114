----------------------------- MODULE StoreProofs -----------------------------
(***************************************************************************)
(* Proofs about two of the parts a writer meets: DerivedDouble, the store  *)
(* its tests run on, and DerivedClient, the adapter it calls.  The first   *)
(* is shown to be a catalog for any generations and codes, as the database *)
(* is (DerivedGenerationProofs); the second to list and to send whole, for *)
(* any sizes of pages, chunks and batches.                                 *)
(***************************************************************************)
EXTENDS DerivedDouble, DerivedClient, DerivedGenerationProofs, FiniteSetTheorems

(***************************************************************************)
(* The double.  Its commit reads the indexes where the database reads the  *)
(* rows; as they agree, what it displaces is what its generation takes     *)
(* over, so that its last check never fails and nothing is half displaced. *)
(***************************************************************************)

(* Rows follow their generation, and have a digest from their start.       *)
DoubleRowsFit ==
    \A g \in Gens, s \in Slots :
        /\ gen[g] = "none" => obj[g][s] = "none"
        /\ gen[g] = "pending" => obj[g][s] \in {"none", "pending"}
        /\ obj[g][s] = "committed" => gen[g] = "committed" \/ g \in overtaken
        /\ obj[g][s] # "none" => digest[g][s] \in Digests

(* What is being failed is pending, unless a commit has overtaken that;    *)
(* and an index names rows that were registered.                           *)
FailsFit ==
    /\ \A g \in overtaken : gen[g] \in {"committed", "failed"}
    /\ \A g \in failing : gen[g] = "pending" \/ g \in overtaken
ServedRowsFit == \A c \in Codes : servedSeries[c] # NoGen => obj[servedSeries[c]][c] # "none"

(* Only codes the generation was begun with are staged.                    *)
StagedFit ==
    \A g \in Gens : /\ staged[g] \subseteq members[g]
                    /\ gen[g] = "none" => staged[g] = {}

DoubleInv ==
    /\ DoubleTypeOK /\ MembersFit /\ StagedFit /\ DoubleRowsFit /\ FailsFit /\ ServedRowsFit
    /\ IndexesMatchRows

LEMMA DoubleInitHolds == DoubleInit => DoubleInv
<1> SUFFICES ASSUME DoubleInit PROVE DoubleInv
    OBVIOUS
<1>1. TypeOK /\ MembersFit
    BY InitIInv DEF DoubleInit, IInv
<1>2. IndexesMatchRows
    BY DEF DoubleInit, Init, IndexesMatchRows, Holders, Slots
<1>3. FailsFit /\ ServedRowsFit
    BY DEF DoubleInit, FailsFit, ServedRowsFit
<1> QED BY <1>1, <1>2, <1>3 DEF DoubleInv, DoubleTypeOK, DoubleInit, Init, StagedFit, DoubleRowsFit

(* What a commit checks of its rows, profile by profile.                   *)
LEMMA DoubleSlots ==
    ASSUME DoubleInv, NEW g \in Gens, DoubleCommitAllowed(g)
    PROVE  /\ RowsOf(g) = SlotsOf(g) /\ SeriesRows(g) = SlotsOf(g) \cap Codes
           /\ Profile[g] = "web_asof" => SlotsOf(g) = {"asof"}
           /\ Profile[g] = "series_only" => SlotsOf(g) = members[g] \cup {"delta"}
           /\ Profile[g] \notin {"web_asof", "series_only"} =>
                 /\ SlotsOf(g) = SeriesWith(g, members[g]) \cup {"snapshot"}
                 /\ Profile[g] \notin DailySeriesProfiles => SlotsOf(g) = {"snapshot"}
           /\ members[g] \subseteq Codes
<1>1. RowsOf(g) = SlotsOf(g) /\ members[g] \subseteq Codes
    BY DEF DoubleCommitAllowed, DoubleInv, DoubleTypeOK, TypeOK
<1> QED BY <1>1, CodesAssumption DEF SlotsOf, SlotsWith, SeriesWith, DailySeriesProfiles, SeriesRows

(* The rows it takes out of service are those of its own coordinates.      *)
LEMMA DisplacesItsOwn ==
    ASSUME DoubleInv, NEW g \in Gens, DoubleCommitAllowed(g), NEW h \in Gens, h # g, NEW s \in Slots,
           obj[h][s] = "committed"
    PROVE  Displaced(g, h, s) <=> s \in SlotsOf(g) /\ SameCoordinate(s, g, h)
<1>1. CASE Profile[g] = "series_only"
    <2>1. s \in members[g] => prior[g][s] # Absent
        <3> SUFFICES ASSUME s \in members[g] PROVE prior[g][s] # Absent
            OBVIOUS
        <3>1. s \in Codes /\ h \in Holders(s)
            BY DoubleSlots DEF Holders
        <3>2. servedSeries[s] # NoGen /\ servedSeries[s] \in Gens /\ s \in Slots
            BY <3>1 DEF DoubleInv, IndexesMatchRows, DoubleTypeOK
        <3>3. digest[servedSeries[s]][s] \in Digests
            BY <3>1, <3>2 DEF DoubleInv, DoubleRowsFit, ServedRowsFit
        <3>4. SeriesHold(g)
            BY <1>1 DEF DoubleCommitAllowed, ExpectationHolds
        <3> QED BY <3>2, <3>3, <3>4, AbsentAssumption DEF SeriesHold
    <2>2. s = "delta" => ~SameCoordinate(s, g, h)
        BY <1>1, DoubleSlots DEF DoubleCommitAllowed, DeltaIsNew, Holders
    <2>3. s \in members[g] => SameCoordinate(s, g, h)
        BY DoubleSlots DEF SameCoordinate
    <2>4. Displaced(g, h, s) <=> s \in members[g] /\ prior[g][s] # Absent
        BY <1>1 DEF Displaced
    <2> QED BY <1>1, <2>1, <2>2, <2>3, <2>4, DoubleSlots
<1>2. CASE Profile[g] = "web_asof"
    BY <1>2, DoubleSlots, CodesAssumption DEF Displaced, SameCoordinate
<1>3. CASE Profile[g] \notin {"series_only", "web_asof"}
    <2>1. Displaced(g, h, s) <=>
             \/ s = "snapshot" /\ TradeDate[h] = TradeDate[g]
             \/ Profile[g] \in DailySeriesProfiles /\ s \in SeriesRows(g)
        BY <1>3 DEF Displaced
    <2>2. s = "snapshot" => (SameCoordinate(s, g, h) <=> TradeDate[h] = TradeDate[g])
        BY CodesAssumption DEF SameCoordinate
    <2>3. s \in Codes => SameCoordinate(s, g, h) /\ s # "snapshot"
        BY CodesAssumption DEF SameCoordinate
    <2>4. Profile[g] \in DailySeriesProfiles => SlotsOf(g) = members[g] \cup {"snapshot"}
        BY <1>3, DoubleSlots DEF SeriesWith
    <2> QED BY <1>3, <2>1, <2>2, <2>3, <2>4, DoubleSlots
<1> QED BY <1>1, <1>2, <1>3

LEMMA NeverDuplicate ==
    ASSUME DoubleInv, NEW g \in Gens, DoubleCommitAllowed(g)
    PROVE  ~DuplicateSeries(g)
<1> SUFFICES ASSUME NEW c \in SeriesRows(g), NEW h \in Gens \ {g}, AfterDisplacing(g)[h][c] = "committed"
             PROVE  FALSE
    BY DEF DuplicateSeries
<1>1. c \in Slots /\ c \in SlotsOf(g) /\ c \in Codes
    BY DoubleSlots DEF Slots
<1>2. AfterDisplacing(g)[h][c] = IF Displaced(g, h, c) THEN DisplacedStatus(g) ELSE obj[h][c]
    BY <1>1 DEF AfterDisplacing
<1>3. ~Displaced(g, h, c) /\ obj[h][c] = "committed"
    BY <1>2 DEF DisplacedStatus
<1> QED BY <1>1, <1>3, DisplacesItsOwn DEF SameCoordinate

(* What a commit does to the committed rows.                               *)
LEMMA DoubleCommitEffect ==
    ASSUME DoubleInv, NEW g \in Gens, DoubleCommit(g)
    PROVE  /\ PublishRows(g) /\ gen[g] = "pending"
           /\ \A h \in Gens, s \in Slots :
                obj'[h][s] = "committed" <=>
                   IF h = g THEN s \in SlotsOf(g)
                   ELSE /\ obj[h][s] = "committed"
                        /\ ~(s \in SlotsOf(g) /\ SameCoordinate(s, g, h))
<1>1. DoubleCommitAllowed(g) /\ PublishRows(g)
    BY NeverDuplicate DEF DoubleCommit
<1>2. gen[g] = "pending" /\ RowsOf(g) = SlotsOf(g)
    BY <1>1, DoubleSlots DEF DoubleCommitAllowed
<1> SUFFICES ASSUME NEW h \in Gens, NEW s \in Slots
             PROVE  obj'[h][s] = "committed" <=>
                       IF h = g THEN s \in SlotsOf(g)
                       ELSE /\ obj[h][s] = "committed"
                            /\ ~(s \in SlotsOf(g) /\ SameCoordinate(s, g, h))
    BY <1>1, <1>2
<1>3. CASE h = g
    <2>1. obj'[g][s] = IF s \in RowsOf(g) THEN "committed" ELSE obj[g][s]
        BY <1>1 DEF PublishRows, AfterDisplacing
    <2>2. obj[g][s] # "committed"
        BY <1>2 DEF DoubleInv, DoubleRowsFit, FailsFit
    <2> QED BY <1>2, <1>3, <2>1, <2>2
<1>4. CASE h # g
    <2>1. obj'[h][s] = IF Displaced(g, h, s) THEN DisplacedStatus(g) ELSE obj[h][s]
        BY <1>1, <1>4 DEF PublishRows, AfterDisplacing
    <2>2. CASE obj[h][s] = "committed"
        BY <1>1, <1>4, <2>1, <2>2, DisplacesItsOwn DEF DisplacedStatus
    <2>3. CASE obj[h][s] # "committed"
        BY <1>4, <2>1, <2>3 DEF Displaced
    <2> QED BY <2>2, <2>3
<1> QED BY <1>3, <1>4

-----------------------------------------------------------------------------
(* All but a commit that publishes: readers notice nothing.                *)
Unnoticed ==
    /\ UnchangedIndexes /\ latest' = latest /\ overtaken' = overtaken
    /\ \A h \in Gens : gen'[h] = "committed" <=> gen[h] = "committed"
    /\ \A h \in Gens, s \in Slots :
         /\ obj'[h][s] = "committed" <=> obj[h][s] = "committed"
         /\ obj[h][s] = "committed" => digest'[h][s] = digest[h][s]

LEMMA IndexesStay == DoubleInv /\ Unnoticed => IndexesMatchRows'
<1> SUFFICES ASSUME DoubleInv, Unnoticed PROVE IndexesMatchRows'
    OBVIOUS
<1>1. \A s \in Slots : Holders(s)' = Holders(s)
    BY DEF Unnoticed, Holders
<1>2. "asof" \in Slots /\ "snapshot" \in Slots /\ Codes \subseteq Slots
    BY DEF Slots
<1>3. /\ servedSeries' = servedSeries /\ servedSnapshot' = servedSnapshot /\ servedBundle' = servedBundle
      /\ overtaken' = overtaken
    BY DEF Unnoticed, UnchangedIndexes
<1>4. \A c \in Codes :
         Holders(c)' \cup ({servedSeries'[c]} \cap overtaken') = {servedSeries'[c]} \ {NoGen}
    BY <1>1, <1>2, <1>3 DEF DoubleInv, IndexesMatchRows
<1>5. ASSUME NEW d \in Dates
      PROVE  /\ {g \in Holders("asof")' : TradeDate[g] = d} \cup ({servedBundle'[d]} \cap overtaken')
                   = {servedBundle'[d]} \ {NoGen}
             /\ servedSnapshot'[d] # Absent =>
                   \E g \in Holders("snapshot")' \cup overtaken' : TradeDate[g] = d
    BY <1>1, <1>2, <1>3 DEF DoubleInv, IndexesMatchRows
<1>6. ASSUME NEW d \in Dates, NEW g \in Holders("snapshot")', TradeDate[g] = d
      PROVE  digest'[g]["snapshot"] = servedSnapshot'[d]
    <2>1. g \in Holders("snapshot") /\ digest'[g]["snapshot"] = digest[g]["snapshot"]
        BY <1>1, <1>2 DEF Unnoticed, Holders
    <2> QED BY <1>3, <1>6, <2>1 DEF DoubleInv, IndexesMatchRows
<1> QED BY <1>4, <1>5, <1>6 DEF IndexesMatchRows, Dates

(* A step of the double that publishes nothing.                            *)
DoubleCalls(g) ==
    \/ \E M \in SUBSET Candidates[g] :
          \E e \in [Expectations(g, M) -> Digests \cup {Absent}] : DoubleBegin(g, M, e)
    \/ \E s \in SlotsOf(g) \cup Candidates[g], d \in Digests : DoubleRegister(g, [t \in {s} |-> d])
    \/ \E s \in Slots : DoubleMarkUploaded(g, s)
    \/ \E C \in SUBSET members[g] : DoubleStageLatest(g, C)
    \/ \E S \in SUBSET SlotsOf(g) : DoubleSeal(g, S)
    \/ DoubleFailCalled(g)
    \/ /\ g \notin overtaken
       /\ \E R \in SUBSET RowsOf(g), S \in {{}, staged[g]}, status \in {gen[g], "failed"} :
             DoubleFail(g, R, S, status)

(* A fail of a generation that is committed by now.                        *)
LateFail(g) ==
    /\ g \in overtaken
    /\ \E R \in SUBSET RowsOf(g), S \in {{}, staged[g]}, status \in {gen[g], "failed"} :
          DoubleFail(g, R, S, status)

DoubleRest == DoubleRowsFit /\ FailsFit /\ ServedRowsFit

LEMMA CallKeeps ==
    ASSUME DoubleInv, NEW g \in Gens, DoubleCalls(g)
    PROVE  DoubleInv' /\ Unnoticed
<1> SUFFICES DoubleTypeOK' /\ MembersFit' /\ StagedFit' /\ DoubleRest' /\ Unnoticed
    BY IndexesStay DEF DoubleInv, DoubleRest
<1>0. TypeOK /\ SlotsOf(g) \subseteq Slots /\ Candidates[g] \subseteq Codes /\ Codes \subseteq Slots
    BY SlotsOfSubset, CandidatesAssumption DEF DoubleInv, DoubleTypeOK, Slots
<1>1. ASSUME NEW M \in SUBSET Candidates[g],
             NEW e \in [Expectations(g, M) -> Digests \cup {Absent}], DoubleBegin(g, M, e)
      PROVE  DoubleTypeOK' /\ MembersFit' /\ StagedFit' /\ DoubleRest' /\ Unnoticed
    <2>1. PriorGiven(g, M, e) \in [Slots -> Digests \cup {Absent}]
        BY DEF PriorGiven
    <2>2. TypeOK'
        BY <1>0, <1>1, <2>1 DEF DoubleBegin, Begin, TypeOK, GenStatus
    <2>3. DoubleRowsFit' /\ Unnoticed
        BY <1>0, <1>1 DEF DoubleBegin, Begin, TypeOK, DoubleInv, DoubleRowsFit, FailsFit, Unnoticed, UnchangedFails
    <2>5. FailsFit' /\ ServedRowsFit'
        BY <1>0, <1>1 DEF DoubleBegin, Begin, TypeOK, DoubleInv, FailsFit, ServedRowsFit, UnchangedIndexes,
           UnchangedFails
    <2>4. MembersFit' /\ StagedFit'
        BY <1>0, <1>1 DEF DoubleBegin, Begin, TypeOK, DoubleInv, MembersFit, StagedFit
    <2> QED BY <1>1, <2>2, <2>3, <2>4, <2>5
        DEF DoubleTypeOK, DoubleInv, DoubleBegin, UnchangedIndexes, UnchangedFails, Dates, DoubleRest
<1>2. ASSUME NEW s \in SlotsOf(g) \cup Candidates[g], NEW d \in Digests, DoubleRegister(g, [t \in {s} |-> d])
      PROVE  DoubleTypeOK' /\ MembersFit' /\ StagedFit' /\ DoubleRest' /\ Unnoticed
    <2> DEFINE D == [t \in {s} |-> d]
    <2>1. /\ gen[g] = "pending" /\ UnchangedIndexes /\ UnchangedFails
          /\ obj' = [obj EXCEPT ![g] = [t \in Slots |->
                       IF t = s /\ obj[g][t] = "none" THEN "pending" ELSE obj[g][t]]]
          /\ digest' = [digest EXCEPT ![g] = [t \in Slots |->
                       IF t = s /\ obj[g][t] = "none" THEN d ELSE digest[g][t]]]
          /\ UNCHANGED <<gen, members, prior, sealed, uploaded, purged, staged, latest>>
        BY <1>2 DEF DoubleRegister, RegisterPendingObjects
    <2>2. TypeOK'
        BY <1>0, <2>1 DEF TypeOK, ObjStatus
    <2>3. DoubleRowsFit' /\ Unnoticed
        BY <1>0, <2>1 DEF TypeOK, DoubleInv, DoubleRowsFit, FailsFit, Unnoticed, UnchangedFails
    <2>4. FailsFit' /\ ServedRowsFit'
        BY <1>0, <2>1 DEF TypeOK, DoubleInv, DoubleTypeOK, FailsFit, ServedRowsFit, UnchangedIndexes, UnchangedFails
    <2> QED BY <2>1, <2>2, <2>3, <2>4
        DEF DoubleTypeOK, DoubleInv, UnchangedIndexes, UnchangedFails, Dates, MembersFit, StagedFit, DoubleRest
<1>3. ASSUME NEW s \in Slots, DoubleMarkUploaded(g, s)
      PROVE  DoubleTypeOK' /\ MembersFit' /\ StagedFit' /\ DoubleRest' /\ Unnoticed
    BY <1>0, <1>3 DEF DoubleMarkUploaded, DoubleTypeOK, TypeOK, DoubleInv, UnchangedIndexes, Dates, MembersFit,
       StagedFit, DoubleRowsFit, Unnoticed, UnchangedFails, FailsFit, ServedRowsFit, DoubleRest
<1>4. ASSUME NEW C \in SUBSET members[g], DoubleStageLatest(g, C)
      PROVE  DoubleTypeOK' /\ MembersFit' /\ StagedFit' /\ DoubleRest' /\ Unnoticed
    BY <1>0, <1>4 DEF DoubleStageLatest, StageLatest, DoubleTypeOK, TypeOK, DoubleInv, UnchangedIndexes, Dates,
       MembersFit, StagedFit, DoubleRowsFit, Unnoticed, UnchangedFails, FailsFit, ServedRowsFit, DoubleRest
<1>5. ASSUME NEW S \in SUBSET SlotsOf(g), DoubleSeal(g, S)
      PROVE  DoubleTypeOK' /\ MembersFit' /\ StagedFit' /\ DoubleRest' /\ Unnoticed
    BY <1>0, <1>5 DEF DoubleSeal, SetObjectSetDigest, DoubleTypeOK, TypeOK, DoubleInv, UnchangedIndexes, Dates,
       MembersFit, StagedFit, DoubleRowsFit, Unnoticed, UnchangedFails, FailsFit, ServedRowsFit, DoubleRest
<1>6. ASSUME DoubleFailCalled(g)
      PROVE  DoubleTypeOK' /\ MembersFit' /\ StagedFit' /\ DoubleRest' /\ Unnoticed
    <2>1. UNCHANGED vars /\ UnchangedIndexes /\ overtaken' = overtaken
          /\ failing' = failing \cup {g} /\ gen[g] = "pending"
        BY <1>6 DEF DoubleFailCalled
    <2> QED BY <2>1 DEF vars, DoubleTypeOK, TypeOK, DoubleInv, UnchangedIndexes, Dates, MembersFit, StagedFit,
               DoubleRowsFit, Unnoticed, FailsFit, ServedRowsFit, DoubleRest
<1>7. ASSUME g \notin overtaken, NEW R \in SUBSET RowsOf(g), NEW S \in {{}, staged[g]},
             NEW status \in {gen[g], "failed"}, DoubleFail(g, R, S, status)
      PROVE  DoubleTypeOK' /\ MembersFit' /\ StagedFit' /\ DoubleRest' /\ Unnoticed
    <2>1. /\ gen' = [gen EXCEPT ![g] = "failed"]
          /\ obj' = [obj EXCEPT ![g] = [s \in Slots |-> IF s \in R THEN "orphan" ELSE obj[g][s]]]
          /\ staged' = [staged EXCEPT ![g] = S] /\ failing' = failing \ {g} /\ overtaken' = overtaken
          /\ UNCHANGED <<members, prior, sealed, digest, uploaded, purged, latest>> /\ UnchangedIndexes
          /\ gen[g] = "pending" /\ S \subseteq staged[g]
        BY <1>7 DEF DoubleFail, DoubleInv, FailsFit
    <2>2. TypeOK'
        BY <1>0, <2>1 DEF TypeOK, GenStatus, ObjStatus
    <2>3. DoubleRowsFit' /\ Unnoticed
        BY <1>0, <2>1 DEF TypeOK, DoubleInv, DoubleRowsFit, FailsFit, Unnoticed, RowsOf
    <2>4. MembersFit' /\ StagedFit'
        BY <1>0, <2>1 DEF TypeOK, DoubleInv, MembersFit, StagedFit
    <2>5. FailsFit' /\ ServedRowsFit'
        BY <1>0, <2>1 DEF TypeOK, DoubleInv, DoubleTypeOK, FailsFit, ServedRowsFit, UnchangedIndexes
    <2> QED BY <2>1, <2>2, <2>3, <2>4, <2>5 DEF DoubleTypeOK, DoubleInv, UnchangedIndexes, Dates, DoubleRest
<1> QED BY <1>1, <1>2, <1>3, <1>4, <1>5, <1>6, <1>7 DEF DoubleCalls

(* Such a fail takes rows of its generation out of service, and leaves     *)
(* what the indexes say of them.                                           *)
LEMMA LateFailKeeps ==
    ASSUME DoubleInv, NEW g \in Gens, LateFail(g)
    PROVE  DoubleInv'
<1>0. TypeOK /\ Codes \subseteq Slots /\ {"asof", "snapshot"} \subseteq Slots /\ g \in overtaken
    BY DEF DoubleInv, DoubleTypeOK, Slots, LateFail
<1>1. PICK R \in SUBSET RowsOf(g), S \in {{}, staged[g]}, status \in {gen[g], "failed"} :
            DoubleFail(g, R, S, status)
    BY DEF LateFail
<1>2. /\ gen' = [gen EXCEPT ![g] = status] /\ status \in {"committed", "failed"}
      /\ obj' = [obj EXCEPT ![g] = [s \in Slots |-> IF s \in R THEN "orphan" ELSE obj[g][s]]]
      /\ staged' = [staged EXCEPT ![g] = S] /\ failing' = failing \ {g} /\ overtaken' = overtaken
      /\ UNCHANGED <<members, prior, sealed, digest, uploaded, purged, latest>>
      /\ UNCHANGED <<servedSeries, servedSnapshot, servedBundle>> /\ S \subseteq staged[g]
    BY <1>0, <1>1 DEF DoubleFail, DoubleInv, FailsFit, UnchangedIndexes
<1>3. TypeOK'
    BY <1>0, <1>2 DEF TypeOK, GenStatus, ObjStatus
<1>4. DoubleTypeOK'
    BY <1>2, <1>3 DEF DoubleTypeOK, DoubleInv, Dates
<1>5. MembersFit' /\ StagedFit'
    BY <1>0, <1>2 DEF TypeOK, DoubleInv, MembersFit, StagedFit
<1>6. DoubleRowsFit'
    BY <1>0, <1>2 DEF TypeOK, DoubleInv, DoubleRowsFit, RowsOf
<1>7. FailsFit' /\ ServedRowsFit'
    BY <1>0, <1>2 DEF TypeOK, DoubleInv, DoubleTypeOK, FailsFit, ServedRowsFit
<1>8. \A s \in Slots : Holders(s)' \subseteq Holders(s) /\ Holders(s) \subseteq Holders(s)' \cup {g}
    BY <1>0, <1>2 DEF TypeOK, Holders
<1>9. IndexesMatchRows'
    <2>1. \A c \in Codes :
             Holders(c)' \cup ({servedSeries'[c]} \cap overtaken') = {servedSeries'[c]} \ {NoGen}
        <3> SUFFICES ASSUME NEW c \in Codes
                     PROVE  Holders(c)' \cup ({servedSeries[c]} \cap overtaken) = {servedSeries[c]} \ {NoGen}
            BY <1>2
        <3>1. Holders(c) \cup ({servedSeries[c]} \cap overtaken) = {servedSeries[c]} \ {NoGen}
            BY DEF DoubleInv, IndexesMatchRows
        <3> QED BY <1>0, <1>8, <3>1
    <2>2. ASSUME NEW d \in Dates
          PROVE  {h \in Holders("asof")' : TradeDate[h] = d} \cup ({servedBundle[d]} \cap overtaken)
                    = {servedBundle[d]} \ {NoGen}
        <3>1. {h \in Holders("asof") : TradeDate[h] = d} \cup ({servedBundle[d]} \cap overtaken)
                    = {servedBundle[d]} \ {NoGen}
            BY DEF DoubleInv, IndexesMatchRows
        <3> QED BY <1>0, <1>8, <3>1
    <2>3. ASSUME NEW d \in Dates
          PROVE  /\ \A h \in Holders("snapshot")' :
                      TradeDate[h] = d => digest[h]["snapshot"] = servedSnapshot[d]
                 /\ servedSnapshot[d] # Absent =>
                      \E h \in Holders("snapshot")' \cup overtaken : TradeDate[h] = d
        BY <1>0, <1>8 DEF DoubleInv, IndexesMatchRows
    <2> QED BY <1>2, <2>1, <2>2, <2>3 DEF IndexesMatchRows, Dates
<1> QED BY <1>4, <1>5, <1>6, <1>7, <1>9 DEF DoubleInv

(* A commit: the indexes are given its rows as the tables are.             *)
LEMMA CommitKeeps ==
    ASSUME DoubleInv, NEW g \in Gens, DoubleCommit(g)
    PROVE  DoubleInv'
<1>0. /\ TypeOK /\ PublishRows(g) /\ DoubleCommitAllowed(g)
      /\ RowsOf(g) = SlotsOf(g) /\ SeriesRows(g) = SlotsOf(g) \cap Codes
      /\ SlotsOf(g) \subseteq Slots /\ Codes \subseteq Slots /\ {"asof", "snapshot"} \subseteq Slots
      /\ TradeDate[g] \in Dates /\ NoGen # g
    BY DoubleCommitEffect, DoubleSlots, SlotsOfSubset, NoGenAssumption
    DEF DoubleCommit, DoubleInv, DoubleTypeOK, Slots, Dates
<1>a. overtaken' = overtaken \cup ({g} \cap failing) /\ failing' = failing /\ g \notin overtaken
    BY <1>0, NeverDuplicate DEF DoubleCommit, DoubleCommitAllowed, DoubleInv, FailsFit
<1>1. \A h \in Gens, s \in Slots : obj'[h][s] = "committed" <=>
         IF h = g THEN s \in SlotsOf(g)
         ELSE obj[h][s] = "committed" /\ ~(s \in SlotsOf(g) /\ SameCoordinate(s, g, h))
    BY DoubleCommitEffect
<1>2. TypeOK'
    <2>1. AfterDisplacing(g) \in [Gens -> [Slots -> ObjStatus]]
        BY <1>0 DEF AfterDisplacing, DisplacedStatus, TypeOK, ObjStatus
    <2>2. obj' \in [Gens -> [Slots -> ObjStatus]]
        BY <1>0, <2>1 DEF PublishRows, TypeOK, ObjStatus
    <2>3. latest' \in [Codes -> Gens \cup {NoGen}]
        BY <1>0 DEF PublishRows, TypeOK
    <2> QED BY <1>0, <2>2, <2>3 DEF PublishRows, TypeOK, GenStatus
<1>3. digest[g]["snapshot"] \in Digests \/ "snapshot" \notin RowsOf(g)
    BY DEF DoubleInv, DoubleRowsFit, RowsOf
<1>4. DoubleTypeOK'
    BY <1>0, <1>a, <1>2, <1>3 DEF DoubleTypeOK, DoubleInv, PublishRows, Dates
<1>5. MembersFit' /\ StagedFit'
    BY <1>0 DEF DoubleInv, PublishRows, TypeOK, MembersFit, StagedFit
<1>6. DoubleRowsFit'
    <2> SUFFICES ASSUME NEW h \in Gens, NEW s \in Slots
                 PROVE  /\ gen'[h] = "none" => obj'[h][s] = "none"
                        /\ gen'[h] = "pending" => obj'[h][s] \in {"none", "pending"}
                        /\ obj'[h][s] = "committed" => gen'[h] = "committed" \/ h \in overtaken'
                        /\ obj'[h][s] # "none" => digest'[h][s] \in Digests
        BY DEF DoubleRowsFit
    <2>1. digest' = digest /\ gen' = [gen EXCEPT ![g] = "committed"]
        BY <1>0 DEF PublishRows
    <2>2. CASE h = g
        <3>1. obj'[h][s] = IF s \in RowsOf(g) THEN "committed" ELSE obj[g][s]
            BY <1>0, <2>2 DEF PublishRows, AfterDisplacing
        <3> QED BY <1>0, <2>1, <2>2, <3>1 DEF DoubleInv, DoubleRowsFit, RowsOf, TypeOK
    <2>3. CASE h # g
        <3>1. obj'[h][s] = IF Displaced(g, h, s) THEN DisplacedStatus(g) ELSE obj[h][s]
            BY <1>0, <2>3 DEF PublishRows, AfterDisplacing
        <3>2. Displaced(g, h, s) => obj[h][s] = "committed"
            BY DEF Displaced
        <3> QED BY <1>0, <1>a, <2>1, <2>3, <3>1, <3>2 DEF DoubleInv, DoubleRowsFit, TypeOK, DisplacedStatus
    <2> QED BY <2>2, <2>3
<1>7. \A s \in Slots : obj[g][s] # "committed"
    BY <1>0, <1>a DEF DoubleInv, DoubleRowsFit, DoubleCommitAllowed
<1>b. FailsFit'
    BY <1>0, <1>a DEF DoubleInv, FailsFit, PublishRows, TypeOK
<1>c. ServedRowsFit'
    <2> SUFFICES ASSUME NEW c \in Codes, servedSeries'[c] # NoGen PROVE obj'[servedSeries'[c]][c] # "none"
        BY DEF ServedRowsFit
    <2>1. servedSeries'[c] = IF c \in SeriesRows(g) THEN g ELSE servedSeries[c]
        BY <1>0 DEF PublishRows
    <2>2. CASE c \in SeriesRows(g)
        BY <1>0, <1>1, <2>1, <2>2
    <2>3. CASE c \notin SeriesRows(g)
        <3>1. servedSeries[c] \in Gens /\ obj[servedSeries[c]][c] # "none"
            BY <2>1, <2>3 DEF DoubleInv, DoubleTypeOK, ServedRowsFit
        <3>2. \A h \in Gens : obj[h][c] # "none" => obj'[h][c] # "none"
            BY <1>0 DEF PublishRows, AfterDisplacing, DisplacedStatus, RowsOf
        <3> QED BY <2>1, <2>3, <3>1, <3>2
    <2> QED BY <2>2, <2>3
<1>8. IndexesMatchRows'
    <2>1. ASSUME NEW c \in Codes
          PROVE  Holders(c)' \cup ({servedSeries'[c]} \cap overtaken') = {servedSeries'[c]} \ {NoGen}
        <3>1. servedSeries'[c] = IF c \in SeriesRows(g) THEN g ELSE servedSeries[c]
            BY <1>0 DEF PublishRows
        <3>2. Holders(c) \cup ({servedSeries[c]} \cap overtaken) = {servedSeries[c]} \ {NoGen}
            BY DEF DoubleInv, IndexesMatchRows
        <3>3. \A h \in Gens : SameCoordinate(c, g, h)
            BY DEF SameCoordinate
        <3>4. Holders(c)' = IF c \in SlotsOf(g) THEN {g} ELSE Holders(c)
            BY <1>0, <1>1, <1>7, <3>3 DEF Holders
        <3>5. g \notin Holders(c)
            BY <1>0, <1>7 DEF Holders
        <3> QED BY <1>0, <1>a, <3>1, <3>2, <3>4, <3>5
    <2>2. ASSUME NEW d \in Dates
          PROVE  {h \in Holders("asof")' : TradeDate[h] = d} \cup ({servedBundle'[d]} \cap overtaken')
                    = {servedBundle'[d]} \ {NoGen}
        <3>1. servedBundle'[d] = IF "asof" \in RowsOf(g) /\ d = TradeDate[g] THEN g ELSE servedBundle[d]
            BY <1>0 DEF PublishRows, DoubleInv, DoubleTypeOK, Dates
        <3>2. {h \in Holders("asof") : TradeDate[h] = d} \cup ({servedBundle[d]} \cap overtaken)
                 = {servedBundle[d]} \ {NoGen}
            BY DEF DoubleInv, IndexesMatchRows
        <3>3. \A h \in Gens : SameCoordinate("asof", g, h) <=> TradeDate[g] = TradeDate[h]
            BY CodesAssumption DEF SameCoordinate
        <3>4. {h \in Holders("asof")' : TradeDate[h] = d} =
                 IF "asof" \in SlotsOf(g) /\ d = TradeDate[g] THEN {g}
                 ELSE {h \in Holders("asof") : TradeDate[h] = d}
            BY <1>0, <1>1, <1>7, <3>3 DEF Holders
        <3>5. g \notin Holders("asof")
            BY <1>0, <1>7 DEF Holders
        <3> QED BY <1>0, <1>a, <3>1, <3>2, <3>4, <3>5
    <2>3. ASSUME NEW d \in Dates
          PROVE  /\ \A h \in Holders("snapshot")' :
                      TradeDate[h] = d => digest'[h]["snapshot"] = servedSnapshot'[d]
                 /\ servedSnapshot'[d] # Absent =>
                      \E h \in Holders("snapshot")' \cup overtaken' : TradeDate[h] = d
        <3>1. servedSnapshot'[d] = IF "snapshot" \in RowsOf(g) /\ d = TradeDate[g]
                                   THEN digest[g]["snapshot"] ELSE servedSnapshot[d]
            BY <1>0 DEF PublishRows, DoubleInv, DoubleTypeOK, Dates
        <3>2. /\ \A h \in Holders("snapshot") :
                   TradeDate[h] = d => digest[h]["snapshot"] = servedSnapshot[d]
              /\ servedSnapshot[d] # Absent =>
                   \E h \in Holders("snapshot") \cup overtaken : TradeDate[h] = d
            BY DEF DoubleInv, IndexesMatchRows
        <3>3. \A h \in Gens : SameCoordinate("snapshot", g, h) <=> TradeDate[g] = TradeDate[h]
            BY CodesAssumption DEF SameCoordinate
        <3>4. digest' = digest
            BY <1>0 DEF PublishRows
        <3>5. {k \in Holders("snapshot")' : TradeDate[k] = d} =
                 IF "snapshot" \in RowsOf(g) /\ d = TradeDate[g] THEN {g}
                 ELSE {k \in Holders("snapshot") : TradeDate[k] = d}
            BY <1>0, <1>1, <1>7, <3>3 DEF Holders
        <3> QED BY <1>0, <1>a, <3>1, <3>2, <3>4, <3>5
    <2> QED BY <2>1, <2>2, <2>3 DEF IndexesMatchRows, Dates
<1> QED BY <1>4, <1>5, <1>6, <1>b, <1>c, <1>8 DEF DoubleInv

LEMMA DoubleStepIs ==
    ASSUME DoubleNext
    PROVE  \E g \in Gens : DoubleCalls(g) \/ LateFail(g) \/ DoubleCommit(g)
BY DEF DoubleNext, DoubleCalls, LateFail

LEMMA DoubleStepKeeps == DoubleInv /\ [DoubleNext]_doubleVars => DoubleInv'
<1> SUFFICES ASSUME DoubleInv, [DoubleNext]_doubleVars PROVE DoubleInv'
    OBVIOUS
<1>1. CASE DoubleNext
    BY <1>1, DoubleStepIs, CallKeeps, LateFailKeeps, CommitKeeps
<1>2. CASE UNCHANGED doubleVars
    <2>1. TypeOK' /\ MembersFit' /\ StagedFit' /\ DoubleRowsFit' /\ FailsFit' /\ ServedRowsFit'
        BY <1>2 DEF doubleVars, vars, DoubleInv, DoubleTypeOK, TypeOK, MembersFit, StagedFit, DoubleRowsFit,
           FailsFit, ServedRowsFit
    <2>2. Unnoticed
        BY <1>2 DEF doubleVars, vars, Unnoticed, UnchangedIndexes
    <2> QED BY <1>2, <2>1, <2>2, IndexesStay DEF doubleVars, DoubleInv, DoubleTypeOK, Dates
<1> QED BY <1>1, <1>2

(* The inductive invariant: the indexes and the rows agree, rows follow    *)
(* their generation, and what fail_generation finds pending and is not     *)
(* committed meanwhile is pending still.                                   *)
THEOREM DoubleInvariant == DoubleSpec => []DoubleInv
BY DoubleInitHolds, DoubleStepKeeps, PTL DEF DoubleSpec

-----------------------------------------------------------------------------
(* A commit publishes in the catalog.                                      *)
LEMMA DoubleCommitPublishes ==
    ASSUME DoubleInv, NEW g \in Gens, DoubleCommit(g)
    PROVE  DoubleCatalog!Next
<1>0. /\ PublishRows(g) /\ DoubleCommitAllowed(g) /\ gen[g] = "pending"
      /\ SlotsOf(g) \subseteq Slots /\ TypeOK
      /\ \A h \in Gens, s \in Slots : obj'[h][s] = "committed" <=>
           IF h = g THEN s \in SlotsOf(g)
           ELSE obj[h][s] = "committed" /\ ~(s \in SlotsOf(g) /\ SameCoordinate(s, g, h))
    <2>1. PublishRows(g) /\ DoubleCommitAllowed(g)
        BY NeverDuplicate DEF DoubleCommit
    <2>2. gen[g] = "pending" /\ TypeOK
        BY <2>1 DEF DoubleCommitAllowed, DoubleInv, DoubleTypeOK
    <2>3. SlotsOf(g) \subseteq Slots
        BY <2>1, DoubleSlots DEF RowsOf
    <2> QED BY <2>1, <2>2, <2>3, DoubleCommitEffect
<1> DEFINE W == SlotsOf(g)
           T == staged[g]
           taken == {l \in LiveObjects : l[2] \in W /\ SameCoordinate(l[2], g, l[1])}
<1>1. members[g] \in SUBSET Candidates[g] /\ T \subseteq members[g]
      /\ (Profile[g] # "snapshot_series_latest" => T = {})
    BY <1>0 DEF DoubleInv, MembersFit, StagedFit, DoubleCommitAllowed, StagingFits
<1>2. g \notin CommittedGens /\ CommittedGens' = CommittedGens \cup {g}
    BY <1>0 DEF CommittedGens, PublishRows, TypeOK
<1>3. \A l \in taken : l[2] \notin {"delta"}
    <2> SUFFICES ASSUME NEW l \in taken, l[2] = "delta" PROVE FALSE
        OBVIOUS
    <2>1. l[1] \in Gens /\ l[1] \in Holders("delta") /\ "delta" \in SlotsOf(g) /\ SameCoordinate("delta", g, l[1])
        BY DEF LiveObjects, Holders
    <2>2. l[1] # g
        BY <1>0, <2>1 DEF Holders, DoubleInv, DoubleRowsFit, FailsFit, Slots
    <2> QED BY <1>0, <2>1, <2>2, DoubleSlots DEF DoubleCommitAllowed, DeltaIsNew
<1>4. LiveObjects' = (LiveObjects \ taken) \cup ({g} \X W)
    <2> SUFFICES ASSUME NEW h \in Gens, NEW s \in Slots
                 PROVE  <<h, s>> \in LiveObjects' <=> <<h, s>> \in (LiveObjects \ taken) \cup ({g} \X W)
        BY <1>0 DEF LiveObjects
    <2>1. obj[g][s] # "committed"
        BY <1>0 DEF DoubleInv, DoubleRowsFit, FailsFit
    <2> QED BY <1>0, <2>1 DEF LiveObjects
<1>5. latest' = [c \in Codes |->
                    IF c \in T /\ (latest[c] # NoGen => [h \in Gens |-> 0][latest[c]] <= [h \in Gens |-> 0][g])
                    THEN g ELSE latest[c]]
    <2>1. \A c \in Codes : latest[c] # NoGen => [h \in Gens |-> 0][latest[c]] <= [h \in Gens |-> 0][g]
        BY <1>0 DEF TypeOK
    <2> QED BY <1>0, <2>1 DEF PublishRows
<1>6. DoubleCatalog!Publish(g, W, T)
    BY <1>2, <1>3, <1>4, <1>5 DEF DoubleCatalog!Publish, DoubleCatalog!TakenOver
<1>7. <<W, T>> \in {<<SlotsWith(g, M), U>> : M \in SUBSET Candidates[g],
                      U \in IF Profile[g] = "snapshot_series_latest" THEN SUBSET Candidates[g] ELSE {{}}}
    BY <1>1 DEF SlotsOf
<1> DEFINE offers == [h \in Gens |->
            {<<SlotsWith(h, M), U>> : M \in SUBSET Candidates[h],
                U \in IF Profile[h] = "snapshot_series_latest" THEN SUBSET Candidates[h] ELSE {{}}}]
<1>8. <<W, T>> \in offers[g]
    BY <1>7
<1>9. \E h \in Gens : \E o \in offers[h] : DoubleCatalog!Publish(h, o[1], o[2])
    <2> HIDE DEF offers, W, T
    <2>1. <<W, T>>[1] = W /\ <<W, T>>[2] = T
        OBVIOUS
    <2>2. DoubleCatalog!Publish(g, <<W, T>>[1], <<W, T>>[2])
        BY <1>6, <2>1
    <2> QED BY <2>2, <1>8
<1> QED BY <1>9 DEF DoubleCatalog!Next

LEMMA CatalogStep ==
    DoubleInv /\ [DoubleNext]_doubleVars =>
        [UNCHANGED doubleVars \/ overtaken # {} \/ DoubleCatalog!Next]_(DoubleCatalog!catalog)
<1> SUFFICES ASSUME DoubleInv, DoubleNext, overtaken = {}
             PROVE  DoubleCatalog!Next \/ UNCHANGED DoubleCatalog!catalog
    BY DEF doubleVars
<1>1. ASSUME NEW g \in Gens, DoubleCalls(g) PROVE UNCHANGED DoubleCatalog!catalog
    BY <1>1, CallKeeps DEF Unnoticed, DoubleCatalog!catalog, CommittedGens, LiveObjects
<1>2. PICK g \in Gens : DoubleCalls(g) \/ DoubleCommit(g)
    BY DoubleStepIs DEF LateFail
<1> QED BY <1>1, <1>2, DoubleCommitPublishes

(* What the tests of a writer see of the double is what the database would *)
(* let them see, but for the date guard of latest, and until a generation  *)
(* is committed that another thread is failing.                            *)
THEOREM DoubleIsACatalog == DoubleSpec => DoubleImplementsCatalog
<1>1. DoubleInit => DoubleCatalog!Init
    BY DEF DoubleInit, Init, DoubleCatalog!Init, CommittedGens, LiveObjects
<1> QED BY <1>1, CatalogStep, DoubleInvariant, PTL DEF DoubleSpec, DoubleImplementsCatalog

(* All that is claimed of the double, for any generations and codes, with  *)
(* fail_generation, which takes no lock, beside every other method.        *)
THEOREM DoubleIsSafe == DoubleSpec => DoubleSafe
<1>1. DoubleInv => DoubleTypeOK /\ IndexesMatchRows
    BY DEF DoubleInv
<1> QED BY <1>1, DoubleInvariant, DoubleIsACatalog, PTL DEF DoubleSafe

-----------------------------------------------------------------------------
(***************************************************************************)
(* The client's listing.  Before(c) counts the rows a query returns before *)
(* that of c.  It never shrinks, and every row between an offset and c is  *)
(* on a page of its own, so a page that is short ends the table.           *)
(***************************************************************************)

(* The rows before that of c.                                              *)
RowsBefore(c) == {b \in SeriesCodes : b < c /\ shelf[b] > 0}

LEMMA BeforeIsNat ==
    ASSUME NEW c \in SeriesCodes
    PROVE  IsFiniteSet(RowsBefore(c)) /\ Before(c) = Cardinality(RowsBefore(c)) /\ Before(c) \in Nat
<1>1. IsFiniteSet(SeriesCodes)
    <2>1. 1 \in Int /\ NSeries \in Int
        BY ClientAssumption
    <2> QED BY <2>1, FS_Interval DEF SeriesCodes
<1>2. IsFiniteSet(RowsBefore(c))
    BY <1>1, FS_Subset DEF RowsBefore
<1> QED BY <1>2, FS_CardinalityType DEF Before, RowsBefore

(* The rows are counted in the order of their codes.                       *)
LEMMA BeforeGrows ==
    ASSUME NEW b \in SeriesCodes, NEW c \in SeriesCodes, b < c, shelf[b] > 0
    PROVE  Before(b) < Before(c)
<1>1. b \in Int /\ c \in Int
    BY ClientAssumption DEF SeriesCodes
<1>2. RowsBefore(b) \subseteq RowsBefore(c)
    BY <1>1, ClientAssumption DEF RowsBefore, SeriesCodes
<1>3. b \in RowsBefore(c) /\ b \notin RowsBefore(b)
    BY <1>1 DEF RowsBefore
<1>4. /\ Cardinality(RowsBefore(b)) <= Cardinality(RowsBefore(c))
      /\ Cardinality(RowsBefore(c)) = Cardinality(RowsBefore(b)) => RowsBefore(c) = RowsBefore(b)
    BY <1>2, BeforeIsNat, FS_Subset
<1>5. Before(b) # Before(c)
    BY <1>3, <1>4, BeforeIsNat
<1> QED BY <1>4, <1>5, BeforeIsNat

(* Counting reaches every number below the last.                           *)
LEMMA BeforeReaches ==
    ASSUME NEW c \in SeriesCodes, NEW k \in Nat, k < Before(c)
    PROVE  \E b \in RowsBefore(c) : Before(b) = k
<1> DEFINE rows == RowsBefore(c)
           place == [b \in rows |-> Before(b)]
           places == 0..(Before(c) - 1)
<1>1. rows \subseteq SeriesCodes /\ \A b \in rows : b < c /\ shelf[b] > 0
    BY DEF RowsBefore
<1>2. \A b \in rows : Before(b) \in places
    BY <1>1, BeforeIsNat, BeforeGrows
<1>3. place \in [rows -> places]
    BY <1>2
<1>4. \A a, b \in rows : place[a] = place[b] => a = b
    <2> SUFFICES ASSUME NEW a \in rows, NEW b \in rows, Before(a) = Before(b) PROVE a = b
        OBVIOUS
    <2>1. a \in Int /\ b \in Int
        BY <1>1, ClientAssumption DEF SeriesCodes
    <2>2. ~(a < b) /\ ~(b < a)
        BY <1>1, BeforeGrows, BeforeIsNat
    <2> QED BY <2>1, <2>2
<1>5. place \in Injection(rows, places)
    <2> HIDE DEF places, rows
    <2>1. IsInjective(place)
        BY <1>4 DEF IsInjective
    <2> QED BY <1>3, <2>1 DEF Injection
<1>6. IsFiniteSet(places) /\ Cardinality(places) = Cardinality(rows)
    <2>1. 0 \in Int /\ Before(c) - 1 \in Int
        BY BeforeIsNat
    <2>2. /\ IsFiniteSet(places)
          /\ Cardinality(places) = IF 0 > Before(c) - 1 THEN 0 ELSE (Before(c) - 1) - 0 + 1
        BY <2>1, FS_Interval
    <2> QED BY <2>2, BeforeIsNat
<1>7. place \in Surjection(rows, places)
    BY <1>5, <1>6, FS_Injection
<1>8. k \in places
    BY BeforeIsNat
<1> HIDE DEF places, rows
<1>9. PICK b \in rows : place[b] = k
    BY <1>7, <1>8 DEF Surjection
<1> QED BY <1>9 DEF rows

(* A page before a row that is further on is full.                         *)
LEMMA FullBefore ==
    ASSUME NEW c \in SeriesCodes, NEW offset \in Nat, Before(c) >= offset + PageSize
    PROVE  Cardinality(PageAt(offset)) >= PageSize
<1> DEFINE page == PageAt(offset)
           places == offset..(offset + PageSize - 1)
           place == [b \in page |-> Before(b)]
<1>1. \A b \in page : b \in SeriesCodes /\ Before(b) \in places
    BY BeforeIsNat, ClientAssumption DEF PageAt
<1>2. ASSUME NEW k \in places PROVE \E b \in page : place[b] = k
    <2>1. k \in Nat /\ k < Before(c) /\ offset <= k /\ k < offset + PageSize
        BY BeforeIsNat, ClientAssumption
    <2>2. PICK b \in RowsBefore(c) : Before(b) = k
        BY <2>1, BeforeReaches
    <2>3. b \in page
        BY <2>1, <2>2 DEF PageAt, RowsBefore
    <2> QED BY <2>2, <2>3
<1>3. IsFiniteSet(page)
    <2>1. 1 \in Int /\ NSeries \in Int
        BY ClientAssumption
    <2>2. IsFiniteSet(SeriesCodes)
        BY <2>1, FS_Interval DEF SeriesCodes
    <2>3. page \in SUBSET SeriesCodes
        BY <1>1
    <2> QED BY <2>2, <2>3, FS_Subset
<1>4. place \in Surjection(page, places)
    <2>1. place \in [page -> places]
        BY <1>1
    <2> HIDE DEF page, places
    <2> QED BY <1>2, <2>1 DEF Surjection
<1>5. Cardinality(places) = PageSize
    <2>1. offset \in Int /\ offset + PageSize - 1 \in Int
        BY ClientAssumption
    <2>2. Cardinality(places) = IF offset > offset + PageSize - 1 THEN 0
                                ELSE (offset + PageSize - 1) - offset + 1
        BY <2>1, FS_Interval
    <2> QED BY <2>2, ClientAssumption
<1>6. Cardinality(places) <= Cardinality(page)
    BY <1>3, <1>4, FS_Surjection
<1>7. Cardinality(page) \in Nat
    BY <1>3, FS_CardinalityType
<1> QED BY <1>5, <1>6, <1>7, ClientAssumption

-----------------------------------------------------------------------------
(* What the pages read so far have brought: no key of a later or earlier   *)
(* time, and of the series there when the listing began at least those     *)
(* that come before the offset.                                            *)
ListingFits ==
    \A c \in SeriesCodes :
        /\ listing.since[c] <= shelf[c] /\ listing.out[c] <= shelf[c]
        /\ listing.out[c] # 0 => listing.out[c] >= listing.since[c]
        /\ (listing.pc = "paging" /\ listing.out[c] = 0 /\ listing.since[c] # 0) =>
              Before(c) >= listing.offset
        /\ (listing.pc = "done" /\ listing.out[c] = 0) => listing.since[c] = 0

(* A set of items made of the first chunks of the batch.                   *)
Whole(S) ==
    \A i \in Items, j \in S : (i - 1) \div ChunkSize <= (j - 1) \div ChunkSize => i \in S

(* What is sent before the next chunk has arrived.                         *)
Arrived(S) == \A i \in Items : i < batch.next => i \in S

(* The calls of a batch are made in order, each from chunk to chunk.       *)
BatchFits ==
    /\ \E k \in Nat : batch.next = k * ChunkSize + 1
    /\ Whole(server.registered) /\ Whole(server.uploaded) /\ Whole(server.staged)
    /\ batch.pc = "register" => Arrived(server.registered)
    /\ batch.pc = "mark" => Arrived(server.uploaded)
    /\ batch.pc = "stage" => Arrived(server.staged)
    /\ batch.pc \in {"mark", "stage", "commit", "done"} => server.registered = Items
    /\ batch.pc \in {"stage", "commit", "done"} => server.uploaded = Items
    /\ batch.pc \in {"commit", "done"} => server.staged = Items
    /\ batch.pc = "done" => server.status = "committed"

ClientInv == ClientTypeOK /\ ListingFits /\ BatchFits

LEMMA ClientInitHolds == ClientInit => ClientInv
<1> SUFFICES ASSUME ClientInit PROVE ClientInv
    OBVIOUS
<1>1. shelf \in [SeriesCodes -> 0..MaxVersions] /\ clientErrs \in 0..MaxErrors
    BY ClientAssumption DEF ClientInit
<1>2. ClientTypeOK
    BY <1>1, ClientAssumption DEF ClientInit, ClientTypeOK, GenerationRecord, BatchCall
<1>3. ListingFits
    BY <1>1 DEF ClientInit, ListingFits
<1>4. Whole({}) /\ batch.next = 0 * ChunkSize + 1 /\ \A i \in Items : ~(i < 1)
    BY ClientAssumption DEF Whole, ClientInit, Items
<1>5. BatchFits
    BY <1>4 DEF ClientInit, BatchFits, Arrived
<1> QED BY <1>2, <1>3, <1>5 DEF ClientInv

-----------------------------------------------------------------------------
(* The listing.                                                            *)

(* A commit of another generation takes no row away.                       *)
LEMMA BeforeStays ==
    ASSUME ClientTypeOK, NEW b \in SeriesCodes, OthersCommit(b)
    PROVE  \A c \in SeriesCodes : /\ shelf'[c] >= shelf[c]
                                   /\ Before(c)' >= Before(c) /\ Before(c)' \in Nat
<1>1. /\ shelf \in [SeriesCodes -> Nat]
      /\ \A c \in SeriesCodes : shelf'[c] = IF c = b THEN shelf[b] + 1 ELSE shelf[c]
    BY ClientAssumption DEF ClientTypeOK, OthersCommit
<1> SUFFICES ASSUME NEW c \in SeriesCodes
             PROVE  shelf'[c] >= shelf[c] /\ Before(c)' >= Before(c) /\ Before(c)' \in Nat
    OBVIOUS
<1>2. shelf'[c] >= shelf[c]
    BY <1>1
<1>3. RowsBefore(c) \subseteq RowsBefore(c)'
    BY <1>1 DEF RowsBefore
<1>4. IsFiniteSet(RowsBefore(c)') /\ Before(c)' = Cardinality(RowsBefore(c)')
    <2>1. 1 \in Int /\ NSeries \in Int
        BY ClientAssumption
    <2>2. IsFiniteSet(SeriesCodes)
        BY <2>1, FS_Interval DEF SeriesCodes
    <2>3. RowsBefore(c)' \in SUBSET SeriesCodes
        BY DEF RowsBefore
    <2>4. Before(c)' = Cardinality(RowsBefore(c)')
        BY DEF Before, RowsBefore
    <2> QED BY <2>2, <2>3, <2>4, FS_Subset
<1>5. Cardinality(RowsBefore(c)') \in Nat
    BY <1>4, FS_CardinalityType
<1> QED BY <1>2, <1>3, <1>4, <1>5, BeforeIsNat, FS_Subset

LEMMA ListingKeeps ==
    ASSUME ClientInv, StartListing \/ ReadPage \/ \E c \in SeriesCodes : OthersCommit(c)
    PROVE  ClientInv'
<1>1. /\ shelf \in [SeriesCodes -> Nat] /\ listing.out \in [SeriesCodes -> Nat]
      /\ listing.since \in [SeriesCodes -> Nat] /\ listing.offset \in Nat
      /\ \A c \in SeriesCodes : Before(c) \in Nat
    BY BeforeIsNat, ClientAssumption DEF ClientInv, ClientTypeOK
<1>2. CASE StartListing
    <2> DEFINE fresh == [pc |-> "paging", offset |-> 0,
                         out |-> [c \in SeriesCodes |-> 0], since |-> shelf]
    <2>1. listing' = fresh /\ UNCHANGED <<shelf, server, batch, clientErrs>>
        BY <1>2 DEF StartListing
    <2>2. ClientTypeOK'
        BY <2>1, ClientAssumption DEF ClientInv, ClientTypeOK
    <2>3. \A c \in SeriesCodes : Before(c)' = Before(c)
        BY <2>1 DEF Before
    <2>4. ListingFits'
        BY <1>1, <2>1, <2>3 DEF ListingFits
    <2>5. BatchFits'
        BY <2>1 DEF ClientInv, BatchFits, Whole, Arrived
    <2> QED BY <2>2, <2>4, <2>5 DEF ClientInv
<1>3. CASE ReadPage
    <2> DEFINE page == PageAt(listing.offset)
    <2>0. UNCHANGED <<shelf, server, batch, clientErrs>> /\ listing.pc = "paging"
        BY <1>3 DEF ReadPage
    <2>1. listing' = [pc |-> IF Cardinality(page) < PageSize THEN "done" ELSE "paging",
                      offset |-> listing.offset + PageSize,
                      out |-> [c \in SeriesCodes |-> IF c \in page THEN shelf[c] ELSE listing.out[c]],
                      since |-> listing.since]
        BY <1>3 DEF ReadPage, ClientInv, ClientTypeOK
    <2>2. ClientTypeOK'
        <3>1. [c \in SeriesCodes |-> IF c \in page THEN shelf[c] ELSE listing.out[c]]
                 \in [SeriesCodes -> 0..MaxVersions]
            BY DEF ClientInv, ClientTypeOK
        <3>2. listing.offset + PageSize \in Nat
            BY <1>1, ClientAssumption
        <3>3. listing.since \in [SeriesCodes -> 0..MaxVersions]
            BY DEF ClientInv, ClientTypeOK
        <3> QED BY <2>0, <2>1, <3>1, <3>2, <3>3 DEF ClientInv, ClientTypeOK
    <2>3. \A c \in SeriesCodes : Before(c)' = Before(c)
        BY <2>0 DEF Before
    <2>4. ASSUME NEW c \in SeriesCodes, listing.since[c] # 0, c \notin page, listing.out[c] = 0
          PROVE  Before(c) >= listing.offset + PageSize /\ Cardinality(page) >= PageSize
        <3>1. shelf[c] > 0 /\ Before(c) >= listing.offset
            BY <1>1, <2>0, <2>4 DEF ClientInv, ListingFits
        <3>2. Before(c) >= listing.offset + PageSize
            BY <1>1, <2>4, <3>1, ClientAssumption DEF PageAt
        <3> QED BY <1>1, <3>2, FullBefore
    <2>5. Cardinality(page) \in Nat
        <3>1. 1 \in Int /\ NSeries \in Int
            BY ClientAssumption
        <3>2. IsFiniteSet(SeriesCodes) /\ page \in SUBSET SeriesCodes
            BY <3>1, FS_Interval DEF SeriesCodes, PageAt
        <3> QED BY <3>2, FS_Subset, FS_CardinalityType
    <2>6. ASSUME NEW c \in SeriesCodes
          PROVE  /\ listing'.since[c] <= shelf'[c] /\ listing'.out[c] <= shelf'[c]
                 /\ listing'.out[c] # 0 => listing'.out[c] >= listing'.since[c]
                 /\ (listing'.pc = "paging" /\ listing'.out[c] = 0 /\ listing'.since[c] # 0) =>
                       Before(c)' >= listing'.offset
                 /\ (listing'.pc = "done" /\ listing'.out[c] = 0) => listing'.since[c] = 0
        <3>1. /\ listing'.since = listing.since /\ listing'.offset = listing.offset + PageSize
              /\ listing'.out[c] = IF c \in page THEN shelf[c] ELSE listing.out[c]
              /\ listing'.pc = IF Cardinality(page) < PageSize THEN "done" ELSE "paging"
            BY <2>1
        <3>2. c \in page => shelf[c] > 0
            BY DEF PageAt
        <3>3. /\ listing.since[c] <= shelf[c] /\ listing.out[c] <= shelf[c]
              /\ listing.out[c] # 0 => listing.out[c] >= listing.since[c]
            BY DEF ClientInv, ListingFits
        <3> HIDE DEF page
        <3> QED BY <1>1, <2>0, <2>3, <2>4, <2>5, <3>1, <3>2, <3>3, ClientAssumption
    <2>7. ListingFits'
        BY <2>6 DEF ListingFits
    <2>8. BatchFits'
        BY <2>0 DEF ClientInv, BatchFits, Whole, Arrived
    <2> QED BY <2>2, <2>7, <2>8 DEF ClientInv
<1>4. ASSUME NEW b \in SeriesCodes, OthersCommit(b) PROVE ClientInv'
    <2>1. UNCHANGED <<listing, server, batch, clientErrs>>
        BY <1>4 DEF OthersCommit
    <2>2. ClientTypeOK'
        <3>1. shelf' \in [SeriesCodes -> 0..MaxVersions]
            BY <1>4, ClientAssumption DEF OthersCommit, ClientInv, ClientTypeOK
        <3> QED BY <2>1, <3>1 DEF ClientInv, ClientTypeOK
    <2>3. \A c \in SeriesCodes : /\ shelf'[c] >= shelf[c] /\ Before(c)' >= Before(c)
                                 /\ shelf'[c] \in Nat /\ Before(c)' \in Nat
        <3>1. \A c \in SeriesCodes : shelf'[c] \in Nat
            BY <2>2, ClientAssumption DEF ClientTypeOK
        <3> QED BY <1>4, <3>1, BeforeStays DEF ClientInv
    <2>4. ListingFits'
        BY <1>1, <2>1, <2>3 DEF ClientInv, ListingFits
    <2>5. BatchFits'
        BY <2>1 DEF ClientInv, BatchFits, Whole, Arrived
    <2> QED BY <2>2, <2>4, <2>5 DEF ClientInv
<1> QED BY <1>2, <1>3, <1>4

-----------------------------------------------------------------------------
(* The batch.                                                              *)

(* Items up to the end of a chunk stay so when the chunks are counted.     *)
LEMMA ChunkEnds ==
    ASSUME NEW C \in Nat \ {0}, NEW k \in Nat, NEW i \in Nat, NEW j \in Nat,
           j < (k + 1) * C, i \div C <= j \div C
    PROVE  i < (k + 1) * C
<1>1. i \div C \in Int /\ (i \div C) * C <= i /\ i < (i \div C) * C + C
    OBVIOUS
<1>2. j \div C \in Int /\ (j \div C) * C <= j
    OBVIOUS
<1>3. j \div C < k + 1
    <2>1. CASE j \div C >= k + 1
        <3>1. (j \div C) * C >= (k + 1) * C
            BY <1>2, <2>1
        <3> QED BY <1>2, <3>1
    <2> QED BY <1>2, <2>1
<1>4. i \div C <= k
    BY <1>1, <1>2, <1>3
<1>5. (i \div C) * C <= k * C
    BY <1>1, <1>4
<1> QED BY <1>1, <1>5

LEMMA WholeGrows ==
    ASSUME BatchFits, NEW S \in SUBSET Items, Whole(S), Arrived(S)
    PROVE  Whole(S \cup Chunk) /\ S \cup Chunk \subseteq Items
<1>1. PICK k \in Nat : batch.next = k * ChunkSize + 1
    BY DEF BatchFits
<1>2. Chunk \subseteq Items /\ Items \subseteq Nat \ {0}
    BY ClientAssumption DEF Chunk, Items
<1> SUFFICES ASSUME NEW i \in Items, NEW j \in S \cup Chunk,
                    (i - 1) \div ChunkSize <= (j - 1) \div ChunkSize
             PROVE  i \in S \cup Chunk
    BY <1>2 DEF Whole
<1>3. CASE j \in S
    BY <1>3 DEF Whole
<1>4. CASE j \in Chunk
    <2>0. i - 1 \in Nat /\ j - 1 \in Nat /\ i \in Nat /\ j \in Nat /\ ChunkSize \in Nat \ {0} /\ k \in Nat
        BY <1>2, ClientAssumption
    <2>1. k * ChunkSize \in Nat /\ (k + 1) * ChunkSize = k * ChunkSize + ChunkSize
        BY ClientAssumption
    <2>2. j < batch.next + ChunkSize
        BY <1>4 DEF Chunk
    <2>3. j - 1 < (k + 1) * ChunkSize
        BY ONLY <2>0, <2>1, <2>2, <1>1
    <2>4. i - 1 < (k + 1) * ChunkSize
        BY ONLY <2>0, <2>3, ChunkEnds, (i - 1) \div ChunkSize <= (j - 1) \div ChunkSize
    <2>5. i < batch.next + ChunkSize
        BY ONLY <2>0, <2>1, <2>4, <1>1
    <2>6. CASE i < batch.next
        BY <2>6 DEF Arrived
    <2>7. CASE i >= batch.next
        BY <2>5, <2>7 DEF Chunk
    <2>8. batch.next \in Nat
        BY <1>1, <2>1
    <2> QED BY <2>0, <2>6, <2>7, <2>8
<1> QED BY <1>3, <1>4

(* What one chunk does to the rows.                                        *)
LEMMA AppliedIs ==
    ASSUME ClientTypeOK, NEW step \in {"register", "mark", "stage", "commit"}
    PROVE  Applied(step) =
              [status |-> IF step = "commit" THEN "committed" ELSE server.status,
               registered |-> IF step = "register" THEN server.registered \cup Chunk ELSE server.registered,
               uploaded |-> IF step = "mark" THEN server.uploaded \cup Chunk ELSE server.uploaded,
               staged |-> IF step = "stage" THEN server.staged \cup Chunk ELSE server.staged]
BY DEF ClientTypeOK, GenerationRecord, Applied

(* The rows stay well typed and whole, whatever becomes of the answer.     *)
LEMMA RowsStayWhole ==
    ASSUME ClientInv, NEW step \in {"register", "mark", "stage", "commit"}, batch.pc = step,
           server' = IF server.status = "pending" THEN Applied(step) ELSE server
    PROVE  /\ server' \in GenerationRecord
           /\ Whole(server'.registered) /\ Whole(server'.uploaded) /\ Whole(server'.staged)
           /\ server.registered \subseteq server'.registered
           /\ server.uploaded \subseteq server'.uploaded
           /\ server.staged \subseteq server'.staged
<1>1. server \in GenerationRecord /\ BatchFits /\ ClientTypeOK
    BY DEF ClientInv, ClientTypeOK
<1>2. /\ server.registered \in SUBSET Items /\ server.uploaded \in SUBSET Items
      /\ server.staged \in SUBSET Items
      /\ Whole(server.registered) /\ Whole(server.uploaded) /\ Whole(server.staged)
    BY <1>1 DEF GenerationRecord, BatchFits
<1>3. /\ step = "register" => Whole(server.registered \cup Chunk) /\ server.registered \cup Chunk \subseteq Items
      /\ step = "mark" => Whole(server.uploaded \cup Chunk) /\ server.uploaded \cup Chunk \subseteq Items
      /\ step = "stage" => Whole(server.staged \cup Chunk) /\ server.staged \cup Chunk \subseteq Items
    BY <1>1, <1>2, WholeGrows DEF BatchFits
<1>4. CASE server.status = "pending"
    <2>0. server' =
              [status |-> IF step = "commit" THEN "committed" ELSE server.status,
               registered |-> IF step = "register" THEN server.registered \cup Chunk ELSE server.registered,
               uploaded |-> IF step = "mark" THEN server.uploaded \cup Chunk ELSE server.uploaded,
               staged |-> IF step = "stage" THEN server.staged \cup Chunk ELSE server.staged]
        BY <1>1, <1>4, AppliedIs
    <2>1. /\ server'.registered = IF step = "register" THEN server.registered \cup Chunk ELSE server.registered
          /\ server'.uploaded = IF step = "mark" THEN server.uploaded \cup Chunk ELSE server.uploaded
          /\ server'.staged = IF step = "stage" THEN server.staged \cup Chunk ELSE server.staged
        BY ONLY <2>0
    <2>2. server' \in GenerationRecord
        BY <1>1, <1>2, <1>3, <2>0 DEF GenerationRecord
    <2> QED BY <1>2, <1>3, <2>1, <2>2
<1>5. CASE server.status # "pending"
    BY <1>1, <1>2, <1>5
<1> QED BY <1>4, <1>5

(* The call after a chunk.                                                 *)
NextCall(step) == CASE step = "register" -> "mark" [] step = "mark" -> "stage"
                    [] step = "stage" -> "commit" [] OTHER -> "done"

LEMMA AfterChunkIs ==
    ASSUME ClientInv, NEW step \in {"register", "mark", "stage", "commit"}, batch.pc = step
    PROVE  IF step # "commit" /\ batch.next + ChunkSize <= NItems
           THEN /\ AfterChunk(step) = [pc |-> step, next |-> batch.next + ChunkSize, ids |-> batch.ids]
                /\ \E k \in Nat : batch.next + ChunkSize = k * ChunkSize + 1
                /\ \A i \in Items : i < batch.next + ChunkSize => i < batch.next \/ i \in Chunk
           ELSE /\ AfterChunk(step) = [pc |-> NextCall(step), next |-> 1, ids |-> batch.ids]
                /\ step # "commit" => \A i \in Items : i < batch.next \/ i \in Chunk
<1>1. batch \in BatchCall /\ batch.next \in Nat
    BY DEF ClientInv, ClientTypeOK, BatchCall
<1>2. Items \subseteq Nat /\ ChunkSize \in Nat /\ NItems \in Nat /\ \A i \in Items : i <= NItems
    BY ClientAssumption DEF Items
<1>3. CASE step # "commit" /\ batch.next + ChunkSize <= NItems
    <2>1. AfterChunk(step) = [pc |-> step, next |-> batch.next + ChunkSize, ids |-> batch.ids]
        BY <1>1, <1>3 DEF AfterChunk, BatchCall
    <2>2. PICK k \in Nat : batch.next = k * ChunkSize + 1
        BY DEF ClientInv, BatchFits
    <2>3. k + 1 \in Nat /\ batch.next + ChunkSize = (k + 1) * ChunkSize + 1
        BY <1>2, <2>2
    <2>4. \A i \in Items : i < batch.next + ChunkSize => i < batch.next \/ i \in Chunk
        BY <1>1, <1>2 DEF Chunk
    <2> QED BY <1>3, <2>1, <2>3, <2>4
<1>4. CASE ~(step # "commit" /\ batch.next + ChunkSize <= NItems)
    <2>1. AfterChunk(step) = [pc |-> NextCall(step), next |-> 1, ids |-> batch.ids]
        BY <1>1, <1>4 DEF AfterChunk, BatchCall, NextCall
    <2>2. step # "commit" => \A i \in Items : i < batch.next \/ i \in Chunk
        BY <1>1, <1>2, <1>4 DEF Chunk
    <2> QED BY <1>4, <2>1, <2>2
<1> QED BY <1>3, <1>4

LEMMA SendKeeps ==
    ASSUME ClientInv, NEW step \in {"register", "mark", "stage", "commit"}, SendChunk(step)
    PROVE  ClientInv'
<1> DEFINE goesOn == step # "commit" /\ batch.next + ChunkSize <= NItems
<1>0. /\ batch.pc = step /\ UNCHANGED <<shelf, listing, clientErrs>> /\ Accepts(step)
      /\ server' = IF server.status = "pending" THEN Applied(step) ELSE server
    BY DEF SendChunk, Calling
<1>1. batch \in BatchCall /\ batch.next \in Nat /\ server \in GenerationRecord /\ ClientTypeOK
    BY DEF ClientInv, ClientTypeOK, BatchCall
<1>2. Chunk \subseteq Items
    BY DEF Chunk
<1>3. /\ server' \in GenerationRecord
      /\ Whole(server'.registered) /\ Whole(server'.uploaded) /\ Whole(server'.staged)
      /\ server.registered \subseteq server'.registered
      /\ server.uploaded \subseteq server'.uploaded
      /\ server.staged \subseteq server'.staged
    BY <1>0, RowsStayWhole
<1>4. /\ AfterChunk(step) \in BatchCall
      /\ AfterChunk(step).next = IF goesOn THEN batch.next + ChunkSize ELSE 1
      /\ AfterChunk(step).pc = IF goesOn THEN step ELSE NextCall(step)
    <2>1. CASE goesOn
        <3>1. batch.next + ChunkSize \in Nat /\ step \in {"register", "mark", "stage", "commit", "done"}
            BY <1>1, ClientAssumption
        <3>2. batch.ids \in SUBSET Items
            BY <1>1 DEF BatchCall
        <3> HIDE DEF goesOn
        <3>3. AfterChunk(step) = [pc |-> step, next |-> batch.next + ChunkSize, ids |-> batch.ids]
            BY <1>0, <2>1, AfterChunkIs DEF goesOn
        <3> QED BY <2>1, <3>1, <3>2, <3>3 DEF BatchCall
    <2>2. CASE ~goesOn
        <3>1. NextCall(step) \in {"register", "mark", "stage", "commit", "done"}
            BY DEF NextCall
        <3>2. batch.ids \in SUBSET Items
            BY <1>1 DEF BatchCall
        <3> HIDE DEF goesOn
        <3>3. AfterChunk(step) = [pc |-> NextCall(step), next |-> 1, ids |-> batch.ids]
            BY <1>0, <2>2, AfterChunkIs DEF goesOn
        <3> QED BY <2>2, <3>1, <3>2, <3>3 DEF BatchCall
    <2> QED BY <2>1, <2>2
<1>5. /\ batch' \in BatchCall
      /\ batch'.next = IF goesOn THEN batch.next + ChunkSize ELSE 1
      /\ batch'.pc = IF goesOn THEN step ELSE NextCall(step)
    <2> HIDE DEF goesOn
    <2>1. batch' = [AfterChunk(step) EXCEPT
                       !.ids = IF step = "register" THEN @ \cup Chunk ELSE @]
        BY DEF SendChunk
    <2> QED BY <1>2, <1>4, <2>1 DEF BatchCall
<1>6. ClientTypeOK'
    BY <1>0, <1>1, <1>3, <1>5 DEF ClientTypeOK
<1>7. ListingFits'
    BY <1>0 DEF ClientInv, ListingFits, Before
<1>8. /\ goesOn => \E k \in Nat : batch.next + ChunkSize = k * ChunkSize + 1
      /\ goesOn => \A i \in Items : i < batch.next + ChunkSize => i < batch.next \/ i \in Chunk
      /\ (~goesOn /\ step # "commit") => \A i \in Items : i < batch.next \/ i \in Chunk
    BY <1>0, AfterChunkIs
<1>9. \E k \in Nat : batch'.next = k * ChunkSize + 1
    <2>1. 1 = 0 * ChunkSize + 1
        BY ClientAssumption
    <2> HIDE DEF goesOn
    <2> QED BY <1>5, <1>8, <2>1
<1>10. \A i \in Items : ~(i < 1)
    BY ClientAssumption DEF Items
<1>11. Whole(server.registered)' /\ Whole(server.uploaded)' /\ Whole(server.staged)'
    BY <1>3 DEF Whole
<1>12. CASE step = "register"
    <2>1. server.status = "pending" /\ Arrived(server.registered) /\ server'.registered = server.registered \cup Chunk
        BY <1>0, <1>1, <1>12, AppliedIs DEF Accepts, ClientInv, BatchFits
    <2>2. server'.registered \subseteq Items
        BY <1>3 DEF GenerationRecord
    <2>3. CASE goesOn
        <3>1. \A i \in Items : i < batch'.next => i \in server'.registered
            BY <1>5, <1>8, <2>1, <2>3 DEF Arrived
        <3>2. batch'.pc = "register"
            BY <1>5, <1>12, <2>3
        <3>3. Arrived(server.registered)'
            BY <3>1 DEF Arrived
        <3> QED BY <1>6, <1>7, <1>9, <1>11, <3>2, <3>3 DEF ClientInv, BatchFits
    <2>4. CASE ~goesOn
        <3>1. server'.registered = Items
            BY <1>8, <1>12, <2>1, <2>2, <2>4 DEF Arrived
        <3>2. batch'.pc = "mark" /\ batch'.next = 1
            BY <1>5, <1>12, <2>4 DEF NextCall
        <3>3. Arrived(server.uploaded)'
            BY <1>10, <3>2 DEF Arrived
        <3> QED BY <1>6, <1>7, <1>9, <1>11, <3>1, <3>2, <3>3 DEF ClientInv, BatchFits
    <2> QED BY <2>3, <2>4
<1>13. CASE step = "mark"
    <2>1. /\ server.status = "pending" /\ Arrived(server.uploaded) /\ server.registered = Items
          /\ server'.uploaded = server.uploaded \cup Chunk
        BY <1>0, <1>1, <1>13, AppliedIs DEF Accepts, ClientInv, BatchFits
    <2>2. server'.uploaded \subseteq Items /\ server'.registered = Items
        BY <1>3, <2>1 DEF GenerationRecord
    <2>3. CASE goesOn
        <3>1. \A i \in Items : i < batch'.next => i \in server'.uploaded
            BY <1>5, <1>8, <2>1, <2>3 DEF Arrived
        <3>2. batch'.pc = "mark"
            BY <1>5, <1>13, <2>3
        <3>3. Arrived(server.uploaded)'
            BY <3>1 DEF Arrived
        <3> QED BY <1>6, <1>7, <1>9, <1>11, <2>2, <3>2, <3>3 DEF ClientInv, BatchFits
    <2>4. CASE ~goesOn
        <3>1. server'.uploaded = Items
            BY <1>8, <1>13, <2>1, <2>2, <2>4 DEF Arrived
        <3>2. batch'.pc = "stage" /\ batch'.next = 1
            BY <1>5, <1>13, <2>4 DEF NextCall
        <3>3. Arrived(server.staged)'
            BY <1>10, <3>2 DEF Arrived
        <3> QED BY <1>6, <1>7, <1>9, <1>11, <2>2, <3>1, <3>2, <3>3 DEF ClientInv, BatchFits
    <2> QED BY <2>3, <2>4
<1>14. CASE step = "stage"
    <2>1. /\ server.status = "pending" /\ Arrived(server.staged)
          /\ server.registered = Items /\ server.uploaded = Items
          /\ server'.staged = server.staged \cup Chunk
        BY <1>0, <1>1, <1>14, AppliedIs DEF Accepts, ClientInv, BatchFits
    <2>2. server'.staged \subseteq Items /\ server'.registered = Items /\ server'.uploaded = Items
        BY <1>3, <2>1 DEF GenerationRecord
    <2>3. CASE goesOn
        <3>1. \A i \in Items : i < batch'.next => i \in server'.staged
            BY <1>5, <1>8, <2>1, <2>3 DEF Arrived
        <3>2. batch'.pc = "stage"
            BY <1>5, <1>14, <2>3
        <3>3. Arrived(server.staged)'
            BY <3>1 DEF Arrived
        <3> QED BY <1>6, <1>7, <1>9, <1>11, <2>2, <3>2, <3>3 DEF ClientInv, BatchFits
    <2>4. CASE ~goesOn
        <3>1. server'.staged = Items
            BY <1>8, <1>14, <2>1, <2>2, <2>4 DEF Arrived
        <3>2. batch'.pc = "commit"
            BY <1>5, <1>14, <2>4 DEF NextCall
        <3> QED BY <1>6, <1>7, <1>9, <1>11, <2>2, <3>1, <3>2 DEF ClientInv, BatchFits
    <2> QED BY <2>3, <2>4
<1>15. CASE step = "commit"
    <2>1. server'.status = "committed"
        BY <1>0, <1>1, <1>15, AppliedIs DEF Accepts
    <2>2. server'.registered = Items /\ server'.uploaded = Items /\ server'.staged = Items
        BY <1>0, <1>3, <1>15 DEF GenerationRecord, ClientInv, BatchFits
    <2>3. batch'.pc = "done"
        BY <1>5, <1>15 DEF NextCall
    <2> QED BY <1>6, <1>7, <1>9, <1>11, <2>1, <2>2, <2>3 DEF ClientInv, BatchFits
<1> QED BY <1>12, <1>13, <1>14, <1>15

(* A call refused or without an answer, and what follows an error.         *)
LEMMA StopsKeep ==
    ASSUME ClientInv,
           \/ \E step \in {"register", "mark", "stage", "commit"} :
                 Refused(step) \/ \E ran \in BOOLEAN : NoAnswer(step, ran)
           \/ RunAgain
           \/ GiveUp
    PROVE  ClientInv'
<1>1. batch \in BatchCall /\ server \in GenerationRecord /\ ClientTypeOK /\ clientErrs \in Nat
    BY ClientAssumption DEF ClientInv, ClientTypeOK
<1>2. Whole(server.registered) /\ Whole(server.uploaded) /\ Whole(server.staged)
    BY DEF ClientInv, BatchFits
<1>3. ASSUME NEW step \in {"register", "mark", "stage", "commit"}, Refused(step) PROVE ClientInv'
    <2>1. UNCHANGED <<shelf, listing, server, clientErrs>> /\ batch' = [batch EXCEPT !.pc = "conflict"]
        BY <1>3 DEF Refused, Calling
    <2>2. batch' \in BatchCall /\ batch'.pc = "conflict" /\ batch'.next = batch.next
        BY <1>1, <2>1 DEF BatchCall
    <2> QED BY <1>1, <1>2, <2>1, <2>2 DEF ClientInv, ClientTypeOK, ListingFits, BatchFits, Whole, Before
<1>4. ASSUME NEW step \in {"register", "mark", "stage", "commit"}, NEW ran \in BOOLEAN, NoAnswer(step, ran)
      PROVE  ClientInv'
    <2>1. /\ UNCHANGED <<shelf, listing>> /\ batch' = [batch EXCEPT !.pc = "error"]
          /\ batch.pc = step /\ clientErrs < MaxErrors /\ clientErrs' = clientErrs + 1
          /\ \/ server' = server
             \/ server' = IF server.status = "pending" THEN Applied(step) ELSE server
        BY <1>4 DEF NoAnswer, Calling
    <2>2. batch' \in BatchCall /\ batch'.pc = "error" /\ batch'.next = batch.next
        BY <1>1, <2>1 DEF BatchCall
    <2>3. /\ server' \in GenerationRecord
          /\ Whole(server'.registered) /\ Whole(server'.uploaded) /\ Whole(server'.staged)
        BY <1>1, <1>2, <2>1, RowsStayWhole
    <2>4. clientErrs' \in 0..MaxErrors
        BY <1>1, <2>1, ClientAssumption
    <2>5. ClientTypeOK'
        BY <1>1, <2>1, <2>2, <2>3, <2>4 DEF ClientTypeOK
    <2>6. ListingFits'
        BY <2>1 DEF ClientInv, ListingFits, Before
    <2>7. BatchFits'
        BY <2>2, <2>3 DEF ClientInv, BatchFits, Whole
    <2> QED BY <2>5, <2>6, <2>7 DEF ClientInv
<1>5. CASE RunAgain
    <2>1. UNCHANGED <<shelf, listing, server, clientErrs>>
        BY <1>5 DEF RunAgain
    <2>2. /\ batch' \in BatchCall
          /\ \/ batch'.pc = "conflict" /\ batch'.next = batch.next
             \/ batch'.pc = "register" /\ batch'.next = 1
        BY <1>1, <1>5 DEF RunAgain, BatchCall
    <2>3. \E k \in Nat : batch'.next = k * ChunkSize + 1
        <3>1. 1 = 0 * ChunkSize + 1
            BY ClientAssumption
        <3> QED BY <2>2, <3>1 DEF ClientInv, BatchFits
    <2>4. batch'.pc = "register" => \A i \in Items : ~(i < batch'.next)
        BY <2>2, ClientAssumption DEF Items
    <2>5. BatchFits'
        BY <1>2, <2>1, <2>2, <2>3, <2>4 DEF BatchFits, Whole, Arrived
    <2> QED BY <1>1, <2>1, <2>2, <2>5 DEF ClientInv, ClientTypeOK, ListingFits, Before
<1>6. CASE GiveUp
    <2>1. /\ UNCHANGED <<shelf, listing, batch, clientErrs>> /\ batch.pc = "error"
          /\ server' = [server EXCEPT !.status = "failed"]
        BY <1>6 DEF GiveUp
    <2>2. /\ server' \in GenerationRecord /\ server'.registered = server.registered
          /\ server'.uploaded = server.uploaded /\ server'.staged = server.staged
        BY <1>1, <2>1 DEF GenerationRecord
    <2>3. BatchFits'
        BY <1>2, <2>1, <2>2 DEF ClientInv, BatchFits, Whole
    <2> QED BY <1>1, <2>1, <2>2, <2>3 DEF ClientInv, ClientTypeOK, ListingFits, Before
<1> QED BY <1>3, <1>4, <1>5, <1>6

LEMMA ClientStepKeeps == ClientInv /\ [ClientNext]_clientVars => ClientInv'
<1> SUFFICES ASSUME ClientInv, [ClientNext]_clientVars PROVE ClientInv'
    OBVIOUS
<1>1. {Steps[i] : i \in DOMAIN Steps} = {"register", "mark", "stage", "commit"}
    BY DEF Steps
<1>2. CASE ClientNext
    <2>1. \/ StartListing \/ ReadPage \/ (\E c \in SeriesCodes : OthersCommit(c))
          \/ \E step \in {"register", "mark", "stage", "commit"} : SendChunk(step)
          \/ \E step \in {"register", "mark", "stage", "commit"} :
                 Refused(step) \/ \E ran \in BOOLEAN : NoAnswer(step, ran)
          \/ RunAgain
          \/ GiveUp
        BY <1>1, <1>2 DEF ClientNext
    <2> QED BY <2>1, ListingKeeps, SendKeeps, StopsKeep
<1>3. CASE UNCHANGED clientVars
    BY <1>3 DEF clientVars, ClientInv, ClientTypeOK, ListingFits, BatchFits, Whole, Arrived, Before
<1> QED BY <1>2, <1>3

(* A listing read page by page beside other commits misses nothing that    *)
(* was there from its start, and a batch arrives whole or as its first     *)
(* chunks, for any sizes and any number of lost answers.                   *)
THEOREM ClientIsSafe == ClientSpec => []ClientSafe
<1>1. ClientInv => ClientSafe
    <2> SUFFICES ASSUME ClientInv PROVE ClientSafe
        OBVIOUS
    <2>1. ListingIsCurrent
        BY DEF ListingIsCurrent, ClientInv, ListingFits
    <2>2. BatchIsWhole
        BY DEF BatchIsWhole, ClientInv, BatchFits, Whole
    <2> QED BY <2>1, <2>2 DEF ClientSafe, ClientInv
<1> QED BY <1>1, ClientInitHolds, ClientStepKeeps, PTL DEF ClientSpec
=============================================================================
