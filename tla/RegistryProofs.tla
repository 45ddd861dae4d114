--------------------------- MODULE RegistryProofs ---------------------------
(***************************************************************************)
(* Proofs about the two modules that decide who may use what: MetricSet,   *)
(* the registry of metric sets, and Grants, the minting of download URLs.  *)
(* What the runs check of two or three actors holds for any number of      *)
(* them.  Each inductive invariant adds what an actor knows from its       *)
(* earlier calls, and the reason why it is still so.                       *)
(***************************************************************************)
EXTENDS MetricSet, Grants, WellFoundedInduction, FiniteSetTheorems, TLAPS

(***************************************************************************)
(* The registry: its state only ever moves so that what an actor has seen  *)
(* of it stays true enough.                                                *)
(***************************************************************************)

(* An operator that has sent its call named a set.                         *)
OperatorsNameSets == \A o \in Operators : operator[o].pc # "idle" => operator[o].new \in Sets

(* A seeder has yet to insert at least what its set misses; one that goes  *)
(* on to promote its set has seen it complete.                             *)
SeederFits(r) ==
    /\ r.pc # "idle" => r.set \in Sets
    /\ r.pc = "set" => r.todo = Ordinals
    /\ r.pc = "fill" => r.todo # {} /\ Ordinals \ memberRows[r.set] \subseteq r.todo
    /\ r.pc = "shadow" => memberRows[r.set] = Ordinals
SeederOnCourse(e) == SeederFits(seeder[e])

MayBe(w) == IF writer[w].mode = "backfill" \/ writer[w].stage = "4.5b"
            THEN {"shadow", "active", "retired"} ELSE {"active", "retired"}

(* What a writer has verified so far is still so.                          *)
WriterOnCourse(w) ==
    /\ writer[w].pc \in {"row", "bind", "active", "isActive", "write"} => writer[w].set \in Sets
    /\ writer[w].pc \in {"bind", "active", "isActive", "write"} => lifecycle[writer[w].set] \in MayBe(w)
    /\ writer[w].pc \in {"active", "isActive", "write"} => writer[w].yaml = writer[w].set

MInv ==
    /\ MetricTypeOK /\ OperatorsNameSets
    /\ OneActive /\ PromotedIsWhole
    /\ \A e \in Seeders : SeederOnCourse(e)
    /\ \A w \in Writers : WriterOnCourse(w)

(* The way the registry moves: members are added, and a set that was       *)
(* promoted, or made active, has been so for good.                         *)
Grows ==
    /\ \A s \in Sets : memberRows[s] \subseteq memberRows'[s] /\ memberRows'[s] \subseteq Ordinals
    /\ \A s \in Sets : lifecycle[s] \in {"shadow", "active", "retired"}
                         => lifecycle'[s] \in {"shadow", "active", "retired"}
    /\ \A s \in Sets : lifecycle[s] \in {"active", "retired"} => lifecycle'[s] \in {"active", "retired"}

(* There is a next member as long as one is to be inserted.                *)
LEMMA LeastOrdinal ==
    ASSUME NEW T \in SUBSET Ordinals, T # {}
    PROVE  \E i \in T : \A j \in T : i <= j
<1>1. T \subseteq Nat
    BY MetricAssumption
<1>2. PICK i \in T : \A j \in T : <<j, i>> \notin OpToRel(<, Nat)
    BY <1>1, NatLessThanWellFounded, WFMin
<1>3. \A j \in T : ~(j < i)
    BY <1>1, <1>2 DEF OpToRel
<1> QED BY <1>1, <1>3

-----------------------------------------------------------------------------
(* Actors that take no step are not thrown off course by one that does.    *)
LEMMA SeedersStay ==
    ASSUME MInv, Grows, NEW e \in Seeders, seeder'[e] = seeder[e]
    PROVE  SeederOnCourse(e)'
<1> DEFINE s == seeder[e].set
<1>1. SeederOnCourse(e)
    BY DEF MInv
<1>2. ASSUME s \in Sets
      PROVE  memberRows[s] \subseteq memberRows'[s] /\ memberRows'[s] \subseteq Ordinals
    BY <1>2 DEF Grows
<1>3. seeder[e].pc = "shadow" => memberRows'[s] = Ordinals
    BY <1>1, <1>2 DEF SeederOnCourse, SeederFits
<1>4. seeder[e].pc = "fill" => Ordinals \ memberRows'[s] \subseteq seeder[e].todo
    BY <1>1, <1>2 DEF SeederOnCourse, SeederFits
<1> QED BY <1>1, <1>3, <1>4 DEF SeederOnCourse, SeederFits

LEMMA WritersStay ==
    ASSUME MInv, Grows, NEW w \in Writers, writer'[w] = writer[w]
    PROVE  WriterOnCourse(w)'
BY DEF MInv, WriterOnCourse, MayBe, Grows, MetricTypeOK, WriterRun

LEMMA InitHolds == MetricInit => MInv
<1> SUFFICES ASSUME MetricInit PROVE MInv
    OBVIOUS
<1> USE MetricAssumption DEF MetricInit
<1>1. MetricTypeOK
    BY DEF MetricTypeOK, Statuses, SeederRun, OperatorRun, WriterRun, Stages, Modes
<1>2. OperatorsNameSets
    BY DEF OperatorsNameSets
<1>3. OneActive /\ PromotedIsWhole
    BY DEF OneActive, PromotedIsWhole
<1>4. \A e \in Seeders : SeederOnCourse(e)
    BY DEF SeederOnCourse, SeederFits
<1>5. \A w \in Writers : WriterOnCourse(w)
    BY DEF WriterOnCourse
<1> QED BY <1>1, <1>2, <1>3, <1>4, <1>5 DEF MInv

-----------------------------------------------------------------------------
(* The seeders.                                                            *)
LEMMA SeedersKeep ==
    ASSUME MInv, NEW e \in Seeders,
           (\E s \in Sets, target \in {"draft", "shadow"} : SeedLookup(e, s, target)) \/ SeedMembers(e) \/ SeedStops(e)
    PROVE  MInv'
<1>1. /\ UNCHANGED <<lifecycle, memberRows, active, operator, writer>> /\ Grows
    BY DEF MInv, MetricTypeOK, Grows, SeedLookup, SeedMembers, SeedStops, registry
<1>2. PICK r \in SeederRun : seeder' = [seeder EXCEPT ![e] = r] /\ SeederFits(r)
    <2>0. seeder[e] \in SeederRun /\ SeederOnCourse(e) /\ \A s \in Sets : lifecycle[s] \in Statuses
        BY DEF MInv, MetricTypeOK
    <2>1. ASSUME NEW s \in Sets, NEW target \in {"draft", "shadow"}, SeedLookup(e, s, target)
          PROVE  \E r \in SeederRun : seeder' = [seeder EXCEPT ![e] = r] /\ SeederFits(r)
        <3> DEFINE r == [seeder[e] EXCEPT !.set = s, !.target = target, !.seen = lifecycle[s],
                            !.pc = IF lifecycle[s] = "none" THEN "set" ELSE "members",
                            !.todo = PayloadMembers]
        <3>1. r \in SeederRun /\ seeder' = [seeder EXCEPT ![e] = r]
            BY <2>0, <2>1 DEF SeedLookup, SeederRun, PayloadMembers
        <3>2. r.pc \in {"set", "members"} /\ r.set = s /\ r.todo = Ordinals
            BY <2>0 DEF SeederRun, PayloadMembers
        <3> HIDE DEF r
        <3> QED BY <3>1, <3>2 DEF SeederFits
    <2>2. CASE SeedMembers(e)
        <3> DEFINE missing == Ordinals \ memberRows[seeder[e].set]
                   plan == Planned(e, missing)
                   r == [seeder[e] EXCEPT !.pc = plan.pc, !.todo = plan.todo]
        <3>1. /\ plan.pc \in {"fill", "failed", "shadow", "ok"} /\ plan.todo = missing
              /\ plan.pc = "fill" => missing # {}
              /\ plan.pc = "shadow" => missing = {}
            BY DEF Planned
        <3> HIDE DEF plan
        <3>2. r \in SeederRun /\ seeder' = [seeder EXCEPT ![e] = r]
            BY <2>0, <2>2, <3>1 DEF SeedMembers, PayloadMembers, SeederRun, plan
        <3>3. r.pc = plan.pc /\ r.todo = missing /\ r.set = seeder[e].set /\ r.set \in Sets
            BY <2>0, <2>2, <3>1 DEF SeedMembers, SeederAt, SeederOnCourse, SeederFits, SeederRun
        <3>4. missing = {} => memberRows[seeder[e].set] = Ordinals
            BY <3>3 DEF MInv, MetricTypeOK
        <3> HIDE DEF r
        <3> QED BY <3>1, <3>2, <3>3, <3>4 DEF SeederFits
    <2>3. CASE SeedStops(e)
        <3> DEFINE r == [seeder[e] EXCEPT !.pc = "failed"]
        <3>1. r \in SeederRun /\ seeder' = [seeder EXCEPT ![e] = r] /\ r.pc = "failed" /\ r.set \in Sets
            BY <2>0, <2>3 DEF SeedStops, SeederTo, SeederRun, SeederOnCourse, SeederFits
        <3> QED BY <3>1 DEF SeederFits
    <2> QED BY <2>1, <2>2, <2>3
<1>3. SeederOnCourse(e)' /\ seeder' \in [Seeders -> SeederRun]
    BY <1>1, <1>2 DEF MInv, MetricTypeOK, SeederOnCourse, SeederFits
<1>4. \A f \in Seeders \ {e} : seeder'[f] = seeder[f]
    BY DEF MInv, MetricTypeOK, SeedLookup, SeedMembers, SeedStops, SeederTo
<1>5. \A f \in Seeders : SeederOnCourse(f)'
    BY <1>1, <1>3, <1>4, SeedersStay
<1>6. \A w \in Writers : WriterOnCourse(w)'
    BY <1>1, WritersStay
<1>7. MetricTypeOK' /\ OperatorsNameSets' /\ OneActive' /\ PromotedIsWhole'
    BY <1>1, <1>3 DEF MInv, MetricTypeOK, OperatorsNameSets, OneActive, PromotedIsWhole
<1> QED BY <1>5, <1>6, <1>7 DEF MInv

(* A set that is created is a draft.                                       *)
LEMMA CreateSetKeeps ==
    ASSUME MInv, NEW e \in Seeders, CreateSet(e)
    PROVE  MInv'
<1> DEFINE s == seeder[e].set
<1>1. /\ UNCHANGED <<memberRows, active, operator, writer>> /\ s \in Sets
      /\ lifecycle' = lifecycle \/ (lifecycle[s] = "none" /\ lifecycle' = [lifecycle EXCEPT ![s] = "draft"])
    BY DEF MInv, SeederOnCourse, SeederFits, CreateSet, SeederAt
<1>2. Grows /\ OneActive' /\ PromotedIsWhole'
    BY <1>1 DEF MInv, MetricTypeOK, Grows, OneActive, PromotedIsWhole, Statuses
<1>3. seeder' = [seeder EXCEPT ![e].pc = "fill"] \/ seeder' = [seeder EXCEPT ![e].pc = "failed"]
    BY DEF CreateSet, SeederTo
<1>4. MetricTypeOK'
    <2>1. seeder' \in [Seeders -> SeederRun]
        BY <1>3 DEF MInv, MetricTypeOK, SeederRun
    <2> QED BY <2>1, <1>1 DEF MInv, MetricTypeOK, Statuses
<1>5. SeederOnCourse(e)'
    BY <1>1, <1>3, MetricAssumption DEF MInv, MetricTypeOK, SeederOnCourse, SeederFits, SeederRun, CreateSet, SeederAt
<1>6. \A f \in Seeders : SeederOnCourse(f)'
    <2>1. \A f \in Seeders \ {e} : seeder'[f] = seeder[f]
        BY <1>3 DEF MInv, MetricTypeOK
    <2> QED BY <2>1, <1>2, <1>5, SeedersStay
<1>7. \A w \in Writers : WriterOnCourse(w)'
    BY <1>1, <1>2, WritersStay
<1> QED BY <1>1, <1>2, <1>4, <1>6, <1>7 DEF MInv, OperatorsNameSets

(* The next member is one that was still to be inserted.                   *)
LEMMA InsertMemberKeeps ==
    ASSUME MInv, NEW e \in Seeders, InsertMember(e)
    PROVE  MInv'
<1> DEFINE s == seeder[e].set
           n == CHOOSE i \in seeder[e].todo : \A j \in seeder[e].todo : i <= j
           left == seeder[e].todo \ {n}
<1>1. UNCHANGED <<lifecycle, active, operator, writer>> /\ SeederAt(e, "fill") /\ s \in Sets
    BY DEF MInv, SeederOnCourse, SeederFits, InsertMember, SeederAt
<1>2. n \in Ordinals /\ n \in seeder[e].todo
    <2>1. seeder[e].todo \in SUBSET Ordinals /\ seeder[e].todo # {}
        BY <1>1 DEF MInv, MetricTypeOK, SeederRun, SeederOnCourse, SeederFits, SeederAt
    <2> QED BY <2>1, LeastOrdinal
<1>3. \/ /\ lifecycle[s] = "draft"
         /\ memberRows' = [memberRows EXCEPT ![s] = @ \cup {n}]
         /\ seeder' = [seeder EXCEPT ![e].todo = left,
                         ![e].pc = IF left # {} THEN "fill" ELSE IF seeder[e].target = "shadow" THEN "shadow" ELSE "ok"]
      \/ memberRows' = memberRows /\ seeder' = [seeder EXCEPT ![e].pc = "failed"]
    BY DEF InsertMember, SeederTo
<1>4. Grows /\ memberRows' \in [Sets -> SUBSET Ordinals]
    <2>1. memberRows' \in [Sets -> SUBSET Ordinals]
        <3> HIDE DEF n, left
        <3> QED BY <1>1, <1>2, <1>3 DEF MInv, MetricTypeOK
    <2>2. ASSUME NEW t \in Sets PROVE memberRows[t] \subseteq memberRows'[t]
        BY <1>3 DEF MInv, MetricTypeOK
    <2> QED BY <1>1, <2>1, <2>2 DEF Grows
<1>5. OneActive' /\ PromotedIsWhole'
    BY <1>1, <1>3, <1>4 DEF MInv, MetricTypeOK, OneActive, PromotedIsWhole
<1>6. seeder' \in [Seeders -> SeederRun]
    BY <1>3, <1>2 DEF MInv, MetricTypeOK, SeederRun
<1>7. SeederOnCourse(e)'
    <2>1. CASE memberRows' = memberRows /\ seeder' = [seeder EXCEPT ![e].pc = "failed"]
        BY <2>1, <1>1 DEF MInv, MetricTypeOK, SeederRun, SeederOnCourse, SeederFits, SeederAt
    <2>2. CASE memberRows' = [memberRows EXCEPT ![s] = @ \cup {n}]
        <3>1. Ordinals \ memberRows'[s] \subseteq left
            BY <2>2, <1>1 DEF MInv, MetricTypeOK, SeederOnCourse, SeederFits, SeederAt
        <3>2. left = {} => memberRows'[s] = Ordinals
            BY <3>1, <1>1, <1>4
        <3> HIDE DEF n, left
        <3> QED BY <3>1, <3>2, <1>1, <1>3, <2>2 DEF MInv, MetricTypeOK, SeederRun, SeederOnCourse, SeederFits, SeederAt
    <2> QED BY <1>3, <2>1, <2>2
<1>8. \A f \in Seeders : SeederOnCourse(f)'
    <2>1. \A f \in Seeders \ {e} : seeder'[f] = seeder[f]
        BY <1>3 DEF MInv, MetricTypeOK
    <2> QED BY <2>1, <1>4, <1>7, SeedersStay
<1>9. \A w \in Writers : WriterOnCourse(w)'
    BY <1>1, <1>4, WritersStay
<1> QED BY <1>1, <1>4, <1>5, <1>6, <1>8, <1>9 DEF MInv, MetricTypeOK, OperatorsNameSets

(* Promotion finds the set complete.                                       *)
LEMMA TransitionKeeps ==
    ASSUME MInv, NEW e \in Seeders, Transition(e)
    PROVE  MInv'
<1> DEFINE s == seeder[e].set
<1>1. /\ UNCHANGED <<memberRows, active, operator, writer>> /\ s \in Sets /\ memberRows[s] = Ordinals
      /\ lifecycle' = lifecycle \/ (lifecycle[s] = "draft" /\ lifecycle' = [lifecycle EXCEPT ![s] = "shadow"])
    BY DEF MInv, SeederOnCourse, SeederFits, Transition, SeederAt
<1>2. Grows /\ OneActive' /\ PromotedIsWhole'
    BY <1>1 DEF MInv, MetricTypeOK, Grows, OneActive, PromotedIsWhole, Statuses
<1>3. seeder' = [seeder EXCEPT ![e].pc = "ok"] \/ seeder' = [seeder EXCEPT ![e].pc = "failed"]
    BY DEF Transition, SeederTo
<1>4. MetricTypeOK'
    <2>1. seeder' \in [Seeders -> SeederRun]
        BY <1>3 DEF MInv, MetricTypeOK, SeederRun
    <2> QED BY <2>1, <1>1 DEF MInv, MetricTypeOK, Statuses
<1>5. SeederOnCourse(e)'
    BY <1>1, <1>3 DEF MInv, MetricTypeOK, SeederOnCourse, SeederFits, SeederRun
<1>6. \A f \in Seeders : SeederOnCourse(f)'
    <2>1. \A f \in Seeders \ {e} : seeder'[f] = seeder[f]
        BY <1>3 DEF MInv, MetricTypeOK
    <2> QED BY <2>1, <1>2, <1>5, SeedersStay
<1>7. \A w \in Writers : WriterOnCourse(w)'
    BY <1>1, <1>2, WritersStay
<1> QED BY <1>1, <1>2, <1>4, <1>6, <1>7 DEF MInv, OperatorsNameSets
-----------------------------------------------------------------------------
(* The operators.                                                          *)
LEMMA DecideKeeps ==
    ASSUME MInv, NEW o \in Operators, NEW new \in Sets, Decide(o, new)
    PROVE  MInv'
<1>1. UNCHANGED <<lifecycle, memberRows, active, seeder, writer>> /\ Grows
    BY DEF MInv, MetricTypeOK, Grows, Decide, registry
<1>2. operator' \in [Operators -> OperatorRun] /\ OperatorsNameSets'
    BY DEF MInv, MetricTypeOK, OperatorRun, OperatorsNameSets, Decide, ActiveMetricSet
<1>3. (\A e \in Seeders : SeederOnCourse(e)') /\ (\A w \in Writers : WriterOnCourse(w)')
    BY <1>1, SeedersStay, WritersStay
<1> QED BY <1>1, <1>2, <1>3 DEF MInv, MetricTypeOK, OneActive, PromotedIsWhole

(* The set made active was promoted before, and the one it replaces goes   *)
(* from active to retired in the same step.                                *)
LEMMA ActivateKeeps ==
    ASSUME MInv, NEW o \in Operators, ActivateCas(o)
    PROVE  MInv'
<1> DEFINE new == operator[o].new
<1>1. UNCHANGED <<memberRows, seeder, writer>> /\ new \in Sets
    BY DEF MInv, OperatorsNameSets, ActivateCas
<1>2. \/ lifecycle' = lifecycle /\ active' = active
      \/ lifecycle[new] \in {"shadow", "retired"} /\ lifecycle' = Retired(o) /\ active' = new
    BY DEF ActivateCas
<1>3. \E pc \in {"ok", "conflict", "refused"} : operator' = [operator EXCEPT ![o].pc = pc]
    BY DEF ActivateCas
<1>4. operator' \in [Operators -> OperatorRun] /\ OperatorsNameSets'
    BY <1>1, <1>3 DEF MInv, MetricTypeOK, OperatorRun, OperatorsNameSets
<1>5. lifecycle' \in [Sets -> Statuses] /\ active' \in Sets /\ OneActive' /\ PromotedIsWhole' /\ Grows
    <2>1. CASE lifecycle' = lifecycle /\ active' = active
        BY <2>1, <1>1 DEF MInv, MetricTypeOK, OneActive, PromotedIsWhole, Grows
    <2>2. CASE lifecycle[new] \in {"shadow", "retired"} /\ lifecycle' = Retired(o) /\ active' = new
        BY <2>2, <1>1 DEF MInv, MetricTypeOK, OneActive, PromotedIsWhole, Grows, Retired, Statuses
    <2> QED BY <1>2, <2>1, <2>2
<1>6. (\A e \in Seeders : SeederOnCourse(e)') /\ (\A w \in Writers : WriterOnCourse(w)')
    BY <1>1, <1>5, SeedersStay, WritersStay
<1> QED BY <1>1, <1>4, <1>5, <1>6 DEF MInv, MetricTypeOK

-----------------------------------------------------------------------------
(* The writers, which change nothing but what they know.                   *)
LEMMA WriterKeeps ==
    ASSUME MInv, NEW w \in Writers, UNCHANGED <<registry, seeder, operator>>,
           NEW r \in WriterRun, writer' = [writer EXCEPT ![w] = r], WriterOnCourse(w)'
    PROVE  MInv'
<1>1. UNCHANGED <<lifecycle, memberRows, active, seeder, operator>> /\ Grows
    BY DEF MInv, MetricTypeOK, Grows, registry
<1>2. writer' \in [Writers -> WriterRun] /\ \A v \in Writers \ {w} : writer'[v] = writer[v]
    BY DEF MInv, MetricTypeOK
<1>3. (\A e \in Seeders : SeederOnCourse(e)') /\ (\A v \in Writers : WriterOnCourse(v)')
    BY <1>1, <1>2, SeedersStay, WritersStay
<1> QED BY <1>1, <1>2, <1>3 DEF MInv, MetricTypeOK, OperatorsNameSets, OneActive, PromotedIsWhole

(* Only the verdict on the row of the set says what its status may be, and *)
(* only the comparison of the fingerprints that the catalog is its own.    *)
LEMMA WritersKeep ==
    ASSUME MInv, NEW w \in Writers,
           \/ \E stage \in Stages, mode \in Modes, flag \in Sets \cup {NoSet} :
                StartWriter(w, stage, mode, flag)
           \/ ChooseYaml(w) \/ ReadPointer(w) \/ ReadRow(w) \/ BindYaml(w)
           \/ AskActive(w) \/ AskIsActive(w)
    PROVE  MInv'
<1> USE DEF MInv, MetricTypeOK
<1>0. writer[w] \in WriterRun /\ WriterOnCourse(w) /\ active \in Sets /\ \A s \in Sets : lifecycle[s] \in Statuses
    OBVIOUS
<1>1. ASSUME NEW stage \in Stages, NEW mode \in Modes, NEW flag \in Sets \cup {NoSet},
             StartWriter(w, stage, mode, flag)
      PROVE  MInv'
    <2> DEFINE r == [writer[w] EXCEPT !.pc = "yaml", !.stage = stage, !.mode = mode, !.flag = flag]
    <2>1. r \in WriterRun /\ writer' = [writer EXCEPT ![w] = r]
        BY <1>0, <1>1 DEF StartWriter, WriterRun
    <2>2. WriterOnCourse(w)'
        BY <2>1, <1>0 DEF WriterOnCourse, WriterRun
    <2> QED BY <2>1, <2>2, <1>1, WriterKeeps DEF StartWriter
<1>2. CASE ChooseYaml(w)
    <2> DEFINE s == IF writer[w].flag = NoSet THEN ActiveMetricSet ELSE writer[w].flag
               r == [writer[w] EXCEPT
                        !.pc = IF MetricSetVersion(s) # "none" /\ s \in Canonical THEN "pointer" ELSE "exit2",
                        !.yaml = s]
    <2>1. r \in WriterRun /\ writer' = [writer EXCEPT ![w] = r]
        BY <1>0, <1>2 DEF ChooseYaml, ActiveMetricSet, WriterRun
    <2>2. WriterOnCourse(w)'
        BY <2>1, <1>0 DEF WriterOnCourse, WriterRun
    <2> QED BY <2>1, <2>2, <1>2, WriterKeeps DEF ChooseYaml
<1>3. CASE ReadPointer(w)
    <2> DEFINE gate == Preflight(writer[w].stage, writer[w].mode)
               s == Resolved(writer[w].stage, writer[w].mode, writer[w].flag, ActiveMetricSet)
               pc == IF gate # "continue" THEN gate ELSE IF s = NoSet THEN "exit2" ELSE "row"
               r == [writer[w] EXCEPT !.set = s, !.pointer = ActiveMetricSet, !.pc = pc]
    <2>1. s \in Sets \cup {NoSet} /\ pc \in {"skip", "exit2", "row"} /\ (pc = "row" => s \in Sets)
        BY <1>0 DEF Preflight, Resolved, ActiveMetricSet, WriterRun
    <2>2. r \in WriterRun /\ writer' = [writer EXCEPT ![w] = r]
        BY <1>0, <1>3, <2>1 DEF ReadPointer, ActiveMetricSet, WriterRun
    <2> HIDE DEF pc, s
    <2>3. WriterOnCourse(w)'
        BY <2>1, <2>2, <1>0 DEF WriterOnCourse, WriterRun
    <2> QED BY <2>2, <2>3, <1>3, WriterKeeps DEF ReadPointer
<1>4. CASE ReadRow(w)
    <2> DEFINE valid == ValidFor(writer[w].stage, writer[w].mode, writer[w].set,
                                 MetricSetVersion(writer[w].set), writer[w].pointer,
                                 writer[w].pointer = writer[w].set)
               r == [writer[w] EXCEPT !.pc = IF valid THEN "bind" ELSE "exit2"]
    <2>1. r \in WriterRun /\ writer' = [writer EXCEPT ![w] = r] /\ lifecycle' = lifecycle
        BY <1>0, <1>4 DEF ReadRow, WriterRun, registry
    <2>2. valid => lifecycle[writer[w].set] \in MayBe(w)
        BY DEF ValidFor, MetricSetVersion, MayBe
    <2> HIDE DEF valid
    <2>3. WriterOnCourse(w)'
        BY <2>1, <2>2, <1>0, <1>4 DEF ReadRow, WriterAt, WriterOnCourse, MayBe, WriterRun
    <2> QED BY <2>1, <2>3, <1>4, WriterKeeps DEF ReadRow
<1>5. CASE BindYaml(w)
    <2> DEFINE r == [writer[w] EXCEPT !.pc = IF Bound(w) THEN "active" ELSE "exit2",
                                      !.status = MetricSetVersion(writer[w].set)]
    <2>1. r \in WriterRun /\ writer' = [writer EXCEPT ![w] = r] /\ lifecycle' = lifecycle
        BY <1>0, <1>5 DEF BindYaml, WriterAt, WriterOnCourse, MetricSetVersion, WriterRun, registry
    <2>2. WriterOnCourse(w)'
        BY <2>1, <1>0, <1>5 DEF BindYaml, Bound, WriterAt, WriterOnCourse, MayBe, WriterRun
    <2> QED BY <2>1, <2>2, <1>5, WriterKeeps DEF BindYaml
<1>6. CASE AskActive(w)
    <2> DEFINE r == [writer[w] EXCEPT !.pc = "isActive", !.pointer = ActiveMetricSet]
    <2>1. r \in WriterRun /\ writer' = [writer EXCEPT ![w] = r] /\ lifecycle' = lifecycle
        BY <1>0, <1>6 DEF AskActive, ActiveMetricSet, WriterRun, registry
    <2>2. WriterOnCourse(w)'
        BY <2>1, <1>0, <1>6 DEF AskActive, WriterAt, WriterOnCourse, MayBe, WriterRun
    <2> QED BY <2>1, <2>2, <1>6, WriterKeeps DEF AskActive
<1>7. CASE AskIsActive(w)
    <2> DEFINE valid == ValidFor(writer[w].stage, writer[w].mode, writer[w].set, writer[w].status,
                                 writer[w].pointer, ActiveMetricSet = writer[w].set)
               r == [writer[w] EXCEPT !.pc = IF valid THEN "write" ELSE "exit2"]
    <2>1. r \in WriterRun /\ writer' = [writer EXCEPT ![w] = r] /\ lifecycle' = lifecycle
        BY <1>0, <1>7 DEF AskIsActive, WriterRun, registry
    <2> HIDE DEF valid
    <2>2. WriterOnCourse(w)'
        BY <2>1, <1>0, <1>7 DEF AskIsActive, WriterAt, WriterOnCourse, MayBe, WriterRun
    <2> QED BY <2>1, <2>2, <1>7, WriterKeeps DEF AskIsActive
<1> QED BY <1>1, <1>2, <1>3, <1>4, <1>5, <1>6, <1>7

-----------------------------------------------------------------------------
LEMMA MetricStep == MInv /\ [MetricNext]_metricVars => MInv'
<1> SUFFICES ASSUME MInv, [MetricNext]_metricVars PROVE MInv'
    OBVIOUS
<1>1. CASE UNCHANGED metricVars
    BY <1>1 DEF metricVars, registry, MInv, MetricTypeOK, OperatorsNameSets, OneActive, PromotedIsWhole,
        SeederOnCourse, SeederFits, WriterOnCourse, MayBe
<1>2. ASSUME NEW e \in Seeders,
             \/ \E s \in Sets, target \in {"draft", "shadow"} : SeedLookup(e, s, target)
             \/ SeedMembers(e) \/ CreateSet(e) \/ InsertMember(e) \/ Transition(e) \/ SeedStops(e)
      PROVE  MInv'
    BY <1>2, SeedersKeep, CreateSetKeeps, InsertMemberKeeps, TransitionKeeps
<1>3. ASSUME NEW o \in Operators, (\E s \in Sets : Decide(o, s)) \/ ActivateCas(o)
      PROVE  MInv'
    BY <1>3, DecideKeeps, ActivateKeeps
<1>4. ASSUME NEW w \in Writers,
             \/ \E stage \in Stages, mode \in Modes, flag \in Sets \cup {NoSet} :
                  StartWriter(w, stage, mode, flag)
             \/ ChooseYaml(w) \/ ReadPointer(w) \/ ReadRow(w) \/ BindYaml(w)
             \/ AskActive(w) \/ AskIsActive(w)
      PROVE  MInv'
    BY <1>4, WritersKeep
<1> QED BY <1>1, <1>2, <1>3, <1>4 DEF MetricNext

(* The pointer moves in ActivateCas only.                                  *)
LEMMA MoveWasSeen ==
    ASSUME [MetricNext]_metricVars, active' # active
    PROVE  \E o \in Operators : operator[o].expected = active /\ operator[o].new = active'
<1>1. PICK o \in Operators : ActivateCas(o)
    BY DEF MetricNext, metricVars, registry, SeedLookup, SeedMembers, CreateSet, InsertMember, Transition,
        SeedStops, Decide, StartWriter, ChooseYaml, ReadPointer, ReadRow, BindYaml, AskActive, AskIsActive
<1> QED BY <1>1 DEF ActivateCas, CasHolds

(* The inductive invariant of the registry: beside what is claimed of it,  *)
(* what each seeder, operator and writer may rely on between two calls.    *)
THEOREM MetricInvariant == MetricSpec => []MInv
<1>1. MetricInit => MInv
    BY InitHolds
<1>2. MInv /\ [MetricNext]_metricVars => MInv'
    BY MetricStep
<1> QED BY <1>1, <1>2, PTL DEF MetricSpec

(* Exactly one set is active, the one the pointer names, and every set     *)
(* that left the draft state is whole, for any number of seedings killed   *)
(* anywhere and of operators whose calls arrive in any order.              *)
THEOREM RegistryIsSound == MetricSpec => [](OneActive /\ PromotedIsWhole)
<1>1. MInv => OneActive /\ PromotedIsWhole
    BY DEF MInv
<1> QED BY <1>1, MetricInvariant, PTL

(* A writer that goes on to write computes with the catalog of its set,    *)
(* and its set is one its mode may write, five reads after it began.       *)
THEOREM WritersAreSound == MetricSpec => [](WritesItsCatalog /\ WritesByMode)
<1>1. MInv => WritesItsCatalog /\ WritesByMode
    BY DEF MInv, WriterOnCourse, MayBe, WriterAt, WritesItsCatalog, WritesByMode
<1> QED BY <1>1, MetricInvariant, PTL

(* All that the run checks of the registry, for every number of actors,    *)
(* sets and members; in particular the pointer is moved only by an         *)
(* operator who saw the set it replaces (activate_metric_set_cas).         *)
THEOREM RegistryIsSafe == MetricSpec => MetricSafe
<1>1. MInv => MetricTypeOK
    BY DEF MInv
<1>2. [MetricNext]_metricVars =>
        [active' # active => \E o \in Operators :
            operator[o].expected = active /\ operator[o].new = active']_metricVars
    BY MoveWasSeen
<1> QED BY <1>1, <1>2, MetricInvariant, RegistryIsSound, WritersAreSound, PTL
        DEF MetricSpec, MetricSafe, ReplacesWhatWasSeen

-----------------------------------------------------------------------------
(***************************************************************************)
(* The grants.                                                             *)
(***************************************************************************)

(* A mint that refreshes a grant, or has handed out its URL, agrees with   *)
(* the one grant of its request; from the lookup on it has a key, and once *)
(* it has looked at the object its digest is that of the object, if any.   *)
SameRequest(m) == {g \in grants : g.request = mint[m].request}
MintFits(m) ==
    /\ mint[m].pc # "idle" => mint[m].request \in Requests /\ mint[m].actor \in Actors
    /\ mint[m].pc \in {"grants", "prove", "head", "record"} => mint[m].key \in ObjectKeys
    /\ mint[m].pc = "record" => mint[m].digest \in {Nothing, mint[m].head}
    /\ mint[m].refresh => mint[m].pc \notin {"idle", "resolve", "grants"}
    /\ mint[m].refresh \/ mint[m].pc = "issued" => SameRequest(m) # {} /\ Conflicts(m) = {}

(* The one who recorded a grant is through with it.                        *)
GrantFits(g) == mint[g.by].pc \in {"issued", "error"} /\ g.digest = mint[g.by].head

GInv ==
    /\ GrantTypeOK /\ OneGrant
    /\ \A m \in Mints : MintFits(m)
    /\ \A g \in grants : GrantFits(g)

LEMMA GrantInitHolds == GrantInit => GInv
<1> SUFFICES ASSUME GrantInit PROVE GInv
    OBVIOUS
<1>1. NoMint \in MintRequest
    BY DEF NoMint, MintRequest, DenyReasons
<1>2. GrantTypeOK
    BY <1>1 DEF GrantInit, GrantTypeOK, CommittedObjectRef
<1>3. \A m \in Mints : MintFits(m)
    BY DEF GrantInit, NoMint, MintFits
<1> QED BY <1>2, <1>3 DEF GrantInit, GInv, OneGrant

(* A step of one mint that leaves the grants, the rows and the objects, or *)
(* changes rows and objects only.                                          *)
LEMMA MintMoves ==
    ASSUME GInv, NEW m \in Mints, NEW r \in MintRequest, mint' = [mint EXCEPT ![m] = r],
           UNCHANGED <<refRow, bucket, grants>>,
           mint[m].pc \notin {"issued", "error"}, MintFits(m)'
    PROVE  GInv'
<1>1. mint' \in [Mints -> MintRequest] /\ \A n \in Mints \ {m} : mint'[n] = mint[n]
    BY DEF GInv, GrantTypeOK
<1>2. \A n \in Mints : MintFits(n)'
    BY <1>1 DEF GInv, MintFits, SameRequest, Conflicts
<1>3. \A g \in grants : g.by \in Mints \ {m}
    BY DEF GInv, GrantTypeOK, GrantFits, DownloadGrant
<1>4. \A g \in grants' : GrantFits(g)'
    BY <1>1, <1>3 DEF GInv, GrantFits
<1> QED BY <1>1, <1>2, <1>4 DEF GInv, GrantTypeOK, OneGrant, ObjectKeys

LEMMA ChangesKeep ==
    ASSUME GInv, UNCHANGED <<grants, mint>>,
           refRow' \in [Refs -> CommittedObjectRef], bucket' \in [ObjectKeys -> Contents \cup {Nothing}]
    PROVE  GInv'
BY DEF GInv, GrantTypeOK, OneGrant, MintFits, SameRequest, Conflicts, GrantFits

(* Every step of a mint up to its grant.                                   *)
LEMMA LookingKeeps ==
    ASSUME GInv, NEW m \in Mints,
           \/ \E q \in Requests, a \in Actors :
                \/ StartMalformed(m, q, a)
                \/ \E k \in ObjectKeys \cup {Nothing}, r \in Refs \cup {Nothing} : StartMint(m, q, a, k, r)
           \/ ResolveObject(m) \/ ReadGrants(m) \/ HeadObject(m)
           \/ \E proof \in {"proven", "denied", "unproven"} : Prove(m, proof)
           \/ RecordDenial(m)
    PROVE  GInv'
<1>0. /\ mint[m] \in MintRequest /\ MintFits(m) /\ mint \in [Mints -> MintRequest]
      /\ refRow \in [Refs -> CommittedObjectRef] /\ bucket \in [ObjectKeys -> Contents \cup {Nothing}]
    BY DEF GInv, GrantTypeOK
<1>1. ASSUME NEW q \in Requests, NEW a \in Actors, StartMalformed(m, q, a)
      PROVE  GInv'
    <2> DEFINE r == [NoMint EXCEPT !.pc = "deny", !.reason = "malformed", !.request = q, !.actor = a]
    <2>1. r \in MintRequest /\ mint' = [mint EXCEPT ![m] = r]
        BY <1>1 DEF StartMalformed, MintRequest, NoMint, DenyReasons
    <2>2. r.pc = "deny" /\ r.request \in Requests /\ r.actor \in Actors /\ ~r.refresh
        BY DEF NoMint
    <2> HIDE DEF r
    <2>3. MintFits(m)'
        BY <1>0, <2>1, <2>2 DEF MintFits
    <2> QED BY <1>1, <2>1, <2>3, MintMoves DEF StartMalformed, MintAt
<1>2. ASSUME NEW q \in Requests, NEW a \in Actors, NEW k \in ObjectKeys \cup {Nothing},
             NEW f \in Refs \cup {Nothing}, StartMint(m, q, a, k, f)
      PROVE  GInv'
    <2> DEFINE r == [NoMint EXCEPT !.pc = "resolve", !.request = q, !.actor = a, !.key = k, !.ref = f]
    <2>1. r \in MintRequest /\ mint' = [mint EXCEPT ![m] = r]
        BY <1>2 DEF StartMint, MintRequest, NoMint, DenyReasons
    <2>2. r.pc = "resolve" /\ r.request \in Requests /\ r.actor \in Actors /\ ~r.refresh
        BY DEF NoMint
    <2> HIDE DEF r
    <2>3. MintFits(m)'
        BY <1>0, <2>1, <2>2 DEF MintFits
    <2> QED BY <1>2, <2>1, <2>3, MintMoves DEF StartMint, MintAt
<1>3. ASSUME NEW reason \in DenyReasons, Deny(m, reason), UNCHANGED <<refRow, bucket, grants>>,
             mint[m].pc \in {"resolve", "grants", "prove", "head"}
      PROVE  GInv'
    <2> DEFINE r == [mint[m] EXCEPT !.pc = "deny", !.reason = reason]
    <2>1. r \in MintRequest /\ mint' = [mint EXCEPT ![m] = r]
        BY <1>0, <1>3 DEF Deny, MintRequest
    <2>2. /\ r.pc = "deny" /\ r.request = mint[m].request /\ r.actor = mint[m].actor
          /\ r.refresh = mint[m].refresh /\ r.key = mint[m].key
        BY <1>0 DEF MintRequest
    <2> HIDE DEF r
    <2>3. MintFits(m)'
        BY <1>0, <1>3, <2>1, <2>2 DEF MintFits, SameRequest, Conflicts
    <2> QED BY <1>3, <2>1, <2>3, MintMoves
<1>4. CASE ResolveObject(m)
    <2> DEFINE f == CHOOSE x \in Found(m) : TRUE
               r == [mint[m] EXCEPT !.pc = "grants", !.key = RefKey[f], !.ref = f, !.digest = RowDigest(f)]
    <2>1. CASE mint' = [mint EXCEPT ![m] = r] /\ Cardinality(Found(m)) = 1
        <3>1. f \in Refs
            <4>1. Found(m) # {}
                BY <2>1, FS_EmptySet
            <4>2. Found(m) \subseteq Refs
                BY <1>0 DEF Found, RowsOfKey, MintRequest
            <4> QED BY <4>1, <4>2
        <3> HIDE DEF f
        <3>2. r \in MintRequest
            BY <1>0, <3>1 DEF MintRequest, ObjectKeys, RowDigest, CommittedObjectRef
        <3>3. /\ r.pc = "grants" /\ r.request = mint[m].request /\ r.actor = mint[m].actor
              /\ r.refresh = mint[m].refresh /\ r.key \in ObjectKeys
            BY <1>0, <3>1 DEF MintRequest, ObjectKeys
        <3> HIDE DEF r
        <3>4. MintFits(m)'
            BY <1>0, <1>4, <2>1, <3>3 DEF MintFits, SameRequest, Conflicts, ResolveObject, MintAt
        <3> QED BY <1>4, <2>1, <3>2, <3>4, MintMoves DEF ResolveObject, MintAt
    <2>2. CASE \E reason \in DenyReasons : Deny(m, reason)
        BY <1>3, <1>4, <2>2 DEF ResolveObject, MintAt
    <2>3. \/ mint' = [mint EXCEPT ![m].pc = "grants", ![m].key = RefKey[f], ![m].ref = f, ![m].digest = RowDigest(f)]
             /\ Cardinality(Found(m)) = 1
          \/ \E reason \in {"orphan", "identity_mismatch", "not_committed"} : Deny(m, reason)
        BY <1>4 DEF ResolveObject
    <2>4. [mint EXCEPT ![m].pc = "grants", ![m].key = RefKey[f], ![m].ref = f, ![m].digest = RowDigest(f)]
          = [mint EXCEPT ![m] = r]
        <3> HIDE DEF f
        <3>1. ASSUME NEW n \in Mints, n # m
              PROVE  [mint EXCEPT ![m].pc = "grants", ![m].key = RefKey[f], ![m].ref = f,
                                  ![m].digest = RowDigest(f)][n] = mint[n]
            BY <1>0, <3>1
        <3>2. [mint EXCEPT ![m].pc = "grants", ![m].key = RefKey[f], ![m].ref = f,
                           ![m].digest = RowDigest(f)][m] = r
            BY <1>0
        <3> QED BY <1>0, <3>1, <3>2
    <2> QED BY <2>1, <2>2, <2>3, <2>4 DEF DenyReasons
<1>5. CASE ReadGrants(m)
    <2> DEFINE again == \E g \in grants : g.request = mint[m].request
               r == [mint[m] EXCEPT !.pc = "prove", !.refresh = again]
    <2>1. CASE Conflicts(m) = {} /\ mint' = [mint EXCEPT ![m] = r]
        <3>1. r \in MintRequest
            <4>1. again \in BOOLEAN
                OBVIOUS
            <4> HIDE DEF again
            <4> QED BY <1>0, <4>1 DEF MintRequest
        <3>2. /\ r.pc = "prove" /\ r.request = mint[m].request /\ r.actor = mint[m].actor
              /\ r.refresh = again /\ r.key = mint[m].key
            BY <1>0 DEF MintRequest
        <3> HIDE DEF r
        <3>4. again => SameRequest(m) # {}
            BY DEF SameRequest
        <3> HIDE DEF again
        <3>5. mint'[m] = r /\ SameRequest(m)' = SameRequest(m) /\ Conflicts(m)' = Conflicts(m)
            BY <1>0, <1>5, <2>1, <3>2 DEF ReadGrants, SameRequest, Conflicts
        <3>3. MintFits(m)'
            BY <1>0, <1>5, <2>1, <3>2, <3>4, <3>5 DEF MintFits, ReadGrants, MintAt
        <3> QED BY <1>5, <2>1, <3>1, <3>3, MintMoves DEF ReadGrants, MintAt
    <2>2. CASE Deny(m, "request_id_conflict")
        BY <1>3, <1>5, <2>2 DEF ReadGrants, MintAt, DenyReasons
    <2> QED BY <1>0, <1>5, <2>1, <2>2 DEF ReadGrants
<1>6. CASE HeadObject(m)
    <2> DEFINE r == [mint[m] EXCEPT !.pc = "record", !.head = HeadOf(mint[m].key)]
    <2>1. CASE HeadMatches(m) /\ mint' = [mint EXCEPT ![m] = r]
        <3>1. r \in MintRequest
            BY <1>0, <1>6 DEF MintRequest, HeadOf, HeadObject, MintAt, MintFits
        <3>2. /\ r.pc = "record" /\ r.request = mint[m].request /\ r.actor = mint[m].actor
              /\ r.refresh = mint[m].refresh /\ r.key = mint[m].key
              /\ r.digest \in {Nothing, r.head}
            BY <1>0, <2>1 DEF MintRequest, HeadMatches
        <3> HIDE DEF r
        <3>3. MintFits(m)'
            BY <1>0, <1>6, <2>1, <3>2 DEF MintFits, SameRequest, Conflicts, HeadObject, MintAt
        <3> QED BY <1>6, <2>1, <3>1, <3>3, MintMoves DEF HeadObject, MintAt
    <2>2. CASE Deny(m, "object_missing") \/ Deny(m, "checksum_mismatch")
        BY <1>3, <1>6, <2>2 DEF HeadObject, MintAt, DenyReasons
    <2> QED BY <1>0, <1>6, <2>1, <2>2 DEF HeadObject
<1>7. ASSUME NEW proof \in {"proven", "denied", "unproven"}, Prove(m, proof)
      PROVE  GInv'
    <2> DEFINE r == [mint[m] EXCEPT !.pc = "head"]
    <2>1. CASE mint' = [mint EXCEPT ![m] = r]
        <3>1. r \in MintRequest
            BY <1>0 DEF MintRequest
        <3>2. /\ r.pc = "head" /\ r.request = mint[m].request /\ r.actor = mint[m].actor
              /\ r.refresh = mint[m].refresh /\ r.key = mint[m].key
            BY <1>0 DEF MintRequest
        <3> HIDE DEF r
        <3>3. MintFits(m)'
            BY <1>0, <1>7, <2>1, <3>2 DEF MintFits, SameRequest, Conflicts, Prove, MintAt
        <3> QED BY <1>7, <2>1, <3>1, <3>3, MintMoves DEF Prove, MintAt
    <2>2. CASE Deny(m, "entitlement_denied") \/ Deny(m, "entitlement_unproven")
        BY <1>3, <1>7, <2>2 DEF Prove, MintAt, DenyReasons
    <2> QED BY <1>0, <1>7, <2>1, <2>2 DEF Prove
<1>8. CASE RecordDenial(m)
    <2> DEFINE r == [mint[m] EXCEPT !.pc = "denied"]
    <2>1. r \in MintRequest /\ mint' = [mint EXCEPT ![m] = r]
        BY <1>0, <1>8 DEF RecordDenial, MintRequest
    <2>2. /\ r.pc = "denied" /\ r.request = mint[m].request /\ r.actor = mint[m].actor
          /\ r.refresh = mint[m].refresh /\ r.key = mint[m].key
        BY <1>0 DEF MintRequest
    <2> HIDE DEF r
    <2>3. MintFits(m)'
        BY <1>0, <1>8, <2>1, <2>2 DEF MintFits, SameRequest, Conflicts, RecordDenial, MintAt
    <2> QED BY <1>8, <2>1, <2>3, MintMoves DEF RecordDenial, MintAt
<1> QED BY <1>1, <1>2, <1>4, <1>5, <1>6, <1>7, <1>8

(* A grant recorded by a mint that has looked at its object: the mints of  *)
(* the request that hold a URL, or mean to refresh, agree with it.         *)
LEMMA RecordingKeeps ==
    ASSUME GInv, NEW m \in Mints, NEW pc \in {"issued", "error"},
           mint[m].pc = "record", mint' = [mint EXCEPT ![m].pc = pc],
           \/ mint[m].refresh /\ grants' = (grants \ SameRequest(m)) \cup {GrantOf(m)}
           \/ ~mint[m].refresh /\ InsertHolds(m) /\ grants' = grants \cup {GrantOf(m)},
           UNCHANGED <<refRow, bucket>>
    PROVE  GInv'
<1> DEFINE new == GrantOf(m)
<1>0. mint[m] \in MintRequest /\ MintFits(m) /\ mint \in [Mints -> MintRequest]
    BY DEF GInv, GrantTypeOK
<1>1. /\ new.request = mint[m].request /\ new.key = mint[m].key /\ new.actor = mint[m].actor
      /\ new.by = m /\ new.digest = mint[m].head
    BY <1>0 DEF GrantOf, MintFits
<1>2. new \in DownloadGrant
    BY <1>0 DEF GrantOf, DownloadGrant, MintRequest, MintFits
<1>3. /\ mint' \in [Mints -> MintRequest] /\ mint'[m].pc = pc /\ mint'[m].head = mint[m].head
      /\ mint'[m].request = mint[m].request /\ mint'[m].key = mint[m].key
      /\ mint'[m].actor = mint[m].actor /\ mint'[m].refresh = mint[m].refresh
      /\ \A n \in Mints \ {m} : mint'[n] = mint[n]
    BY <1>0 DEF MintRequest
<1>4. /\ new \in grants'
      /\ \A g \in grants' : g = new \/ (g \in grants /\ g.request # mint[m].request)
    BY DEF SameRequest, InsertHolds
<1> HIDE DEF new
<1>5. OneGrant'
    BY <1>1, <1>4 DEF GInv, OneGrant
<1>6. GrantTypeOK'
    BY <1>2, <1>3, <1>4 DEF GInv, GrantTypeOK, ObjectKeys
<1>7. ASSUME NEW g \in grants'
      PROVE  GrantFits(g)'
    <2>1. CASE g = new
        BY <2>1, <1>1, <1>3 DEF GrantFits
    <2>2. CASE g \in grants /\ g # new
        <3>1. g.by \in Mints /\ GrantFits(g) /\ g.by # m
            BY <2>2 DEF GInv, GrantTypeOK, DownloadGrant, GrantFits
        <3> QED BY <3>1, <1>3 DEF GrantFits
    <2> QED BY <1>4, <2>1, <2>2
<1>8. ASSUME NEW n \in Mints
      PROVE  MintFits(n)'
    <2>1. CASE n = m
        <3>1. SameRequest(n)' # {} /\ Conflicts(n)' = {}
            BY <2>1, <1>1, <1>3, <1>4 DEF SameRequest, Conflicts
        <3> QED BY <2>1, <3>1, <1>0, <1>3 DEF MintFits
    <2>2. CASE n # m /\ mint[n].request # mint[m].request
        <3>1. SameRequest(n)' = SameRequest(n) /\ Conflicts(n)' = Conflicts(n)
            <4>1. ASSUME NEW g, g.request = mint[n].request
                  PROVE  g \in grants' <=> g \in grants
                BY <4>1, <2>2, <1>1, <1>4 DEF SameRequest
            <4> QED BY <4>1, <2>2, <1>3 DEF SameRequest, Conflicts
        <3>2. MintFits(n) /\ mint'[n] = mint[n]
            BY <2>2, <1>3 DEF GInv
        <3> QED BY <3>1, <3>2 DEF MintFits, ObjectKeys
    <2>3. CASE n # m /\ mint[n].request = mint[m].request
        <3>1. MintFits(n) /\ mint'[n] = mint[n]
            BY <2>3, <1>3 DEF GInv
        <3>2. ASSUME mint[n].refresh \/ mint[n].pc = "issued"
              PROVE  mint[n].key = mint[m].key /\ mint[n].actor = mint[m].actor
            <4>1. PICK g \in grants : g.request = mint[n].request
                BY <3>1, <3>2 DEF MintFits, SameRequest
            <4>2. g.key = mint[n].key /\ g.actor = mint[n].actor
                BY <3>1, <3>2, <4>1 DEF MintFits, Conflicts
            <4>3. mint[m].refresh
                BY <4>1, <2>3 DEF InsertHolds
            <4>4. g.key = mint[m].key /\ g.actor = mint[m].actor
                BY <1>0, <4>1, <4>3, <2>3 DEF MintFits, Conflicts
            <4> QED BY <4>2, <4>4
        <3>3. ASSUME mint[n].refresh \/ mint[n].pc = "issued"
              PROVE  SameRequest(n)' # {} /\ Conflicts(n)' = {}
            BY <3>1, <3>2, <3>3, <2>3, <1>1, <1>4 DEF SameRequest, Conflicts
        <3> QED BY <3>1, <3>3 DEF MintFits, ObjectKeys
    <2> QED BY <2>1, <2>2, <2>3
<1> QED BY <1>5, <1>6, <1>7, <1>8 DEF GInv

LEMMA EndingKeeps ==
    ASSUME GInv, NEW m \in Mints, RecordGrant(m) \/ MintFails(m)
    PROVE  GInv'
<1> DEFINE r == [mint[m] EXCEPT !.pc = "error"]
<1>1. ASSUME mint' = [mint EXCEPT ![m].pc = "error"], UNCHANGED <<refRow, bucket, grants>>,
             mint[m].pc \notin {"idle", "issued", "denied", "error"}
      PROVE  GInv'
    <2>1. mint[m] \in MintRequest /\ MintFits(m) /\ mint \in [Mints -> MintRequest]
        BY DEF GInv, GrantTypeOK
    <2>2. r \in MintRequest /\ mint' = [mint EXCEPT ![m] = r]
        BY <1>1, <2>1 DEF MintRequest
    <2>3. /\ r.pc = "error" /\ r.request = mint[m].request /\ r.actor = mint[m].actor
          /\ r.refresh = mint[m].refresh /\ r.key = mint[m].key
        BY <2>1 DEF MintRequest
    <2> HIDE DEF r
    <2>4. MintFits(m)'
        BY <1>1, <2>1, <2>2, <2>3 DEF MintFits, SameRequest, Conflicts
    <2> QED BY <1>1, <2>2, <2>4, MintMoves
<1>2. CASE RecordGrant(m)
    <2>1. CASE mint[m].refresh
        BY <1>2, <2>1, RecordingKeeps DEF RecordGrant, MintAt, SameRequest
    <2>2. CASE ~mint[m].refresh /\ InsertHolds(m)
        BY <1>2, <2>2, RecordingKeeps DEF RecordGrant, MintAt
    <2>3. CASE ~mint[m].refresh /\ ~InsertHolds(m)
        BY <1>1, <1>2, <2>3 DEF RecordGrant, MintAt
    <2> QED BY <2>1, <2>2, <2>3
<1>3. CASE MintFails(m)
    <2>1. CASE grants' = grants
        BY <1>1, <1>3, <2>1 DEF MintFails
    <2>2. CASE mint[m].pc = "record" /\ ~mint[m].refresh /\ InsertHolds(m) /\ grants' = grants \cup {GrantOf(m)}
        BY <1>3, <2>2, RecordingKeeps DEF MintFails
    <2> QED BY <1>3, <2>1, <2>2 DEF MintFails, MintAt
<1> QED BY <1>2, <1>3

LEMMA GrantStep == GInv /\ [GrantNext]_grantVars => GInv'
<1> SUFFICES ASSUME GInv, [GrantNext]_grantVars PROVE GInv'
    OBVIOUS
<1>1. CASE UNCHANGED grantVars
    BY <1>1, ChangesKeep DEF grantVars, GInv, GrantTypeOK
<1>2. ASSUME NEW r \in Refs, NEW status \in {"committed", "orphan"}, NEW d \in Contents \cup {Nothing},
             RowChanges(r, status, d)
      PROVE  GInv'
    <2>1. refRow' \in [Refs -> CommittedObjectRef] /\ bucket' \in [ObjectKeys -> Contents \cup {Nothing}]
        BY <1>2 DEF RowChanges, GInv, GrantTypeOK, CommittedObjectRef, ObjectKeys
    <2> QED BY <1>2, <2>1, ChangesKeep DEF RowChanges
<1>3. ASSUME NEW k \in ObjectKeys, NEW c \in Contents \cup {Nothing}, ObjectChanges(k, c)
      PROVE  GInv'
    <2>1. refRow' \in [Refs -> CommittedObjectRef] /\ bucket' \in [ObjectKeys -> Contents \cup {Nothing}]
        BY <1>3 DEF ObjectChanges, GInv, GrantTypeOK
    <2> QED BY <1>3, <2>1, ChangesKeep DEF ObjectChanges
<1> QED BY <1>1, <1>2, <1>3, LookingKeeps, EndingKeeps DEF GrantNext

(* The inductive invariant of the grants: what a mint on its way to a      *)
(* grant has seen, and that every grant is of a mint that is through.      *)
THEOREM GrantInvariant == GrantSpec => []GInv
<1>1. GrantInit => GInv
    BY GrantInitHolds
<1>2. GInv /\ [GrantNext]_grantVars => GInv'
    BY GrantStep
<1> QED BY <1>1, <1>2, PTL DEF GrantSpec

(* All that the run checks of mint_get, for any number of mints, requests, *)
(* keys and rows, and without the bound on their changes: one grant for a  *)
(* request id, whoever was handed a URL has the grant of that object, and  *)
(* its digest is the one of the object that was looked at.                 *)
THEOREM GrantsAreSafe == GrantSpec => []GrantSafe
<1>1. ASSUME GInv, NEW m \in Mints, MintAt(m, "issued")
      PROVE  \E g \in grants : g.request = mint[m].request /\ g.key = mint[m].key /\ g.actor = mint[m].actor
    <2>1. SameRequest(m) # {} /\ Conflicts(m) = {}
        BY <1>1 DEF GInv, MintFits, MintAt
    <2> QED BY <2>1 DEF SameRequest, Conflicts
<1>2. GInv => GrantSafe
    BY <1>1 DEF GInv, GrantSafe, UrlIsRecorded, DigestIsSeen, GrantFits
<1> QED BY <1>2, GrantInvariant, PTL
=============================================================================
