------------------------------ MODULE MetricSet ------------------------------
(***************************************************************************)
(* The registry of metric sets and who uses it: the seeding of a set from  *)
(* its YAML catalog (seed_metric_set.py), the move of the active pointer   *)
(* (activate_metric_set_cas), and the derived writer, which reads the      *)
(* registry five times between choosing a catalog and writing              *)
(* (resolve_metric_set_yaml.py, then derived_bus_cli.py put-generation).   *)
(* Every call is a step of its own.  A set is named by its set_key; its    *)
(* fingerprint, and so its catalog, never change.                          *)
(***************************************************************************)
EXTENDS FiniteSets, Naturals

CONSTANTS
    Sets,        \* the set keys of the YAML catalogs
    FirstSet,    \* the one active to begin with
    NoSet,
    Canonical,   \* the sets whose YAML is one of CANONICAL_YAML_NAMES
    Ordinals,    \* the members of every set: 1..n
    Seeders,     \* runs of seed_metric_set.py
    Operators,   \* runs of activate_metric_set_cas_cli.py
    Writers      \* runs of the derived writer

ASSUME MetricAssumption ==
    /\ FirstSet \in Canonical /\ Canonical \subseteq Sets /\ NoSet \notin Sets
    /\ Ordinals \subseteq Nat /\ Ordinals # {}

VARIABLES
    lifecycle,   \* metric_set_versions: [Sets -> status]
    memberRows,  \* metric_set_members: [Sets -> SUBSET Ordinals]
    active,      \* active_metric_set
    seeder,      \* [Seeders -> [pc, set, target, seen, todo]]
    operator,    \* [Operators -> [pc, expected, new]]
    writer       \* [Writers -> [pc, stage, mode, yaml, set, status, pointer]]

registry == <<lifecycle, memberRows, active>>
metricVars == <<registry, seeder, operator, writer>>

Stages == {"4.5b", "4.5c"}
Modes == {"normal", "replay", "backfill", "reconcile"}

MetricInit ==
    /\ lifecycle = [s \in Sets |-> IF s = FirstSet THEN "active" ELSE "none"]
    /\ memberRows = [s \in Sets |-> IF s = FirstSet THEN Ordinals ELSE {}]
    /\ active = FirstSet
    /\ seeder = [e \in Seeders |-> [pc |-> "idle", set |-> NoSet, target |-> "shadow",
                                    seen |-> "none", todo |-> {}]]
    /\ operator = [o \in Operators |-> [pc |-> "idle", expected |-> NoSet, new |-> NoSet]]
    /\ writer = [w \in Writers |-> [pc |-> "idle", stage |-> "4.5c", mode |-> "normal",
                                    flag |-> NoSet, yaml |-> NoSet, set |-> NoSet,
                                    status |-> "none", pointer |-> NoSet]]

Statuses == {"none", "draft", "shadow", "active", "retired"}
SeederRun == [pc : {"idle", "members", "set", "fill", "shadow", "ok", "failed"},
              set : Sets \cup {NoSet}, target : {"draft", "shadow"}, seen : Statuses,
              todo : SUBSET Ordinals]
OperatorRun == [pc : {"idle", "sent", "ok", "conflict", "refused"},
                expected : Sets \cup {NoSet}, new : Sets \cup {NoSet}]
WriterRun == [pc : {"idle", "yaml", "pointer", "row", "bind", "active", "isActive", "write", "skip", "exit2"},
              stage : Stages, mode : Modes, flag : Sets \cup {NoSet}, yaml : Sets \cup {NoSet},
              set : Sets \cup {NoSet}, status : Statuses, pointer : Sets \cup {NoSet}]

MetricTypeOK ==
    /\ lifecycle \in [Sets -> Statuses]
    /\ memberRows \in [Sets -> SUBSET Ordinals]
    /\ active \in Sets
    /\ seeder \in [Seeders -> SeederRun]
    /\ operator \in [Operators -> OperatorRun]
    /\ writer \in [Writers -> WriterRun]

(* What a call to the registry answers.                                    *)
ActiveMetricSet == active
MetricSetVersion(s) == lifecycle[s]

-----------------------------------------------------------------------------
(* The members of the payload, of which a set is given those it misses.    *)
PayloadMembers == Ordinals

(* seed_metric_set.py.  Definitions and versions are merged first and hold *)
(* nothing another run could see; then the set is looked up by its key.    *)
SeederAt(e, pc) == seeder[e].pc = pc
SeederTo(e, pc) == seeder' = [seeder EXCEPT ![e].pc = pc]

SeedLookup(e, s, target) ==
    /\ SeederAt(e, "idle")
    /\ seeder' = [seeder EXCEPT ![e] = [@ EXCEPT
           !.set = s, !.target = target, !.seen = lifecycle[s],
           !.pc = IF lifecycle[s] = "none" THEN "set" ELSE "members",
           !.todo = PayloadMembers]]
    /\ UNCHANGED <<registry, operator, writer>>

(* Mutant: a set that is there is taken to have its members.               *)
PlannedTrusting(e, missing) == [pc |-> IF seeder[e].target = "shadow" /\ seeder[e].seen = "draft"
                                       THEN "shadow" ELSE "ok", todo |-> {}]

(* plan_metric_set_seed, for a set that is there: members are only put     *)
(* into a draft; only a draft becomes shadow.                              *)
Planned(e, missing) ==
    [pc |-> IF missing # {} THEN IF seeder[e].seen = "draft" THEN "fill" ELSE "failed"
            ELSE IF seeder[e].target = "shadow" /\ seeder[e].seen = "draft" THEN "shadow" ELSE "ok",
     todo |-> missing]

SeedMembers(e) ==
    LET plan == Planned(e, PayloadMembers \ memberRows[seeder[e].set]) IN
    /\ SeederAt(e, "members")
    /\ seeder' = [seeder EXCEPT ![e].pc = plan.pc, ![e].todo = plan.todo]
    /\ UNCHANGED <<registry, operator, writer>>

(* POST of the set: a draft (trigger), one per key (unique).               *)
CreateSet(e) ==
    LET s == seeder[e].set IN
    /\ SeederAt(e, "set")
    /\ IF lifecycle[s] = "none"
       THEN lifecycle' = [lifecycle EXCEPT ![s] = "draft"] /\ SeederTo(e, "fill")
       ELSE SeederTo(e, "failed") /\ UNCHANGED lifecycle
    /\ UNCHANGED <<memberRows, active, operator, writer>>

(* POST of the next member: refused unless the set is a draft (trigger)    *)
(* and the ordinal is free (unique).                                       *)
InsertMember(e) ==
    LET s    == seeder[e].set
        n    == CHOOSE i \in seeder[e].todo : \A j \in seeder[e].todo : i <= j
        left == seeder[e].todo \ {n}
    IN  /\ SeederAt(e, "fill")
        /\ IF lifecycle[s] = "draft" /\ n \notin memberRows[s]
           THEN /\ memberRows' = [memberRows EXCEPT ![s] = @ \cup {n}]
                /\ seeder' = [seeder EXCEPT ![e].todo = left,
                     ![e].pc = IF left # {} THEN "fill"
                               ELSE IF seeder[e].target = "shadow" THEN "shadow" ELSE "ok"]
           ELSE SeederTo(e, "failed") /\ UNCHANGED memberRows
        /\ UNCHANGED <<lifecycle, active, operator, writer>>

(* transition_metric_set draft -> shadow.                                  *)
Transition(e) ==
    LET s == seeder[e].set IN
    /\ SeederAt(e, "shadow")
    /\ IF lifecycle[s] = "draft"
       THEN lifecycle' = [lifecycle EXCEPT ![s] = "shadow"] /\ SeederTo(e, "ok")
       ELSE SeederTo(e, "failed") /\ UNCHANGED lifecycle
    /\ UNCHANGED <<memberRows, active, operator, writer>>

(* A request that fails ends the command; so does the operator.            *)
SeedStops(e) ==
    /\ seeder[e].pc \notin {"idle", "ok", "failed"}
    /\ SeederTo(e, "failed")
    /\ UNCHANGED <<registry, operator, writer>>

-----------------------------------------------------------------------------
(* activate_metric_set_cas_cli.py: the operator names the set to replace,  *)
(* looked up before, and the new one.  The call may run at any later time, *)
(* or never: its answer changes nothing else.                              *)
Decide(o, new) ==
    /\ operator[o].pc = "idle"
    /\ operator' = [operator EXCEPT ![o] = [pc |-> "sent", expected |-> ActiveMetricSet, new |-> new]]
    /\ UNCHANGED <<registry, seeder, writer>>

(* Mutant: the set that was active stays active.                           *)
RetiredNone(o) == [lifecycle EXCEPT ![operator[o].new] = "active"]
Retired(o) == [s \in Sets |-> IF s = operator[o].new THEN "active"
                              ELSE IF lifecycle[s] = "active" THEN "retired" ELSE lifecycle[s]]

(* Mutant: the pointer is moved whatever it is.                            *)
CasHoldsAnyway(o) == TRUE
CasHolds(o) == active = operator[o].expected

ActivateCas(o) ==
    LET new == operator[o].new IN
    /\ operator[o].pc = "sent"
    /\ IF ~CasHolds(o)
       THEN operator' = [operator EXCEPT ![o].pc = "conflict"] /\ UNCHANGED <<lifecycle, active>>
       ELSE IF active = new
       THEN operator' = [operator EXCEPT ![o].pc = "ok"] /\ UNCHANGED <<lifecycle, active>>
       ELSE IF lifecycle[new] \notin {"shadow", "retired"}
       THEN operator' = [operator EXCEPT ![o].pc = "refused"] /\ UNCHANGED <<lifecycle, active>>
       ELSE /\ lifecycle' = Retired(o)
            /\ active' = new
            /\ operator' = [operator EXCEPT ![o].pc = "ok"]
    /\ UNCHANGED <<memberRows, seeder, writer>>

-----------------------------------------------------------------------------
(* phase4_5_rollout.py, for the stages and modes of the derived writer.    *)
Preflight(stage, mode) ==
    IF mode = "replay" THEN "skip"
    ELSE IF mode = "reconcile" /\ stage = "4.5b" THEN "exit2" ELSE "continue"

(* resolve_metric_set_version_id: the set given, or the active one.        *)
Resolved(stage, mode, flag, pointer) ==
    IF flag # NoSet THEN flag
    ELSE IF mode = "normal" /\ stage = "4.5c" THEN pointer ELSE NoSet

(* Mutant: a reconcile takes any set it is given.                          *)
ValidForAny(stage, mode, set, status, pointer, isActive) ==
    IF mode = "backfill" \/ stage = "4.5b" THEN status = "shadow" /\ ~isActive ELSE TRUE

(* validate_resolved_set_for_mode and write_allowed.                       *)
ValidFor(stage, mode, set, status, pointer, isActive) ==
    IF mode = "backfill" \/ stage = "4.5b" THEN status = "shadow" /\ ~isActive
    ELSE status = "active" /\ isActive /\ (mode = "reconcile" => set = pointer)

WriterAt(w, pc) == writer[w].pc = pc

(* A daily run of stage 4.5c names no set; the others are given one.       *)
StartWriter(w, stage, mode, flag) ==
    /\ WriterAt(w, "idle")
    /\ (mode \in {"normal", "replay"} /\ stage = "4.5c") <=> flag = NoSet
    /\ writer' = [writer EXCEPT ![w] = [@ EXCEPT
           !.pc = "yaml", !.stage = stage, !.mode = mode, !.flag = flag]]
    /\ UNCHANGED <<registry, seeder, operator>>

(* resolve_metric_set_yaml.py: the one YAML with the fingerprint of the    *)
(* set, when the set is there.                                             *)
ChooseYaml(w) ==
    LET s == IF writer[w].flag = NoSet THEN ActiveMetricSet ELSE writer[w].flag IN
    /\ WriterAt(w, "yaml")
    /\ writer' = [writer EXCEPT
           ![w].pc = IF MetricSetVersion(s) # "none" /\ s \in Canonical THEN "pointer" ELSE "exit2",
           ![w].yaml = s]
    /\ UNCHANGED <<registry, seeder, operator>>

(* _phase_abc_preflight reads the pointer, ...                             *)
ReadPointer(w) ==
    LET r    == writer[w]
        gate == Preflight(r.stage, r.mode)
        s    == Resolved(r.stage, r.mode, r.flag, ActiveMetricSet)
    IN  /\ WriterAt(w, "pointer")
        /\ writer' = [writer EXCEPT ![w].set = s, ![w].pointer = ActiveMetricSet,
               ![w].pc = IF gate # "continue" THEN gate ELSE IF s = NoSet THEN "exit2" ELSE "row"]
        /\ UNCHANGED <<registry, seeder, operator>>

(* ... and then the row of the set.                                        *)
ReadRow(w) ==
    LET r == writer[w] IN
    /\ WriterAt(w, "row")
    /\ writer' = [writer EXCEPT
           ![w].pc = IF ValidFor(r.stage, r.mode, r.set, MetricSetVersion(r.set), r.pointer, r.pointer = r.set)
                     THEN "bind" ELSE "exit2"]
    /\ UNCHANGED <<registry, seeder, operator>>

(* Mutant: the catalog is not compared with the set.                       *)
BoundUnchecked(w) == TRUE
(* require_yaml_matches_registry.                                          *)
Bound(w) == writer[w].yaml = writer[w].set

(* put-generation reads the row again, for the fingerprint and the status  *)
(* it will hand on, ...                                                    *)
BindYaml(w) ==
    /\ WriterAt(w, "bind")
    /\ writer' = [writer EXCEPT ![w].pc = IF Bound(w) THEN "active" ELSE "exit2",
                                ![w].status = MetricSetVersion(writer[w].set)]
    /\ UNCHANGED <<registry, seeder, operator>>

(* ... and the pointer, twice: for the id, and for whether it is this one. *)
(* run_derived_generation validates what it is handed once more.           *)
AskActive(w) ==
    /\ WriterAt(w, "active")
    /\ writer' = [writer EXCEPT ![w].pc = "isActive", ![w].pointer = ActiveMetricSet]
    /\ UNCHANGED <<registry, seeder, operator>>

AskIsActive(w) ==
    LET r == writer[w] IN
    /\ WriterAt(w, "isActive")
    /\ writer' = [writer EXCEPT
           ![w].pc = IF ValidFor(r.stage, r.mode, r.set, r.status, r.pointer, ActiveMetricSet = r.set)
                     THEN "write" ELSE "exit2"]
    /\ UNCHANGED <<registry, seeder, operator>>

MetricNext ==
    \/ \E e \in Seeders :
        \/ \E s \in Sets, target \in {"draft", "shadow"} : SeedLookup(e, s, target)
        \/ SeedMembers(e) \/ CreateSet(e) \/ InsertMember(e) \/ Transition(e) \/ SeedStops(e)
    \/ \E o \in Operators : (\E s \in Sets : Decide(o, s)) \/ ActivateCas(o)
    \/ \E w \in Writers :
        \/ \E stage \in Stages, mode \in Modes, flag \in Sets \cup {NoSet} :
             StartWriter(w, stage, mode, flag)
        \/ ChooseYaml(w) \/ ReadPointer(w) \/ ReadRow(w) \/ BindYaml(w)
        \/ AskActive(w) \/ AskIsActive(w)

MetricSpec == MetricInit /\ [][MetricNext]_metricVars

-----------------------------------------------------------------------------
(* Exactly one set is active, the one the pointer names, whatever order    *)
(* the calls of operators who looked at different times arrive in.         *)
OneActive == {s \in Sets : lifecycle[s] = "active"} = {active}

(* A set that has left the draft state has all its members: whichever of   *)
(* several seedings, each killed anywhere and run again, promoted it, and  *)
(* although each looked at the members before the others inserted theirs.  *)
PromotedIsWhole == \A s \in Sets : lifecycle[s] \in {"shadow", "active", "retired"} => memberRows[s] = Ordinals

(* A writer that goes on to write computes with the catalog of the set it  *)
(* writes to, though the pointer may have moved since it chose the         *)
(* catalog, more than once.                                                *)
WritesItsCatalog == \A w \in Writers : WriterAt(w, "write") => writer[w].yaml = writer[w].set

(* Daily and reconcile write only to a set that was made active, backfill  *)
(* and the shadow stage only to one that was promoted, on five separate    *)
(* reads of a registry that others change.                                 *)
WritesByMode ==
    \A w \in Writers : WriterAt(w, "write") =>
        lifecycle[writer[w].set] \in
            IF writer[w].mode = "backfill" \/ writer[w].stage = "4.5b"
            THEN {"shadow", "active", "retired"} ELSE {"active", "retired"}

(* The pointer is moved only by an operator who saw the set it replaces.   *)
ReplacesWhatWasSeen ==
    [][active' # active => \E o \in Operators :
         operator[o].expected = active /\ operator[o].new = active']_metricVars

(* All that is claimed of the registry, its operators and its readers.     *)
MetricSafe ==
    /\ []MetricTypeOK /\ []OneActive /\ []PromotedIsWhole
    /\ []WritesItsCatalog /\ []WritesByMode /\ ReplacesWhatWasSeen
=============================================================================
