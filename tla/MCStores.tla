------------------------------ MODULE MCStores ------------------------------
(***************************************************************************)
(* Instances of the modules about one store or registry each.  They share  *)
(* no state; a behaviour is about one of them, the one its first state     *)
(* names, and the scenes bound what goes on in it at once.                 *)
(***************************************************************************)
EXTENDS DerivedDouble, DerivedClient, CacheBus, PublishBus, MetricSet, Grants, TLC

CONSTANTS c1, c2, daily, seed, retry, web, web2,  i1, i2, i3, j1, j2, f1, q1, q2,
          r1, r2, m0, m1, m2, e1, e2, o1, o2, t1, t3, k1, k2, a1, a2, g1, g2, x1, x2

VARIABLE world
storesVars == <<doubleVars, clientVars, busVars, runVars, metricVars, grantVars, world>>

-----------------------------------------------------------------------------
MCProfile == [g \in Gens |->
    CASE g = daily -> "snapshot_series_latest"
      [] g \in {seed, retry} -> "series_only"
      [] OTHER -> "web_asof"]
MCDate == [g \in Gens |-> IF g = web2 THEN 2 ELSE 1]
MCCodes == [g \in Gens |-> IF g \in {web, web2} THEN {} ELSE {c1, c2}]
MCRequest == [g \in Gens |-> IF g \in {seed, retry} THEN "r1" ELSE "-"]
MCKind == [p \in Puts |->
    CASE p \in {i1, i2, i3} -> "immutable" [] p \in {j1, j2} -> "jpx" [] p = f1 -> "fixed"
      [] OTHER -> "patched"]
MCBytes == [p \in Puts |-> IF p \in {i2, i3, q2} THEN "b2" ELSE "b1"]
MCKey == [r \in Refs |-> IF r = t1 THEN k1 ELSE k2]

-----------------------------------------------------------------------------
(* Two generations at a time, with the calls of a batch made for all codes *)
(* of a kind at once; one of them is failed, at a time when the other has  *)
(* no pending rows, and of an interrupted loop only the row of c1 escapes, *)
(* unless the generation is committed meanwhile.                           *)
BegunGens == {g \in Gens : gen[g] # "none"}
Parts(g) == {{}, SlotsOf(g) \cap {"delta", "snapshot", "asof"}, SlotsOf(g) \ {c2}, SlotsOf(g)}
DoubleScene ==
    /\ \A g \in BegunGens :
        /\ RowsOf(g) \in Parts(g) /\ uploaded[g] \in Parts(g)
        /\ uploaded[g] # {} => (RowsOf(g) = SlotsOf(g) \/ gen[g] # "pending")
        /\ staged[g] \in {{}, members[g]} /\ sealed[g] \in {{}, SlotsOf(g)}
        /\ staged[g] # {} => uploaded[g] = RowsOf(g)
        /\ sealed[g] # {} => uploaded[g] = RowsOf(g) /\ StagingComplete(g)
        /\ g \in failing => /\ uploaded[g] = RowsOf(g) \/ gen[g] # "pending"
                           /\ \A h \in BegunGens \ {g} : gen[h] = "pending" => RowsOf(h) = {}
        /\ gen[g] = "failed" => /\ obj[g][c2] # "pending"
                                /\ g \in overtaken \/ \A s \in RowsOf(g) \ {c1} : obj[g][s] = "orphan"
    /\ Cardinality(BegunGens) <= 2 /\ Cardinality(failing \cup overtaken) <= 1
    /\ {web, web2} \cap BegunGens # {} => BegunGens \subseteq {web, web2}
    /\ web2 \in BegunGens => web \in BegunGens
    /\ retry \in BegunGens => seed \in BegunGens /\ members[retry] # {}
    /\ seed \in BegunGens => c1 \in members[seed]
    /\ \A g \in BegunGens \ {seed, retry} : members[g] = Candidates[g] /\ prior[g]["snapshot"] = Absent

(* Either the listing or the batch is under way.                           *)
ClientScene ==
    \/ batch = [pc |-> "register", next |-> 1, ids |-> {}] /\ clientErrs = 0
    \/ listing.pc = "idle" /\ \A c \in SeriesCodes : shelf[c] = 0

(* The puts, and the get, of one kind.                                     *)
MovedKinds == {PutKind[p] : p \in {q \in Puts : put[q].pc # "idle"}}
CacheScene ==
    /\ Cardinality(MovedKinds) <= 1
    /\ reader.pc # "idle" => MovedKinds \subseteq {reader.kind}

(* The first run is r1, its first artifact and what it renders of it x1;   *)
(* the second run is of x2, has one attempt, and comes beside an open day  *)
(* that publishes.  One tool of the operator is at work at a time, and     *)
(* reconcile-manifest beside the second attempt of r1 or beside r2; beside *)
(* both of them there is one fault.                                        *)
PublishScene ==
    /\ job[r2].attempts > 0 => job[r1].attempts > 0 /\ job[r1].from # "closed" /\ ~job[r1].skip
    /\ job[r1].attempts <= 1 => job[r1].got \in {"x1", NoFile}
    /\ job[r2].attempts <= 1 /\ job[r2].from # "closed" /\ ~job[r2].skip /\ job[r2].got # "x1"
    /\ stale # {} => swept = {}
    /\ look # {} => stale \cup swept = {} /\ (job[r2].attempts = 0 \/ job[r1].attempts = 1)
    /\ job[r2].attempts > 0 /\ job[r1].attempts = 2 => runFaults <= 1

(* Seeders, of one set, and operators in their order; a writer beside two  *)
(* operators, or beside one operator and a seeder of the second set.       *)
MetricScene ==
    /\ seeder[e2].pc # "idle" => seeder[e1].pc # "idle" /\ seeder[e2].set = seeder[e1].set
    /\ operator[o2].pc # "idle" => operator[o1].pc # "idle"
    /\ \A w \in Writers : writer[w].pc # "idle" =>
        /\ writer[w].flag \in {NoSet, m1}
        /\ \A e \in Seeders : seeder[e].pc # "idle" => e = e1 /\ seeder[e].set = m1
        /\ seeder[e1].pc # "idle" => operator[o2].pc = "idle"

(* The first mint is of actor a1, the first content x1; of the second key  *)
(* only a1 asks.  A denial that no other mint can bring about is watched   *)
(* on its own.                                                             *)
GrantScene ==
    /\ mint[g2].pc # "idle" => mint[g1].reason \in {"-", "request_id_conflict", "checksum_mismatch"}
    /\ mint[g2].pc # "idle" => mint[g1].pc # "idle"
    /\ mint[g1].actor \in {a1, Nothing}
    /\ \A m \in Mints : mint[m].key = k2 /\ mint[m].ref # Nothing => mint[m].actor = a1
    /\ Cardinality(denials) <= 1 /\ bucket[k2] # x2 /\ refRow[t3].digest = Nothing
    /\ changes <= 1 => /\ \A k \in ObjectKeys : bucket[k] # x2
                       /\ \A r \in Refs : refRow[r].digest # x2

Scenes == DoubleScene /\ ClientScene /\ CacheScene /\ PublishScene /\ MetricScene /\ GrantScene

-----------------------------------------------------------------------------
StoresInit ==
    /\ world \in {"double", "client", "cache", "publish", "metric", "grants"}
    /\ DoubleInit /\ ClientInit /\ CacheInit /\ RunInit /\ MetricInit /\ GrantInit

StoresNext ==
    /\ UNCHANGED world
    /\ \/ world = "double" /\ DoubleNext
          /\ UNCHANGED <<clientVars, busVars, runVars, metricVars, grantVars>>
       \/ world = "client" /\ ClientNext
          /\ UNCHANGED <<doubleVars, busVars, runVars, metricVars, grantVars>>
       \/ world = "cache" /\ CacheNext
          /\ UNCHANGED <<doubleVars, clientVars, runVars, metricVars, grantVars>>
       \/ world = "publish" /\ RunNext
          /\ UNCHANGED <<doubleVars, clientVars, busVars, metricVars, grantVars>>
       \/ world = "metric" /\ MetricNext
          /\ UNCHANGED <<doubleVars, clientVars, busVars, runVars, grantVars>>
       \/ world = "grants" /\ GrantNext
          /\ UNCHANGED <<doubleVars, clientVars, busVars, runVars, metricVars>>

StoresSpec == StoresInit /\ [][StoresNext]_storesVars
=============================================================================
