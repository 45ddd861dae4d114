--------------------------- MODULE CoreSelection ---------------------------
(***************************************************************************)
(* Which list of stocks a daily run works on.  The monthly build releases  *)
(* a core CSV under a tag (monthly_bus_cli.py); a job at noon takes the    *)
(* release of the day, drops the stocks that were delisted and stores the  *)
(* rest (patch_universe_daily.py); the daily run, or a replay of an        *)
(* earlier day, picks a release and its latest patch and materializes the  *)
(* one or the other (resolve_core_csv.py).  Rollout stages 3c and 4c.      *)
(*                                                                         *)
(* The universe build that makes the core is MonthlyUniverse, the request  *)
(* a release commits with it MncRequests, the cache index CacheBus.        *)
(***************************************************************************)
EXTENDS Integers

CONSTANTS
    Stocks,
    NumDays, MonthLength,   \* days of a behaviour; days of a month
    LookbackMonths,         \* lookback_months of fetch_delisted_codes
    MaxBuilds,              \* bound: workflow runs of the monthly build
    BuildDays,              \* days a build may take: its jobs time out after hours
    NoOutput

ASSUME SelectAssumption ==
    /\ NumDays \in Nat \ {0} /\ MonthLength \in Nat \ {0}
    /\ LookbackMonths \in Nat /\ MaxBuilds \in Nat
    /\ BuildDays \in 0..MonthLength

Days == 1..NumDays
MonthOf(d) == (d - 1) \div MonthLength
Tags == [day : Days, run : 1..MaxBuilds]
NoTag == [day |-> 0, run |-> 0]

VARIABLES
    today,
    delistedOn,  \* [Stocks -> day on the exchange's page, 0 while listed]
    snap,        \* [Tags -> status of the monthly_snapshots row]
    coreAt,      \* [Tags -> the core CSV stored for the tag, {} for none]
    builder,     \* the monthly build
    patches,     \* [Tags -> [Days -> committed row of the patched key]]
    patcher,     \* the patch job
    daily,       \* the daily run's resolve_core_csv job
    output       \* the CSV it handed on, with what it was made of

selVars == <<today, delistedOn, snap, coreAt, builder, patches, patcher, daily, output>>

NoPatch == [csv |-> {}, base |-> {}, read |-> FALSE]
NoBuild == [pc |-> "idle", run |-> 0, day |-> 0, core |-> {}, tag |-> NoTag]
NoPatcher == [pc |-> "idle", date |-> 0, tag |-> NoTag, base |-> {}]
NoDaily == [pc |-> "idle", date |-> 0, tag |-> NoTag, key |-> 0]

SelectInit ==
    /\ today = 1
    /\ delistedOn = [c \in Stocks |-> 0]
    /\ snap = [t \in Tags |-> "none"]
    /\ coreAt = [t \in Tags |-> {}]
    /\ builder = NoBuild
    /\ patches = [t \in Tags |-> [d \in Days |-> NoPatch]]
    /\ patcher = NoPatcher
    /\ daily = NoDaily
    /\ output = NoOutput

NextDay ==
    /\ today < NumDays
    /\ builder.pc # "idle" => today < builder.day + BuildDays
    /\ today' = today + 1
    /\ UNCHANGED <<delistedOn, snap, coreAt, builder, patches, patcher, daily, output>>

Delist(c) ==
    /\ delistedOn[c] = 0
    /\ delistedOn' = [delistedOn EXCEPT ![c] = today]
    /\ UNCHANGED <<today, snap, coreAt, builder, patches, patcher, daily, output>>

(***************************************************************************)
(* The monthly build                                                       *)
(***************************************************************************)
\* The exchange's list is issued monthly: it names stocks delisted this month.
OnTheList == {c \in Stocks : delistedOn[c] = 0 \/ MonthOf(delistedOn[c]) = MonthOf(today)}

\* A run, or another attempt of the last one, which keeps its run id.
StartBuild(run, core) ==
    /\ builder.pc = "idle" /\ run \in {builder.run, builder.run + 1} \cap (1..MaxBuilds)
    /\ core \subseteq OnTheList /\ core # {}
    /\ builder' = [pc |-> "staged", run |-> run, day |-> today, core |-> core, tag |-> NoTag]
    /\ UNCHANGED <<today, delistedOn, snap, coreAt, patches, patcher, daily, output>>

\* Step "Resolve build date and monthly tag": the day after the long build.
NameTag ==
    /\ builder.pc = "staged"
    /\ builder' = [builder EXCEPT !.pc = "named", !.tag = [day |-> today, run |-> builder.run]]
    /\ UNCHANGED <<today, delistedOn, snap, coreAt, patches, patcher, daily, output>>

BuildTo(pc) == builder' = [builder EXCEPT !.pc = pc]
BuildEnds == builder' = [NoBuild EXCEPT !.run = builder.run]

\* insert_monthly_snapshot_pending: a committed row is left alone and the
\* command ends; any other is taken over.
ReopensAny(t) == TRUE
MayReopen(t) == snap[t] # "committed"
InsertPending ==
    /\ builder.pc = "named"
    /\ IF MayReopen(builder.tag)
       THEN snap' = [snap EXCEPT ![builder.tag] = "pending"] /\ BuildTo("pending")
       ELSE BuildEnds /\ UNCHANGED snap
    /\ UNCHANGED <<today, delistedOn, coreAt, patches, patcher, daily, output>>

PutCore ==
    /\ builder.pc = "pending"
    /\ coreAt' = [coreAt EXCEPT ![builder.tag] = builder.core]
    /\ BuildTo("put")
    /\ UNCHANGED <<today, delistedOn, snap, patches, patcher, daily, output>>

\* The commit, heard or not by the caller.
CommitSnapshot ==
    /\ builder.pc = "put"
    /\ snap' = [snap EXCEPT ![builder.tag] = "committed"]
    /\ BuildEnds \/ BuildTo("raised")
    /\ UNCHANGED <<today, delistedOn, coreAt, patches, patcher, daily, output>>

\* A put or a commit that raises; a job that is killed marks nothing.
BuildRaises ==
    /\ builder.pc \in {"pending", "put"}
    /\ BuildTo("raised") \/ BuildEnds
    /\ UNCHANGED <<today, delistedOn, snap, coreAt, patches, patcher, daily, output>>

\* mark_monthly_snapshot_orphan, whatever the row says by now.
OrphanSnapshot ==
    /\ builder.pc = "raised"
    /\ snap' = [snap EXCEPT ![builder.tag] = "orphan"]
    /\ BuildEnds
    /\ UNCHANGED <<today, delistedOn, coreAt, patches, patcher, daily, output>>

(***************************************************************************)
(* Resolving the release of a day                                          *)
(***************************************************************************)
Committed == {t \in Tags : snap[t] = "committed"}
Newer(t, u) == t.day > u.day \/ (t.day = u.day /\ t.run > u.run)
Newest(S) == CHOOSE t \in S : \A u \in S \ {t} : Newer(t, u)
MonthOfTag(t) == MonthOf(t.day)

\* The month and the run order the listing, the day of the tag does not: every
\* release is stored with the first of its month as snapshot_date.
ListedFirst(S) ==
    CHOOSE t \in S : \A u \in S \ {t} : MonthOfTag(t) > MonthOfTag(u)
                                         \/ (MonthOfTag(t) = MonthOfTag(u) /\ t.run >= u.run)

\* pick_monthly_release: the newest release of the day or before; if there is
\* none, the first of the listing (fallback_latest).
Pick(date) ==
    LET eligible == {t \in Committed : t.day <= date}
    IN  IF eligible # {} THEN Newest(eligible) ELSE ListedFirst(Committed)

(***************************************************************************)
(* The patch job                                                           *)
(***************************************************************************)
ResolvePatch ==
    /\ patcher.pc = "idle" /\ Committed # {}
    /\ patcher' = [NoPatcher EXCEPT !.pc = "resolved", !.date = today, !.tag = Pick(today)]
    /\ UNCHANGED <<today, delistedOn, snap, coreAt, builder, patches, daily, output>>

\* cmd_fetch_csv takes what is stored for the tag.
FetchBase ==
    /\ patcher.pc = "resolved"
    /\ patcher' = [patcher EXCEPT !.pc = "fetched", !.base = coreAt[patcher.tag]]
    /\ UNCHANGED <<today, delistedOn, snap, coreAt, builder, patches, daily, output>>

\* fetch_delisted_codes: what the page lists up to the date, and since the
\* first of the month lookback_months before it.
DelistedThisMonth(date) ==
    {c \in Stocks : delistedOn[c] \in 1..date /\ MonthOf(delistedOn[c]) >= MonthOf(date)}
DelistedOnPage(date) ==
    {c \in Stocks : delistedOn[c] \in 1..date /\ MonthOf(delistedOn[c]) >= MonthOf(date) - LookbackMonths}

\* apply_delisted_patch and put-patched.  A page that cannot be read counts as
\* empty.  A committed row is never replaced: the same bytes pass, others fail.
PutPatch(read) ==
    LET csv == patcher.base \ (IF read THEN DelistedOnPage(patcher.date) ELSE {})
    IN  /\ patcher.pc = "fetched"
        /\ patches' = IF patches[patcher.tag][patcher.date] = NoPatch
                      THEN [patches EXCEPT ![patcher.tag][patcher.date] =
                                [csv |-> csv, base |-> patcher.base, read |-> read]]
                      ELSE patches
        /\ patcher' = NoPatcher
        /\ UNCHANGED <<today, delistedOn, snap, coreAt, builder, daily, output>>

\* The row of a put whose answer was lost is marked an orphan (CacheBus).
PatchOrphaned(t, d) ==
    /\ patches[t][d] # NoPatch
    /\ patches' = [patches EXCEPT ![t][d] = NoPatch]
    /\ UNCHANGED <<today, delistedOn, snap, coreAt, builder, patcher, daily, output>>

(***************************************************************************)
(* The daily run and the replay                                            *)
(***************************************************************************)
StartDaily(date) ==
    /\ daily.pc = "idle" /\ date <= today
    /\ daily' = [NoDaily EXCEPT !.pc = "select", !.date = date]
    /\ UNCHANGED <<today, delistedOn, snap, coreAt, builder, patches, patcher, output>>

\* select_patched_cache_key: same tag, same month, not after the run date.
PatchDaysOfTheMonth(t, date) ==
    {d \in Days : patches[t][d] # NoPatch /\ MonthOf(d) = MonthOf(date)}
PatchDays(t, date) ==
    {d \in Days : patches[t][d] # NoPatch /\ MonthOf(d) = MonthOf(date) /\ d <= date}
Latest(S) == IF S = {} THEN 0 ELSE CHOOSE d \in S : \A e \in S : e <= d

Select ==
    /\ daily.pc = "select" /\ Committed # {}
    /\ LET t == Pick(daily.date)
           k == Latest(PatchDays(t, daily.date))
       IN  daily' = [daily EXCEPT !.pc = IF k = 0 THEN "release" ELSE "patched", !.tag = t, !.key = k]
    /\ UNCHANGED <<today, delistedOn, snap, coreAt, builder, patches, patcher, output>>

\* get-patched and materialize; a key that is gone fails the step and the job.
MaterializePatched ==
    LET row == patches[daily.tag][daily.key]
    IN  /\ daily.pc = "patched"
        /\ output' = IF row = NoPatch THEN NoOutput
                     ELSE [date |-> daily.date, tag |-> daily.tag, key |-> daily.key,
                           csv |-> row.csv, base |-> row.base, read |-> row.read]
        /\ daily' = NoDaily
        /\ UNCHANGED <<today, delistedOn, snap, coreAt, builder, patches, patcher>>

\* materialize: the release as it is, degraded_without_delisted_patch.
MaterializeRelease ==
    LET csv == coreAt[daily.tag]
    IN  /\ daily.pc = "release"
        /\ output' = [date |-> daily.date, tag |-> daily.tag, key |-> 0, csv |-> csv, base |-> csv, read |-> FALSE]
        /\ daily' = NoDaily
        /\ UNCHANGED <<today, delistedOn, snap, coreAt, builder, patches, patcher>>

SelectNext ==
    \/ NextDay \/ \E c \in Stocks : Delist(c)
    \/ \E r \in 1..MaxBuilds, core \in SUBSET Stocks : StartBuild(r, core)
    \/ NameTag \/ InsertPending \/ PutCore \/ CommitSnapshot \/ BuildRaises \/ OrphanSnapshot
    \/ ResolvePatch \/ FetchBase \/ \E read \in BOOLEAN : PutPatch(read)
    \/ \E t \in Tags, d \in Days : PatchOrphaned(t, d)
    \/ \E d \in Days : StartDaily(d)
    \/ Select \/ MaterializePatched \/ MaterializeRelease

SelectSpec == SelectInit /\ [][SelectNext]_selVars

-----------------------------------------------------------------------------
\* Every variable holds a value of its kind.
\* A core CSV per tag, at its own object key; a patched row per key, which
\* names the day and the tag; and what the quality report says of the CSV.
StoredCores == [Tags -> SUBSET Stocks]
PatchedRows == [Tags -> [Days -> [csv : SUBSET Stocks, base : SUBSET Stocks, read : BOOLEAN]]]
QualityReport == [date : Days, tag : Tags, key : 0..NumDays, csv : SUBSET Stocks,
                  base : SUBSET Stocks, read : BOOLEAN]
PatcherRun == [pc : {"idle", "resolved", "fetched"}, date : 0..NumDays, tag : Tags \cup {NoTag},
               base : SUBSET Stocks]

SelectTypeOK ==
    /\ today \in Days /\ delistedOn \in [Stocks -> 0..NumDays]
    /\ snap \in [Tags -> {"none", "pending", "committed", "orphan"}]
    /\ coreAt \in StoredCores
    /\ builder.pc \in {"idle", "staged", "named", "pending", "put", "raised"}
    /\ patches \in PatchedRows /\ output \in QualityReport \cup {NoOutput}
    /\ patcher \in PatcherRun
    /\ daily.pc \in {"idle", "select", "patched", "release"} /\ daily.key \in 0..NumDays

\* A replay of a day does not know the future: a stock missing from the CSV it
\* works on, that its release had, was delisted on that day or before
\* (select_patched_cache_key, fetch_delisted_codes).
NoHindsight ==
    output # NoOutput => \A c \in output.base \ output.csv : delistedOn[c] \in 1..output.date

\* A patch made from a page that could be read leaves no stock in the CSV that
\* had left the exchange before the day of the patch, also when the patch is of a
\* later month than the release (fetch_delisted_codes); releases older than the
\* look-back are beyond it.
PatchedIsListed ==
    (/\ output # NoOutput /\ output.read
     /\ MonthOf(output.tag.day) > MonthOf(output.key) - LookbackMonths)
        => \A c \in output.csv : delistedOn[c] = 0 \/ delistedOn[c] >= output.key

\* The CSV of a committed release does not change under its readers, whatever
\* attempts of its run follow: the release leaves that status only as the orphan
\* of an attempt that did not hear its commit's answer (cmd_commit_snapshot,
\* insert_monthly_snapshot_pending).
CommittedCsvStays ==
    [][\A t \in Tags : snap[t] = "committed" =>
           coreAt'[t] = coreAt[t] /\ snap'[t] \in {"committed", "orphan"}]_selVars

\* All that is claimed of the core CSV a run works on.
SelectSafe == []SelectTypeOK /\ []NoHindsight /\ []PatchedIsListed /\ CommittedCsvStays
=============================================================================
