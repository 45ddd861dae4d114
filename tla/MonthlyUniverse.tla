-------------------------- MODULE MonthlyUniverse --------------------------
(***************************************************************************)
(* The monthly universe build (scripts/run_monthly.py).  Five jobs run one *)
(* after the other in one workspace: find the address of the exchange's    *)
(* list, download the list, take the domestic stocks from it, fetch the    *)
(* bars of each, split the stocks into new listings, illiquid ones and the *)
(* core.  The jobs hand on by files: each takes the newest file the one    *)
(* before left.  The three CSVs are copied to the run's staging directory, *)
(* pass a gate and become the LATEST run, which CoreSelection releases.    *)
(*                                                                         *)
(* A run may stop anywhere.  The next one starts in the workspace it left, *)
(* or on a new runner to which only the address was restored (CacheBus).   *)
(***************************************************************************)
EXTENDS Integers, FiniteSets

CONSTANTS
    Issues,       \* the lists the exchange issues, 1..n in their order
    Codes,        \* numbers: a list names them in ascending order
    Market,       \* [Issues -> [Codes -> market_product of the code, "absent" when not listed]]
    ClassShares,  \* codes of five digits, the ones of class shares
    Duplicated,   \* issues that name a code twice
    MinRows,      \* rows the gate asks of each CSV, 10 in the code
    MaxRuns       \* bound: runs of the build

ASSUME MonthAssumption == Issues \subseteq Nat \ {0} /\ 1 \in Issues /\ MaxRuns \in Nat

Runs == 1..MaxRuns
\* A code's bars as the split sees them: too few, below the turnover asked, enough.
Histories == {"none", "short", "thin", "full"}
Csvs == <<"ipo", "illiquid", "core">>     \* LATEST_3CSV
Classes == {Csvs[n] : n \in 1..3}
NoFiles == [k \in Classes |-> {}]
NoSplit == [issue |-> 0, rows |-> NoFiles]

VARIABLES
    issue,      \* the list on the exchange's page
    url,        \* the list the cached address leads to, 0 for none
    processed,  \* newest processed JPX CSV: the list it was made of
    sets,       \* newest equity_domestic.csv and the list it was made of
    bars,       \* [Codes -> the CSV in data/cache/yf_daily]
    manifest,   \* [Codes -> status in _manifest_universe.jsonl]
    split,      \* newest sets_secondary directory
    staged,     \* [Runs -> the run's staging directory]
    latest,     \* LATEST_RUN_ID.txt, 0 for none
    monthRun    \* the run, and what its fetch holds in memory

workspace == <<processed, sets, bars, manifest, split, staged, latest>>
monthVars == <<issue, url, processed, sets, bars, manifest, split, staged, latest, monthRun>>

NoRun == [id |-> 0, pc |-> "over", todo |-> {}, entries |-> [c \in Codes |-> "missing"], got |-> 0]
NotStaged == [issue |-> 0, copied |-> 0, rows |-> NoFiles]

Empty ==
    /\ processed = 0 /\ sets = [issue |-> 0, codes |-> {}]
    /\ bars = [c \in Codes |-> "none"] /\ manifest = [c \in Codes |-> "missing"]
    /\ split = NoSplit /\ staged = [r \in Runs |-> NotStaged] /\ latest = 0

MonthInit == issue = 1 /\ url = 0 /\ Empty /\ monthRun = NoRun

NewIssue ==
    /\ issue + 1 \in Issues
    /\ issue' = issue + 1
    /\ UNCHANGED <<url, workspace, monthRun>>

\* The daily job of the same workspace rewrites, rotates or removes a code's
\* file; it has a manifest of its own (PriceStore).  Only the split reads the
\* files: TouchedAt bounds where the job comes between.
TouchedAt == {"split", "over"}
DailyTouches(c, h) ==
    /\ manifest[c] # "missing" /\ h # bars[c] /\ monthRun.pc \in TouchedAt
    /\ bars' = [bars EXCEPT ![c] = h]
    /\ UNCHANGED <<issue, url, processed, sets, manifest, split, staged, latest, monthRun>>

(* What a script finds in the workspace: the newest file of each kind, and *)
(* the lines of the manifest.                                              *)
LatestProcessed == processed
LatestSets == sets
LatestSplit == split
LoadedManifest == manifest

Start(fresh) ==
    /\ monthRun.pc = "over" /\ monthRun.id + 1 \in Runs
    /\ monthRun' = [NoRun EXCEPT !.id = monthRun.id + 1, !.pc = "url"]
    /\ IF fresh
       THEN /\ processed' = 0 /\ sets' = [issue |-> 0, codes |-> {}]
            /\ bars' = [c \in Codes |-> "none"] /\ manifest' = [c \in Codes |-> "missing"]
            /\ split' = NoSplit /\ staged' = [r \in Runs |-> NotStaged] /\ latest' = 0
       ELSE UNCHANGED workspace
    /\ UNCHANGED <<issue, url>>

\* run_job: an exit code other than 0 ends the run.
AfterAnyway(ok, pc) == pc
After(ok, pc) == IF ok THEN pc ELSE "over"

(***************************************************************************)
(* 1, 2: resolve_and_update_cache, fetch_jpx_list.run                      *)
(***************************************************************************)
\* The page gives the address, or cannot be read and the cached one serves.
Resolved(up) == IF up THEN issue ELSE url

UpdateUrl(up) ==
    /\ monthRun.pc = "url"
    /\ url' = Resolved(up)
    /\ monthRun' = [monthRun EXCEPT !.pc = After(Resolved(up) # 0, "list")]
    /\ UNCHANGED <<issue, workspace>>

\* The address is resolved again.  A download that fails, or is no Excel file,
\* leaves the files of earlier runs.
FetchList(up, good) ==
    LET ok == Resolved(up) # 0 /\ good
    IN  /\ monthRun.pc = "list"
        /\ url' = Resolved(up)
        /\ processed' = IF ok THEN Resolved(up) ELSE processed
        /\ monthRun' = [monthRun EXCEPT !.pc = After(ok, "build"), !.got = IF ok THEN Resolved(up) ELSE 0]
        /\ UNCHANGED <<issue, sets, bars, manifest, split, staged, latest>>

(***************************************************************************)
(* 3: build_universe_from_jpx                                              *)
(***************************************************************************)
Domestic(i) == {c \in Codes \ ClassShares : Market[i][c] = "equity_domestic"}

\* A code named twice ends the job; an unknown market is no error.
BuildUniverse ==
    LET ok == LatestProcessed # 0 /\ LatestProcessed \notin Duplicated
    IN  /\ monthRun.pc = "build"
        /\ sets' = IF ok THEN [issue |-> LatestProcessed, codes |-> Domestic(LatestProcessed)] ELSE sets
        /\ monthRun' = [monthRun EXCEPT !.pc = After(ok, "todo")]
        /\ UNCHANGED <<issue, url, processed, bars, manifest, split, staged, latest>>

(***************************************************************************)
(* 4: fetch_yf_daily_for_universe                                          *)
(***************************************************************************)
StartFetch ==
    /\ monthRun.pc = "todo"
    /\ monthRun' = [monthRun EXCEPT !.pc = "fetch", !.entries = LoadedManifest,
                          !.todo = {c \in LatestSets.codes : LoadedManifest[c] # "ok"}]
    /\ UNCHANGED <<issue, url, workspace>>

ManifestStatus(h) == CASE h = "none" -> "failed" [] h = "short" -> "insufficient" [] OTHER -> "ok"

\* _fetch_one, its retries included: the file is written before the manifest,
\* and a code that fails keeps the file it had.
FetchOne(c, h) ==
    /\ monthRun.pc = "fetch" /\ c \in monthRun.todo /\ \A e \in monthRun.todo : c <= e
    /\ bars' = IF h = "none" THEN bars ELSE [bars EXCEPT ![c] = h]
    /\ monthRun' = [monthRun EXCEPT !.todo = @ \ {c}, !.entries[c] = ManifestStatus(h)]
    /\ UNCHANGED <<issue, url, processed, sets, manifest, split, staged, latest>>

\* The job ends well whatever the fetches became.
WriteManifest ==
    /\ monthRun.pc = "fetch" /\ monthRun.todo = {}
    /\ manifest' = monthRun.entries
    /\ monthRun' = [monthRun EXCEPT !.pc = "split", !.entries = NoRun.entries]
    /\ UNCHANGED <<issue, url, processed, sets, bars, split, staged, latest>>

(***************************************************************************)
(* 5: split_equity_domestic_secondary                                      *)
(***************************************************************************)
MedianTurnover(c) == bars[c] \notin {"none", "short"}
ClassOfTrusting(c) == IF LoadedManifest[c] = "ok" THEN (IF bars[c] = "thin" THEN "illiquid" ELSE "core") ELSE "ipo"
ClassOf(c) ==
    IF LoadedManifest[c] # "ok" THEN "ipo"
    ELSE IF ~MedianTurnover(c) \/ bars[c] = "thin" THEN "illiquid" ELSE "core"

Split ==
    /\ monthRun.pc = "split"
    /\ split' = [issue |-> LatestSets.issue, rows |-> [k \in Classes |-> {c \in LatestSets.codes : ClassOf(c) = k}]]
    /\ monthRun' = [monthRun EXCEPT !.pc = "stage"]
    /\ UNCHANGED <<issue, url, processed, sets, bars, manifest, staged, latest>>

(***************************************************************************)
(* Staging, the gate and the pointer                                       *)
(***************************************************************************)
\* copy_to_staging, create_manifest and write_manifest, one CSV after another.
Stage ==
    LET n == staged[monthRun.id].copied + 1
    IN  /\ monthRun.pc = "stage"
        /\ staged' = [staged EXCEPT ![monthRun.id].copied = n, ![monthRun.id].issue = LatestSplit.issue,
                                    ![monthRun.id].rows[Csvs[n]] = LatestSplit.rows[Csvs[n]]]
        /\ monthRun' = [monthRun EXCEPT !.pc = IF n = 3 THEN "gate" ELSE "stage"]
        /\ UNCHANGED <<issue, url, processed, sets, bars, manifest, split, latest>>

GateExists(s) == s.copied = 3
Gate(s) == s.copied = 3 /\ \A k \in Classes : Cardinality(s.rows[k]) >= MinRows

VerifyGate ==
    /\ monthRun.pc = "gate"
    /\ monthRun' = [monthRun EXCEPT !.pc = After(Gate(staged[monthRun.id]), "point")]
    /\ UNCHANGED <<issue, url, workspace>>

PointLatest ==
    /\ monthRun.pc = "point"
    /\ latest' = monthRun.id
    /\ monthRun' = [monthRun EXCEPT !.pc = "over"]
    /\ UNCHANGED <<issue, url, processed, sets, bars, manifest, split, staged>>

\* The process or its runner stops; the files stay as they are.
Killed ==
    /\ monthRun.pc # "over"
    /\ monthRun' = [NoRun EXCEPT !.id = monthRun.id]
    /\ UNCHANGED <<issue, url, workspace>>

MonthNext ==
    \/ NewIssue \/ \E c \in Codes, h \in Histories : DailyTouches(c, h)
    \/ \E b \in BOOLEAN : Start(b) \/ UpdateUrl(b)
    \/ \E up, good \in BOOLEAN : FetchList(up, good)
    \/ BuildUniverse \/ StartFetch \/ \E c \in Codes, h \in Histories : FetchOne(c, h)
    \/ WriteManifest \/ Split \/ Stage
    \/ VerifyGate \/ PointLatest \/ Killed

MonthSpec == MonthInit /\ [][MonthNext]_monthVars

-----------------------------------------------------------------------------
\* Every variable holds a value of its kind.
MonthTypeOK ==
    /\ issue \in Issues /\ url \in Issues \cup {0} /\ processed \in Issues \cup {0}
    /\ sets.issue \in Issues \cup {0} /\ sets.codes \subseteq Codes
    /\ bars \in [Codes -> Histories]
    /\ manifest \in [Codes -> {"missing", "failed", "insufficient", "ok"}]
    /\ split.rows \in [Classes -> SUBSET Codes] /\ latest \in Runs \cup {0}
    /\ \A r \in Runs : staged[r].copied \in 0..3
    /\ monthRun.pc \in {"over", "url", "list", "build", "todo", "fetch", "split", "stage", "gate", "point"}

\* The run the workflow releases is whole and of one list: its three CSVs have
\* the rows the gate asks for and part the domestic stocks of one list among
\* them, whatever earlier runs left half done in the workspace.
LatestIsAPartition ==
    latest # 0 =>
        LET s == staged[latest] IN
        /\ UNION {s.rows[k] : k \in Classes} = Domestic(s.issue)
        /\ \A j, k \in Classes : j # k => s.rows[j] \cap s.rows[k] = {}
        /\ \A k \in Classes : Cardinality(s.rows[k]) >= MinRows

\* A run stages the list it downloaded itself, never one an earlier run left:
\* a job that fails ends the run before the next one picks the newest file.
StagedIsDownloaded ==
    (monthRun.pc \in {"gate", "point"}) => staged[monthRun.id].issue = monthRun.got

\* When the core is cut, each of its codes has the bars its indicators need in
\* the cache, although the manifest that says so is of another moment than the
\* file and the daily job writes to the same files.
CoreIsBacked ==
    [][monthRun.pc = "split" /\ split' # split =>
           \A c \in split'.rows["core"] : bars[c] = "full"]_monthVars

\* All that is claimed of the monthly universe.
MonthSafe == []MonthTypeOK /\ []LatestIsAPartition /\ []StagedIsDownloaded /\ CoreIsBacked
=============================================================================
