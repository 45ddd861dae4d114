------------------------------- MODULE WebAsof -------------------------------
(***************************************************************************)
(* Making the web as-of bundles: the daily job assembles the bundle pair   *)
(* of its run date in a fresh directory (web_asof_assemble_cli), and an    *)
(* operator's backfill (web_asof_backfill_cli) goes through the dates that *)
(* have an enriched CSV, several passes and several attempts a date, with  *)
(* a work directory that stays between its runs and says what is done.     *)
(* The generation store is taken as DerivedGeneration has it: an identity  *)
(* that has failed, is sealed or committed is never begun again.           *)
(***************************************************************************)
EXTENDS FiniteSets, Naturals

CONSTANTS
    AsOfs,         \* dates
    WebCodes,      \* codes with a file in the price store and a row in the CSVs
    BarOn,         \* [WebCodes -> SUBSET AsOfs]: the dates a code has a bar and metrics on
    LongHistory,   \* the codes with the bars the SMA75 lookback needs
    IndexBars,     \* the dates both index files have
    WebSets,       \* metric set versions
    Requested,     \* --limit
    MaxWebPasses,  \* --max-passes
    MaxTries,      \* --retries-per-as-of
    MaxWebFaults,  \* bound: failed calls, lost answers and kills
    NoAsOf

ASSUME WebAssumption == NoAsOf \notin AsOfs

VARIABLES
    enriched,   \* the enriched CSVs: [AsOfs -> "none" | "stored" | "expired" (row kept, object gone)]
    activeSet,  \* the metric set in effect
    webGen,     \* generations of the backfill's identities: [AsOfs \X WebSets -> state]
    bundles,    \* what is served: [AsOfs -> the committed bundle or NoBundle]
    work,       \* the work directories, by mode: [has, held, torn, csv, frozen, puts]: held are
                \* the codes extracted, torn those whose file a kill has cut, puts what the
                \* files put_<as_of>.json say
    asm,        \* the process: [pc, mode, put, date, set, skip, dates, todo, pass, tries, progressed]
    report,     \* the backfill's last word: [status, put, dates]
    webFaults

webVars == <<enriched, activeSet, webGen, bundles, work, asm, report, webFaults>>

AsmModes == {"daily", "backfill"}
Dir == work[asm.mode]
NoBundle == [csv |-> NoAsOf, source |-> "-", codes |-> {}, set |-> "-"]
NoCsvFile == [csv |-> NoAsOf, source |-> "-"]
StoreFiles == {"ohlc_zip", "index_zip", "daily_dir", "index_dir"}
FreshDir == [has |-> {}, held |-> {}, torn |-> {}, csv |-> NoCsvFile,
             frozen |-> NoBundle, puts |-> [d \in AsOfs |-> "none"]]
NoAsm == [pc |-> "idle", mode |-> "-", put |-> FALSE, date |-> NoAsOf, set |-> "-", skip |-> FALSE,
          dates |-> {}, todo |-> {}, pass |-> 0, tries |-> 0, progressed |-> FALSE]
Silent == [status |-> "-", put |-> FALSE, dates |-> {}]

WebInit ==
    /\ enriched = [d \in AsOfs |-> "none"]
    /\ activeSet \in WebSets
    /\ webGen = [i \in AsOfs \X WebSets |-> "none"]
    /\ bundles = [d \in AsOfs |-> NoBundle]
    /\ work = [m \in AsmModes |-> FreshDir] /\ asm = NoAsm /\ report = Silent /\ webFaults = 0

BundleRow == [csv : AsOfs \cup {NoAsOf}, source : {"-", "enriched", "universe"},
              codes : SUBSET WebCodes, set : WebSets \cup {"-"}]
(* _resolve_active_set                                                     *)
ActiveSetNow == activeSet

WebTypeOK ==
    /\ enriched \in [AsOfs -> {"none", "stored", "expired"}] /\ activeSet \in WebSets
    /\ webGen \in [AsOfs \X WebSets -> {"none", "pending", "sealed", "committed", "failed"}]
    /\ bundles \in [AsOfs -> BundleRow]
    /\ \A m \in AsmModes : /\ work[m].puts \in [AsOfs -> {"none", "assembled", "ok", "error"}]
                           /\ work[m].has \subseteq StoreFiles
                           /\ work[m].held \subseteq WebCodes /\ work[m].torn \subseteq WebCodes
    /\ asm.pc \in {"idle", "pass", "download", "extract", "freeze", "project", "begin", "commit"}
    /\ report.status \in {"-", "ok", "not_met", "error"}

-----------------------------------------------------------------------------
AsmAt(pc) == asm.pc = pc
AsmGoto(pc) == asm' = [asm EXCEPT !.pc = pc]

CsvStored(d) == /\ enriched[d] = "none" /\ enriched' = [enriched EXCEPT ![d] = "stored"]
                /\ UNCHANGED <<activeSet, webGen, bundles, work, asm, report, webFaults>>
(* The staging objects are deleted after 14 days, their index rows stay.   *)
CsvExpires(d) == /\ enriched[d] = "stored" /\ enriched' = [enriched EXCEPT ![d] = "expired"]
                 /\ UNCHANGED <<activeSet, webGen, bundles, work, asm, report, webFaults>>
SetPromoted(m) == /\ activeSet # m /\ activeSet' = m
                  /\ UNCHANGED <<enriched, webGen, bundles, work, asm, report, webFaults>>

(* write_web_asof of daily.yml.                                            *)
StartDailyBundle(d) ==
    /\ AsmAt("idle") /\ enriched[d] = "stored"
    /\ asm' = [NoAsm EXCEPT !.pc = "download", !.mode = "daily", !.put = TRUE, !.date = d, !.tries = 1]
    /\ work' = [work EXCEPT !["daily"] = FreshDir]
    /\ UNCHANGED <<enriched, activeSet, webGen, bundles, report, webFaults>>

(* Mutant: any put file of a date says that it is done.                    *)
PutOkWhateverItSays(d) == work["backfill"].puts[d] # "none"
(* _put_ok: exit code 0, which is that of an assembly without --put, too.  *)
PutOk(d) == work["backfill"].puts[d] \in {"assembled", "ok"}
Remaining(dates) == {d \in dates : ~PutOk(d)}

(* main: the dates with a committed CSV, each once, up to the limit.       *)
Candidate(dates) ==
    LET listed == {d \in AsOfs : enriched[d] # "none"} IN
    /\ dates \subseteq listed /\ dates # {}
    /\ Cardinality(dates) <= Requested
    /\ dates = listed \/ Cardinality(dates) = Requested
StartBackfill(put, dates) ==
    /\ AsmAt("idle") /\ Candidate(dates)
    /\ asm' = [NoAsm EXCEPT !.pc = "pass", !.mode = "backfill", !.put = put, !.dates = dates,
                            !.todo = Remaining(dates), !.pass = 1]
    /\ report' = Silent
    /\ UNCHANGED <<enriched, activeSet, webGen, bundles, work, webFaults>>

(* Whether the stores are in the directory is looked at once for a date.   *)
HasPrices == "ohlc_zip" \in Dir.has
NextDate(d) ==
    /\ AsmAt("pass") /\ d \in asm.todo
    /\ asm' = [asm EXCEPT !.pc = "download", !.date = d, !.skip = HasPrices, !.tries = 1]
    /\ UNCHANGED <<enriched, activeSet, webGen, bundles, work, report, webFaults>>

(* backfill_coverage_status: fewer dates than asked for is no success.     *)
CoverageStatus(dates) ==
    IF Remaining(dates) # {} THEN "error" ELSE IF Cardinality(dates) < Requested THEN "not_met" ELSE "ok"

(* Another pass over what remains, as long as the last one got somewhere.  *)
PassEnds ==
    LET again == asm.progressed /\ asm.pass < MaxWebPasses /\ Remaining(asm.dates) # {} IN
    /\ AsmAt("pass") /\ asm.todo = {}
    /\ IF again THEN /\ asm' = [asm EXCEPT !.todo = Remaining(asm.dates), !.pass = @ + 1, !.progressed = FALSE]
                     /\ UNCHANGED report
       ELSE /\ asm' = NoAsm
            /\ report' = [status |-> CoverageStatus(asm.dates), put |-> asm.put, dates |-> asm.dates]
    /\ UNCHANGED <<enriched, activeSet, webGen, bundles, work, webFaults>>

(* An attempt is over: the daily job has one, the backfill tries a date    *)
(* again until one exits with 0.                                           *)
AttemptEnds(good) ==
    asm' = IF asm.mode = "daily" THEN NoAsm
           ELSE IF ~good /\ asm.tries < MaxTries
           THEN [asm EXCEPT !.pc = "download", !.tries = @ + 1]
           ELSE [asm EXCEPT !.pc = "pass", !.todo = @ \ {asm.date}, !.progressed = @ \/ good]
\* The daily runner and its directory are gone after its only attempt.
LeftBehind(dir) == [work EXCEPT ![asm.mode] = IF asm.mode = "daily" THEN FreshDir ELSE dir]

(* An exception leaves no put file behind, or the one from before.         *)
AttemptRaisesIn(dir) == AttemptEnds(FALSE) /\ work' = LeftBehind(dir)
AttemptRaises == AttemptRaisesIn(Dir)
(* cmd_assemble prints its result, and writes it down.                     *)
AttemptSays(result) ==
    /\ AttemptEnds(result # "error")
    /\ work' = LeftBehind([Dir EXCEPT !.puts[asm.date] = result])

-----------------------------------------------------------------------------
UniverseCsv(d) == [csv |-> d, source |-> "universe"]
(* Mutant: a directory with the stores is taken to have the date's CSV.    *)
CsvFileKept(d) == IF asm.skip THEN Dir.csv ELSE [csv |-> d, source |-> "enriched"]
(* _download_enriched_csv: the CSV of the date; once its object is gone    *)
(* the backfill, and only it, makes one of the codes in the store.         *)
CsvFile(d) ==
    IF enriched[d] = "stored" THEN [csv |-> d, source |-> "enriched"]
    ELSE IF asm.mode = "backfill" THEN UniverseCsv(d) ELSE NoCsvFile

(* The archives of the two stores, unless that of the prices lies there,   *)
(* then the CSV; a call may fail in between.                               *)
Brought(files) == [Dir EXCEPT !.has = IF asm.skip THEN @ ELSE @ \cup files]
Download ==
    /\ AsmAt("download")
    /\ IF CsvFile(asm.date) = NoCsvFile THEN AttemptRaises
       ELSE /\ work' = [work EXCEPT ![asm.mode] =
                            [Brought({"ohlc_zip", "index_zip"}) EXCEPT !.csv = CsvFile(asm.date)]]
            /\ AsmGoto("extract")
    /\ UNCHANGED <<enriched, activeSet, webGen, bundles, report, webFaults>>

(* The stores are extracted, unless the download was skipped and there is  *)
(* a directory of prices, whatever is in it.                               *)
ExtractsStores == ~asm.skip \/ "daily_dir" \notin Dir.has
Extracted(codes) == [Dir EXCEPT !.has = @ \cup {"daily_dir"}, !.held = @ \cup codes]
Extract ==
    /\ AsmAt("extract")
    /\ IF ~ExtractsStores THEN AsmGoto("freeze") /\ UNCHANGED work
       ELSE IF "index_zip" \notin Dir.has THEN AttemptRaisesIn(Extracted(WebCodes))
       ELSE /\ work' = [work EXCEPT ![asm.mode] = [Extracted(WebCodes) EXCEPT !.has = @ \cup {"index_dir"}]]
            /\ AsmGoto("freeze")
    /\ UNCHANGED <<enriched, activeSet, webGen, bundles, report, webFaults>>

(* freeze_asof: every code of the CSV with a bar on the date; a file that  *)
(* cannot be read, or has lost that bar, is passed over in silence.  The   *)
(* row is stamped with the date whatever the CSV says.                     *)
Kept(d, lost) == {c \in Dir.held \ lost : d \in BarOn[c]}
Freeze(lost) ==
    LET d == asm.date IN
    /\ AsmAt("freeze") /\ lost \subseteq Dir.torn
    /\ IF d \notin IndexBars \/ "index_dir" \notin Dir.has THEN AttemptRaises
       ELSE /\ work' = [work EXCEPT ![asm.mode].frozen =
                            [csv |-> Dir.csv.csv, source |-> Dir.csv.source, codes |-> Kept(d, lost), set |-> "-"]]
            /\ AsmGoto("project")
    /\ UNCHANGED <<enriched, activeSet, webGen, bundles, report, webFaults>>

(* sma75_cas_allowed, at 98 %: of few codes, all with the lookback need a  *)
(* value, and there must be one.                                           *)
Sma75Allowed(codes, valued) == LET eligible == codes \cap LongHistory IN
    eligible # {} /\ eligible \subseteq valued

(* validate_web_asof_bundle: rows, each with the values of its series'     *)
(* last bar, which is that of the date.                                    *)
Valid(frozen) == frozen.codes # {} /\ \A c \in frozen.codes : asm.date \in BarOn[c]

(* The active set is read only now, and must be one with a catalog; then   *)
(* the frozen rows become the two payloads.                                *)
AsmBinds == asm' = [asm EXCEPT !.pc = "begin", !.set = ActiveSetNow]
Project(valued) ==
    /\ AsmAt("project")
    /\ IF ~Valid(Dir.frozen) \/ ~Sma75Allowed(Dir.frozen.codes, valued)
       THEN AttemptRaises
       ELSE IF asm.put THEN /\ AsmBinds /\ UNCHANGED work
       ELSE AttemptSays("assembled")
    /\ UNCHANGED <<enriched, activeSet, webGen, bundles, report, webFaults>>

Identity == <<asm.date, asm.set>>
MayBegin == asm.mode = "daily" \/ webGen[Identity] \in {"none", "pending"}
GenBecomes(state) ==
    webGen' = IF asm.mode = "daily" THEN webGen ELSE [webGen EXCEPT ![Identity] = state]

(* The backfill's identity of a date and set is always the same one; the   *)
(* daily job's carries the id of its run.                                  *)
BeginBundle ==
    /\ AsmAt("begin")
    /\ IF MayBegin THEN GenBecomes("pending") /\ AsmGoto("commit") /\ UNCHANGED work
       ELSE AttemptSays("error") /\ UNCHANGED webGen
    /\ UNCHANGED <<enriched, activeSet, bundles, report, webFaults>>

Served == [bundles EXCEPT ![asm.date] = [Dir.frozen EXCEPT !.set = asm.set]]

(* run_web_asof_generation from the first registration to the commit.      *)
CommitBundle ==
    /\ AsmAt("commit")
    /\ GenBecomes("committed") /\ bundles' = Served
    /\ AttemptSays("ok")
    /\ UNCHANGED <<enriched, activeSet, report, webFaults>>

(* A call of it fails: the generation is failed and the result says so; or *)
(* that fails, too, and so it does once a commit has only lost its answer. *)
BundleFails(failed, committed) ==
    /\ AsmAt("commit") /\ webFaults < MaxWebFaults /\ webFaults' = webFaults + 1
    /\ IF failed THEN /\ ~committed /\ GenBecomes("failed") /\ AttemptSays("error") /\ UNCHANGED bundles
       ELSE /\ \/ committed /\ GenBecomes("committed") /\ bundles' = Served
               \/ ~committed /\ \E s \in {"pending", "sealed"} : GenBecomes(s) /\ UNCHANGED bundles
            /\ AttemptRaises
    /\ UNCHANGED <<enriched, activeSet, report>>

(* Any other call fails, and what the archives had come to by then stays,  *)
(* or, killed, what was extracted by then and a file that is cut off.      *)
CutOff(codes, cut) == [Extracted(codes) EXCEPT !.torn = @ \cup cut]
Archives == {Brought({}), Brought({"ohlc_zip"}), Brought({"ohlc_zip", "index_zip"})}
PartWay ==
    CASE AsmAt("download") -> Archives
      [] AsmAt("extract") /\ ExtractsStores ->
             {Dir} \cup {CutOff(codes, cut) : codes \in SUBSET WebCodes,
                                            cut \in {{}} \cup {{c} : c \in WebCodes}}
      [] OTHER -> {Dir}

CallRaises ==
    /\ asm.pc \in {"download", "project", "begin"} /\ webFaults < MaxWebFaults
    /\ webFaults' = webFaults + 1
    /\ \E dir \in PartWay : AttemptRaisesIn(dir)
    /\ UNCHANGED <<enriched, activeSet, webGen, bundles, report>>

(* The process is killed; the work directory of the backfill stays.        *)
AsmKilled ==
    /\ ~AsmAt("idle") /\ webFaults < MaxWebFaults /\ webFaults' = webFaults + 1
    /\ asm' = NoAsm
    /\ \E dir \in PartWay : work' = LeftBehind(dir)
    /\ \/ UNCHANGED <<webGen, bundles>>
       \/ AsmAt("commit") /\ \E s \in {"sealed", "committed"} :
            GenBecomes(s) /\ bundles' = IF s = "committed" THEN Served ELSE bundles
    /\ UNCHANGED <<enriched, activeSet, report>>

WebNext ==
    \/ \E d \in AsOfs : CsvStored(d) \/ CsvExpires(d) \/ StartDailyBundle(d) \/ NextDate(d)
    \/ \E m \in WebSets : SetPromoted(m)
    \/ \E put \in BOOLEAN, dates \in SUBSET AsOfs : StartBackfill(put, dates)
    \/ Download \/ Extract \/ BeginBundle \/ CommitBundle \/ PassEnds
    \/ \E codes \in SUBSET WebCodes : Freeze(codes) \/ Project(codes)
    \/ \E failed, committed \in BOOLEAN : BundleFails(failed, committed)
    \/ CallRaises \/ AsmKilled

WebSpec == WebInit /\ [][WebNext]_webVars

-----------------------------------------------------------------------------
(* A served bundle was made of its own date's CSV and of codes with a bar  *)
(* on that date, although the backfill uses one directory for all dates    *)
(* and keeps it over attempts, passes and kills.                           *)
BundleIsOfItsDate ==
    \A d \in AsOfs : bundles[d] # NoBundle =>
        bundles[d].csv = d /\ \A c \in bundles[d].codes : d \in BarOn[c]

(* A served bundle leaves out no code with a bar on its date, although     *)
(* archives and directories are taken over from attempts that failed or    *)
(* were killed: the indices are extracted last, and without them a date is *)
(* not assembled.  Only a code whose file a kill has cut may be missing:   *)
(* extracting over a directory that is whole leaves the indices in place.  *)
BundleIsWhole ==
    \A d \in AsOfs : bundles[d] # NoBundle =>
        \A c \in WebCodes \ work["backfill"].torn : d \in BarOn[c] => c \in bundles[d].codes

(* A date whose put file says so is served; so where no assembly without   *)
(* --put has left its file, a report of "ok" means every date is served.   *)
ReportedIsServed ==
    (report.status \in {"ok", "not_met"} /\ report.put) =>
        \A d \in report.dates : bundles[d] # NoBundle \/ work["backfill"].puts[d] = "assembled"

(* All that is claimed of the bundles and what is reported of them.        *)
WebSafe == WebTypeOK /\ BundleIsOfItsDate /\ BundleIsWhole /\ ReportedIsServed
==============================================================================
