----------------------------- MODULE PriceStore -----------------------------
(***************************************************************************)
(* The price stores of the daily run (daily.yml): the stores come from the *)
(* warm cache, ensure_core_cache and ensure_index_cache bring every file   *)
(* up to the run date, the stores are archived for the next run, and       *)
(* compute_indicators_for_core makes the CSV of the date, or refuses.      *)
(* The provider publishes the bars of a day late, or never for a suspended *)
(* code, and any fetch may fail; a run may be a replay of an earlier date. *)
(* A store whose warm copy cannot be read starts empty.                    *)
(***************************************************************************)
EXTENDS FiniteSets, Naturals

CONSTANTS
    CoreCodes,     \* the codes of the core CSV
    Bench,         \* the benchmark indices
    NumPriceDays,  \* bound: trading days
    Required,      \* required_days: bars a file needs
    Window,        \* days a full fetch covers, and RETENTION_DAYS of the archive
    MaxPasses,     \* get_stale_retry_max_passes
    Threshold,     \* get_stale_allow_continue_max_count
    NoDate         \* no exclusions file

ASSUME PriceAssumption ==
    /\ NumPriceDays \in Nat \ {0} /\ Required \in Nat \ {0} /\ Window \in Nat \ {0}
    /\ MaxPasses \in Nat \ {0} /\ Threshold \in Nat
    /\ IsFiniteSet(CoreCodes) /\ CoreCodes \cap Bench = {} /\ NoDate \notin Nat

VARIABLES
    priceDay,  \* the calendar
    market,    \* the bars the provider has: [Symbols -> SUBSET TradingDays]
    warm,      \* the archived stores of the warm cache
    disk,      \* the stores of the running jobs
    ensure,    \* the two ensure jobs: [JobKinds -> [pc, todo, passes, status]]
    priceRun,  \* the daily run: [pc, date, replay]
    csv        \* what the run made of indicators_<date>.csv: [kind, codes]

priceVars == <<priceDay, market, warm, disk, ensure, priceRun, csv>>

TradingDays == 1..NumPriceDays
JobKinds == {"core", "index"}
Symbols == CoreCodes \cup Bench
SymbolsOf(k) == IF k = "core" THEN CoreCodes ELSE Bench
Statuses == {"missing", "ok", "stale", "insufficient", "failed"}

Last(bars) == CHOOSE d \in bars : \A e \in bars : e <= d
NoBars == [bars |-> {}, whole |-> TRUE]
NoExclusions == [date |-> NoDate, codes |-> {}]
EmptyStore == [file |-> [s \in Symbols |-> NoBars], exclusions |-> NoExclusions]
NoCsv == [kind |-> "none", codes |-> {}]
IdleJob == [pc |-> "idle", todo |-> {}, passes |-> 0, status |-> [s \in Symbols |-> "missing"]]

PriceInit ==
    /\ priceDay = 1
    /\ market = [s \in Symbols |-> {}]
    /\ warm = EmptyStore /\ disk = EmptyStore
    /\ ensure = [k \in JobKinds |-> IdleJob]
    /\ priceRun = [pc |-> "idle", date |-> 1, replay |-> FALSE]
    /\ csv = NoCsv

Stores == [file : [Symbols -> [bars : SUBSET TradingDays, whole : BOOLEAN]],
           exclusions : [date : TradingDays \cup {NoDate}, codes : SUBSET CoreCodes]]
PriceTypeOK ==
    /\ priceDay \in TradingDays /\ market \in [Symbols -> SUBSET TradingDays]
    /\ warm \in Stores /\ disk \in Stores
    /\ ensure \in [JobKinds -> [pc : {"idle", "pass", "archive", "done", "failed"}, todo : SUBSET Symbols,
                          passes : 0..MaxPasses, status : [Symbols -> Statuses]]]
    /\ priceRun \in [pc : {"idle", "ensure", "compute"}, date : TradingDays, replay : BOOLEAN]
    /\ csv.kind \in {"none", "rows", "stale", "failed"} /\ csv.codes \subseteq CoreCodes

-----------------------------------------------------------------------------
NewDay == /\ priceDay < NumPriceDays /\ priceDay' = priceDay + 1
          /\ UNCHANGED <<market, warm, disk, ensure, priceRun, csv>>

PublishBar(s, d) ==
    /\ d <= priceDay /\ d \notin market[s]
    /\ market' = [market EXCEPT ![s] = @ \cup {d}]
    /\ UNCHANGED <<priceDay, warm, disk, ensure, priceRun, csv>>

(* restore_*_store: the directory is replaced by the zip, or by an empty   *)
(* one when get-fixed found none; load_cache reads a file of it.           *)
RestoredCore(hits, s) == IF "core" \in hits THEN warm.file[s] ELSE NoBars
RestoredIndex(hits, s) == IF "index" \in hits THEN warm.file[s] ELSE NoBars
CachedFile(s) == disk.file[s]
(* The job begins with every code to look at and a manifest read once.     *)
BegunJob(k) == [IdleJob EXCEPT !.pc = "pass", !.todo = SymbolsOf(k), !.passes = 1]

StartRun(date, hits) ==
    /\ priceRun.pc = "idle" /\ date <= priceDay
    /\ priceRun' = [pc |-> "ensure", date |-> date, replay |-> date < priceDay]
    /\ disk' = [file |-> [s \in Symbols |->
                            IF s \in CoreCodes THEN RestoredCore(hits, s) ELSE RestoredIndex(hits, s)],
                exclusions |-> IF "core" \in hits THEN warm.exclusions ELSE NoExclusions]
    /\ ensure' = [k \in JobKinds |-> BegunJob(k)]
    /\ csv' = NoCsv
    /\ UNCHANGED <<priceDay, market, warm>>

-----------------------------------------------------------------------------
(* classify_cache_row_status: too few bars come before a missing last bar. *)
FetchStatus(file, date) ==
    IF file.bars = {} \/ Cardinality(file.bars) < Required THEN "insufficient"
    ELSE IF Last(file.bars) < date THEN "stale" ELSE "ok"

(* The same from the disk, where missing columns make a file insufficient. *)
StatusOnDisk(file, date) == IF ~file.whole THEN "insufficient" ELSE FetchStatus(file, date)

(* What a fetch returns, from a first day on and never beyond the run date.*)
Fetched(s, first) == {d \in market[s] : first <= d /\ d <= priceRun.date}
WindowStart == IF priceDay < Window THEN 1 ELSE priceDay - Window + 1

TooShort(file) == Cardinality(file.bars) < Required \/ ~file.whole
UpToDate(file) == ~TooShort(file) /\ Last(file.bars) >= priceRun.date

(* The bars after the last one, asked for only where a file lacks nothing  *)
(* else: none, when the provider has none or does not answer.              *)
NewerBars(s, answered) ==
    IF answered /\ ~TooShort(CachedFile(s)) THEN Fetched(s, Last(CachedFile(s).bars) + 1) ELSE {}

Ensured(k, s, file, status) ==
    /\ disk' = [disk EXCEPT !.file[s] = file]
    /\ ensure' = [ensure EXCEPT ![k].todo = @ \ {s}, ![k].status[s] = status]

(* Everything is fetched again and replaces the file, or the file stays.   *)
RefetchAll(k, s, answered, whole) ==
    LET all == [bars |-> Fetched(s, WindowStart), whole |-> whole] IN
    IF answered /\ all.bars # {} THEN Ensured(k, s, all, FetchStatus(all, priceRun.date))
    ELSE Ensured(k, s, disk.file[s], "failed")

(* ensure_cache_with_incremental_fetch: a file that has the bars and the   *)
(* date stays; newer bars are added to one that only lacks those; where    *)
(* there are none, or the file lacks more, it is fetched again.  The old   *)
(* record of the manifest decides nothing.                                 *)
(* answer: the provider answers no call, the first one, only that for      *)
(* everything, or that one with columns missing.                           *)
Answers == {"none", "newer", "all", "broken"}
EnsureFile(k, s, answer) ==
    LET file == CachedFile(s)
        newer == NewerBars(s, answer = "newer")
        grown == [file EXCEPT !.bars = @ \cup newer]
    IN
    /\ ensure[k].pc = "pass" /\ s \in ensure[k].todo
    /\ IF UpToDate(file) THEN Ensured(k, s, file, "ok")
       ELSE IF newer # {} THEN Ensured(k, s, grown, FetchStatus(grown, priceRun.date))
       ELSE RefetchAll(k, s, answer # "none", answer # "broken")
    /\ UNCHANGED <<priceDay, market, warm, priceRun, csv>>

(* Another pass, over the codes that are stale by the last one.            *)
NextPass(k) ==
    LET stale == {s \in SymbolsOf(k) : ensure[k].status[s] = "stale"} IN
    /\ ensure[k].pc = "pass" /\ ensure[k].todo = {} /\ ensure[k].passes < MaxPasses /\ stale # {}
    /\ ensure' = [ensure EXCEPT ![k].todo = stale, ![k].passes = @ + 1]
    /\ UNCHANGED <<priceDay, market, warm, disk, priceRun, csv>>

(* Mutant: any number of stale codes is continued with.                    *)
MayContinueAlways(stale) == TRUE
MayContinue(stale) == Cardinality(stale) <= Threshold

(* Stale codes up to the threshold do not stop the core job, any stale     *)
(* benchmark stops the index job; otherwise one good file is enough.       *)
CoreGoesOn(stale, good) == IF stale # {} THEN MayContinue(stale) ELSE good # {}
IndexGoesOn(stale, good) == stale = {} /\ good # {}

(* Mutant: the exclusions file keeps the codes of the run before.          *)
ExclusionsKept(stale) == disk.exclusions
ExclusionsFor(stale) == IF stale = {} THEN NoExclusions ELSE [date |-> priceRun.date, codes |-> stale]

(* The end of the job: the manifest is rebuilt from the disk, the stale    *)
(* codes are written down (or the file of an earlier run removed), and the *)
(* exit code is chosen.                                                    *)
Reconcile(k) ==
    LET seen == [s \in Symbols |-> IF s \in SymbolsOf(k)
                                   THEN StatusOnDisk(disk.file[s], priceRun.date) ELSE "missing"]
        With(status) == {s \in SymbolsOf(k) : seen[s] = status}
        goes == IF k = "core" THEN CoreGoesOn(With("stale"), With("ok"))
                ELSE IndexGoesOn(With("stale"), With("ok"))
    IN
    /\ ensure[k].pc = "pass" /\ ensure[k].todo = {}
    /\ ensure[k].passes = MaxPasses \/ \A s \in SymbolsOf(k) : ensure[k].status[s] # "stale"
    /\ ensure' = [ensure EXCEPT ![k].status = seen, ![k].pc = IF goes THEN "archive" ELSE "failed"]
    /\ disk' = IF k = "core" THEN [disk EXCEPT !.exclusions = ExclusionsFor(With("stale"))] ELSE disk
    /\ UNCHANGED <<priceDay, market, warm, priceRun, csv>>

-----------------------------------------------------------------------------
(* archive_ohlc_store prunes the core store, archive_index_store nothing.  *)
Pruned(k, bars) == IF k = "core" THEN {d \in bars : d + Window > priceDay} ELSE bars

(* Mutant: the store of a replay becomes the warm copy, too.               *)
ShouldRotateAlways(replay) == TRUE
ShouldRotate(replay) == ~replay

ZippedFile(k, s) ==
    LET bars == Pruned(k, disk.file[s].bars) IN
    [bars |-> bars, whole |-> bars = {} \/ disk.file[s].whole]
WithZip(k, store) ==
    [file |-> [s \in Symbols |-> IF s \in SymbolsOf(k) THEN ZippedFile(k, s) ELSE store.file[s]],
     exclusions |-> IF k = "core" THEN disk.exclusions ELSE store.exclusions]

(* The zip, its hand-over to compute and, unless this is a replay, the     *)
(* warm copy for the next run, which may fail.                             *)
Archive(k, saved) ==
    /\ ensure[k].pc = "archive"
    /\ disk' = WithZip(k, disk)
    /\ warm' = IF saved /\ ShouldRotate(priceRun.replay) THEN WithZip(k, warm) ELSE warm
    /\ ensure' = [ensure EXCEPT ![k].pc = IF saved THEN "done" ELSE "failed"]
    /\ UNCHANGED <<priceDay, market, priceRun, csv>>

(* The runners and their disks are gone.                                   *)
RunEnds == priceRun' = [priceRun EXCEPT !.pc = "idle"] /\ disk' = EmptyStore /\ ensure' = [k \in JobKinds |-> IdleJob]

JobsEnd ==
    /\ priceRun.pc = "ensure"
    /\ \A k \in JobKinds : ensure[k].pc \in {"done", "failed"}
    /\ IF \A k \in JobKinds : ensure[k].pc = "done"
       THEN priceRun' = [priceRun EXCEPT !.pc = "compute"] /\ UNCHANGED <<disk, ensure>>
       ELSE RunEnds
    /\ UNCHANGED <<priceDay, market, warm, csv>>

-----------------------------------------------------------------------------
UpTo(bars) == {d \in bars : d <= priceRun.date}
Behind(s) == UpTo(CachedFile(s).bars) # {} /\ priceRun.date \notin CachedFile(s).bars

(* load_stale_exclusions: a file of another date excludes nothing.         *)
Excluded == IF disk.exclusions.date = priceRun.date THEN disk.exclusions.codes ELSE {}

(* Mutant: a code whose last bar is older gets its row from that one.      *)
StaleCodesNone == {}
(* _compute_one_code answers "stale_ohlc".                                 *)
StaleCodes == {c \in CoreCodes \ Excluded : Behind(c)}

(* The benchmarks that can be read must have the date's bar, those that    *)
(* cannot are left out, but not all.                                       *)
BenchOutcome ==
    IF \A b \in Bench : disk.file[b].bars = {} THEN "failed"
    ELSE IF \E b \in Bench : Behind(b) THEN "stale" ELSE "rows"

(* main: benchmarks first, then every code that is not excluded.  A code   *)
(* without bars is only counted, and too many of them fail the run though  *)
(* its CSV has been written.                                               *)
Compute ==
    LET rows == {c \in CoreCodes \ Excluded : UpTo(disk.file[c].bars) # {}}
        missing == (CoreCodes \ Excluded) \ rows
        Outcome(kind, codes) == csv' = [kind |-> kind, codes |-> codes]
    IN
    /\ priceRun.pc = "compute"
    /\ IF BenchOutcome # "rows" THEN Outcome(BenchOutcome, {})
       ELSE IF StaleCodes # {} THEN Outcome("stale", {})
       ELSE IF rows = {} \/ 2 * Cardinality(missing) > Cardinality(CoreCodes) THEN Outcome("failed", {})
       ELSE Outcome("rows", rows)
    /\ RunEnds
    /\ UNCHANGED <<priceDay, market, warm>>

PriceNext ==
    \/ NewDay
    \/ \E s \in Symbols, d \in TradingDays : PublishBar(s, d)
    \/ \E date \in TradingDays, hits \in SUBSET JobKinds : StartRun(date, hits)
    \/ \E k \in JobKinds :
        \/ \E s \in Symbols, answer \in Answers : EnsureFile(k, s, answer)
        \/ NextPass(k) \/ Reconcile(k)
        \/ \E saved \in BOOLEAN : Archive(k, saved)
    \/ JobsEnd \/ Compute

PriceSpec == PriceInit /\ [][PriceNext]_priceVars

-----------------------------------------------------------------------------
(* The rows of a date's CSV are codes whose bar of that very date the      *)
(* provider had, however old the store was and whatever was excluded; and  *)
(* no more codes than the policy allows are left out for being late.       *)
CsvIsOfItsDate ==
    csv.kind = "rows" => \A c \in csv.codes : priceRun.date \in market[c]
FewAreLeftOut ==
    priceRun.pc = "compute" => Cardinality({c \in CoreCodes : Behind(c) /\ c \in Excluded}) <= Threshold

(* Once both ensure jobs have let the run go on, compute refuses it only   *)
(* over a file that is too short (no retry and no exclusion look at it) or *)
(* one with a hole at a replayed date: never over a late code, which the   *)
(* exclusions name.                                                        *)
ContinuedIsComputable ==
    priceRun.pc = "compute" =>
        \A s \in Bench \cup (CoreCodes \ Excluded) : Behind(s) =>
            \/ StatusOnDisk(disk.file[s], priceRun.date) = "insufficient"
            \/ \E d \in disk.file[s].bars : d > priceRun.date

(* The warm copy of a code loses a bar that is not yet to be pruned only   *)
(* together with all its bars (the copy could not be read, the run started *)
(* from nothing and the code's fetch failed): neither the replay of an old *)
(* date nor the full fetch that replaces a file makes its history shorter. *)
WarmKeepsBars ==
    [][\A c \in CoreCodes, d \in TradingDays :
         d \in warm.file[c].bars /\ d \notin warm'.file[c].bars /\ d + Window > priceDay
         => warm'.file[c].bars = {}]_priceVars

(* All that is claimed of the price store and the CSV made from it.        *)
PriceSafe ==
    /\ []PriceTypeOK /\ []CsvIsOfItsDate /\ []FewAreLeftOut /\ []ContinuedIsComputable
    /\ WarmKeepsBars
=============================================================================
