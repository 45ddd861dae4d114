----------------------------- MODULE EventCause -----------------------------
(***************************************************************************)
(* The news behind a surge in turnover.  For the stocks the selection      *)
(* rules pick out of a day's indicators, three jobs run one after the      *)
(* other: fetch_external_events_for_spikes reads the news sites,           *)
(* rank_turnover_event_causes scores what was read and gives each stock a  *)
(* cause A, B or C, build_daily_event_cause_enriched_csv adds cause and    *)
(* news to the indicators.  The sheet is rendered of the enriched CSV, or  *)
(* of the plain one when the run has none (daily.yml).                     *)
(*                                                                         *)
(* A date may be run again later, when more has been published, in a       *)
(* workspace that holds the files of an earlier run or on a new runner; an *)
(* attempt that is re-run finds what the earlier one staged.               *)
(***************************************************************************)
EXTENDS Integers, FiniteSets

CONSTANTS
    NewsStocks,    \* the codes of the indicators
    NumNewsDays,   \* days of the calendar
    NewsMonth,     \* [Days -> the month Kabutan lists the day under]
    NewsLookback,  \* days before the run date that are searched, 20 in the workflow
    Published,     \* [news items, numbers -> [stock, at: moment, named: title names the company,
                   \*  on: the kinds of entry it appears as]]
    TdnetRows,     \* disclosures of a day on the pages that are read, the newest
    TopN,          \* news columns of the sheet, 3
    MaxCauseRuns,  \* bound: runs
    MaxAttempts    \* bound: attempts of a run

ASSUME CauseAssumption ==
    /\ NumNewsDays \in Nat \ {0} /\ NewsLookback \in Nat /\ MaxCauseRuns \in Nat /\ MaxAttempts \in Nat \ {0}
    /\ \A i \in DOMAIN Published : Published[i].at \in Nat

NewsDays == 1..NumNewsDays
\* Two moments a day: up to the cutoff at 15:30, and after it.
Moments == 2..2 * NumNewsDays + 1
DayOfMoment(m) == m \div 2
Cutoff(d) == 2 * d

Kinds == {"tdnet", "disclosure", "material", "market", "feature"}
Causes == {"A", "B", "C"}

VARIABLES
    moment,      \* the clock
    causeRun,    \* the run under way
    causeFiles,  \* [NewsDays -> the files of the date in the workspace]
    stagedCsv,   \* artifact-enriched-csv of the run
    sheet,       \* the CSV the sheet was rendered of
    cleanRuns    \* history: runs past the cutoff that read every page

causeVars == <<moment, causeRun, causeFiles, stagedCsv, sheet, cleanRuns>>

Entries == {[item |-> i, kind |-> k] : i \in DOMAIN Published, k \in Kinds}
Item(e) == Published[e.item]
NoRow == [cause |-> "", news |-> {}]
NoCsvYet == [exists |-> FALSE, rows |-> [s \in NewsStocks |-> NoRow]]
NoSummary == [exists |-> FALSE, cause |-> [s \in NewsStocks |-> ""]]
NoFilesYet == [events |-> {}, summary |-> NoSummary, candidates |-> {}]
NoCauseRun == [id |-> 0, attempt |-> 0, pc |-> "over", date |-> 1, picked |-> {}, read |-> {},
               clean |-> FALSE, built |-> NoCsvYet]

CauseInit ==
    /\ moment = 2 /\ causeRun = NoCauseRun /\ causeFiles = [d \in NewsDays |-> NoFilesYet]
    /\ stagedCsv = NoCsvYet /\ sheet = NoCsvYet /\ cleanRuns = {}

CauseStep(pc) == causeRun' = [causeRun EXCEPT !.pc = pc]

TimePasses ==
    /\ moment + 1 \in Moments
    /\ moment' = moment + 1
    /\ UNCHANGED <<causeRun, causeFiles, stagedCsv, sheet, cleanRuns>>

\* S: the stocks the selection rules pick, by the indicators this attempt has.
StartCauseRun(d, S, fresh) ==
    /\ causeRun.pc = "over" /\ causeRun.id < MaxCauseRuns /\ d <= DayOfMoment(moment)
    /\ causeRun' = [NoCauseRun EXCEPT !.id = causeRun.id + 1, !.attempt = 1, !.pc = "kabutan", !.date = d,
                                      !.picked = S, !.clean = moment > Cutoff(d)]
    /\ causeFiles' = IF fresh THEN [e \in NewsDays |-> NoFilesYet] ELSE causeFiles
    /\ stagedCsv' = NoCsvYet /\ sheet' = NoCsvYet
    /\ UNCHANGED <<moment, cleanRuns>>

\* The jobs of the run again, on new runners: the artifacts keep the run's keys.
RerunAttempt(S) ==
    /\ causeRun.pc = "over" /\ causeRun.attempt \in 1..MaxAttempts-1
    /\ causeRun' = [causeRun EXCEPT !.attempt = @ + 1, !.pc = "kabutan", !.picked = S, !.read = {},
                                    !.clean = moment > Cutoff(causeRun.date), !.built = NoCsvYet]
    /\ causeFiles' = [e \in NewsDays |-> NoFilesYet]
    /\ UNCHANGED <<moment, stagedCsv, sheet, cleanRuns>>

(***************************************************************************)
(* fetch_external_events_for_spikes                                        *)
(***************************************************************************)
WindowDays(d) == {e \in NewsDays : d - NewsLookback <= e /\ e <= d}

Seen(e) == e.kind \in Item(e).on /\ Item(e).at <= moment
InWindow(e, d) == DayOfMoment(Item(e).at) \in WindowDays(d)

\* Kabutan, a page for each stock and month.  A page that fails is passed
\* over with a warning.  The list is one of the stock asked for; features are left out.
KabutanPages == causeRun.picked \X {NewsMonth[e] : e \in WindowDays(causeRun.date)}
FetchKabutan(failed) ==
    /\ causeRun.pc = "kabutan" /\ failed \subseteq KabutanPages
    /\ causeRun' = [causeRun EXCEPT
         !.pc = IF causeRun.picked = {} THEN "rank" ELSE "tdnet",
         !.clean = @ /\ failed = {},
         !.read = {e \in Entries : /\ Seen(e) /\ e.kind \notin {"tdnet", "feature"}
                                   /\ <<Item(e).stock, NewsMonth[DayOfMoment(Item(e).at)]>> \in KabutanPages \ failed
                                   /\ InWindow(e, causeRun.date)}]
    /\ UNCHANGED <<moment, causeFiles, stagedCsv, sheet, cleanRuns>>

\* TDnet, the disclosures of all issuers by day, newest first and of the first
\* pages only.
Disclosures(d) == {e \in Entries : e.kind = "tdnet" /\ Seen(e) /\ DayOfMoment(Item(e).at) = d}
Listed(d) == {e \in Disclosures(d) : Cardinality({f \in Disclosures(d) : f.item > e.item}) < TdnetRows}
FetchTdnet(failed) ==
    /\ causeRun.pc = "tdnet" /\ failed \subseteq WindowDays(causeRun.date)
    /\ causeRun' = [causeRun EXCEPT !.pc = "write",
         !.clean = @ /\ failed = {} /\ \A d \in WindowDays(causeRun.date) : Listed(d) = Disclosures(d),
         !.read = @ \union {e \in UNION {Listed(d) : d \in WindowDays(causeRun.date) \ failed} :
                              Item(e).stock \in causeRun.picked}]
    /\ UNCHANGED <<moment, causeFiles, stagedCsv, sheet, cleanRuns>>

\* _is_within_cutoff
WithinCutoffAlways(e, d) == TRUE
WithinCutoff(e, d) == Item(e).at <= Cutoff(d)

\* One entry of an item that several lists show: TDnet's.
Preferred(S) == {e \in S : e.kind = "tdnet" \/ \A f \in S : f.item = e.item => f.kind # "tdnet"}

\* The events file is written anew.
WrittenAppended(old, new) == old \union new
Written(old, new) == new

WriteEvents ==
    /\ causeRun.pc = "write"
    /\ LET kept == Preferred({e \in causeRun.read : WithinCutoff(e, causeRun.date)})
       IN  /\ causeRun' = [causeRun EXCEPT !.pc = "rank", !.read = kept]
           /\ causeFiles' = [causeFiles EXCEPT ![causeRun.date].events = Written(@, kept)]
    /\ UNCHANGED <<moment, stagedCsv, sheet, cleanRuns>>

(***************************************************************************)
(* rank_turnover_event_causes: scores and weights in hundredths            *)
(***************************************************************************)
Signal ==
    [tdnet      |-> [source |-> 100, issuer |-> 100, channel |-> 90, category |-> 50, document |-> 65, base |-> 90],
     disclosure |-> [source |-> 57, issuer |-> 85, channel |-> 78, category |-> 100, document |-> 60, base |-> 70],
     material   |-> [source |-> 57, issuer |-> 68, channel |-> 50, category |-> 80, document |-> 50, base |-> 70],
     market     |-> [source |-> 57, issuer |-> 25, channel |-> 30, category |-> 40, document |-> 50, base |-> 70],
     feature    |-> [source |-> 57, issuer |-> 25, channel |-> 35, category |-> 0, document |-> 50, base |-> 70]]

AgeToday(e, d) == DayOfMoment(moment) - DayOfMoment(Item(e).at)
Age(e, d) == d - DayOfMoment(Item(e).at)
TimeProximity(age) ==
    CASE age < 0 -> 0 [] age = 0 -> 100 [] age = 1 -> 90 [] age \in 2..5 -> 60 [] age \in 6..20 -> 35 [] OTHER -> 10

Score(e, d) ==
    LET s == Signal[e.kind]
    IN  22 * TimeProximity(Age(e, d)) + 16 * s.source + 10 * s.issuer + 16 * s.channel + 12 * s.category
        + 6 * s.document + 16 * (IF Item(e).named THEN 100 ELSE 0) + 2 * s.base

\* Ties keep the order of the events file.
Before(e, f) == Item(e).at < Item(f).at \/ (Item(e).at = Item(f).at /\ e.item < f.item)
Better(e, f, d) == Score(e, d) > Score(f, d) \/ (Score(e, d) = Score(f, d) /\ Before(e, f))
TopOf(S, n, d) == {e \in S : Cardinality({f \in S : Better(f, e, d)}) < n}
OfStock(S, s) == {e \in S : Item(e).stock = s}

\* classify_cause_type, of the best entry: the thresholds 0.58 and 0.72.
CauseOf(S, d) ==
    IF \A e \in TopOf(S, 1, d) : Score(e, d) < 5800 THEN "C"
    ELSE IF \A e \in TopOf(S, 1, d) : Score(e, d) >= 7200 /\ Signal[e.kind].channel >= 75
                                       /\ Signal[e.kind].category >= 70
         THEN "A" ELSE "B"

\* With no stock picked the job ends well and writes nothing.
RankCauses ==
    /\ causeRun.pc = "rank"
    /\ LET d == causeRun.date
           S == causeFiles[d].events
           cause == [s \in NewsStocks |-> IF s \in causeRun.picked THEN CauseOf(OfStock(S, s), d) ELSE ""]
       IN  causeFiles' = IF causeRun.picked = {} THEN causeFiles
                         ELSE [causeFiles EXCEPT ![d].summary = [exists |-> TRUE, cause |-> cause],
                                                 ![d].candidates = {e \in S : Item(e).stock \in causeRun.picked}]
    /\ CauseStep("build")
    /\ UNCHANGED <<moment, stagedCsv, sheet, cleanRuns>>

(***************************************************************************)
(* build_daily_event_cause_enriched_csv                                    *)
(***************************************************************************)
\* The rules are evaluated again, on the same indicators.
RowFor(s, files, d) ==
    LET cause == files.summary.cause[s]
    IN  IF cause \in {"", "C"} THEN [cause |-> "C", news |-> {}]
        ELSE [cause |-> cause, news |-> TopOf(OfStock(files.candidates, s), TopN, d)]

\* A summary that is missing ends the job, and so does a candidates file
\* without a line: it has no columns to read.
BuildEnriched ==
    LET d == causeRun.date
        files == causeFiles[d]
        rows == [s \in NewsStocks |-> IF s \in causeRun.picked THEN RowFor(s, files, d) ELSE NoRow]
        key == [date |-> d, picked |-> causeRun.picked, rows |-> rows]
    IN  /\ causeRun.pc = "build"
        /\ IF files.summary.exists /\ files.candidates # {}
           THEN /\ causeRun' = [causeRun EXCEPT !.pc = "put", !.built = [exists |-> TRUE, rows |-> rows]]
                /\ cleanRuns' = IF causeRun.clean THEN cleanRuns \union {key} ELSE cleanRuns
           ELSE CauseStep("render") /\ UNCHANGED cleanRuns
        /\ UNCHANGED <<moment, causeFiles, stagedCsv, sheet>>

(***************************************************************************)
(* Hand-over and render (daily.yml)                                        *)
(***************************************************************************)
PutEnriched(ok) ==
    /\ causeRun.pc = "put"
    /\ stagedCsv' = IF ok THEN causeRun.built ELSE stagedCsv
    /\ CauseStep("render")
    /\ UNCHANGED <<moment, causeFiles, sheet, cleanRuns>>

\* A job on the way fails or its runner is lost; the sheet is rendered all the same.
EnrichmentFails ==
    /\ causeRun.pc \in {"kabutan", "tdnet", "write", "rank", "build"}
    /\ CauseStep("render")
    /\ UNCHANGED <<moment, causeFiles, stagedCsv, sheet, cleanRuns>>

\* cmd_get: a staged CSV is used, one that is missing is no error, a get that
\* fails ends the job without a sheet.
RenderSheet(ok) ==
    /\ causeRun.pc = "render"
    /\ sheet' = IF ok THEN stagedCsv ELSE sheet
    /\ CauseStep("over")
    /\ UNCHANGED <<moment, causeFiles, stagedCsv, cleanRuns>>

CauseNext ==
    \/ TimePasses
    \/ \E d \in NewsDays, S \in SUBSET NewsStocks, fresh \in BOOLEAN : StartCauseRun(d, S, fresh)
    \/ \E S \in SUBSET NewsStocks : RerunAttempt(S)
    \/ \E failed \in SUBSET KabutanPages : FetchKabutan(failed)
    \/ \E failed \in SUBSET WindowDays(causeRun.date) : FetchTdnet(failed)
    \/ WriteEvents
    \/ RankCauses
    \/ BuildEnriched
    \/ \E ok \in BOOLEAN : PutEnriched(ok) \/ RenderSheet(ok)
    \/ EnrichmentFails

CauseSpec == CauseInit /\ [][CauseNext]_causeVars

(***************************************************************************)
(* Properties                                                              *)
(***************************************************************************)
CsvOk(c) == /\ c.exists \in BOOLEAN
            /\ \A s \in NewsStocks : c.rows[s].cause \in Causes \union {""} /\ c.rows[s].news \subseteq Entries

\* Types of the state.
CauseTypeOK ==
    /\ moment \in Moments
    /\ causeRun.pc \in {"over", "kabutan", "tdnet", "write", "rank", "build", "put", "render"}
    /\ causeRun.id \in 0..MaxCauseRuns /\ causeRun.attempt \in 0..MaxAttempts /\ causeRun.date \in NewsDays
    /\ causeRun.picked \subseteq NewsStocks /\ causeRun.read \subseteq Entries
    /\ \A c \in {stagedCsv, sheet, causeRun.built} : CsvOk(c)
    /\ \A d \in NewsDays : causeFiles[d].events \subseteq Entries /\ causeFiles[d].candidates \subseteq Entries

\* No news after the close: whenever a date is run, and whatever the sites show
\* by then, a sheet names only news of its stock that was published in the
\* window before the cutoff of the date.
NewsIsOfItsDate ==
    \A s \in NewsStocks : \A e \in sheet.rows[s].news :
        Item(e).stock = s /\ Item(e).at <= Cutoff(causeRun.date)
        /\ DayOfMoment(Item(e).at) >= causeRun.date - NewsLookback

\* The CSV is of this run's reading: in a workspace that holds the files of an
\* earlier run of the date, a row is filled for a picked stock only, and with
\* news this run read.
RowsAreOfThisRun ==
    causeRun.built.exists => \A s \in NewsStocks :
        /\ causeRun.built.rows[s].news \subseteq causeRun.read
        /\ s \notin causeRun.picked => causeRun.built.rows[s] = NoRow

\* A replay agrees: two runs of a date after its cutoff, of the same picked
\* stocks and with every page read to its end, give the same causes and news.
ReplayAgrees ==
    \A a, b \in cleanRuns : a.date = b.date /\ a.picked = b.picked => a.rows = b.rows

\* All that is claimed of the event causes.
CauseSafe == CauseTypeOK /\ NewsIsOfItsDate /\ RowsAreOfThisRun /\ ReplayAgrees
=============================================================================
