----------------------------- MODULE CronWatch -----------------------------
(***************************************************************************)
(* The watchdog of the scheduled jobs (jobs/cron_dispatch_watchdog.py and  *)
(* its workflow).  Cloudflare starts a GitHub workflow once a day and does *)
(* not retry a tick that is lost; people may start the same workflow by    *)
(* hand.  The watchdog, started late or by hand, reads the Tokyo date, then *)
(* the list of runs, then the clock, and judges from the three whether the *)
(* tick was missed; a miss is reported and made good by a catch-up run.    *)
(*                                                                         *)
(* Time is in slots of a Tokyo day, UTC and Tokyo dates agreeing in every  *)
(* window the code names.  One behaviour audits one of Targets.            *)
(***************************************************************************)
EXTENDS Integers, FiniteSets

CONSTANTS
    Targets,                  \* patch, daily, monthly: the keys of TARGETS
    FireAt,                   \* [Targets -> slot]: expected_hour_utc, expected_minute_utc
    Grace,                    \* [Targets -> slots]: grace_minutes
    NeedsOpenDay,             \* subset of Targets: requires_trading_day
    FirstOnly,                \* subset of Targets judged on the first of a month only
    Skew,                     \* COVERING_SKEW, in slots
    DayLength, NumWatchDays,  \* slots of a day; days of a behaviour, the first is the first of a month
    DrainWindow,              \* slots of day 0 in which the poller of the outbox must tick
    PollLookback,             \* MNC_POLLER_LOOKBACK, in slots
    ListLength,               \* runs on one page of GitHub's list (per_page)
    Watchdogs,                \* runs of the watchdog: by schedule and by hand overlap
    MaxHandRuns               \* bound: runs started by hand

Poller == "mnc_poller"

ASSUME CronAssumption ==
    /\ Poller \notin Targets
    /\ DayLength \in Nat \ {0} /\ NumWatchDays \in Nat \ {0}
    /\ FireAt \in [Targets -> 0..DayLength - 1] /\ Grace \in [Targets -> Nat] /\ Skew \in Nat

Audits == Targets \cup {Poller}
Times == 0..(NumWatchDays * DayLength - 1)
DayOf(t) == t \div DayLength
RunRecord == [at : Times, event : {"workflow_dispatch", "schedule"}, by : {"tick", "hand", "watchdog"}]

VARIABLES
    audit,     \* the workflow this behaviour is about
    openDays,  \* the days the exchange is open
    now,
    runs,      \* GitHub's list of the workflow's runs
    ticks,     \* [day -> what became of Cloudflare's tick]
    dog,       \* [Watchdogs -> the job's step and what it has read]
    reported   \* the days (the slots, for the poller) a red check was left for

cronVars == <<audit, openDays, now, runs, ticks, dog, reported>>

Idle == [pc |-> "idle", date |-> 0, open |-> FALSE, seen |-> {}, at |-> 0]

CronInit ==
    /\ audit \in Audits
    /\ openDays \in SUBSET (0..(NumWatchDays - 1))
    /\ now = 0
    /\ runs = {}
    /\ ticks = [d \in 0..(NumWatchDays - 1) |-> "due"]
    /\ dog = [w \in Watchdogs |-> Idle]
    /\ reported = {}

Fire(d) == d * DayLength + FireAt[audit]
OnDuty(d) == audit \in FirstOnly => d = 0

(***************************************************************************)
(* What happens to the workflow                                            *)
(***************************************************************************)
Pass ==
    /\ now + 1 \in Times
    /\ now' = now + 1
    /\ UNCHANGED <<audit, openDays, runs, ticks, dog, reported>>

Started(by, event) == runs' = runs \cup {[at |-> now, event |-> event, by |-> by]}

\* handleScheduledCron: Cloudflare invokes the Worker, up to Skew early by
\* GitHub's clock or as late as it may, and the POST is accepted.
Tick ==
    LET d == DayOf(now) IN
    /\ audit # Poller /\ ticks[d] = "due" /\ OnDuty(d)
    /\ now + Skew >= Fire(d)
    /\ Started("tick", "workflow_dispatch")
    /\ ticks' = [ticks EXCEPT ![d] = "sent"]
    /\ UNCHANGED <<audit, openDays, now, dog, reported>>

\* A tick that never comes, or whose POST is refused: the Worker throws and
\* nothing tries again.
TickLost ==
    LET d == DayOf(now) IN
    /\ audit # Poller /\ ticks[d] = "due" /\ OnDuty(d) /\ now > Fire(d)
    /\ ticks' = [ticks EXCEPT ![d] = "lost"]
    /\ UNCHANGED <<audit, openDays, now, runs, dog, reported>>

\* The poller is due several times in its window; each tick may be lost.
PollerTick ==
    /\ audit = Poller /\ now \in DrainWindow
    /\ Started("tick", "workflow_dispatch")
    /\ UNCHANGED <<audit, openDays, now, ticks, dog, reported>>

\* A run somebody starts by hand, and one a leftover GitHub schedule starts.
HandRun(event) ==
    /\ Cardinality({r \in runs : r.by = "hand"}) < MaxHandRuns
    /\ Started("hand", event)
    /\ UNCHANGED <<audit, openDays, now, ticks, dog, reported>>

(***************************************************************************)
(* The watchdog                                                            *)
(***************************************************************************)
\* covering_runs
EarliestFor(d) == IF d * DayLength > Fire(d) - Skew THEN d * DayLength ELSE Fire(d) - Skew
CoveringSinceMidnight(d, list) ==
    {r \in list : r.event = "workflow_dispatch" /\ d * DayLength <= r.at /\ r.at < (d + 1) * DayLength}
CoveringUnskewed(d, list) ==
    {r \in list : r.event = "workflow_dispatch" /\ Fire(d) <= r.at /\ r.at < (d + 1) * DayLength}
Covering(d, list) ==
    {r \in list : r.event = "workflow_dispatch" /\ EarliestFor(d) <= r.at /\ r.at < (d + 1) * DayLength}

\* evaluate
Evaluate(d, open, at, list) ==
    IF ~OnDuty(d) THEN "skip_not_first"
    ELSE IF audit \in NeedsOpenDay /\ ~open THEN "skip_closed"
    ELSE IF at < Fire(d) + Grace[audit] THEN "too_early"
    ELSE IF Covering(d, list) # {} THEN "ok" ELSE "miss"

\* evaluate_mnc_poller_liveness
RecentPolls(at, list) ==
    {r \in list : r.event = "workflow_dispatch" /\ at - PollLookback <= r.at /\ r.at <= at}
PollerVerdict(at, list) ==
    IF at \notin DrainWindow \/ RecentPolls(at, list) # {} THEN "ok" ELSE "miss"

\* Step "Resolve Tokyo trading day": the date of this moment.
Resolve(w) ==
    /\ dog[w].pc = "idle"
    /\ dog' = [dog EXCEPT ![w] = [Idle EXCEPT !.pc = "resolved", !.date = DayOf(now),
                                              !.open = DayOf(now) \in openDays]]
    /\ UNCHANGED <<audit, openDays, now, runs, ticks, reported>>

\* Step "Fetch recent workflow runs": the newest of them, one page.
IsPage(list) ==
    /\ Cardinality(list) <= ListLength
    /\ \A r \in runs \ list : Cardinality(list) = ListLength /\ \A s \in list : r.at <= s.at
Fetch(w) ==
    /\ dog[w].pc = "resolved"
    /\ \E list \in SUBSET runs :
        /\ IsPage(list)
        /\ dog' = [dog EXCEPT ![w].pc = "fetched", ![w].seen = list]
    /\ UNCHANGED <<audit, openDays, now, runs, ticks, reported>>

\* Step "Evaluate coverage", with the clock of this moment.
Verdict(w) ==
    IF audit = Poller THEN PollerVerdict(now, dog[w].seen)
    ELSE Evaluate(dog[w].date, dog[w].open, now, dog[w].seen)
Judge(w) ==
    /\ dog[w].pc = "fetched"
    /\ dog' = [dog EXCEPT ![w].pc = Verdict(w), ![w].at = now]
    /\ UNCHANGED <<audit, openDays, now, runs, ticks, reported>>

\* Step "Same-day catch-up workflow_dispatch", without effect when the token is
\* not set, then "Fail on miss".
Report(w) == reported' = reported \cup {IF audit = Poller THEN dog[w].at ELSE dog[w].date}
CatchUp(w) ==
    /\ dog[w].pc = "miss"
    /\ Started("watchdog", "workflow_dispatch") \/ UNCHANGED runs
    /\ Report(w)
    /\ dog' = [dog EXCEPT ![w].pc = "red"]
    /\ UNCHANGED <<audit, openDays, now, ticks>>

CronNext ==
    \/ Pass \/ Tick \/ TickLost \/ PollerTick
    \/ \E e \in {"workflow_dispatch", "schedule"} : HandRun(e)
    \/ \E w \in Watchdogs : Resolve(w) \/ Fetch(w) \/ Judge(w) \/ CatchUp(w)

CronSpec == CronInit /\ [][CronNext]_cronVars

-----------------------------------------------------------------------------
\* Every variable holds a value of its kind.
CronTypeOK ==
    /\ audit \in Audits /\ openDays \subseteq 0..(NumWatchDays - 1) /\ now \in Times
    /\ runs \subseteq RunRecord
    /\ ticks \in [0..(NumWatchDays - 1) -> {"due", "sent", "lost"}]
    /\ \A w \in Watchdogs :
        /\ dog[w].pc \in {"idle", "resolved", "fetched", "ok", "miss", "red", "too_early", "skip_closed", "skip_not_first"}
        /\ dog[w].date \in 0..(NumWatchDays - 1) /\ dog[w].seen \subseteq runs
    /\ reported \subseteq Times

\* A day whose tick was lost is not passed as covered because the workflow ran
\* for another reason: a rehearsal by hand before the hour of the tick, a run
\* of the day before, a run the schedule of old started (covering_runs).
LostTickIsNotCovered ==
    \A w \in Watchdogs :
        (/\ audit # Poller /\ dog[w].pc = "ok" /\ ticks[dog[w].date] = "lost")
            => \E r \in runs : /\ r.event = "workflow_dispatch" /\ DayOf(r.at) = dog[w].date
                               /\ r.at + Skew >= Fire(dog[w].date)

\* The catch-up never starts a job whose own tick stands on the page of runs the
\* watchdog has read, however its date, that page and its clock were read apart
\* (evaluate; the workflow's steps).
NoCatchUpAfterTick ==
    [][\A w \in Watchdogs :
        (dog[w].pc = "fetched" /\ dog'[w].pc = "miss" /\ audit # Poller)
            => \A r \in runs : (r.by = "tick" /\ DayOf(r.at) = dog[w].date) => r \notin dog[w].seen]_cronVars

\* All that is claimed of the watchdog.
CronSafe == []CronTypeOK /\ []LostTickIsNotCovered /\ NoCatchUpAfterTick
=============================================================================
