------------------------------ MODULE MncWorkers ------------------------------
(***************************************************************************)
(* The callers of the outbox of the monthly new-core backfill, over the    *)
(* tables of MncRequests: the poller (mnc_dispatch_cli.py), the workflow   *)
(* runs it dispatches, of which the concurrency group mnc-{request_id}     *)
(* keeps one running and one waiting, and the seed job of the monthly run, *)
(* which drains the request it made (mnc_worker_cli.py).  A worker works   *)
(* through the dates of its chunk: it writes what is missing of a date,    *)
(* then counts the date.  It may end, or fail, between any two calls.      *)
(*                                                                         *)
(* The codes of a request move together, so there is one series a year; a  *)
(* version stands for its digest.  The writer of DerivedWriters is one     *)
(* step here: its compare-and-set is what matters.  Layer 1 and the        *)
(* metric values are left out; an exception there is a fault.              *)
(***************************************************************************)
EXTENDS Naturals, FiniteSets

CONSTANTS
    Snaps, Requests, NoRequest, Order, Decisions, NumDates, Budget, Lossy, MaxRuns,
    MaxSeq, MaxToken,
    None,         \* no claim
    YearOf,       \* the calendar year of each date
    ChunkDates,   \* MAX_TRADE_DATES_PER_CHUNK
    MaxFaults     \* bound on the faults (see Fault) and the Daily commits together

ASSUME ActorsAssumption ==
    /\ IsFiniteSet(Requests) /\ Snaps \cap Requests = {}
    /\ {None, "poller"} \cap Snaps = {} /\ None # "poller"
    /\ None \notin Requests \X (0..MaxSeq) \X (1..MaxToken)
ASSUME DatesAssumption ==
    /\ YearOf \in [1..NumDates -> Nat]
    /\ \A d, e \in 1..NumDates : d <= e => YearOf[d] <= YearOf[e]
    /\ ChunkDates \in Nat \ {0} /\ MaxFaults \in Nat

VARIABLES
    snap, cli, runs, status, successor, last, winner, loser, row, token,
    owner,     \* claimed_by of each row: None, "poller", or a monthly run
    poll,      \* what the poller has claimed and not yet marked, with its step
    queue,     \* the waiting run of each group
    at,        \* where each worker is: the run of a group, the monthly job
    mem,       \* what it works with: the claim it holds (request, chunk and
               \* fencing token), its date, the last of its chunk, whether it has
               \* counted one, the series it has read (year, version, dates)
    given,     \* what the build job of a monthly run hands to its seed job
    series,    \* the committed series of the codes in each year
    faults, dailies

tables == <<snap, cli, runs, status, successor, last, winner, loser, row, token>>
polling == <<poll, queue>>
work == <<at, mem, given>>
budget == <<faults, dailies>>
vars == <<tables, owner, polling, work, series, budget>>

R == INSTANCE MncRequests

ASSUME TablesAssumption ==
    R!NoRequestAssumption /\ R!OrderAssumption /\ R!DecisionsAssumption /\ R!BoundsAssumption

Years == {YearOf[d] : d \in 1..NumDates}
Workers == Requests \cup Snaps
Claims == (Requests \X (0..MaxSeq) \X (1..MaxToken)) \cup {None}
SeriesStates == [year : Years \cup {0}, ver : Nat, dates : SUBSET (1..NumDates)]
NoSeries == [year |-> 0, ver |-> 0, dates |-> {}]
Empty(y) == [year |-> y, ver |-> 0, dates |-> {}]

-----------------------------------------------------------------------------
IsRun(w) == w \in Requests
RequestOf(w) == IF IsRun(w) THEN w ELSE given[w].req
Off(w) == IF IsRun(w) THEN "off" ELSE "ended"
Working(w) == at[w] \notin {"off", "ended"}

(* The row a claim names, and whether its token is still the last.         *)
StatusOf(c) == row[c[1]][c[2]]
IsCurrent(c) == token[c[1]][c[2]] = c[3]
Holds(c) == IsCurrent(c) /\ StatusOf(c) \in R!Held

(* heartbeat_mnc_outbox, as the worker takes its answer: a row that is     *)
(* done is no reason to stop.                                              *)
BeatOk(c) == IsCurrent(c) /\ StatusOf(c) \in R!Held \cup {"done"}

(* Somebody will still use the claim of row k.                             *)
InUse(k) ==
    LET c == <<k[1], k[2], token[k[1]][k[2]]>> IN
    \/ \E w \in Workers : mem[w].claim = c
    \/ \E s \in Snaps : at[s] = "seed" /\ given[s].claim = c
    \/ queue[k[1]] = c
    \/ poll.claim = c

Goto(w, l) == at' = [at EXCEPT ![w] = l]

(* A worker moves on with memory m; it ends, or ends a chunk, without.     *)
Blank == [claim |-> None, day |-> 0, upto |-> 0, counted |-> FALSE, read |-> NoSeries]
Step(w, l, m) ==
    /\ Goto(w, l)
    /\ mem' = [mem EXCEPT ![w] = IF l \in {"off", "ended", "next"} THEN Blank ELSE m]
Move(w, l) == Step(w, l, mem[w])
Holding(c) == [Blank EXCEPT !.claim = c]

(* A fault: a worker or the poller is killed or meets an exception, or the *)
(* claim of one that still works expires.                                  *)
Fault(n) == faults + dailies + n <= MaxFaults /\ faults' = faults + n

Init ==
    /\ R!Init
    /\ owner = [r \in Requests |-> [q \in R!Chunks |-> None]]
    /\ poll = [claim |-> None, step |-> "idle"]
    /\ queue = [r \in Requests |-> None]
    /\ at = [w \in Workers |-> Off(w)]
    /\ mem = [w \in Workers |-> Blank]
    /\ given = [s \in Snaps |-> [req |-> NoRequest, claim |-> None]]
    /\ series = [y \in Years |-> Empty(y)]
    /\ faults = 0 /\ dailies = 0

-----------------------------------------------------------------------------
(* claim_mnc_outbox by b: the claims X have expired, row k is taken.       *)
Take(b, X, k) ==
    /\ R!ClaimOutbox(X, {k})
    /\ owner' = [r \in Requests |-> [q \in R!Chunks |->
                    IF <<r, q>> = k THEN b
                    ELSE IF <<r, q>> \in X THEN None ELSE owner[r][q]]]
    /\ Fault(Cardinality({j \in X : InUse(j)}))
    /\ UNCHANGED dailies

TakenClaim(k) == <<k[1], k[2], token'[k[1]][k[2]]>>

(* It finds none: none pending, and a failed one is out of attempts or     *)
(* waits for next_retry_at.                                                *)
NothingFor(r) ==
    \A q \in R!Chunks : ~(status[r] \notin R!Closed /\ row[r][q] = "pending")

(* mark_mnc_outbox_dispatched, or the answer that changes nothing.         *)
MarkRow(c) ==
    IF Holds(c) THEN R!MarkDispatched(c[1], c[2]) ELSE UNCHANGED tables

-----------------------------------------------------------------------------
(* The poller: it claims one row, dispatches a run for it and marks it.    *)
(* A mark that is refused, for whatever reason, changes nothing.           *)
PollClaim ==
    /\ poll.claim = None
    /\ \E X \in SUBSET R!HeldRows, k \in Requests \X R!Chunks :
          /\ Take("poller", X, k)
          /\ poll' = [claim |-> TakenClaim(k), step |-> "dispatch"]
    /\ UNCHANGED <<queue, work, series>>

(* A run that waits in the group is replaced.                              *)
PollDispatch ==
    /\ poll.step = "dispatch"
    /\ queue' = [queue EXCEPT ![poll.claim[1]] = poll.claim]
    /\ poll' = [poll EXCEPT !.step = "mark"]
    /\ UNCHANGED <<tables, owner, work, series, budget>>

(* Mutant: the mark leaves the claim behind.                               *)
PollMarkKeeps ==
    /\ poll.step = "mark"
    /\ MarkRow(poll.claim)
    /\ poll' = [poll EXCEPT !.step = "idle"]
    /\ UNCHANGED <<owner, queue, work, series, budget>>

PollMark ==
    /\ poll.step = "mark"
    /\ MarkRow(poll.claim)
    /\ poll' = [claim |-> None, step |-> "idle"]
    /\ UNCHANGED <<owner, queue, work, series, budget>>

PollDies ==
    /\ poll.claim # None
    /\ Fault(1)
    /\ poll' = [claim |-> None, step |-> "idle"]
    /\ UNCHANGED <<tables, owner, queue, work, series, dailies>>

PollStep == PollClaim \/ PollDispatch \/ PollMark

-----------------------------------------------------------------------------
(* The monthly run, one at a time (monthly-universe-build).  Its build job *)
(* commits the snapshot; when that made a runnable request, the job claims *)
(* its row at once, against the poller, and the seed job drains it.        *)
MonthlyStep(s) ==
    /\ \/ /\ R!Stage(s)
          /\ ~Working(s)
          /\ \A t \in Snaps \ {s} : cli[t] \notin {"staged", "failing"} /\ ~Working(t)
       \/ R!Interrupt(s)
       \/ R!MarkOrphan(s)
       \/ R!ReRun(s) /\ ~Working(s)
    /\ UNCHANGED <<owner, polling, work, series, budget>>

MonthlyCommit(s, d) ==
    /\ R!Commit(s, d)
    /\ IF cli'[s] = "ok" /\ d.outcome = "runnable" /\ R!IsCanonical(s)
       THEN /\ Goto(s, "preclaim")
            /\ given' = [given EXCEPT ![s] = [req |-> d.req, claim |-> None]]
       ELSE UNCHANGED <<at, given>>
    /\ UNCHANGED <<owner, polling, mem, series, budget>>

(* What of the rows of its request a worker finds active.                  *)
ActiveRows(r) == {q \in R!Chunks : row[r][q] \in R!Held}
Foreign(s, r) == \E q \in ActiveRows(r) : owner[r][q] \notin {s, None}
Own(s, r) == {q \in ActiveRows(r) : owner[r][q] = s}
Resume(s, r, l) == \E q \in Own(s, r) : Step(s, l, Holding(<<r, q, token[r][q]>>))

(* A claim by s of one row of its request, or its finding none.            *)
TakeOne(s, l) ==
    \E X \in SUBSET R!HeldRows, q \in R!Chunks :
        LET k == <<given[s].req, q>> IN Take(s, X, k) /\ Step(s, l, Holding(TakenClaim(k)))
TakeNone(s, l) ==
    NothingFor(given[s].req) /\ Move(s, l) /\ UNCHANGED <<tables, owner, budget>>

(* preclaim-request: it looks at the request and its rows, then resumes    *)
(* its own claim or claims; a closed request or a row of another's is left *)
(* to the seed job to find.                                                *)
Preclaim(s) ==
    /\ at[s] = "preclaim"
    /\ LET r == given[s].req IN
       IF status[r] \in R!Closed \/ Foreign(s, r) THEN Move(s, "seed")
       ELSE IF Own(s, r) # {} THEN Resume(s, r, "premark")
       ELSE Move(s, "pretake")
    /\ UNCHANGED <<tables, owner, polling, given, series, budget>>

PreclaimTake(s) ==
    /\ at[s] = "pretake"
    /\ TakeOne(s, "premark") \/ TakeNone(s, "ended")
    /\ UNCHANGED <<polling, given, series>>

PreclaimMark(s) ==
    /\ at[s] = "premark"
    /\ LET c == mem[s].claim IN
       /\ MarkRow(c)
       /\ given' = [given EXCEPT ![s].claim = IF Holds(c) THEN c ELSE None]
       /\ Step(s, IF Holds(c) \/ ~IsCurrent(c) THEN "seed" ELSE "ended", Blank)
    /\ UNCHANGED <<owner, polling, series, budget>>

-----------------------------------------------------------------------------
(* drain-request: with the claim it was given, or one of its own,          *)
Seed(s) ==
    /\ at[s] = "seed"
    /\ Step(s, IF given[s].claim = None THEN "take" ELSE "mark", Holding(given[s].claim))
    /\ UNCHANGED <<tables, owner, polling, given, series, budget>>

(* it claims, at first and again after each chunk, until none is left;     *)
DrainTake(s) ==
    /\ at[s] \in {"take", "again"}
    /\ TakeOne(s, "mark") \/ TakeNone(s, IF at[s] = "take" THEN "look" ELSE "ended")
    /\ UNCHANGED <<polling, given, series>>

(* at first a row it already holds (its own run, re-run) will do.          *)
DrainLook(s) ==
    /\ at[s] = "look"
    /\ LET r == given[s].req IN
       IF status[r] \notin R!Closed /\ ~Foreign(s, r) /\ Own(s, r) # {}
       THEN Resume(s, r, "mark") ELSE Move(s, "ended")
    /\ UNCHANGED <<tables, owner, polling, given, series, budget>>

DrainMark(s) ==
    /\ at[s] = "mark"
    /\ MarkRow(mem[s].claim)
    /\ Move(s, IF Holds(mem[s].claim) THEN "beat" ELSE "ended")
    /\ UNCHANGED <<owner, polling, given, series, budget>>

(* Between two chunks: a request that is closed ends the job.              *)
DrainNext(s) ==
    /\ at[s] = "next"
    /\ Move(s, IF status[given[s].req] \in R!Closed THEN "ended" ELSE "again")
    /\ UNCHANGED <<tables, owner, polling, given, series, budget>>

(* An operator re-runs the seed job, with the outputs of its build job.    *)
SeedReRun(s) ==
    /\ at[s] = "ended" /\ given[s].req # NoRequest
    /\ Fault(1)
    /\ Move(s, "seed")
    /\ UNCHANGED <<tables, owner, polling, given, series, dailies>>

(* The run of the group starts when the one before has ended.              *)
StartRun(r) ==
    /\ at[r] = "off" /\ queue[r] # None
    /\ Step(r, "beat", Holding(queue[r]))
    /\ queue' = [queue EXCEPT ![r] = None]
    /\ UNCHANGED <<tables, owner, poll, given, series, budget>>

-----------------------------------------------------------------------------
(* run-request ends well (the drain goes on), or with an error.            *)
Well(w) == IF IsRun(w) THEN "off" ELSE "next"
Lost(w) == IF mem[w].counted THEN Off(w) ELSE Well(w)
Beats(w) == BeatOk(mem[w].claim)
Unmoved == UNCHANGED <<owner, polling, given, budget>>

(* The first heartbeat: a lost claim is left to its owner.                 *)
FirstBeat(w) ==
    /\ at[w] = "beat"
    /\ Move(w, IF Beats(w) THEN "load" ELSE Well(w))
    /\ Unmoved /\ UNCHANGED <<tables, series>>

(* The request is read: closed, out of dates, or a chunk of those left (a  *)
(* drain takes them all).                                                  *)
LoadRequest(w) ==
    /\ at[w] = "load"
    /\ LET r == mem[w].claim[1]
           stop == IF IsRun(w) /\ last[r] + ChunkDates < NumDates
                   THEN last[r] + ChunkDates ELSE NumDates
       IN
       IF status[r] \in R!Closed THEN Move(w, Well(w))
       ELSE IF ~R!Remaining(r) THEN Move(w, "finish")
       ELSE Step(w, "read", [mem[w] EXCEPT !.day = last[r] + 1, !.upto = stop])
    /\ Unmoved /\ UNCHANGED <<tables, series>>

(* What is read of a year replaces what was read of another: the states    *)
(* are kept by code, and a year without a series leaves them alone.        *)
Loaded(old, Y) ==
    LET found == {y \in Y : series[y].ver # 0} IN
    IF found = {} THEN old ELSE series[CHOOSE y \in found : \A z \in found : z <= y]

LoadSeries(w) ==
    /\ at[w] = "read"
    /\ LET Y == {YearOf[d] : d \in mem[w].day..mem[w].upto} IN
       Step(w, "day", [mem[w] EXCEPT !.read = Loaded(NoSeries, Y)])
    /\ Unmoved /\ UNCHANGED <<tables, series>>

(* Each date: the heartbeat, then the plan.                                *)
PlanDate(w) ==
    /\ at[w] = "day"
    /\ Move(w, IF ~Beats(w) THEN Lost(w)
               ELSE IF mem[w].day \in mem[w].read.dates THEN "count" ELSE "write")
    /\ Unmoved /\ UNCHANGED <<tables, series>>

(* Mutant: it publishes whatever it has read.                              *)
PriorIsAny(m) == TRUE

(* run_series_only_trade_date: it publishes on what was read, or nothing.  *)
(* The keeper of the heartbeat may have noticed a lost claim, or not yet.  *)
PriorIsRead(m) ==
    LET s == series[YearOf[m.day]] IN IF m.read.ver = 0 THEN s.ver = 0 ELSE m.read = s

WriteDate(w) ==
    /\ at[w] = "write"
    /\ LET m == mem[w] IN
       \/ /\ PriorIsRead(m)
          /\ series' = [series EXCEPT ![YearOf[m.day]].ver = @ + 1,
                                      ![YearOf[m.day]].dates = m.read.dates \cup {m.day}]
          /\ Move(w, "reread")
       \/ ~PriorIsRead(m) /\ Move(w, "fail") /\ UNCHANGED series
       \/ ~Beats(w) /\ Move(w, Lost(w)) /\ UNCHANGED series
    /\ Unmoved /\ UNCHANGED tables

(* Mutant: what the write has made is not read again.                      *)
RereadNothing(w) ==
    /\ at[w] = "reread"
    /\ Move(w, "count")
    /\ Unmoved /\ UNCHANGED <<tables, series>>

Reread(w) ==
    /\ at[w] = "reread"
    /\ Step(w, "count", [mem[w] EXCEPT !.read = Loaded(@, {YearOf[mem[w].day]})])
    /\ Unmoved /\ UNCHANGED <<tables, series>>

(* Mutant: the date counted is the last of the chunk.                      *)
ReportChunk(m) ==
    /\ last' = [last EXCEPT ![m.claim[1]] = m.upto]
    /\ UNCHANGED <<snap, cli, runs, status, successor, winner, loser, row, token>>

(* commit_trade_date_progress asks for no token, and answers a closed      *)
(* request as if nothing were wrong.                                       *)
Report(m) ==
    IF status[m.claim[1]] \in R!Closed THEN UNCHANGED tables
    ELSE R!Progress(m.claim[1], m.day)

CountDate(w) ==
    /\ at[w] = "count"
    /\ LET m == [mem[w] EXCEPT !.counted = TRUE] IN
       \/ ~Beats(w) /\ Move(w, Lost(w)) /\ UNCHANGED tables
       \/ /\ Report(m)
          /\ IF m.day = m.upto THEN Step(w, "finish", m)
             ELSE Step(w, "day", [m EXCEPT !.day = @ + 1])
    /\ Unmoved /\ UNCHANGED series

(* finish_mnc_outbox_chunk, unless the keeper has noticed a lost claim;    *)
(* a claim that is lost only now is reported, and finishing again after    *)
(* that finds the same.                                                    *)
Finish(w) ==
    /\ at[w] = "finish"
    /\ LET c == mem[w].claim IN
       IF Holds(c) THEN R!FinishChunk(c[1], c[2]) /\ Move(w, Well(w))
       ELSE /\ \/ (~IsCurrent(c) \/ ~Beats(w)) /\ Move(w, Lost(w))
               \/ IsCurrent(c) /\ Move(w, "fail")
            /\ UNCHANGED tables
    /\ Unmoved /\ UNCHANGED series

(* fail_mnc_outbox, which refuses a claim taken over and a chunk done.     *)
FailRow(w) ==
    /\ at[w] = "fail"
    /\ LET c == mem[w].claim IN
       IF IsCurrent(c) /\ StatusOf(c) \in R!Active
       THEN R!FailOutbox(c[1], c[2]) ELSE UNCHANGED tables
    /\ Move(w, Off(w))
    /\ Unmoved /\ UNCHANGED series

(* The runner ends; or an exception takes run-request to its handler, once *)
(* a write has published or before.                                        *)
Break(w) ==
    /\ Working(w)
    /\ Fault(1)
    /\ \/ Move(w, Off(w))
       \/ at[w] \in {"load", "read", "day", "write", "reread", "count", "finish"} /\ Move(w, "fail")
    /\ UNCHANGED <<tables, owner, polling, given, series, dailies>>

(* A Daily run puts its own day, later than all the dates, into the series *)
(* of the last year.                                                       *)
Daily ==
    /\ faults + dailies < MaxFaults
    /\ dailies' = dailies + 1
    /\ series' = [series EXCEPT ![YearOf[NumDates]].ver = @ + 1]
    /\ UNCHANGED <<tables, owner, polling, work, faults>>

RunRequest(w) ==
    \/ FirstBeat(w) \/ LoadRequest(w) \/ LoadSeries(w) \/ PlanDate(w) \/ WriteDate(w)
    \/ Reread(w) \/ CountDate(w) \/ Finish(w) \/ FailRow(w)

SeedJob(s) ==
    \/ Preclaim(s) \/ PreclaimTake(s) \/ PreclaimMark(s)
    \/ Seed(s) \/ DrainTake(s) \/ DrainLook(s) \/ DrainMark(s) \/ DrainNext(s)

WorkerStep(w) ==
    \/ RunRequest(w)
    \/ w \in Requests /\ StartRun(w)
    \/ w \in Snaps /\ SeedJob(w)

Next ==
    \/ \E s \in Snaps : MonthlyStep(s) \/ SeedReRun(s) \/ \E d \in Decisions[s] : MonthlyCommit(s, d)
    \/ PollStep \/ PollDies
    \/ \E w \in Workers : WorkerStep(w) \/ Break(w)
    \/ Daily

(* Cloudflare starts the poller month after month, GitHub starts the run   *)
(* that waits, and a run that is not killed goes on.                       *)
Fairness ==
    /\ WF_vars(PollStep)
    /\ \A w \in Workers : WF_vars(WorkerStep(w))

Spec == Init /\ [][Next]_vars /\ Fairness

-----------------------------------------------------------------------------
Places == {"off", "ended", "preclaim", "pretake", "premark", "seed", "take", "again", "look",
           "mark", "next", "beat", "load", "read", "day", "write", "reread", "count", "finish", "fail"}
Memory == [claim : Claims, day : 0..NumDates, upto : 0..NumDates, counted : BOOLEAN,
           read : SeriesStates]

TypeOK ==
    /\ R!TypeOK
    /\ owner \in [Requests -> [R!Chunks -> Snaps \cup {"poller", None}]]
    /\ poll \in [claim : Claims, step : {"idle", "dispatch", "mark"}]
    /\ poll.claim = None <=> poll.step = "idle"
    /\ queue \in [Requests -> Claims]
    /\ at \in [Workers -> Places] /\ mem \in [Workers -> Memory]
    /\ given \in [Snaps -> [req : Requests \cup {NoRequest}, claim : Claims]]
    /\ series \in [Years -> SeriesStates]
    /\ faults \in 0..MaxFaults /\ dailies \in 0..MaxFaults

(* The callers call the control plane only as MncRequests allows anybody   *)
(* to: so its invariants hold of the workers.  Above all they report the   *)
(* dates in order: two workers on one chunk skip none.                     *)
ImplementsRequests == R!Spec

(* A date that is counted is in the series of the codes, whoever counted   *)
(* it and whoever wrote it: also when a worker goes on without its claim,  *)
(* ends between the commit and the count, or shares the chunk.             *)
CountedIsWritten ==
    \A r \in Requests, d \in 1..NumDates : d <= last[r] => d \in series[YearOf[d]].dates

(* Two workers never hold the same claim that still counts, so one of them *)
(* at most can finish or fail a chunk.                                     *)
OneHolder ==
    \A v, w \in Workers :
        v # w /\ mem[v].claim = mem[w].claim /\ mem[v].claim # None
        => ~IsCurrent(mem[v].claim)

(* Only a fault costs a chunk an attempt, or a Daily commit that changes   *)
(* the series under a worker.  A claim that expires may cost one more: the *)
(* date its worker is at may still change the series under the next.       *)
AttemptsAreFaults ==
    \A r \in Requests, q \in R!Chunks : token[r][q] <= 1 + 2 * faults + dailies

(* Claims exclude each other, and are handed out for a reason.             *)
ClaimsAreExact == OneHolder /\ AttemptsAreFaults

(* A request that is live is in the end closed, with all its dates, or its *)
(* chunk has failed as often as it may: no crash leaves it waiting.        *)
Exhausted(r) == \E q \in R!Chunks : row[r][q] = "failed" /\ token[r][q] >= Budget
LiveIsDrained ==
    \A r \in Requests : status[r] \in R!Live ~> (status[r] \in R!Closed \/ Exhausted(r))

(* A series coordinate is (metric set, code, series_year): a worker plans  *)
(* and writes a date on what it read of the year of that date.             *)
ReadsItsYear ==
    \A w \in Workers : at[w] = "write" => mem[w].read.ver = 0 \/ mem[w].read.year = YearOf[mem[w].day]
=============================================================================
