--------------------------- MODULE MncWorkersProofs ---------------------------
(***************************************************************************)
(* Proofs about MncWorkers, for every number of releases, requests, dates, *)
(* chunks, claims and faults.  What the tables are left with by any caller *)
(* is taken from MncRequestsProofs; here it is shown that the poller, its  *)
(* runs and the monthly runs are such callers, and what each of them knows *)
(* at each of its steps although others took its claim, wrote its series   *)
(* or closed its request in the meantime.                                  *)
(***************************************************************************)
EXTENDS MncWorkers, WellFoundedInduction, FiniteSetTheorems, TLAPS

RP == INSTANCE MncRequestsProofs

(***************************************************************************)
(* Where a worker is, and what it then has.                                *)
(***************************************************************************)
Resting == {"off", "ended", "next", "preclaim", "pretake", "seed", "take", "again", "look"}
Dated == {"read", "day", "write", "reread", "count"}
RunPlaces == {"off", "beat", "load", "fail", "finish"} \cup Dated
SnapPlaces == (RunPlaces \ {"off"}) \cup (Resting \ {"off"}) \cup {"premark", "mark"}

(* A claim names a row, and the row's token has not been taken back.       *)
TokenReached(c) == c # None => c[3] <= token[c[1]][c[2]]

InSeries(d) == d \in series[YearOf[d]].dates

(* What a worker has read was committed and still is.                      *)
ReadFits(s) ==
    /\ s.ver = 0 => s.dates = {}
    /\ \A d \in s.dates : InSeries(d)

(* The date a worker is at is the next one at most, unless the request is  *)
(* closed, and once it is to be counted it is in the series.               *)
DayFits(m) ==
    /\ m.day \in 1..m.upto
    /\ status[m.claim[1]] \notin R!Closed => m.day <= last[m.claim[1]] + 1

WorkerFits(w) ==
    /\ at[w] \in (IF IsRun(w) THEN RunPlaces ELSE SnapPlaces)
    /\ mem[w].claim = None <=> at[w] \in Resting
    /\ TokenReached(mem[w].claim)
    /\ IsRun(w) => mem[w].claim = None \/ mem[w].claim[1] = w
    /\ ~IsRun(w) /\ at[w] # "ended" => given[w].req \in Requests
    /\ at[w] \in Dated => DayFits(mem[w])
    /\ at[w] \in {"reread", "count"} => InSeries(mem[w].day)
    /\ ReadFits(mem[w].read)

(* A seed job has a request only of a commit that was answered: the row of *)
(* that snapshot is committed for good.                                    *)
GivenFits(s) ==
    IF given[s].req = NoRequest THEN at[s] = "ended" /\ given[s].claim = None
    ELSE snap[s] = "committed" /\ cli[s] \in {"ok", "idle"}

HandsFit ==
    /\ TokenReached(poll.claim)
    /\ \A r \in Requests : TokenReached(queue[r]) /\ (queue[r] = None \/ queue[r][1] = r)
    /\ \A s \in Snaps : TokenReached(given[s].claim) /\ GivenFits(s)

(* A series is of its year, and of version 0 while it is empty.            *)
SeriesFit ==
    \A y \in Years : /\ series[y].ver = 0 => series[y].dates = {}
                     /\ \A d \in series[y].dates : YearOf[d] = y

(* Claims go by parties: the poller with the runs it starts, and each      *)
(* monthly run.  One party at most has a claim that is current, and the    *)
(* row says so, or nobody's.                                               *)
Parties == Snaps \cup {"poller"}
HeldBy(p, c) ==
    IF p = "poller" THEN c \in {poll.claim, queue[c[1]], mem[c[1]].claim}
    ELSE c \in {mem[p].claim, given[p].claim}

ClaimsApart ==
    \A p \in Parties, c \in Claims \ {None} :
        HeldBy(p, c) /\ IsCurrent(c) =>
            /\ owner[c[1]][c[2]] \in {p, None}
            /\ \A q \in Parties : HeldBy(q, c) => q = p

WInv ==
    /\ TypeOK /\ RP!IInv
    /\ SeriesFit /\ HandsFit /\ ClaimsApart /\ CountedIsWritten
    /\ \A w \in Workers : WorkerFits(w)

-----------------------------------------------------------------------------
(* The tables here are those of MncRequests.                               *)
LEMMA SameTables ==
    /\ RP!Init <=> R!Init
    /\ RP!TypeOK <=> R!TypeOK
    /\ RP!Next <=> R!Next
    /\ (UNCHANGED RP!vars) <=> UNCHANGED tables
    /\ (UNCHANGED R!vars) <=> UNCHANGED tables
<1>1. RP!Init <=> R!Init
    BY DEF RP!Init, R!Init, RP!Chunks, R!Chunks
<1>2. RP!TypeOK <=> R!TypeOK
    BY DEF RP!TypeOK, R!TypeOK, RP!Chunks, R!Chunks, RP!Live, R!Live, RP!Closed, R!Closed,
           RP!NotRunnable, R!NotRunnable, RP!Active, R!Active, RP!Held, R!Held
<1>3. RP!Next <=> R!Next
    BY DEF R!Cardinality, RP!Cardinality, R!Next, RP!Next, R!MonthlyStep, RP!MonthlyStep, R!OutboxStep, RP!OutboxStep,
            R!Stage, RP!Stage, R!Commit, RP!Commit, R!Interrupt, RP!Interrupt, R!MarkOrphan,
            RP!MarkOrphan, R!ReRun, RP!ReRun, R!ReconcileOutbox, RP!ReconcileOutbox,
            R!ClaimOutbox, RP!ClaimOutbox, R!MarkDispatched, RP!MarkDispatched, R!FailOutbox,
            RP!FailOutbox, R!FinishChunk, RP!FinishChunk, R!Progress, RP!Progress, R!Raises,
            RP!Raises, R!IsCanonical, RP!IsCanonical, R!SuccessorInserted,
            RP!SuccessorInserted, R!CommitWinner, RP!CommitWinner, R!CommitLoser,
            RP!CommitLoser, R!StatusAfter, RP!StatusAfter, R!RowsAfter, RP!RowsAfter,
            R!WinnerAfter, RP!WinnerAfter, R!Demoted, RP!Demoted, R!Superseded, RP!Superseded,
            R!Expired, RP!Expired, R!HeldRows, RP!HeldRows, R!Held, RP!Held, R!Active,
            RP!Active, R!Claimable, RP!Claimable, R!NextToken, RP!NextToken, R!Remaining,
            RP!Remaining, R!NextChunk, RP!NextChunk, R!LastAfter, RP!LastAfter, R!Chunks,
            RP!Chunks, R!Closed, RP!Closed, R!NotRunnable, RP!NotRunnable, R!Live, RP!Live,
            R!Decision, RP!Decision, R!Outcomes, RP!Outcomes, R!monthly, RP!monthly, R!links,
            RP!links, R!request, RP!request, R!outbox, RP!outbox
<1>4. (UNCHANGED RP!vars <=> UNCHANGED tables) /\ (UNCHANGED R!vars <=> UNCHANGED tables)
    BY DEF tables, RP!vars, RP!monthly, RP!links, RP!request, RP!outbox,
           R!vars, R!monthly, R!links, R!request, R!outbox
<1> QED BY <1>1, <1>2, <1>3, <1>4

LEMMA ClaimParts ==
    ASSUME NEW c \in Claims, c # None
    PROVE  /\ c[1] \in Requests /\ c[2] \in R!Chunks /\ c[3] \in 1..MaxToken
           /\ c = <<c[1], c[2], c[3]>>
BY DEF Claims, R!Chunks

LEMMA Bounds == NumDates \in Nat /\ MaxSeq \in Nat /\ MaxToken \in Nat /\ MaxFaults \in Nat
BY TablesAssumption, DatesAssumption DEF R!BoundsAssumption

(* A claim by b of row k, seen from the tables.                            *)
LEMMA TakeStep ==
    ASSUME NEW X \in SUBSET R!HeldRows, NEW k \in Requests \X R!Chunks, NEW b, Take(b, X, k)
    PROVE  R!Next
<1>1. {k} \in SUBSET (Requests \X R!Chunks) /\ R!ClaimOutbox(X, {k})
    BY DEF Take
<1> QED BY <1>1 DEF R!Next, R!OutboxStep

LEMMA MarkStep ==
    ASSUME NEW c \in Claims, c # None, MarkRow(c)
    PROVE  R!Next \/ UNCHANGED tables
<1>1. CASE Holds(c)
    BY <1>1, ClaimParts DEF MarkRow, R!Next, R!OutboxStep
<1>2. CASE ~Holds(c)
    BY <1>2 DEF MarkRow
<1> QED BY <1>1, <1>2

-----------------------------------------------------------------------------
(* What the invariant says of a worker.                                    *)
LEMMA WorkerHas ==
    ASSUME WInv, NEW w \in Workers
    PROVE  /\ WorkerFits(w) /\ at[w] \in Places /\ mem[w] \in Memory
           /\ mem[w].claim \in Claims /\ mem[w].day \in 0..NumDates /\ mem[w].upto \in 0..NumDates
           /\ mem[w].read \in SeriesStates
BY DEF WInv, TypeOK, Memory

LEMMA SnapHas ==
    ASSUME WInv, NEW s \in Snaps
    PROVE  /\ s \in Workers /\ ~IsRun(s) /\ given[s].claim \in Claims
           /\ at[s] # "ended" => given[s].req \in Requests
<1>1. s \in Workers /\ ~IsRun(s)
    BY ActorsAssumption DEF Workers, IsRun
<1> QED BY <1>1, WorkerHas DEF WInv, TypeOK, WorkerFits

LEMMA TakeOneStep ==
    ASSUME WInv, NEW s \in Snaps, NEW l, at[s] # "ended", TakeOne(s, l)
    PROVE  R!Next
<1>1. PICK X \in SUBSET R!HeldRows, q \in R!Chunks : Take(s, X, <<given[s].req, q>>)
    BY DEF TakeOne
<1>2. <<given[s].req, q>> \in Requests \X R!Chunks
    BY SnapHas
<1> QED BY <1>1, <1>2, TakeStep

(* Every step of a caller is a call of the tables anybody may make, or     *)
(* leaves them alone.                                                      *)
LEMMA RunRequestCalls ==
    ASSUME WInv, NEW w \in Workers, RunRequest(w)
    PROVE  R!Next \/ UNCHANGED tables
<1> DEFINE c == mem[w].claim
<1>0. at[w] \notin Resting => /\ c \in Claims /\ c # None /\ c[1] \in Requests /\ c[2] \in R!Chunks
                              /\ c[3] \in 1..MaxToken
    BY WorkerHas, ClaimParts DEF WorkerFits
<1>1. CASE CountDate(w)
    <2> DEFINE m == [mem[w] EXCEPT !.counted = TRUE]
    <2>1. m.claim = c /\ m.day = mem[w].day
        BY WorkerHas DEF Memory
    <2>2. c[1] \in Requests /\ mem[w].day \in 1..NumDates
        BY <1>0, <1>1, WorkerHas, Bounds DEF CountDate, WorkerFits, Resting, Dated, DayFits
    <2>3. Report(m) \/ UNCHANGED tables
        BY <1>1 DEF CountDate
    <2>4. ASSUME Report(m) PROVE UNCHANGED tables \/ R!Progress(c[1], mem[w].day)
        BY <2>1, <2>4 DEF Report
    <2> QED BY <2>2, <2>3, <2>4 DEF R!Next, R!OutboxStep
<1>2. CASE Finish(w)
    BY <1>0, <1>2 DEF Finish, Resting, R!Next, R!OutboxStep
<1>3. CASE FailRow(w)
    <2>1. /\ c[1] \in Requests /\ c[2] \in R!Chunks
        BY <1>0, <1>3 DEF FailRow, Resting
    <2>2. R!FailOutbox(c[1], c[2]) \/ UNCHANGED tables
        BY <1>3 DEF FailRow
    <2> QED BY <2>1, <2>2 DEF R!Next, R!OutboxStep
<1>4. CASE FirstBeat(w) \/ LoadRequest(w) \/ LoadSeries(w) \/ PlanDate(w) \/ WriteDate(w) \/ Reread(w)
    BY <1>4 DEF FirstBeat, LoadRequest, LoadSeries, PlanDate, WriteDate, Reread
<1> QED BY <1>1, <1>2, <1>3, <1>4 DEF RunRequest

LEMMA SeedJobCalls ==
    ASSUME WInv, NEW s \in Snaps, SeedJob(s)
    PROVE  R!Next \/ UNCHANGED tables
<1>1. CASE PreclaimTake(s)
    BY <1>1, TakeOneStep DEF PreclaimTake, TakeNone
<1>2. CASE DrainTake(s)
    BY <1>2, TakeOneStep DEF DrainTake, TakeNone
<1>3. CASE PreclaimMark(s) \/ DrainMark(s)
    <2>1. mem[s].claim \in Claims /\ mem[s].claim # None
        BY <1>3, SnapHas, WorkerHas DEF PreclaimMark, DrainMark, WorkerFits, Resting
    <2>2. MarkRow(mem[s].claim)
        BY <1>3 DEF PreclaimMark, DrainMark
    <2> QED BY <2>1, <2>2, MarkStep
<1>4. CASE Preclaim(s) \/ Seed(s) \/ DrainLook(s) \/ DrainNext(s)
    BY <1>4 DEF Preclaim, Seed, DrainLook, DrainNext
<1> QED BY <1>1, <1>2, <1>3, <1>4 DEF SeedJob

LEMMA CallersCall ==
    ASSUME WInv, [Next]_vars
    PROVE  R!Next \/ UNCHANGED tables
<1>1. ASSUME NEW s \in Snaps, MonthlyStep(s)
      PROVE  R!Next
    BY <1>1 DEF MonthlyStep, R!Next, R!MonthlyStep
<1>2. ASSUME NEW s \in Snaps, NEW d \in Decisions[s], MonthlyCommit(s, d)
      PROVE  R!Next
    BY <1>2 DEF MonthlyCommit, R!Next, R!MonthlyStep
<1>3. CASE PollStep \/ PollDies
    <2>1. CASE PollClaim
        BY <2>1, TakeStep DEF PollClaim
    <2>2. CASE PollMark
        <3>1. poll.claim \in Claims /\ poll.claim # None
            BY <2>2 DEF PollMark, WInv, TypeOK
        <3> QED BY <2>2, <3>1, MarkStep DEF PollMark
    <2>3. CASE PollDispatch \/ PollDies
        BY <2>3 DEF PollDispatch, PollDies
    <2> QED BY <1>3, <2>1, <2>2, <2>3 DEF PollStep
<1>4. ASSUME NEW w \in Workers, WorkerStep(w)
      PROVE  R!Next \/ UNCHANGED tables
    BY <1>4, RunRequestCalls, SeedJobCalls DEF WorkerStep, StartRun
<1>5. ASSUME NEW w \in Workers, Break(w)
      PROVE  UNCHANGED tables
    BY <1>5 DEF Break
<1>6. ASSUME NEW s \in Snaps, SeedReRun(s)
      PROVE  UNCHANGED tables
    BY <1>6 DEF SeedReRun
<1>7. CASE Daily
    BY <1>7 DEF Daily
<1>8. CASE UNCHANGED vars
    BY <1>8 DEF vars
<1> QED BY <1>1, <1>2, <1>3, <1>4, <1>5, <1>6, <1>7, <1>8 DEF Next

-----------------------------------------------------------------------------
(* What no step takes back: tokens, progress, the end of a request and the *)
(* dates of a series.                                                      *)
TablesGrow ==
    /\ \A r \in Requests, q \in R!Chunks : token[r][q] <= token'[r][q]
    /\ \A r \in Requests : last[r] <= last'[r] /\ (status[r] \in R!Closed => status'[r] \in R!Closed)

SeriesGrow == \A d \in 1..NumDates : InSeries(d) => InSeries(d)'

LEMMA TablesTyped ==
    ASSUME WInv
    PROVE  /\ token \in [Requests -> [R!Chunks -> 0..MaxToken]] /\ last \in [Requests -> 0..NumDates]
           /\ status \in [Requests -> R!Live \cup R!Closed \cup {"none"}]
           /\ row \in [Requests -> [R!Chunks -> R!Active \cup {"done", "none"}]]
BY DEF WInv, TypeOK, R!TypeOK

LEMMA TablesKeep ==
    ASSUME WInv, R!Next \/ UNCHANGED tables
    PROVE  RP!IInv' /\ R!TypeOK' /\ TablesGrow
<1>1. RP!IInv /\ [RP!Next]_(RP!vars)
    BY SameTables DEF WInv
<1>2. RP!IInv'
    BY <1>1, RP!NextIInv, TablesAssumption DEF R!Decision, RP!Decision, R!Outcomes, RP!Outcomes
<1>3. R!TypeOK'
    BY <1>2 DEF RP!IInv, RP!TypeOK, R!TypeOK, RP!Chunks, R!Chunks, RP!Live, R!Live, RP!Closed, R!Closed,
                RP!NotRunnable, R!NotRunnable, RP!Active, R!Active, RP!Held, R!Held
<1>4. ASSUME NEW r \in Requests
      PROVE  last[r] <= last'[r] /\ (status[r] \in R!Closed => status'[r] \in R!Closed)
    <2>1. RP!Kept(r)
        BY <1>1, RP!KeptByStep, TablesAssumption DEF R!Decision, RP!Decision, R!Outcomes, RP!Outcomes
    <2> QED BY <2>1, TablesTyped, <1>3 DEF RP!Kept, RP!Closed, RP!NotRunnable, R!Closed, R!NotRunnable, R!TypeOK
<1>5. ASSUME NEW r \in Requests, NEW q \in R!Chunks
      PROVE  token[r][q] <= token'[r][q]
    <2>1. token[r][q] \in Nat
        BY TablesTyped, Bounds
    <2>2. CASE token' = token
        BY <2>1, <2>2
    <2>3. ASSUME NEW X, NEW C, R!ClaimOutbox(X, C)
          PROVE  token[r][q] <= token'[r][q]
        BY <2>1, <2>3 DEF R!ClaimOutbox, R!NextToken
    <2>4. ASSUME R!Next
          PROVE  token' = token \/ \E X, C : R!ClaimOutbox(X, C)
        <3>1. ASSUME NEW s \in Snaps, R!MonthlyStep(s)
              PROVE  token' = token
            <4>1. ASSUME NEW d \in Decisions[s], R!Commit(s, d)
                  PROVE  token' = token
                <5>1. R!CommitWinner(s, d) \/ R!CommitLoser(s) \/ UNCHANGED R!outbox
                    BY <4>1 DEF R!Commit
                <5> QED BY <5>1 DEF R!CommitWinner, R!CommitLoser, R!outbox
            <4> QED BY <3>1, <4>1 DEF R!MonthlyStep, R!Stage, R!Interrupt, R!MarkOrphan, R!ReRun, R!outbox
        <3>2. ASSUME R!OutboxStep
              PROVE  token' = token \/ \E X, C : R!ClaimOutbox(X, C)
            BY <3>2 DEF R!OutboxStep, R!ReconcileOutbox, R!MarkDispatched, R!FailOutbox, R!FinishChunk, R!Progress,
                        R!outbox
        <3> QED BY <2>4, <3>1, <3>2 DEF R!Next
    <2> QED BY <2>2, <2>3, <2>4 DEF tables
<1> QED BY <1>2, <1>3, <1>4, <1>5 DEF TablesGrow

(* A write adds its date to the series of the year, and nothing leaves it: *)
(* it is published on what was read of that year, or on nothing.           *)
LEMMA WriteKeeps ==
    ASSUME WInv, NEW w \in Workers, WriteDate(w), series' # series
    PROVE  /\ series' \in [Years -> SeriesStates] /\ SeriesFit' /\ SeriesGrow
           /\ mem[w].day \in 1..NumDates /\ mem[w].day \in series'[YearOf[mem[w].day]].dates
           /\ at' = [at EXCEPT ![w] = "reread"] /\ mem' = [mem EXCEPT ![w] = mem[w]]
<1> DEFINE m == mem[w]
           y == YearOf[m.day]
           s == [series[y] EXCEPT !.ver = @ + 1, !.dates = m.read.dates \cup {m.day}]
<1>1. /\ PriorIsRead(m) /\ series' = [series EXCEPT ![y] = s]
      /\ Step(w, "reread", m) /\ at[w] = "write"
    <2>1. \/ UNCHANGED series
          \/ /\ PriorIsRead(mem[w]) /\ Move(w, "reread")
             /\ series' = [series EXCEPT ![y].ver = @ + 1, ![y].dates = m.read.dates \cup {m.day}]
        BY Zenon DEF WriteDate
    <2>2. at[w] = "write"
        BY DEF WriteDate
    <2>3. PriorIsRead(m) /\ Move(w, "reread")
        BY <2>1
    <2>4. series' = [series EXCEPT ![y] = s]
        <3>1. series' = [series EXCEPT ![y].ver = @ + 1, ![y].dates = m.read.dates \cup {m.day}]
            BY <2>1
        <3> QED BY <3>1
    <2>5. Step(w, "reread", m)
        BY <2>3 DEF Move
    <2> QED BY <2>2, <2>3, <2>4, <2>5
<1>2. /\ m \in Memory /\ m.day \in 1..NumDates /\ m.read \in SeriesStates /\ ReadFits(m.read)
    BY <1>1, WorkerHas, Bounds DEF WorkerFits, DayFits, Dated
<1>3. y \in Years /\ series[y] \in SeriesStates /\ series \in [Years -> SeriesStates] /\ y \in Nat
    BY <1>2, DatesAssumption DEF Years, WInv, TypeOK
<1>4. s \in SeriesStates /\ s.year = series[y].year /\ s.ver = series[y].ver + 1 /\ s.dates = m.read.dates \cup {m.day}
    <2>1. s.year = series[y].year /\ s.ver = series[y].ver + 1 /\ s.dates = m.read.dates \cup {m.day}
        BY <1>3 DEF SeriesStates
    <2>2. series[y].ver + 1 \in Nat /\ m.read.dates \cup {m.day} \in SUBSET (1..NumDates)
        BY <1>2, <1>3 DEF SeriesStates
    <2>3. s \in SeriesStates
        BY <1>3, <2>2 DEF SeriesStates
    <2> QED BY <2>1, <2>3
<1>5. series[y].dates \subseteq s.dates /\ \A d \in s.dates : YearOf[d] = y
    <2>1. CASE m.read.ver = 0
        BY <1>1, <1>3, <1>4, <2>1, <1>2 DEF PriorIsRead, WInv, SeriesFit, ReadFits
    <2>2. CASE m.read.ver # 0
        BY <1>1, <1>3, <1>4, <2>2 DEF PriorIsRead, WInv, SeriesFit
    <2> QED BY <2>1, <2>2
<1> HIDE DEF s
<1>6. series' \in [Years -> SeriesStates] /\ series'[y] = s /\ \A z \in Years \ {y} : series'[z] = series[z]
    BY <1>1, <1>3, <1>4
<1>7. SeriesFit'
    BY <1>3, <1>4, <1>5, <1>6 DEF WInv, SeriesFit, SeriesStates
<1>8. SeriesGrow /\ m.day \in series'[y].dates
    <2>1. \A d \in 1..NumDates : YearOf[d] \in Years
        BY DEF Years
    <2>2. ASSUME NEW d \in 1..NumDates PROVE d \in series[YearOf[d]].dates => d \in series'[YearOf[d]].dates
        BY <1>5, <1>6, <2>1
    <2>3. m.day \in series'[y].dates
        BY <1>4, <1>6
    <2>4. SeriesGrow
        BY <2>2 DEF SeriesGrow, InSeries
    <2> QED BY <2>3, <2>4
<1>9. at' = [at EXCEPT ![w] = "reread"] /\ mem' = [mem EXCEPT ![w] = m]
    BY <1>1 DEF Step, Goto
<1> QED BY <1>2, <1>6, <1>7, <1>8, <1>9

LEMMA DailyKeeps ==
    ASSUME WInv, Daily
    PROVE  series' \in [Years -> SeriesStates] /\ SeriesFit' /\ SeriesGrow
<1> DEFINE y == YearOf[NumDates]
           s == [series[y] EXCEPT !.ver = @ + 1]
<1>1. series' = [series EXCEPT ![y] = s] /\ series \in [Years -> SeriesStates]
    BY DEF Daily, WInv, TypeOK
<1>2. CASE y \in Years
    <2>1. s \in SeriesStates /\ s.dates = series[y].dates /\ s.ver # 0
        BY <1>1, <1>2 DEF SeriesStates
    <2> HIDE DEF s
    <2>2. series' \in [Years -> SeriesStates] /\ series'[y] = s /\ \A z \in Years \ {y} : series'[z] = series[z]
        BY <1>1, <1>2, <2>1
    <2> QED BY <1>2, <2>1, <2>2 DEF WInv, SeriesFit, SeriesGrow, InSeries, Years
<1>3. CASE y \notin Years
    <2>1. series' = series
        BY <1>1, <1>3
    <2> QED BY <1>1, <2>1 DEF WInv, SeriesFit, SeriesGrow, InSeries
<1> QED BY <1>2, <1>3

LEMMA SeriesKeep ==
    ASSUME WInv, [Next]_vars
    PROVE  series' \in [Years -> SeriesStates] /\ SeriesFit' /\ SeriesGrow
<1>1. CASE series' = series
    BY <1>1 DEF WInv, TypeOK, SeriesFit, SeriesGrow, InSeries
<1>2. CASE series' # series
    <2>1. ASSUME NEW w \in Workers, WorkerStep(w)
          PROVE  WriteDate(w)
        BY <1>2, <2>1 DEF WorkerStep, RunRequest, SeedJob, StartRun, FirstBeat, LoadRequest, LoadSeries, PlanDate,
                          Reread, CountDate, Finish, FailRow, Preclaim, PreclaimTake, PreclaimMark, Seed,
                          DrainTake, DrainLook, DrainMark, DrainNext
    <2>2. Daily \/ \E w \in Workers : WorkerStep(w)
        BY <1>2 DEF Next, vars, MonthlyStep, SeedReRun, MonthlyCommit, PollStep, PollClaim, PollDispatch, PollMark,
                    PollDies, Break
    <2> QED BY <1>2, <2>1, <2>2, WriteKeeps, DailyKeeps
<1> QED BY <1>1, <1>2

-----------------------------------------------------------------------------
(* What is known of a claim, a date or a series stays known.               *)
LEMMA TokenKeeps ==
    ASSUME WInv, TablesGrow, R!TypeOK', NEW c \in Claims, c # None, TokenReached(c)
    PROVE  c[3] <= token'[c[1]][c[2]]
<1>1. /\ c[1] \in Requests /\ c[2] \in R!Chunks /\ c[3] \in 1..MaxToken
      /\ c[3] <= token[c[1]][c[2]]
    BY ClaimParts DEF TokenReached
<1>2. token[c[1]][c[2]] \in Nat /\ token'[c[1]][c[2]] \in Nat /\ token[c[1]][c[2]] <= token'[c[1]][c[2]]
    BY <1>1, TablesTyped, Bounds DEF TablesGrow, R!TypeOK
<1> QED BY <1>1, <1>2

(* What a worker w that goes to l with memory m brings there.              *)
Brings(w, l, m) ==
    /\ m \in Memory
    /\ l \in (IF IsRun(w) THEN RunPlaces ELSE SnapPlaces)
    /\ m.claim = None <=> l \in Resting
    /\ m.claim # None => m.claim[3] <= token'[m.claim[1]][m.claim[2]]
    /\ IsRun(w) => m.claim = None \/ m.claim[1] = w
    /\ ~IsRun(w) /\ l # "ended" => given'[w].req \in Requests
    /\ l \in Dated => /\ m.day \in 1..m.upto
                      /\ status'[m.claim[1]] \notin R!Closed => m.day <= last'[m.claim[1]] + 1
    /\ l \in {"reread", "count"} => m.day \in series'[YearOf[m.day]].dates
    /\ m.read.ver = 0 => m.read.dates = {}
    /\ \A d \in m.read.dates : d \in series'[YearOf[d]].dates

LEMMA BroughtFits ==
    ASSUME NEW w \in Workers, Brings(w, at'[w], mem'[w])
    PROVE  WorkerFits(w)'
BY DEF Brings, WorkerFits, TokenReached, DayFits, InSeries, ReadFits, IsRun

(* A worker that stays where it is still fits, whatever the others did.    *)
LEMMA KeepsBringing ==
    ASSUME WInv, TablesGrow, SeriesGrow, R!TypeOK', NEW w \in Workers,
           ~IsRun(w) /\ at[w] # "ended" => given'[w].req = given[w].req
    PROVE  Brings(w, at[w], mem[w])
<1> DEFINE m == mem[w]
<1>1. /\ WorkerFits(w) /\ m \in Memory /\ m.claim \in Claims /\ m.read \in SeriesStates
    BY WorkerHas
<1>2. m.claim # None => m.claim[3] <= token'[m.claim[1]][m.claim[2]]
    BY <1>1, TokenKeeps DEF WorkerFits
<1>3. at[w] \in Dated => /\ m.day \in 1..m.upto /\ m.day \in 1..NumDates
                         /\ status'[m.claim[1]] \notin R!Closed => m.day <= last'[m.claim[1]] + 1
    <2> SUFFICES ASSUME at[w] \in Dated
                 PROVE  /\ m.day \in 1..m.upto /\ m.day \in 1..NumDates
                        /\ status'[m.claim[1]] \notin R!Closed => m.day <= last'[m.claim[1]] + 1
        OBVIOUS
    <2>1. DayFits(m) /\ m.claim # None
        BY <1>1 DEF WorkerFits, Dated, Resting
    <2>2. m.claim[1] \in Requests
        BY <1>1, <2>1, ClaimParts
    <2>3. m.day \in 1..NumDates
        BY <2>1, WorkerHas, Bounds DEF DayFits
    <2>4. last[m.claim[1]] \in Nat /\ last'[m.claim[1]] \in Nat /\ last[m.claim[1]] <= last'[m.claim[1]]
        BY <2>2, TablesTyped, Bounds DEF TablesGrow, R!TypeOK
    <2>5. status'[m.claim[1]] \notin R!Closed => status[m.claim[1]] \notin R!Closed
        BY <2>2 DEF TablesGrow
    <2> QED BY <2>1, <2>3, <2>4, <2>5 DEF DayFits
<1>4. at[w] \in {"reread", "count"} => m.day \in series'[YearOf[m.day]].dates
    BY <1>1, <1>3 DEF WorkerFits, Dated, SeriesGrow, InSeries
<1>5. \A d \in m.read.dates : d \in series'[YearOf[d]].dates
    BY <1>1 DEF WorkerFits, ReadFits, SeriesGrow, InSeries, SeriesStates
<1>6. ~IsRun(w) /\ at[w] # "ended" => given'[w].req \in Requests
    BY <1>1 DEF WorkerFits
<1> QED BY <1>1, <1>2, <1>3, <1>4, <1>5, <1>6 DEF Brings, WorkerFits, ReadFits

LEMMA OtherFits ==
    ASSUME WInv, TablesGrow, SeriesGrow, R!TypeOK', NEW w \in Workers,
           at'[w] = at[w], mem'[w] = mem[w],
           ~IsRun(w) /\ at[w] # "ended" => given'[w].req = given[w].req
    PROVE  WorkerFits(w)'
BY KeepsBringing, BroughtFits

(* A step of a worker.                                                     *)
LEMMA StepFits ==
    ASSUME WInv, TablesGrow, SeriesGrow, R!TypeOK', NEW w \in Workers, NEW l, NEW m, Step(w, l, m),
           l \in {"off", "ended", "next"} \/ Brings(w, l, m),
           l \in (IF IsRun(w) THEN RunPlaces ELSE SnapPlaces),
           ~IsRun(w) /\ l # "ended" => given'[w].req \in Requests,
           \A s \in Snaps \ {w} : given'[s].req = given[s].req
    PROVE  /\ at' \in [Workers -> Places] /\ mem' \in [Workers -> Memory]
           /\ \A v \in Workers : WorkerFits(v)'
<1>1. Blank \in Memory /\ Blank.claim = None /\ Blank.read.ver = 0 /\ Blank.read.dates = {}
    BY Bounds DEF Blank, Memory, NoSeries, SeriesStates, Claims
<1>2. at \in [Workers -> Places] /\ mem \in [Workers -> Memory]
    BY DEF WInv, TypeOK
<1> DEFINE b == IF l \in {"off", "ended", "next"} THEN Blank ELSE m
<1>3. Brings(w, l, b)
    <2>1. CASE l \in {"off", "ended", "next"}
        BY <1>1, <2>1 DEF Brings, Resting, Dated
    <2>2. CASE l \notin {"off", "ended", "next"}
        BY <2>2
    <2> QED BY <2>1, <2>2
<1>4. l \in Places /\ b \in Memory
    BY <1>3 DEF Brings, RunPlaces, SnapPlaces, Resting, Dated, Places
<1>5. at' = [at EXCEPT ![w] = l] /\ mem' = [mem EXCEPT ![w] = b]
    BY DEF Step, Goto
<1> HIDE DEF b
<1>6. at'[w] = l /\ mem'[w] = b /\ \A v \in Workers \ {w} : at'[v] = at[v] /\ mem'[v] = mem[v]
    BY <1>2, <1>5
<1>7. WorkerFits(w)'
    BY <1>3, <1>6, BroughtFits
<1>8. ASSUME NEW v \in Workers \ {w}
      PROVE  WorkerFits(v)'
    <2>1. ~IsRun(v) => v \in Snaps \ {w}
        BY DEF IsRun, Workers
    <2> QED BY <1>6, <2>1, OtherFits
<1> QED BY <1>2, <1>4, <1>5, <1>7, <1>8

LEMMA MoveFits ==
    ASSUME WInv, TablesGrow, SeriesGrow, R!TypeOK', given' = given, NEW w \in Workers, NEW l, Move(w, l),
           l \in (IF IsRun(w) THEN RunPlaces ELSE SnapPlaces),
           l \in {"off", "ended", "next"} \/ (at[w] \in Resting <=> l \in Resting),
           l \in Dated => at[w] \in Dated,
           l \in {"reread", "count"} => mem[w].day \in series'[YearOf[mem[w].day]].dates,
           ~IsRun(w) /\ l # "ended" => at[w] # "ended" \/ given[w].req \in Requests
    PROVE  /\ at' \in [Workers -> Places] /\ mem' \in [Workers -> Memory]
           /\ \A v \in Workers : WorkerFits(v)'
<1>1. Step(w, l, mem[w])
    BY DEF Move
<1>2. ~IsRun(w) /\ l # "ended" => given'[w].req \in Requests
    BY WorkerHas DEF WorkerFits
<1>3. l \in {"off", "ended", "next"} \/ Brings(w, l, mem[w])
    <2>1. Brings(w, at[w], mem[w])
        BY KeepsBringing
    <2> QED BY <1>2, <2>1 DEF Brings
<1> QED BY <1>1, <1>2, <1>3, StepFits

(* What is read is what was held before, or a whole committed series.      *)
LEMMA LoadedIs ==
    ASSUME NEW old, NEW Y \in SUBSET Years
    PROVE  Loaded(old, Y) = old \/ \E y \in Y : Loaded(old, Y) = series[y]
<1> DEFINE found == {y \in Y : series[y].ver # 0}
           K == YearOf[NumDates]
           T == {K - y : y \in found}
<1>1. CASE found = {}
    BY <1>1 DEF Loaded
<1>2. CASE found # {}
    <2>1. \A y \in found : y \in Nat /\ y <= K /\ K \in Nat
        BY Bounds, DatesAssumption DEF Years
    <2>2. T \subseteq Nat /\ T # {}
        BY <1>2, <2>1
    <2>3. PICK i \in T : \A j \in T : <<j, i>> \notin OpToRel(<, Nat)
        BY <2>2, NatLessThanWellFounded, WFMin
    <2>4. \A j \in T : ~(j < i)
        BY <2>2, <2>3 DEF OpToRel
    <2>5. PICK x \in found : i = K - x
        BY <2>3
    <2>6. ASSUME NEW z \in found PROVE z <= x
        <3>1. K - z \in T
            OBVIOUS
        <3>2. ~(K - z < K - x)
            BY <2>4, <2>5, <3>1
        <3>3. z \in Nat /\ x \in Nat /\ K \in Nat
            BY <2>1
        <3> HIDE DEF K, T, found
        <3> QED BY <3>2, <3>3
    <2>7. (CHOOSE y \in found : \A z \in found : z <= y) \in found
        BY <2>6
    <2> QED BY <1>2, <2>7 DEF Loaded
<1> QED BY <1>1, <1>2

LEMMA LoadedFits ==
    ASSUME WInv, NEW old \in SeriesStates, ReadFits(old), NEW Y \in SUBSET Years
    PROVE  Loaded(old, Y) \in SeriesStates /\ ReadFits(Loaded(old, Y))
<1>1. ASSUME NEW y \in Y PROVE series[y] \in SeriesStates /\ ReadFits(series[y])
    BY DEF WInv, TypeOK, SeriesFit, ReadFits, InSeries
<1> QED BY <1>1, LoadedIs

-----------------------------------------------------------------------------
(* A chunk's work, call by call.                                           *)
Whole == /\ at' \in [Workers -> Places] /\ mem' \in [Workers -> Memory]
         /\ \A v \in Workers : WorkerFits(v)'

LEMMA LoadRequestFits ==
    ASSUME WInv, TablesGrow, SeriesGrow, R!TypeOK', NEW w \in Workers, LoadRequest(w)
    PROVE  Whole
<1> DEFINE r == mem[w].claim[1]
           stop == IF IsRun(w) /\ last[r] + ChunkDates < NumDates THEN last[r] + ChunkDates ELSE NumDates
           m == [mem[w] EXCEPT !.day = last[r] + 1, !.upto = stop]
<1>0. at[w] = "load" /\ given' = given /\ UNCHANGED tables
    BY DEF LoadRequest, Unmoved
<1>1. Move(w, Well(w)) \/ Move(w, "finish") \/ (R!Remaining(r) /\ Step(w, "read", m))
    BY DEF LoadRequest
<1>2. CASE Move(w, Well(w)) \/ Move(w, "finish")
    BY <1>0, <1>2, MoveFits DEF Well, RunPlaces, SnapPlaces, Resting, Dated, Whole
<1>3. CASE R!Remaining(r) /\ Step(w, "read", m)
    <2>1. /\ Brings(w, "load", mem[w]) /\ mem[w] \in Memory /\ mem[w].claim # None /\ mem[w].claim \in Claims
        BY <1>0, KeepsBringing, WorkerHas DEF WorkerFits, Resting
    <2>2. r \in Requests /\ last[r] \in 0..NumDates /\ last[r] < NumDates
        BY <1>3, <2>1, ClaimParts, TablesTyped DEF R!Remaining
    <2>3. stop \in 0..NumDates /\ last[r] + 1 \in 1..stop /\ last[r] + 1 \in 0..NumDates
        <3>1. PICK done \in 0..NumDates : done = last[r] /\ done < NumDates
            BY <2>2
        <3>2. NumDates \in Nat /\ ChunkDates \in Nat \ {0}
            BY Bounds, DatesAssumption
        <3>3. stop = NumDates \/ (stop = done + ChunkDates /\ done + ChunkDates < NumDates)
            BY <3>1
        <3> HIDE DEF stop
        <3>4. stop \in 0..NumDates /\ done + 1 \in 1..stop /\ done + 1 \in 0..NumDates
            BY <3>1, <3>2, <3>3
        <3> QED BY <3>1, <3>4
    <2> HIDE DEF stop
    <2>4. m \in Memory /\ m.claim = mem[w].claim /\ m.day = last[r] + 1 /\ m.upto = stop /\ m.read = mem[w].read
        BY <2>1, <2>3 DEF Memory
    <2>5. last'[r] = last[r]
        BY <1>0 DEF tables
    <2> HIDE DEF m
    <2>6. Brings(w, "read", m)
        BY <2>1, <2>3, <2>4, <2>5 DEF Brings, RunPlaces, SnapPlaces, Resting, Dated
    <2>7. ~IsRun(w) => given'[w].req \in Requests
        BY <2>1 DEF Brings
    <2> QED BY <1>0, <1>3, <2>6, <2>7, StepFits DEF Whole, RunPlaces, SnapPlaces, Dated
<1> QED BY <1>1, <1>2, <1>3

LEMMA ReadStepFits ==
    ASSUME WInv, TablesGrow, SeriesGrow, R!TypeOK', NEW w \in Workers, given' = given, series' = series,
           NEW l \in {"day", "count"}, at[w] \in Dated, l = "count" => at[w] = "reread",
           NEW old \in SeriesStates, ReadFits(old), NEW Y \in SUBSET Years,
           Step(w, l, [mem[w] EXCEPT !.read = Loaded(old, Y)])
    PROVE  Whole
<1> DEFINE x == Loaded(old, Y)
           m == [mem[w] EXCEPT !.read = x]
<1>1. x \in SeriesStates /\ ReadFits(x)
    BY LoadedFits
<1>2. Brings(w, at[w], mem[w]) /\ mem[w] \in Memory
    BY KeepsBringing, WorkerHas
<1> HIDE DEF x
<1>3. m \in Memory /\ m.claim = mem[w].claim /\ m.day = mem[w].day /\ m.upto = mem[w].upto /\ m.read = x
    BY <1>1, <1>2 DEF Memory
<1>4. Step(w, l, m)
    BY DEF x
<1> HIDE DEF m
<1>5. (x.ver = 0 => x.dates = {}) /\ \A d \in x.dates : d \in series'[YearOf[d]].dates
    BY <1>1 DEF ReadFits, InSeries
<1>6. Brings(w, l, m)
    BY <1>2, <1>3, <1>5 DEF Brings, RunPlaces, SnapPlaces, Resting, Dated
<1>7. ~IsRun(w) => given'[w].req \in Requests
    BY <1>2 DEF Brings, Dated
<1> QED BY <1>4, <1>6, <1>7, StepFits DEF Whole, RunPlaces, SnapPlaces, Dated

LEMMA CountDateFits ==
    ASSUME WInv, TablesGrow, SeriesGrow, R!TypeOK', NEW w \in Workers, CountDate(w)
    PROVE  Whole
<1> DEFINE m == [mem[w] EXCEPT !.counted = TRUE]
           n == [m EXCEPT !.day = @ + 1]
           r == mem[w].claim[1]
<1>0. at[w] = "count" /\ given' = given /\ series' = series
    BY DEF CountDate, Unmoved
<1>1. \/ Move(w, Lost(w))
      \/ Report(m) /\ m.day = m.upto /\ Step(w, "finish", m)
      \/ Report(m) /\ m.day # m.upto /\ Step(w, "day", n)
    BY DEF CountDate
<1>2. /\ Brings(w, "count", mem[w]) /\ mem[w] \in Memory /\ mem[w].claim # None /\ mem[w].claim \in Claims
      /\ DayFits(mem[w])
    BY <1>0, KeepsBringing, WorkerHas DEF WorkerFits, Resting, Dated
<1>3. m \in Memory /\ m.claim = mem[w].claim /\ m.day = mem[w].day /\ m.upto = mem[w].upto /\ m.read = mem[w].read
    BY <1>2 DEF Memory
<1>4. ~IsRun(w) => given'[w].req \in Requests
    BY <1>2 DEF Brings
<1>5. CASE Move(w, Lost(w))
    BY <1>0, <1>5, MoveFits DEF Lost, Well, Off, RunPlaces, SnapPlaces, Resting, Dated, Whole
<1>6. CASE Report(m) /\ m.day = m.upto /\ Step(w, "finish", m)
    <2> HIDE DEF m
    <2>1. Brings(w, "finish", m)
        BY <1>2, <1>3 DEF Brings, RunPlaces, SnapPlaces, Resting, Dated
    <2> QED BY <1>0, <1>4, <1>6, <2>1, StepFits DEF Whole, RunPlaces, SnapPlaces
<1>7. CASE Report(m) /\ m.day # m.upto /\ Step(w, "day", n)
    <2>1. r \in Requests /\ last[r] \in 0..NumDates /\ last'[r] \in 0..NumDates /\ mem[w].upto \in 0..NumDates
        BY <1>2, ClaimParts, TablesTyped, WorkerHas DEF R!TypeOK
    <2>2. status'[r] \notin R!Closed => mem[w].day + 1 <= last'[r] + 1
        <3>1. ASSUME status[r] \notin R!Closed
              PROVE  mem[w].day <= last'[r]
            <4>1. R!Progress(r, mem[w].day)
                BY <1>3, <1>7, <3>1 DEF Report
            <4>2. last' = [last EXCEPT ![r] = IF mem[w].day > last[r] THEN mem[w].day ELSE last[r]]
                BY <4>1 DEF R!Progress, R!LastAfter
            <4> QED BY <4>2, <2>1, TablesTyped, <1>2, Bounds DEF DayFits
        <3>2. status'[r] \notin R!Closed => status[r] \notin R!Closed
            BY <2>1 DEF TablesGrow
        <3> QED BY <3>1, <3>2, <2>1, <1>2, Bounds DEF DayFits
    <2>3. mem[w].day + 1 \in 1..mem[w].upto /\ mem[w].day + 1 \in 0..NumDates
        BY <1>2, <1>3, <1>7, <2>1, Bounds DEF DayFits
    <2> HIDE DEF m
    <2>4. /\ n \in Memory /\ n.claim = mem[w].claim /\ n.day = mem[w].day + 1 /\ n.upto = mem[w].upto
          /\ n.read = mem[w].read
        BY <1>3, <2>3 DEF Memory
    <2> HIDE DEF n
    <2>5. Brings(w, "day", n)
        BY <1>2, <2>2, <2>3, <2>4 DEF Brings, RunPlaces, SnapPlaces, Resting, Dated
    <2> QED BY <1>0, <1>4, <1>7, <2>5, StepFits DEF Whole, RunPlaces, SnapPlaces, Dated
<1> QED BY <1>1, <1>5, <1>6, <1>7

LEMMA RunRequestFits ==
    ASSUME WInv, TablesGrow, SeriesGrow, R!TypeOK', NEW w \in Workers, RunRequest(w)
    PROVE  Whole
<1>0. /\ WorkerFits(w) /\ mem[w].read \in SeriesStates /\ given' = given
      /\ mem[w].day \in 0..NumDates /\ mem[w].upto \in 0..NumDates
    BY WorkerHas DEF RunRequest, FirstBeat, LoadRequest, LoadSeries, PlanDate, WriteDate, Reread, CountDate,
                     Finish, FailRow, Unmoved
<1> USE DEF RunPlaces, SnapPlaces, Resting, Dated
<1>1. CASE FirstBeat(w)
    <2>1. at[w] = "beat" /\ (Move(w, "load") \/ Move(w, Well(w)))
        BY <1>1 DEF FirstBeat
    <2> QED BY <1>0, <2>1, MoveFits DEF Well, Whole
<1>2. CASE LoadSeries(w)
    <2> DEFINE Y == {YearOf[d] : d \in mem[w].day..mem[w].upto}
    <2>1. DayFits(mem[w]) /\ at[w] = "read" /\ series' = series
        BY <1>0, <1>2 DEF LoadSeries, WorkerFits
    <2>2. Y \in SUBSET Years
        BY <1>0, <2>1, Bounds DEF DayFits, Years
    <2>3. NoSeries \in SeriesStates /\ ReadFits(NoSeries)
        BY DEF NoSeries, SeriesStates, ReadFits
    <2>4. Step(w, "day", [mem[w] EXCEPT !.read = Loaded(NoSeries, Y)])
        BY <1>2 DEF LoadSeries
    <2> HIDE DEF Y
    <2> QED BY <1>0, <2>1, <2>2, <2>3, <2>4, ReadStepFits
<1>3. CASE PlanDate(w)
    <2>1. at[w] = "day" /\ (Move(w, Lost(w)) \/ Move(w, "write") \/ (mem[w].day \in mem[w].read.dates /\ Move(w, "count")))
        BY <1>3 DEF PlanDate
    <2>2. mem[w].day \in mem[w].read.dates => mem[w].day \in series'[YearOf[mem[w].day]].dates
        BY <1>0 DEF WorkerFits, ReadFits, SeriesGrow, InSeries, SeriesStates
    <2> QED BY <1>0, <2>1, <2>2, MoveFits DEF Lost, Well, Off, Whole
<1>4. CASE WriteDate(w)
    <2>1. at[w] = "write"
        BY <1>4 DEF WriteDate
    <2>2. CASE series' = series
        <3>1. Move(w, "fail") \/ Move(w, Lost(w)) \/ (PriorIsRead(mem[w]) /\ Move(w, "reread"))
            BY <1>4 DEF WriteDate
        <3>2. CASE Move(w, "fail") \/ Move(w, Lost(w))
            BY <1>0, <2>1, <3>2, MoveFits DEF Lost, Well, Off, Whole
        <3>3. CASE ~(Move(w, "fail") \/ Move(w, Lost(w)))
            <4> DEFINE y == YearOf[mem[w].day]
            <4>1. series' = [series EXCEPT ![y].ver = @ + 1, ![y].dates = mem[w].read.dates \cup {mem[w].day}]
                BY <1>4, <3>3 DEF WriteDate
            <4>2. y \in Years /\ series \in [Years -> SeriesStates]
                BY <1>0, <2>1, Bounds DEF WorkerFits, DayFits, Years, WInv, TypeOK
            <4>3. series'[y].ver = series[y].ver + 1 /\ series[y].ver \in Nat
                BY <4>1, <4>2 DEF SeriesStates
            <4> QED BY <2>2, <4>3
        <3> QED BY <3>2, <3>3
    <2>3. CASE series' # series
        <3>1. /\ mem[w].day \in series'[YearOf[mem[w].day]].dates
              /\ at' = [at EXCEPT ![w] = "reread"] /\ mem' = [mem EXCEPT ![w] = mem[w]]
            BY <1>4, <2>3, WriteKeeps
        <3>2. Move(w, "reread")
            BY <3>1 DEF Move, Step, Goto
        <3> QED BY <1>0, <2>1, <3>1, <3>2, MoveFits DEF Whole
    <2> QED BY <2>2, <2>3
<1>5. CASE Reread(w)
    <2> DEFINE Y == {YearOf[mem[w].day]}
    <2>1. DayFits(mem[w]) /\ at[w] = "reread" /\ series' = series /\ ReadFits(mem[w].read)
        BY <1>0, <1>5 DEF Reread, WorkerFits
    <2>2. Y \in SUBSET Years
        BY <1>0, <2>1, Bounds DEF DayFits, Years
    <2>3. Step(w, "count", [mem[w] EXCEPT !.read = Loaded(mem[w].read, Y)])
        BY <1>5, WorkerHas DEF Reread, Memory
    <2> HIDE DEF Y
    <2> QED BY <1>0, <2>1, <2>2, <2>3, ReadStepFits
<1>6. CASE Finish(w) \/ FailRow(w)
    <2>1. at[w] \in {"finish", "fail"}
        BY <1>6 DEF Finish, FailRow
    <2>2. Move(w, Well(w)) \/ Move(w, Lost(w)) \/ Move(w, "fail") \/ Move(w, Off(w))
        BY <1>6 DEF Finish, FailRow
    <2> QED BY <1>0, <2>1, <2>2, MoveFits DEF Lost, Well, Off, Whole
<1> QED BY <1>1, <1>2, <1>3, <1>4, <1>5, <1>6, LoadRequestFits, CountDateFits DEF RunRequest

-----------------------------------------------------------------------------
(* A worker that comes to a claim, or to none.                             *)
LEMMA HoldingFits ==
    ASSUME WInv, TablesGrow, SeriesGrow, R!TypeOK', given' = given, NEW w \in Workers,
           NEW l \in SnapPlaces \cap (Resting \cup {"premark", "mark", "beat"}),
           NEW c \in Claims, c = None <=> l \in Resting, c # None => c[3] <= token'[c[1]][c[2]],
           IsRun(w) => l = "beat" /\ c[1] = w,
           ~IsRun(w) => given[w].req \in Requests, Step(w, l, Holding(c))
    PROVE  Whole
<1> DEFINE m == Holding(c)
<1>1. m \in Memory /\ m.claim = c /\ m.read.ver = 0 /\ m.read.dates = {}
    <2>1. Blank \in Memory /\ Blank.read.ver = 0 /\ Blank.read.dates = {}
        BY Bounds DEF Blank, Memory, NoSeries, SeriesStates, Claims
    <2>2. m = [Blank EXCEPT !.claim = c]
        BY DEF Holding
    <2> QED BY <2>1, <2>2 DEF Memory
<1> HIDE DEF m
<1>2. Brings(w, l, m)
    BY <1>1 DEF Brings, RunPlaces, SnapPlaces, Resting, Dated
<1>3. Step(w, l, m)
    BY DEF m
<1> QED BY <1>2, <1>3, StepFits DEF Whole, RunPlaces

LEMMA HeldHasToken ==
    ASSUME WInv, NEW r \in Requests, NEW q \in R!Chunks, row[r][q] \in R!Held
    PROVE  token[r][q] \in 1..MaxToken /\ <<r, q, token[r][q]>> \in Claims
<1>1. token[r][q] > 0
    BY DEF WInv, RP!IInv, RP!TokensFit, RP!Chunks, R!Chunks, RP!Held, R!Held
<1> QED BY <1>1, TablesTyped, Bounds DEF Claims, R!Chunks

LEMMA TakenHas ==
    ASSUME WInv, R!TypeOK', NEW b, NEW X \in SUBSET R!HeldRows, NEW k \in Requests \X R!Chunks, Take(b, X, k)
    PROVE  /\ TakenClaim(k) \in Claims /\ TakenClaim(k) # None
           /\ TakenClaim(k)[1] = k[1] /\ TakenClaim(k)[2] = k[2]
           /\ TakenClaim(k)[3] = token'[k[1]][k[2]] /\ token'[k[1]][k[2]] = token[k[1]][k[2]] + 1
<1>1. k[1] \in Requests /\ k[2] \in R!Chunks /\ k = <<k[1], k[2]>>
    OBVIOUS
<1>2. token'[k[1]][k[2]] = token[k[1]][k[2]] + 1
    BY <1>1 DEF Take, R!ClaimOutbox, R!NextToken
<1>3. token'[k[1]][k[2]] \in 1..MaxToken
    BY <1>1, <1>2, TablesTyped, Bounds DEF R!TypeOK
<1> QED BY <1>1, <1>2, <1>3, ActorsAssumption DEF TakenClaim, Claims, R!Chunks

LEMMA ResumeFits ==
    ASSUME WInv, TablesGrow, SeriesGrow, R!TypeOK', given' = given, NEW s \in Snaps, NEW l \in {"premark", "mark"},
           given[s].req \in Requests, Resume(s, given[s].req, l)
    PROVE  Whole
<1> DEFINE r == given[s].req
<1>1. PICK q \in Own(s, r) : Step(s, l, Holding(<<r, q, token[r][q]>>))
    BY DEF Resume
<1> DEFINE c == <<r, q, token[r][q]>>
<1>2. q \in R!Chunks /\ row[r][q] \in R!Held
    BY DEF Own, ActiveRows
<1>3. c \in Claims /\ c # None /\ token[r][q] <= token'[r][q]
    BY <1>2, HeldHasToken, ActorsAssumption DEF Claims, R!Chunks, TablesGrow
<1>4. c[1] = r /\ c[2] = q /\ c[3] = token[r][q]
    OBVIOUS
<1>5. Step(s, l, Holding(c))
    BY <1>1
<1> HIDE DEF c
<1> QED BY <1>3, <1>4, <1>5, SnapHas, HoldingFits DEF SnapPlaces, Resting

LEMMA TakeOneFits ==
    ASSUME WInv, TablesGrow, SeriesGrow, R!TypeOK', given' = given, NEW s \in Snaps, NEW l \in {"premark", "mark"},
           given[s].req \in Requests, TakeOne(s, l)
    PROVE  Whole
<1>1. PICK X \in SUBSET R!HeldRows, q \in R!Chunks :
         /\ Take(s, X, <<given[s].req, q>>)
         /\ Step(s, l, Holding(TakenClaim(<<given[s].req, q>>)))
    BY DEF TakeOne
<1> DEFINE k == <<given[s].req, q>>
           c == TakenClaim(k)
<1>2. k \in Requests \X R!Chunks
    OBVIOUS
<1>3. /\ c \in Claims /\ c # None /\ c[3] = token'[c[1]][c[2]] /\ token'[c[1]][c[2]] \in Nat
    BY <1>1, <1>2, TakenHas, Bounds DEF R!TypeOK
<1>4. Step(s, l, Holding(c))
    BY <1>1
<1> HIDE DEF c
<1> QED BY <1>3, <1>4, SnapHas, HoldingFits DEF SnapPlaces, Resting

LEMMA SeedJobFits ==
    ASSUME WInv, TablesGrow, SeriesGrow, R!TypeOK', NEW s \in Snaps, SeedJob(s)
    PROVE  Whole
<1>0. /\ s \in Workers /\ ~IsRun(s) /\ WorkerFits(s) /\ at[s] # "ended" /\ given[s].req \in Requests
      /\ given[s].claim \in Claims
    BY SnapHas, WorkerHas DEF SeedJob, Preclaim, PreclaimTake, PreclaimMark, Seed, DrainTake, DrainLook, DrainMark,
                              DrainNext
<1> DEFINE r == given[s].req
<1>1. CASE Preclaim(s)
    <2>1. at[s] = "preclaim" /\ given' = given
        BY <1>1 DEF Preclaim
    <2>2. Move(s, "seed") \/ Move(s, "pretake") \/ Resume(s, r, "premark")
        BY <1>1 DEF Preclaim
    <2> QED BY <1>0, <2>1, <2>2, MoveFits, ResumeFits DEF SnapPlaces, Resting, Dated, Whole
<1>2. CASE PreclaimTake(s) \/ DrainTake(s)
    <2>1. at[s] \in {"pretake", "take", "again"} /\ given' = given
        BY <1>2 DEF PreclaimTake, DrainTake
    <2>2. TakeOne(s, "premark") \/ TakeOne(s, "mark") \/ Move(s, "ended") \/ Move(s, "look")
        BY <1>2 DEF PreclaimTake, DrainTake, TakeNone
    <2> QED BY <1>0, <2>1, <2>2, MoveFits, TakeOneFits DEF SnapPlaces, Resting, Dated, Whole
<1>3. CASE PreclaimMark(s)
    <2> DEFINE x == IF Holds(mem[s].claim) THEN mem[s].claim ELSE None
               l == IF Holds(mem[s].claim) \/ ~IsCurrent(mem[s].claim) THEN "seed" ELSE "ended"
    <2>1. given' = [given EXCEPT ![s].claim = x] /\ Step(s, l, Blank)
        BY <1>3 DEF PreclaimMark
    <2>2. l \in {"seed", "ended"}
        OBVIOUS
    <2> HIDE DEF x, l
    <2>3. \A t \in Snaps : given'[t].req = given[t].req
        BY <2>1 DEF WInv, TypeOK
    <2>4. Blank \in Memory /\ Blank.claim = None /\ Blank.read.ver = 0 /\ Blank.read.dates = {}
        BY Bounds DEF Blank, Memory, NoSeries, SeriesStates, Claims
    <2>5. Brings(s, l, Blank)
        BY <1>0, <2>2, <2>3, <2>4 DEF Brings, SnapPlaces, Resting, Dated
    <2> QED BY <1>0, <2>1, <2>2, <2>3, <2>5, StepFits DEF Whole, SnapPlaces, Resting
<1>4. CASE Seed(s)
    <2> DEFINE c == given[s].claim
    <2>1. given' = given /\ Step(s, IF c = None THEN "take" ELSE "mark", Holding(c))
        BY <1>4 DEF Seed
    <2>2. c # None => c[3] <= token'[c[1]][c[2]]
        BY <1>0, TokenKeeps DEF WInv, HandsFit
    <2> HIDE DEF c
    <2> DEFINE l == IF c = None THEN "take" ELSE "mark"
    <2>3. l \in SnapPlaces \cap (Resting \cup {"premark", "mark", "beat"}) /\ (c = None <=> l \in Resting)
        BY DEF SnapPlaces, Resting
    <2>4. Step(s, l, Holding(c)) /\ c \in Claims
        BY <1>0, <2>1 DEF c
    <2> HIDE DEF l
    <2> QED BY <1>0, <2>1, <2>2, <2>3, <2>4, HoldingFits
<1>5. CASE DrainLook(s)
    <2>1. at[s] = "look" /\ given' = given
        BY <1>5 DEF DrainLook
    <2>2. Move(s, "ended") \/ Resume(s, r, "mark")
        BY <1>5 DEF DrainLook
    <2> QED BY <1>0, <2>1, <2>2, MoveFits, ResumeFits DEF SnapPlaces, Resting, Dated, Whole
<1>6. CASE DrainMark(s) \/ DrainNext(s)
    <2>1. given' = given /\ \/ at[s] = "mark" /\ (Move(s, "beat") \/ Move(s, "ended"))
                            \/ at[s] = "next" /\ (Move(s, "again") \/ Move(s, "ended"))
        BY <1>6 DEF DrainMark, DrainNext
    <2> QED BY <1>0, <2>1, MoveFits DEF RunPlaces, SnapPlaces, Resting, Dated, Whole
<1> QED BY <1>1, <1>2, <1>3, <1>4, <1>5, <1>6 DEF SeedJob

LEMMA StartRunFits ==
    ASSUME WInv, TablesGrow, SeriesGrow, R!TypeOK', NEW r \in Requests, StartRun(r)
    PROVE  Whole
<1> DEFINE c == queue[r]
<1>1. given' = given /\ c # None /\ Step(r, "beat", Holding(c))
    BY DEF StartRun
<1>2. c \in Claims /\ c[1] = r /\ TokenReached(c)
    BY <1>1 DEF WInv, TypeOK, HandsFit
<1>3. c[3] <= token'[c[1]][c[2]]
    BY <1>1, <1>2, TokenKeeps
<1>4. r \in Workers /\ IsRun(r)
    BY DEF Workers, IsRun
<1> HIDE DEF c
<1>5. "beat" \in SnapPlaces \cap (Resting \cup {"premark", "mark", "beat"}) /\ "beat" \notin Resting
    BY DEF SnapPlaces, RunPlaces, Resting
<1> QED BY <1>1, <1>2, <1>3, <1>4, <1>5, HoldingFits

(* Whatever step is taken, every worker has what it needs at its place.    *)
LEMMA AllFit ==
    ASSUME WInv, TablesGrow, SeriesGrow, R!TypeOK', [Next]_vars
    PROVE  Whole
<1>1. CASE UNCHANGED work
    BY <1>1, OtherFits DEF work, Whole, WInv, TypeOK
<1>2. ASSUME NEW w \in Workers, WorkerStep(w) \/ Break(w) PROVE Whole
    <2>1. CASE Break(w)
        <3>1. given' = given /\ at[w] \notin {"off", "ended"} /\ WorkerFits(w)
            BY <2>1, WorkerHas DEF Break, Working
        <3>2. \/ Move(w, Off(w))
              \/ at[w] \notin Resting /\ Move(w, "fail")
            BY <2>1 DEF Break, Resting
        <3> QED BY <3>1, <3>2, MoveFits DEF Off, RunPlaces, SnapPlaces, Resting, Dated, Whole
    <2> QED BY <1>2, <2>1, RunRequestFits, SeedJobFits, StartRunFits DEF WorkerStep
<1>3. ASSUME NEW s \in Snaps, SeedReRun(s) PROVE Whole
    <2>1. given' = given /\ at[s] = "ended" /\ given[s].req \in Requests /\ Move(s, "seed")
        BY <1>3 DEF SeedReRun, WInv, TypeOK
    <2> QED BY <2>1, SnapHas, MoveFits DEF SnapPlaces, Resting, Dated, Whole
<1>4. ASSUME NEW s \in Snaps, NEW d \in Decisions[s], MonthlyCommit(s, d) PROVE Whole
    <2>1. CASE UNCHANGED <<at, given>>
        BY <1>1, <1>4, <2>1 DEF MonthlyCommit, work
    <2>2. CASE ~UNCHANGED <<at, given>>
        <3>1. /\ Goto(s, "preclaim") /\ given' = [given EXCEPT ![s] = [req |-> d.req, claim |-> None]]
              /\ mem' = mem /\ cli[s] = "staged" /\ d.outcome = "runnable"
            BY <1>4, <2>2 DEF MonthlyCommit, R!Commit
        <3>2. at[s] = "ended"
            BY <3>1 DEF WInv, HandsFit, GivenFits
        <3>3. d.req \in Requests
            BY <3>1, TablesAssumption DEF R!DecisionsAssumption, R!Decision, R!Outcomes
        <3>4. s \in Workers /\ ~IsRun(s) /\ mem[s] \in Memory /\ mem[s].claim = None /\ WorkerFits(s)
            BY <3>2, SnapHas, WorkerHas DEF WorkerFits, Resting
        <3>5. given'[s].req \in Requests /\ \A t \in Snaps \ {s} : given'[t] = given[t]
            BY <3>1, <3>3 DEF WInv, TypeOK
        <3>6. Brings(s, at[s], mem[s])
            BY <3>2, <3>4, KeepsBringing
        <3>7. Brings(s, "preclaim", mem[s])
            BY <3>2, <3>4, <3>5, <3>6 DEF Brings, SnapPlaces, Resting, Dated
        <3>8. Step(s, "preclaim", mem[s])
            BY <3>1 DEF Step, WInv, TypeOK
        <3> QED BY <3>4, <3>5, <3>7, <3>8, StepFits DEF Whole, SnapPlaces, Resting
    <2> QED BY <2>1, <2>2
<1>5. \/ UNCHANGED work
      \/ \E w \in Workers : WorkerStep(w) \/ Break(w)
      \/ \E s \in Snaps : SeedReRun(s) \/ \E d \in Decisions[s] : MonthlyCommit(s, d)
    BY DEF Next, vars, MonthlyStep, PollStep, PollClaim, PollDispatch, PollMark, PollDies, Daily
<1> QED BY <1>1, <1>2, <1>3, <1>4, <1>5

-----------------------------------------------------------------------------
(* Who may use a claim.                                                    *)
LEMMA HeldReached ==
    ASSUME WInv, NEW p \in Parties, NEW c \in Claims \ {None}, HeldBy(p, c)
    PROVE  /\ c[1] \in Requests /\ c[2] \in R!Chunks /\ c[3] <= token[c[1]][c[2]]
           /\ c[3] \in Nat /\ token[c[1]][c[2]] \in Nat
<1>1. c[1] \in Requests /\ c[2] \in R!Chunks /\ c[3] \in 1..MaxToken
    BY ClaimParts
<1>2. TokenReached(c)
    <2>1. CASE p = "poller"
        BY <1>1, <2>1, WorkerHas DEF HeldBy, WInv, HandsFit, Workers, WorkerFits
    <2>2. CASE p # "poller"
        <3>1. p \in Snaps
            BY <2>2 DEF Parties
        <3> QED BY <2>2, <3>1, SnapHas, WorkerHas DEF HeldBy, WInv, HandsFit, WorkerFits
    <2> QED BY <2>1, <2>2
<1> QED BY <1>1, <1>2, TablesTyped, Bounds DEF TokenReached

(* A step by which no party gets a claim but b the claim g, which no other *)
(* has: then the claims stay apart.  Rows that change owner but are not of *)
(* g lose it, or get a token nobody has.                                   *)
LEMMA ApartGained ==
    ASSUME WInv, TablesGrow, R!TypeOK', NEW b, NEW g,
           \A p \in Parties, c \in Claims \ {None} : HeldBy(p, c)' => HeldBy(p, c) \/ (p = b /\ c = g),
           \A p \in Parties : g \in Claims \ {None} /\ HeldBy(p, g) => p = b,
           g \in Claims \ {None} => owner'[g[1]][g[2]] \in {b, None},
           \A r \in Requests, q \in R!Chunks :
              owner'[r][q] \in {owner[r][q], None} \/ token'[r][q] = token[r][q] + 1
    PROVE  ClaimsApart'
<1> SUFFICES ASSUME NEW p \in Parties, NEW c \in Claims \ {None}, HeldBy(p, c)', token'[c[1]][c[2]] = c[3]
             PROVE  /\ owner'[c[1]][c[2]] \in {p, None}
                    /\ \A q \in Parties : HeldBy(q, c)' => q = p
    BY Zenon DEF ClaimsApart, IsCurrent
<1>1. ASSUME NEW q \in Parties, HeldBy(q, c)
      PROVE  /\ owner[c[1]][c[2]] \in {q, None} /\ owner'[c[1]][c[2]] \in {owner[c[1]][c[2]], None}
             /\ \A u \in Parties : HeldBy(u, c) => u = q
    <2>1. /\ c[1] \in Requests /\ c[2] \in R!Chunks /\ c[3] <= token[c[1]][c[2]]
          /\ c[3] \in Nat /\ token[c[1]][c[2]] \in Nat
        BY <1>1, HeldReached
    <2>2. token[c[1]][c[2]] <= token'[c[1]][c[2]]
        BY <2>1 DEF TablesGrow
    <2>3. token[c[1]][c[2]] = c[3] /\ token'[c[1]][c[2]] # token[c[1]][c[2]] + 1
        BY <2>1, <2>2
    <2>4. IsCurrent(c)
        BY <2>3 DEF IsCurrent
    <2>5. owner'[c[1]][c[2]] \in {owner[c[1]][c[2]], None}
        BY <2>1, <2>3
    <2> QED BY <1>1, <2>4, <2>5 DEF WInv, ClaimsApart
<1>2. CASE HeldBy(p, c)
    BY <1>1, <1>2
<1>3. CASE p = b /\ c = g /\ ~HeldBy(p, c)
    BY <1>1, <1>3
<1> QED BY <1>2, <1>3

LEMMA ApartKept ==
    ASSUME WInv, TablesGrow, R!TypeOK', owner' = owner,
           \A p \in Parties, c \in Claims \ {None} : HeldBy(p, c)' => HeldBy(p, c)
    PROVE  ClaimsApart'
<1>1. \A p \in Parties, c \in Claims \ {None} : HeldBy(p, c)' => HeldBy(p, c) \/ (p = None /\ c = None)
    OBVIOUS
<1> QED BY <1>1, ApartGained

LEMMA ApartMoved ==
    ASSUME WInv, TablesGrow, R!TypeOK', owner' = owner, poll' = poll, queue' = queue, given' = given,
           \A w \in Workers : mem'[w].claim \in {mem[w].claim, None}
    PROVE  ClaimsApart'
<1>1. ASSUME NEW p \in Parties, NEW c \in Claims \ {None}, HeldBy(p, c)'
      PROVE  HeldBy(p, c)
    <2>1. c[1] \in Workers
        BY ClaimParts DEF Workers
    <2>2. p # "poller" => p \in Workers
        BY DEF Parties, Workers
    <2> QED BY <1>1, <2>1, <2>2 DEF HeldBy
<1> QED BY <1>1, ApartKept

LEMMA StepDrops ==
    ASSUME WInv, NEW w \in Workers, NEW l, NEW m, m.claim = mem[w].claim, Step(w, l, m)
    PROVE  \A v \in Workers : mem'[v].claim \in {mem[v].claim, None}
<1> DEFINE b == IF l \in {"off", "ended", "next"} THEN Blank ELSE m
<1>1. b.claim \in {mem[w].claim, None}
    BY DEF Blank
<1>2. mem' = [mem EXCEPT ![w] = b] /\ mem \in [Workers -> Memory]
    BY DEF Step, WInv, TypeOK
<1> HIDE DEF b
<1> QED BY <1>1, <1>2

(* A worker that moves on keeps its claim or drops it.                     *)
LEMMA MoveDrops ==
    ASSUME WInv, NEW w \in Workers, NEW l, Move(w, l)
    PROVE  \A v \in Workers : mem'[v].claim \in {mem[v].claim, None}
BY StepDrops DEF Move

LEMMA RunRequestDrops ==
    ASSUME WInv, NEW w \in Workers, RunRequest(w)
    PROVE  \A v \in Workers : mem'[v].claim \in {mem[v].claim, None}
<1>0. mem[w] \in Memory
    BY WorkerHas
<1>1. ASSUME NEW x, NEW y PROVE [mem[w] EXCEPT !.day = x, !.upto = y].claim = mem[w].claim
    BY <1>0 DEF Memory
<1>2. ASSUME NEW x PROVE [mem[w] EXCEPT !.read = x].claim = mem[w].claim
    BY <1>0 DEF Memory
<1>3. /\ [mem[w] EXCEPT !.counted = TRUE].claim = mem[w].claim
      /\ \A x : [[mem[w] EXCEPT !.counted = TRUE] EXCEPT !.day = x].claim = mem[w].claim
    BY <1>0 DEF Memory
<1>4. CASE FirstBeat(w) \/ PlanDate(w) \/ WriteDate(w) \/ Finish(w) \/ FailRow(w)
    <2>1. \E l : Move(w, l)
        BY <1>4, Zenon DEF FirstBeat, PlanDate, WriteDate, Finish, FailRow
    <2> QED BY <2>1, MoveDrops
<1>5. CASE LoadRequest(w)
    <2>1. (\E l : Move(w, l)) \/ \E x, y : Step(w, "read", [mem[w] EXCEPT !.day = x, !.upto = y])
        BY <1>5, Zenon DEF LoadRequest
    <2> QED BY <1>1, <2>1, MoveDrops, StepDrops
<1>6. CASE LoadSeries(w) \/ Reread(w)
    <2>1. \E l, x : Step(w, l, [mem[w] EXCEPT !.read = x])
        BY <1>6, Zenon DEF LoadSeries, Reread
    <2> QED BY <1>2, <2>1, StepDrops
<1>7. CASE CountDate(w)
    <2>1. \/ \E l : Move(w, l)
          \/ Step(w, "finish", [mem[w] EXCEPT !.counted = TRUE])
          \/ \E x : Step(w, "day", [[mem[w] EXCEPT !.counted = TRUE] EXCEPT !.day = x])
        BY <1>7, Zenon DEF CountDate
    <2> QED BY <1>3, <2>1, MoveDrops, StepDrops
<1> QED BY <1>4, <1>5, <1>6, <1>7 DEF RunRequest

(* A claim that is taken has a token nobody has yet.                       *)
LEMMA TakenApart ==
    ASSUME WInv, TablesGrow, R!TypeOK', NEW b \in Parties, NEW X \in SUBSET R!HeldRows,
           NEW k \in Requests \X R!Chunks, Take(b, X, k),
           \A p \in Parties, c \in Claims \ {None} :
              HeldBy(p, c)' => HeldBy(p, c) \/ (p = b /\ c = TakenClaim(k))
    PROVE  ClaimsApart'
<1> DEFINE g == TakenClaim(k)
<1>1. /\ g \in Claims /\ g[1] = k[1] /\ g[2] = k[2] /\ g[3] = token[k[1]][k[2]] + 1
      /\ token'[k[1]][k[2]] = token[k[1]][k[2]] + 1 /\ k[1] \in Requests /\ k[2] \in R!Chunks /\ k = <<k[1], k[2]>>
    BY TakenHas
<1> HIDE DEF g
<1>2. ASSUME NEW p \in Parties, g \in Claims \ {None}, HeldBy(p, g) PROVE p = b
    <2>1. g[3] <= token[g[1]][g[2]] /\ token[g[1]][g[2]] \in Nat
        BY <1>2, HeldReached
    <2> QED BY <1>1, <2>1
<1>3. owner' = [r \in Requests |-> [q \in R!Chunks |->
                  IF <<r, q>> = k THEN b ELSE IF <<r, q>> \in X THEN None ELSE owner[r][q]]]
    BY DEF Take
<1>4. owner'[g[1]][g[2]] = b
    BY <1>1, <1>3
<1>5. ASSUME NEW r \in Requests, NEW q \in R!Chunks
      PROVE  owner'[r][q] \in {owner[r][q], None} \/ token'[r][q] = token[r][q] + 1
    BY <1>1, <1>3
<1>6. \A p \in Parties, c \in Claims \ {None} : HeldBy(p, c)' => HeldBy(p, c) \/ (p = b /\ c = g)
    BY DEF g
<1>7. \A p \in Parties : g \in Claims \ {None} /\ HeldBy(p, g) => p = b
    BY <1>2
<1>8. \A r \in Requests, q \in R!Chunks : owner'[r][q] \in {owner[r][q], None} \/ token'[r][q] = token[r][q] + 1
    BY <1>5
<1>9. g \in Claims \ {None} => owner'[g[1]][g[2]] \in {b, None}
    BY <1>4
<1> QED BY ONLY WInv, TablesGrow, R!TypeOK', <1>6, <1>7, <1>8, <1>9, ApartGained

(* A monthly run that comes to hold c, by a step that leaves the other     *)
(* hands alone.                                                            *)
LEMMA SnapTakes ==
    ASSUME WInv, NEW s \in Snaps, NEW l \in {"premark", "mark"}, NEW c \in Claims, Step(s, l, Holding(c)),
           poll' = poll, queue' = queue, given' = given
    PROVE  \A p \in Parties, x \in Claims \ {None} : HeldBy(p, x)' => HeldBy(p, x) \/ (p = s /\ x = c)
<1>1. mem' = [mem EXCEPT ![s] = Holding(c)]
    BY DEF Step
<1>2. Holding(c).claim = c
    BY DEF Holding, Blank
<1>3. mem'[s].claim = c /\ \A v \in Workers \ {s} : mem'[v] = mem[v]
    BY <1>1, <1>2, SnapHas DEF WInv, TypeOK
<1> SUFFICES ASSUME NEW p \in Parties, NEW x \in Claims \ {None}, HeldBy(p, x)'
             PROVE  HeldBy(p, x) \/ (p = s /\ x = c)
    OBVIOUS
<1>4. CASE p = "poller"
    <2>1. x[1] \in Workers \ {s}
        BY ClaimParts, ActorsAssumption DEF Workers
    <2> QED BY <1>3, <1>4, <2>1 DEF HeldBy
<1>5. CASE p # "poller"
    <2>1. p \in Workers
        BY <1>5 DEF Parties, Workers
    <2> QED BY <1>3, <1>5, <2>1 DEF HeldBy
<1> QED BY <1>4, <1>5

LEMMA TakeOneApart ==
    ASSUME WInv, TablesGrow, R!TypeOK', NEW s \in Snaps, NEW l \in {"premark", "mark"}, given[s].req \in Requests,
           TakeOne(s, l), poll' = poll, queue' = queue, given' = given
    PROVE  ClaimsApart'
<1>1. PICK X \in SUBSET R!HeldRows, q \in R!Chunks :
         /\ Take(s, X, <<given[s].req, q>>)
         /\ Step(s, l, Holding(TakenClaim(<<given[s].req, q>>)))
    BY DEF TakeOne
<1> DEFINE k == <<given[s].req, q>>
<1>2. k \in Requests \X R!Chunks /\ TakenClaim(k) \in Claims /\ s \in Parties
    BY <1>1, TakenHas DEF Parties
<1>3. Take(s, X, k) /\ Step(s, l, Holding(TakenClaim(k)))
    BY <1>1
<1> HIDE DEF k
<1> QED BY <1>2, <1>3, SnapTakes, TakenApart

(* A claim that is resumed is on a row of the run's own.                   *)
LEMMA ResumeApart ==
    ASSUME WInv, TablesGrow, R!TypeOK', NEW s \in Snaps, NEW l \in {"premark", "mark"}, given[s].req \in Requests,
           Resume(s, given[s].req, l), poll' = poll, queue' = queue, given' = given, owner' = owner
    PROVE  ClaimsApart'
<1> DEFINE r == given[s].req
<1>1. PICK q \in Own(s, r) : Step(s, l, Holding(<<r, q, token[r][q]>>))
    BY DEF Resume
<1> DEFINE c == <<r, q, token[r][q]>>
<1>2. q \in R!Chunks /\ row[r][q] \in R!Held /\ owner[r][q] = s
    BY DEF Own, ActiveRows
<1>3. c \in Claims /\ c[1] = r /\ c[2] = q /\ IsCurrent(c)
    BY <1>2, HeldHasToken DEF IsCurrent
<1>4. Step(s, l, Holding(c)) /\ s \in Parties /\ s # None
    BY <1>1, ActorsAssumption DEF Parties
<1> HIDE DEF c
<1>5. ASSUME NEW p \in Parties, c \in Claims \ {None}, HeldBy(p, c) PROVE p = s
    BY <1>2, <1>3, <1>4, <1>5 DEF WInv, ClaimsApart
<1>6. \A p \in Parties, x \in Claims \ {None} : HeldBy(p, x)' => HeldBy(p, x) \/ (p = s /\ x = c)
    BY <1>3, <1>4, SnapTakes
<1> QED BY <1>2, <1>3, <1>5, <1>6, ApartGained

LEMMA WorkerApart ==
    ASSUME WInv, TablesGrow, R!TypeOK', NEW w \in Workers, WorkerStep(w) \/ Break(w)
    PROVE  ClaimsApart'
<1>1. CASE RunRequest(w)
    <2>1. owner' = owner /\ UNCHANGED polling /\ given' = given
        BY <1>1 DEF RunRequest, FirstBeat, LoadRequest, LoadSeries, PlanDate, WriteDate, Reread, CountDate,
                    Finish, FailRow, Unmoved
    <2> QED BY <1>1, <2>1, RunRequestDrops, ApartMoved DEF polling
<1>2. CASE w \in Requests /\ StartRun(w)
    <2> DEFINE c == queue[w]
    <2>1. /\ owner' = owner /\ poll' = poll /\ given' = given /\ c # None
          /\ queue' = [queue EXCEPT ![w] = None] /\ mem' = [mem EXCEPT ![w] = Holding(c)]
        BY <1>2 DEF StartRun, Step
    <2>2. Holding(c).claim = c
        BY DEF Holding, Blank
    <2>3. c \in Claims /\ c[1] = w
        BY <1>2, <2>1 DEF WInv, TypeOK, HandsFit
    <2>4. mem'[w].claim = c /\ \A v \in Workers \ {w} : mem'[v] = mem[v]
        BY <2>1, <2>2 DEF WInv, TypeOK
    <2>5. queue'[w] = None /\ \A r \in Requests \ {w} : queue'[r] = queue[r]
        BY <1>2, <2>1 DEF WInv, TypeOK
    <2> HIDE DEF c
    <2>6. ASSUME NEW p \in Parties, NEW x \in Claims \ {None}, HeldBy(p, x)' PROVE HeldBy(p, x)
        <3>1. x[1] \in Requests /\ x[1] \in Workers
            BY ClaimParts DEF Workers
        <3>2. CASE p = "poller"
            BY <2>1, <2>4, <2>5, <2>6, <3>1, <3>2 DEF HeldBy, c
        <3>3. CASE p # "poller"
            <4>1. p \in Workers \ {w}
                BY <1>2, <3>3, ActorsAssumption DEF Parties, Workers
            <4> QED BY <2>1, <2>4, <2>6, <3>3, <4>1 DEF HeldBy
        <3> QED BY <3>2, <3>3
    <2> QED BY <2>1, <2>6, ApartKept
<1>3. ASSUME w \in Snaps, Preclaim(w) \/ DrainLook(w)
      PROVE  ClaimsApart'
    <2>1. owner' = owner /\ UNCHANGED polling /\ given' = given /\ given[w].req \in Requests
        BY <1>3, SnapHas DEF Preclaim, DrainLook
    <2>2. Resume(w, given[w].req, "premark") \/ Resume(w, given[w].req, "mark") \/ \E l : Move(w, l)
        BY <1>3, Zenon DEF Preclaim, DrainLook
    <2> QED BY <1>3, <2>1, <2>2, MoveDrops, ApartMoved, ResumeApart DEF polling
<1>4. ASSUME w \in Snaps, PreclaimTake(w) \/ DrainTake(w)
      PROVE  ClaimsApart'
    <2>1. UNCHANGED polling /\ given' = given /\ given[w].req \in Requests
        BY <1>4, SnapHas DEF PreclaimTake, DrainTake
    <2>2. TakeOne(w, "premark") \/ TakeOne(w, "mark") \/ (owner' = owner /\ \E l : Move(w, l))
        BY <1>4, Zenon DEF PreclaimTake, DrainTake, TakeNone
    <2> QED BY <1>4, <2>1, <2>2, MoveDrops, ApartMoved, TakeOneApart DEF polling
<1>5. ASSUME w \in Snaps, PreclaimMark(w) \/ Seed(w)
      PROVE  ClaimsApart'
    <2>1. owner' = owner /\ poll' = poll /\ queue' = queue
        BY <1>5 DEF PreclaimMark, Seed, polling
    <2>2. /\ mem'[w].claim \in {mem[w].claim, given[w].claim, None}
          /\ given'[w].claim \in {mem[w].claim, given[w].claim, None}
          /\ \A v \in Workers \ {w} : mem'[v] = mem[v]
          /\ \A t \in Snaps \ {w} : given'[t] = given[t]
        <3>1. CASE PreclaimMark(w)
            <4> DEFINE x == IF Holds(mem[w].claim) THEN mem[w].claim ELSE None
            <4>1. given' = [given EXCEPT ![w].claim = x] /\ mem' = [mem EXCEPT ![w] = Blank]
                BY <3>1 DEF PreclaimMark, Step
            <4>2. Blank.claim = None /\ x \in {mem[w].claim, None}
                BY DEF Blank
            <4> HIDE DEF x
            <4> QED BY <1>5, <4>1, <4>2 DEF WInv, TypeOK
        <3>2. CASE Seed(w)
            <4> DEFINE l == IF given[w].claim = None THEN "take" ELSE "mark"
            <4>1. given' = given /\ Step(w, l, Holding(given[w].claim))
                BY <3>2 DEF Seed
            <4>2. mem' = [mem EXCEPT ![w] = Holding(given[w].claim)]
                BY <4>1 DEF Step
            <4>3. Holding(given[w].claim).claim = given[w].claim
                BY DEF Holding, Blank
            <4> QED BY <4>1, <4>2, <4>3 DEF WInv, TypeOK
        <3> QED BY <1>5, <3>1, <3>2
    <2>3. ASSUME NEW p \in Parties, NEW x \in Claims \ {None}, HeldBy(p, x)' PROVE HeldBy(p, x)
        <3>1. x[1] \in Workers \ {w}
            BY <1>5, ClaimParts, ActorsAssumption DEF Workers
        <3>2. CASE p = "poller"
            BY <2>1, <2>2, <2>3, <3>1, <3>2 DEF HeldBy
        <3>3. CASE p # "poller"
            <4>1. p \in Snaps /\ p \in Workers
                BY <3>3 DEF Parties, Workers
            <4> QED BY <2>2, <2>3, <3>3, <4>1 DEF HeldBy
        <3> QED BY <3>2, <3>3
    <2> QED BY <2>1, <2>3, ApartKept
<1>6. ASSUME Break(w) \/ (w \in Snaps /\ (DrainMark(w) \/ DrainNext(w)))
      PROVE  ClaimsApart'
    <2>1. owner' = owner /\ UNCHANGED polling /\ given' = given
        BY <1>6 DEF Break, DrainMark, DrainNext
    <2>2. \E l : Move(w, l)
        BY <1>6, Zenon DEF Break, DrainMark, DrainNext
    <2> QED BY <2>1, <2>2, MoveDrops, ApartMoved DEF polling
<1> QED BY <1>1, <1>2, <1>3, <1>4, <1>5, <1>6 DEF WorkerStep, SeedJob

LEMMA PollApart ==
    ASSUME WInv, TablesGrow, R!TypeOK', PollStep \/ PollDies
    PROVE  ClaimsApart'
<1>0. UNCHANGED <<mem, given>>
    BY DEF PollStep, PollClaim, PollDispatch, PollMark, PollDies, work
<1>1. CASE PollClaim
    <2>1. PICK X \in SUBSET R!HeldRows, k \in Requests \X R!Chunks :
             Take("poller", X, k) /\ poll' = [claim |-> TakenClaim(k), step |-> "dispatch"] /\ queue' = queue
        BY <1>1 DEF PollClaim
    <2>2. \A p \in Parties, c \in Claims \ {None} : HeldBy(p, c)' => HeldBy(p, c) \/ (p = "poller" /\ c = TakenClaim(k))
        BY <1>0, <2>1 DEF HeldBy
    <2> QED BY <2>1, <2>2, TakenApart DEF Parties
<1>2. CASE PollDispatch
    <2>1. poll.claim \in Claims /\ poll.claim # None /\ poll.claim[1] \in Requests
        BY <1>2, ClaimParts DEF PollDispatch, WInv, TypeOK
    <2>2. poll'.claim = poll.claim /\ owner' = owner /\ queue' = [queue EXCEPT ![poll.claim[1]] = poll.claim]
        BY <1>2 DEF PollDispatch, WInv, TypeOK
    <2>3. ASSUME NEW p \in Parties, NEW c \in Claims \ {None}, HeldBy(p, c)' PROVE HeldBy(p, c)
        <3>1. c[1] \in Requests
            BY ClaimParts
        <3>2. queue'[c[1]] \in {queue[c[1]], poll.claim}
            BY <2>1, <2>2, <3>1 DEF WInv, TypeOK
        <3> QED BY <1>0, <2>2, <2>3, <3>2 DEF HeldBy
    <2> QED BY <2>2, <2>3, ApartKept
<1>3. CASE PollMark \/ PollDies
    <2>1. poll'.claim = None /\ queue' = queue /\ owner' = owner
        BY <1>3 DEF PollMark, PollDies
    <2>2. \A p \in Parties, c \in Claims \ {None} : HeldBy(p, c)' => HeldBy(p, c)
        BY <1>0, <2>1 DEF HeldBy
    <2> QED BY <2>1, <2>2, ApartKept
<1> QED BY <1>1, <1>2, <1>3 DEF PollStep

LEMMA StepsApart ==
    ASSUME WInv, TablesGrow, R!TypeOK', [Next]_vars
    PROVE  ClaimsApart'
<1>1. CASE UNCHANGED <<owner, polling, work>>
    BY <1>1, ApartMoved DEF polling, work
<1>2. ASSUME NEW s \in Snaps, SeedReRun(s)
      PROVE  ClaimsApart'
    BY <1>2, SnapHas, MoveDrops, ApartMoved DEF SeedReRun, polling
<1>3. ASSUME NEW s \in Snaps, NEW d \in Decisions[s], MonthlyCommit(s, d)
      PROVE  ClaimsApart'
    <2>1. /\ owner' = owner /\ UNCHANGED polling /\ mem' = mem
          /\ given' = given \/ given' = [given EXCEPT ![s] = [req |-> d.req, claim |-> None]]
        BY <1>3 DEF MonthlyCommit
    <2>2. \A t \in Snaps : given'[t].claim \in {given[t].claim, None}
        BY <2>1 DEF WInv, TypeOK
    <2>3. ASSUME NEW p \in Parties, NEW c \in Claims \ {None}, HeldBy(p, c)' PROVE HeldBy(p, c)
        <3>1. p # "poller" => p \in Snaps
            BY DEF Parties
        <3> QED BY <2>1, <2>2, <2>3, <3>1 DEF HeldBy, polling
    <2> QED BY <2>1, <2>3, ApartKept
<1>4. \/ UNCHANGED <<owner, polling, work>>
      \/ PollStep \/ PollDies
      \/ \E w \in Workers : WorkerStep(w) \/ Break(w)
      \/ \E s \in Snaps : SeedReRun(s) \/ \E d \in Decisions[s] : MonthlyCommit(s, d)
    BY DEF Next, vars, MonthlyStep, Daily
<1> QED BY <1>1, <1>2, <1>3, <1>4, WorkerApart, PollApart

-----------------------------------------------------------------------------
(* Progress is reported by a worker at "count" alone.                      *)
LEMMA LastMoves ==
    ASSUME WInv, R!TypeOK', [Next]_vars, NEW r \in Requests, last'[r] # last[r]
    PROVE  \E w \in Workers : /\ at[w] = "count" /\ last'[r] = mem[w].day /\ last'[r] = last[r] + 1
                              /\ series' = series
<1>1. ASSUME NEW w \in Workers, CountDate(w), last' # last
      PROVE  /\ at[w] = "count" /\ last'[r] = mem[w].day /\ last'[r] = last[r] + 1 /\ series' = series
    <2> DEFINE m == [mem[w] EXCEPT !.counted = TRUE]
               c == mem[w].claim
    <2>1. at[w] = "count" /\ series' = series /\ Report(m) /\ ~UNCHANGED tables
        BY <1>1 DEF CountDate, tables
    <2>2. m.claim = c /\ m.day = mem[w].day /\ c \in Claims /\ c # None /\ mem[w].day \in 0..NumDates
        BY <2>1, WorkerHas DEF Memory, WorkerFits, Resting
    <2>3. R!Progress(c[1], mem[w].day)
        BY <2>1, <2>2 DEF Report
    <2>4. c[1] \in Requests /\ last \in [Requests -> 0..NumDates]
        BY <2>2, ClaimParts, TablesTyped
    <2>5. /\ last' = [last EXCEPT ![c[1]] = IF mem[w].day > last[c[1]] THEN mem[w].day ELSE last[c[1]]]
          /\ mem[w].day <= last[c[1]] + 1
        BY <2>3 DEF R!Progress, R!LastAfter
    <2>6. r = c[1]
        BY <2>4, <2>5
    <2> QED BY <2>1, <2>2, <2>4, <2>5, <2>6, Bounds
<1>2. ASSUME NEW w \in Workers, WorkerStep(w), ~CountDate(w)
      PROVE  last' = last
    <2>1. ASSUME NEW c, MarkRow(c) PROVE last' = last
        BY <2>1 DEF MarkRow, R!MarkDispatched, tables
    <2>2. ASSUME NEW s, NEW l, TakeOne(s, l) \/ TakeNone(s, l) PROVE last' = last
        BY <2>2 DEF TakeOne, TakeNone, Take, R!ClaimOutbox, R!request, tables
    <2>3. ASSUME RunRequest(w) PROVE last' = last
        BY <1>2, <2>3 DEF RunRequest, FirstBeat, LoadRequest, LoadSeries, PlanDate, WriteDate, Reread, Finish,
                          FailRow, R!FinishChunk, R!FailOutbox, tables
    <2>4. ASSUME SeedJob(w) PROVE last' = last
        BY <2>1, <2>2, <2>4 DEF SeedJob, Preclaim, PreclaimTake, PreclaimMark, Seed, DrainTake, DrainLook,
                                DrainMark, DrainNext, tables
    <2> QED BY <1>2, <2>3, <2>4 DEF WorkerStep, StartRun, tables
<1>3. ASSUME NEW s \in Snaps, MonthlyStep(s)
      PROVE  last' = last
    BY <1>3 DEF MonthlyStep, R!Stage, R!Interrupt, R!MarkOrphan, R!ReRun, R!request
<1>4. ASSUME NEW s \in Snaps, NEW d \in Decisions[s], MonthlyCommit(s, d)
      PROVE  last' = last
    <2>1. R!CommitWinner(s, d) \/ R!CommitLoser(s) \/ UNCHANGED R!request
        BY <1>4 DEF MonthlyCommit, R!Commit
    <2> QED BY <2>1 DEF R!CommitWinner, R!CommitLoser, R!request
<1>5. CASE PollStep \/ PollDies
    BY <1>5 DEF PollStep, PollClaim, PollDispatch, PollMark, PollDies, Take, MarkRow, R!ClaimOutbox,
                R!MarkDispatched, R!request, tables
<1>6. ASSUME \/ UNCHANGED vars \/ Daily
             \/ \E w \in Workers : Break(w)
             \/ \E s \in Snaps : SeedReRun(s)
      PROVE  last' = last
    BY <1>6 DEF vars, Daily, Break, SeedReRun, tables
<1> QED BY <1>1, <1>2, <1>3, <1>4, <1>5, <1>6 DEF Next

LEMMA CountedStays ==
    ASSUME WInv, SeriesGrow, R!TypeOK', [Next]_vars
    PROVE  CountedIsWritten'
<1> SUFFICES ASSUME NEW r \in Requests, NEW d \in 1..NumDates, d <= last'[r]
             PROVE  d \in series'[YearOf[d]].dates
    BY DEF CountedIsWritten
<1>0. d \in Nat /\ last[r] \in Nat /\ last'[r] \in Nat
    BY TablesTyped, Bounds DEF R!TypeOK
<1>1. d <= last[r] => d \in series'[YearOf[d]].dates
    BY DEF WInv, CountedIsWritten, SeriesGrow, InSeries
<1>2. CASE d > last[r]
    <2>1. PICK w \in Workers : /\ at[w] = "count" /\ last'[r] = mem[w].day /\ last'[r] = last[r] + 1
                               /\ series' = series
        <3>1. last'[r] # last[r]
            BY <1>0, <1>2
        <3> QED BY <3>1, LastMoves
    <2>2. d = last[r] + 1
        BY <1>0, <1>2, <2>1
    <2> QED BY <2>1, <2>2, WorkerHas DEF WorkerFits, InSeries
<1> QED BY <1>0, <1>1, <1>2

-----------------------------------------------------------------------------
(* A snapshot whose commit was answered stays committed.                   *)
LEMMA CommittedStays ==
    ASSUME WInv, R!Next \/ UNCHANGED tables, NEW s \in Snaps,
           snap[s] = "committed", cli[s] \in {"ok", "idle"}
    PROVE  snap'[s] = "committed" /\ cli'[s] \in {"ok", "idle"}
<1>0. snap \in [Snaps -> {"none", "pending", "committed", "orphan"}] /\ cli \in [Snaps -> {"idle", "staged", "failing", "ok", "error"}]
    BY DEF WInv, TypeOK, R!TypeOK
<1>1. ASSUME NEW t \in Snaps, R!MonthlyStep(t)
      PROVE  snap'[s] = "committed" /\ cli'[s] \in {"ok", "idle"}
    <2>1. CASE t # s
        <3>1. ASSUME NEW d, R!Commit(t, d)
              PROVE  snap'[s] = snap[s] /\ cli'[s] = cli[s]
            BY <1>0, <2>1, <3>1 DEF R!Commit
        <3> QED BY <1>0, <1>1, <2>1, <3>1 DEF R!MonthlyStep, R!Stage, R!Interrupt, R!MarkOrphan, R!ReRun
    <2>2. CASE t = s
        BY <1>0, <1>1, <2>2 DEF R!MonthlyStep, R!Stage, R!Commit, R!Interrupt, R!MarkOrphan, R!ReRun
    <2> QED BY <2>1, <2>2
<1>2. CASE R!OutboxStep
    BY <1>2 DEF R!OutboxStep, R!ReconcileOutbox, R!ClaimOutbox, R!MarkDispatched, R!FailOutbox, R!FinishChunk,
                R!Progress, R!monthly
<1>3. CASE UNCHANGED tables
    BY <1>3 DEF tables
<1> QED BY <1>1, <1>2, <1>3 DEF R!Next

(* What a seed job is given changes with its own marks and with the answer *)
(* of the commit.                                                          *)
LEMMA GivenMoves ==
    ASSUME WInv, [Next]_vars
    PROVE  \/ given' = given
           \/ \E s \in Snaps : /\ PreclaimMark(s)
                               /\ \E c \in {mem[s].claim, None} : given' = [given EXCEPT ![s].claim = c]
           \/ \E s \in Snaps : \E d \in Decisions[s] :
                 /\ cli[s] = "staged" /\ snap'[s] = "committed" /\ cli'[s] = "ok" /\ d.req \in Requests
                 /\ given' = [given EXCEPT ![s] = [req |-> d.req, claim |-> None]] /\ at'[s] = "preclaim"
<1>1. ASSUME NEW s \in Snaps, PreclaimMark(s)
      PROVE  \E c \in {mem[s].claim, None} : given' = [given EXCEPT ![s].claim = c]
    BY <1>1 DEF PreclaimMark
<1>2. ASSUME NEW s \in Snaps, NEW d \in Decisions[s], MonthlyCommit(s, d), given' # given
      PROVE  /\ cli[s] = "staged" /\ snap'[s] = "committed" /\ cli'[s] = "ok" /\ d.req \in Requests
             /\ given' = [given EXCEPT ![s] = [req |-> d.req, claim |-> None]] /\ at'[s] = "preclaim"
    <2>1. /\ R!Commit(s, d) /\ cli'[s] = "ok" /\ d.outcome = "runnable" /\ Goto(s, "preclaim")
          /\ given' = [given EXCEPT ![s] = [req |-> d.req, claim |-> None]]
        BY <1>2 DEF MonthlyCommit
    <2>2. /\ s \in Workers /\ at \in [Workers -> Places] /\ snap \in [Snaps -> {"none", "pending", "committed", "orphan"}]
          /\ cli \in [Snaps -> {"idle", "staged", "failing", "ok", "error"}]
        BY DEF Workers, WInv, TypeOK, R!TypeOK
    <2>3. at'[s] = "preclaim"
        BY <2>1, <2>2 DEF Goto
    <2>4. d.req \in Requests
        BY <2>1, TablesAssumption DEF R!DecisionsAssumption, R!Decision, R!Outcomes
    <2>5. cli[s] = "staged" /\ snap'[s] = "committed"
        <3>1. R!Raises(s, d) => cli' = [cli EXCEPT ![s] = "failing"]
            BY <2>1 DEF R!Commit
        <3> QED BY <2>1, <2>2, <3>1 DEF R!Commit
    <2> QED BY <2>1, <2>3, <2>4, <2>5
<1>3. ASSUME NEW w \in Workers, WorkerStep(w)
      PROVE  given' = given \/ (w \in Snaps /\ PreclaimMark(w))
    BY <1>3 DEF WorkerStep, RunRequest, FirstBeat, LoadRequest, LoadSeries, PlanDate, WriteDate, Reread, CountDate,
                Finish, FailRow, Unmoved, StartRun, SeedJob, Preclaim, PreclaimTake, Seed, DrainTake, DrainLook,
                DrainMark, DrainNext
<1> QED BY <1>1, <1>2, <1>3 DEF Next, vars, work, MonthlyStep, SeedReRun, PollStep, PollClaim, PollDispatch,
                               PollMark, PollDies, Break, Daily

LEMMA GivenStays ==
    ASSUME WInv, TablesGrow, R!TypeOK', [Next]_vars, NEW s \in Snaps
    PROVE  /\ given' \in [Snaps -> [req : Requests \cup {NoRequest}, claim : Claims]]
           /\ TokenReached(given[s].claim)' /\ GivenFits(s)'
<1>0. given \in [Snaps -> [req : Requests \cup {NoRequest}, claim : Claims]] /\ None \in Claims
    BY DEF WInv, TypeOK, Claims
<1>1. R!Next \/ UNCHANGED tables
    BY CallersCall
<1>2. ASSUME NEW c \in Claims, TokenReached(c) PROVE c # None => c[3] <= token'[c[1]][c[2]]
    BY <1>2, TokenKeeps
<1>3. given[s].req = NoRequest => at[s] = "ended" /\ given[s].claim = None
    BY DEF WInv, HandsFit, GivenFits
<1>4. given[s].req # NoRequest => snap'[s] = "committed" /\ cli'[s] \in {"ok", "idle"}
    BY <1>1, CommittedStays DEF WInv, HandsFit, GivenFits
<1>5. ASSUME given[s].req = NoRequest, given'[s] = given[s]
      PROVE  at'[s] = "ended"
    <2>0. s \in Workers /\ ~IsRun(s) /\ at[s] = "ended" /\ at \in [Workers -> Places]
        BY <1>3, <1>5, SnapHas DEF WInv, TypeOK
    <2>1. ASSUME NEW w \in Workers, NEW l, NEW m, Step(w, l, m), w # s PROVE at'[s] = at[s]
        BY <2>0, <2>1 DEF Step, Goto
    <2>2. ASSUME NEW w \in Workers, WorkerStep(w)
          PROVE  w # s /\ at'[s] = at[s]
        <3>1. w # s
            BY <2>0, <2>2, ActorsAssumption DEF IsRun, WorkerStep, RunRequest, FirstBeat, LoadRequest, LoadSeries,
                        PlanDate, WriteDate, Reread, CountDate, Finish, FailRow, StartRun, SeedJob, Preclaim,
                        PreclaimTake, PreclaimMark, Seed, DrainTake, DrainLook, DrainMark, DrainNext
        <3>2. ASSUME NEW l, Resume(w, given[w].req, l) \/ TakeOne(w, l) \/ TakeNone(w, l)
              PROVE  \E k, m : Step(w, k, m)
            BY <3>2, Zenon DEF Resume, TakeOne, TakeNone, Move
        <3>3. \E l, m : Step(w, l, m)
            <4>1. CASE RunRequest(w)
                BY <4>1, Zenon DEF Move, RunRequest, FirstBeat, LoadRequest, LoadSeries, PlanDate, WriteDate, Reread,
                                  CountDate, Finish, FailRow
            <4>2. CASE SeedJob(w)
                BY <3>2, <4>2, Zenon DEF Move, SeedJob, Preclaim, PreclaimTake, PreclaimMark, Seed, DrainTake,
                                  DrainLook, DrainMark, DrainNext
            <4> QED BY <2>2, <4>1, <4>2, Zenon DEF WorkerStep, StartRun
        <3> QED BY <2>1, <3>1, <3>3
    <2>3. ASSUME NEW w \in Workers, Break(w)
          PROVE  at'[s] = at[s]
        <3>1. w # s /\ \E l : Move(w, l)
            BY <2>0, <2>3, Zenon DEF Break, Working
        <3> QED BY <2>1, <3>1 DEF Move
    <2>4. ASSUME NEW t \in Snaps, SeedReRun(t)
          PROVE  at'[s] = at[s]
        <3>1. t # s /\ t \in Workers /\ Move(t, "seed")
            BY <1>5, <2>4 DEF SeedReRun, Workers
        <3> QED BY <2>1, <3>1 DEF Move
    <2>5. ASSUME NEW t \in Snaps, NEW d \in Decisions[t], MonthlyCommit(t, d)
          PROVE  at'[s] = at[s]
        <3>1. CASE at' = at
            BY <3>1
        <3>2. CASE at' # at
            <4>1. Goto(t, "preclaim") /\ given' = [given EXCEPT ![t] = [req |-> d.req, claim |-> None]]
                BY <2>5, <3>2 DEF MonthlyCommit
            <4>2. d.outcome = "runnable"
                BY <2>5, <3>2 DEF MonthlyCommit
            <4>3. d.req \in Requests /\ NoRequest \notin Requests
                BY <4>2, TablesAssumption DEF R!DecisionsAssumption, R!Decision, R!Outcomes, R!NoRequestAssumption
            <4>4. t # s
                BY <1>0, <1>5, <4>1, <4>3
            <4> QED BY <2>0, <4>1, <4>4 DEF Goto
        <3> QED BY <3>1, <3>2
    <2> QED BY <2>0, <2>2, <2>3, <2>4, <2>5 DEF Next, vars, work, MonthlyStep, PollStep, PollClaim, PollDispatch,
                               PollMark, PollDies, Daily
<1>6. CASE given' = given
    BY <1>0, <1>2, <1>3, <1>4, <1>5, <1>6 DEF WInv, HandsFit, TokenReached, GivenFits
<1>7. ASSUME NEW t \in Snaps, PreclaimMark(t), NEW c \in {mem[t].claim, None}, given' = [given EXCEPT ![t].claim = c]
      PROVE  /\ given' \in [Snaps -> [req : Requests \cup {NoRequest}, claim : Claims]]
             /\ TokenReached(given[s].claim)' /\ GivenFits(s)'
    <2>1. c \in Claims /\ TokenReached(c)
        BY <1>0, SnapHas, WorkerHas DEF WorkerFits, TokenReached
    <2>2. given[t].req # NoRequest
        BY <1>7 DEF PreclaimMark, WInv, HandsFit, GivenFits
    <2>3. given' \in [Snaps -> [req : Requests \cup {NoRequest}, claim : Claims]]
        BY <1>0, <1>7, <2>1
    <2>4. given'[s].claim \in {given[s].claim, c} /\ given'[s].req = given[s].req
        BY <1>0, <1>7
    <2>5. given[s].req = NoRequest => given'[s] = given[s]
        BY <1>0, <1>7, <2>2
    <2> QED BY <1>0, <1>2, <1>3, <1>4, <1>5, <2>1, <2>3, <2>4, <2>5 DEF WInv, HandsFit, TokenReached, GivenFits
<1>8. ASSUME NEW t \in Snaps, NEW d \in Decisions[t],
             cli[t] = "staged", snap'[t] = "committed", cli'[t] = "ok", d.req \in Requests,
             given' = [given EXCEPT ![t] = [req |-> d.req, claim |-> None]]
      PROVE  /\ given' \in [Snaps -> [req : Requests \cup {NoRequest}, claim : Claims]]
             /\ TokenReached(given[s].claim)' /\ GivenFits(s)'
    <2>1. given' \in [Snaps -> [req : Requests \cup {NoRequest}, claim : Claims]]
        BY <1>0, <1>8
    <2>2. CASE s = t
        <3>1. given'[s].req # NoRequest /\ given'[s].claim = None
            BY <1>0, <1>8, <2>2, TablesAssumption DEF R!NoRequestAssumption
        <3> QED BY <1>8, <2>1, <2>2, <3>1 DEF TokenReached, GivenFits
    <2>3. CASE s # t
        <3>1. given'[s] = given[s]
            BY <1>0, <1>8, <2>3
        <3> QED BY <1>0, <1>2, <1>3, <1>4, <1>5, <2>1, <3>1 DEF WInv, HandsFit, TokenReached, GivenFits
    <2> QED BY <2>2, <2>3
<1> QED BY <1>6, <1>7, <1>8, GivenMoves

LEMMA PollStays ==
    ASSUME WInv, TablesGrow, R!TypeOK', [Next]_vars
    PROVE  /\ poll' \in [claim : Claims, step : {"idle", "dispatch", "mark"}]
           /\ poll'.claim = None <=> poll'.step = "idle"
           /\ queue' \in [Requests -> Claims] /\ TokenReached(poll.claim)'
           /\ \A r \in Requests : TokenReached(queue[r])' /\ (queue'[r] = None \/ queue'[r][1] = r)
<1>0. /\ poll \in [claim : Claims, step : {"idle", "dispatch", "mark"}] /\ (poll.claim = None <=> poll.step = "idle")
      /\ queue \in [Requests -> Claims] /\ TokenReached(poll.claim) /\ None \in Claims
      /\ \A r \in Requests : TokenReached(queue[r]) /\ (queue[r] = None \/ queue[r][1] = r)
    BY DEF WInv, TypeOK, HandsFit, Claims
<1>1. \A c \in Claims : TokenReached(c) /\ c # None => c[3] <= token'[c[1]][c[2]]
    BY TokenKeeps
<1>2. CASE poll' = poll /\ queue' = queue
    BY <1>0, <1>1, <1>2 DEF TokenReached
<1>3. CASE PollClaim
    <2>1. PICK X \in SUBSET R!HeldRows, k \in Requests \X R!Chunks :
             Take("poller", X, k) /\ poll' = [claim |-> TakenClaim(k), step |-> "dispatch"] /\ queue' = queue
        BY <1>3 DEF PollClaim
    <2> DEFINE c == TakenClaim(k)
    <2>2. c \in Claims /\ c # None /\ c[3] = token'[c[1]][c[2]] /\ token'[c[1]][c[2]] \in Nat
        BY <2>1, TakenHas, Bounds DEF R!TypeOK
    <2>3. poll' = [claim |-> c, step |-> "dispatch"]
        BY <2>1
    <2> HIDE DEF c
    <2> QED BY <1>0, <1>1, <2>1, <2>2, <2>3 DEF TokenReached
<1>4. CASE PollDispatch
    <2>1. poll.claim # None /\ poll.claim[1] \in Requests
        BY <1>0, <1>4, ClaimParts DEF PollDispatch
    <2>2. poll'.claim = poll.claim /\ poll'.step = "mark" /\ poll' \in [claim : Claims, step : {"idle", "dispatch", "mark"}]
        BY <1>0, <1>4 DEF PollDispatch
    <2>3. queue' = [queue EXCEPT ![poll.claim[1]] = poll.claim]
        BY <1>4 DEF PollDispatch
    <2> QED BY <1>0, <1>1, <2>1, <2>2, <2>3 DEF TokenReached
<1>5. CASE PollMark \/ PollDies
    <2>1. poll' = [claim |-> None, step |-> "idle"] /\ queue' = queue
        BY <1>5 DEF PollMark, PollDies
    <2> QED BY <1>0, <1>1, <2>1 DEF TokenReached
<1>6. ASSUME NEW w \in Requests, StartRun(w)
      PROVE  /\ poll' = poll /\ queue' = [queue EXCEPT ![w] = None]
    BY <1>6 DEF StartRun
<1>7. ASSUME NEW w \in Requests, poll' = poll, queue' = [queue EXCEPT ![w] = None]
      PROVE  /\ poll' \in [claim : Claims, step : {"idle", "dispatch", "mark"}]
             /\ poll'.claim = None <=> poll'.step = "idle"
             /\ queue' \in [Requests -> Claims] /\ TokenReached(poll.claim)'
             /\ \A r \in Requests : TokenReached(queue[r])' /\ (queue'[r] = None \/ queue'[r][1] = r)
    BY <1>0, <1>1, <1>7 DEF TokenReached
<1>8. \/ poll' = poll /\ queue' = queue
      \/ PollStep \/ PollDies
      \/ \E w \in Requests : StartRun(w)
    <2>1. ASSUME NEW w \in Workers, WorkerStep(w)
          PROVE  (poll' = poll /\ queue' = queue) \/ (w \in Requests /\ StartRun(w))
        BY <2>1 DEF WorkerStep, RunRequest, FirstBeat, LoadRequest, LoadSeries, PlanDate, WriteDate, Reread, CountDate,
                    Finish, FailRow, Unmoved, SeedJob, Preclaim, PreclaimTake, PreclaimMark, Seed, DrainTake,
                    DrainLook, DrainMark, DrainNext, polling
    <2> QED BY <2>1 DEF Next, vars, polling, MonthlyStep, MonthlyCommit, SeedReRun, Break, Daily
<1> QED BY <1>2, <1>3, <1>4, <1>5, <1>6, <1>7, <1>8 DEF PollStep

(* Owners change, and claims expire, with a claim alone.                   *)
LEMMA TakesOrNot ==
    ASSUME WInv, [Next]_vars
    PROVE  \/ \E b \in Parties, X \in SUBSET R!HeldRows, k \in Requests \X R!Chunks : Take(b, X, k)
           \/ owner' = owner /\ (Daily \/ (dailies' = dailies /\ (faults' = faults \/ Fault(1))))
<1>1. ASSUME NEW s \in Snaps, SeedJob(s)
      PROVE  \/ \E b \in Parties, X \in SUBSET R!HeldRows, k \in Requests \X R!Chunks : Take(b, X, k)
             \/ owner' = owner /\ dailies' = dailies /\ faults' = faults
    <2>1. given[s].req \in Requests
        BY <1>1, SnapHas DEF SeedJob, Preclaim, PreclaimTake, PreclaimMark, Seed, DrainTake, DrainLook, DrainMark,
                             DrainNext
    <2>2. ASSUME NEW l, TakeOne(s, l)
          PROVE  \E X \in SUBSET R!HeldRows, k \in Requests \X R!Chunks : Take(s, X, k)
        BY <2>1, <2>2 DEF TakeOne
    <2> QED BY <1>1, <2>2 DEF Parties, SeedJob, Preclaim, PreclaimTake, PreclaimMark, Seed, DrainTake, DrainLook,
                              DrainMark, DrainNext, TakeNone, budget
<1>2. ASSUME NEW w \in Workers, WorkerStep(w), ~(w \in Snaps /\ SeedJob(w))
      PROVE  owner' = owner /\ dailies' = dailies /\ faults' = faults
    BY <1>2 DEF WorkerStep, RunRequest, FirstBeat, LoadRequest, LoadSeries, PlanDate, WriteDate, Reread, CountDate,
                Finish, FailRow, Unmoved, StartRun, budget
<1>3. CASE PollStep \/ PollDies
    BY <1>3 DEF PollStep, PollClaim, PollDispatch, PollMark, PollDies, Parties, budget
<1> QED BY <1>1, <1>2, <1>3 DEF Next, vars, budget, MonthlyStep, MonthlyCommit, SeedReRun, Break, Daily

LEMMA BudgetStays ==
    ASSUME WInv, [Next]_vars
    PROVE  /\ owner' \in [Requests -> [R!Chunks -> Snaps \cup {"poller", None}]]
           /\ faults' \in 0..MaxFaults /\ dailies' \in 0..MaxFaults
<1>0. /\ owner \in [Requests -> [R!Chunks -> Snaps \cup {"poller", None}]]
      /\ faults \in Nat /\ dailies \in Nat /\ faults \in 0..MaxFaults /\ dailies \in 0..MaxFaults /\ MaxFaults \in Nat
    BY Bounds DEF WInv, TypeOK
<1>1. ASSUME NEW n \in Nat, Fault(n) PROVE faults' \in 0..MaxFaults
    BY <1>0, <1>1 DEF Fault
<1>2. ASSUME NEW b \in Parties, NEW X \in SUBSET R!HeldRows, NEW k \in Requests \X R!Chunks, Take(b, X, k)
      PROVE  /\ owner' \in [Requests -> [R!Chunks -> Snaps \cup {"poller", None}]]
             /\ faults' \in 0..MaxFaults /\ dailies' = dailies
    <2> DEFINE J == {j \in X : InUse(j)}
    <2>1. IsFiniteSet(Requests \X R!Chunks)
        <3>1. IsFiniteSet(Requests)
            BY ActorsAssumption
        <3>2. IsFiniteSet(0..MaxSeq)
            <4>1. 0 \in Int /\ MaxSeq \in Int
                BY Bounds
            <4> QED BY <4>1, FS_Interval
        <3> QED BY <3>1, <3>2, FS_Product DEF R!Chunks
    <2>2. J \subseteq Requests \X R!Chunks
        BY DEF R!HeldRows
    <2>3. Cardinality(J) \in Nat
        BY <2>1, <2>2, FS_Subset, FS_CardinalityType
    <2>4. Fault(Cardinality(J)) /\ dailies' = dailies
        BY <1>2 DEF Take
    <2>5. owner' \in [Requests -> [R!Chunks -> Snaps \cup {"poller", None}]]
        BY <1>0, <1>2 DEF Take, Parties
    <2> HIDE DEF J
    <2> QED BY <1>1, <2>3, <2>4, <2>5
<1>3. Fault(1) => faults' \in 0..MaxFaults
    BY <1>1
<1>4. Daily => dailies' \in 0..MaxFaults /\ faults' = faults
    BY <1>0 DEF Daily
<1> QED BY <1>0, <1>2, <1>3, <1>4, TakesOrNot

-----------------------------------------------------------------------------
LEMMA InitWInv == Init => WInv
<1> SUFFICES ASSUME Init PROVE WInv
    OBVIOUS
<1>1. R!Init /\ R!TypeOK /\ RP!IInv
    <2>1. R!Init
        BY DEF Init
    <2>2. RP!IInv
        BY <2>1, SameTables, RP!InitIInv, TablesAssumption DEF R!Decision, RP!Decision, R!Outcomes, RP!Outcomes
    <2> QED BY <2>1, <2>2, SameTables DEF RP!IInv
<1>2. Blank \in Memory /\ Blank.claim = None /\ Blank.read.ver = 0 /\ Blank.read.dates = {}
    BY Bounds DEF Blank, Memory, NoSeries, SeriesStates, Claims
<1>3. \A y \in Years : series[y] \in SeriesStates /\ series[y].ver = 0 /\ series[y].dates = {}
    BY DEF Init, Empty, SeriesStates
<1>4. series \in [Years -> SeriesStates] /\ SeriesFit
    BY <1>3 DEF Init, SeriesFit
<1>5. /\ at = [w \in Workers |-> Off(w)] /\ mem = [w \in Workers |-> Blank]
      /\ at \in [Workers -> Places] /\ mem \in [Workers -> Memory]
    BY <1>2 DEF Init, Off, Places
<1>6. /\ given \in [Snaps -> [req : Requests \cup {NoRequest}, claim : Claims]]
      /\ poll \in [claim : Claims, step : {"idle", "dispatch", "mark"}] /\ (poll.claim = None <=> poll.step = "idle")
      /\ queue \in [Requests -> Claims]
      /\ owner \in [Requests -> [R!Chunks -> Snaps \cup {"poller", None}]]
      /\ faults \in 0..MaxFaults /\ dailies \in 0..MaxFaults
    BY Bounds DEF Init, Claims
<1>7. TypeOK
    BY <1>1, <1>4, <1>5, <1>6 DEF TypeOK
<1>8. HandsFit
    <2>1. \A s \in Snaps : at[s] = "ended" /\ given[s].req = NoRequest /\ given[s].claim = None
        BY <1>5, ActorsAssumption DEF Init, Off, IsRun, Workers
    <2> QED BY <2>1 DEF Init, HandsFit, TokenReached, GivenFits
<1>9. ClaimsApart
    <2>1. ASSUME NEW p \in Parties, NEW c \in Claims \ {None} PROVE ~HeldBy(p, c)
        <3>1. c[1] \in Requests /\ c[1] \in Workers
            BY ClaimParts DEF Workers
        <3>2. p # "poller" => p \in Snaps /\ p \in Workers
            BY DEF Parties, Workers
        <3> QED BY <1>2, <1>5, <3>1, <3>2 DEF Init, HeldBy
    <2> QED BY <2>1 DEF ClaimsApart
<1>10. CountedIsWritten
    <2>1. \A r \in Requests, d \in 1..NumDates : ~(d <= last[r])
        BY <1>1, Bounds DEF R!Init
    <2> QED BY <2>1 DEF CountedIsWritten
<1>11. ASSUME NEW w \in Workers PROVE WorkerFits(w)
    BY <1>2, <1>5 DEF WorkerFits, Off, RunPlaces, SnapPlaces, Resting, Dated, TokenReached, ReadFits
<1> QED BY <1>1, <1>4, <1>7, <1>8, <1>9, <1>10, <1>11 DEF WInv

LEMMA NextWInv == WInv /\ [Next]_vars => WInv'
<1> SUFFICES ASSUME WInv, [Next]_vars PROVE WInv'
    OBVIOUS
<1>1. R!Next \/ UNCHANGED tables
    BY CallersCall
<1>2. RP!IInv' /\ R!TypeOK' /\ TablesGrow
    BY <1>1, TablesKeep
<1>3. series' \in [Years -> SeriesStates] /\ SeriesFit' /\ SeriesGrow
    BY SeriesKeep
<1>4. Whole
    BY <1>2, <1>3, AllFit
<1>5. ClaimsApart' /\ CountedIsWritten'
    BY <1>2, <1>3, StepsApart, CountedStays
<1>6. /\ given' \in [Snaps -> [req : Requests \cup {NoRequest}, claim : Claims]]
      /\ \A s \in Snaps : TokenReached(given[s].claim)' /\ GivenFits(s)'
    <2>1. given' \in [Snaps -> [req : Requests \cup {NoRequest}, claim : Claims]]
        <3>1. CASE Snaps = {}
            BY <3>1, GivenMoves DEF WInv, TypeOK
        <3> QED BY <1>2, <3>1, GivenStays
    <2> QED BY <1>2, <2>1, GivenStays
<1>7. HandsFit'
    BY <1>2, <1>6, PollStays DEF HandsFit
<1>8. TypeOK'
    BY <1>2, <1>3, <1>4, <1>6, PollStays, BudgetStays DEF TypeOK, Whole
<1> QED BY <1>2, <1>3, <1>4, <1>5, <1>7, <1>8 DEF WInv, Whole

(* One worker at most has a claim that counts.                             *)
LEMMA HoldersApart ==
    ASSUME WInv, NEW v \in Workers, NEW w \in Workers, mem[v].claim = mem[w].claim, mem[v].claim # None,
           IsCurrent(mem[v].claim)
    PROVE  v = w
<1> DEFINE c == mem[v].claim
<1>1. c \in Claims \ {None} /\ c[1] \in Requests
    BY WorkerHas, ClaimParts
<1>2. ASSUME NEW u \in Workers, mem[u].claim = c
      PROVE  \E p \in Parties : HeldBy(p, c) /\ (p = "poller" => u = c[1]) /\ (p # "poller" => p = u)
    <2>1. CASE u \in Requests
        <3>1. u = c[1]
            BY <1>1, <1>2, <2>1, WorkerHas DEF WorkerFits, IsRun
        <3> QED BY <1>2, <3>1 DEF HeldBy, Parties
    <2>2. CASE u \in Snaps
        BY <1>2, <2>2, ActorsAssumption DEF HeldBy, Parties
    <2> QED BY <2>1, <2>2 DEF Workers
<1> HIDE DEF c
<1>3. ASSUME NEW p \in Parties, NEW q \in Parties, HeldBy(p, c), HeldBy(q, c)
      PROVE  p = q
    BY <1>1, <1>3 DEF WInv, ClaimsApart, c
<1> QED BY <1>2, <1>3 DEF c

-----------------------------------------------------------------------------
(* The inductive invariant: what every worker knows at its place, however  *)
(* the steps of the others fall between its calls.                         *)
THEOREM WorkersInvariant == Spec => []WInv
BY InitWInv, NextWInv, PTL DEF Spec

(* The state stays within its types.                                       *)
THEOREM TypeCorrect == Spec => []TypeOK
<1>1. WInv => TypeOK
    BY DEF WInv
<1> QED BY <1>1, WorkersInvariant, PTL

(* A date that a request counts is in the series, whoever counted and      *)
(* whoever wrote it: nothing has to be caught up for a worker that went on *)
(* without its claim.                                                      *)
THEOREM CountedAreWritten == Spec => []CountedIsWritten
<1>1. WInv => CountedIsWritten
    BY DEF WInv
<1> QED BY <1>1, WorkersInvariant, PTL

(* Two workers never hold one claim that still counts.                     *)
THEOREM ClaimsExclude == Spec => []OneHolder
<1>1. WInv => OneHolder
    BY HoldersApart DEF OneHolder
<1> QED BY <1>1, WorkersInvariant, PTL

(* The callers use the tables as anybody may: every run of the poller, its *)
(* workers and the monthly runs is a run of MncRequests.                   *)
THEOREM WorkersImplementRequests == Spec => ImplementsRequests
<1>1. Init => R!Init
    BY DEF Init
<1>2. WInv /\ [Next]_vars => [R!Next]_(R!vars)
    BY CallersCall, SameTables
<1>3. (Init /\ [][Next]_vars) => R!Init /\ [][R!Next]_(R!vars)
    BY <1>1, <1>2, InitWInv, NextWInv, PTL
<1> QED BY <1>3, PTL DEF Spec, ImplementsRequests, R!Spec

(* Whatever worker is about to report a date, the function does not refuse *)
(* it for skipping one, although nobody holds the request meanwhile.       *)
ReportSkipsNone ==
    \A w \in Workers :
        at[w] = "count" =>
            \/ status[mem[w].claim[1]] \in R!Closed
            \/ mem[w].day <= last[mem[w].claim[1]] + 1

THEOREM ReportsSkipNone == Spec => []ReportSkipsNone
<1>1. WInv => ReportSkipsNone
    BY DEF WInv, WorkerFits, DayFits, Dated, ReportSkipsNone
<1> QED BY <1>1, WorkersInvariant, PTL

(***************************************************************************)
(* What an attempt costs.  A row that was claimed t times has used t       *)
(* attempts, and one more is due once nobody is left who will finish it.   *)
(* A worker that lost its claim at its last heartbeat may still change the *)
(* series under the next, which then fails: so a claim that expires while  *)
(* it is in use is charged twice, and every other fault once.              *)
(***************************************************************************)

(* One series is written, and for one request: two live requests would     *)
(* spoil each other's reads, and so would the dates of two years that the  *)
(* code reads as one.                                                      *)
OneSeries ==
    /\ \A s, t \in Snaps : \A d \in Decisions[s], e \in Decisions[t] :
          d.outcome = "runnable" /\ e.outcome = "runnable" => d.req = e.req
    /\ \A d, e \in 1..NumDates : YearOf[d] = YearOf[e]

(* Only a request that was runnable has rows.                              *)
RowsDecided ==
    \A r \in Requests, q \in R!Chunks : row[r][q] # "none" =>
        \E s \in Snaps : \E d \in Decisions[s] : d.outcome = "runnable" /\ d.req = r

(* The claim of a row that counts.                                         *)
CurrentOf(r, q) == <<r, q, token[r][q]>>

(* The worker is to write, or goes on, on a series that has changed since. *)
Outdated(w) == at[w] \in {"day", "write", "count"} /\ ~PriorIsRead(mem[w])

(* Somebody will use the claim, and will not fail by it.                   *)
Carried(c) ==
    \/ \E w \in Workers : mem[w].claim = c
    \/ \E s \in Snaps : at[s] = "seed" /\ given[s].claim = c
    \/ queue[c[1]] = c
    \/ poll.claim = c /\ poll.step = "dispatch"

GoodHands(c) ==
    /\ Carried(c)
    /\ \A w \in Workers : mem[w].claim = c => at[w] # "fail" /\ ~Outdated(w)

(* The attempt of the last claim is over, or lost: the row is open and has *)
(* to be claimed again.                                                    *)
Spent(r, q) ==
    /\ token[r][q] > 0 /\ status[r] \notin R!Closed
    /\ \/ row[r][q] \in {"pending", "failed"}
       \/ row[r][q] \in R!Held /\ ~GoodHands(CurrentOf(r, q))

(* Who is at a write without its claim: it may still publish.              *)
Late == {w \in Workers : at[w] = "write" /\ ~Beats(w)}

(* What a row has cost; its first attempt is free.                         *)
Cost(r, q) == (IF token[r][q] = 0 THEN 1 ELSE token[r][q]) + (IF Spent(r, q) THEN 1 ELSE 0)

(* Nothing is spent that is not paid for.                                  *)
Accounted ==
    /\ IsFiniteSet(Late)
    /\ \A r \in Requests, q \in R!Chunks : Cost(r, q) + Cardinality(Late) <= 2 * faults + dailies + 1

(* A claim waits in one place: the poller dispatches what no run has, and  *)
(* replaces a waiting claim only when that one no longer holds.            *)
Placed ==
    /\ poll.step = "dispatch" =>
          LET c == poll.claim IN
          /\ queue[c[1]] # c /\ mem[c[1]].claim # c
          /\ queue[c[1]] # None => ~Holds(queue[c[1]])
    /\ \A r \in Requests : queue[r] # None => mem[r].claim # queue[r]

(* A chunk that is done is left by whoever finished it, while its request  *)
(* is open.                                                                *)
DoneIsLeft ==
    \A c \in Claims \ {None} :
        IsCurrent(c) /\ StatusOf(c) = "done" /\ status[c[1]] \notin R!Closed =>
            /\ \A w \in Workers : mem[w].claim = c => at[w] \in {"mark", "premark"}
            /\ queue[c[1]] # c
            /\ ~(poll.step = "dispatch" /\ poll.claim = c)

Settled == Placed /\ DoneIsLeft /\ Accounted

(* The inductive invariant of the account.                                 *)
AInv == WInv /\ OneSeries /\ RowsDecided /\ Settled

-----------------------------------------------------------------------------
LEMMA BudgetTyped ==
    ASSUME WInv
    PROVE  faults \in Nat /\ dailies \in Nat /\ \A r \in Requests, q \in R!Chunks : token[r][q] \in Nat
BY TablesTyped, Bounds DEF WInv, TypeOK

(* Only one row is open.                                                   *)
LEMMA OpenAlone ==
    ASSUME WInv, OneSeries, RowsDecided, NEW r \in Requests, NEW q \in R!Chunks, NEW t \in Requests, NEW p \in R!Chunks,
           row[r][q] \in R!Active, row[t][p] # "none", row[t][p] = "done" => FALSE
    PROVE  t = r /\ p = q
<1>1. row[r][q] # "none" /\ row[r][q] # "done"
    BY DEF R!Active, R!Held
<1>2. t = r
    BY <1>1 DEF OneSeries, RowsDecided
<1>3. q \in Nat /\ p \in Nat
    BY DEF R!Chunks
<1>4. ~(p < q) /\ ~(q < p)
    BY <1>1, <1>2 DEF WInv, RP!IInv, RP!ChunksInOrder, RP!Chunks, R!Chunks
<1> QED BY <1>2, <1>3, <1>4

LEMMA ChargeCounts ==
    ASSUME NEW f \in Nat, NEW d \in Nat, NEW g \in Nat, NEW e \in Nat, g >= f, e >= d, g + e > f + d
    PROVE  2 * f + d + 1 <= 2 * g + e
OBVIOUS

(* The account balances: charges are not less than what they pay for.      *)
LEMMA Balanced ==
    ASSUME AInv, WInv', \A r \in Requests, q \in R!Chunks : token'[r][q] = token[r][q],
           IsFiniteSet(Late'), faults' >= faults, dailies' >= dailies,
           \/ /\ \A r \in Requests, q \in R!Chunks : Spent(r, q)' => Spent(r, q)
              /\ Cardinality(Late') <= Cardinality(Late)
           \/ Cardinality(Late') + 1 <= Cardinality(Late)
           \/ Cardinality(Late') <= Cardinality(Late) /\ faults' + dailies' > faults + dailies
    PROVE  Accounted'
<1>0. faults' >= faults /\ dailies' >= dailies
    OBVIOUS
<1>1. /\ faults \in Nat /\ dailies \in Nat /\ faults' \in Nat /\ dailies' \in Nat
      /\ Cardinality(Late) \in Nat /\ Cardinality(Late') \in Nat
    BY BudgetTyped, FS_CardinalityType, Bounds DEF AInv, Settled, Accounted, WInv, TypeOK
<1> SUFFICES ASSUME NEW r \in Requests, NEW q \in R!Chunks
             PROVE  Cost(r, q)' + Cardinality(Late') <= 2 * faults' + dailies' + 1
    BY DEF Accounted
<1>2. /\ token[r][q] \in Nat /\ token'[r][q] = token[r][q]
      /\ Cost(r, q) + Cardinality(Late) <= 2 * faults + dailies + 1
    BY BudgetTyped DEF AInv, Settled, Accounted
<1> DEFINE n == IF token[r][q] = 0 THEN 1 ELSE token[r][q]
<1>3. /\ n \in Nat /\ Cost(r, q) = n + (IF Spent(r, q) THEN 1 ELSE 0)
      /\ Cost(r, q)' = n + (IF Spent(r, q)' THEN 1 ELSE 0)
    BY <1>2 DEF Cost
<1> HIDE DEF n
<1>4. CASE (Spent(r, q)' => Spent(r, q)) /\ Cardinality(Late') <= Cardinality(Late)
    BY <1>1, <1>2, <1>3, <1>4
<1>5. CASE \/ Cardinality(Late') + 1 <= Cardinality(Late)
           \/ Cardinality(Late') <= Cardinality(Late) /\ faults' + dailies' > faults + dailies
    <2>1. Cost(r, q)' <= n + 1 /\ n <= Cost(r, q) /\ Cost(r, q)' \in Nat /\ Cost(r, q) \in Nat
        BY <1>3
    <2>2. n + Cardinality(Late) <= 2 * faults + dailies + 1
        BY <1>1, <1>2, <1>3, <2>1
    <2>3. CASE Cardinality(Late') + 1 <= Cardinality(Late)
        BY <1>1, <1>3, <2>1, <2>2, <2>3
    <2>4. CASE Cardinality(Late') <= Cardinality(Late) /\ faults' + dailies' > faults + dailies
        <3>1. 2 * faults + dailies + 1 <= 2 * faults' + dailies'
            BY <1>0, <1>1, <2>4, ChargeCounts
        <3> DEFINE a == 2 * faults + dailies
                   b == 2 * faults' + dailies'
        <3>2. a \in Nat /\ b \in Nat /\ a + 1 <= b /\ n + Cardinality(Late) <= a + 1
            <4>1. a \in Nat /\ b \in Nat
                BY <1>1
            <4>2. a + 1 <= b
                BY ONLY <3>1
            <4>3. n + Cardinality(Late) <= a + 1
                BY ONLY <2>2
            <4> QED BY <4>1, <4>2, <4>3
        <3> HIDE DEF a, b
        <3>3. Cost(r, q)' + Cardinality(Late') <= b + 1
            BY <1>1, <1>3, <2>1, <2>4, <3>2
        <3> QED BY <1>1, <3>3 DEF b
    <2> QED BY <1>5, <2>3, <2>4
<1> QED BY <1>4, <1>5

(* Nobody comes late: all that is left of the late are some of them.       *)
LEMMA FewerLate ==
    ASSUME AInv, Late' \subseteq Late
    PROVE  IsFiniteSet(Late') /\ Cardinality(Late') <= Cardinality(Late)
BY FS_Subset, FS_CardinalityType DEF AInv, Settled, Accounted

-----------------------------------------------------------------------------
(* Most steps leave the tables as they are, as far as claims go.           *)
TablesSteady ==
    \A r \in Requests :
        /\ status'[r] \in R!Closed <=> status[r] \in R!Closed
        /\ \A q \in R!Chunks :
              /\ token'[r][q] = token[r][q]
              /\ row'[r][q] = row[r][q] \/ (row[r][q] \in R!Held /\ row'[r][q] \in R!Held)

LEMMA StillSteady == UNCHANGED tables => TablesSteady
BY DEF tables, TablesSteady

(* Marks and reports leave the tables as they are, as far as claims go.    *)
LEMMA MarkSteady ==
    ASSUME WInv, NEW c \in Claims, c # None, MarkRow(c)
    PROVE  TablesSteady
<1>1. CASE ~Holds(c)
    BY <1>1, StillSteady DEF MarkRow
<1>2. CASE Holds(c)
    <2>1. R!MarkDispatched(c[1], c[2]) /\ c[1] \in Requests /\ c[2] \in R!Chunks
        BY <1>2, ClaimParts DEF MarkRow
    <2>2. row' = [row EXCEPT ![c[1]][c[2]] = "dispatched"] /\ row[c[1]][c[2]] \in R!Held /\ token' = token
        BY <2>1 DEF R!MarkDispatched
    <2>3. status' = [status EXCEPT ![c[1]] =
                       IF @ \in {"dispatch_pending", "failed_retryable"} THEN "dispatched" ELSE @]
        BY <2>1 DEF R!MarkDispatched
    <2>4. \A r \in Requests : status'[r] \in R!Closed <=> status[r] \in R!Closed
        BY <2>1, <2>3, TablesTyped DEF R!Closed, R!NotRunnable
    <2>5. \A r \in Requests, q \in R!Chunks :
             row'[r][q] = row[r][q] \/ (row[r][q] \in R!Held /\ row'[r][q] \in R!Held)
        BY <2>1, <2>2, TablesTyped DEF R!Held
    <2> QED BY <2>2, <2>4, <2>5 DEF TablesSteady
<1> QED BY <1>1, <1>2

LEMMA ReportSteady ==
    ASSUME WInv, NEW m, m.claim[1] \in Requests, Report(m)
    PROVE  TablesSteady
<1>1. CASE UNCHANGED tables
    BY <1>1, StillSteady
<1>2. CASE R!Progress(m.claim[1], m.day)
    <2>1. row' = row /\ token' = token /\
          status' = [status EXCEPT ![m.claim[1]] =
                       IF @ \in {"dispatch_pending", "dispatched"} THEN "series_running" ELSE @]
        BY <1>2 DEF R!Progress, R!outbox
    <2>2. \A r \in Requests : status'[r] \in R!Closed <=> status[r] \in R!Closed
        BY <2>1, TablesTyped DEF R!Closed, R!NotRunnable
    <2> QED BY <2>1, <2>2 DEF TablesSteady
<1> QED BY <1>1, <1>2 DEF Report

LEMMA SteadyClaims ==
    ASSUME TablesSteady, NEW c \in Claims, c # None
    PROVE  (BeatOk(c)' <=> BeatOk(c)) /\ (Holds(c)' <=> Holds(c)) /\ (IsCurrent(c)' <=> IsCurrent(c))
<1>1. c[1] \in Requests /\ c[2] \in R!Chunks
    BY ClaimParts
<1> QED BY <1>1 DEF TablesSteady, BeatOk, Holds, IsCurrent, StatusOf, R!Held

(* A claim in good hands that still counts stays in good hands.            *)
HandsStay ==
    \A c \in Claims \ {None} :
        Holds(c) /\ status[c[1]] \notin R!Closed /\ GoodHands(c) => GoodHands(c)'

LEMMA SteadySpends ==
    ASSUME WInv, TablesSteady, HandsStay, NEW r \in Requests, NEW q \in R!Chunks, Spent(r, q)'
    PROVE  Spent(r, q)
<1>1. /\ token'[r][q] = token[r][q] /\ status[r] \notin R!Closed /\ token[r][q] > 0
      /\ row'[r][q] = row[r][q] \/ (row[r][q] \in R!Held /\ row'[r][q] \in R!Held)
    BY DEF TablesSteady, Spent
<1>2. CASE row'[r][q] \in {"pending", "failed"}
    BY <1>1, <1>2 DEF Spent, R!Held
<1>3. CASE row'[r][q] \in R!Held /\ ~GoodHands(CurrentOf(r, q))'
    <2>1. row[r][q] \in R!Held
        BY <1>1, <1>3
    <2>2. PICK c \in Claims \ {None} : c = CurrentOf(r, q) /\ c[1] = r /\ c[2] = q /\ c[3] = token[r][q]
        <3>1. token[r][q] \in 1..MaxToken
            BY <2>1, HeldHasToken
        <3>2. <<r, q, token[r][q]>> \in Claims \ {None}
            BY <3>1, ActorsAssumption DEF Claims, R!Chunks
        <3> QED BY <3>2 DEF CurrentOf
    <2>3. c = <<r, q, token'[r][q]>>
        BY <1>1, <2>2 DEF CurrentOf
    <2>4. Holds(c)
        BY <2>1, <2>2 DEF Holds, IsCurrent, StatusOf
    <2>5. ~GoodHands(c)'
        BY <1>3, <2>3 DEF CurrentOf
    <2>6. ~GoodHands(c)
        BY <1>1, <2>2, <2>4, <2>5 DEF HandsStay
    <2> QED BY <1>1, <2>1, <2>2, <2>6 DEF Spent
<1> QED BY <1>2, <1>3 DEF Spent

(* A step of w: what it had in its hands is carried on, and it spoils      *)
(* nothing.                                                                *)
LEMMA HandsKept ==
    ASSUME WInv, NEW w \in Workers,
           \A v \in Workers \ {w} : at'[v] = at[v] /\ mem'[v] = mem[v],
           \A s \in Snaps \ {w} : given'[s] = given[s],
           \A r \in Requests \ {w} : queue'[r] = queue[r],
           poll' = poll, series' = series,
           NEW c \in Claims \ {None}, GoodHands(c),
           \/ mem[w].claim = c
           \/ w \in Snaps /\ at[w] = "seed" /\ given[w].claim = c
           \/ w \in Requests /\ queue[w] = c
           => Carried(c)',
           mem'[w].claim = c => at'[w] # "fail" /\ (at'[w] \in {"day", "write", "count"} => PriorIsRead(mem'[w]))
    PROVE  GoodHands(c)'
<1>0. c[1] \in Requests /\ Snaps \subseteq Workers /\ Requests \subseteq Workers
    BY ClaimParts DEF Workers
<1>1. Carried(c)'
    <2>1. CASE \E v \in Workers \ {w} : mem[v].claim = c
        BY <2>1 DEF Carried
    <2>2. CASE \E s \in Snaps \ {w} : at[s] = "seed" /\ given[s].claim = c
        BY <1>0, <2>2 DEF Carried
    <2>3. CASE c[1] # w /\ queue[c[1]] = c
        BY <1>0, <2>3 DEF Carried
    <2>4. CASE poll.claim = c /\ poll.step = "dispatch"
        BY <2>4 DEF Carried
    <2>5. CASE \/ mem[w].claim = c
               \/ w \in Snaps /\ at[w] = "seed" /\ given[w].claim = c
               \/ w \in Requests /\ queue[w] = c
        BY <2>5
    <2> QED BY <1>0, <2>1, <2>2, <2>3, <2>4, <2>5 DEF GoodHands, Carried
<1>2. ASSUME NEW v \in Workers, mem'[v].claim = c PROVE at'[v] # "fail" /\ ~Outdated(v)'
    <2>1. CASE v = w
        BY <1>2, <2>1 DEF Outdated, PriorIsRead
    <2>2. CASE v # w
        BY <1>2, <2>2 DEF Outdated, PriorIsRead, GoodHands
    <2> QED BY <2>1, <2>2
<1> QED BY <1>1, <1>2 DEF GoodHands

(* Nobody but one who has just heard that its claim counts starts to write.*)
LEMMA LateSteady ==
    ASSUME WInv, TablesSteady, NEW w \in Workers,
           \A v \in Workers \ {w} : at'[v] = at[v] /\ mem'[v] = mem[v],
           at'[w] = "write" => mem'[w].claim = mem[w].claim /\ (at[w] = "write" \/ Beats(w)) /\ mem[w].claim # None
    PROVE  Late' \subseteq Late
<1> SUFFICES ASSUME NEW v \in Workers, at'[v] = "write", ~Beats(v)'
             PROVE  v \in Late
    BY DEF Late
<1>1. mem'[v].claim = mem[v].claim /\ mem[v].claim # None /\ mem[v].claim \in Claims
    BY WorkerHas DEF WorkerFits, Resting
<1>2. ~Beats(v)
    <2>1. BeatOk(mem[v].claim)' <=> BeatOk(mem[v].claim)
        BY <1>1, SteadyClaims
    <2> QED BY <1>1, <2>1 DEF Beats, BeatOk, IsCurrent, StatusOf
<1> QED BY <1>2 DEF Late

(* The account of a step that costs nothing.                               *)
LEMMA AccountSteady ==
    ASSUME AInv, WInv', TablesSteady, HandsStay, Late' \subseteq Late, faults' = faults, dailies' = dailies
    PROVE  Accounted'
<1>1. \A r \in Requests, q \in R!Chunks : token'[r][q] = token[r][q]
    BY DEF TablesSteady
<1>2. \A r \in Requests, q \in R!Chunks : Spent(r, q)' => Spent(r, q)
    BY SteadySpends DEF AInv
<1>3. faults' >= faults /\ dailies' >= dailies
    BY BudgetTyped DEF AInv
<1> QED BY <1>1, <1>2, <1>3, FewerLate, Balanced

(* A step that is charged for.                                             *)
LEMMA AccountCharged ==
    ASSUME AInv, WInv', TablesSteady, Late' \subseteq Late,
           \/ faults' = faults + 1 /\ dailies' = dailies
           \/ faults' = faults /\ dailies' = dailies + 1
    PROVE  Accounted'
<1>1. \A r \in Requests, q \in R!Chunks : token'[r][q] = token[r][q]
    BY DEF TablesSteady
<1>2. faults' >= faults /\ dailies' >= dailies /\ faults' + dailies' > faults + dailies
    BY BudgetTyped DEF AInv
<1> QED BY <1>1, <1>2, FewerLate, Balanced

(* Claims stay where they are, or are dropped.                             *)
LEMMA PlacedKept ==
    ASSUME AInv, \A c \in Claims \ {None} : TokenReached(c) /\ Holds(c)' => Holds(c), poll' = poll,
           \A r \in Requests : queue'[r] = queue[r] /\ mem'[r].claim \in {mem[r].claim, None}
    PROVE  Placed'
<1>1. /\ poll.claim \in Claims /\ \A r \in Requests : queue[r] \in Claims /\ TokenReached(queue[r])
      /\ poll.step = "dispatch" => poll.claim # None
    BY DEF AInv, WInv, TypeOK, HandsFit
<1>2. poll.step = "dispatch" => poll.claim[1] \in Requests
    BY <1>1, ClaimParts
<1>3. ASSUME poll.step = "dispatch", queue[poll.claim[1]] # None
      PROVE  ~Holds(queue[poll.claim[1]])'
    <2> DEFINE r == poll.claim[1]
    <2>1. r \in Requests /\ queue[r] \in Claims \ {None} /\ TokenReached(queue[r]) /\ ~Holds(queue[r])
        BY <1>1, <1>2, <1>3 DEF AInv, Settled, Placed
    <2>2. PICK c \in Claims \ {None} : c = queue[r] /\ c = queue'[r] /\ TokenReached(c) /\ ~Holds(c)
        BY <2>1
    <2>3. ~Holds(c)'
        BY <2>2
    <2> QED BY <2>2, <2>3 DEF Holds, IsCurrent, StatusOf
<1>4. ASSUME poll.step = "dispatch"
      PROVE  LET c == poll.claim IN
             /\ queue'[c[1]] # c /\ mem'[c[1]].claim # c
             /\ queue'[c[1]] # None => ~Holds(queue[c[1]])'
    BY <1>1, <1>2, <1>3, <1>4 DEF AInv, Settled, Placed
<1>5. \A r \in Requests : queue'[r] # None => mem'[r].claim # queue'[r]
    BY DEF AInv, Settled, Placed
<1> QED BY <1>4, <1>5 DEF Placed

LEMMA SteadyFade ==
    ASSUME TablesSteady
    PROVE  \A c \in Claims \ {None} : TokenReached(c) /\ Holds(c)' => Holds(c)
BY SteadyClaims

DoneAlready(c) ==
    token'[c[1]][c[2]] = c[3] /\ row'[c[1]][c[2]] = "done" /\ status'[c[1]] \notin R!Closed =>
        IsCurrent(c) /\ StatusOf(c) = "done" /\ status[c[1]] \notin R!Closed

(* Nobody takes up what was done before.                                   *)
LEMMA DoneKept ==
    ASSUME AInv, poll' = poll \/ poll'.step # "dispatch", NEW c \in Claims \ {None}, DoneAlready(c),
           \A r \in Requests : queue'[r] \in {queue[r], None},
           \A v \in Workers :
              \/ at'[v] \in {"mark", "premark"} \/ mem'[v].claim = None \/ Holds(mem'[v].claim)
              \/ mem'[v].claim = mem[v].claim /\ at[v] \notin {"mark", "premark"},
           token'[c[1]][c[2]] = c[3], row'[c[1]][c[2]] = "done", status'[c[1]] \notin R!Closed
    PROVE  /\ \A w \in Workers : mem'[w].claim = c => at'[w] \in {"mark", "premark"}
           /\ queue'[c[1]] # c
           /\ ~(poll'.step = "dispatch" /\ poll'.claim = c)
<1>0. c[1] \in Requests /\ c[2] \in R!Chunks
    BY ClaimParts
<1>1. IsCurrent(c) /\ StatusOf(c) = "done" /\ status[c[1]] \notin R!Closed
    BY DEF DoneAlready
<1>2. /\ \A w \in Workers : mem[w].claim = c => at[w] \in {"mark", "premark"}
      /\ queue[c[1]] # c /\ ~(poll.step = "dispatch" /\ poll.claim = c)
    BY <1>1 DEF AInv, Settled, DoneIsLeft
<1>3. ~Holds(c)
    BY <1>1 DEF Holds, R!Held
<1>4. ASSUME NEW w \in Workers, mem'[w].claim = c
      PROVE  at'[w] \in {"mark", "premark"}
    BY <1>2, <1>3, <1>4
<1> QED BY <1>0, <1>2, <1>4

LEMMA DoneSteady ==
    ASSUME AInv, TablesSteady, poll' = poll \/ poll'.step # "dispatch",
           \A r \in Requests : queue'[r] \in {queue[r], None},
           \A v \in Workers :
              \/ at'[v] \in {"mark", "premark"} \/ mem'[v].claim = None \/ Holds(mem'[v].claim)
              \/ mem'[v].claim = mem[v].claim /\ at[v] \notin {"mark", "premark"}
    PROVE  DoneIsLeft'
<1>1. ASSUME NEW c \in Claims \ {None} PROVE DoneAlready(c)
    BY ClaimParts DEF TablesSteady, DoneAlready, IsCurrent, StatusOf, R!Held
<1> QED BY <1>1, DoneKept DEF DoneIsLeft, IsCurrent, StatusOf

-----------------------------------------------------------------------------
LEMMA HandsFitsQueue ==
    ASSUME WInv, NEW r \in Requests, queue[r] # None
    PROVE  queue[r] \in Claims /\ queue[r][1] = r
BY DEF WInv, TypeOK, HandsFit

(* A call of a worker on its chunk that leaves the rows alone.             *)
LEMMA RunSettled ==
    ASSUME AInv, WInv', TablesSteady, NEW w \in Workers, at[w] \notin Resting \cup {"mark", "premark"},
           NEW l, NEW m, m.claim = mem[w].claim, Step(w, l, m),
           given' = given, queue' = queue, poll' = poll, series' = series, faults' = faults, dailies' = dailies,
           l \notin Resting \ {"off", "ended", "next"},
           l = "write" => Beats(w),
           GoodHands(mem[w].claim) /\ Holds(mem[w].claim) /\ status[mem[w].claim[1]] \notin R!Closed =>
               l \notin {"off", "ended", "next", "fail"} /\ (l \in {"day", "write", "count"} => PriorIsRead(m))
    PROVE  Settled'
<1> DEFINE c == mem[w].claim
<1>0. WInv /\ c \in Claims \ {None} /\ c[1] \in Requests /\ TokenReached(c) /\ w \in Workers
    BY WorkerHas, ClaimParts DEF AInv, WorkerFits
<1>1. /\ at' = [at EXCEPT ![w] = l]
      /\ mem' = [mem EXCEPT ![w] = IF l \in {"off", "ended", "next"} THEN Blank ELSE m]
      /\ at \in [Workers -> Places] /\ mem \in [Workers -> Memory]
    BY <1>0 DEF Step, Goto, WInv, TypeOK
<1>2. /\ \A v \in Workers \ {w} : at'[v] = at[v] /\ mem'[v] = mem[v]
      /\ at'[w] = l /\ mem'[w] = (IF l \in {"off", "ended", "next"} THEN Blank ELSE m)
      /\ mem'[w].claim \in {c, None}
      /\ l \in {"off", "ended", "next"} <=> mem'[w].claim = None
    BY <1>0, <1>1 DEF Blank
<1>3. Placed'
    <2>1. \A r \in Requests : queue'[r] = queue[r] /\ mem'[r].claim \in {mem[r].claim, None}
        BY <1>2 DEF Workers
    <2> QED BY <2>1, SteadyFade, PlacedKept
<1>4. DoneIsLeft'
    <2>1. \A v \in Workers :
              \/ at'[v] \in {"mark", "premark"} \/ mem'[v].claim = None
              \/ mem'[v].claim = mem[v].claim /\ at[v] \notin {"mark", "premark"}
        BY <1>2
    <2>2. \A r \in Requests : queue'[r] \in {queue[r], None}
        OBVIOUS
    <2> QED BY <2>1, <2>2, DoneSteady
<1>5. Late' \subseteq Late
    <2>1. at'[w] = "write" => mem'[w].claim = mem[w].claim /\ (at[w] = "write" \/ Beats(w)) /\ mem[w].claim # None
        BY <1>0, <1>2
    <2> QED BY <1>0, <1>2, <2>1, LateSteady
<1>6. HandsStay
    <2> SUFFICES ASSUME NEW e \in Claims \ {None}, Holds(e), status[e[1]] \notin R!Closed, GoodHands(e)
                 PROVE  GoodHands(e)'
        BY DEF HandsStay
    <2>1. e = c => /\ l \notin {"off", "ended", "next", "fail"} /\ mem'[w] = m /\ mem'[w].claim = e
                   /\ l \in {"day", "write", "count"} => PriorIsRead(m)
        BY <1>2
    <2>2. mem'[w].claim = e =>
             e = c /\ at'[w] # "fail" /\ (at'[w] \in {"day", "write", "count"} => PriorIsRead(mem'[w]))
        BY <1>2, <2>1
    <2>3. at[w] # "seed" /\ (w \in Requests => queue'[w] = queue[w])
        BY DEF Resting
    <2>4. \/ mem[w].claim = e
          \/ w \in Snaps /\ at[w] = "seed" /\ given[w].claim = e
          \/ w \in Requests /\ queue[w] = e
          => Carried(e)'
        BY <1>0, <2>1, <2>3, ClaimParts, HandsFitsQueue DEF Carried
    <2> QED BY <1>0, <1>2, <2>2, <2>4, HandsKept
<1> QED BY <1>0, <1>3, <1>4, <1>5, <1>6, AccountSteady DEF Settled

(* Of one year there is one series to load.                                *)
LEMMA LoadedOne ==
    ASSUME NEW old, NEW y \in Nat
    PROVE  Loaded(old, {y}) = IF series[y].ver = 0 THEN old ELSE series[y]
<1>1. CASE series[y].ver = 0
    <2>1. {x \in {y} : series[x].ver # 0} = {}
        BY <1>1
    <2> QED BY <1>1, <2>1 DEF Loaded
<1>2. CASE series[y].ver # 0
    <2>1. {x \in {y} : series[x].ver # 0} = {y}
        BY <1>2
    <2>2. (CHOOSE x \in {y} : \A z \in {y} : z <= x) = y
        OBVIOUS
    <2> QED BY <1>2, <2>1, <2>2 DEF Loaded
<1> QED BY <1>1, <1>2

(* All the dates of a chunk are in one year.                               *)
LEMMA DatedYear ==
    ASSUME AInv, NEW w \in Workers, at[w] \in Dated
    PROVE  /\ mem[w].day \in 1..NumDates /\ YearOf[mem[w].day] \in Nat /\ YearOf[mem[w].day] \in Years
           /\ mem[w].upto \in 1..NumDates /\ mem[w].day <= mem[w].upto
           /\ \A d \in 1..NumDates : YearOf[d] = YearOf[mem[w].day]
<1>1. /\ DayFits(mem[w]) /\ mem[w].day \in 0..NumDates /\ mem[w].upto \in 0..NumDates
    BY WorkerHas DEF AInv, WorkerFits
<1>2. mem[w].day \in 1..NumDates /\ mem[w].upto \in 1..NumDates /\ mem[w].day <= mem[w].upto
    BY <1>1, Bounds DEF DayFits
<1> QED BY <1>2, DatesAssumption DEF Years, AInv, OneSeries

LEMMA RunWorks ==
    ASSUME WInv, NEW w \in Workers, RunRequest(w)
    PROVE  /\ at[w] \notin Resting \cup {"mark", "premark"} /\ mem[w] \in Memory
           /\ given' = given /\ queue' = queue /\ poll' = poll /\ faults' = faults /\ dailies' = dailies
           /\ mem[w].claim \in Claims \ {None} /\ mem[w].claim[1] \in Requests /\ mem[w].claim[2] \in R!Chunks
<1>1. /\ at[w] \notin Resting \cup {"mark", "premark"}
      /\ given' = given /\ queue' = queue /\ poll' = poll /\ faults' = faults /\ dailies' = dailies
    BY DEF RunRequest, FirstBeat, LoadRequest, LoadSeries, PlanDate, WriteDate, Reread, CountDate, Finish, FailRow,
           Unmoved, polling, budget, Resting
<1> QED BY <1>1, WorkerHas, ClaimParts DEF WorkerFits

LEMMA BeatsHold ==
    ASSUME NEW w, Holds(mem[w].claim)
    PROVE  Beats(w) /\ IsCurrent(mem[w].claim)
BY DEF Holds, Beats, BeatOk

(* The calls of a worker on its chunk, but for the writes that publish and *)
(* the calls that end a chunk.                                             *)
LEMMA CallsSettled ==
    ASSUME AInv, WInv', NEW w \in Workers, RunRequest(w), UNCHANGED series,
           ~(FailRow(w) /\ ~UNCHANGED tables), ~(Finish(w) /\ Holds(mem[w].claim))
    PROVE  Settled'
<1> DEFINE c == mem[w].claim
<1>0. /\ WInv /\ at[w] \notin Resting \cup {"mark", "premark"} /\ mem[w] \in Memory
      /\ given' = given /\ queue' = queue /\ poll' = poll /\ faults' = faults /\ dailies' = dailies /\ series' = series
      /\ c \in Claims \ {None} /\ c[1] \in Requests /\ c[2] \in R!Chunks
    BY RunWorks DEF AInv
<1>1. CASE FirstBeat(w)
    <2>1. UNCHANGED tables /\ (Move(w, "load") \/ (~Beats(w) /\ Move(w, Well(w))))
        BY <1>1 DEF FirstBeat
    <2> QED BY <1>0, <2>1, StillSteady, BeatsHold, RunSettled DEF Move, Well, Resting
<1>2. CASE LoadRequest(w)
    <2> DEFINE r == mem[w].claim[1]
               stop == IF IsRun(w) /\ last[r] + ChunkDates < NumDates THEN last[r] + ChunkDates ELSE NumDates
               m == [mem[w] EXCEPT !.day = last[r] + 1, !.upto = stop]
    <2>1. /\ UNCHANGED tables
          /\ \/ status[r] \in R!Closed /\ Move(w, Well(w))
             \/ Move(w, "finish")
             \/ Step(w, "read", m)
        BY <1>2 DEF LoadRequest
    <2>2. m.claim = c
        BY <1>0 DEF Memory
    <2> HIDE DEF m
    <2> QED BY <1>0, <2>1, <2>2, StillSteady, RunSettled DEF Move, Well, Resting
<1>3. CASE LoadSeries(w)
    <2> DEFINE y == YearOf[mem[w].day]
               Y == {YearOf[d] : d \in mem[w].day..mem[w].upto}
               m == [mem[w] EXCEPT !.read = Loaded(NoSeries, Y)]
    <2>1. UNCHANGED tables /\ Step(w, "day", m) /\ at[w] = "read"
        BY <1>3 DEF LoadSeries
    <2>2. Y = {y} /\ y \in Nat
        BY <2>1, DatedYear, Bounds DEF Dated
    <2>3. Loaded(NoSeries, Y) = IF series[y].ver = 0 THEN NoSeries ELSE series[y]
        BY <2>2, LoadedOne
    <2> HIDE DEF Y
    <2>4. m.claim = c /\ m.read = Loaded(NoSeries, Y) /\ m.day = mem[w].day
        BY <1>0 DEF Memory
    <2> HIDE DEF m
    <2>5. PriorIsRead(m)
        BY <2>3, <2>4 DEF PriorIsRead, NoSeries
    <2> QED BY <1>0, <2>1, <2>4, <2>5, StillSteady, RunSettled DEF Resting
<1>4. CASE PlanDate(w)
    <2>1. /\ UNCHANGED tables /\ at[w] = "day"
          /\ \/ ~Beats(w) /\ Move(w, Lost(w))
             \/ Beats(w) /\ (Move(w, "count") \/ Move(w, "write"))
        BY <1>4 DEF PlanDate
    <2>2. GoodHands(c) => PriorIsRead(mem[w])
        BY <2>1 DEF GoodHands, Outdated
    <2> QED BY <1>0, <2>1, <2>2, StillSteady, BeatsHold, RunSettled DEF Move, Lost, Well, Off, Resting
<1>5. CASE WriteDate(w)
    <2>1. /\ UNCHANGED tables /\ at[w] = "write"
          /\ \/ PriorIsRead(mem[w]) /\ Move(w, "reread")
             \/ ~PriorIsRead(mem[w]) /\ Move(w, "fail")
             \/ ~Beats(w) /\ Move(w, Lost(w))
        BY <1>5 DEF WriteDate
    <2>2. GoodHands(c) => PriorIsRead(mem[w])
        BY <2>1 DEF GoodHands, Outdated
    <2> QED BY <1>0, <2>1, <2>2, StillSteady, BeatsHold, RunSettled DEF Move, Lost, Well, Off, Resting
<1>6. CASE Reread(w)
    <2> DEFINE y == YearOf[mem[w].day]
               m == [mem[w] EXCEPT !.read = Loaded(mem[w].read, {y})]
    <2>1. UNCHANGED tables /\ Step(w, "count", m) /\ at[w] = "reread"
        BY <1>0, <1>6 DEF Reread, Memory
    <2>2. y \in Nat /\ y \in Years /\ series[y].ver # 0
        <3>1. y \in Nat /\ y \in Years /\ mem[w].day \in series[y].dates
            BY <1>0, <2>1, DatedYear, WorkerHas DEF Dated, WorkerFits, InSeries
        <3> QED BY <1>0, <3>1 DEF WInv, SeriesFit
    <2>3. Loaded(mem[w].read, {y}) = series[y]
        BY <2>2, LoadedOne
    <2>4. m.claim = c /\ m.read = series[y] /\ m.day = mem[w].day
        BY <1>0, <2>3 DEF Memory
    <2> HIDE DEF m
    <2>5. PriorIsRead(m)
        BY <2>2, <2>4 DEF PriorIsRead
    <2> QED BY <1>0, <2>1, <2>4, <2>5, StillSteady, RunSettled DEF Resting
<1>7. CASE CountDate(w)
    <2> DEFINE m == [mem[w] EXCEPT !.counted = TRUE]
               n == [m EXCEPT !.day = @ + 1]
    <2>1. m.claim = c /\ m.day = mem[w].day /\ m.upto = mem[w].upto /\ m.read = mem[w].read /\ n.claim = c
          /\ n.read = mem[w].read /\ n.day = mem[w].day + 1
        BY <1>0 DEF Memory
    <2>2. /\ at[w] = "count"
          /\ \/ UNCHANGED tables /\ ~Beats(w) /\ Move(w, Lost(w))
             \/ Report(m) /\ Step(w, "finish", m)
             \/ Report(m) /\ m.day # m.upto /\ Step(w, "day", n)
        BY <1>7 DEF CountDate
    <2> HIDE DEF m, n
    <2>3. TablesSteady
        BY <1>0, <2>1, <2>2, StillSteady, ReportSteady
    <2>4. CASE ~Beats(w) /\ Move(w, Lost(w))
        BY <1>0, <2>3, <2>4, BeatsHold, RunSettled DEF Move, Lost, Well, Off, Resting
    <2>5. CASE Step(w, "finish", m)
        BY <1>0, <2>1, <2>3, <2>5, RunSettled DEF Resting
    <2>6. CASE m.day # m.upto /\ Step(w, "day", n)
        <3>1. n.day \in 1..NumDates /\ YearOf[n.day] = YearOf[mem[w].day]
            <4>1. n.day \in 1..NumDates
                BY <2>1, <2>2, <2>6, DatedYear, Bounds DEF Dated
            <4> QED BY <2>2, <4>1, DatedYear DEF Dated
        <3>2. GoodHands(c) => PriorIsRead(n)
            BY <2>1, <2>2, <3>1 DEF GoodHands, Outdated, PriorIsRead
        <3> QED BY <1>0, <2>1, <2>3, <2>6, <3>2, RunSettled DEF Resting
    <2> QED BY <2>2, <2>4, <2>5, <2>6
<1>8. CASE Finish(w)
    <2>1. UNCHANGED tables /\ ~Holds(c) /\ (Move(w, Lost(w)) \/ Move(w, "fail"))
        BY <1>8 DEF Finish
    <2> QED BY <1>0, <2>1, StillSteady, RunSettled DEF Move, Lost, Well, Off, Resting
<1>9. CASE FailRow(w)
    <2>1. UNCHANGED tables /\ at[w] = "fail" /\ Move(w, Off(w))
        BY <1>9 DEF FailRow
    <2>2. ~GoodHands(c)
        BY <2>1 DEF GoodHands
    <2> QED BY <1>0, <2>1, <2>2, StillSteady, RunSettled DEF Move, Off, Resting
<1> QED BY <1>1, <1>2, <1>3, <1>4, <1>5, <1>6, <1>7, <1>8, <1>9 DEF RunRequest

(* Only one row is open, and only one worker has its claim.                *)
LEMMA OpenOne ==
    ASSUME AInv, NEW w \in Workers, mem[w].claim # None, Beats(w), at[w] \notin {"mark", "premark"},
           NEW c \in Claims \ {None}, Holds(c), status[c[1]] \notin R!Closed
    PROVE  c = mem[w].claim
<1> DEFINE d == mem[w].claim
<1>1. /\ d \in Claims \ {None} /\ d[1] \in Requests /\ d[2] \in R!Chunks /\ d = <<d[1], d[2], d[3]>>
      /\ c[1] \in Requests /\ c[2] \in R!Chunks /\ c = <<c[1], c[2], c[3]>>
    BY WorkerHas, ClaimParts DEF AInv
<1> HIDE DEF d
<1>2. IsCurrent(d) /\ StatusOf(d) \in R!Held \cup {"done"} /\ StatusOf(d) # "none"
    BY DEF Beats, BeatOk, d, R!Held
<1>3. row[c[1]][c[2]] \in R!Active /\ row[c[1]][c[2]] # "none" /\ IsCurrent(c)
    BY DEF Holds, StatusOf, R!Active, R!Held
<1>4. c[1] = d[1]
    BY <1>1, <1>2, <1>3 DEF AInv, OneSeries, RowsDecided, StatusOf
<1>5. StatusOf(d) # "done"
    BY <1>1, <1>2, <1>4 DEF AInv, Settled, DoneIsLeft, d
<1>6. c[2] = d[2]
    BY <1>1, <1>2, <1>3, <1>5, OpenAlone DEF AInv, StatusOf
<1> QED BY <1>1, <1>2, <1>3, <1>4, <1>6 DEF IsCurrent, d

(* A write that publishes spoils what the others have read: the writer     *)
(* that has its claim is the only one, and one without was late.           *)
LEMMA WriteSettled ==
    ASSUME AInv, WInv', NEW w \in Workers, WriteDate(w), series' # series
    PROVE  Settled'
<1> DEFINE c == mem[w].claim
<1>0. /\ WInv /\ at[w] = "write" /\ UNCHANGED tables
      /\ given' = given /\ queue' = queue /\ poll' = poll /\ faults' = faults /\ dailies' = dailies
      /\ c \in Claims \ {None} /\ c[1] \in Requests /\ c[2] \in R!Chunks
    BY RunWorks DEF AInv, RunRequest, WriteDate
<1>1. /\ at' = [at EXCEPT ![w] = "reread"] /\ mem' = [mem EXCEPT ![w] = mem[w]]
      /\ at \in [Workers -> Places] /\ mem \in [Workers -> Memory]
    BY <1>0, WriteKeeps DEF WInv, TypeOK
<1>2. at'[w] = "reread" /\ mem' = mem /\ \A v \in Workers \ {w} : at'[v] = at[v]
    BY <1>1
<1>3. TablesSteady /\ Placed'
    <2>1. \A r \in Requests : queue'[r] = queue[r] /\ mem'[r].claim \in {mem[r].claim, None}
        BY <1>0, <1>2 DEF Workers
    <2> QED BY <1>0, <2>1, StillSteady, SteadyFade, PlacedKept
<1>4. DoneIsLeft'
    <2>1. \A v \in Workers :
              \/ at'[v] \in {"mark", "premark"} \/ mem'[v].claim = None
              \/ mem'[v].claim = mem[v].claim /\ at[v] \notin {"mark", "premark"}
        BY <1>0, <1>2
    <2>2. \A r \in Requests : queue'[r] \in {queue[r], None}
        BY <1>0
    <2> QED BY <1>0, <1>3, <2>1, <2>2, DoneSteady
<1>5. Late' \subseteq Late
    BY <1>0, <1>2, <1>3, LateSteady
<1>6. CASE Beats(w)
    <2>1. HandsStay
        <3> SUFFICES ASSUME NEW e \in Claims \ {None}, Holds(e), status[e[1]] \notin R!Closed, GoodHands(e)
                     PROVE  GoodHands(e)'
            BY DEF HandsStay
        <3>1. e = mem[w].claim /\ IsCurrent(e)
            BY <1>0, <1>6, OpenOne DEF Holds
        <3>2. ASSUME NEW v \in Workers, mem'[v].claim = e PROVE v = w
            BY <1>0, <1>2, <3>1, <3>2, HoldersApart
        <3>3. mem'[w].claim = e
            BY <1>2, <3>1
        <3> QED BY <1>2, <3>2, <3>3 DEF GoodHands, Carried, Outdated
    <2> QED BY <1>0, <1>3, <1>4, <1>5, <2>1, AccountSteady DEF Settled
<1>7. CASE ~Beats(w)
    <2>1. w \in Late /\ w \notin Late'
        BY <1>0, <1>2, <1>7 DEF Late
    <2>2. IsFiniteSet(Late) /\ Late' \subseteq Late \ {w}
        BY <1>5, <2>1 DEF AInv, Settled, Accounted
    <2>3. Cardinality(Late \ {w}) = Cardinality(Late) - 1 /\ IsFiniteSet(Late \ {w})
        BY <2>1, <2>2, FS_RemoveElement
    <2>4. IsFiniteSet(Late') /\ Cardinality(Late') <= Cardinality(Late \ {w})
        BY <2>2, <2>3, FS_Subset
    <2>5. Cardinality(Late') + 1 <= Cardinality(Late)
        BY <2>2, <2>3, <2>4, FS_CardinalityType
    <2>6. \A r \in Requests, q \in R!Chunks : token'[r][q] = token[r][q]
        BY <1>3 DEF TablesSteady
    <2>7. faults' >= faults /\ dailies' >= dailies
        BY <1>0, BudgetTyped
    <2> QED BY <1>3, <1>4, <2>4, <2>5, <2>6, <2>7, Balanced DEF Settled
<1> QED BY <1>6, <1>7

(* The end of a chunk, by its only holder: what the tables are left with.  *)
LEMMA FailTables ==
    ASSUME WInv, NEW r \in Requests, NEW q \in R!Chunks, R!FailOutbox(r, q)
    PROVE  /\ token' = token /\ row' = [row EXCEPT ![r][q] = "failed"] /\ row[r][q] \in R!Active /\ token[r][q] > 0
           /\ \A x \in Requests : status'[x] \in R!Closed <=> status[x] \in R!Closed
<1>1. /\ token' = token /\ row' = [row EXCEPT ![r][q] = "failed"] /\ row[r][q] \in R!Active /\ token[r][q] > 0
      /\ status' = [status EXCEPT ![r] = IF @ \in R!Closed THEN @ ELSE "failed_retryable"]
    BY DEF R!FailOutbox
<1>2. \A x \in Requests : status'[x] \in R!Closed <=> status[x] \in R!Closed
    BY <1>1, TablesTyped DEF R!Closed, R!NotRunnable
<1> QED BY <1>1, <1>2

LEMMA FailSettled ==
    ASSUME AInv, WInv', NEW w \in Workers, FailRow(w), ~UNCHANGED tables
    PROVE  Settled'
<1>0. /\ WInv /\ at[w] = "fail" /\ mem[w].claim \in Claims \ {None} /\ mem[w].claim # None
      /\ given' = given /\ queue' = queue /\ poll' = poll /\ faults' = faults /\ dailies' = dailies /\ series' = series
      /\ IsCurrent(mem[w].claim) /\ R!FailOutbox(mem[w].claim[1], mem[w].claim[2]) /\ Move(w, Off(w))
    BY RunWorks DEF AInv, RunRequest, FailRow
<1>1. PICK r \in Requests, q \in R!Chunks : mem[w].claim = <<r, q, token[r][q]>>
    BY <1>0, ClaimParts DEF IsCurrent
<1>2. /\ token' = token /\ row' = [row EXCEPT ![r][q] = "failed"] /\ row[r][q] \in R!Active /\ token[r][q] > 0
      /\ \A x \in Requests : status'[x] \in R!Closed <=> status[x] \in R!Closed
      /\ row \in [Requests -> [R!Chunks -> R!Active \cup {"done", "none"}]]
    BY <1>0, <1>1, FailTables, TablesTyped
<1>3. /\ \A v \in Workers \ {w} : at'[v] = at[v] /\ mem'[v] = mem[v]
      /\ at'[w] \in {"off", "ended"} /\ mem'[w].claim = None
    BY <1>0 DEF Move, Step, Goto, Off, Blank, WInv, TypeOK
<1>4. /\ row'[r][q] = "failed"
      /\ \A x \in Requests, p \in R!Chunks : row'[x][p] = row[x][p] \/ (x = r /\ p = q)
    BY <1>2
<1>5. Placed'
    <2>1. ASSUME NEW c \in Claims \ {None}, Holds(c)' PROVE Holds(c)
        BY <1>2, <1>4, <2>1, ClaimParts DEF Holds, IsCurrent, StatusOf, R!Held
    <2>2. \A x \in Requests : queue'[x] = queue[x] /\ mem'[x].claim \in {mem[x].claim, None}
        BY <1>0, <1>3 DEF Workers
    <2> QED BY <1>0, <2>1, <2>2, PlacedKept
<1>6. DoneIsLeft'
    <2>1. ASSUME NEW c \in Claims \ {None} PROVE DoneAlready(c)
        BY <1>2, <1>4, ClaimParts DEF DoneAlready, IsCurrent, StatusOf
    <2>2. \A v \in Workers :
              \/ at'[v] \in {"mark", "premark"} \/ mem'[v].claim = None
              \/ mem'[v].claim = mem[v].claim /\ at[v] \notin {"mark", "premark"}
        BY <1>3
    <2>3. \A x \in Requests : queue'[x] \in {queue[x], None}
        BY <1>0
    <2> QED BY <1>0, <2>1, <2>2, <2>3, DoneKept DEF DoneIsLeft, IsCurrent, StatusOf
<1>7. Late' \subseteq Late
    <2> SUFFICES ASSUME NEW v \in Workers, at'[v] = "write", ~Beats(v)'
                 PROVE  v \in Late
        BY DEF Late
    <2>1. v # w /\ at[v] = "write" /\ mem'[v] = mem[v] /\ mem[v].claim \in Claims /\ mem[v].claim # None
        BY <1>3, <1>0, WorkerHas DEF WorkerFits, Resting
    <2>2. PICK c \in Claims \ {None} : c = mem[v].claim /\ c = mem'[v].claim
        BY <2>1
    <2>3. ~BeatOk(c)'
        BY <2>2 DEF Beats, BeatOk, IsCurrent, StatusOf
    <2>4. ~BeatOk(c)
        <3>1. CASE c[1] = r /\ c[2] = q
            <4>1. ~IsCurrent(c)
                BY <1>0, <1>1, <2>1, <2>2, <3>1, ClaimParts, HoldersApart DEF IsCurrent
            <4> QED BY <4>1 DEF BeatOk
        <3>2. CASE ~(c[1] = r /\ c[2] = q)
            BY <1>2, <1>4, <2>3, <3>2, ClaimParts DEF BeatOk, IsCurrent, StatusOf
        <3> QED BY <3>1, <3>2
    <2> QED BY <2>1, <2>2, <2>4 DEF Late, Beats
<1>8. ASSUME NEW x \in Requests, NEW p \in R!Chunks, Spent(x, p)' PROVE Spent(x, p)
    <2>1. /\ token[x][p] > 0 /\ status[x] \notin R!Closed /\ row'[x][p] \in R!Active
        BY <1>2, <1>8 DEF Spent, R!Active
    <2>2. row[x][p] # "none" /\ row[x][p] # "done"
        BY <1>2, <1>4, <2>1 DEF R!Active, R!Held
    <2>3. x = r /\ p = q
        BY <1>0, <1>2, <2>2, OpenAlone DEF AInv
    <2>4. ~GoodHands(CurrentOf(x, p))
        BY <1>0, <1>1, <2>3 DEF GoodHands, CurrentOf
    <2> QED BY <1>2, <2>1, <2>3, <2>4 DEF Spent, R!Active
<1>9. Accounted'
    <2>1. \A x \in Requests, p \in R!Chunks : token'[x][p] = token[x][p]
        BY <1>2
    <2>2. faults' >= faults /\ dailies' >= dailies
        BY <1>0, BudgetTyped
    <2> QED BY <1>7, <1>8, <2>1, <2>2, FewerLate, Balanced
<1> QED BY <1>5, <1>6, <1>9 DEF Settled

LEMMA FinishTables ==
    ASSUME AInv, NEW r \in Requests, NEW q \in R!Chunks, R!FinishChunk(r, q)
    PROVE  /\ token' = token /\ row'[r][q] = "done" /\ row[r][q] \in R!Held
           /\ \A x \in Requests, p \in R!Chunks :
                 (x = r /\ p = q) \/ row'[x][p] = row[x][p]
                 \/ (row[x][p] = "none" /\ row'[x][p] = "pending" /\ token[x][p] = 0)
           /\ \A x \in Requests : x # r => status'[x] = status[x]
<1>0. /\ row \in [Requests -> [R!Chunks -> R!Active \cup {"done", "none"}]]
      /\ status \in [Requests -> R!Live \cup R!Closed \cup {"none"}]
    BY TablesTyped DEF AInv
<1>1. token' = token /\ row[r][q] \in R!Held
    BY DEF R!FinishChunk
<1>2. \A x \in Requests, p \in R!Chunks : row[x][p] = "none" => token[x][p] = 0
    BY DEF AInv, WInv, RP!IInv, RP!TokensFit, RP!Chunks, R!Chunks
<1>3. CASE R!Remaining(r)
    <2>1. /\ status' = [status EXCEPT ![r] = "dispatch_pending"]
          /\ row' = [row EXCEPT ![r] = [p \in R!Chunks |->
                          IF p = q THEN "done"
                          ELSE IF p = R!NextChunk(r, q) /\ row[r][p] = "none" THEN "pending"
                          ELSE row[r][p]]]
        BY <1>3 DEF R!FinishChunk
    <2> QED BY <1>0, <1>1, <1>2, <2>1
<1>4. CASE ~R!Remaining(r)
    <2>1. status' = [status EXCEPT ![r] = "completed"] /\ row' = [row EXCEPT ![r][q] = "done"]
        BY <1>4 DEF R!FinishChunk
    <2> QED BY <1>0, <1>1, <2>1
<1> QED BY <1>3, <1>4

(* The chunk that is finished is left by its holder.                       *)
LEMMA FinishSettled ==
    ASSUME AInv, WInv', NEW w \in Workers, Finish(w), Holds(mem[w].claim)
    PROVE  Settled'
<1>0. /\ WInv /\ at[w] = "finish" /\ mem[w].claim \in Claims \ {None} /\ mem[w].claim # None
      /\ given' = given /\ queue' = queue /\ poll' = poll /\ faults' = faults /\ dailies' = dailies /\ series' = series
      /\ IsCurrent(mem[w].claim) /\ R!FinishChunk(mem[w].claim[1], mem[w].claim[2]) /\ Move(w, Well(w))
    BY RunWorks DEF AInv, RunRequest, Finish, Holds
<1>1. PICK r \in Requests, q \in R!Chunks : mem[w].claim = <<r, q, token[r][q]>>
    BY <1>0, ClaimParts DEF IsCurrent
<1>2. /\ token' = token /\ row'[r][q] = "done" /\ row[r][q] \in R!Active /\ row[r][q] \in R!Held
      /\ \A x \in Requests, p \in R!Chunks :
            (x = r /\ p = q) \/ row'[x][p] = row[x][p]
            \/ (row[x][p] = "none" /\ row'[x][p] = "pending" /\ token[x][p] = 0)
      /\ row \in [Requests -> [R!Chunks -> R!Active \cup {"done", "none"}]]
      /\ \A x \in Requests : x # r => status'[x] = status[x]
    BY <1>0, <1>1, FinishTables, TablesTyped DEF R!Active
<1>3. /\ \A v \in Workers \ {w} : at'[v] = at[v] /\ mem'[v] = mem[v]
      /\ at'[w] \in {"off", "next"} /\ mem'[w].claim = None
    BY <1>0 DEF Move, Step, Goto, Well, Blank, WInv, TypeOK
<1>4. Placed'
    <2>1. ASSUME NEW c \in Claims \ {None}, Holds(c)' PROVE Holds(c)
        BY <1>2, <2>1, ClaimParts DEF Holds, IsCurrent, StatusOf, R!Held
    <2>2. \A x \in Requests : queue'[x] = queue[x] /\ mem'[x].claim \in {mem[x].claim, None}
        BY <1>0, <1>3 DEF Workers
    <2> QED BY <1>0, <2>1, <2>2, PlacedKept
<1>5. DoneIsLeft'
    <2> SUFFICES ASSUME NEW c \in Claims \ {None}, token'[c[1]][c[2]] = c[3], row'[c[1]][c[2]] = "done",
                        status'[c[1]] \notin R!Closed
                 PROVE  /\ \A v \in Workers : mem'[v].claim = c => at'[v] \in {"mark", "premark"}
                        /\ queue'[c[1]] # c
                        /\ ~(poll'.step = "dispatch" /\ poll'.claim = c)
        BY DEF DoneIsLeft, IsCurrent, StatusOf
    <2>1. c[1] \in Requests /\ c[2] \in R!Chunks /\ c = <<c[1], c[2], c[3]>>
        BY ClaimParts
    <2>2. CASE c[1] = r /\ c[2] = q
        <3>1. c = mem[w].claim /\ IsCurrent(c)
            BY <1>0, <1>1, <1>2, <2>1, <2>2 DEF IsCurrent
        <3>2. ASSUME NEW v \in Workers, mem'[v].claim = c PROVE FALSE
            BY <1>0, <1>3, <3>1, <3>2, HoldersApart
        <3>3. queue[c[1]] # c /\ ~(poll.step = "dispatch" /\ poll.claim = c)
            <4>1. CASE w \in Requests
                <5>1. c[1] = w
                    BY <1>0, <3>1, <4>1, WorkerHas DEF WorkerFits, IsRun
                <5> QED BY <3>1, <4>1, <5>1 DEF AInv, Settled, Placed
            <4>2. CASE w \in Snaps
                <5>1. HeldBy(w, c) /\ w \in Parties /\ w # "poller"
                    BY <3>1, <4>2, ActorsAssumption DEF HeldBy, Parties
                <5>2. ~HeldBy("poller", c)
                    BY <1>0, <3>1, <5>1 DEF WInv, ClaimsApart, Parties
                <5> QED BY <5>2 DEF HeldBy
            <4> QED BY <4>1, <4>2 DEF Workers
        <3> QED BY <1>0, <3>2, <3>3
    <2>3. CASE ~(c[1] = r /\ c[2] = q)
        <3>1. DoneAlready(c)
            <4>1. row[c[1]][c[2]] = "done"
                BY <1>2, <2>1, <2>3
            <4>2. status[c[1]] \notin R!Closed
                <5>1. CASE c[1] = r
                    <6>1. token[r][q] > 0
                        <7>1. WInv /\ row[r][q] \in R!Held
                            BY <1>0, <1>2
                        <7>2. token[r][q] \in 1..MaxToken
                            BY <7>1, HeldHasToken
                        <7> QED BY <7>2, Bounds
                    <6>2. status[r] \in RP!Live
                        BY <1>0, <1>2, <6>1 DEF WInv, RP!IInv, RP!HeldRowsAreLive, RP!Chunks, R!Chunks, RP!Active,
                                                RP!Held, R!Active, R!Held
                    <6> QED BY <5>1, <6>2 DEF RP!Live, R!Closed, R!NotRunnable
                <5>2. CASE c[1] # r
                    BY <1>2, <2>1, <5>2
                <5> QED BY <5>1, <5>2
            <4> QED BY <1>2, <2>1, <4>1, <4>2 DEF DoneAlready, IsCurrent, StatusOf
        <3>2. \A v \in Workers :
                  \/ at'[v] \in {"mark", "premark"} \/ mem'[v].claim = None
                  \/ mem'[v].claim = mem[v].claim /\ at[v] \notin {"mark", "premark"}
            BY <1>3
        <3>3. \A x \in Requests : queue'[x] \in {queue[x], None}
            BY <1>0
        <3> QED BY <1>0, <3>1, <3>2, <3>3, DoneKept
    <2> QED BY <2>2, <2>3
<1>6. Late' \subseteq Late
    <2> SUFFICES ASSUME NEW v \in Workers, at'[v] = "write", ~Beats(v)'
                 PROVE  v \in Late
        BY DEF Late
    <2>1. v # w /\ at[v] = "write" /\ mem'[v] = mem[v] /\ mem[v].claim \in Claims /\ mem[v].claim # None
          /\ TokenReached(mem[v].claim)
        BY <1>3, <1>0, WorkerHas DEF WorkerFits, Resting
    <2>2. PICK c \in Claims \ {None} : c = mem[v].claim /\ c = mem'[v].claim /\ TokenReached(c)
        BY <2>1
    <2>3. ~BeatOk(c)'
        BY <2>2 DEF Beats, BeatOk, IsCurrent, StatusOf
    <2>4. ~BeatOk(c)
        <3>0. c[1] \in Requests /\ c[2] \in R!Chunks /\ c[3] \in Nat /\ c[3] > 0 /\ c = <<c[1], c[2], c[3]>>
            BY ClaimParts, Bounds
        <3>1. CASE c[1] = r /\ c[2] = q
            <4>1. ~IsCurrent(c)
                BY <1>0, <1>1, <2>1, <2>2, <3>0, <3>1, HoldersApart DEF IsCurrent
            <4> QED BY <4>1 DEF BeatOk
        <3>2. CASE row'[c[1]][c[2]] = row[c[1]][c[2]]
            BY <1>2, <2>3, <3>0, <3>2 DEF BeatOk, IsCurrent, StatusOf
        <3>3. CASE row[c[1]][c[2]] = "none"
            BY <3>3 DEF BeatOk, StatusOf, R!Held
        <3> QED BY <1>2, <3>0, <3>1, <3>2, <3>3
    <2> QED BY <2>1, <2>2, <2>4 DEF Late, Beats
<1>7. ASSUME NEW x \in Requests, NEW p \in R!Chunks, Spent(x, p)' PROVE FALSE
    <2>1. /\ token[x][p] > 0 /\ row'[x][p] \in R!Active
        BY <1>2, <1>7 DEF Spent, R!Active
    <2>2. token[x][p] # 0 /\ row'[x][p] # "done"
        BY <1>0, <2>1, BudgetTyped DEF R!Active, R!Held
    <2>3. ~(x = r /\ p = q)
        BY <1>2, <2>2
    <2>4. row'[x][p] = row[x][p]
        BY <1>2, <2>2, <2>3
    <2>5. row[x][p] # "none" /\ row[x][p] # "done"
        BY <2>1, <2>4 DEF R!Active, R!Held
    <2> QED BY <1>0, <1>2, <2>3, <2>5, OpenAlone DEF AInv
<1>8. Accounted'
    <2>1. \A x \in Requests, p \in R!Chunks : token'[x][p] = token[x][p]
        BY <1>2
    <2>2. faults' >= faults /\ dailies' >= dailies
        BY <1>0, BudgetTyped
    <2> QED BY <1>6, <1>7, <2>1, <2>2, FewerLate, Balanced
<1> QED BY <1>4, <1>5, <1>8 DEF Settled

LEMMA RunRequestSettled ==
    ASSUME AInv, WInv', NEW w \in Workers, RunRequest(w)
    PROVE  Settled'
<1>1. CASE series' # series
    <2>1. WriteDate(w)
        BY <1>1 DEF RunRequest, FirstBeat, LoadRequest, LoadSeries, PlanDate, Reread, CountDate, Finish, FailRow
    <2> QED BY <1>1, <2>1, WriteSettled
<1> QED BY <1>1, CallsSettled, FailSettled, FinishSettled

-----------------------------------------------------------------------------
(* A step of a seed job that takes no row.                                 *)
LEMMA SnapSettled ==
    ASSUME AInv, WInv', TablesSteady, NEW s \in Snaps,
           \A v \in Workers \ {s} : at'[v] = at[v] /\ mem'[v] = mem[v],
           \A t \in Snaps \ {s} : given'[t] = given[t],
           queue' = queue, poll' = poll, series' = series, faults' = faults, dailies' = dailies,
           at'[s] \notin {"fail", "day", "write", "count"},
           at'[s] \in {"mark", "premark"} \/ mem'[s].claim = None \/ Holds(mem'[s].claim),
           \A c \in Claims \ {None} :
              Holds(c) /\ (mem[s].claim = c \/ (at[s] = "seed" /\ given[s].claim = c)) =>
                  mem'[s].claim = c \/ (at'[s] = "seed" /\ given'[s].claim = c)
    PROVE  Settled'
<1>0. WInv /\ s \in Workers /\ s \notin Requests
    BY SnapHas DEF AInv, IsRun
<1>1. \A r \in Requests : queue'[r] = queue[r] /\ mem'[r] = mem[r]
    BY <1>0 DEF Workers
<1>2. Placed'
    <2>1. \A r \in Requests : queue'[r] = queue[r] /\ mem'[r].claim \in {mem[r].claim, None}
        BY <1>1
    <2> QED BY <2>1, SteadyFade, PlacedKept
<1>3. DoneIsLeft'
    <2>1. ASSUME NEW v \in Workers
          PROVE  \/ at'[v] \in {"mark", "premark"} \/ mem'[v].claim = None \/ Holds(mem'[v].claim)
                 \/ mem'[v].claim = mem[v].claim /\ at[v] \notin {"mark", "premark"}
        <3>1. CASE v # s /\ at[v] \in {"mark", "premark"}
            BY <3>1
        <3> QED BY <3>1
    <2>2. \A r \in Requests : queue'[r] \in {queue[r], None}
        OBVIOUS
    <2>3. \A v \in Workers :
              \/ at'[v] \in {"mark", "premark"} \/ mem'[v].claim = None \/ Holds(mem'[v].claim)
              \/ mem'[v].claim = mem[v].claim /\ at[v] \notin {"mark", "premark"}
        BY <2>1
    <2> QED BY <2>2, <2>3, DoneSteady
<1>4. Late' \subseteq Late
    BY <1>0, LateSteady
<1>5. HandsStay
    <2> SUFFICES ASSUME NEW e \in Claims \ {None}, Holds(e), status[e[1]] \notin R!Closed, GoodHands(e)
                 PROVE  GoodHands(e)'
        BY DEF HandsStay
    <2>1. \/ mem[s].claim = e
          \/ s \in Snaps /\ at[s] = "seed" /\ given[s].claim = e
          \/ s \in Requests /\ queue[s] = e
          => Carried(e)'
        BY <1>0 DEF Carried
    <2> QED BY <1>0, <2>1, HandsKept
<1> QED BY <1>0, <1>2, <1>3, <1>4, <1>5, AccountSteady DEF Settled

LEMMA SeedMoves ==
    ASSUME WInv, NEW s \in Snaps, NEW l, NEW m, Step(s, l, m)
    PROVE  /\ \A v \in Workers \ {s} : at'[v] = at[v] /\ mem'[v] = mem[v]
           /\ at'[s] = l /\ mem'[s] = (IF l \in {"off", "ended", "next"} THEN Blank ELSE m)
           /\ s \in Workers /\ None = Blank.claim
<1> DEFINE b == IF l \in {"off", "ended", "next"} THEN Blank ELSE m
<1>1. at' = [at EXCEPT ![s] = l] /\ mem' = [mem EXCEPT ![s] = b] /\ s \in Workers
      /\ at \in [Workers -> Places] /\ mem \in [Workers -> Memory]
    BY SnapHas DEF Step, Goto, WInv, TypeOK
<1> HIDE DEF b
<1>2. \A v \in Workers \ {s} : at'[v] = at[v] /\ mem'[v] = mem[v]
    BY <1>1
<1>3. at'[s] = l /\ mem'[s] = b
    BY <1>1
<1> QED BY <1>1, <1>2, <1>3 DEF b, Blank

LEMMA SeedJobSettled ==
    ASSUME AInv, WInv', NEW s \in Snaps, SeedJob(s),
           ~(PreclaimTake(s) /\ TakeOne(s, "premark")), ~(DrainTake(s) /\ TakeOne(s, "mark"))
    PROVE  Settled'
<1>0. WInv /\ s \in Workers /\ mem[s].claim \in Claims /\ (at[s] \in Resting <=> mem[s].claim = None)
    BY SnapHas, WorkerHas DEF AInv, WorkerFits
<1>1. \A c : Holding(c).claim = c
    BY DEF Holding, Blank
<1>2. CASE Preclaim(s)
    <2>1. /\ UNCHANGED tables /\ given' = given /\ queue' = queue /\ poll' = poll /\ series' = series
          /\ faults' = faults /\ dailies' = dailies /\ at[s] = "preclaim" /\ mem[s].claim = None
        BY <1>0, <1>2 DEF Preclaim, polling, budget, Resting
    <2>2. Resume(s, given[s].req, "premark") \/ Move(s, "seed") \/ Move(s, "pretake")
        BY <1>2 DEF Preclaim
    <2>3. \/ \E m : Step(s, "premark", m)
          \/ \E l \in {"seed", "pretake"} : Step(s, l, mem[s])
        BY <2>2, Zenon DEF Resume, Move
    <2>4. /\ \A v \in Workers \ {s} : at'[v] = at[v] /\ mem'[v] = mem[v]
          /\ at'[s] = "premark" \/ (at'[s] \in {"seed", "pretake"} /\ mem'[s] = mem[s])
        BY <1>0, <2>3, SeedMoves
    <2> QED BY <2>1, <2>4, StillSteady, SnapSettled
<1>3. CASE PreclaimTake(s)
    <2>1. /\ UNCHANGED tables /\ given' = given /\ queue' = queue /\ poll' = poll /\ series' = series
          /\ faults' = faults /\ dailies' = dailies /\ at[s] = "pretake" /\ mem[s].claim = None
          /\ Step(s, "ended", mem[s])
        BY <1>0, <1>3 DEF PreclaimTake, TakeNone, polling, budget, Resting, Move
    <2>2. /\ \A v \in Workers \ {s} : at'[v] = at[v] /\ mem'[v] = mem[v]
          /\ at'[s] = "ended" /\ mem'[s].claim = None
        BY <1>0, <2>1, SeedMoves
    <2> QED BY <2>1, <2>2, StillSteady, SnapSettled
<1>4. CASE PreclaimMark(s)
    <2> DEFINE c == mem[s].claim
               x == IF Holds(c) THEN c ELSE None
               l == IF Holds(c) \/ ~IsCurrent(c) THEN "seed" ELSE "ended"
    <2>1. /\ MarkRow(c) /\ queue' = queue /\ poll' = poll /\ series' = series /\ c # None
          /\ faults' = faults /\ dailies' = dailies /\ at[s] = "premark" /\ Step(s, l, Blank)
          /\ given' = [given EXCEPT ![s].claim = x]
        BY <1>0, <1>4 DEF PreclaimMark, polling, budget, Resting
    <2>2. given'[s].claim = x /\ \A t \in Snaps \ {s} : given'[t] = given[t]
        <3> HIDE DEF x
        <3> QED BY <1>0, <2>1 DEF WInv, TypeOK
    <2>3. /\ \A v \in Workers \ {s} : at'[v] = at[v] /\ mem'[v] = mem[v]
          /\ at'[s] = l /\ mem'[s].claim = None
        BY <1>0, <2>1, SeedMoves
    <2>4. TablesSteady
        BY <1>0, <2>1, MarkSteady
    <2> QED BY <2>1, <2>2, <2>3, <2>4, SnapSettled
<1>5. CASE Seed(s)
    <2> DEFINE c == given[s].claim
               l == IF c = None THEN "take" ELSE "mark"
    <2>1. /\ UNCHANGED tables /\ given' = given /\ queue' = queue /\ poll' = poll /\ series' = series
          /\ faults' = faults /\ dailies' = dailies /\ at[s] = "seed" /\ mem[s].claim = None
          /\ Step(s, l, Holding(c))
        BY <1>0, <1>5 DEF Seed, polling, budget, Resting
    <2>2. /\ \A v \in Workers \ {s} : at'[v] = at[v] /\ mem'[v] = mem[v]
          /\ at'[s] = l /\ mem'[s].claim = c
        BY <1>0, <1>1, <2>1, SeedMoves
    <2> QED BY <2>1, <2>2, StillSteady, SnapSettled
<1>6. CASE DrainTake(s)
    <2>1. /\ UNCHANGED tables /\ given' = given /\ queue' = queue /\ poll' = poll /\ series' = series
          /\ faults' = faults /\ dailies' = dailies /\ at[s] \in {"take", "again"} /\ mem[s].claim = None
        BY <1>0, <1>6 DEF DrainTake, TakeNone, polling, budget, Resting
    <2>2. \E l \in {"look", "ended"} : Step(s, l, mem[s])
        BY <1>6 DEF DrainTake, TakeNone, Move
    <2>3. /\ \A v \in Workers \ {s} : at'[v] = at[v] /\ mem'[v] = mem[v]
          /\ at'[s] \in {"look", "ended"} /\ mem'[s].claim = None
        BY <1>0, <2>1, <2>2, SeedMoves
    <2> QED BY <2>1, <2>3, StillSteady, SnapSettled
<1>7. CASE DrainLook(s)
    <2>1. /\ UNCHANGED tables /\ given' = given /\ queue' = queue /\ poll' = poll /\ series' = series
          /\ faults' = faults /\ dailies' = dailies /\ at[s] = "look" /\ mem[s].claim = None
        BY <1>0, <1>7 DEF DrainLook, polling, budget, Resting
    <2>2. Resume(s, given[s].req, "mark") \/ Move(s, "ended")
        BY <1>7 DEF DrainLook
    <2>3. (\E m : Step(s, "mark", m)) \/ Step(s, "ended", mem[s])
        BY <2>2, Zenon DEF Resume, Move
    <2>4. /\ \A v \in Workers \ {s} : at'[v] = at[v] /\ mem'[v] = mem[v]
          /\ at'[s] = "mark" \/ (at'[s] = "ended" /\ mem'[s].claim = None)
        BY <1>0, <2>3, SeedMoves
    <2> QED BY <2>1, <2>4, StillSteady, SnapSettled
<1>8. CASE DrainMark(s)
    <2> DEFINE c == mem[s].claim
               l == IF Holds(c) THEN "beat" ELSE "ended"
    <2>1. /\ MarkRow(c) /\ queue' = queue /\ poll' = poll /\ series' = series /\ given' = given
          /\ faults' = faults /\ dailies' = dailies /\ at[s] = "mark" /\ Step(s, l, mem[s]) /\ c # None
        BY <1>0, <1>8 DEF DrainMark, polling, budget, Resting, Move
    <2>2. /\ \A v \in Workers \ {s} : at'[v] = at[v] /\ mem'[v] = mem[v]
          /\ at'[s] = l /\ mem'[s].claim = IF Holds(c) THEN c ELSE None
        BY <1>0, <2>1, SeedMoves
    <2>3. TablesSteady
        BY <1>0, <2>1, MarkSteady
    <2> QED BY <2>1, <2>2, <2>3, SnapSettled
<1>9. CASE DrainNext(s)
    <2>1. /\ UNCHANGED tables /\ given' = given /\ queue' = queue /\ poll' = poll /\ series' = series
          /\ faults' = faults /\ dailies' = dailies /\ at[s] = "next" /\ mem[s].claim = None
          /\ \E l \in {"ended", "again"} : Step(s, l, mem[s])
        BY <1>0, <1>9 DEF DrainNext, polling, budget, Resting, Move
    <2>2. /\ \A v \in Workers \ {s} : at'[v] = at[v] /\ mem'[v] = mem[v]
          /\ at'[s] \in {"ended", "again"} /\ mem'[s].claim = None
        BY <1>0, <2>1, SeedMoves
    <2> QED BY <2>1, <2>2, StillSteady, SnapSettled
<1> QED BY <1>2, <1>3, <1>4, <1>5, <1>6, <1>7, <1>8, <1>9 DEF SeedJob

(* The run of a group starts with the claim that waited.                   *)
LEMMA StartRunSettled ==
    ASSUME AInv, WInv', NEW r \in Requests, StartRun(r)
    PROVE  Settled'
<1> DEFINE c == queue[r]
<1>0. WInv /\ r \in Workers /\ c \in Claims \ {None} /\ c[1] = r /\ mem[r].claim = None /\ at[r] = "off"
    BY WorkerHas, HandsFitsQueue DEF AInv, WorkerFits, StartRun, Resting, Workers
<1>1. /\ UNCHANGED tables /\ given' = given /\ poll' = poll /\ series' = series
      /\ faults' = faults /\ dailies' = dailies
      /\ at' = [at EXCEPT ![r] = "beat"] /\ mem' = [mem EXCEPT ![r] = Holding(c)]
      /\ queue' = [queue EXCEPT ![r] = None] /\ Holding(c).claim = c
    BY DEF StartRun, Step, Goto, budget, Holding, Blank
<1>2. /\ \A v \in Workers \ {r} : at'[v] = at[v] /\ mem'[v] = mem[v]
      /\ at'[r] = "beat" /\ mem'[r].claim = c
      /\ queue'[r] = None /\ \A x \in Requests \ {r} : queue'[x] = queue[x]
    BY <1>0, <1>1 DEF WInv, TypeOK
<1>3. TablesSteady
    BY <1>1, StillSteady
<1> DEFINE p == poll.claim
<1>4. ASSUME poll.step = "dispatch"
      PROVE  /\ p \in Claims \ {None} /\ p[1] \in Requests
             /\ queue[p[1]] # p /\ mem[p[1]].claim # p
             /\ queue[p[1]] # None => ~Holds(queue[p[1]])
    BY <1>4, ClaimParts DEF AInv, WInv, TypeOK, Settled, Placed
<1>5. ASSUME poll.step = "dispatch", queue'[p[1]] # None
      PROVE  ~Holds(queue[p[1]])'
    <2>1. PICK e : e = queue[p[1]] /\ e = queue'[p[1]] /\ e # None /\ e \in Claims /\ ~Holds(e)
        <3>1. p[1] \in Requests \ {r}
            BY <1>2, <1>4, <1>5
        <3>2. queue'[p[1]] = queue[p[1]] /\ queue[p[1]] \in Claims
            BY <1>0, <1>2, <3>1 DEF WInv, TypeOK
        <3> QED BY <1>4, <1>5, <3>2
    <2>2. ~Holds(e)'
        BY <1>3, <2>1, SteadyClaims
    <2> QED BY <1>1, <2>1, <2>2 DEF Holds, IsCurrent, StatusOf
<1>6. Placed'
    <2>1. ASSUME poll'.step = "dispatch"
          PROVE  queue'[p[1]] # p /\ mem'[p[1]].claim # p
        <3>1. CASE p[1] = r
            BY <1>0, <1>1, <1>2, <1>4, <2>1, <3>1
        <3>2. CASE p[1] # r
            <4>1. p[1] \in Requests \ {r} /\ p[1] \in Workers \ {r}
                BY <1>1, <1>4, <2>1, <3>2 DEF Workers
            <4> QED BY <1>1, <1>2, <1>4, <2>1, <4>1
        <3> QED BY <3>1, <3>2
    <2>2. ASSUME NEW x \in Requests, queue'[x] # None
          PROVE  mem'[x].claim # queue'[x]
        <3>1. x \in Requests \ {r} /\ x \in Workers \ {r}
            BY <1>2, <2>2 DEF Workers
        <3> QED BY <1>2, <2>2, <3>1 DEF AInv, Settled, Placed
    <2>3. poll'.claim = p /\ poll'.step = poll.step
        BY <1>1
    <2> QED BY <1>5, <2>1, <2>2, <2>3 DEF Placed
<1>7. DoneIsLeft'
    <2> SUFFICES ASSUME NEW e \in Claims \ {None}, token'[e[1]][e[2]] = e[3], row'[e[1]][e[2]] = "done",
                        status'[e[1]] \notin R!Closed
                 PROVE  /\ \A v \in Workers : mem'[v].claim = e => at'[v] \in {"mark", "premark"}
                        /\ queue'[e[1]] # e
                        /\ ~(poll'.step = "dispatch" /\ poll'.claim = e)
        BY DEF DoneIsLeft, IsCurrent, StatusOf
    <2>1. IsCurrent(e) /\ StatusOf(e) = "done" /\ status[e[1]] \notin R!Closed /\ e[1] \in Requests
        BY <1>1, ClaimParts DEF tables, IsCurrent, StatusOf
    <2>2. /\ \A v \in Workers : mem[v].claim = e => at[v] \in {"mark", "premark"}
          /\ queue[e[1]] # e /\ ~(poll.step = "dispatch" /\ poll.claim = e)
        BY <2>1 DEF AInv, Settled, DoneIsLeft
    <2>3. e # c
        BY <1>0, <2>2
    <2> QED BY <1>0, <1>1, <1>2, <2>1, <2>2, <2>3
<1>8. Late' \subseteq Late
    BY <1>0, <1>2, <1>3, LateSteady
<1>9. HandsStay
    <2> SUFFICES ASSUME NEW e \in Claims \ {None}, Holds(e), status[e[1]] \notin R!Closed, GoodHands(e)
                 PROVE  GoodHands(e)'
        BY DEF HandsStay
    <2>1. \/ mem[r].claim = e
          \/ r \in Snaps /\ at[r] = "seed" /\ given[r].claim = e
          \/ r \in Requests /\ queue[r] = e
          => Carried(e)'
        BY <1>0, <1>2 DEF Carried
    <2>2. mem'[r].claim = e => at'[r] # "fail" /\ (at'[r] \in {"day", "write", "count"} => PriorIsRead(mem'[r]))
        BY <1>2
    <2>3. /\ \A s \in Snaps \ {r} : given'[s] = given[s]
          /\ \A x \in Requests \ {r} : queue'[x] = queue[x]
        BY <1>1, <1>2
    <2> QED BY <1>0, <1>1, <1>2, <2>1, <2>2, <2>3, HandsKept
<1> QED BY <1>0, <1>1, <1>3, <1>6, <1>7, <1>8, <1>9, AccountSteady DEF Settled

-----------------------------------------------------------------------------
(* The poller's hands, once it has its claim, and the faults.              *)
LEMMA SamePlaces ==
    ASSUME AInv, TablesSteady, at' = at, mem' = mem
    PROVE  Late' \subseteq Late
<1> SUFFICES ASSUME NEW v \in Workers, at'[v] = "write", ~Beats(v)'
             PROVE  v \in Late
    BY DEF Late
<1>1. mem'[v].claim = mem[v].claim /\ mem[v].claim # None /\ mem[v].claim \in Claims /\ at[v] = "write"
    BY WorkerHas DEF AInv, WorkerFits, Resting
<1>2. BeatOk(mem[v].claim)' <=> BeatOk(mem[v].claim)
    BY <1>1, SteadyClaims
<1> QED BY <1>1, <1>2 DEF Late, Beats, BeatOk, IsCurrent, StatusOf

LEMMA SameDone ==
    ASSUME AInv, TablesSteady, poll' = poll \/ poll'.step # "dispatch", queue' = queue, at' = at, mem' = mem
    PROVE  DoneIsLeft'
<1>1. \A r \in Requests : queue'[r] \in {queue[r], None}
    OBVIOUS
<1>2. \A v \in Workers :
          \/ at'[v] \in {"mark", "premark"} \/ mem'[v].claim = None \/ Holds(mem'[v].claim)
          \/ mem'[v].claim = mem[v].claim /\ at[v] \notin {"mark", "premark"}
    OBVIOUS
<1> QED BY <1>1, <1>2, DoneSteady

LEMMA SamePlaced ==
    ASSUME AInv, TablesSteady, poll' = poll \/ poll'.step # "dispatch", queue' = queue, mem' = mem
    PROVE  Placed'
<1>1. CASE poll' = poll
    BY <1>1, SteadyFade, PlacedKept
<1>2. CASE poll'.step # "dispatch"
    BY <1>2 DEF AInv, Settled, Placed
<1> QED BY <1>1, <1>2

LEMMA QuietSettled ==
    ASSUME AInv, WInv', TablesSteady, poll' = poll \/ (poll.step # "dispatch" /\ poll'.step # "dispatch"),
           queue' = queue, at' = at, mem' = mem, given' = given, series' = series, faults' = faults, dailies' = dailies
    PROVE  Settled'
<1>1. HandsStay
    BY DEF HandsStay, GoodHands, Carried, Outdated, PriorIsRead
<1> QED BY <1>1, SamePlaces, SameDone, SamePlaced, AccountSteady DEF Settled

LEMMA DispatchSettled ==
    ASSUME AInv, WInv', PollDispatch
    PROVE  Settled'
<1> DEFINE c == poll.claim
<1>0. /\ poll.step = "dispatch" /\ UNCHANGED tables /\ at' = at /\ mem' = mem /\ given' = given /\ series' = series
      /\ faults' = faults /\ dailies' = dailies /\ queue' = [queue EXCEPT ![c[1]] = c]
      /\ poll' = [poll EXCEPT !.step = "mark"]
    BY DEF PollDispatch, work, budget
<1>1. c \in Claims \ {None} /\ c[1] \in Requests /\ poll'.claim = c /\ poll'.step = "mark"
    BY <1>0, ClaimParts DEF AInv, WInv, TypeOK
<1>2. queue'[c[1]] = c /\ \A r \in Requests : r # c[1] => queue'[r] = queue[r]
    BY <1>0, <1>1 DEF AInv, WInv, TypeOK
<1>3. /\ queue[c[1]] # c /\ mem[c[1]].claim # c
      /\ queue[c[1]] # None => ~Holds(queue[c[1]])
      /\ \A r \in Requests : queue[r] # None => mem[r].claim # queue[r]
    BY <1>0 DEF AInv, Settled, Placed
<1>4. TablesSteady
    BY <1>0, StillSteady
<1>5. Placed'
    <2>1. ASSUME NEW r \in Requests, queue'[r] # None PROVE mem'[r].claim # queue'[r]
        <3>1. CASE r = c[1]
            BY <1>0, <1>2, <1>3, <3>1
        <3>2. CASE r # c[1]
            BY <1>0, <1>2, <1>3, <2>1, <3>2
        <3> QED BY <3>1, <3>2
    <2> QED BY <1>1, <2>1 DEF Placed
<1>6. DoneIsLeft'
    <2> SUFFICES ASSUME NEW e \in Claims \ {None}, token'[e[1]][e[2]] = e[3], row'[e[1]][e[2]] = "done",
                        status'[e[1]] \notin R!Closed
                 PROVE  /\ \A v \in Workers : mem'[v].claim = e => at'[v] \in {"mark", "premark"}
                        /\ queue'[e[1]] # e
                        /\ ~(poll'.step = "dispatch" /\ poll'.claim = e)
        BY DEF DoneIsLeft, IsCurrent, StatusOf
    <2>1. IsCurrent(e) /\ StatusOf(e) = "done" /\ status[e[1]] \notin R!Closed /\ e[1] \in Requests
        BY <1>0, ClaimParts DEF tables, IsCurrent, StatusOf
    <2>2. /\ \A v \in Workers : mem[v].claim = e => at[v] \in {"mark", "premark"}
          /\ queue[e[1]] # e /\ e # c
        BY <1>0, <2>1 DEF AInv, Settled, DoneIsLeft
    <2>3. queue'[e[1]] # e
        <3>1. CASE e[1] = c[1]
            BY <1>2, <2>2, <3>1
        <3>2. CASE e[1] # c[1]
            BY <1>2, <2>1, <2>2, <3>2
        <3> QED BY <3>1, <3>2
    <2> QED BY <1>0, <1>1, <2>2, <2>3
<1>7. HandsStay
    <2> SUFFICES ASSUME NEW e \in Claims \ {None}, Holds(e), status[e[1]] \notin R!Closed, GoodHands(e)
                 PROVE  GoodHands(e)'
        BY DEF HandsStay
    <2>1. e[1] \in Requests
        BY ClaimParts
    <2>2. Carried(e)'
        <3>1. CASE queue[e[1]] = e
            <4>1. e[1] # c[1]
                BY <1>3, <3>1
            <4> QED BY <1>2, <2>1, <3>1, <4>1 DEF Carried
        <3>2. CASE e = c
            BY <1>2, <3>2 DEF Carried
        <3> QED BY <1>0, <3>1, <3>2 DEF GoodHands, Carried
    <2> QED BY <1>0, <2>2 DEF GoodHands, Outdated, PriorIsRead
<1> QED BY <1>0, <1>4, <1>5, <1>6, <1>7, SamePlaces, AccountSteady DEF Settled

LEMMA PollMarkSettled ==
    ASSUME AInv, WInv', PollMark
    PROVE  Settled'
<1>1. /\ poll.step = "mark" /\ MarkRow(poll.claim) /\ poll'.step = "idle" /\ queue' = queue
      /\ at' = at /\ mem' = mem /\ given' = given /\ series' = series /\ faults' = faults /\ dailies' = dailies
    BY DEF PollMark, work, budget
<1>2. poll.claim \in Claims /\ poll.claim # None
    BY <1>1 DEF AInv, WInv, TypeOK
<1> QED BY <1>1, <1>2, MarkSteady, QuietSettled DEF AInv

(* What ends a worker or the poller, or sets it back, is paid for.         *)
LEMMA FaultSettled ==
    ASSUME AInv, WInv', PollDies \/ Daily \/ (\E w \in Workers : Break(w)) \/ \E s \in Snaps : SeedReRun(s)
    PROVE  Settled'
<1>0. WInv /\ faults \in Nat /\ dailies \in Nat
    BY BudgetTyped DEF AInv
<1>1. CASE PollDies \/ Daily
    <2>1. /\ UNCHANGED tables /\ queue' = queue /\ at' = at /\ mem' = mem
          /\ poll' = poll \/ poll'.step # "dispatch"
          /\ \/ faults' = faults + 1 /\ dailies' = dailies
             \/ faults' = faults /\ dailies' = dailies + 1
        BY <1>1 DEF PollDies, Daily, work, polling, Fault
    <2> QED BY <2>1, StillSteady, SamePlaces, SameDone, SamePlaced, AccountCharged DEF Settled
<1>2. ASSUME NEW w \in Workers, NEW l, Step(w, l, mem[w]), UNCHANGED tables, poll' = poll, queue' = queue,
             faults' = faults + 1, dailies' = dailies, l # "write",
             l \in {"off", "ended"} \/ at[w] \notin {"mark", "premark"}
      PROVE  Settled'
    <2>1. /\ \A v \in Workers \ {w} : at'[v] = at[v] /\ mem'[v] = mem[v]
          /\ at'[w] = l /\ mem'[w] = (IF l \in {"off", "ended", "next"} THEN Blank ELSE mem[w])
          /\ Blank.claim = None
        BY <1>0, <1>2 DEF Step, Goto, WInv, TypeOK, Blank
    <2>2. TablesSteady
        BY <1>2, StillSteady
    <2>3. \A r \in Requests : queue'[r] = queue[r] /\ mem'[r].claim \in {mem[r].claim, None}
        BY <1>2, <2>1 DEF Workers
    <2>4. Placed'
        BY <1>2, <2>2, <2>3, SteadyFade, PlacedKept
    <2>5. DoneIsLeft'
        <3>1. ASSUME NEW v \in Workers
              PROVE  \/ at'[v] \in {"mark", "premark"} \/ mem'[v].claim = None \/ Holds(mem'[v].claim)
                     \/ mem'[v].claim = mem[v].claim /\ at[v] \notin {"mark", "premark"}
            <4>1. CASE v = w
                BY <1>2, <2>1, <4>1
            <4>2. CASE v # w
                BY <2>1, <4>2
            <4> QED BY <4>1, <4>2
        <3>2. \A r \in Requests : queue'[r] \in {queue[r], None}
            BY <1>2
        <3> QED BY <1>2, <2>2, <3>1, <3>2, DoneSteady
    <2>6. Late' \subseteq Late
        BY <1>0, <1>2, <2>1, <2>2, LateSteady
    <2> QED BY <1>2, <2>2, <2>4, <2>5, <2>6, AccountCharged DEF Settled
<1>3. ASSUME NEW w \in Workers, Break(w)
      PROVE  Settled'
    <2>1. /\ UNCHANGED tables /\ poll' = poll /\ queue' = queue /\ faults' = faults + 1 /\ dailies' = dailies
          /\ \/ Step(w, Off(w), mem[w]) /\ Off(w) \in {"off", "ended"}
             \/ at[w] \notin {"mark", "premark"} /\ Step(w, "fail", mem[w])
        BY <1>3 DEF Break, polling, Fault, Move, Off
    <2> QED BY <1>2, <1>3, <2>1
<1>4. ASSUME NEW s \in Snaps, SeedReRun(s)
      PROVE  Settled'
    <2>1. /\ UNCHANGED tables /\ poll' = poll /\ queue' = queue /\ faults' = faults + 1 /\ dailies' = dailies
          /\ at[s] = "ended" /\ Step(s, "seed", mem[s]) /\ s \in Workers
        BY <1>4 DEF SeedReRun, polling, Fault, Move, Workers
    <2> QED BY <1>2, <2>1
<1> QED BY <1>1, <1>3, <1>4

-----------------------------------------------------------------------------
(* The monthly run: a release that supersedes a request closes it.         *)
LEMMA MonthlyStepSettled ==
    ASSUME AInv, WInv', NEW s \in Snaps, MonthlyStep(s)
    PROVE  Settled'
<1>1. /\ status' = status /\ row' = row /\ token' = token /\ poll' = poll /\ queue' = queue
      /\ at' = at /\ mem' = mem /\ given' = given /\ series' = series /\ faults' = faults /\ dailies' = dailies
    BY DEF MonthlyStep, R!Stage, R!Interrupt, R!MarkOrphan, R!ReRun, R!request, R!outbox, work, polling, budget
<1>2. TablesSteady
    BY <1>1 DEF TablesSteady
<1> QED BY <1>1, <1>2, QuietSettled

(* What a release leaves of a request: rows that somebody has had are done *)
(* only with the request closed.                                           *)
Released ==
    /\ token' = token
    /\ \A x \in Requests : status'[x] \notin R!Closed => status[x] \notin R!Closed
    /\ \A x \in Requests, p \in R!Chunks :
          \/ row'[x][p] = row[x][p]
          \/ row[x][p] = "none" /\ row'[x][p] = "pending" /\ token[x][p] = 0
          \/ row[x][p] \in R!Active /\ row'[x][p] = "done" /\ (token[x][p] > 0 => status'[x] \in R!Closed)

LEMMA CommitReleases ==
    ASSUME WInv, NEW s \in Snaps, NEW d \in Decisions[s], R!Commit(s, d)
    PROVE  Released
<1>1. CASE UNCHANGED <<R!request, R!outbox>>
    BY <1>1 DEF R!request, R!outbox, Released
<1>2. CASE R!CommitWinner(s, d)
    <2>0. /\ row \in [Requests -> [R!Chunks -> R!Active \cup {"done", "none"}]]
          /\ status \in [Requests -> R!Live \cup R!Closed \cup {"none"}]
        BY TablesTyped
    <2>1. token' = token /\ status' = R!StatusAfter(s, d) /\ row' = R!RowsAfter(s, d)
        BY <1>2 DEF R!CommitWinner
    <2>2. ASSUME NEW x \in Requests
          PROVE  /\ status'[x] \notin R!Closed => status[x] \notin R!Closed
                 /\ x \in R!Demoted(s) /\ status[x] \in R!Live => status'[x] \in R!Closed
        <3>1. status'[x] = IF x \in R!Superseded(s) THEN "superseded"
                           ELSE IF x = d.req /\ status[x] = "none"
                                THEN IF d.outcome = "runnable" THEN "dispatch_pending" ELSE d.outcome
                           ELSE status[x]
            BY <2>1 DEF R!StatusAfter
        <3> QED BY <3>1 DEF R!Superseded, R!Closed, R!Live, R!NotRunnable
    <2>3. ASSUME NEW x \in Requests, NEW p \in R!Chunks
          PROVE  \/ row'[x][p] = row[x][p]
                 \/ row[x][p] = "none" /\ row'[x][p] = "pending" /\ token[x][p] = 0
                 \/ row[x][p] \in R!Active /\ row'[x][p] = "done" /\ (token[x][p] > 0 => status'[x] \in R!Closed)
        <3>1. row'[x][p] = CASE x \in R!Demoted(s) /\ row[x][p] \in R!Active -> "done"
                             [] x = d.req /\ p = 0 /\ row[x][p] = "none" /\ d.outcome = "runnable" -> "pending"
                             [] OTHER -> row[x][p]
            BY <2>1 DEF R!RowsAfter
        <3>2. row[x][p] = "none" => token[x][p] = 0
            BY DEF WInv, RP!IInv, RP!TokensFit, RP!Chunks, R!Chunks
        <3>3. row[x][p] \in R!Active /\ token[x][p] > 0 => status[x] \in R!Live
            BY DEF WInv, RP!IInv, RP!HeldRowsAreLive, RP!Chunks, R!Chunks, RP!Active, RP!Held, R!Active, R!Held,
                   RP!Live, R!Live
        <3>4. CASE x \in R!Demoted(s) /\ row[x][p] \in R!Active
            <4>1. row[x][p] # "none"
                BY <3>4 DEF R!Active, R!Held
            <4>2. row'[x][p] = "done"
                BY <3>1, <3>4, <4>1
            <4> QED BY <2>2, <3>3, <3>4, <4>2
        <3>5. CASE ~(x \in R!Demoted(s) /\ row[x][p] \in R!Active)
            BY <3>1, <3>2, <3>5
        <3> QED BY <3>4, <3>5
    <2> QED BY <2>1, <2>2, <2>3 DEF Released
<1>3. \/ UNCHANGED <<R!request, R!outbox>>
      \/ R!CommitWinner(s, d)
    BY DEF R!Commit, R!CommitLoser
<1> QED BY <1>1, <1>2, <1>3

LEMMA CommitSettled ==
    ASSUME AInv, WInv', NEW s \in Snaps, NEW d \in Decisions[s], MonthlyCommit(s, d)
    PROVE  Settled'
<1>0. WInv /\ s \in Workers /\ s \notin Requests /\ at[s] = "ended" /\ mem[s].claim = None
    <2>1. cli[s] = "staged"
        BY DEF MonthlyCommit, R!Commit
    <2>2. at[s] = "ended"
        BY <2>1 DEF AInv, WInv, HandsFit, GivenFits
    <2> QED BY <2>2, SnapHas, WorkerHas DEF AInv, WorkerFits, Resting, IsRun
<1>1. /\ R!Commit(s, d) /\ poll' = poll /\ queue' = queue /\ mem' = mem /\ series' = series
      /\ faults' = faults /\ dailies' = dailies
      /\ at' = at \/ at' = [at EXCEPT ![s] = "preclaim"]
      /\ given' = given \/ given' = [given EXCEPT ![s] = [req |-> d.req, claim |-> None]]
    BY DEF MonthlyCommit, polling, budget, Goto
<1>2. /\ at'[s] \in {"ended", "preclaim"} /\ \A v \in Workers \ {s} : at'[v] = at[v]
      /\ \A t \in Snaps \ {s} : given'[t] = given[t]
    BY <1>0, <1>1 DEF WInv, TypeOK
<1>3. Released
    BY <1>0, <1>1, CommitReleases
<1>4. ASSUME NEW c \in Claims \ {None}
      PROVE  /\ c[1] \in Requests /\ c[2] \in R!Chunks /\ c[3] \in Nat /\ c[3] > 0
             /\ \/ row'[c[1]][c[2]] = row[c[1]][c[2]]
                \/ row[c[1]][c[2]] = "none" /\ row'[c[1]][c[2]] = "pending" /\ token[c[1]][c[2]] = 0
                \/ /\ row[c[1]][c[2]] \in R!Active /\ row'[c[1]][c[2]] = "done"
                   /\ token[c[1]][c[2]] > 0 => status'[c[1]] \in R!Closed
    BY <1>3, ClaimParts, Bounds DEF Released
<1>5. Placed'
    <2>1. ASSUME NEW c \in Claims \ {None}, Holds(c)' PROVE Holds(c)
        BY <1>3, <1>4, <2>1 DEF Holds, IsCurrent, StatusOf, R!Held, Released
    <2>2. \A x \in Requests : queue'[x] = queue[x] /\ mem'[x].claim \in {mem[x].claim, None}
        BY <1>1
    <2> QED BY <1>1, <2>1, <2>2, PlacedKept
<1>6. DoneIsLeft'
    <2>1. ASSUME NEW c \in Claims \ {None} PROVE DoneAlready(c)
        <3> SUFFICES ASSUME token'[c[1]][c[2]] = c[3], row'[c[1]][c[2]] = "done", status'[c[1]] \notin R!Closed
                     PROVE  IsCurrent(c) /\ StatusOf(c) = "done" /\ status[c[1]] \notin R!Closed
            BY DEF DoneAlready
        <3>1. token[c[1]][c[2]] = c[3] /\ status[c[1]] \notin R!Closed /\ token[c[1]][c[2]] > 0
            BY <1>3, <1>4 DEF Released
        <3> QED BY <1>4, <3>1 DEF IsCurrent, StatusOf
    <2>2. ASSUME NEW v \in Workers
          PROVE  \/ at'[v] \in {"mark", "premark"} \/ mem'[v].claim = None
                 \/ mem'[v].claim = mem[v].claim /\ at[v] \notin {"mark", "premark"}
        BY <1>0, <1>1, <1>2
    <2>3. \A x \in Requests : queue'[x] \in {queue[x], None}
        BY <1>1
    <2> QED BY <1>1, <2>1, <2>2, <2>3, DoneKept DEF DoneIsLeft, IsCurrent, StatusOf
<1>7. Late' \subseteq Late
    <2> SUFFICES ASSUME NEW v \in Workers, at'[v] = "write", ~Beats(v)'
                 PROVE  v \in Late
        BY DEF Late
    <2>1. v # s /\ at[v] = "write" /\ mem'[v] = mem[v] /\ mem[v].claim \in Claims /\ mem[v].claim # None
        BY <1>0, <1>1, <1>2, WorkerHas DEF WorkerFits, Resting
    <2>2. PICK c \in Claims \ {None} : c = mem[v].claim /\ c = mem'[v].claim
        BY <2>1
    <2>3. ~BeatOk(c)'
        BY <2>2 DEF Beats, BeatOk, IsCurrent, StatusOf
    <2>4. ~BeatOk(c)
        BY <1>3, <1>4, <2>3 DEF BeatOk, IsCurrent, StatusOf, Released, R!Held
    <2> QED BY <2>1, <2>2, <2>4 DEF Late, Beats
<1>8. ASSUME NEW c \in Claims \ {None}, GoodHands(c) PROVE GoodHands(c)'
    <2>1. \/ mem[s].claim = c
          \/ s \in Snaps /\ at[s] = "seed" /\ given[s].claim = c
          \/ s \in Requests /\ queue[s] = c
          => Carried(c)'
        BY <1>0
    <2>2. mem'[s].claim = c => at'[s] # "fail" /\ (at'[s] \in {"day", "write", "count"} => PriorIsRead(mem'[s]))
        BY <1>0, <1>1
    <2>3. /\ \A v \in Workers \ {s} : at'[v] = at[v] /\ mem'[v] = mem[v]
          /\ \A r \in Requests \ {s} : queue'[r] = queue[r]
        BY <1>1, <1>2
    <2> QED BY <1>0, <1>1, <1>2, <1>8, <2>1, <2>2, <2>3, HandsKept
<1>9. ASSUME NEW x \in Requests, NEW p \in R!Chunks, Spent(x, p)' PROVE Spent(x, p)
    <2>1. /\ token[x][p] > 0 /\ token'[x][p] = token[x][p] /\ status[x] \notin R!Closed
          /\ row'[x][p] \in {"pending", "failed"} \cup R!Held
        BY <1>3, <1>9 DEF Spent, Released
    <2>2. token[x][p] # 0 /\ row'[x][p] # "done"
        BY <1>0, <2>1, BudgetTyped DEF R!Held
    <2>3. row'[x][p] = row[x][p]
        BY <1>3, <2>2 DEF Released
    <2>4. CASE row[x][p] \in {"pending", "failed"}
        BY <2>1, <2>4 DEF Spent
    <2>5. CASE row[x][p] \in R!Held
        <3>1. PICK c \in Claims \ {None} : c = <<x, p, token[x][p]>> /\ c = <<x, p, token'[x][p]>>
            <4>1. token[x][p] \in 1..MaxToken
                BY <1>0, <2>5, HeldHasToken
            <4>2. <<x, p, token[x][p]>> \in Claims \ {None}
                BY <4>1, ActorsAssumption DEF Claims, R!Chunks
            <4> QED BY <2>1, <4>2
        <3>2. ~GoodHands(c)'
            BY <1>9, <2>3, <2>5, <3>1 DEF Spent, CurrentOf, R!Held
        <3>3. ~GoodHands(c)
            BY <1>8, <3>2
        <3> QED BY <2>1, <2>5, <3>1, <3>3 DEF Spent, CurrentOf
    <2> QED BY <2>1, <2>3, <2>4, <2>5
<1>10. Accounted'
    <2>1. \A x \in Requests, p \in R!Chunks : token'[x][p] = token[x][p]
        BY <1>3 DEF Released
    <2>2. faults' >= faults /\ dailies' >= dailies
        BY <1>0, <1>1, BudgetTyped
    <2> QED BY <1>7, <1>9, <2>1, <2>2, FewerLate, Balanced
<1> QED BY <1>5, <1>6, <1>10 DEF Settled

-----------------------------------------------------------------------------
(* A claim: it takes the one row that is open.                             *)
Taken(X, r, q) ==
    /\ status[r] \notin R!Closed /\ status' = status /\ row[r][q] \in R!Active
    /\ X = {} => row[r][q] \in {"pending", "failed"}
    /\ X # {} => row[r][q] \in R!Held
    /\ row'[r][q] = "claimed" /\ token'[r][q] = token[r][q] + 1 /\ token[r][q] \in Nat
    /\ \A x \in Requests, p \in R!Chunks :
          ~(x = r /\ p = q) => row'[x][p] = row[x][p] /\ token'[x][p] = token[x][p]
    /\ dailies' = dailies /\ faults' = faults + (IF X # {} /\ InUse(<<r, q>>) THEN 1 ELSE 0)

LEMMA TakeFacts ==
    ASSUME WInv, OneSeries, RowsDecided, NEW b, NEW X \in SUBSET R!HeldRows, NEW r \in Requests, NEW q \in R!Chunks,
           Take(b, X, <<r, q>>)
    PROVE  Taken(X, r, q)
<1> DEFINE k == <<r, q>>
           J == {j \in X : InUse(j)}
           u == IF X # {} /\ InUse(k) THEN 1 ELSE 0
<1>0. k[1] = r /\ k[2] = q /\ k \in {k} /\ token[r][q] \in Nat
    BY BudgetTyped
<1>1. /\ R!Claimable(r, R!Expired(X)[r][q], token[r][q])
      /\ row' = [x \in Requests |-> [p \in R!Chunks |-> IF <<x, p>> \in {k} THEN "claimed" ELSE R!Expired(X)[x][p]]]
      /\ token' = [x \in Requests |-> [p \in R!Chunks |->
                     IF <<x, p>> \in {k} THEN R!NextToken(token[x][p]) ELSE token[x][p]]]
      /\ status' = status
    BY <1>0 DEF Take, R!ClaimOutbox, R!request
<1>2. \A x \in Requests, p \in R!Chunks : R!Expired(X)[x][p] = IF <<x, p>> \in X THEN "pending" ELSE row[x][p]
    BY DEF R!Expired
<1>3. \A j \in X : j \in Requests \X R!Chunks /\ row[j[1]][j[2]] \in R!Held
    BY DEF R!HeldRows
<1>4. /\ status[r] \notin R!Closed
      /\ row[r][q] \in {"pending", "failed"} \/ k \in X
    BY <1>1, <1>2 DEF R!Claimable
<1>5. row[r][q] \in R!Active
    BY <1>0, <1>3, <1>4 DEF R!Active
<1>6. ASSUME NEW j \in X PROVE j = k
    <2>1. row[j[1]][j[2]] # "none" /\ row[j[1]][j[2]] # "done" /\ j[1] \in Requests /\ j[2] \in R!Chunks
        BY <1>3 DEF R!Held
    <2>2. j[1] = r /\ j[2] = q
        BY <1>5, <2>1, OpenAlone
    <2> QED BY <1>3, <2>2
<1>7. X = {} \/ X = {k}
    BY <1>6
<1>8. row'[r][q] = "claimed" /\ token'[r][q] = token[r][q] + 1
    BY <1>1 DEF R!NextToken
<1>9. ASSUME NEW x \in Requests, NEW p \in R!Chunks, ~(x = r /\ p = q)
      PROVE  row'[x][p] = row[x][p] /\ token'[x][p] = token[x][p]
    <2>1. <<x, p>> \notin {k} /\ <<x, p>> \notin X
        BY <1>6, <1>9
    <2> QED BY <1>1, <1>2, <2>1
<1>10. dailies' = dailies /\ faults' = faults + u
    <2>1. dailies' = dailies /\ faults' = faults + Cardinality(J)
        BY DEF Take, Fault
    <2>2. CASE X # {} /\ InUse(k)
        <3>1. J = {k}
            BY <1>7, <2>2
        <3>2. Cardinality(J) = 1
            BY <3>1, FS_Singleton
        <3> QED BY <2>1, <2>2, <3>2
    <2>3. CASE ~(X # {} /\ InUse(k))
        <3>1. J = {}
            BY <1>7, <2>3
        <3>2. Cardinality(J) = 0
            BY <3>1, FS_EmptySet
        <3> QED BY <2>1, <2>3, <3>2
    <2> QED BY <2>2, <2>3
<1>11. X = {} => row[r][q] \in {"pending", "failed"}
    BY <1>4
<1>12. X # {} => row[r][q] \in R!Held
    BY <1>0, <1>3, <1>7
<1> QED BY <1>0, <1>1, <1>4, <1>5, <1>8, <1>9, <1>10, <1>11, <1>12 DEF Taken

(* Who is late then: who was, and who had the claim that expires.          *)
Robbed(r, q) == {v \in Workers : mem[v].claim = CurrentOf(r, q)}

LEMMA RobbedIsOne ==
    ASSUME WInv, NEW r \in Requests, NEW q \in R!Chunks, row[r][q] \in R!Held
    PROVE  IsFiniteSet(Robbed(r, q)) /\ Cardinality(Robbed(r, q)) <= 1
<1>1. PICK c \in Claims \ {None} : c = CurrentOf(r, q) /\ c[1] = r /\ c[2] = q /\ c[3] = token[r][q]
    <2>1. token[r][q] \in 1..MaxToken
        BY HeldHasToken
    <2>2. <<r, q, token[r][q]>> \in Claims \ {None}
        BY <2>1, ActorsAssumption DEF Claims, R!Chunks
    <2> QED BY <2>2 DEF CurrentOf
<1>2. CASE Robbed(r, q) = {}
    <2>1. IsFiniteSet({}) /\ Cardinality({}) = 0
        BY FS_EmptySet
    <2> QED BY <1>2, <2>1
<1>3. CASE Robbed(r, q) # {}
    <2>1. PICK v \in Workers : mem[v].claim = c
        BY <1>1, <1>3 DEF Robbed
    <2>2. Robbed(r, q) = {v}
        BY <1>1, <2>1, HoldersApart DEF Robbed, IsCurrent
    <2>3. IsFiniteSet({v}) /\ Cardinality({v}) = 1
        BY FS_Singleton
    <2> QED BY <2>2, <2>3
<1> QED BY <1>2, <1>3

(* Hands of a claim: the taker, before at rest, has the new claim.         *)
Handed(g) ==
    /\ \A v \in Workers :
          \/ at'[v] = at[v] /\ mem'[v] = mem[v]
          \/ v \in Snaps /\ mem[v].claim = None /\ at'[v] \in {"mark", "premark"} /\ mem'[v].claim = g
    /\ queue' = queue
    /\ \/ poll' = poll /\ \E v \in Workers : mem'[v].claim = g
       \/ poll' = [claim |-> g, step |-> "dispatch"] /\ poll.claim = None /\ mem' = mem

LEMMA LateTaken ==
    ASSUME WInv, OneSeries, RowsDecided, NEW b, NEW X \in SUBSET R!HeldRows, NEW r \in Requests, NEW q \in R!Chunks,
           Take(b, X, <<r, q>>), NEW g, Handed(g)
    PROVE  Late' \subseteq Late \cup (IF X = {} THEN {} ELSE Robbed(r, q))
<1> SUFFICES ASSUME NEW v \in Workers, at'[v] = "write", ~Beats(v)'
             PROVE  v \in Late \/ (X # {} /\ v \in Robbed(r, q))
    BY DEF Late
<1>1. /\ at[v] = "write" /\ mem'[v] = mem[v] /\ mem[v].claim \in Claims /\ mem[v].claim # None
    BY WorkerHas DEF Handed, WorkerFits, Resting
<1>2. PICK c \in Claims \ {None} : c = mem[v].claim /\ c = mem'[v].claim
    BY <1>1
<1>3. ~BeatOk(c)' /\ c[1] \in Requests /\ c[2] \in R!Chunks /\ c = <<c[1], c[2], c[3]>>
    BY <1>2, ClaimParts DEF Beats, BeatOk, IsCurrent, StatusOf
<1> SUFFICES ASSUME BeatOk(c) PROVE X # {} /\ v \in Robbed(r, q)
    BY <1>1, <1>2 DEF Late, Beats
<1>0. Taken(X, r, q)
    BY TakeFacts
<1>4. c[1] = r /\ c[2] = q
    BY <1>0, <1>3 DEF Taken, BeatOk, IsCurrent, StatusOf
<1>5. c = CurrentOf(r, q)
    BY <1>3, <1>4 DEF BeatOk, IsCurrent, CurrentOf
<1>6. row[r][q] \in R!Held \cup {"done"}
    BY <1>4 DEF BeatOk, StatusOf
<1>7. X # {}
    BY <1>0, <1>6 DEF Taken, R!Held
<1> QED BY <1>2, <1>5, <1>7 DEF Robbed

LEMMA PaidFor ==
    ASSUME NEW c \in Nat, NEW e \in Nat, NEW l \in Nat, NEW k \in Nat, NEW f \in Nat, NEW d \in Nat, NEW u \in {0, 1},
           e <= c + u, k <= l + u, c + l <= 2 * f + d + 1
    PROVE  e + k <= 2 * (f + u) + d + 1
OBVIOUS

(* A claim is paid for by the attempt that was spent before, or, when it   *)
(* takes a row whose claim is in use, by that fault: twice, once for the   *)
(* attempt and once for the worker that is late from now on.               *)
LEMMA TakeAccounted ==
    ASSUME AInv, WInv', NEW b, NEW X \in SUBSET R!HeldRows, NEW r \in Requests, NEW q \in R!Chunks,
           Take(b, X, <<r, q>>), NEW g \in Claims \ {None}, g = <<r, q, token'[r][q]>>, Handed(g), given' = given
    PROVE  Accounted'
<1>0. /\ WInv /\ OneSeries /\ RowsDecided /\ Handed(g)
      /\ status[r] \notin R!Closed /\ status' = status /\ row[r][q] \in R!Active
      /\ X = {} => row[r][q] \in {"pending", "failed"}
      /\ X # {} => row[r][q] \in R!Held
      /\ row'[r][q] = "claimed" /\ token'[r][q] = token[r][q] + 1 /\ token[r][q] \in Nat
      /\ \A x \in Requests, p \in R!Chunks :
            ~(x = r /\ p = q) => row'[x][p] = row[x][p] /\ token'[x][p] = token[x][p]
      /\ dailies' = dailies /\ faults' = faults + (IF X # {} /\ InUse(<<r, q>>) THEN 1 ELSE 0)
    <2>1. Taken(X, r, q)
        BY TakeFacts DEF AInv
    <2> QED BY <2>1 DEF AInv, Taken
<1>1. PICK u \in {0, 1} : u = IF X # {} /\ InUse(<<r, q>>) THEN 1 ELSE 0
    OBVIOUS
<1>2. faults' = faults + u /\ dailies' = dailies /\ faults \in Nat /\ dailies \in Nat
    BY <1>0, <1>1, BudgetTyped
<1>3. X # {} /\ ~InUse(<<r, q>>) => Robbed(r, q) = {} /\ ~Carried(CurrentOf(r, q))
    BY DEF InUse, Robbed, CurrentOf, Carried
<1>4. /\ IsFiniteSet(Late) /\ IsFiniteSet(Late') /\ Cardinality(Late) \in Nat /\ Cardinality(Late') \in Nat
      /\ Cardinality(Late') <= Cardinality(Late) + u
    <2>1. Late' \subseteq Late \cup (IF X = {} THEN {} ELSE Robbed(r, q))
        BY <1>0, LateTaken
    <2>2. IsFiniteSet(Late) /\ Cardinality(Late) \in Nat
        BY FS_CardinalityType DEF AInv, Settled, Accounted
    <2>3. CASE u = 0
        <3>1. Late' \subseteq Late
            BY <1>1, <1>3, <2>1, <2>3
        <3>2. IsFiniteSet(Late') /\ Cardinality(Late') <= Cardinality(Late) /\ Cardinality(Late') \in Nat
            BY <2>2, <3>1, FS_Subset, FS_CardinalityType
        <3> QED BY <2>2, <2>3, <3>2
    <2>4. CASE u = 1
        <3>1. X # {}
            BY <1>1, <2>4
        <3>2. IsFiniteSet(Robbed(r, q)) /\ Cardinality(Robbed(r, q)) <= 1 /\ Cardinality(Robbed(r, q)) \in Nat
            BY <1>0, <3>1, RobbedIsOne, FS_CardinalityType
        <3> DEFINE U == Late \cup Robbed(r, q)
        <3>3. /\ IsFiniteSet(U) /\ IsFiniteSet(Late \cap Robbed(r, q))
              /\ Cardinality(U) = Cardinality(Late) + Cardinality(Robbed(r, q)) - Cardinality(Late \cap Robbed(r, q))
            BY <2>2, <3>2, FS_Union, FS_Intersection
        <3>4. Cardinality(Late \cap Robbed(r, q)) \in Nat /\ Cardinality(U) \in Nat
            BY <3>3, FS_CardinalityType
        <3>5. Late' \subseteq U
            BY <2>1, <3>1
        <3>6. IsFiniteSet(Late') /\ Cardinality(Late') <= Cardinality(U) /\ Cardinality(Late') \in Nat
            BY <3>3, <3>5, FS_Subset, FS_CardinalityType
        <3> QED BY <2>2, <2>4, <3>2, <3>3, <3>4, <3>6
    <2> QED BY <2>3, <2>4
<1>5. GoodHands(g)'
    <2>1. Carried(g)'
        BY <1>0 DEF Handed, Carried
    <2>2. ASSUME NEW v \in Workers, mem'[v].claim = g PROVE at'[v] \in {"mark", "premark"}
        <3>1. TokenReached(mem[v].claim)
            BY <1>0, WorkerHas DEF WorkerFits
        <3>2. mem[v].claim # g
            BY <1>0, <3>1 DEF TokenReached
        <3> QED BY <1>0, <2>2, <3>2 DEF Handed
    <2> QED BY <2>1, <2>2 DEF GoodHands, Outdated
<1>6. ASSUME NEW x \in Requests, NEW p \in R!Chunks
      PROVE  /\ Cost(x, p)' <= Cost(x, p) + u /\ Cost(x, p)' \in Nat /\ Cost(x, p) \in Nat
    <2>1. CASE x = r /\ p = q
        <3>1. ~Spent(x, p)'
            BY <1>0, <1>5, <2>1 DEF Spent, CurrentOf
        <3>2. Cost(x, p)' = token[r][q] + 1
            BY <1>0, <2>1, <3>1 DEF Cost
        <3>3. token[r][q] > 0 /\ u = 0 => Spent(r, q)
            BY <1>0, <1>1, <1>3 DEF Spent, GoodHands
        <3> QED BY <1>0, <2>1, <3>2, <3>3 DEF Cost
    <2>2. CASE ~(x = r /\ p = q)
        <3>1. row'[x][p] = row[x][p] /\ token'[x][p] = token[x][p] /\ token[x][p] \in Nat
            BY <1>0, <2>2, BudgetTyped
        <3>2. row[x][p] = "none" \/ row[x][p] = "done"
            BY <1>0, <2>2, OpenAlone
        <3>3. ~Spent(x, p)'
            BY <3>1, <3>2 DEF Spent, R!Held
        <3> QED BY <3>1, <3>3 DEF Cost
    <2> QED BY <2>1, <2>2
<1> SUFFICES ASSUME NEW x \in Requests, NEW p \in R!Chunks
             PROVE  Cost(x, p)' + Cardinality(Late') <= 2 * faults' + dailies' + 1
    BY <1>4 DEF Accounted
<1>7. Cost(x, p) + Cardinality(Late) <= 2 * faults + dailies + 1
    BY DEF AInv, Settled, Accounted
<1>8. Cost(x, p)' + Cardinality(Late') <= 2 * (faults + u) + dailies + 1
    <2> DEFINE c == Cost(x, p)
               l == Cardinality(Late)
    <2>1. /\ c \in Nat /\ l \in Nat /\ Cost(x, p)' \in Nat /\ Cardinality(Late') \in Nat
          /\ Cost(x, p)' <= c + u /\ Cardinality(Late') <= l + u /\ c + l <= 2 * faults + dailies + 1
        BY <1>4, <1>6, <1>7
    <2> QED BY <1>2, <2>1, PaidFor
<1> QED BY <1>2, <1>8

LEMMA TakeSettled ==
    ASSUME AInv, WInv', NEW b, NEW X \in SUBSET R!HeldRows, NEW r \in Requests, NEW q \in R!Chunks,
           Take(b, X, <<r, q>>), NEW g \in Claims \ {None}, g = <<r, q, token'[r][q]>>, Handed(g), given' = given
    PROVE  Settled'
<1>0. /\ WInv /\ OneSeries /\ RowsDecided /\ Handed(g)
      /\ status' = status /\ row[r][q] \in R!Active
      /\ row'[r][q] = "claimed" /\ token'[r][q] = token[r][q] + 1 /\ token[r][q] \in Nat
      /\ \A x \in Requests, p \in R!Chunks :
            ~(x = r /\ p = q) => row'[x][p] = row[x][p] /\ token'[x][p] = token[x][p]
      /\ g[1] = r /\ g[2] = q /\ g[3] = token'[r][q]
    <2>1. Taken(X, r, q)
        BY TakeFacts DEF AInv
    <2> QED BY <2>1 DEF AInv, Taken
<1>1. ASSUME NEW c \in Claims \ {None}, TokenReached(c)
      PROVE  /\ c # g /\ c[1] \in Requests /\ c[2] \in R!Chunks
             /\ token'[c[1]][c[2]] = c[3] => ~(c[1] = r /\ c[2] = q)
    BY <1>0, <1>1, ClaimParts, Bounds DEF TokenReached
<1>2. /\ \A v \in Workers : TokenReached(mem[v].claim) /\ mem[v].claim \in Claims
      /\ \A x \in Requests : TokenReached(queue[x]) /\ queue[x] \in Claims /\ (queue[x] = None \/ queue[x][1] = x)
    BY <1>0, WorkerHas DEF WorkerFits, WInv, HandsFit, TypeOK
<1>3. \A x \in Requests : mem'[x] = mem[x] /\ queue'[x] = queue[x]
    <2>1. ASSUME NEW x \in Requests PROVE x \in Workers /\ x \notin Snaps
        BY ActorsAssumption DEF Workers
    <2> QED BY <1>0, <2>1 DEF Handed
<1>4. Placed'
    <2>1. CASE poll' = poll
        <3>1. ASSUME NEW c \in Claims \ {None}, TokenReached(c), Holds(c)' PROVE Holds(c)
            BY <1>0, <1>1, <3>1 DEF Holds, IsCurrent, StatusOf
        <3> QED BY <1>3, <2>1, <3>1, PlacedKept
    <2>2. CASE poll' = [claim |-> g, step |-> "dispatch"]
        <3>1. poll'.claim = g /\ queue'[r] # g /\ mem'[r].claim # g
            <4>1. r \in Workers
                BY DEF Workers
            <4> QED BY <1>1, <1>2, <1>3, <2>2, <4>1
        <3>2. ASSUME queue'[r] # None PROVE ~Holds(queue[r])'
            <4>1. PICK e \in Claims \ {None} : e = queue[r] /\ e = queue'[r] /\ e[1] = r /\ TokenReached(e)
                BY <1>2, <1>3, <3>2
            <4>2. ASSUME token'[e[1]][e[2]] = e[3], row'[e[1]][e[2]] \in R!Held PROVE FALSE
                <5>1. e[2] \in R!Chunks /\ e[2] # q /\ row[r][e[2]] \in R!Held
                    BY <1>0, <1>1, <4>1, <4>2
                <5> QED BY <1>0, <5>1, OpenAlone DEF R!Held
            <4> QED BY <4>1, <4>2 DEF Holds, IsCurrent, StatusOf
        <3>3. \A x \in Requests : queue'[x] # None => mem'[x].claim # queue'[x]
            BY <1>3 DEF AInv, Settled, Placed
        <3> QED BY <1>0, <3>1, <3>2, <3>3 DEF Placed
    <2> QED BY <1>0, <2>1, <2>2 DEF Handed
<1>5. DoneIsLeft'
    <2> SUFFICES ASSUME NEW e \in Claims \ {None}, token'[e[1]][e[2]] = e[3], row'[e[1]][e[2]] = "done",
                        status'[e[1]] \notin R!Closed
                 PROVE  /\ \A v \in Workers : mem'[v].claim = e => at'[v] \in {"mark", "premark"}
                        /\ queue'[e[1]] # e
                        /\ ~(poll'.step = "dispatch" /\ poll'.claim = e)
        BY DEF DoneIsLeft, IsCurrent, StatusOf
    <2>1. e[1] \in Requests /\ e[2] \in R!Chunks
        BY ClaimParts
    <2>2. ~(e[1] = r /\ e[2] = q) /\ e # g
        BY <1>0
    <2>3. IsCurrent(e) /\ StatusOf(e) = "done" /\ status[e[1]] \notin R!Closed
        BY <1>0, <2>1, <2>2 DEF IsCurrent, StatusOf
    <2>4. /\ \A v \in Workers : mem[v].claim = e => at[v] \in {"mark", "premark"}
          /\ queue[e[1]] # e /\ ~(poll.step = "dispatch" /\ poll.claim = e)
        BY <2>3 DEF AInv, Settled, DoneIsLeft
    <2>5. \A v \in Workers : mem'[v].claim = e => at'[v] \in {"mark", "premark"}
        BY <1>0, <2>2, <2>4 DEF Handed
    <2>6. ~(poll'.step = "dispatch" /\ poll'.claim = e)
        BY <1>0, <2>2, <2>4 DEF Handed
    <2> QED BY <1>3, <2>1, <2>4, <2>5, <2>6
<1> QED BY <1>4, <1>5, TakeAccounted DEF Settled

LEMMA PollClaimSettled ==
    ASSUME AInv, WInv', PollClaim
    PROVE  Settled'
<1>1. PICK X \in SUBSET R!HeldRows, k \in Requests \X R!Chunks :
         Take("poller", X, k) /\ poll' = [claim |-> TakenClaim(k), step |-> "dispatch"]
    BY DEF PollClaim
<1>2. poll.claim = None /\ queue' = queue /\ at' = at /\ mem' = mem /\ given' = given
    BY DEF PollClaim, work
<1>3. PICK r \in Requests, q \in R!Chunks : k = <<r, q>>
    OBVIOUS
<1>4. PICK g \in Claims \ {None} : g = TakenClaim(k) /\ g = <<r, q, token'[r][q]>>
    <2>1. TakenClaim(k) \in Claims \ {None}
        BY <1>1, TakenHas DEF AInv, WInv, TypeOK
    <2> QED BY <1>3, <2>1 DEF TakenClaim
<1>5. Handed(g)
    BY <1>1, <1>2, <1>4 DEF Handed
<1> QED BY <1>1, <1>2, <1>3, <1>4, <1>5, TakeSettled

LEMMA TakeOneSettled ==
    ASSUME AInv, WInv', NEW s \in Snaps, PreclaimTake(s) \/ DrainTake(s), NEW l \in {"mark", "premark"}, TakeOne(s, l)
    PROVE  Settled'
<1>0. /\ WInv /\ s \in Workers /\ given[s].req \in Requests /\ mem[s].claim = None
      /\ given' = given /\ poll' = poll /\ queue' = queue
    <2>1. at[s] \in {"pretake", "take", "again"} /\ given' = given /\ poll' = poll /\ queue' = queue
        BY DEF PreclaimTake, DrainTake, polling
    <2> QED BY <2>1, SnapHas, WorkerHas DEF AInv, WorkerFits, Resting
<1>1. PICK X \in SUBSET R!HeldRows, q \in R!Chunks :
         Take(s, X, <<given[s].req, q>>) /\ Step(s, l, Holding(TakenClaim(<<given[s].req, q>>)))
    BY DEF TakeOne
<1>2. PICK r \in Requests : r = given[s].req
    BY <1>0
<1>3. PICK k \in Requests \X R!Chunks : k = <<r, q>>
    OBVIOUS
<1>4. PICK g \in Claims \ {None} : g = TakenClaim(k) /\ g = <<r, q, token'[r][q]>>
    <2>1. TakenClaim(k) \in Claims \ {None}
        BY <1>0, <1>1, <1>2, <1>3, TakenHas DEF WInv, TypeOK
    <2> QED BY <1>3, <2>1 DEF TakenClaim
<1>5. /\ \A v \in Workers \ {s} : at'[v] = at[v] /\ mem'[v] = mem[v]
      /\ at'[s] = l /\ mem'[s].claim = g
    <2>1. Step(s, l, Holding(g)) /\ Holding(g).claim = g
        BY <1>1, <1>2, <1>3, <1>4 DEF Holding, Blank
    <2> QED BY <1>0, <2>1, SeedMoves
<1>6. Handed(g)
    BY <1>0, <1>5 DEF Handed
<1> QED BY <1>0, <1>1, <1>2, <1>4, <1>6, TakeSettled

-----------------------------------------------------------------------------
(* The rows are those of requests that some snapshot made runnable.        *)
LEMMA RowsStayDecided ==
    ASSUME WInv, RowsDecided, R!Next \/ UNCHANGED tables
    PROVE  RowsDecided'
<1> DEFINE Decided(r) == \E s \in Snaps : \E d \in Decisions[s] : d.outcome = "runnable" /\ d.req = r
<1> SUFFICES ASSUME NEW r \in Requests, NEW q \in R!Chunks, row'[r][q] # "none"
             PROVE  Decided(r)
    BY DEF RowsDecided
<1>0. row \in [Requests -> [R!Chunks -> R!Active \cup {"done", "none"}]]
    BY TablesTyped
<1>1. ASSUME NEW p \in R!Chunks, row[r][p] # "none" PROVE Decided(r)
    BY <1>1 DEF RowsDecided
<1>2. ASSUME NEW s \in Snaps, NEW d \in Decisions[s], R!Commit(s, d)
      PROVE  Decided(r)
    <2>1. CASE row' = row
        BY <1>1, <2>1
    <2>2. CASE R!CommitWinner(s, d)
        <3>1. row'[r][q] = CASE r \in R!Demoted(s) /\ row[r][q] \in R!Active -> "done"
                             [] r = d.req /\ q = 0 /\ row[r][q] = "none" /\ d.outcome = "runnable" -> "pending"
                             [] OTHER -> row[r][q]
            BY <2>2 DEF R!CommitWinner, R!RowsAfter
        <3>2. CASE row[r][q] = "none"
            <4>1. row[r][q] \notin R!Active
                BY <3>2 DEF R!Active, R!Held
            <4>2. r = d.req /\ d.outcome = "runnable"
                BY <3>1, <3>2, <4>1
            <4> QED BY <4>2
        <3> QED BY <1>1, <3>2
    <2>3. row' = row \/ R!CommitWinner(s, d)
        BY <1>2 DEF R!Commit, R!CommitLoser, R!outbox
    <2> QED BY <2>1, <2>2, <2>3
<1>3. ASSUME NEW s \in Snaps, R!MonthlyStep(s)
      PROVE  Decided(r)
    BY <1>1, <1>2, <1>3 DEF R!MonthlyStep, R!Stage, R!Interrupt, R!MarkOrphan, R!ReRun, R!outbox
<1>4. ASSUME NEW X \in SUBSET R!HeldRows, row[r][q] = "none"
      PROVE  R!Expired(X)[r][q] = "none"
    <2>1. <<r, q>> \notin R!HeldRows
        BY <1>4 DEF R!HeldRows, R!Held
    <2> QED BY <1>4, <2>1 DEF R!Expired
<1>5. CASE R!OutboxStep
    <2>1. ASSUME NEW X \in SUBSET R!HeldRows, R!ReconcileOutbox(X)
          PROVE  Decided(r)
        <3>1. row' = R!Expired(X)
            BY <2>1 DEF R!ReconcileOutbox
        <3> QED BY <1>1, <1>4, <3>1
    <2>2. ASSUME NEW X \in SUBSET R!HeldRows, NEW C, R!ClaimOutbox(X, C)
          PROVE  Decided(r)
        <3>1. row'[r][q] = IF <<r, q>> \in C THEN "claimed" ELSE R!Expired(X)[r][q]
            BY <2>2 DEF R!ClaimOutbox
        <3>2. <<r, q>> \in C => R!Expired(X)[r][q] \in {"pending", "failed"}
            <4>1. \A k \in C : R!Claimable(k[1], R!Expired(X)[k[1]][k[2]], token[k[1]][k[2]])
                BY <2>2 DEF R!ClaimOutbox
            <4> QED BY <4>1 DEF R!Claimable
        <3> QED BY <1>1, <1>4, <3>1, <3>2
    <2>3. ASSUME NEW t \in Requests, NEW p \in R!Chunks, R!MarkDispatched(t, p) \/ R!FailOutbox(t, p)
          PROVE  Decided(r)
        <3>1. PICK v : row' = [row EXCEPT ![t][p] = v] /\ row[t][p] \in R!Active
            BY <2>3 DEF R!MarkDispatched, R!FailOutbox, R!Active
        <3>2. row[t][p] # "none"
            BY <3>1 DEF R!Active, R!Held
        <3> QED BY <1>0, <1>1, <3>1, <3>2
    <2>4. ASSUME NEW t \in Requests, NEW p \in R!Chunks, R!FinishChunk(t, p)
          PROVE  Decided(r)
        <3>1. row[t][p] # "none"
            BY <2>4 DEF R!FinishChunk, R!Held
        <3>2. r # t => row'[r] = row[r]
            BY <1>0, <2>4 DEF R!FinishChunk
        <3> QED BY <1>1, <3>1, <3>2
    <2>5. ASSUME NEW t \in Requests, NEW d \in 1..NumDates, R!Progress(t, d)
          PROVE  Decided(r)
        BY <1>1, <2>5 DEF R!Progress, R!outbox
    <2> QED BY <1>5, <2>1, <2>2, <2>3, <2>4, <2>5 DEF R!OutboxStep
<1>6. CASE UNCHANGED tables
    BY <1>1, <1>6 DEF tables
<1> QED BY <1>3, <1>5, <1>6 DEF R!Next

(* The account holds at first, and each step keeps it.                     *)
LEMMA InitAInv == Init /\ OneSeries => AInv
<1> SUFFICES ASSUME Init, OneSeries PROVE AInv
    OBVIOUS
<1>1. WInv
    BY InitWInv
<1>2. /\ \A r \in Requests, q \in R!Chunks : row[r][q] = "none" /\ token[r][q] = 0
      /\ poll.step = "idle" /\ faults = 0 /\ dailies = 0
      /\ \A r \in Requests : queue[r] = None
      /\ \A w \in Workers : at[w] # "write"
    BY DEF Init, R!Init, Off
<1>3. RowsDecided /\ Placed
    BY <1>2 DEF RowsDecided, Placed
<1>4. DoneIsLeft
    BY <1>2, ClaimParts DEF DoneIsLeft, StatusOf
<1>5. Accounted
    <2>1. Late = {}
        BY <1>2 DEF Late
    <2>2. IsFiniteSet(Late) /\ Cardinality(Late) = 0
        BY <2>1, FS_EmptySet
    <2>3. \A r \in Requests, q \in R!Chunks : Cost(r, q) = 1
        BY <1>2 DEF Cost, Spent
    <2> QED BY <1>2, <2>2, <2>3 DEF Accounted
<1> QED BY <1>1, <1>3, <1>4, <1>5 DEF AInv, Settled

LEMMA NextAInv == AInv /\ [Next]_vars => AInv'
<1> SUFFICES ASSUME AInv, [Next]_vars PROVE AInv'
    OBVIOUS
<1>0. WInv
    BY DEF AInv
<1>1. WInv'
    BY <1>0, NextWInv
<1>2. OneSeries'
    BY DEF AInv, OneSeries
<1>3. RowsDecided'
    BY <1>0, CallersCall, RowsStayDecided DEF AInv
<1>4. ASSUME NEW w \in Workers, WorkerStep(w)
      PROVE  Settled'
    <2>1. ASSUME w \in Snaps, SeedJob(w)
          PROVE  Settled'
        <3>1. CASE PreclaimTake(w) /\ TakeOne(w, "premark")
            BY <1>1, <2>1, <3>1, TakeOneSettled
        <3>2. CASE DrainTake(w) /\ TakeOne(w, "mark")
            BY <1>1, <2>1, <3>2, TakeOneSettled
        <3> QED BY <1>1, <2>1, <3>1, <3>2, SeedJobSettled
    <2> QED BY <1>1, <1>4, <2>1, RunRequestSettled, StartRunSettled DEF WorkerStep
<1>5. ASSUME UNCHANGED vars PROVE Settled'
    <2>1. /\ UNCHANGED tables /\ poll' = poll /\ queue' = queue
          /\ at' = at /\ mem' = mem /\ given' = given /\ series' = series /\ faults' = faults /\ dailies' = dailies
        BY <1>5 DEF vars, polling, work, budget
    <2>2. TablesSteady
        BY <2>1, StillSteady
    <2> QED BY <1>1, <2>1, <2>2, QuietSettled
<1>6. ASSUME Next PROVE Settled'
    BY <1>1, <1>4, <1>6, MonthlyStepSettled, CommitSettled, FaultSettled, PollClaimSettled, DispatchSettled,
       PollMarkSettled DEF Next, PollStep
<1> QED BY <1>1, <1>2, <1>3, <1>5, <1>6 DEF AInv

(* Claims exclude each other, and only a fault, or a Daily commit, costs a *)
(* chunk an attempt: whoever shares the work, a claim that expires under a *)
(* worker that still goes on costs two at most.                            *)
THEOREM ClaimsExact == OneSeries /\ Spec => []ClaimsAreExact
<1>1. AInv => ClaimsAreExact
    <2> SUFFICES ASSUME AInv PROVE ClaimsAreExact
        OBVIOUS
    <2>1. OneHolder
        BY HoldersApart DEF AInv, OneHolder
    <2>2. ASSUME NEW r \in Requests, NEW q \in R!Chunks
          PROVE  token[r][q] <= 1 + 2 * faults + dailies
        <3>1. /\ token[r][q] \in Nat /\ faults \in Nat /\ dailies \in Nat /\ Cardinality(Late) \in Nat
              /\ Cost(r, q) + Cardinality(Late) <= 2 * faults + dailies + 1
            BY BudgetTyped, FS_CardinalityType DEF AInv, Settled, Accounted
        <3>2. Cost(r, q) \in Nat /\ token[r][q] <= Cost(r, q)
            BY <3>1 DEF Cost
        <3> QED BY <3>1, <3>2
    <2> QED BY <2>1, <2>2 DEF ClaimsAreExact, AttemptsAreFaults
<1> QED BY <1>1, InitAInv, NextAInv, PTL DEF Spec
=============================================================================
