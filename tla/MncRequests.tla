------------------------------ MODULE MncRequests ------------------------------
(***************************************************************************)
(* The control plane of the monthly new-core backfill for one release      *)
(* month: the monthly snapshots of the month, the backfill requests with   *)
(* the links that tie them to snapshots, and the outbox of their chunks.   *)
(* The monthly run (monthly_bus_cli commit-snapshot) is modelled call by   *)
(* call; it may be killed, or lose the answer of a call, and be run again. *)
(* Each database function is one transaction and one action.  Of a caller  *)
(* of the outbox only its fencing token matters here: a call with an old   *)
(* token changes nothing, so the actions are those of current tokens.      *)
(* MncWorkers adds the callers.                                            *)
(*                                                                         *)
(* Trade dates are numbered in the order of expected_trade_dates.  Time is *)
(* left out: a visibility timeout may have passed, or not, at any moment.  *)
(***************************************************************************)
EXTENDS Naturals, FiniteSets

CONSTANTS
    Snaps,       \* monthly_snapshots rows of the month, one per monthly_tag
    Requests,    \* request ids (build_request_id_v1)
    NoRequest,
    Order,       \* the rank of a snapshot by (snapshot_date, github_run_id)
    Decisions,   \* what decide_monthly_backfill_outcome may say of a snapshot
    NumDates,    \* length of expected_trade_dates
    Budget,      \* attempt_budget
    Lossy,       \* TRUE: calls of the monthly run may fail or lose answers
    MaxRuns,     \* bound on the runs of a snapshot's workflow
    MaxSeq,      \* bound on chunk_seq
    MaxToken     \* bound on the claims of one row

Outcomes == {"runnable", "noop", "blocked", "grandfather", "deferred"}
Decision == [req : Requests \cup {NoRequest}, outcome : Outcomes]

ASSUME NoRequestAssumption == NoRequest \notin Requests
ASSUME OrderAssumption ==
    /\ Order \in [Snaps -> Nat]
    /\ \A s, t \in Snaps : Order[s] = Order[t] => s = t
ASSUME DecisionsAssumption ==
    /\ Decisions \in [Snaps -> SUBSET Decision]
    /\ \A s \in Snaps, d \in UNION {Decisions[t] : t \in Snaps} :
          d.req = NoRequest <=> d.outcome = "deferred"
ASSUME BoundsAssumption ==
    /\ NumDates \in Nat /\ Budget \in Nat /\ MaxRuns \in Nat /\ MaxSeq \in Nat /\ MaxToken \in Nat
    /\ Lossy \in BOOLEAN

VARIABLES
    snap,       \* monthly_snapshots.status
    cli,        \* where the monthly run of each snapshot is
    runs,       \* runs started
    status,     \* monthly_new_core_backfill_requests.status
    successor,  \* its successor_request_id
    last,       \* its last_committed_trade_date, 0 is NULL
    winner,     \* request_release_links of role canonical_winner
    loser,      \* the one of role noncanonical_loser, per snapshot
    row,        \* monthly_new_core_backfill_outbox.status per chunk_seq
    token       \* its fencing_token, and its attempt_count: both start at 0
                \* and every claim adds 1 to both

monthly == <<snap, cli, runs>>
links == <<winner, loser>>
request == <<status, successor, last>>
outbox == <<row, token>>
vars == <<monthly, links, request, outbox>>

-----------------------------------------------------------------------------
Chunks == 0..MaxSeq

NotRunnable == {"noop", "blocked", "grandfather"}
Closed == NotRunnable \cup {"completed", "superseded"}
Live == {"dispatch_pending", "dispatched", "series_running", "failed_retryable"}

Held == {"claimed", "dispatched"}
Active == Held \cup {"pending", "failed"}

TypeOK ==
    /\ snap \in [Snaps -> {"none", "pending", "committed", "orphan"}]
    /\ cli \in [Snaps -> {"idle", "staged", "failing", "ok", "error"}]
    /\ runs \in [Snaps -> 0..MaxRuns]
    /\ status \in [Requests -> Live \cup Closed \cup {"none"}]
    /\ successor \in [Requests -> Requests \cup {NoRequest}]
    /\ last \in [Requests -> 0..NumDates]
    /\ winner \subseteq Snaps \X Requests
    /\ loser \in [Snaps -> Requests \cup {NoRequest}]
    /\ row \in [Requests -> [Chunks -> Active \cup {"done", "none"}]]
    /\ token \in [Requests -> [Chunks -> 0..MaxToken]]

Init ==
    /\ snap = [s \in Snaps |-> "none"]
    /\ cli = [s \in Snaps |-> "idle"]
    /\ runs = [s \in Snaps |-> 0]
    /\ status = [r \in Requests |-> "none"]
    /\ successor = [r \in Requests |-> NoRequest]
    /\ last = [r \in Requests |-> 0]
    /\ winner = {}
    /\ loser = [s \in Snaps |-> NoRequest]
    /\ row = [r \in Requests |-> [q \in Chunks |-> "none"]]
    /\ token = [r \in Requests |-> [q \in Chunks |-> 0]]

-----------------------------------------------------------------------------
(* commit-snapshot.  insert_monthly_snapshot_pending: a row of this tag is *)
(* made pending again, unless it is committed, which ends the run well.    *)
Stage(s) ==
    /\ cli[s] = "idle"
    /\ runs[s] < MaxRuns
    /\ runs' = [runs EXCEPT ![s] = @ + 1]
    /\ IF snap[s] = "committed"
       THEN cli' = [cli EXCEPT ![s] = "ok"] /\ UNCHANGED snap
       ELSE /\ cli' = [cli EXCEPT ![s] = "staged"]
            /\ snap' = [snap EXCEPT ![s] = "pending"]
    /\ UNCHANGED <<links, request, outbox>>

(* Mutant: the release that commits last is the canonical one.             *)
LastCommitWins(s) == TRUE

(* commit_monthly_snapshot_with_backfill_request.  The canonical release   *)
(* of the month, once s is committed, is the last one by rank.             *)
IsCanonical(s) == \A t \in Snaps : snap[t] = "committed" => Order[t] <= Order[s]

(* A release that is not canonical: one link, to the request of the one    *)
(* that is; the index on losers keeps an older link.                       *)
CommitLoser(s) ==
    LET w == CHOOSE t \in Snaps : snap[t] = "committed" /\ IsCanonical(t)
        requests == {r \in Requests : <<w, r>> \in winner}
    IN  /\ IF requests = {} \/ loser[s] # NoRequest
           THEN UNCHANGED loser
           ELSE \E r \in requests : loser' = [loser EXCEPT ![s] = r]
        /\ UNCHANGED <<winner, request, outbox>>

(* The canonical release demotes the others: their requests still live are *)
(* superseded, the outbox rows of all of them are closed.                  *)
Demoted(s) == {l[2] : l \in {k \in winner : k[1] # s}}
Superseded(s) == {r \in Demoted(s) : status[r] \in Live}

(* The foreign key of successor_request_id is checked when a request is    *)
(* superseded, before the successor is inserted.                           *)
SuccessorInserted(s, r) == Superseded(s) # {} => status[r] # "none"

StatusAfter(s, d) ==
    [r \in Requests |->
        IF r \in Superseded(s) THEN "superseded"
        ELSE IF r = d.req /\ status[r] = "none"
             THEN IF d.outcome = "runnable" THEN "dispatch_pending" ELSE d.outcome
        ELSE status[r]]

(* Mutant: the rows of the demoted are left as they are.                   *)
RowsLeftOpen(s, d) ==
    [r \in Requests |-> [q \in Chunks |->
        IF r = d.req /\ q = 0 /\ row[r][q] = "none" /\ d.outcome = "runnable" THEN "pending"
        ELSE row[r][q]]]

RowsAfter(s, d) ==
    [r \in Requests |-> [q \in Chunks |->
        CASE r \in Demoted(s) /\ row[r][q] \in Active -> "done"
          [] r = d.req /\ q = 0 /\ row[r][q] = "none" /\ d.outcome = "runnable" -> "pending"
          [] OTHER -> row[r][q]]]

(* Mutant: the links of the demoted stay.                                  *)
WinnerAdded(s, d) == winner \cup {<<s, d.req>>}

WinnerAfter(s, d) == {l \in winner : l[1] = s} \cup {<<s, d.req>>}

CommitWinner(s, d) ==
    /\ status' = StatusAfter(s, d)
    /\ successor' = [r \in Requests |-> IF r \in Superseded(s) THEN d.req ELSE successor[r]]
    /\ winner' = WinnerAfter(s, d)
    /\ loser' = [t \in Snaps |->
                    IF t # s /\ snap[t] = "committed" /\ loser[t] = NoRequest
                    THEN d.req ELSE loser[t]]
    /\ row' = RowsAfter(s, d)
    /\ UNCHANGED <<last, token>>

Raises(s, d) ==
    d.outcome # "deferred" /\ (snap[s] # "pending" \/ (IsCanonical(s) /\ ~SuccessorInserted(s, d.req)))

(* Before feature_start is set the snapshot alone is committed, by a PATCH. *)
Commit(s, d) ==
    /\ cli[s] = "staged"
    /\ IF Raises(s, d)
       THEN /\ cli' = [cli EXCEPT ![s] = "failing"]
            /\ UNCHANGED <<snap, links, request, outbox>>
       ELSE /\ snap' = [snap EXCEPT ![s] = "committed"]
            /\ \E l \in {"ok"} \cup (IF Lossy THEN {"failing"} ELSE {}) : cli' = [cli EXCEPT ![s] = l]
            /\ CASE d.outcome = "deferred" -> UNCHANGED <<links, request, outbox>>
                 [] d.outcome # "deferred" /\ IsCanonical(s) -> CommitWinner(s, d)
                 [] OTHER -> CommitLoser(s)
    /\ UNCHANGED runs

(* An exception of a put, a read or a call, or the end of the runner.      *)
Interrupt(s) ==
    /\ Lossy
    /\ \/ cli[s] = "staged" /\ \E l \in {"failing", "error"} : cli' = [cli EXCEPT ![s] = l]
       \/ cli[s] = "failing" /\ cli' = [cli EXCEPT ![s] = "error"]
    /\ UNCHANGED <<snap, runs, links, request, outbox>>

(* mark_monthly_snapshot_orphan does not look at the status it replaces.   *)
MarkOrphan(s) ==
    /\ cli[s] = "failing"
    /\ snap' = [snap EXCEPT ![s] = "orphan"]
    /\ cli' = [cli EXCEPT ![s] = "error"]
    /\ UNCHANGED <<runs, links, request, outbox>>

ReRun(s) ==
    /\ cli[s] \in {"ok", "error"}
    /\ runs[s] < MaxRuns
    /\ cli' = [cli EXCEPT ![s] = "idle"]
    /\ UNCHANGED <<snap, runs, links, request, outbox>>

-----------------------------------------------------------------------------
(* reconcile_mnc_outbox: claims whose visibility has ended are pending.    *)
HeldRows == {k \in Requests \X Chunks : row[k[1]][k[2]] \in Held}

Expired(X) ==
    [r \in Requests |-> [q \in Chunks |-> IF <<r, q>> \in X THEN "pending" ELSE row[r][q]]]

ReconcileOutbox(X) ==
    /\ X # {}
    /\ row' = Expired(X)
    /\ UNCHANGED <<monthly, links, request, token>>

(* Mutant: the request is not looked at.                                   *)
ClaimableOfAny(r, st, n) == st = "pending" \/ (st = "failed" /\ n < Budget)

(* Mutant: a chunk that failed is not tried again.                         *)
ClaimablePending(r, st, n) == st = "pending" /\ status[r] \notin Closed

(* claim_mnc_outbox: it reconciles and takes at most two rows, for one     *)
(* request or for any.                                                     *)
Claimable(r, st, n) ==
    /\ st = "pending" \/ (st = "failed" /\ n < Budget)
    /\ status[r] \notin Closed

(* Mutant: the first claim alone sets the token.                           *)
FirstToken(n) == 1

NextToken(n) == n + 1

ClaimOutbox(X, C) ==
    LET rows == Expired(X) IN
    /\ C # {} /\ Cardinality(C) <= 2
    /\ \A k \in C : /\ Claimable(k[1], rows[k[1]][k[2]], token[k[1]][k[2]])
                    /\ token[k[1]][k[2]] < MaxToken
    /\ row' = [r \in Requests |-> [q \in Chunks |->
                  IF <<r, q>> \in C THEN "claimed" ELSE rows[r][q]]]
    /\ token' = [r \in Requests |-> [q \in Chunks |->
                  IF <<r, q>> \in C THEN NextToken(token[r][q]) ELSE token[r][q]]]
    /\ UNCHANGED <<monthly, links, request>>

(* mark_mnc_outbox_dispatched                                              *)
MarkDispatched(r, q) ==
    /\ row[r][q] \in Held
    /\ row' = [row EXCEPT ![r][q] = "dispatched"]
    /\ status' = [status EXCEPT ![r] =
                    IF @ \in {"dispatch_pending", "failed_retryable"} THEN "dispatched" ELSE @]
    /\ UNCHANGED <<monthly, links, successor, last, token>>

(* Mutant: the function of 014, before 016 made it refuse a done row.      *)
FailOfAnyRow(r, q) ==
    /\ row[r][q] # "none" /\ token[r][q] > 0
    /\ row' = [row EXCEPT ![r][q] = "failed"]
    /\ status' = [status EXCEPT ![r] = IF @ \in Closed THEN @ ELSE "failed_retryable"]
    /\ UNCHANGED <<monthly, links, successor, last, token>>

(* fail_mnc_outbox: by any past claimant whose token is still the last,    *)
(* although the claim may have expired or been failed already.             *)
FailOutbox(r, q) ==
    /\ row[r][q] \in Active /\ token[r][q] > 0
    /\ row' = [row EXCEPT ![r][q] = "failed"]
    /\ status' = [status EXCEPT ![r] = IF @ \in Closed THEN @ ELSE "failed_retryable"]
    /\ UNCHANGED <<monthly, links, successor, last, token>>

(* Mutant: the last date counts as committed.                              *)
RemainingBut(r) == last[r] + 1 < NumDates

(* finish_mnc_outbox_chunk: the request is completed, or gets its next     *)
(* chunk in the same transaction.                                          *)
Remaining(r) == last[r] < NumDates

(* Mutant: the next chunk is given the number of this one.                 *)
NextChunkSame(r, q) == q

NextChunk(r, q) == q + 1

FinishChunk(r, q) ==
    /\ row[r][q] \in Held
    /\ IF Remaining(r)
       THEN /\ q < MaxSeq
            /\ status' = [status EXCEPT ![r] = "dispatch_pending"]
            /\ row' = [row EXCEPT ![r] = [p \in Chunks |->
                          IF p = q THEN "done"
                          ELSE IF p = NextChunk(r, q) /\ row[r][p] = "none" THEN "pending"
                          ELSE row[r][p]]]
       ELSE /\ status' = [status EXCEPT ![r] = "completed"]
            /\ row' = [row EXCEPT ![r][q] = "done"]
    /\ UNCHANGED <<monthly, links, successor, last, token>>

(* Mutant: progress counts the calls.                                      *)
LastCounted(r, d) == last[r] + 1

LastAfter(r, d) == IF d > last[r] THEN d ELSE last[r]

(* commit_trade_date_progress takes no token: any run that ever claimed a  *)
(* chunk may call it.  A run goes through the dates in order from the one  *)
(* after the last it read, so it skips none.                               *)
Progress(r, d) ==
    /\ \E q \in Chunks : token[r][q] > 0
    /\ d <= last[r] + 1
    /\ status[r] \notin Closed
    /\ last' = [last EXCEPT ![r] = LastAfter(r, d)]
    /\ status' = [status EXCEPT ![r] =
                    IF @ \in {"dispatch_pending", "dispatched"} THEN "series_running" ELSE @]
    /\ UNCHANGED <<monthly, links, successor, outbox>>

MonthlyStep(s) ==
    \/ Stage(s)
    \/ \E d \in Decisions[s] : Commit(s, d)
    \/ Interrupt(s)
    \/ MarkOrphan(s)
    \/ ReRun(s)

OutboxStep ==
    \/ \E X \in SUBSET HeldRows :
        \/ ReconcileOutbox(X)
        \/ \E C \in SUBSET (Requests \X Chunks) : ClaimOutbox(X, C)
    \/ \E r \in Requests, q \in Chunks :
        \/ MarkDispatched(r, q)
        \/ FailOutbox(r, q)
        \/ FinishChunk(r, q)
    \/ \E r \in Requests, d \in 1..NumDates : Progress(r, d)

Next == (\E s \in Snaps : MonthlyStep(s)) \/ OutboxStep

Spec == Init /\ [][Next]_vars

-----------------------------------------------------------------------------
(* Chunks of a request are made one after another: while a later one       *)
(* exists all earlier ones are done, so at most one is active and the      *)
(* index monthly_new_core_one_nonterminal_outbox never aborts a call.  A   *)
(* late failure report (016) must not reopen a chunk.                      *)
ChunksInOrder ==
    \A r \in Requests, q \in Chunks :
        row[r][q] # "none" => \A p \in Chunks : p < q => row[r][p] = "done"

(* Nobody works, or has worked, on an open chunk of a request that is      *)
(* closed: a new canonical release stops the run of the old at once, and   *)
(* nothing is claimed for a request that is not runnable.                  *)
HeldRowsAreLive ==
    \A r \in Requests, q \in Chunks : row[r][q] \in Active /\ token[r][q] > 0 => status[r] \in Live

(* A live request always has an open chunk: no call that ends one (finish, *)
(* fail, expiry, demotion) loses the work that is left.                    *)
LiveRequestHasRow ==
    \A r \in Requests : status[r] \in Live => \E q \in Chunks : row[r][q] \in Active

(* Requests and their chunks agree: no work without a live request, and no *)
(* live request without work.                                              *)
RowsFitRequests == HeldRowsAreLive /\ LiveRequestHasRow

(* A request is completed only with every expected date committed.         *)
CompletedIsSeeded == \A r \in Requests : status[r] = "completed" => last[r] = NumDates

(* A closed request stays closed with the successor and the progress it    *)
(* had, although finish and mark_dispatched do not look at its status;     *)
(* no request loses progress, whatever a run taken over still reports.     *)
ClosedRequestsStay ==
    [][\A r \in Requests :
          /\ status[r] \in Closed => /\ status'[r] = status[r]
                                     /\ successor'[r] = successor[r]
          /\ last'[r] >= last[r]]_vars

(* Only one snapshot of the month is linked as the winner, and it is the   *)
(* canonical one whichever order the releases commit in, while no run has  *)
(* failed; every other committed one is linked to some request of it.      *)
NoRunFailed ==
    \A s \in Snaps : cli[s] \in {"idle", "staged", "ok"} /\ runs[s] = IF cli[s] = "idle" THEN 0 ELSE 1

LinkedByRank ==
    \A s \in Snaps : snap[s] = "committed" =>
        IF \E t \in Snaps : snap[t] = "committed" /\ Order[t] > Order[s]
        THEN loser[s] # NoRequest
        ELSE {l[1] : l \in winner} = {s}

CanonicalIsLinked == NoRunFailed => LinkedByRank

(* No two snapshots are linked as winners, whatever fails.                 *)
OneWinner == \A k, l \in winner : k[1] = l[1]

-----------------------------------------------------------------------------
(* What ADR-005 says of the requests and the code does not do.             *)

(* 1.2: a winner whose identity exists reuses the request.                 *)
WinnerRequestNotSuperseded ==
    \A l \in winner : snap[l[1]] = "committed" => status[l[2]] # "superseded"

(* 1.2: the successor is made in the same transaction; a new canonical     *)
(* release is never refused while nothing fails.                           *)
NoRunRefused == \A s \in Snaps : cli[s] # "error"
=============================================================================
