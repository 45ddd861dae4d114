--------------------------- MODULE MncRequestsProofs ---------------------------
(***************************************************************************)
(* Proofs about MncRequests, for every number of releases, requests,       *)
(* chunks and dates.                                                       *)
(*                                                                         *)
(* The argument: the calls that end a chunk (finish, fail) do not look at  *)
(* the status of the request.  What makes them harmless is that a chunk    *)
(* somebody may still report on is open only while its request is live     *)
(* (HeldRowsAreLive), that the token of a row tells whether anybody has    *)
(* claimed it (TokensFit), and that the row after an open one is not there *)
(* yet (ChunksInOrder), so that finish finds its place empty.              *)
(***************************************************************************)
EXTENDS MncRequests, TLAPS

(* A request that is not there has no rows.                                *)
RowsHaveRequest ==
    \A r \in Requests, q \in Chunks : status[r] = "none" => row[r][q] = "none"

(* A row has a token once it has been claimed.                             *)
TokensFit ==
    \A r \in Requests, q \in Chunks :
        /\ row[r][q] = "none" => token[r][q] = 0
        /\ row[r][q] \in Held \cup {"failed"} => token[r][q] > 0

IInv ==
    /\ TypeOK
    /\ RowsHaveRequest
    /\ TokensFit
    /\ ChunksInOrder
    /\ HeldRowsAreLive
    /\ LiveRequestHasRow
    /\ CompletedIsSeeded
    /\ OneWinner

-----------------------------------------------------------------------------
LEMMA DecisionFits ==
    ASSUME NEW s \in Snaps, NEW d \in Decisions[s]
    PROVE  /\ d.outcome \in Outcomes
           /\ d.outcome # "deferred" => d.req \in Requests
BY DecisionsAssumption DEF Decision

LEMMA InitIInv == Init => IInv
BY BoundsAssumption
   DEF Init, IInv, TypeOK, RowsHaveRequest, TokensFit, ChunksInOrder, HeldRowsAreLive,
       LiveRequestHasRow, CompletedIsSeeded, OneWinner, Chunks, Held, Active, Live

-----------------------------------------------------------------------------
(* The commit of a canonical release.                                      *)
LEMMA WinnerStep ==
    ASSUME IInv, NEW s \in Snaps, NEW d \in Decisions[s], d.outcome # "deferred",
           CommitWinner(s, d),
           snap' \in [Snaps -> {"none", "pending", "committed", "orphan"}],
           cli' \in [Snaps -> {"idle", "staged", "failing", "ok", "error"}], runs' = runs
    PROVE  IInv'
<1> USE DEF IInv, CommitWinner
<1>0. d.req \in Requests /\ d.outcome \in Outcomes \ {"deferred"}
    BY DecisionFits
<1>1. status' = StatusAfter(s, d) /\ row' = RowsAfter(s, d) /\ last' = last /\ token' = token
    OBVIOUS
<1>2. \A r \in Requests : status'[r] = status[r] \/ status[r] \in Live \cup {"none"}
    BY <1>1 DEF StatusAfter, Superseded, TypeOK
<1>3. \A r \in Requests, q \in Chunks :
         \/ row'[r][q] = row[r][q] /\ (r \in Demoted(s) => row[r][q] \notin Active)
         \/ r \in Demoted(s) /\ row[r][q] \in Active /\ row'[r][q] = "done"
         \/ r = d.req /\ q = 0 /\ row[r][q] = "none" /\ row'[r][q] = "pending"
    BY <1>1 DEF RowsAfter, TypeOK, Active, Held
<1>4. TypeOK'
  <2>1. status' \in [Requests -> Live \cup Closed \cup {"none"}]
      BY <1>0, <1>1 DEF TypeOK, StatusAfter, Live, Closed, NotRunnable, Outcomes
  <2>2. row' \in [Requests -> [Chunks -> Active \cup {"done", "none"}]]
      BY <1>1 DEF TypeOK, RowsAfter, Active, Held
  <2>3. winner' \subseteq Snaps \X Requests
      BY <1>0 DEF TypeOK, WinnerAfter
  <2> QED  BY <1>0, <1>1, <2>1, <2>2, <2>3 DEF TypeOK
<1>5. RowsHaveRequest'
  <2> SUFFICES ASSUME NEW r \in Requests, NEW q \in Chunks, status'[r] = "none"
               PROVE  row'[r][q] = "none"
      BY DEF RowsHaveRequest
  <2>1. status[r] = "none" /\ r # d.req
      BY <1>0, <1>1 DEF StatusAfter, TypeOK, Outcomes
  <2> QED  BY <1>3, <2>1 DEF RowsHaveRequest, Active, Held
<1>6. TokensFit'
    BY <1>1, <1>3 DEF TokensFit, Held, Active
<1>7. ChunksInOrder'
  <2> SUFFICES ASSUME NEW r \in Requests, NEW q \in Chunks, row'[r][q] # "none",
                      NEW p \in Chunks, p < q
               PROVE  row'[r][p] = "done"
      BY DEF ChunksInOrder
  <2>1. q # 0
      BY BoundsAssumption DEF Chunks
  <2>2. row[r][q] # "none"
      BY <1>3, <2>1 DEF Active, Held
  <2>3. row[r][p] = "done"
      BY <2>2 DEF ChunksInOrder
  <2> QED  BY <1>3, <2>3
<1>8. HeldRowsAreLive'
  <2> SUFFICES ASSUME NEW r \in Requests, NEW q \in Chunks, row'[r][q] \in Active, token'[r][q] > 0
               PROVE  status'[r] \in Live
      BY DEF HeldRowsAreLive
  <2>1. row'[r][q] = row[r][q] /\ r \notin Demoted(s)
    <3>1. token[r][q] > 0
        BY <1>1
    <3>2. row[r][q] # "none"
        BY <3>1 DEF TokensFit
    <3>3. row'[r][q] # "done"
        BY DEF Active, Held
    <3> QED  BY <1>3, <3>2, <3>3
  <2>2. status[r] \in Live
      BY <1>1, <2>1 DEF HeldRowsAreLive
  <2> QED  BY <1>1, <2>1, <2>2 DEF StatusAfter, Superseded, Live
<1>9. LiveRequestHasRow'
  <2> SUFFICES ASSUME NEW r \in Requests, status'[r] \in Live
               PROVE  \E q \in Chunks : row'[r][q] \in Active
      BY DEF LiveRequestHasRow
  <2>1. CASE status[r] \in Live
    <3>1. r \notin Demoted(s)
        BY <1>1, <2>1 DEF StatusAfter, Superseded, Live
    <3>2. PICK q \in Chunks : row[r][q] \in Active
        BY <2>1 DEF LiveRequestHasRow
    <3> QED  BY <1>3, <3>1, <3>2 DEF Active, Held
  <2>2. CASE status[r] \notin Live
    <3>1. status[r] = "none" /\ r = d.req /\ d.outcome = "runnable"
        BY <1>0, <1>1, <2>2 DEF StatusAfter, Superseded, Live, Outcomes
    <3>2. 0 \in Chunks
        BY BoundsAssumption DEF Chunks
    <3>3. row[r][0] = "none"
        BY <3>1, <3>2 DEF RowsHaveRequest
    <3>4. row'[r][0] = "pending"
        BY <1>1, <3>1, <3>2, <3>3 DEF RowsAfter, Active, Held
    <3> QED  BY <3>2, <3>4 DEF Active
  <2> QED  BY <2>1, <2>2
<1>10. CompletedIsSeeded'
    BY <1>0, <1>1 DEF CompletedIsSeeded, StatusAfter, Outcomes
<1>11. OneWinner'
    BY DEF OneWinner, WinnerAfter
<1> QED  BY <1>4, <1>5, <1>6, <1>7, <1>8, <1>9, <1>10, <1>11

(* What the monthly run does besides leaves requests and rows alone.       *)
LEMMA MonthlyKept ==
    ASSUME IInv, TypeOK', UNCHANGED <<status, last, row, token, winner>>
    PROVE  IInv'
BY DEF IInv, RowsHaveRequest, TokensFit, ChunksInOrder, HeldRowsAreLive, LiveRequestHasRow,
       CompletedIsSeeded, OneWinner

LEMMA MonthlyIInv ==
    ASSUME IInv, NEW s \in Snaps, MonthlyStep(s)
    PROVE  IInv'
<1>0. TypeOK
    BY DEF IInv
<1>1. CASE Stage(s)
  <2>1. TypeOK'
    <3>1. runs' \in [Snaps -> 0..MaxRuns]
        BY <1>0, <1>1, BoundsAssumption DEF TypeOK, Stage
    <3>2. snap' \in [Snaps -> {"none", "pending", "committed", "orphan"}]
        BY <1>0, <1>1 DEF TypeOK, Stage
    <3>3. cli' \in [Snaps -> {"idle", "staged", "failing", "ok", "error"}]
        BY <1>0, <1>1, SMTT(30) DEF TypeOK, Stage
    <3> QED  BY <1>0, <1>1, <3>1, <3>2, <3>3 DEF TypeOK, Stage, links, request, outbox
  <2> QED  BY <1>1, <2>1, MonthlyKept DEF Stage, links, request, outbox
<1>2. ASSUME NEW d \in Decisions[s], Commit(s, d) PROVE IInv'
  <2>1. snap' \in [Snaps -> {"none", "pending", "committed", "orphan"}] /\ runs' = runs
      BY <1>0, <1>2 DEF Commit, TypeOK
  <2>2. cli' \in [Snaps -> {"idle", "staged", "failing", "ok", "error"}]
      BY <1>0, <1>2 DEF Commit, TypeOK
  <2>3. CASE d.outcome # "deferred" /\ CommitWinner(s, d)
      BY <2>1, <2>2, <2>3, WinnerStep
  <2>4. CASE CommitLoser(s)
    <3>1. loser' \in [Snaps -> Requests \cup {NoRequest}]
        BY <1>0, <2>4 DEF CommitLoser, TypeOK
    <3>2. TypeOK'
        BY <1>0, <2>1, <2>2, <2>4, <3>1 DEF CommitLoser, TypeOK, request, outbox
    <3> QED  BY <2>4, <3>2, MonthlyKept DEF CommitLoser, request, outbox
  <2>5. CASE UNCHANGED <<links, request, outbox>>
    <3>1. TypeOK'
        BY <1>0, <2>1, <2>2, <2>5 DEF TypeOK, links, request, outbox
    <3> QED  BY <2>5, <3>1, MonthlyKept DEF links, request, outbox
  <2> QED  BY <1>2, <2>3, <2>4, <2>5 DEF Commit
<1>3. CASE Interrupt(s)
  <2>1. TypeOK'
      BY <1>0, <1>3 DEF TypeOK, Interrupt, links, request, outbox
  <2> QED  BY <1>3, <2>1, MonthlyKept DEF Interrupt, links, request, outbox
<1>4. CASE MarkOrphan(s)
  <2>1. TypeOK'
      BY <1>0, <1>4 DEF TypeOK, MarkOrphan, links, request, outbox
  <2> QED  BY <1>4, <2>1, MonthlyKept DEF MarkOrphan, links, request, outbox
<1>5. CASE ReRun(s)
  <2>1. TypeOK'
      BY <1>0, <1>5 DEF TypeOK, ReRun, links, request, outbox
  <2> QED  BY <1>5, <2>1, MonthlyKept DEF ReRun, links, request, outbox
<1> QED  BY <1>1, <1>2, <1>3, <1>4, <1>5 DEF MonthlyStep
-----------------------------------------------------------------------------
(* The calls on the outbox.                                                *)
LEMMA HeldIsLive ==
    ASSUME IInv, NEW r \in Requests, NEW q \in Chunks,
           row[r][q] \in Held \/ (row[r][q] \in Active /\ token[r][q] > 0)
    PROVE  status[r] \in Live
BY DEF IInv, TokensFit, HeldRowsAreLive, Held, Active

LEMMA OpenHasRequest ==
    ASSUME IInv, NEW r \in Requests, NEW q \in Chunks, row[r][q] # "none"
    PROVE  status[r] # "none"
BY DEF IInv, RowsHaveRequest

(* Rows open before and after, none made, no request touched but to stay   *)
(* live: the shape of a claim, a reconcile, a mark and a failure.          *)
LEMMA OpenRowsStep ==
    ASSUME IInv, TypeOK', TokensFit', last' = last, winner' = winner,
           \A r \in Requests, q \in Chunks :
              row'[r][q] # row[r][q] => row[r][q] \in Active /\ row'[r][q] \in Active,
           \A r \in Requests : status'[r] = status[r] \/ (status[r] \in Live /\ status'[r] \in Live),
           \A r \in Requests, q \in Chunks :
              row'[r][q] \in Active /\ token'[r][q] > 0 =>
                 (row[r][q] \in Active /\ token[r][q] > 0) \/ status[r] \in Live
    PROVE  IInv'
<1>1. RowsHaveRequest'
  <2> SUFFICES ASSUME NEW r \in Requests, NEW q \in Chunks, status'[r] = "none"
               PROVE  row'[r][q] = "none"
      BY DEF RowsHaveRequest
  <2>1. status[r] = "none"
      BY DEF Live
  <2>2. row[r][q] = "none"
      BY <2>1 DEF IInv, RowsHaveRequest
  <2> QED  BY <2>2 DEF Active, Held
<1>2. ChunksInOrder'
  <2> SUFFICES ASSUME NEW r \in Requests, NEW q \in Chunks, row'[r][q] # "none",
                      NEW p \in Chunks, p < q
               PROVE  row'[r][p] = "done"
      BY DEF ChunksInOrder
  <2>1. row[r][q] # "none"
      BY DEF Active, Held
  <2>2. row[r][p] = "done"
      BY <2>1 DEF IInv, ChunksInOrder
  <2> QED  BY <2>2 DEF Active, Held
<1>3. HeldRowsAreLive'
    BY DEF IInv, HeldRowsAreLive
<1>4. LiveRequestHasRow'
  <2> SUFFICES ASSUME NEW r \in Requests, status'[r] \in Live
               PROVE  \E q \in Chunks : row'[r][q] \in Active
      BY DEF LiveRequestHasRow
  <2>1. PICK q \in Chunks : row[r][q] \in Active
      BY DEF IInv, LiveRequestHasRow
  <2> QED  BY <2>1
<1>5. CompletedIsSeeded'
  <2>1. \A r \in Requests : status'[r] = "completed" => status[r] = "completed"
      BY DEF Live
  <2> QED  BY <2>1 DEF IInv, CompletedIsSeeded
<1>6. OneWinner'
    BY DEF IInv, OneWinner
<1> QED  BY <1>1, <1>2, <1>3, <1>4, <1>5, <1>6 DEF IInv

LEMMA ReconcileIInv ==
    ASSUME IInv, NEW X \in SUBSET HeldRows, ReconcileOutbox(X)
    PROVE  IInv'
<1>1. \A r \in Requests, q \in Chunks :
         \/ row'[r][q] = row[r][q]
         \/ row[r][q] \in Held /\ row'[r][q] = "pending"
    BY DEF ReconcileOutbox, Expired, HeldRows
<1>2. TypeOK'
  <2>1. row' \in [Requests -> [Chunks -> Active \cup {"done", "none"}]]
      BY DEF ReconcileOutbox, Expired, IInv, TypeOK, Active
  <2> QED  BY <2>1 DEF IInv, TypeOK, ReconcileOutbox, monthly, links, request
<1>3. token' = token /\ status' = status /\ last' = last /\ winner' = winner
    BY DEF ReconcileOutbox, links, request
<1>4. TokensFit'
    BY <1>1, <1>3 DEF IInv, TokensFit, Held
<1>5. \A r \in Requests, q \in Chunks :
         row'[r][q] # row[r][q] => row[r][q] \in Active /\ row'[r][q] \in Active
    BY <1>1 DEF Active, Held
<1>6. \A r \in Requests, q \in Chunks :
         row'[r][q] \in Active /\ token'[r][q] > 0 => row[r][q] \in Active /\ token[r][q] > 0
    BY <1>1, <1>3 DEF Active, Held
<1> QED  BY <1>2, <1>3, <1>4, <1>5, <1>6, OpenRowsStep

LEMMA ClaimIInv ==
    ASSUME IInv, NEW X \in SUBSET HeldRows, NEW C \in SUBSET (Requests \X Chunks), ClaimOutbox(X, C)
    PROVE  IInv'
<1>1. \A r \in Requests, q \in Chunks :
         \/ row'[r][q] = row[r][q] /\ token'[r][q] = token[r][q]
         \/ row[r][q] \in Held /\ row'[r][q] = "pending" /\ token'[r][q] = token[r][q]
         \/ /\ row[r][q] \in Active /\ status[r] \notin Closed
            /\ row'[r][q] = "claimed" /\ token'[r][q] = token[r][q] + 1
  <2> TAKE r \in Requests, q \in Chunks
  <2>1. CASE <<r, q>> \in C
    <3>1. Claimable(r, Expired(X)[r][q], token[r][q])
        BY <2>1 DEF ClaimOutbox, NextToken
    <3>2. row[r][q] \in Active
        BY <3>1 DEF Claimable, Expired, HeldRows, Active
    <3> QED  BY <2>1, <3>1, <3>2 DEF ClaimOutbox, NextToken, Claimable
  <2>2. CASE <<r, q>> \notin C
      BY <2>2 DEF ClaimOutbox, NextToken, Expired, HeldRows
  <2> QED  BY <2>1, <2>2
<1>2. UNCHANGED <<monthly, links, request>>
    BY DEF ClaimOutbox, NextToken
<1>3. TypeOK'
  <2>1. row' \in [Requests -> [Chunks -> Active \cup {"done", "none"}]]
      BY DEF ClaimOutbox, NextToken, Expired, IInv, TypeOK, Active, Held
  <2>2. token' \in [Requests -> [Chunks -> 0..MaxToken]]
    <3>1. \A r \in Requests, q \in Chunks : <<r, q>> \in C => token[r][q] < MaxToken
        BY DEF ClaimOutbox, NextToken
    <3> QED  BY <3>1, BoundsAssumption DEF ClaimOutbox, NextToken, IInv, TypeOK
  <2> QED  BY <1>2, <2>1, <2>2 DEF IInv, TypeOK, monthly, links, request
<1>4. TokensFit'
  <2>1. \A r \in Requests, q \in Chunks : token[r][q] \in Nat
      BY DEF IInv, TypeOK
  <2> QED  BY <1>1, <2>1 DEF IInv, TokensFit, Held
<1>5. \A r \in Requests, q \in Chunks :
         row[r][q] \in Active /\ status[r] \notin Closed => status[r] \in Live
    BY OpenHasRequest DEF IInv, TypeOK, Active, Held
<1>6. \A r \in Requests, q \in Chunks :
         row'[r][q] # row[r][q] => row[r][q] \in Active /\ row'[r][q] \in Active
    BY <1>1 DEF Active, Held
<1>7. \A r \in Requests, q \in Chunks :
         row'[r][q] \in Active /\ token'[r][q] > 0 =>
            (row[r][q] \in Active /\ token[r][q] > 0) \/ status[r] \in Live
    BY <1>1, <1>5 DEF Active, Held
<1>8. status' = status /\ last' = last /\ winner' = winner
    BY <1>2 DEF links, request
<1> QED  BY <1>3, <1>4, <1>6, <1>7, <1>8, OpenRowsStep

LEMMA MarkIInv ==
    ASSUME IInv, NEW r \in Requests, NEW q \in Chunks, MarkDispatched(r, q)
    PROVE  IInv'
<1>1. status[r] \in Live
    BY HeldIsLive DEF MarkDispatched
<1>2. row' = [row EXCEPT ![r][q] = "dispatched"] /\ row[r][q] \in Held
    BY DEF MarkDispatched
<1>3. TypeOK'
    BY DEF MarkDispatched, IInv, TypeOK, Active, Held, Live, monthly, links
<1>4. UNCHANGED <<last, token, winner>>
    BY DEF MarkDispatched, links
<1>5. \A k \in Requests, p \in Chunks :
         row'[k][p] = row[k][p] \/ (k = r /\ p = q /\ row'[k][p] = "dispatched")
    BY <1>2 DEF IInv, TypeOK
<1>6. TokensFit'
    BY <1>2, <1>4, <1>5 DEF IInv, TokensFit, Held
<1>7. \A k \in Requests : status'[k] = status[k] \/ (k = r /\ status'[k] = "dispatched")
    BY DEF MarkDispatched, IInv, TypeOK
<1>8. \A k \in Requests, p \in Chunks :
         row'[k][p] # row[k][p] => row[k][p] \in Active /\ row'[k][p] \in Active
    BY <1>2, <1>5 DEF Active, Held
<1>9. \A k \in Requests, p \in Chunks :
         row'[k][p] \in Active /\ token'[k][p] > 0 =>
            (row[k][p] \in Active /\ token[k][p] > 0) \/ status[k] \in Live
    BY <1>1, <1>4, <1>5
<1>10. \A k \in Requests :
          status'[k] = status[k] \/ (status[k] \in Live /\ status'[k] \in Live)
    BY <1>1, <1>7 DEF Live
<1> QED  BY <1>3, <1>4, <1>6, <1>8, <1>9, <1>10, OpenRowsStep

LEMMA FailIInv ==
    ASSUME IInv, NEW r \in Requests, NEW q \in Chunks, FailOutbox(r, q)
    PROVE  IInv'
<1>1. status[r] \in Live
    BY HeldIsLive DEF FailOutbox
<1>2. TypeOK'
    BY DEF FailOutbox, IInv, TypeOK, Active, Held, Live, monthly, links
<1>3. UNCHANGED <<last, token, winner>>
    BY DEF FailOutbox, links
<1>4. \A k \in Requests, p \in Chunks :
         row'[k][p] = row[k][p] \/ (k = r /\ p = q /\ row'[k][p] = "failed")
    BY DEF FailOutbox, IInv, TypeOK
<1>5. row[r][q] \in Active /\ token[r][q] > 0
    BY DEF FailOutbox
<1>6. TokensFit'
    BY <1>3, <1>4, <1>5 DEF IInv, TokensFit, Held
<1>7. \A k \in Requests : status'[k] = status[k] \/ (k = r /\ status'[k] = "failed_retryable")
    BY DEF FailOutbox, IInv, TypeOK
<1>8. \A k \in Requests, p \in Chunks :
         row'[k][p] # row[k][p] => row[k][p] \in Active /\ row'[k][p] \in Active
    BY <1>4, <1>5 DEF Active
<1>9. \A k \in Requests, p \in Chunks :
         row'[k][p] \in Active /\ token'[k][p] > 0 =>
            (row[k][p] \in Active /\ token[k][p] > 0) \/ status[k] \in Live
    BY <1>1, <1>3, <1>4
<1>10. \A k \in Requests :
          status'[k] = status[k] \/ (status[k] \in Live /\ status'[k] \in Live)
    BY <1>1, <1>7 DEF Live
<1> QED  BY <1>2, <1>3, <1>6, <1>8, <1>9, <1>10, OpenRowsStep

LEMMA FinishIInv ==
    ASSUME IInv, NEW r \in Requests, NEW q \in Chunks, FinishChunk(r, q)
    PROVE  IInv'
<1>1. status[r] \in Live /\ row[r][q] \in Held
    BY HeldIsLive DEF FinishChunk
<1>2. UNCHANGED <<monthly, links, successor, last, token>>
    BY DEF FinishChunk
<1>3. q \in Nat /\ last[r] \in 0..NumDates /\ NumDates \in Nat
    BY BoundsAssumption DEF Chunks, IInv, TypeOK
<1>4. \A p \in Chunks : p > q => row[r][p] = "none"
    BY <1>1 DEF IInv, ChunksInOrder, Held
<1>5. \A k \in Requests, p \in Chunks : k # r => row'[k][p] = row[k][p] /\ status'[k] = status[k]
    BY DEF FinishChunk, IInv, TypeOK
<1>6. row'[r][q] = "done"
    BY DEF FinishChunk, IInv, TypeOK
<1>7. \A p \in Chunks : p # q =>
         \/ row'[r][p] = row[r][p]
         \/ p = q + 1 /\ row'[r][p] = "pending" /\ status'[r] \in Live
    BY DEF FinishChunk, NextChunk, IInv, TypeOK, Live
<1>8. \/ status'[r] = "dispatch_pending" /\ q + 1 \in Chunks /\ row'[r][q + 1] = "pending"
      \/ status'[r] = "completed" /\ last[r] = NumDates
  <2>1. CASE Remaining(r)
    <3>1. /\ status'[r] = "dispatch_pending" /\ q < MaxSeq
          /\ row'[r] = [p \in Chunks |->
                IF p = q THEN "done"
                ELSE IF p = NextChunk(r, q) /\ row[r][p] = "none" THEN "pending"
                ELSE row[r][p]]
        BY <2>1 DEF FinishChunk, IInv, TypeOK
    <3>2. q + 1 \in Chunks
        BY <1>3, <3>1, BoundsAssumption DEF Chunks
    <3>3. row[r][q + 1] = "none"
        BY <1>3, <1>4, <3>2
    <3>4. row'[r][q + 1] = "pending"
        BY <1>3, <3>1, <3>2, <3>3 DEF NextChunk
    <3> QED  BY <3>1, <3>2, <3>4
  <2>2. CASE ~Remaining(r)
    <3>1. status' = [status EXCEPT ![r] = "completed"]
        BY <2>2, Zenon DEF FinishChunk
    <3>2. last[r] = NumDates
        BY <1>3, <2>2 DEF Remaining
    <3> QED  BY <3>1, <3>2 DEF IInv, TypeOK
  <2> QED  BY <2>1, <2>2
<1>9. TypeOK'
  <2>1. row' \in [Requests -> [Chunks -> Active \cup {"done", "none"}]]
    <3>1. \A p \in Chunks : row'[r][p] \in Active \cup {"done", "none"}
        BY <1>6, <1>7 DEF IInv, TypeOK, Active
    <3>2. row' = [row EXCEPT ![r] = row'[r]]
        BY DEF FinishChunk, IInv, TypeOK
    <3>3. row'[r] = [p \in Chunks |-> row'[r][p]]
        BY DEF FinishChunk, IInv, TypeOK
    <3> QED  BY <3>1, <3>2, <3>3 DEF IInv, TypeOK
  <2>2. status' \in [Requests -> Live \cup Closed \cup {"none"}]
      BY DEF FinishChunk, IInv, TypeOK, Live, Closed
  <2> QED  BY <1>2, <2>1, <2>2 DEF IInv, TypeOK, monthly, links
<1>10. RowsHaveRequest'
    BY <1>5, <1>8 DEF IInv, RowsHaveRequest
<1>11. TokensFit'
  <2> SUFFICES ASSUME NEW k \in Requests, NEW p \in Chunks
               PROVE  /\ row'[k][p] = "none" => token'[k][p] = 0
                      /\ row'[k][p] \in Held \cup {"failed"} => token'[k][p] > 0
      BY DEF TokensFit
  <2> QED  BY <1>2, <1>5, <1>6, <1>7 DEF IInv, TokensFit, Held
<1>12. ChunksInOrder'
  <2> SUFFICES ASSUME NEW k \in Requests, NEW p \in Chunks, row'[k][p] # "none",
                      NEW o \in Chunks, o < p
               PROVE  row'[k][o] = "done"
      BY DEF ChunksInOrder
  <2>1. CASE k # r
      BY <1>5, <2>1 DEF IInv, ChunksInOrder
  <2>2. CASE k = r
    <3>1. p \in Nat /\ o \in Nat
        BY DEF Chunks
    <3>2. p <= q + 1
        BY <1>3, <1>4, <1>7, <2>2, <3>1
    <3>3. o < q => row[r][o] = "done"
        BY <1>1 DEF IInv, ChunksInOrder, Held
    <3>4. o < q => row'[r][o] = "done"
        BY <1>3, <1>7, <3>1, <3>3
    <3> QED  BY <1>3, <1>6, <2>2, <3>1, <3>2, <3>4
  <2> QED  BY <2>1, <2>2
<1>13. HeldRowsAreLive'
  <2> SUFFICES ASSUME NEW k \in Requests, NEW p \in Chunks, row'[k][p] \in Active, token'[k][p] > 0
               PROVE  status'[k] \in Live
      BY DEF HeldRowsAreLive
  <2>1. CASE k # r
      BY <1>2, <1>5, <2>1 DEF IInv, HeldRowsAreLive
  <2>2. CASE k = r
    <3>1. p # q
        BY <1>6, <2>2 DEF Active, Held
    <3>2. CASE status'[r] = "completed"
      <4>1. row[r][p] \in Active
          BY <1>7, <2>2, <3>1, <3>2 DEF Live
      <4>2. ~(p > q) /\ ~(p < q)
          BY <1>1, <1>4, <4>1 DEF IInv, ChunksInOrder, Active, Held
      <4> QED  BY <1>3, <3>1, <4>2 DEF Chunks
    <3> QED  BY <1>8, <2>2, <3>2 DEF Live
  <2> QED  BY <2>1, <2>2
<1>14. LiveRequestHasRow'
  <2> SUFFICES ASSUME NEW k \in Requests, status'[k] \in Live
               PROVE  \E p \in Chunks : row'[k][p] \in Active
      BY DEF LiveRequestHasRow
  <2>1. CASE k # r
    <3>1. status[k] \in Live
        BY <1>5, <1>3, <2>1
    <3>2. PICK p \in Chunks : row[k][p] \in Active
        BY <3>1 DEF IInv, LiveRequestHasRow
    <3> QED  BY <1>5, <2>1, <3>2
  <2>2. CASE k = r
      BY <1>8, <2>2 DEF Live, Active
  <2> QED  BY <2>1, <2>2
<1>15. CompletedIsSeeded'
    BY <1>2, <1>5, <1>8 DEF IInv, CompletedIsSeeded
<1>16. OneWinner'
    BY <1>2 DEF IInv, OneWinner, links
<1> QED  BY <1>9, <1>10, <1>11, <1>12, <1>13, <1>14, <1>15, <1>16 DEF IInv

LEMMA ProgressIInv ==
    ASSUME IInv, NEW r \in Requests, NEW d \in 1..NumDates, Progress(r, d)
    PROVE  IInv'
<1>1. UNCHANGED <<row, token, winner>>
    BY DEF Progress, links, outbox
<1>2. TypeOK'
  <2>1. last' \in [Requests -> 0..NumDates]
      BY BoundsAssumption DEF Progress, LastAfter, IInv, TypeOK
  <2>2. status' \in [Requests -> Live \cup Closed \cup {"none"}]
      BY DEF Progress, IInv, TypeOK, Live
  <2> QED  BY <2>1, <2>2 DEF Progress, IInv, TypeOK, monthly, links, outbox
<1>3. \A k \in Requests :
         \/ status'[k] = status[k] /\ (last'[k] = last[k] \/ status[k] \notin Closed)
         \/ status[k] \in Live /\ status'[k] \in Live
    BY DEF Progress, IInv, TypeOK, Live
<1>4. RowsHaveRequest' /\ TokensFit' /\ ChunksInOrder' /\ OneWinner'
    BY <1>1, <1>3 DEF IInv, RowsHaveRequest, TokensFit, ChunksInOrder, OneWinner, Live
<1>5. HeldRowsAreLive' /\ LiveRequestHasRow'
    BY <1>1, <1>3 DEF IInv, HeldRowsAreLive, LiveRequestHasRow
<1>6. CompletedIsSeeded'
    BY <1>3 DEF IInv, CompletedIsSeeded, Closed, Live
<1> QED  BY <1>2, <1>4, <1>5, <1>6 DEF IInv

LEMMA NextIInv == IInv /\ [Next]_vars => IInv'
<1> SUFFICES ASSUME IInv, [Next]_vars PROVE IInv'
    OBVIOUS
<1>1. ASSUME NEW s \in Snaps, MonthlyStep(s) PROVE IInv'
    BY <1>1, MonthlyIInv
<1>2. CASE OutboxStep
    BY <1>2, ReconcileIInv, ClaimIInv, MarkIInv, FailIInv, FinishIInv, ProgressIInv DEF OutboxStep
<1>3. CASE UNCHANGED vars
    BY <1>3 DEF vars, monthly, links, request, outbox, IInv, TypeOK, RowsHaveRequest, TokensFit,
       ChunksInOrder, HeldRowsAreLive, LiveRequestHasRow, CompletedIsSeeded, OneWinner
<1> QED  BY <1>1, <1>2, <1>3 DEF Next

(* Every reachable state of the control plane satisfies the inductive      *)
(* invariant: the functions of 012-016 keep it whoever calls them and      *)
(* wherever the monthly run is killed.                                     *)
THEOREM Invariance == Spec => []IInv
BY InitIInv, NextIInv, PTL DEF Spec

(* The columns keep to the values the schema of 011 allows.                *)
THEOREM TypeCorrect == Spec => []TypeOK
<1>1. IInv => TypeOK
    BY DEF IInv
<1> QED  BY <1>1, Invariance, PTL

(* A later chunk is there only when all earlier ones are done, so a late   *)
(* failure report or a finish never meets a chunk made after its own.      *)
THEOREM ChunksStayInOrder == Spec => []ChunksInOrder
<1>1. IInv => ChunksInOrder
    BY DEF IInv
<1> QED  BY <1>1, Invariance, PTL

(* The unique index of 011 on open chunks is never in the way of a call.   *)
OneOpenChunk ==
    \A r \in Requests, p, q \in Chunks : row[r][p] \in Active /\ row[r][q] \in Active => p = q

THEOREM OpenChunkIsOne == Spec => []OneOpenChunk
<1>1. IInv => OneOpenChunk
  <2> SUFFICES ASSUME ChunksInOrder, NEW r \in Requests, NEW p \in Chunks, NEW q \in Chunks,
                      row[r][p] \in Active, row[r][q] \in Active
               PROVE  p = q
      BY DEF IInv, OneOpenChunk
  <2>1. ~(p < q) /\ ~(q < p)
      BY DEF ChunksInOrder, Active, Held
  <2> QED  BY <2>1 DEF Chunks
<1> QED  BY <1>1, Invariance, PTL

(* A closed request has no chunk that somebody holds or could report on.   *)
THEOREM HeldRowsStayLive == Spec => []HeldRowsAreLive
<1>1. IInv => HeldRowsAreLive
    BY DEF IInv
<1> QED  BY <1>1, Invariance, PTL

(* No call loses the work left: a live request keeps an open chunk.        *)
THEOREM LiveRequestKeepsRow == Spec => []LiveRequestHasRow
<1>1. IInv => LiveRequestHasRow
    BY DEF IInv
<1> QED  BY <1>1, Invariance, PTL

(* So requests and their chunks agree, both ways.                          *)
THEOREM RowsKeepFitting == Spec => []RowsFitRequests
<1>1. HeldRowsAreLive /\ LiveRequestHasRow => RowsFitRequests
    BY DEF RowsFitRequests
<1> QED  BY <1>1, HeldRowsStayLive, LiveRequestKeepsRow, PTL

(* A completed request has every expected date.                            *)
THEOREM CompletedStaysSeeded == Spec => []CompletedIsSeeded
<1>1. IInv => CompletedIsSeeded
    BY DEF IInv
<1> QED  BY <1>1, Invariance, PTL

(* The month has one winner, in every interleaving of its releases.        *)
THEOREM WinnerIsOne == Spec => []OneWinner
<1>1. IInv => OneWinner
    BY DEF IInv
<1> QED  BY <1>1, Invariance, PTL

-----------------------------------------------------------------------------
Kept(r) ==
    /\ status[r] \in Closed => /\ status'[r] = status[r]
                               /\ successor'[r] = successor[r]
    /\ last'[r] >= last[r]

LEMMA KeptByStep ==
    ASSUME IInv, [Next]_vars, NEW r \in Requests
    PROVE  Kept(r)
<1>0. last[r] \in Nat /\ (status[r] \in Closed => status[r] \notin Live \cup {"none"})
    BY DEF IInv, TypeOK, Closed, NotRunnable, Live
<1>1. CASE UNCHANGED request
    BY <1>0, <1>1 DEF Kept, request
<1>2. ASSUME NEW s \in Snaps, NEW d \in Decisions[s], Commit(s, d), CommitWinner(s, d)
      PROVE  Kept(r)
    BY <1>0, <1>2 DEF CommitWinner, StatusAfter, Superseded, Kept
<1>3. ASSUME NEW s \in Snaps, MonthlyStep(s)
      PROVE  Kept(r)
  <2>1. ASSUME NEW d \in Decisions[s], Commit(s, d)
        PROVE  CommitWinner(s, d) \/ UNCHANGED request
      BY <2>1, Zenon DEF Commit, CommitLoser
  <2> QED  BY <1>1, <1>2, <1>3, <2>1 DEF MonthlyStep, Stage, Interrupt, MarkOrphan, ReRun
<1>4. ASSUME NEW k \in Requests, NEW q \in Chunks, MarkDispatched(k, q)
      PROVE  Kept(r)
  <2>1. status[k] \in Live
      BY <1>4, HeldIsLive DEF MarkDispatched
  <2> QED  BY <1>0, <1>4, <2>1 DEF MarkDispatched, IInv, TypeOK, Kept
<1>5. ASSUME NEW k \in Requests, NEW q \in Chunks, FailOutbox(k, q)
      PROVE  Kept(r)
  <2>1. status[k] \in Live
      BY <1>5, HeldIsLive DEF FailOutbox
  <2> QED  BY <1>0, <1>5, <2>1 DEF FailOutbox, IInv, TypeOK, Kept
<1>6. ASSUME NEW k \in Requests, NEW q \in Chunks, FinishChunk(k, q)
      PROVE  Kept(r)
  <2>1. status[k] \in Live
      BY <1>6, HeldIsLive DEF FinishChunk
  <2>2. \E v : status' = [status EXCEPT ![k] = v]
      BY <1>6, Zenon DEF FinishChunk
  <2>3. successor' = successor /\ last' = last
      BY <1>6 DEF FinishChunk
  <2> QED  BY <1>0, <2>1, <2>2, <2>3 DEF IInv, TypeOK, Kept
<1>7. ASSUME NEW k \in Requests, NEW d \in 1..NumDates, Progress(k, d)
      PROVE  Kept(r)
  <2>1. last'[r] >= last[r]
      BY <1>0, <1>7, BoundsAssumption DEF Progress, LastAfter, IInv, TypeOK
  <2>2. status[r] \in Closed => status'[r] = status[r]
      BY <1>7 DEF Progress, IInv, TypeOK
  <2> QED  BY <1>7, <2>1, <2>2 DEF Progress, Kept
<1>8. ASSUME NEW X \in SUBSET HeldRows, NEW C \in SUBSET (Requests \X Chunks),
             ReconcileOutbox(X) \/ ClaimOutbox(X, C)
      PROVE  Kept(r)
    BY <1>1, <1>8 DEF ReconcileOutbox, ClaimOutbox, NextToken
<1>9. CASE UNCHANGED vars
    BY <1>1, <1>9 DEF vars
<1> QED  BY <1>1, <1>3, <1>4, <1>5, <1>6, <1>7, <1>8, <1>9 DEF Next, OutboxStep, ReconcileOutbox

(* A closed request keeps its status and its successor, and no request     *)
(* loses progress: finish and mark, which do not look at the status of     *)
(* the request, cannot reopen what a new canonical release superseded.     *)
THEOREM ClosedStay == Spec => ClosedRequestsStay
<1>1. IInv /\ [Next]_vars => \A r \in Requests : Kept(r)
    BY KeptByStep
<1>2. IInv /\ [Next]_vars =>
         [\A r \in Requests :
             /\ status[r] \in Closed => /\ status'[r] = status[r]
                                        /\ successor'[r] = successor[r]
             /\ last'[r] >= last[r]]_vars
    BY <1>1 DEF Kept
<1> QED  BY <1>2, Invariance, PTL DEF Spec, ClosedRequestsStay

-----------------------------------------------------------------------------
(* The links, while no run has failed and once feature_start is set.       *)
FeatureStarted == \A s \in Snaps : \A d \in Decisions[s] : d.outcome # "deferred"

StagedIsPending == \A s \in Snaps : cli[s] = "staged" => snap[s] = "pending"

Committed(s) == snap[s] = "committed"

MonthHasCanonical ==
    (\E s \in Snaps : Committed(s)) => \E w \in Snaps : Committed(w) /\ IsCanonical(w)

LinkInv == TypeOK /\ StagedIsPending /\ MonthHasCanonical /\ LinkedByRank

(* A run is counted when it starts, so one run again is not the first.     *)
RunsFit == \A s \in Snaps : cli[s] # "idle" => runs[s] > 0

LEMMA WinnerIsCanonical ==
    ASSUME LinkInv, NEW w \in Snaps, Committed(w), IsCanonical(w)
    PROVE  {l[1] : l \in winner} = {w}
<1>1. Order \in [Snaps -> Nat]
    BY OrderAssumption
<1>2. ~\E t \in Snaps : snap[t] = "committed" /\ Order[t] > Order[w]
    BY <1>1 DEF IsCanonical
<1> QED  BY <1>2 DEF LinkInv, LinkedByRank, Committed

LEMMA LinkStep ==
    ASSUME FeatureStarted, LinkInv, TypeOK', NEW s \in Snaps, NEW d \in Decisions[s], Commit(s, d),
           ~Raises(s, d), NoRunFailed'
    PROVE  LinkInv'
<1> USE DEF FeatureStarted, LinkInv
<1>0. /\ d.req \in Requests /\ Order \in [Snaps -> Nat] /\ NoRequest \notin Requests
      /\ \A t, u \in Snaps : Order[t] = Order[u] => t = u
    BY DecisionFits, OrderAssumption, NoRequestAssumption
<1>1. /\ snap' = [snap EXCEPT ![s] = "committed"]
      /\ cli' = [cli EXCEPT ![s] = "ok"]
      /\ IF IsCanonical(s) THEN CommitWinner(s, d) ELSE CommitLoser(s)
  <2>1. cli'[s] # "failing"
      BY DEF NoRunFailed
  <2> QED  BY <2>1 DEF Commit, TypeOK
<1>2. \A t \in Snaps : Committed(t)' <=> t = s \/ Committed(t)
    BY <1>1 DEF TypeOK, Committed
<1>3. StagedIsPending'
    BY <1>1 DEF TypeOK, StagedIsPending
<1>4. CASE IsCanonical(s)
  <2>1. CommitWinner(s, d)
      BY <1>1, <1>4
  <2>2. MonthHasCanonical'
    <3>1. IsCanonical(s)'
        BY <1>0, <1>2, <1>4 DEF IsCanonical, Committed
    <3> QED  BY <1>2, <3>1 DEF MonthHasCanonical
  <2>3. {l[1] : l \in winner'} = {s}
    <3>1. winner' = {l \in winner : l[1] = s} \cup {<<s, d.req>>}
        BY <2>1 DEF CommitWinner, WinnerAfter
    <3>2. <<s, d.req>>[1] = s
        OBVIOUS
    <3>3. \A l \in winner' : l[1] = s
        BY <3>1, <3>2
    <3> QED  BY <3>1, <3>2, <3>3
  <2>4. \A t \in Snaps : Committed(t)' /\ t # s => loser'[t] # NoRequest /\ Order[t] < Order[s]
    <3>1. \A t \in Snaps : Committed(t) /\ t # s => loser'[t] # NoRequest
        BY <1>0, <2>1 DEF CommitWinner, Committed, TypeOK
    <3>2. \A t \in Snaps : Committed(t) /\ t # s => Order[t] < Order[s]
        BY <1>0, <1>4 DEF IsCanonical, Committed
    <3> QED  BY <1>2, <3>1, <3>2
  <2>5. LinkedByRank'
    <3> SUFFICES ASSUME NEW t \in Snaps, Committed(t)'
                 PROVE  IF \E u \in Snaps : Committed(u)' /\ Order[u] > Order[t]
                        THEN loser'[t] # NoRequest
                        ELSE {l[1] : l \in winner'} = {t}
        BY DEF LinkedByRank, Committed
    <3>1. CASE t = s
      <4>1. ~\E u \in Snaps : Committed(u)' /\ Order[u] > Order[t]
          BY <1>0, <2>4, <3>1
      <4> QED  BY <2>3, <3>1, <4>1
    <3>2. CASE t # s
      <4>1. Committed(s)' /\ Order[s] > Order[t]
          BY <1>0, <1>2, <2>4, <3>2
      <4> QED  BY <2>4, <3>2, <4>1
    <3> QED  BY <3>1, <3>2
  <2> QED  BY <1>3, <2>2, <2>5
<1>5. CASE ~IsCanonical(s)
  <2>1. CommitLoser(s)
      BY <1>1, <1>5
  <2>2. PICK x \in Snaps : Committed(x) /\ Order[x] > Order[s]
      BY <1>0, <1>5 DEF IsCanonical, Committed
  <2>3. PICK w \in Snaps :
           /\ Committed(w) /\ IsCanonical(w)
           /\ w = CHOOSE t \in Snaps : snap[t] = "committed" /\ IsCanonical(t)
      BY <2>2 DEF MonthHasCanonical, Committed
  <2>4. Order[w] > Order[s] /\ w # s
      BY <1>0, <2>2, <2>3 DEF IsCanonical, Committed
  <2>5. {l[1] : l \in winner} = {w}
      BY <2>3, WinnerIsCanonical
  <2>6. PICK r \in Requests : <<w, r>> \in winner
    <3>1. PICK l \in winner : l[1] = w
        BY <2>5
    <3>2. l \in Snaps \X Requests
        BY DEF TypeOK
    <3>3. l = <<w, l[2]>> /\ l[2] \in Requests
        BY <3>1, <3>2
    <3> QED  BY <3>3
  <2>7. loser'[s] # NoRequest /\ winner' = winner /\ \A t \in Snaps : t # s => loser'[t] = loser[t]
    <3>1. {k \in Requests : <<w, k>> \in winner} # {}
        BY <2>6
    <3>2. \/ loser[s] # NoRequest /\ loser' = loser
          \/ \E k \in Requests : loser' = [loser EXCEPT ![s] = k]
        BY <2>1, <2>3, <3>1 DEF CommitLoser
    <3>3. winner' = winner
        BY <2>1 DEF CommitLoser
    <3> QED  BY <1>0, <3>2, <3>3 DEF TypeOK
  <2>8. IsCanonical(w)' /\ Committed(w)'
      BY <1>0, <1>2, <2>3, <2>4 DEF IsCanonical, Committed
  <2>9. LinkedByRank'
    <3> SUFFICES ASSUME NEW t \in Snaps, Committed(t)'
                 PROVE  IF \E u \in Snaps : Committed(u)' /\ Order[u] > Order[t]
                        THEN loser'[t] # NoRequest
                        ELSE {l[1] : l \in winner'} = {t}
        BY DEF LinkedByRank, Committed
    <3>1. CASE t = s
        BY <2>4, <2>7, <2>8, <3>1
    <3>2. CASE t # s
      <4>1. Committed(t)
          BY <1>2, <3>2
      <4>2. (\E u \in Snaps : Committed(u)' /\ Order[u] > Order[t])
               <=> \E u \in Snaps : Committed(u) /\ Order[u] > Order[t]
          BY <1>0, <1>2, <2>3, <2>4
      <4> QED  BY <2>7, <3>2, <4>1, <4>2 DEF LinkedByRank, Committed
    <3> QED  BY <3>1, <3>2
  <2> QED  BY <1>3, <2>3, <2>8, <2>9 DEF MonthHasCanonical
<1> QED  BY <1>4, <1>5

LEMMA LinksKept ==
    ASSUME LinkInv, TypeOK', StagedIsPending', winner' = winner, loser' = loser,
           \A t \in Snaps : Committed(t)' <=> Committed(t)
    PROVE  LinkInv'
<1>1. MonthHasCanonical'
    BY DEF LinkInv, MonthHasCanonical, IsCanonical, Committed
<1>2. LinkedByRank'
    BY DEF LinkInv, LinkedByRank, Committed
<1> QED  BY <1>1, <1>2 DEF LinkInv

LEMMA LinkNext ==
    ASSUME FeatureStarted, LinkInv, TypeOK', [Next]_vars, NoRunFailed, NoRunFailed'
    PROVE  LinkInv'
<1>0. TypeOK /\ StagedIsPending
    BY DEF LinkInv
<1>1. CASE UNCHANGED <<monthly, links>>
    BY <1>0, <1>1, LinksKept DEF monthly, links, StagedIsPending, Committed
<1>2. ASSUME NEW s \in Snaps, MonthlyStep(s) PROVE LinkInv'
  <2>0. cli[s] # "failing" /\ cli'[s] \notin {"failing", "error"} /\ (cli'[s] = "idle" => runs'[s] = 0)
      BY DEF NoRunFailed
  <2>1. CASE Stage(s)
    <3>1. /\ cli'[s] = "staged" => snap'[s] = "pending"
          /\ \A t \in Snaps : t # s => cli'[t] = cli[t] /\ snap'[t] = snap[t]
        BY <1>0, <2>1 DEF Stage, TypeOK
    <3>2. StagedIsPending'
        BY <1>0, <3>1 DEF StagedIsPending
    <3>3. \A t \in Snaps : Committed(t)' <=> Committed(t)
        BY <1>0, <2>1, <3>1 DEF Stage, TypeOK, Committed
    <3> QED  BY <2>1, <3>2, <3>3, LinksKept DEF Stage, links
  <2>2. ASSUME NEW d \in Decisions[s], Commit(s, d) PROVE LinkInv'
    <3>1. ~Raises(s, d)
        BY <1>0, <2>0, <2>2 DEF Commit, TypeOK
    <3> QED  BY <2>2, <3>1, LinkStep
  <2>3. ~Interrupt(s)
      BY <1>0, <2>0 DEF Interrupt, TypeOK
  <2>4. ~MarkOrphan(s)
      BY <2>0 DEF MarkOrphan
  <2>5. ~ReRun(s)
    <3>1. runs[s] = 0 <=> cli[s] = "idle"
        BY DEF NoRunFailed
    <3> QED  BY <1>0, <2>0, <3>1 DEF ReRun, TypeOK
  <2> QED  BY <1>2, <2>1, <2>2, <2>3, <2>4, <2>5 DEF MonthlyStep
<1>3. CASE OutboxStep
    BY <1>1, <1>3 DEF OutboxStep, ReconcileOutbox, ClaimOutbox, NextToken, MarkDispatched, FailOutbox,
       FinishChunk, Progress
<1> QED  BY <1>1, <1>2, <1>3 DEF Next, vars

(* A month with a failed run stays one.                                    *)
LEMMA FailedStays ==
    ASSUME TypeOK, RunsFit, [Next]_vars
    PROVE  RunsFit' /\ (NoRunFailed' => NoRunFailed)
<1>1. CASE UNCHANGED monthly
    BY <1>1 DEF monthly, RunsFit, NoRunFailed
<1>2. ASSUME NEW s \in Snaps, MonthlyStep(s) PROVE RunsFit' /\ (NoRunFailed' => NoRunFailed)
  <2>1. \A t \in Snaps : t # s => cli'[t] = cli[t] /\ runs'[t] = runs[t]
      BY <1>2 DEF TypeOK, MonthlyStep, Stage, Commit, Interrupt, MarkOrphan, ReRun
  <2>2. \/ /\ cli[s] = "idle" /\ cli'[s] \in {"ok", "staged"} /\ runs'[s] = runs[s] + 1
        \/ /\ cli[s] \in {"staged", "failing"} /\ runs'[s] = runs[s]
           /\ cli'[s] \in {"ok", "failing", "error"}
           /\ cli[s] = "failing" => cli'[s] = "error"
        \/ cli[s] \in {"ok", "error"} /\ cli'[s] = "idle" /\ runs'[s] = runs[s]
      BY <1>2 DEF TypeOK, MonthlyStep, Stage, Commit, Interrupt, MarkOrphan, ReRun
  <2>3. runs[s] \in Nat /\ (cli[s] # "idle" => runs[s] > 0)
      BY DEF TypeOK, RunsFit
  <2>4. RunsFit'
      BY <2>1, <2>2, <2>3 DEF RunsFit
  <2>5. ASSUME NoRunFailed' PROVE NoRunFailed
    <3>1. /\ cli'[s] \in {"idle", "staged", "ok"}
          /\ runs'[s] = IF cli'[s] = "idle" THEN 0 ELSE 1
        BY <2>5 DEF NoRunFailed
    <3>2. cli[s] \in {"idle", "staged", "ok"} /\ runs[s] = IF cli[s] = "idle" THEN 0 ELSE 1
        BY <2>2, <2>3, <3>1
    <3> QED  BY <2>1, <2>5, <3>2 DEF NoRunFailed
  <2> QED  BY <2>4, <2>5
<1>3. CASE OutboxStep
    BY <1>1, <1>3 DEF OutboxStep, ReconcileOutbox, ClaimOutbox, NextToken, MarkDispatched, FailOutbox,
       FinishChunk, Progress
<1> QED  BY <1>1, <1>2, <1>3 DEF Next, vars

(* While no run of the month has failed, whatever order its releases       *)
(* commit in, the canonical one alone is linked as the winner and every    *)
(* other committed one is linked as a loser.                               *)
THEOREM CanonicalStaysLinked ==
    ASSUME FeatureStarted
    PROVE  Spec => []CanonicalIsLinked
<1>1. Init => RunsFit /\ (NoRunFailed => LinkInv)
    BY InitIInv DEF IInv, LinkInv, Init, StagedIsPending, MonthHasCanonical, Committed, LinkedByRank,
       RunsFit
<1>2. IInv /\ RunsFit /\ (NoRunFailed => LinkInv) /\ IInv' /\ [Next]_vars
         => RunsFit' /\ (NoRunFailed => LinkInv)'
    BY LinkNext, FailedStays DEF IInv
<1>3. (NoRunFailed => LinkInv) => CanonicalIsLinked
    BY DEF LinkInv, CanonicalIsLinked
<1> QED  BY <1>1, <1>2, <1>3, Invariance, PTL DEF Spec
=============================================================================
