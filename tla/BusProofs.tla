------------------------------ MODULE BusProofs ------------------------------
(***************************************************************************)
(* Proofs about the two buses between the database and the bucket: what    *)
(* PublishBus claims of the runs of a date, and CacheBus of the warm       *)
(* caches, for any number of runs, puts and contents.  Both protocols are  *)
(* sequences of single calls, so the inductive invariants say what is      *)
(* known at each place of a sequence although others may have called, too. *)
(***************************************************************************)
EXTENDS PublishBus, CacheBus, SequenceTheorems, TLAPS

(***************************************************************************)
(* The runs of a date.                                                     *)
(***************************************************************************)

(* What an attempt knows: its place and the jobs it keeps, the row while   *)
(* its file is stored and committed, and that a run which publishes is     *)
(* recorded as no success before it has.                                   *)
AttemptFits(r) ==
    /\ ~RunAt(r, "over") => runRow[r].started # "week"
    /\ RunAt(r, "closed") => job[r].from = "closed"
    /\ job[r].from = "closed" => job[r].pc \in {"over", "closed"}
    /\ job[r].from = "won" => job[r].pc \in {"over", "won"}
    /\ RunAt(r, "publish") => ~job[r].skip
    /\ job[r].pc \in {"file", "manifest", "commit", "orphan"} => runRow[r].status # "success"
    /\ job[r].pc \in {"file", "manifest", "commit"} =>
        pubRow[r].status # "committed" /\ pubRow[r].file = job[r].got
    /\ job[r].pc \in {"manifest", "commit"} /\ published.by = r => published.file = job[r].got
    /\ RunAt(r, "restate") => pubRow[r].status = "committed"
    /\ RunAt(r, "won") \/ job[r].from = "won" => job[r].skip \/ pubRow[r].status = "committed"

(* What the tools know: the sweeper has listed orphans of old runs, and    *)
(* what reconcile-manifest has read still stands but for a withdrawal.     *)
ToolsFit(r) ==
    /\ r \in swept => runRow[r].started = "week" /\ pubRow[r].status = "orphan"
    /\ \A l \in look : l.run = r /\ r \notin withdrawn =>
                        pubRow[r] = [status |-> "committed", file |-> l.file]

RunFits(r) == AttemptFits(r) /\ ToolsFit(r)

RunInv ==
    /\ RunTypeOK /\ ManifestIsBacked /\ FileIsAsRecorded /\ SuccessIsPublished
    /\ manifest.status = "committed" => manifest.run \in Runs
    /\ \A r \in Runs : RunFits(r)

LEMMA RunInitHolds == RunInit => RunInv
<1> SUFFICES ASSUME RunInit PROVE RunInv
    OBVIOUS
<1>1. RunTypeOK
    BY RunAssumption DEF RunInit, RunTypeOK, RunRow, Attempt, Handoff, StatusRow, PublishedObject,
       PublishedManifest, NoRow
<1>2. ManifestIsBacked /\ FileIsAsRecorded /\ SuccessIsPublished
    BY DEF RunInit, ManifestIsBacked, FileIsAsRecorded, SuccessIsPublished, NoRow
<1>3. \A r \in Runs : RunFits(r)
    BY DEF RunInit, RunFits, AttemptFits, ToolsFit, RunAt, NoRow
<1> QED BY <1>1, <1>2, <1>3 DEF RunInit, RunInv

(* A call of one run leaves what is known of another.                      *)
LEMMA OthersFit ==
    ASSUME NEW q \in Runs, RunFits(q), job'[q] = job[q], pubRow'[q] = pubRow[q],
           runRow'[q].status = runRow[q].status, runRow'[q].started = runRow[q].started,
           published' = published \/ published'.by # q,
           q \in swept' => q \in swept, withdrawn \subseteq withdrawn',
           \A l \in look' : l \in look \/ l.run # q
    PROVE  RunFits(q)'
<1>1. AttemptFits(q)'
    BY DEF RunFits, AttemptFits, RunAt
<1>2. ToolsFit(q)'
    BY DEF RunFits, ToolsFit
<1> QED BY <1>1, <1>2 DEF RunFits

(* Calls of an attempt that touch neither its row in publish_status, the   *)
(* file, the manifest nor runs.                                            *)
LEMMA AttemptGoesOn ==
    ASSUME RunInv, NEW r \in Runs, NEW a \in Attempt, job' = [job EXCEPT ![r] = a],
           ~RunAt(r, "over"), ~RunAt(r, "closed"), ~RunAt(r, "won"),
           a.pc \in {"blob", "index", "indexed", "unindex", "get", "publish", "lost"},
           a.pc = "publish" => ~a.skip,
           a.from \in {job[r].from, "get"}, a.skip = job[r].skip,
           UNCHANGED <<runRow, publication, tools>>,
           index' \in [Runs -> StatusRow], handoff' \in [Runs -> Handoff],
           runFaults' \in 0..MaxRunFaults
    PROVE  RunInv'
<1>0. UNCHANGED <<pubRow, published, manifest, withdrawn, stale, swept, look>> /\ RunFits(r)
    BY DEF publication, tools, RunInv
<1>1. job' \in [Runs -> Attempt] /\ job'[r] = a /\ \A q \in Runs \ {r} : job'[q] = job[q]
    BY DEF RunInv, RunTypeOK
<1>2. job[r].from \notin {"closed", "won"}
    BY <1>0 DEF RunFits, AttemptFits, RunAt
<1>3. RunFits(r)'
    BY <1>0, <1>1, <1>2 DEF RunFits, AttemptFits, ToolsFit, RunAt
<1>4. ASSUME NEW q \in Runs \ {r} PROVE RunFits(q)'
    BY <1>0, <1>1, OthersFit DEF RunInv
<1>5. SuccessIsPublished'
    BY <1>0, <1>1, <1>2 DEF RunInv, SuccessIsPublished
<1>6. RunTypeOK' /\ ManifestIsBacked' /\ FileIsAsRecorded'
    BY <1>0, <1>1 DEF RunInv, RunTypeOK, ManifestIsBacked, FileIsAsRecorded
<1> QED BY <1>0, <1>3, <1>4, <1>5, <1>6 DEF RunInv

LEMMA HandoffKeeps ==
    ASSUME RunInv, NEW r \in Runs,
           \/ PutArtifact(r) \/ InsertIndex(r) \/ OrphanIndex(r)
           \/ StoreFails(r) /\ job[r].pc \in {"artifact", "blob", "get"}
    PROVE  RunInv'
<1>0. /\ job[r] \in Attempt /\ handoff[r] \in Handoff /\ index[r] \in StatusRow /\ runFaults \in 0..MaxRunFaults
      /\ job \in [Runs -> Attempt] /\ handoff \in [Runs -> Handoff] /\ index \in [Runs -> StatusRow]
    BY DEF RunInv, RunTypeOK
<1>a. ASSUME NEW pc \in {"blob", "index", "indexed", "unindex", "get", "lost"}, RunGoto(r, pc)
      PROVE  \E a \in Attempt : /\ job' = [job EXCEPT ![r] = a] /\ a.pc = pc
                                /\ a.from = job[r].from /\ a.skip = job[r].skip
    <2> DEFINE a == [job[r] EXCEPT !.pc = pc]
    <2>1. /\ a \in Attempt /\ job' = [job EXCEPT ![r] = a] /\ a.pc = pc
          /\ a.from = job[r].from /\ a.skip = job[r].skip
        BY <1>0, <1>a DEF RunGoto, Attempt
    <2> QED BY <2>1
<1>1. CASE PutArtifact(r)
    <2>1. handoff' \in [Runs -> Handoff]
        <3>1. job[r].got \in Files \cup {NoFile}
            BY <1>0 DEF Attempt
        <3>2. CASE handoff' = [handoff EXCEPT ![r].blob = job[r].got]
            BY <1>0, <3>1, <3>2 DEF Handoff
        <3>3. CASE handoff' = [handoff EXCEPT ![r].manifest = job[r].got]
            BY <1>0, <3>1, <3>3 DEF Handoff
        <3> QED BY <1>1, <3>2, <3>3 DEF PutArtifact
    <2> QED BY <1>0, <1>a, <1>1, <2>1, AttemptGoesOn DEF PutArtifact, RunAt
<1>2. CASE InsertIndex(r)
    <2>1. index' \in [Runs -> StatusRow]
        BY <1>0, <1>2 DEF InsertIndex, StatusRow, Attempt
    <2> QED BY <1>0, <1>a, <1>2, <2>1, AttemptGoesOn DEF InsertIndex, RunAt
<1>3. CASE OrphanIndex(r)
    <2>1. index' \in [Runs -> StatusRow]
        BY <1>0, <1>3 DEF OrphanIndex, StatusRow
    <2> QED BY <1>0, <1>a, <1>3, <2>1, AttemptGoesOn DEF OrphanIndex, RunAt
<1>6. CASE StoreFails(r) /\ job[r].pc \in {"artifact", "blob", "get"}
    <2>1. runFaults' \in 0..MaxRunFaults /\ RunGoto(r, "lost")
        BY <1>0, <1>6, RunAssumption DEF StoreFails, RunFault
    <2> QED BY <1>0, <1>a, <1>6, <2>1, AttemptGoesOn DEF StoreFails, RunAt
<1> QED BY <1>1, <1>2, <1>3, <1>6

LEMMA IndexCommitKeeps ==
    ASSUME RunInv, NEW r \in Runs, NEW ok \in BOOLEAN, CommitIndex(r, ok)
    PROVE  RunInv'
<1> DEFINE pc == IF ok THEN "get" ELSE "unindex"
           from == IF ok THEN "get" ELSE job[r].from
           a == [[job[r] EXCEPT !.pc = pc] EXCEPT !.from = from]
<1>0. /\ job[r] \in Attempt /\ job \in [Runs -> Attempt] /\ RunAt(r, "indexed")
      /\ index \in [Runs -> StatusRow] /\ handoff \in [Runs -> Handoff] /\ runFaults \in 0..MaxRunFaults
    BY DEF RunInv, RunTypeOK, CommitIndex
<1>1. job' = [job EXCEPT ![r].pc = pc, ![r].from = from]
    BY DEF CommitIndex
<1>2. pc \in {"get", "unindex"} /\ from \in {job[r].from, "get"}
    OBVIOUS
<1> HIDE DEF pc, from
<1>3. /\ a \in Attempt /\ job' = [job EXCEPT ![r] = a] /\ a.pc \in {"get", "unindex"}
      /\ a.from \in {job[r].from, "get"} /\ a.skip = job[r].skip
    BY <1>0, <1>1, <1>2 DEF Attempt
<1>4. index' = [index EXCEPT ![r].status = "committed"] /\ handoff' = handoff
      /\ UNCHANGED <<runRow, publication, tools>>
    BY DEF CommitIndex
<1>5. index' \in [Runs -> StatusRow]
    BY <1>0, <1>4 DEF StatusRow
<1>6. runFaults' \in 0..MaxRunFaults
    <2>1. runFaults' = runFaults \/ RunFault
        BY DEF CommitIndex
    <2> QED BY <1>0, <2>1, RunAssumption DEF RunFault
<1> HIDE DEF a
<1> QED BY <1>0, <1>3, <1>4, <1>5, <1>6, AttemptGoesOn DEF RunAt

(* The render job: it goes on to publish only if it is to, and is through  *)
(* without a row only if it is not.                                        *)
LEMMA RenderKeeps ==
    ASSUME RunInv, NEW r \in Runs, NEW f \in Files, GetArtifact(r, f)
    PROVE  RunInv'
<1> DEFINE ok == handoff[r].blob # NoFile /\ handoff[r].blob = handoff[r].manifest
           next == IF ~ok THEN "lost" ELSE IF job[r].skip THEN "won" ELSE "publish"
           a == [job[r] EXCEPT !.pc = next, !.got = f, !.from = IF next = "won" THEN "won" ELSE @]
<1>0. /\ job[r] \in Attempt /\ job \in [Runs -> Attempt] /\ RunAt(r, "get") /\ RunFits(r)
      /\ UNCHANGED <<runRow, handoff, index, publication, tools, runFaults>>
      /\ handoff \in [Runs -> Handoff] /\ index \in [Runs -> StatusRow] /\ runFaults \in 0..MaxRunFaults
    BY DEF RunInv, RunTypeOK, GetArtifact
<1>1. /\ a \in Attempt /\ job' = [job EXCEPT ![r] = a] /\ a.pc = next /\ a.skip = job[r].skip
      /\ a.from = IF next = "won" THEN "won" ELSE job[r].from
    BY <1>0 DEF GetArtifact, Attempt
<1>2. /\ next \in {"lost", "won", "publish"}
      /\ next = "won" => job[r].skip
      /\ next = "publish" => ~job[r].skip
    OBVIOUS
<1> HIDE DEF ok, next, a
<1>3. CASE next # "won"
    BY <1>0, <1>1, <1>2, <1>3, AttemptGoesOn DEF RunAt
<1>4. CASE next = "won"
    <2>1. job' \in [Runs -> Attempt] /\ job'[r] = a /\ \A q \in Runs \ {r} : job'[q] = job[q]
        BY <1>0, <1>1
    <2>2. UNCHANGED <<pubRow, published, manifest, withdrawn, stale, swept, look, runRow>>
        BY <1>0 DEF publication, tools
    <2>3. job[r].skip /\ job[r].from # "closed"
        BY <1>0, <1>2, <1>4 DEF RunFits, AttemptFits, RunAt
    <2>4. RunFits(r)'
        BY <1>0, <1>1, <1>4, <2>1, <2>2, <2>3 DEF RunFits, AttemptFits, ToolsFit, RunAt
    <2>5. ASSUME NEW q \in Runs \ {r} PROVE RunFits(q)'
        BY <2>1, <2>2, OthersFit DEF RunInv
    <2>6. SuccessIsPublished'
        BY <1>1, <2>1, <2>2, <2>3 DEF RunInv, SuccessIsPublished
    <2>7. RunTypeOK' /\ ManifestIsBacked' /\ FileIsAsRecorded'
        BY <1>0, <2>1, <2>2 DEF RunInv, RunTypeOK, ManifestIsBacked, FileIsAsRecorded
    <2> QED BY <2>2, <2>4, <2>5, <2>6, <2>7 DEF RunInv
<1> QED BY <1>3, <1>4

(* What a step leaves to show that touches only the attempt, the row in    *)
(* publish_status, the file and the manifest of one run.                   *)
LEMMA OneRunKeeps ==
    ASSUME RunInv, NEW r \in Runs, NEW a \in Attempt, NEW row \in StatusRow,
           job' = [job EXCEPT ![r] = a], pubRow' = [pubRow EXCEPT ![r] = row],
           published' = published \/ (published' \in PublishedObject /\ published'.by = r),
           manifest' \in PublishedManifest, withdrawn \subseteq withdrawn', withdrawn' \subseteq Runs,
           a.from = job[r].from \/ a.from = "won", a.skip = job[r].skip, job[r].from # "closed",
           UNCHANGED <<runRow, handoff, index, tools>>, runFaults' \in 0..MaxRunFaults,
           ManifestIsBacked', manifest'.status = "committed" => manifest'.run \in Runs,
           row.status = "committed" /\ published'.by = r => published'.file = row.file,
           runRow[r].status = "success" => row.status = "committed" \/ job[r].skip,
           RunFits(r)'
    PROVE  RunInv'
<1>0. UNCHANGED <<stale, swept, look>>
    BY DEF tools
<1>1. /\ job' \in [Runs -> Attempt] /\ job'[r] = a /\ \A q \in Runs \ {r} : job'[q] = job[q]
      /\ pubRow' \in [Runs -> StatusRow] /\ pubRow'[r] = row /\ \A q \in Runs \ {r} : pubRow'[q] = pubRow[q]
    BY DEF RunInv, RunTypeOK
<1>2. ASSUME NEW q \in Runs \ {r} PROVE RunFits(q)'
    BY <1>0, <1>1, OthersFit DEF RunInv
<1>3. FileIsAsRecorded'
    BY <1>1 DEF RunInv, FileIsAsRecorded
<1>4. SuccessIsPublished'
    BY <1>1 DEF RunInv, SuccessIsPublished
<1>5. RunTypeOK'
    BY <1>0, <1>1 DEF RunInv, RunTypeOK
<1> QED BY <1>2, <1>3, <1>4, <1>5 DEF RunInv

LEMMA GoesTo ==
    ASSUME RunInv, NEW r \in Runs,
           NEW pc \in {"file", "manifest", "commit", "orphan", "restate", "lost"}, RunGoto(r, pc)
    PROVE  \E a \in Attempt : /\ job' = [job EXCEPT ![r] = a] /\ a.pc = pc
                              /\ a.got = job[r].got /\ a.skip = job[r].skip /\ a.from = job[r].from
<1> DEFINE a == [job[r] EXCEPT !.pc = pc]
<1>1. job[r] \in Attempt /\ job \in [Runs -> Attempt]
    BY DEF RunInv, RunTypeOK
<1>2. /\ a \in Attempt /\ a.pc = pc /\ a.got = job[r].got /\ a.skip = job[r].skip
      /\ a.from = job[r].from
    BY <1>1 DEF Attempt
<1>3. job' = [job EXCEPT ![r] = a]
    BY <1>1 DEF RunGoto
<1> QED BY <1>2, <1>3

(* The row in publish_status.                                              *)
LEMMA InsertPublishKeeps == ASSUME RunInv, NEW r \in Runs, InsertPublish(r) PROVE RunInv'
<1> DEFINE was == pubRow[r]
           same == was.status = "committed"
           pc == IF same THEN IF was.file = job[r].got THEN "restate" ELSE "lost" ELSE "file"
           row == IF same THEN was ELSE [status |-> "pending", file |-> job[r].got]
<1>0. /\ job[r] \in Attempt /\ was \in StatusRow /\ pubRow \in [Runs -> StatusRow] /\ RunAt(r, "publish")
      /\ RunFits(r) /\ runFaults \in 0..MaxRunFaults /\ manifest \in PublishedManifest /\ withdrawn \subseteq Runs
      /\ UNCHANGED <<runRow, handoff, index, published, manifest, withdrawn, tools, runFaults>>
    BY DEF RunInv, RunTypeOK, InsertPublish
<1>1. RunGoto(r, pc) /\ pubRow' = [pubRow EXCEPT ![r] = row]
    BY <1>0 DEF InsertPublish
<1>2. /\ pc \in {"restate", "lost", "file"} /\ row \in StatusRow /\ row.status \in {"committed", "pending"}
      /\ same => row = was
      /\ pc = "restate" => row.status = "committed"
      /\ pc = "file" => row.status = "pending" /\ row.file = job[r].got /\ ~same
      /\ row.status = "committed" => same
    BY <1>0 DEF StatusRow, Attempt
<1>3. PICK a \in Attempt :
            /\ job' = [job EXCEPT ![r] = a] /\ a.pc = pc
            /\ a.got = job[r].got /\ a.skip = job[r].skip /\ a.from = job[r].from
    BY <1>1, <1>2, GoesTo
<1> HIDE DEF pc, row
<1>4. job'[r] = a /\ pubRow'[r] = row /\ (\A q \in Runs \ {r} : pubRow'[q] = pubRow[q])
    BY <1>0, <1>1, <1>3 DEF RunInv, RunTypeOK
<1>5. job[r].from \notin {"closed", "won"} /\ ~job[r].skip /\ (runRow[r].status = "success" => same)
    <2>1. job[r].from \notin {"closed", "won"} /\ ~job[r].skip
        BY <1>0 DEF RunFits, AttemptFits, RunAt
    <2> QED BY <2>1 DEF RunInv, SuccessIsPublished
<1>6. ManifestIsBacked'
    <2>1. manifest.status = "committed" /\ manifest.run = r /\ r \notin withdrawn => same
        BY DEF RunInv, ManifestIsBacked
    <2> QED BY <1>0, <1>2, <1>4, <2>1 DEF RunInv, ManifestIsBacked
<1>7. row.status = "committed" /\ published'.by = r => published'.file = row.file
    BY <1>0, <1>2 DEF RunInv, FileIsAsRecorded
<1>8. RunFits(r)'
    <2>1. AttemptFits(r)'
        BY <1>0, <1>2, <1>3, <1>4, <1>5 DEF RunFits, AttemptFits, RunAt
    <2>2. ToolsFit(r)'
        <3>1. swept' = swept /\ look' = look /\ withdrawn' = withdrawn /\ runRow' = runRow
            BY <1>0 DEF tools
        <3>2. r \notin swept
            BY <1>0 DEF RunFits, AttemptFits, ToolsFit, RunAt
        <3>3. ASSUME NEW l \in look, l.run = r, r \notin withdrawn PROVE same
            BY <1>0, <3>3 DEF RunFits, ToolsFit
        <3> QED BY <1>0, <1>2, <1>4, <3>1, <3>2, <3>3 DEF RunFits, ToolsFit
    <2> QED BY <2>1, <2>2 DEF RunFits
<1> HIDE DEF same, was
<1>9. runRow[r].status = "success" => row.status = "committed" \/ job[r].skip
    BY <1>2, <1>5 DEF same
<1>10. manifest.status = "committed" => manifest.run \in Runs
    BY DEF RunInv
<1> QED BY <1>0, <1>1, <1>2, <1>3, <1>5, <1>6, <1>7, <1>8, <1>9, <1>10, OneRunKeeps

(* The file, then the pending manifest.                                    *)
LEMMA PutPublishedKeeps == ASSUME RunInv, NEW r \in Runs, PutPublished(r) PROVE RunInv'
<1> DEFINE pc == IF RunAt(r, "file") THEN "manifest" ELSE "commit"
<1>0. /\ job[r] \in Attempt /\ pubRow[r] \in StatusRow /\ pubRow \in [Runs -> StatusRow]
      /\ RunFits(r) /\ runFaults \in 0..MaxRunFaults /\ manifest \in PublishedManifest /\ withdrawn \subseteq Runs
      /\ UNCHANGED <<runRow, handoff, index, pubRow, withdrawn, tools, runFaults>>
      /\ RunAt(r, "file") \/ RunAt(r, "manifest")
    BY DEF RunInv, RunTypeOK, PutPublished
<1>1. /\ RunGoto(r, pc)
      /\ RunAt(r, "file") => published' = [file |-> job[r].got, by |-> r] /\ manifest' = manifest
      /\ ~RunAt(r, "file") => published' = published
                               /\ manifest' = [run |-> r, file |-> job[r].got, status |-> "pending"]
    BY DEF PutPublished, RunAt, ManifestOf
<1>2. pc \in {"manifest", "commit"}
    OBVIOUS
<1>3. PICK a \in Attempt :
            /\ job' = [job EXCEPT ![r] = a] /\ a.pc = pc
            /\ a.got = job[r].got /\ a.skip = job[r].skip /\ a.from = job[r].from
    BY <1>1, <1>2, GoesTo
<1>4. job'[r] = a /\ pubRow' = [pubRow EXCEPT ![r] = pubRow[r]] /\ pubRow' = pubRow
    BY <1>0, <1>3 DEF RunInv, RunTypeOK
<1>5. /\ job[r].from \notin {"closed", "won"} /\ runRow[r].status # "success"
      /\ pubRow[r].status # "committed" /\ pubRow[r].file = job[r].got
    BY <1>0 DEF RunFits, AttemptFits, RunAt
<1>6. published' = published \/ (published' \in PublishedObject /\ published'.by = r /\ published'.file = job[r].got)
    BY <1>0, <1>1 DEF PublishedObject, Attempt
<1>7. manifest' = manifest \/ (manifest' \in PublishedManifest /\ manifest'.status = "pending")
    BY <1>0, <1>1 DEF PublishedManifest, Attempt
<1>8. ManifestIsBacked' /\ (manifest'.status = "committed" => manifest'.run \in Runs)
    BY <1>0, <1>4, <1>7 DEF RunInv, ManifestIsBacked
<1>9. pc = "commit" => RunAt(r, "manifest") /\ published' = published
    BY <1>0, <1>1 DEF RunAt
<1>10. pc = "manifest" => published'.file = job[r].got
    BY <1>1 DEF RunAt
<1> HIDE DEF pc
<1>11. RunFits(r)'
    <2>1. AttemptFits(r)'
        <3>1. published'.by = r => published'.file = job[r].got
            BY <1>0, <1>2, <1>9, <1>10 DEF RunFits, AttemptFits, RunAt
        <3>2. runRow[r].started # "week"
            BY <1>0 DEF RunFits, AttemptFits, RunAt
        <3> QED BY <1>0, <1>2, <1>3, <1>4, <1>5, <3>1, <3>2 DEF AttemptFits, RunAt
    <2>2. ToolsFit(r)'
        BY <1>0, <1>4 DEF RunFits, ToolsFit, tools
    <2> QED BY <2>1, <2>2 DEF RunFits
<1>12. manifest' \in PublishedManifest
    BY <1>0, <1>7
<1> QED BY <1>0, <1>3, <1>4, <1>5, <1>6, <1>8, <1>11, <1>12, OneRunKeeps

(* The commit, whether its answer comes or not.                            *)
LEMMA CommitPublishKeeps ==
    ASSUME RunInv, NEW r \in Runs,
           CommitPublish(r) \/ \E ran \in BOOLEAN : CommitPublishUnanswered(r, ran)
    PROVE  RunInv'
<1>0. /\ job[r] \in Attempt /\ pubRow[r] \in StatusRow /\ pubRow \in [Runs -> StatusRow] /\ RunAt(r, "commit")
      /\ RunFits(r) /\ runFaults \in 0..MaxRunFaults /\ manifest \in PublishedManifest /\ withdrawn \subseteq Runs
      /\ UNCHANGED <<runRow, handoff, index, published, manifest, withdrawn, tools>>
    BY DEF RunInv, RunTypeOK, CommitPublish, CommitPublishUnanswered
<1>1. PICK pc \in {"restate", "orphan"}, status \in {pubRow[r].status, "committed"} :
            /\ RunGoto(r, pc) /\ pubRow' = [pubRow EXCEPT ![r] = [pubRow[r] EXCEPT !.status = status]]
            /\ pc = "restate" => status = "committed"
    <2>1. CASE CommitPublish(r)
        BY <2>1 DEF CommitPublish
    <2>2. ASSUME NEW ran \in BOOLEAN, CommitPublishUnanswered(r, ran)
          PROVE  \E status \in {pubRow[r].status, "committed"} :
                    /\ RunGoto(r, "orphan")
                    /\ pubRow' = [pubRow EXCEPT ![r] = [pubRow[r] EXCEPT !.status = status]]
        BY <2>2 DEF CommitPublishUnanswered
    <2> QED BY <2>1, <2>2
<1>2. runFaults' \in 0..MaxRunFaults
    BY <1>0, RunAssumption DEF CommitPublish, CommitPublishUnanswered, RunFault
<1> DEFINE row == [pubRow[r] EXCEPT !.status = status]
<1>3. row \in StatusRow /\ row.status = status /\ row.file = pubRow[r].file /\ pubRow' = [pubRow EXCEPT ![r] = row]
    BY <1>0, <1>1 DEF StatusRow
<1>4. PICK a \in Attempt :
            /\ job' = [job EXCEPT ![r] = a] /\ a.pc = pc
            /\ a.got = job[r].got /\ a.skip = job[r].skip /\ a.from = job[r].from
    BY <1>1, GoesTo
<1> HIDE DEF row
<1>5. job'[r] = a /\ pubRow'[r] = row /\ (\A q \in Runs \ {r} : pubRow'[q] = pubRow[q])
    BY <1>0, <1>3, <1>4 DEF RunInv, RunTypeOK
<1>6. /\ job[r].from \notin {"closed", "won"} /\ runRow[r].status # "success" /\ runRow[r].started # "week"
      /\ pubRow[r].status # "committed" /\ pubRow[r].file = job[r].got
      /\ published.by = r => published.file = job[r].got
    BY <1>0 DEF RunFits, AttemptFits, RunAt
<1>7. ManifestIsBacked'
    <2>1. ~(manifest.status = "committed" /\ manifest.run = r /\ r \notin withdrawn)
        BY <1>6 DEF RunInv, ManifestIsBacked
    <2> QED BY <1>0, <1>5, <2>1 DEF RunInv, ManifestIsBacked
<1>8. RunFits(r)'
    <2>1. AttemptFits(r)'
        BY <1>0, <1>1, <1>3, <1>4, <1>5, <1>6 DEF AttemptFits, RunAt
    <2>2. ToolsFit(r)'
        <3>1. r \notin swept
            BY <1>0, <1>6 DEF RunFits, ToolsFit
        <3>2. ASSUME NEW l \in look, l.run = r PROVE r \in withdrawn
            BY <1>0, <1>6, <3>2 DEF RunFits, ToolsFit
        <3> QED BY <1>0, <3>1, <3>2 DEF ToolsFit, tools
    <2> QED BY <2>1, <2>2 DEF RunFits
<1>9. row.status = "committed" /\ published'.by = r => published'.file = row.file
    BY <1>0, <1>3, <1>6
<1>10. manifest'.status = "committed" => manifest'.run \in Runs
    BY <1>0 DEF RunInv
<1> QED BY <1>0, <1>2, <1>3, <1>4, <1>6, <1>7, <1>8, <1>9, <1>10, OneRunKeeps

(* The mark of the handler: a committed row is withdrawn by it.            *)
LEMMA OrphanPublishKeeps ==
    ASSUME RunInv, NEW r \in Runs, NEW marked \in BOOLEAN, OrphanPublish(r, marked) PROVE RunInv'
<1> DEFINE status == IF marked THEN "orphan" ELSE pubRow[r].status
           row == [pubRow[r] EXCEPT !.status = status]
<1>0. /\ job[r] \in Attempt /\ pubRow[r] \in StatusRow /\ pubRow \in [Runs -> StatusRow] /\ RunAt(r, "orphan")
      /\ RunFits(r) /\ runFaults \in 0..MaxRunFaults /\ manifest \in PublishedManifest /\ withdrawn \subseteq Runs
      /\ UNCHANGED <<runRow, handoff, index, published, manifest, tools>>
    BY DEF RunInv, RunTypeOK, OrphanPublish
<1>1. /\ RunGoto(r, "lost") /\ pubRow' = [pubRow EXCEPT ![r] = row]
      /\ withdrawn \subseteq withdrawn' /\ withdrawn' \subseteq Runs
      /\ marked /\ pubRow[r].status = "committed" => r \in withdrawn'
    BY <1>0 DEF OrphanPublish
<1>2. runFaults' \in 0..MaxRunFaults
    BY <1>0, RunAssumption DEF OrphanPublish, RunFault
<1>3. /\ row \in StatusRow /\ row.file = pubRow[r].file
      /\ row = pubRow[r] \/ (row.status = "orphan" /\ marked)
    <2>1. CASE marked
        BY <1>0, <2>1 DEF StatusRow
    <2>2. CASE ~marked
        BY <1>0, <2>2 DEF StatusRow
    <2> QED BY <2>1, <2>2
<1>4. PICK a \in Attempt :
            /\ job' = [job EXCEPT ![r] = a] /\ a.pc = "lost"
            /\ a.got = job[r].got /\ a.skip = job[r].skip /\ a.from = job[r].from
    BY <1>1, GoesTo
<1> HIDE DEF status, row
<1>5. job'[r] = a /\ pubRow'[r] = row /\ (\A q \in Runs \ {r} : pubRow'[q] = pubRow[q])
    BY <1>0, <1>1, <1>4 DEF RunInv, RunTypeOK
<1>6. job[r].from \notin {"closed", "won"} /\ runRow[r].status # "success" /\ runRow[r].started # "week"
    BY <1>0 DEF RunFits, AttemptFits, RunAt
<1>7. row = pubRow[r] \/ r \in withdrawn' \/ pubRow[r].status # "committed"
    BY <1>1, <1>3
<1>8. ManifestIsBacked'
    BY <1>0, <1>1, <1>5, <1>7 DEF RunInv, ManifestIsBacked
<1>9. RunFits(r)'
    <2>1. AttemptFits(r)'
        BY <1>0, <1>4, <1>5, <1>6 DEF AttemptFits, RunAt
    <2>2. ToolsFit(r)'
        <3>1. r \notin swept
            BY <1>0, <1>6 DEF RunFits, ToolsFit
        <3>2. ASSUME NEW l \in look, l.run = r, r \notin withdrawn'
              PROVE  row = [status |-> "committed", file |-> l.file]
            BY <1>0, <1>1, <1>7, <3>2 DEF RunFits, ToolsFit
        <3> QED BY <1>0, <1>5, <3>1, <3>2 DEF ToolsFit, tools
    <2> QED BY <2>1, <2>2 DEF RunFits
<1>10. row.status = "committed" /\ published'.by = r => published'.file = row.file
    BY <1>0, <1>3 DEF RunInv, FileIsAsRecorded
<1>11. manifest'.status = "committed" => manifest'.run \in Runs
    BY <1>0 DEF RunInv
<1> QED BY <1>0, <1>1, <1>2, <1>3, <1>4, <1>6, <1>8, <1>9, <1>10, <1>11, OneRunKeeps

(* The manifest of a committed row, and the end of a publication.          *)
LEMMA RestateKeeps ==
    ASSUME RunInv, NEW r \in Runs, NEW stored \in BOOLEAN, RestateManifest(r, stored) PROVE RunInv'
<1> DEFINE a == [[job[r] EXCEPT !.pc = "won"] EXCEPT !.from = "won"]
<1>0. /\ job[r] \in Attempt /\ pubRow[r] \in StatusRow /\ pubRow \in [Runs -> StatusRow] /\ RunAt(r, "restate")
      /\ RunFits(r) /\ runFaults \in 0..MaxRunFaults /\ manifest \in PublishedManifest /\ withdrawn \subseteq Runs
      /\ UNCHANGED <<runRow, handoff, index, pubRow, published, withdrawn, tools>>
    BY DEF RunInv, RunTypeOK, RestateManifest
<1>1. /\ job' = [job EXCEPT ![r].pc = "won", ![r].from = "won"]
      /\ manifest' = manifest \/ manifest' = [run |-> r, file |-> pubRow[r].file, status |-> "committed"]
    BY DEF RestateManifest, ManifestOf
<1>2. runFaults' \in 0..MaxRunFaults
    BY <1>0, RunAssumption DEF RestateManifest, RunFault
<1>3. pubRow[r].status = "committed" /\ runRow[r].started # "week" /\ job[r].from \notin {"closed", "won"}
    BY <1>0 DEF RunFits, AttemptFits, RunAt
<1>4. /\ a \in Attempt /\ a.pc = "won" /\ a.got = job[r].got /\ a.skip = job[r].skip /\ a.from = "won"
      /\ job' = [job EXCEPT ![r] = a]
    <2>1. job \in [Runs -> Attempt]
        BY DEF RunInv, RunTypeOK
    <2>2. job' = [job EXCEPT ![r] = a]
        BY <1>1, <2>1
    <2> QED BY <1>0, <2>2 DEF Attempt
<1> HIDE DEF a
<1>5. job'[r] = a /\ pubRow' = [pubRow EXCEPT ![r] = pubRow[r]] /\ pubRow' = pubRow
    BY <1>0, <1>4 DEF RunInv, RunTypeOK
<1>6. manifest' \in PublishedManifest /\ ManifestIsBacked' /\ (manifest'.status = "committed" => manifest'.run \in Runs)
    <2>1. pubRow[r] = [status |-> "committed", file |-> pubRow[r].file]
        BY <1>0, <1>3 DEF StatusRow
    <2>2. CASE manifest' = manifest
        BY <1>0, <2>2 DEF RunInv, ManifestIsBacked
    <2>3. CASE manifest' = [run |-> r, file |-> pubRow[r].file, status |-> "committed"]
        BY <1>0, <2>1, <2>3 DEF ManifestIsBacked, PublishedManifest, StatusRow
    <2> QED BY <1>1, <2>2, <2>3
<1>7. RunFits(r)'
    <2>1. AttemptFits(r)'
        BY <1>0, <1>3, <1>4, <1>5 DEF AttemptFits, RunAt
    <2>2. ToolsFit(r)'
        BY <1>0, <1>5 DEF RunFits, ToolsFit, tools
    <2> QED BY <2>1, <2>2 DEF RunFits
<1>8. pubRow[r].status = "committed" /\ published'.by = r => published'.file = pubRow[r].file
    BY <1>0 DEF RunInv, FileIsAsRecorded
<1> QED BY <1>0, <1>2, <1>3, <1>4, <1>5, <1>6, <1>7, <1>8, OneRunKeeps

(* A store that fails on the way to the commit.                            *)
LEMMA StoreFailsKeeps ==
    ASSUME RunInv, NEW r \in Runs, StoreFails(r), job[r].pc \in {"file", "manifest"} PROVE RunInv'
<1>0. /\ job[r] \in Attempt /\ pubRow[r] \in StatusRow /\ pubRow \in [Runs -> StatusRow]
      /\ RunFits(r) /\ runFaults \in 0..MaxRunFaults /\ manifest \in PublishedManifest /\ withdrawn \subseteq Runs
      /\ UNCHANGED <<runRow, handoff, index, publication, tools>> /\ RunGoto(r, "orphan")
    BY DEF RunInv, RunTypeOK, StoreFails
<1>1. runFaults' \in 0..MaxRunFaults /\ UNCHANGED <<pubRow, published, manifest, withdrawn>>
    BY <1>0, RunAssumption DEF StoreFails, RunFault, publication
<1>2. PICK a \in Attempt :
            /\ job' = [job EXCEPT ![r] = a] /\ a.pc = "orphan"
            /\ a.got = job[r].got /\ a.skip = job[r].skip /\ a.from = job[r].from
    BY <1>0, GoesTo
<1>3. job'[r] = a /\ pubRow' = [pubRow EXCEPT ![r] = pubRow[r]] /\ pubRow' = pubRow
    BY <1>0, <1>1, <1>2 DEF RunInv, RunTypeOK
<1>4. job[r].from \notin {"closed", "won"} /\ runRow[r].status # "success" /\ runRow[r].started # "week"
    BY <1>0 DEF RunFits, AttemptFits, RunAt
<1>5. RunFits(r)'
    <2>1. AttemptFits(r)'
        BY <1>0, <1>2, <1>3, <1>4 DEF AttemptFits, RunAt
    <2>2. ToolsFit(r)'
        BY <1>0, <1>1 DEF RunFits, ToolsFit, tools
    <2> QED BY <2>1, <2>2 DEF RunFits
<1>6. pubRow[r].status = "committed" /\ published'.by = r => published'.file = pubRow[r].file
    BY <1>1 DEF RunInv, FileIsAsRecorded
<1>7. ManifestIsBacked' /\ (manifest'.status = "committed" => manifest'.run \in Runs)
    BY <1>1 DEF RunInv, ManifestIsBacked
<1> QED BY <1>0, <1>1, <1>2, <1>3, <1>4, <1>5, <1>6, <1>7, OneRunKeeps

(* An attempt begins: it is the only one, and its row is young.            *)
LEMMA AttemptBegins ==
    ASSUME RunInv, NEW r \in Runs, CanStart(r),
           NEW a \in Attempt, job' = [job EXCEPT ![r] = a], a.pc = a.from, a.skip = job[r].skip \/ job[r].attempts = 0,
           a.pc = "won" => job[r].from = "won" /\ job[r].attempts # 0,
           \/ runRow' = [runRow EXCEPT ![r].status = "running"]
           \/ /\ runRow' = runRow /\ job[r].attempts # 0
              /\ (a.from = "closed") <=> (job[r].from = "closed"),
           UNCHANGED <<handoff, index, publication, tools, runFaults>>
    PROVE  RunInv'
<1>0. /\ UNCHANGED <<pubRow, published, manifest, withdrawn, stale, swept, look>> /\ RunFits(r)
      /\ runRow \in [Runs -> RunRow] /\ runRow[r].started # "week" /\ r \notin swept
    BY DEF publication, tools, RunInv, RunTypeOK, CanStart, RunFits, ToolsFit
<1>1. job' \in [Runs -> Attempt] /\ job'[r] = a /\ \A q \in Runs \ {r} : job'[q] = job[q]
    BY DEF RunInv, RunTypeOK
<1>2. /\ runRow' \in [Runs -> RunRow] /\ runRow'[r].started = runRow[r].started
      /\ runRow'[r].status = "running"
         \/ (runRow' = runRow /\ job[r].attempts # 0 /\ ((a.from = "closed") <=> (job[r].from = "closed")))
      /\ \A q \in Runs \ {r} : runRow'[q] = runRow[q]
    BY <1>0 DEF RunRow
<1>3. a.pc \in {"closed", "artifact", "get", "won"}
    BY DEF Attempt
<1>4. a.pc = "won" => a.skip \/ pubRow[r].status = "committed"
    BY <1>0 DEF RunFits, AttemptFits
<1>5. RunFits(r)'
    <2>1. AttemptFits(r)'
        BY <1>0, <1>1, <1>2, <1>3, <1>4 DEF AttemptFits, RunAt
    <2>2. ToolsFit(r)'
        BY <1>0 DEF RunFits, ToolsFit
    <2> QED BY <2>1, <2>2 DEF RunFits
<1>6. ASSUME NEW q \in Runs \ {r} PROVE RunFits(q)'
    BY <1>0, <1>1, <1>2, OthersFit DEF RunInv
<1>7. SuccessIsPublished'
    BY <1>0, <1>1, <1>2 DEF RunInv, SuccessIsPublished
<1>8. RunTypeOK' /\ ManifestIsBacked' /\ FileIsAsRecorded'
    BY <1>0, <1>1, <1>2 DEF RunInv, RunTypeOK, ManifestIsBacked, FileIsAsRecorded
<1> QED BY <1>0, <1>5, <1>6, <1>7, <1>8 DEF RunInv

LEMMA AttemptsBegin ==
    ASSUME RunInv, NEW r \in Runs, NEW f \in Files \cup {NoFile},
           \/ \E skip \in BOOLEAN : StartAttempt(r, f, skip)
           \/ \E from \in {"closed", "artifact", "get", "won"} : Resume(r, f, from)
    PROVE  RunInv'
<1>0. /\ job[r] \in Attempt /\ job \in [Runs -> Attempt] /\ CanStart(r)
      /\ UNCHANGED <<handoff, index, publication, tools, runFaults>>
    BY DEF RunInv, RunTypeOK, StartAttempt, Resume
<1>1. job[r].attempts + 1 \in 0..MaxAttempts
    <2>1. job[r].attempts \in 0..MaxAttempts /\ job[r].attempts < MaxAttempts
        BY <1>0 DEF Attempt, CanStart
    <2> QED BY <2>1, RunAssumption
<1>2. ASSUME NEW skip \in BOOLEAN, StartAttempt(r, f, skip)
      PROVE  RunInv'
    <2> DEFINE start == IF f = NoFile THEN "closed" ELSE "artifact"
               a == [pc |-> start, attempts |-> job[r].attempts + 1, from |-> start, got |-> f, skip |-> skip]
    <2>1. start \in {"closed", "artifact"}
        OBVIOUS
    <2>2. job' = [job EXCEPT ![r] = a] /\ runRow' = [runRow EXCEPT ![r].status = "running"]
          /\ (job[r].attempts > 0 => skip = job[r].skip)
        BY <1>2 DEF StartAttempt
    <2> HIDE DEF start
    <2>3. a \in Attempt /\ a.pc = start /\ a.from = start /\ a.skip = skip
        BY <1>1, <2>1 DEF Attempt
    <2>4. job[r].attempts = 0 \/ job[r].attempts > 0
        BY <1>0 DEF Attempt
    <2> HIDE DEF a
    <2> QED BY <1>0, <2>1, <2>2, <2>3, <2>4, AttemptBegins
<1>3. ASSUME NEW from \in {"closed", "artifact", "get", "won"}, Resume(r, f, from)
      PROVE  RunInv'
    <2> DEFINE a == [[[[job[r] EXCEPT !.pc = from] EXCEPT !.from = from] EXCEPT !.attempts = job[r].attempts + 1]
                        EXCEPT !.got = f]
    <2>1. /\ job' = [job EXCEPT ![r].pc = from, ![r].from = from, ![r].attempts = @ + 1, ![r].got = f]
          /\ runRow' = runRow /\ from \in Reached(r) /\ job[r].attempts > 0
        BY <1>3 DEF Resume
    <2>2. /\ a \in Attempt /\ a.pc = from /\ a.from = from /\ a.skip = job[r].skip
          /\ job' = [job EXCEPT ![r] = a]
        BY <1>0, <1>1, <2>1 DEF Attempt
    <2>3. /\ (from = "closed") <=> (job[r].from = "closed")
          /\ from = "won" => job[r].from = "won"
        BY <2>1 DEF Reached
    <2>4. job[r].attempts # 0
        BY <2>1
    <2> HIDE DEF a
    <2>5. a.pc = a.from /\ (a.skip = job[r].skip \/ job[r].attempts = 0)
        BY <2>2
    <2>6. a.pc = "won" => job[r].from = "won" /\ job[r].attempts # 0
        BY <2>2, <2>3, <2>4
    <2>7. runRow' = runRow /\ job[r].attempts # 0 /\ ((a.from = "closed") <=> (job[r].from = "closed"))
        BY <2>1, <2>2, <2>3, <2>4
    <2> QED BY <1>0, <2>2, <2>5, <2>6, <2>7, AttemptBegins
<1> QED BY <1>2, <1>3

(* What a patch of a row in runs makes of it.                              *)
LEMMA PatchedFits ==
    ASSUME NEW row \in RunRow, NEW status \in {"success", "failed"},
           NEW reason \in {"-", "stale", "market_closed"}
    PROVE  LET p == Patched(row, status, reason)
           IN  p \in RunRow /\ p.status = status /\ p.reason = reason /\ p.started = row.started
<1> DEFINE p == [row EXCEPT !.status = status]
<1>1. p \in RunRow /\ p.status = status /\ p.started = row.started
    BY DEF RunRow
<1> DEFINE d == [p EXCEPT !.reason = reason]
<1>2. Patched(row, status, reason) = d
    BY Zenon DEF Patched
<1> HIDE DEF p
<1>3. d \in RunRow /\ d.status = p.status /\ d.reason = reason /\ d.started = p.started
    BY <1>1 DEF RunRow
<1> HIDE DEF d
<1> QED BY <1>1, <1>2, <1>3

(* An attempt ends.                                                        *)
LEMMA AttemptEnds ==
    ASSUME RunInv, NEW r \in Runs, \/ \E others \in BOOLEAN : Finalize(r, others)
                                   \/ RunKilled(r)
    PROVE  RunInv'
<1>0. /\ job[r] \in Attempt /\ job \in [Runs -> Attempt] /\ RunGoto(r, "over") /\ RunFits(r) /\ ~RunAt(r, "over")
      /\ UNCHANGED <<pubRow, published, manifest, withdrawn, stale, swept, look, handoff, index>>
      /\ runRow \in [Runs -> RunRow] /\ runFaults \in 0..MaxRunFaults
    BY DEF RunInv, RunTypeOK, Finalize, RunKilled, publication, tools, RunAt
<1>1. /\ job' \in [Runs -> Attempt] /\ job'[r].pc = "over" /\ job'[r].from = job[r].from /\ job'[r].skip = job[r].skip
      /\ \A q \in Runs \ {r} : job'[q] = job[q]
    BY <1>0 DEF RunGoto, Attempt
<1>2. /\ runRow' \in [Runs -> RunRow] /\ runRow'[r].started = runRow[r].started
      /\ \A q \in Runs \ {r} : runRow'[q] = runRow[q]
      /\ runRow'[r].status = "success" =>
            \/ runRow'[r].status = runRow[r].status /\ runRow'[r].reason = runRow[r].reason
            \/ runRow'[r].reason = "market_closed" /\ RunAt(r, "closed")
            \/ runRow'[r].reason = "-" /\ RunAt(r, "won")
      /\ runFaults' \in 0..MaxRunFaults
    <2>1. ASSUME NEW others \in BOOLEAN, Finalize(r, others)
          PROVE  /\ runRow' \in [Runs -> RunRow] /\ runRow'[r].started = runRow[r].started
                 /\ \A q \in Runs \ {r} : runRow'[q] = runRow[q]
                 /\ runRow'[r].status = "success" =>
                       \/ runRow'[r].reason = "market_closed" /\ RunAt(r, "closed")
                       \/ runRow'[r].reason = "-" /\ RunAt(r, "won")
                 /\ runFaults' = runFaults
        <3> DEFINE d == TerminalStatus(r, others)
        <3>1. /\ d.status \in {"success", "failed"} /\ d.reason \in {"-", "market_closed"}
              /\ d.status = "success" => \/ d.reason = "market_closed" /\ RunAt(r, "closed")
                                         \/ d.reason = "-" /\ RunAt(r, "won")
            BY DEF TerminalStatus
        <3>2. runRow' = [runRow EXCEPT ![r] = Patched(runRow[r], d.status, d.reason)] /\ runFaults' = runFaults
            BY <2>1, Zenon DEF Finalize
        <3> DEFINE p == Patched(runRow[r], d.status, d.reason)
        <3> HIDE DEF d
        <3>3. p \in RunRow /\ p.status = d.status /\ p.reason = d.reason /\ p.started = runRow[r].started
            BY <1>0, <3>1, PatchedFits
        <3> HIDE DEF p
        <3>4. runRow' = [runRow EXCEPT ![r] = p]
            BY <3>2, Zenon DEF p
        <3> QED BY <1>0, <3>1, <3>2, <3>3, <3>4
    <2>2. CASE RunKilled(r)
        BY <1>0, <2>2, RunAssumption DEF RunKilled, RunFault
    <2> QED BY <1>0, <2>1, <2>2
<1>3. RunFits(r)'
    <2>1. AttemptFits(r)'
        <3>1. job[r].from = "won" => job[r].skip \/ pubRow[r].status = "committed"
            BY <1>0 DEF RunFits, AttemptFits
        <3> QED BY <1>0, <1>1, <3>1 DEF AttemptFits, RunAt
    <2>2. ToolsFit(r)'
        BY <1>0, <1>2 DEF RunFits, ToolsFit
    <2> QED BY <2>1, <2>2 DEF RunFits
<1>4. ASSUME NEW q \in Runs \ {r} PROVE RunFits(q)'
    BY <1>0, <1>1, <1>2, OthersFit DEF RunInv
<1>5. SuccessIsPublished'
    <2>1. /\ RunAt(r, "closed") => job[r].from = "closed"
          /\ RunAt(r, "won") => job[r].skip \/ pubRow[r].status = "committed"
        BY <1>0 DEF RunFits, AttemptFits
    <2>2. ASSUME NEW q \in Runs, q # r, runRow'[q].status = "success"
          PROVE  IF runRow'[q].reason = "market_closed" THEN job'[q].from = "closed"
                 ELSE runRow'[q].reason = "-" /\ (job'[q].skip \/ pubRow'[q].status = "committed")
        BY <1>0, <1>1, <1>2, <2>2 DEF RunInv, SuccessIsPublished
    <2>3. ASSUME runRow'[r].status = "success"
          PROVE  IF runRow'[r].reason = "market_closed" THEN job'[r].from = "closed"
                 ELSE runRow'[r].reason = "-" /\ (job'[r].skip \/ pubRow'[r].status = "committed")
        BY <1>0, <1>1, <1>2, <2>1, <2>3 DEF RunInv, SuccessIsPublished
    <2> QED BY <2>2, <2>3 DEF SuccessIsPublished
<1>6. RunTypeOK' /\ ManifestIsBacked' /\ FileIsAsRecorded'
    BY <1>0, <1>1, <1>2 DEF RunInv, RunTypeOK, ManifestIsBacked, FileIsAsRecorded
<1> QED BY <1>0, <1>3, <1>4, <1>5, <1>6 DEF RunInv

(* The tools of the operator, and the clock.                               *)
LEMMA ToolsKeep ==
    ASSUME RunInv,
           \/ \E r \in Runs : PatchStale(r) \/ LookUpPublish(r) \/ SweepPublish(r)
           \/ \E l \in look : ReconcileManifest(l)
           \/ \E t \in {"hours", "week"} : TimePasses(t)
           \/ ListStale \/ ListSwept
    PROVE  RunInv'
<1>0. /\ pubRow \in [Runs -> StatusRow] /\ runRow \in [Runs -> RunRow] /\ manifest \in PublishedManifest
      /\ look \subseteq [run : Runs, file : Files \cup {NoFile}]
    BY DEF RunInv, RunTypeOK
<1>1. ASSUME NEW r \in Runs, LookUpPublish(r)
      PROVE  RunInv'
    <2>1. /\ look' = {[run |-> r, file |-> pubRow[r].file]} /\ pubRow[r].status = "committed"
          /\ UNCHANGED <<runRow, job, handoff, index, pubRow, published, manifest, withdrawn, stale, swept, runFaults>>
        BY <1>1 DEF LookUpPublish, publication
    <2>2. pubRow[r] = [status |-> "committed", file |-> pubRow[r].file] /\ pubRow[r].file \in Files \cup {NoFile}
        BY <1>0, <2>1 DEF StatusRow
    <2>3. ASSUME NEW q \in Runs PROVE RunFits(q)'
        BY <2>1, <2>2 DEF RunInv, RunFits, AttemptFits, ToolsFit, RunAt
    <2> QED BY <2>1, <2>2, <2>3 DEF RunInv, RunTypeOK, ManifestIsBacked, FileIsAsRecorded, SuccessIsPublished
<1>2. ASSUME NEW l \in look, ReconcileManifest(l)
      PROVE  RunInv'
    <2>1. /\ look' = {} /\ manifest' = [run |-> l.run, file |-> l.file, status |-> "committed"]
          /\ UNCHANGED <<runRow, job, handoff, index, pubRow, published, withdrawn, stale, swept, runFaults>>
        BY <1>2 DEF ReconcileManifest, ManifestOf
    <2>2. l.run \in Runs /\ l.file \in Files \cup {NoFile}
        BY <1>0
    <2>3. l.run \notin withdrawn => pubRow[l.run] = [status |-> "committed", file |-> l.file]
        BY <2>2 DEF RunInv, RunFits, ToolsFit
    <2>4. manifest' \in PublishedManifest /\ ManifestIsBacked'
        BY <2>1, <2>2, <2>3 DEF PublishedManifest, ManifestIsBacked
    <2>5. ASSUME NEW q \in Runs PROVE RunFits(q)'
        BY <2>1 DEF RunInv, RunFits, AttemptFits, ToolsFit, RunAt
    <2> QED BY <2>1, <2>2, <2>4, <2>5 DEF RunInv, RunTypeOK, FileIsAsRecorded, SuccessIsPublished
<1>3. ASSUME NEW r \in Runs, SweepPublish(r)
      PROVE  RunInv'
    <2>1. /\ pubRow[r].status = "orphan" /\ RunAt(r, "over") /\ RunFits(r)
          /\ job[r].from = "won" => job[r].skip
        BY <1>3 DEF SweepPublish, RunInv, RunFits, AttemptFits, ToolsFit
    <2>2. /\ pubRow' \in [Runs -> StatusRow] /\ pubRow'[r].status = "none"
          /\ \A q \in Runs \ {r} : pubRow'[q] = pubRow[q]
        BY <1>0, <1>3 DEF SweepPublish, StatusRow, NoRow
    <2>3. /\ published' \in PublishedObject /\ published'.by = r
          /\ manifest' \in PublishedManifest /\ manifest'.status = "none" /\ swept' = swept \ {r}
          /\ UNCHANGED <<runRow, job, handoff, index, withdrawn, stale, look, runFaults>>
        BY <1>3 DEF SweepPublish, PublishedObject, PublishedManifest
    <2>4. RunFits(r)'
        <3>1. AttemptFits(r)'
            BY <2>1, <2>2, <2>3 DEF RunFits, AttemptFits, RunAt
        <3>2. ASSUME NEW l \in look, l.run = r, r \notin withdrawn PROVE FALSE
            <4>1. pubRow[r] = [status |-> "committed", file |-> l.file]
                BY <2>1, <3>2, Zenon DEF RunFits, ToolsFit
            <4> QED BY <2>1, <4>1
        <3>3. ToolsFit(r)'
            BY <2>3, <3>2 DEF ToolsFit
        <3> QED BY <3>1, <3>3 DEF RunFits
    <2>5. ASSUME NEW q \in Runs \ {r} PROVE RunFits(q)'
        BY <2>2, <2>3, OthersFit DEF RunInv
    <2>6. FileIsAsRecorded' /\ ManifestIsBacked'
        BY <2>2, <2>3 DEF RunInv, FileIsAsRecorded, ManifestIsBacked
    <2>7. SuccessIsPublished'
        BY <2>1, <2>2, <2>3 DEF RunInv, SuccessIsPublished
    <2>8. RunTypeOK'
        BY <2>2, <2>3 DEF RunInv, RunTypeOK
    <2> QED BY <2>3, <2>4, <2>5, <2>6, <2>7, <2>8 DEF RunInv
<1>4. ASSUME NEW t \in {"hours", "week"}, TimePasses(t)
      PROVE  RunInv'
    <2>1. /\ runRow' \in [Runs -> RunRow]
          /\ \A r \in Runs : runRow'[r].status = runRow[r].status /\ runRow'[r].reason = runRow[r].reason
        BY <1>0, <1>4 DEF TimePasses, RunRow
    <2>2. swept = {} /\ \A r \in Runs : RunAt(r, "over")
        BY <1>4 DEF TimePasses, InFlight, RunAt
    <2>3. UNCHANGED <<job, handoff, index, pubRow, published, manifest, withdrawn, stale, swept, look, runFaults>>
        BY <1>4 DEF TimePasses, publication, tools
    <2>4. ASSUME NEW q \in Runs PROVE RunFits(q)'
        BY <2>1, <2>2, <2>3 DEF RunInv, RunFits, AttemptFits, ToolsFit, RunAt
    <2>5. SuccessIsPublished'
        BY <2>1, <2>3 DEF RunInv, SuccessIsPublished
    <2> QED BY <2>1, <2>3, <2>4, <2>5 DEF RunInv, RunTypeOK, ManifestIsBacked, FileIsAsRecorded
<1>5. ASSUME NEW r \in Runs, PatchStale(r)
      PROVE  RunInv'
    <2>1. /\ runRow' \in [Runs -> RunRow] /\ runRow'[r].status = "failed" /\ runRow'[r].started = runRow[r].started
          /\ \A q \in Runs \ {r} : runRow'[q] = runRow[q]
        <3>1. runRow' = [runRow EXCEPT ![r] = Patched(runRow[r], "failed", "stale")]
            BY <1>5, Zenon DEF PatchStale
        <3> DEFINE p == Patched(runRow[r], "failed", "stale")
        <3>2. p \in RunRow /\ p.status = "failed" /\ p.started = runRow[r].started
            BY <1>0, PatchedFits
        <3> HIDE DEF p
        <3>3. runRow' = [runRow EXCEPT ![r] = p]
            BY <3>1, Zenon DEF p
        <3> QED BY <1>0, <3>2, <3>3
    <2>2. /\ stale' \subseteq stale
          /\ UNCHANGED <<job, handoff, index, pubRow, published, manifest, withdrawn, swept, look, runFaults>>
        BY <1>5 DEF PatchStale, publication
    <2>3. ASSUME NEW q \in Runs PROVE RunFits(q)'
        BY <2>1, <2>2 DEF RunInv, RunFits, AttemptFits, ToolsFit, RunAt
    <2>4. SuccessIsPublished'
        BY <2>1, <2>2 DEF RunInv, SuccessIsPublished
    <2> QED BY <2>1, <2>2, <2>3, <2>4 DEF RunInv, RunTypeOK, ManifestIsBacked, FileIsAsRecorded
<1>6. CASE ListStale
    <2>1. /\ stale' \subseteq Runs
          /\ UNCHANGED <<runRow, job, handoff, index, pubRow, published, manifest, withdrawn, swept, look, runFaults>>
        BY <1>6 DEF ListStale, publication
    <2>2. ASSUME NEW q \in Runs PROVE RunFits(q)'
        BY <2>1 DEF RunInv, RunFits, AttemptFits, ToolsFit, RunAt
    <2> QED BY <2>1, <2>2 DEF RunInv, RunTypeOK, ManifestIsBacked, FileIsAsRecorded, SuccessIsPublished
<1>7. CASE ListSwept
    <2>1. /\ swept' = {r \in Runs : pubRow[r].status = "orphan" /\ runRow[r].started = "week"}
          /\ UNCHANGED <<runRow, job, handoff, index, pubRow, published, manifest, withdrawn, stale, look, runFaults>>
        BY <1>7 DEF ListSwept, publication
    <2>2. ASSUME NEW q \in Runs PROVE RunFits(q)'
        BY <2>1 DEF RunInv, RunFits, AttemptFits, ToolsFit, RunAt
    <2> QED BY <2>1, <2>2 DEF RunInv, RunTypeOK, ManifestIsBacked, FileIsAsRecorded, SuccessIsPublished
<1> QED BY <1>1, <1>2, <1>3, <1>4, <1>5, <1>6, <1>7

LEMMA RunStep == RunInv /\ [RunNext]_runVars => RunInv'
<1> SUFFICES ASSUME RunInv, [RunNext]_runVars PROVE RunInv'
    OBVIOUS
<1>1. CASE UNCHANGED runVars
    <2>1. UNCHANGED <<runRow, job, handoff, index, pubRow, published, manifest, withdrawn, stale, swept, look, runFaults>>
        BY <1>1 DEF runVars, publication, tools
    <2>2. ASSUME NEW q \in Runs PROVE RunFits(q)'
        BY <2>1 DEF RunInv, RunFits, AttemptFits, ToolsFit, RunAt
    <2> QED BY <2>1, <2>2 DEF RunInv, RunTypeOK, ManifestIsBacked, FileIsAsRecorded, SuccessIsPublished
<1>2. ASSUME NEW r \in Runs, StoreFails(r)
      PROVE  RunInv'
    BY <1>2, HandoffKeeps, StoreFailsKeeps DEF StoreFails
<1>3. ASSUME NEW r \in Runs,
             \/ PutArtifact(r) \/ InsertIndex(r) \/ OrphanIndex(r)
             \/ InsertPublish(r) \/ PutPublished(r) \/ CommitPublish(r)
             \/ \E f \in Files : GetArtifact(r, f)
      PROVE  RunInv'
    BY <1>3, HandoffKeeps, RenderKeeps, InsertPublishKeeps, PutPublishedKeeps, CommitPublishKeeps
<1>4. ASSUME NEW r \in Runs, NEW ok \in BOOLEAN,
             \/ CommitIndex(r, ok) \/ CommitPublishUnanswered(r, ok) \/ OrphanPublish(r, ok)
             \/ RestateManifest(r, ok) \/ Finalize(r, ok)
      PROVE  RunInv'
    BY <1>4, IndexCommitKeeps, CommitPublishKeeps, OrphanPublishKeeps, RestateKeeps, AttemptEnds
<1>5. CASE RunNext
    BY <1>2, <1>3, <1>4, <1>5, AttemptsBegin, AttemptEnds, ToolsKeep DEF RunNext
<1> QED BY <1>1, <1>5

(* The inductive invariant of a date's runs: what a run knows of its row   *)
(* in publish_status, of the file and of its own record at each of its     *)
(* calls, although attempts resume where an earlier one stopped, and what  *)
(* the sweeper and reconcile-manifest have read.                           *)
THEOREM RunInvariant == RunSpec => []RunInv
<1>1. RunInit => RunInv
    BY RunInitHolds
<1>2. RunInv /\ [RunNext]_runVars => RunInv'
    BY RunStep
<1> QED BY <1>1, <1>2, PTL DEF RunSpec

(* All that the run checks of the publication, for any number of runs,     *)
(* attempts and faults: a success of an open day that was to publish has a *)
(* committed row, and a success carries no reason of a reconciliation      *)
(* (run_terminal_status.py); the manifest claims a commit only for a       *)
(* committed row of the same file, but for rows the handler of an          *)
(* unanswered commit withdrew (publish_bus_cli.py); and the file a run     *)
(* with a committed row stored last is the one the row describes.          *)
THEOREM PublicationIsSafe == RunSpec => []PublishSafe
<1>1. RunInv => PublishSafe
    BY DEF RunInv, PublishSafe
<1> QED BY <1>1, RunInvariant, PTL

(***************************************************************************)
(* The warm caches.                                                        *)
(***************************************************************************)

(* A put of the immutable kind has read no later version than the one the  *)
(* pointer is at, and if it is the same one, the very entry.               *)
SeenFits(p) ==
    PutKind[p] = "immutable" =>
        /\ put[p].seen.version <= pointer["immutable"].version
        /\ put[p].seen.version = pointer["immutable"].version => put[p].seen = pointer["immutable"]

(* A put of bytes no other put has tried is the only one to write its row  *)
(* and its object: the row becomes an orphan when it fails, and from its   *)
(* upload to its end the object is there.                                  *)
Alone(p) ==
    /\ PutKind[p] = "immutable"
    /\ \A q \in Puts \ {p} : <<PutKind[q], PutBytes[q]>> # <<PutKind[p], PutBytes[p]>>

AloneFits(p) ==
    Alone(p) =>
        /\ rows[RowOf(p)].status = "orphan" \/ RowOf(p) \in sweep.listed => PutAt(p, "failed")
        /\ put[p].pc \in {"commit", "ok"} => store[<<"immutable", PutBytes[p]>>] = PutBytes[p]

PutFits(p) ==
    /\ PutAt(p, "manifest") => PutKind[p] = "patched"
    /\ PutAt(p, "repair") => PutKind[p] = "jpx"
    /\ SeenFits(p) /\ AloneFits(p)

(* Between the two reads of a get-patched one file is there; a get that    *)
(* ended has both, compared with the row.                                  *)
ReaderFits ==
    /\ reader.pc = "fetch" => reader.want # NoBytes
    /\ reader.pc = "fetch" /\ reader.kind = "patched" => reader.got = <<>> \/ Len(reader.got) = 1
    /\ GetIsOnePut

CacheInv ==
    /\ CacheTypeOK /\ ReaderFits
    /\ sweep.pc = "row" => sweep.row \in sweep.listed
    /\ \A p \in Puts : PutFits(p)

(* Where rows and objects are.                                             *)
LEMMA RowIsARow ==
    ASSUME NEW p \in Puts
    PROVE  /\ RowOf(p) \in RowIds /\ PutBytes[p] \in Bytes /\ PutKind[p] \in Kinds
           /\ PutKind[p] # "patched" => RowOf(p) = <<PutKind[p], PutBytes[p]>> /\ PutKind[p] \in FixedKinds
           /\ PutKind[p] = "patched" => RowOf(p) = <<"patched", NoBytes>>
BY BusAssumption DEF RowOf, RowIds, Kinds, FixedKinds

(* No other put writes the row of a put that is alone with its bytes.      *)
LEMMA RowOfOneAlone ==
    ASSUME NEW p \in Puts, Alone(p), NEW q \in Puts \ {p}
    PROVE  RowOf(q) # RowOf(p)
BY RowIsARow DEF Alone

LEMMA CacheInitHolds == CacheInit => CacheInv
<1> SUFFICES ASSUME CacheInit PROVE CacheInv
    OBVIOUS
<1>1. CacheTypeOK
    <2>1. <<>> \in Seq(Content)
        OBVIOUS
    <2> QED BY <2>1, BusAssumption
            DEF CacheInit, CacheTypeOK, Content, Entry, PutState, Idle, NoPointer, NotReading, NotSweeping,
                Kinds, FixedKinds, RowIds
<1>2. ASSUME NEW p \in Puts PROVE PutFits(p)
    <2>1. RowOf(p) \in RowIds /\ put[p] = Idle /\ sweep.listed = {}
        BY RowIsARow DEF CacheInit, NotSweeping
    <2>2. pointer["immutable"] = NoPointer
        BY DEF CacheInit, FixedKinds
    <2> QED BY <2>1, <2>2 DEF CacheInit, PutFits, SeenFits, AloneFits, PutAt, Idle, NoPointer
<1> QED BY <1>1, <1>2 DEF CacheInit, CacheInv, ReaderFits, GetIsOnePut, NotReading, NotSweeping

(* A put goes on without having touched what others see.                   *)
LEMMA PutGoesOn ==
    ASSUME CacheInv, NEW p \in Puts, NEW s \in PutState, put' = [put EXCEPT ![p] = s],
           s.seen \in {put[p].seen, PointerOf(PutKind[p])},
           put[p].pc # "failed", s.pc = "repair" => PutKind[p] = "jpx",
           s.pc \notin {"manifest", "commit"}, s.pc = "ok" => PutAt(p, "commit"),
           late' \subseteq Puts, faults' \in 0..MaxBusFaults,
           UNCHANGED <<rows, pointer, store, reader, sweep, aged>>
    PROVE  CacheInv'
<1>1. put' \in [Puts -> PutState] /\ put'[p] = s /\ \A q \in Puts \ {p} : put'[q] = put[q]
    BY DEF CacheInv, CacheTypeOK
<1>2. PutFits(p)'
    <2>1. PutKind[p] = "immutable" => pointer["immutable"] \in Entry /\ PointerOf(PutKind[p]) = pointer["immutable"]
        BY DEF CacheInv, CacheTypeOK, PointerOf, FixedKinds
    <2>2. SeenFits(p)'
        BY <1>1, <2>1 DEF CacheInv, PutFits, SeenFits, Entry
    <2>3. AloneFits(p)'
        BY <1>1 DEF CacheInv, PutFits, AloneFits, Alone, PutAt, RowOf
    <2> QED BY <1>1, <2>2, <2>3 DEF PutFits, PutAt
<1>3. ASSUME NEW q \in Puts \ {p} PROVE PutFits(q)'
    BY <1>1, <1>3 DEF CacheInv, PutFits, SeenFits, AloneFits, Alone, PutAt, RowOf
<1>4. CacheTypeOK' /\ ReaderFits'
    BY <1>1 DEF CacheInv, CacheTypeOK, ReaderFits, GetIsOnePut
<1> QED BY <1>1, <1>2, <1>3, <1>4 DEF CacheInv

LEMMA LooksKeep ==
    ASSUME CacheInv, NEW p \in Puts,
           \/ LookAtPointer(p) \/ LookAtUrl(p) \/ LookAtRow(p) \/ Find(p)
           \/ MarkFails(p) \/ PutKilled(p) \/ UploadFails(p)
    PROVE  CacheInv'
<1>0. /\ put[p] \in PutState /\ put \in [Puts -> PutState] /\ faults \in 0..MaxBusFaults /\ late \subseteq Puts
      /\ PutKind[p] \in FixedKinds => PointerOf(PutKind[p]) \in Entry
    BY DEF CacheInv, CacheTypeOK, PointerOf
<1>1. CASE LookAtPointer(p)
    <2> DEFINE s == [put[p] EXCEPT !.seen = PointerOf(PutKind[p]),
                                   !.pc = IF PointerOf(PutKind[p]).bytes = PutBytes[p] THEN "noop" ELSE "find"]
    <2>1. PutKind[p] \in FixedKinds
        BY <1>1 DEF LookAtPointer, FixedKinds
    <2>2. /\ s \in PutState /\ put' = [put EXCEPT ![p] = s]
          /\ s.pc \in {"noop", "find"} /\ s.seen = PointerOf(PutKind[p])
        BY <1>0, <1>1, <2>1 DEF LookAtPointer, PutState
    <2> HIDE DEF s
    <2> QED BY <1>0, <1>1, <2>2, PutGoesOn DEF LookAtPointer, PutAt
<1>2. CASE LookAtUrl(p)
    <2> DEFINE s == [put[p] EXCEPT !.seen = PointerOf("jpx"),
                                   !.pc = IF PointerOf("jpx").bytes # PutBytes[p] THEN "find"
                                          ELSE IF store[<<"jpx", NoBytes>>] = NoBytes THEN "repair" ELSE "noop"]
    <2>1. PutKind[p] = "jpx" /\ PutKind[p] \in FixedKinds
        BY <1>2 DEF LookAtUrl, FixedKinds
    <2>2. /\ s \in PutState /\ put' = [put EXCEPT ![p] = s]
          /\ s.pc \in {"noop", "find", "repair"} /\ s.seen = PointerOf(PutKind[p])
        BY <1>0, <1>2, <2>1 DEF LookAtUrl, PutState
    <2> HIDE DEF s
    <2> QED BY <1>0, <1>2, <2>1, <2>2, PutGoesOn DEF LookAtUrl, PutAt
<1>3. CASE Find(p)
    <2> DEFINE found == rows[RowOf(p)].status \in {"pending", "orphan"}
               s == [put[p] EXCEPT !.pc = "insert", !.found = found]
    <2>1. put' = [put EXCEPT ![p] = s]
        BY <1>0, <1>3 DEF Find
    <2>2. found \in BOOLEAN
        OBVIOUS
    <2> HIDE DEF found
    <2>3. s \in PutState /\ s.pc = "insert" /\ s.seen = put[p].seen
        BY <1>0, <2>2 DEF PutState
    <2> HIDE DEF s
    <2> QED BY <1>0, <1>3, <2>1, <2>3, PutGoesOn DEF Find, PutAt
<1>4. ASSUME NEW pc \in {"noop", "insert", "failed", "mark", "dead"}, PutGoto(p, pc),
             put[p].pc # "failed", late' = late, faults' \in 0..MaxBusFaults,
             UNCHANGED <<rows, pointer, store, reader, sweep, aged>>
      PROVE  CacheInv'
    <2> DEFINE s == [put[p] EXCEPT !.pc = pc]
    <2>1. /\ s \in PutState /\ put' = [put EXCEPT ![p] = s]
          /\ s.pc = pc /\ s.seen = put[p].seen
        BY <1>0, <1>4 DEF PutGoto, PutState
    <2> HIDE DEF s
    <2> QED BY <1>0, <1>4, <2>1, PutGoesOn
<1>5. CASE LookAtRow(p)
    <2>1. \E pc \in {"noop", "insert", "failed"} : PutGoto(p, pc)
        BY <1>5 DEF LookAtRow
    <2> QED BY <1>0, <1>4, <1>5, <2>1 DEF LookAtRow, PutAt
<1>6. ASSUME BusFault PROVE faults' \in 0..MaxBusFaults
    BY <1>0, <1>6, BusAssumption DEF BusFault
<1>7. CASE MarkFails(p)
    BY <1>4, <1>6, <1>7 DEF MarkFails, PutAt
<1>8. CASE PutKilled(p)
    BY <1>4, <1>6, <1>8 DEF PutKilled, Ended
<1>9. CASE UploadFails(p)
    <2>1. \E pc \in {"failed", "mark"} : PutGoto(p, pc)
        BY <1>9 DEF UploadFails, OnPutError
    <2> QED BY <1>4, <1>6, <1>9, <2>1 DEF UploadFails
<1> QED BY <1>1, <1>2, <1>3, <1>5, <1>7, <1>8, <1>9

(* A row becomes pending, or the put marks it: for a put that is alone the *)
(* row is an orphan only from its own mark on.                             *)
LEMMA RowsKeep ==
    ASSUME CacheInv, NEW p \in Puts, InsertPending(p) \/ UpsertPatched(p) \/ MarkOrphan(p)
    PROVE  CacheInv'
<1>0. /\ put[p] \in PutState /\ put \in [Puts -> PutState] /\ faults \in 0..MaxBusFaults /\ late \subseteq Puts
      /\ RowOf(p) \in RowIds /\ PutBytes[p] \in Content
      /\ rows \in [RowIds -> [status : {"none", "pending", "committed", "orphan"}, bytes : Content]]
    BY RowIsARow DEF CacheInv, CacheTypeOK, Content
<1>1. ASSUME NEW pc \in {"upload", "failed"}, PutGoto(p, pc), put[p].pc \in {"insert", "mark"},
             NEW row \in [status : {"none", "pending", "committed", "orphan"}, bytes : Content],
             rows' = [rows EXCEPT ![RowOf(p)] = row], row.status = "orphan" => pc = "failed",
             UNCHANGED <<pointer, store, late, reader, sweep, aged, faults>>
      PROVE  CacheInv'
    <2>1. /\ put' \in [Puts -> PutState] /\ put'[p].pc = pc /\ put'[p].seen = put[p].seen
          /\ \A q \in Puts \ {p} : put'[q] = put[q]
        BY <1>0, <1>1 DEF PutGoto, PutState
    <2>2. /\ rows' \in [RowIds -> [status : {"none", "pending", "committed", "orphan"}, bytes : Content]]
          /\ rows'[RowOf(p)] = row /\ \A r \in RowIds \ {RowOf(p)} : rows'[r] = rows[r]
        BY <1>0, <1>1
    <2>3. PutFits(p)'
        BY <1>0, <1>1, <2>1, <2>2 DEF CacheInv, PutFits, SeenFits, AloneFits, Alone, PutAt, RowOf
    <2>4. ASSUME NEW q \in Puts \ {p} PROVE PutFits(q)'
        <3>1. Alone(q) => rows'[RowOf(q)] = rows[RowOf(q)]
            BY <2>2, <2>4, RowOfOneAlone, RowIsARow
        <3> QED BY <1>1, <2>1, <2>4, <3>1 DEF CacheInv, PutFits, SeenFits, AloneFits, Alone, PutAt, RowOf
    <2>5. CacheTypeOK' /\ ReaderFits' /\ (sweep.pc = "row" => sweep.row \in sweep.listed)'
        BY <1>1, <2>1, <2>2 DEF CacheInv, CacheTypeOK, ReaderFits, GetIsOnePut
    <2> QED BY <2>3, <2>4, <2>5 DEF CacheInv
<1> DEFINE row == [status |-> "pending", bytes |-> PutBytes[p]]
<1>2. row \in [status : {"none", "pending", "committed", "orphan"}, bytes : Content] /\ row.status = "pending"
    BY <1>0
<1>3. CASE InsertPending(p) /\ SetRow(RowOf(p), "pending", PutBytes[p]) /\ PutGoto(p, "upload")
    <2>1. rows' = [rows EXCEPT ![RowOf(p)] = row]
        BY <1>3 DEF SetRow
    <2> HIDE DEF row
    <2> QED BY <1>1, <1>2, <1>3, <2>1 DEF InsertPending, PutAt
<1>4. CASE InsertPending(p) /\ PutGoto(p, "failed") /\ UNCHANGED rows
    <2>1. rows' = [rows EXCEPT ![RowOf(p)] = rows[RowOf(p)]] /\ rows[RowOf(p)].status \in {"none", "pending", "committed", "orphan"}
        BY <1>0, <1>4
    <2> QED BY <1>0, <1>1, <1>4, <2>1 DEF InsertPending, PutAt
<1>5. CASE UpsertPatched(p)
    <2>1. rows' = [rows EXCEPT ![RowOf(p)] = row]
        BY <1>5 DEF UpsertPatched, SetRow
    <2> HIDE DEF row
    <2> QED BY <1>1, <1>2, <1>5, <2>1 DEF UpsertPatched, PutAt
<1>6. CASE MarkOrphan(p)
    <2> DEFINE mark == [rows[RowOf(p)] EXCEPT !.status = IF @ = "none" THEN @ ELSE "orphan"]
    <2>1. mark \in [status : {"none", "pending", "committed", "orphan"}, bytes : Content]
          /\ rows' = [rows EXCEPT ![RowOf(p)] = mark]
        BY <1>0, <1>6 DEF MarkOrphan
    <2> HIDE DEF mark
    <2> QED BY <1>1, <1>6, <2>1 DEF MarkOrphan, PutAt
<1> QED BY <1>3, <1>4, <1>5, <1>6 DEF InsertPending

(* An upload: the object of a put that is alone is at a key of its own.    *)
LEMMA UploadKeeps ==
    ASSUME CacheInv, NEW p \in Puts, Upload(p)
    PROVE  CacheInv'
<1> DEFINE o == IF PutAt(p, "manifest") THEN <<"manifest", NoBytes>> ELSE FirstObject(p)
           pc == CASE PutAt(p, "repair") -> "failed"
                   [] PutAt(p, "upload") /\ PutKind[p] = "patched" -> "manifest"
                   [] OTHER -> "commit"
<1>0. /\ put[p] \in PutState /\ put \in [Puts -> PutState] /\ store \in [ObjectIds -> Content]
      /\ PutBytes[p] \in Bytes /\ PutBytes[p] \in Content /\ PutKind[p] \in Kinds /\ PutFits(p)
    BY RowIsARow DEF CacheInv, CacheTypeOK, Content
<1>1. /\ pc \in {"failed", "manifest", "commit"}
      /\ pc = "manifest" => PutKind[p] = "patched"
      /\ put[p].pc \in {"upload", "repair", "manifest"}
    BY DEF Upload
<1>2. put' = [put EXCEPT ![p].pc = pc] /\ store' = [store EXCEPT ![o] = PutBytes[p]]
    BY DEF Upload, PutGoto
<1>3. /\ o \in ObjectIds
      /\ PutKind[p] = "immutable" => o = <<"immutable", PutBytes[p]>>
      /\ PutKind[p] # "immutable" => \A b \in Bytes : o # <<"immutable", b>>
    BY <1>0 DEF FirstObject, ObjectIds, Kinds, FixedKinds, PutFits, PutAt
<1> HIDE DEF o, pc
<1>4. /\ put' \in [Puts -> PutState] /\ put'[p].pc = pc /\ put'[p].seen = put[p].seen
      /\ \A q \in Puts \ {p} : put'[q] = put[q]
    <2> DEFINE state == [put[p] EXCEPT !.pc = pc]
    <2>1. state \in PutState /\ state.pc = pc /\ state.seen = put[p].seen
        BY <1>0, <1>1 DEF PutState
    <2>2. put' = [put EXCEPT ![p] = state]
        BY <1>0, <1>2
    <2> HIDE DEF state
    <2> QED BY <1>0, <2>1, <2>2
<1>5. /\ store' \in [ObjectIds -> Content] /\ store'[o] = PutBytes[p]
      /\ \A i \in ObjectIds \ {o} : store'[i] = store[i]
    BY <1>0, <1>2, <1>3
<1>6. UNCHANGED <<rows, pointer, late, reader, sweep, aged, faults>>
    BY DEF Upload
<1>7. PutFits(p)'
    <2>1. SeenFits(p)'
        BY <1>0, <1>4, <1>6 DEF PutFits, SeenFits
    <2>2. ASSUME Alone(p) PROVE store'[<<"immutable", PutBytes[p]>>] = PutBytes[p]
        BY <1>3, <1>5, <2>2 DEF Alone
    <2>3. ASSUME Alone(p) PROVE rows[RowOf(p)].status # "orphan" /\ RowOf(p) \notin sweep.listed
        BY <1>0, <1>1, <2>3 DEF PutFits, AloneFits, PutAt
    <2>4. AloneFits(p)'
        BY <1>6, <2>2, <2>3 DEF AloneFits, Alone, RowOf
    <2> QED BY <1>1, <1>4, <2>1, <2>4 DEF PutFits, PutAt
<1>8. ASSUME NEW q \in Puts \ {p} PROVE PutFits(q)'
    <2>1. ASSUME Alone(q) PROVE store'[<<"immutable", PutBytes[q]>>] = store[<<"immutable", PutBytes[q]>>]
        <3>1. o # <<"immutable", PutBytes[q]>> /\ <<"immutable", PutBytes[q]>> \in ObjectIds
            BY <1>3, <1>8, <2>1, RowIsARow DEF Alone, ObjectIds
        <3> QED BY <1>5, <3>1
    <2> QED BY <1>4, <1>6, <1>8, <2>1 DEF CacheInv, PutFits, SeenFits, AloneFits, Alone, PutAt, RowOf
<1> QED BY <1>4, <1>5, <1>6, <1>7, <1>8 DEF CacheInv, CacheTypeOK, ReaderFits, GetIsOnePut

(* What a commit that holds, or does not, leaves in the row and in the     *)
(* pointer; of an immutable cache the pointer's version grows.             *)
LEMMA CommittedLeaves ==
    ASSUME CacheInv, NEW p \in Puts, Committed(p)
    PROVE  /\ rows' \in [RowIds -> [status : {"none", "pending", "committed", "orphan"}, bytes : Content]]
           /\ \A r \in RowIds : rows'[r] = rows[r] \/ (r = RowOf(p) /\ PutKind[p] # "immutable")
           /\ pointer' \in [FixedKinds -> Entry]
           /\ \/ pointer'["immutable"] = pointer["immutable"]
              \/ /\ PutKind[p] = "immutable" /\ put[p].seen.version = pointer["immutable"].version
                 /\ pointer'["immutable"].bytes = PutBytes[p]
                 /\ pointer'["immutable"].version = pointer["immutable"].version + 1
<1>0. /\ rows \in [RowIds -> [status : {"none", "pending", "committed", "orphan"}, bytes : Content]]
      /\ pointer \in [FixedKinds -> Entry] /\ RowOf(p) \in RowIds /\ PutBytes[p] \in Content
      /\ PutKind[p] # "patched" => PutKind[p] \in FixedKinds
    BY RowIsARow DEF CacheInv, CacheTypeOK, Content
<1>1. CASE ~CommitHolds(p)
    <2>1. rows' = rows /\ pointer' = pointer
        BY <1>1 DEF Committed
    <2> QED BY <1>0, <2>1
<1>2. CASE CommitHolds(p)
    <2>1. CASE PutKind[p] = "immutable"
        <3> DEFINE entry == [bytes |-> PutBytes[p], version |-> pointer["immutable"].version + 1]
        <3>1. pointer["immutable"] \in Entry /\ "immutable" \in FixedKinds
            BY <1>0 DEF FixedKinds
        <3>2. pointer' = [pointer EXCEPT !["immutable"] = entry] /\ entry \in Entry /\ rows' = rows
            BY <1>0, <1>2, <2>1, <3>1 DEF Committed, Entry
        <3>3. put[p].seen.version = pointer["immutable"].version
            BY <1>2, <2>1 DEF CommitHolds
        <3>4. entry.bytes = PutBytes[p] /\ entry.version = pointer["immutable"].version + 1
            OBVIOUS
        <3> HIDE DEF entry
        <3>5. pointer' \in [FixedKinds -> Entry] /\ pointer'["immutable"] = entry
            BY <1>0, <3>1, <3>2
        <3> QED BY <1>0, <2>1, <3>2, <3>3, <3>4, <3>5
    <2>2. CASE PutKind[p] # "immutable"
        <3>1. /\ rows' \in [RowIds -> [status : {"none", "pending", "committed", "orphan"}, bytes : Content]]
              /\ \A r \in RowIds \ {RowOf(p)} : rows'[r] = rows[r]
            BY <1>0, <1>2, <2>2 DEF Committed, SetRow
        <3>2. CASE PutKind[p] = "patched"
            BY <1>0, <1>2, <2>2, <3>1, <3>2 DEF Committed
        <3>3. CASE PutKind[p] # "patched"
            <4> DEFINE k == PutKind[p]
                       entry == [bytes |-> PutBytes[p],
                                 version |-> IF pointer[k].version = 0 THEN pointer[k].version + 1
                                             ELSE pointer[k].version]
            <4>1. pointer[k] \in Entry /\ k \in FixedKinds
                BY <1>0, <3>3
            <4>2. pointer' = [pointer EXCEPT ![k] = entry]
                BY <1>0, <1>2, <2>2, <3>3, <4>1 DEF Committed
            <4>3. entry \in Entry
                BY <1>0, <4>1 DEF Entry
            <4> HIDE DEF entry
            <4>4. pointer' \in [FixedKinds -> Entry] /\ pointer'["immutable"] = pointer["immutable"]
                BY <1>0, <2>2, <4>1, <4>2, <4>3 DEF FixedKinds
            <4> QED BY <3>1, <4>4, <2>2
        <3> QED BY <3>2, <3>3
    <2> QED BY <2>1, <2>2
<1> QED BY <1>1, <1>2

LEMMA CommitsKeep ==
    ASSUME CacheInv, NEW p \in Puts, CommitBlob(p) \/ CommitUnanswered(p) \/ LateCommit(p)
    PROVE  CacheInv'
<1>0. /\ put[p] \in PutState /\ put \in [Puts -> PutState] /\ faults \in 0..MaxBusFaults /\ late \subseteq Puts
    BY DEF CacheInv, CacheTypeOK
<1>1. ASSUME Committed(p), put' \in [Puts -> PutState], faults' \in 0..MaxBusFaults, late' \subseteq Puts,
             \A q \in Puts : /\ put'[q].seen = put[q].seen
                             /\ put'[q].pc = put[q].pc \/ (put[q].pc = "commit" /\ put'[q].pc \in {"ok", "mark"}),
             UNCHANGED <<store, reader, sweep, aged>>
      PROVE  CacheInv'
    <2>1. CacheTypeOK' /\ ReaderFits' /\ (sweep.pc = "row" => sweep.row \in sweep.listed)'
        BY <1>1, CommittedLeaves DEF CacheInv, CacheTypeOK, ReaderFits, GetIsOnePut
    <2>2. ASSUME NEW q \in Puts PROVE PutFits(q)'
        <3>1. Alone(q) => rows'[RowOf(q)] = rows[RowOf(q)]
            BY <1>1, CommittedLeaves, RowOfOneAlone, RowIsARow DEF Alone
        <3>2. AloneFits(q)'
            BY <1>1, <3>1 DEF CacheInv, PutFits, AloneFits, Alone, PutAt, RowOf
        <3>3. SeenFits(q)'
            <4>1. put[q].seen.version \in Nat /\ pointer["immutable"].version \in Nat
                BY DEF CacheInv, CacheTypeOK, PutState, Entry, FixedKinds
            <4> QED BY <1>1, <4>1, CommittedLeaves DEF CacheInv, PutFits, SeenFits
        <3> QED BY <1>1, <3>2, <3>3 DEF CacheInv, PutFits, PutAt
    <2> QED BY <2>1, <2>2 DEF CacheInv
<1>2. ASSUME NEW pc \in {"ok", "mark"}, PutGoto(p, pc), PutAt(p, "commit")
      PROVE  /\ put' \in [Puts -> PutState]
             /\ \A q \in Puts : /\ put'[q].seen = put[q].seen
                                /\ put'[q].pc = put[q].pc \/ (put[q].pc = "commit" /\ put'[q].pc \in {"ok", "mark"})
    <2> DEFINE s == [put[p] EXCEPT !.pc = pc]
    <2>1. s \in PutState /\ put' = [put EXCEPT ![p] = s] /\ s.pc = pc /\ s.seen = put[p].seen
        BY <1>0, <1>2 DEF PutGoto, PutState
    <2> HIDE DEF s
    <2> QED BY <1>0, <1>2, <2>1 DEF PutAt
<1>3. CASE CommitBlob(p)
    <2>1. \E pc \in {"ok", "mark"} : PutGoto(p, pc)
        BY <1>3 DEF CommitBlob
    <2> QED BY <1>0, <1>1, <1>2, <1>3, <2>1 DEF CommitBlob
<1>4. CASE CommitUnanswered(p)
    <2>1. faults' \in 0..MaxBusFaults
        BY <1>0, <1>4, BusAssumption DEF CommitUnanswered, BusFault
    <2>2. CASE Committed(p) /\ UNCHANGED late
        BY <1>0, <1>1, <1>2, <1>4, <2>1, <2>2 DEF CommitUnanswered
    <2>3. CASE late' = late \cup {p} /\ UNCHANGED <<rows, pointer>>
        <3> DEFINE s == [put[p] EXCEPT !.pc = "mark"]
        <3>1. /\ s \in PutState /\ put' = [put EXCEPT ![p] = s] /\ s.pc = "mark" /\ s.seen = put[p].seen
              /\ late' \subseteq Puts
            BY <1>0, <1>4, <2>3 DEF CommitUnanswered, PutGoto, PutState
        <3> HIDE DEF s
        <3> QED BY <1>4, <2>1, <2>3, <3>1, PutGoesOn DEF CommitUnanswered, PutAt
    <2> QED BY <1>4, <2>2, <2>3 DEF CommitUnanswered
<1>5. CASE LateCommit(p)
    <2>1. put' = put /\ faults' = faults /\ late' \subseteq Puts /\ Committed(p)
          /\ UNCHANGED <<store, reader, sweep, aged>>
        BY <1>0, <1>5 DEF LateCommit
    <2> QED BY <1>0, <1>1, <2>1
<1> QED BY <1>3, <1>4, <1>5

(* Gets.                                                                   *)
LEMMA ReadersKeep ==
    ASSUME CacheInv, (\E k \in FixedKinds : GetByPointer(k)) \/ GetPatched \/ Fetch
    PROVE  CacheInv'
<1> DEFINE Reader == [pc : {"idle", "fetch", "ok", "miss"}, kind : Kinds, want : Content, got : Seq(Content)]
<1>0. /\ reader \in Reader /\ pointer \in [FixedKinds -> Entry] /\ store \in [ObjectIds -> Content]
      /\ rows \in [RowIds -> [status : {"none", "pending", "committed", "orphan"}, bytes : Content]]
      /\ ReaderFits
    BY DEF CacheInv, CacheTypeOK
<1>1. ASSUME reader' \in Reader, ReaderFits', UNCHANGED <<rows, pointer, store, put, late, sweep, aged, faults>>
      PROVE  CacheInv'
    BY <1>1 DEF CacheInv, CacheTypeOK, PutFits, SeenFits, AloneFits, Alone, PutAt, RowOf
<1>2. ASSUME NEW kind \in Kinds, NEW want \in Content, StartGet(kind, want)
      PROVE  CacheInv'
    <2> DEFINE pc == IF want = NoBytes THEN "miss" ELSE "fetch"
    <2>1. reader' = [pc |-> pc, kind |-> kind, want |-> want, got |-> <<>>]
        BY <1>2 DEF StartGet
    <2>2. pc \in {"miss", "fetch"} /\ (pc = "fetch" => want # NoBytes) /\ <<>> \in Seq(Content)
        OBVIOUS
    <2> HIDE DEF pc
    <2>3. reader' \in Reader /\ ReaderFits'
        BY <2>1, <2>2 DEF ReaderFits, GetIsOnePut
    <2> QED BY <1>1, <1>2, <2>3 DEF StartGet
<1>3. CASE \E k \in FixedKinds : GetByPointer(k)
    <2>1. PICK k \in FixedKinds : StartGet(k, pointer[k].bytes)
        BY <1>3 DEF GetByPointer, PointerOf
    <2>2. k \in Kinds /\ pointer[k].bytes \in Content
        BY <1>0, <2>1 DEF Kinds, Entry
    <2> QED BY <1>2, <2>1, <2>2
<1>4. CASE GetPatched
    <2> DEFINE row == rows[<<"patched", NoBytes>>]
               want == IF row.status = "committed" THEN row.bytes ELSE NoBytes
    <2>1. StartGet("patched", want)
        BY <1>4 DEF GetPatched
    <2>2. want \in Content /\ "patched" \in Kinds
        BY <1>0 DEF RowIds, Content, Kinds
    <2> HIDE DEF want
    <2> QED BY <1>2, <2>1, <2>2
<1>5. CASE Fetch
    <2> DEFINE o == CASE reader.kind = "immutable" -> <<"immutable", reader.want>>
                      [] reader.kind = "patched" -> <<IF reader.got = <<>> THEN "csv" ELSE "manifest", NoBytes>>
                      [] OTHER -> <<reader.kind, NoBytes>>
               got == Append(reader.got, store[o])
               more == reader.kind = "patched" /\ reader.got = <<>>
               pc == IF store[o] = NoBytes THEN "miss" ELSE IF more THEN "fetch"
                     ELSE IF GotChecked(got) THEN "ok" ELSE "miss"
    <2>1. /\ reader.pc = "fetch" /\ reader.want # NoBytes /\ reader.kind \in Kinds /\ reader.want \in Content
          /\ reader.got \in Seq(Content)
          /\ reader.kind = "patched" => reader.got = <<>> \/ Len(reader.got) = 1
        BY <1>0, <1>5 DEF Fetch, ReaderFits
    <2>2. o \in ObjectIds
        BY <2>1 DEF ObjectIds, Kinds, FixedKinds, Content
    <2>3. reader' = [reader EXCEPT !.got = got, !.pc = pc]
        BY <1>5 DEF Fetch
    <2>4. store[o] \in Content
        BY <1>0, <2>2
    <2> HIDE DEF o
    <2>5. got \in Seq(Content) /\ Len(got) = Len(reader.got) + 1
        BY <2>1, <2>4
    <2>6. /\ pc \in {"miss", "fetch", "ok"}
          /\ pc = "fetch" => reader.got = <<>>
          /\ pc = "ok" /\ reader.kind = "patched" => reader.got # <<>> /\ GotChecked(got)
        OBVIOUS
    <2>7. reader.got = <<>> => Len(got) = 1
        BY <2>5
    <2> HIDE DEF got, more, pc
    <2>8. /\ reader' \in Reader /\ reader'.pc = pc /\ reader'.got = got
          /\ reader'.kind = reader.kind /\ reader'.want = reader.want
        BY <1>0, <2>3, <2>5, <2>6
    <2>9. GetIsOnePut'
        <3> SUFFICES ASSUME pc = "ok", reader.kind = "patched" PROVE got = <<reader.want, reader.want>>
            BY <2>8 DEF GetIsOnePut
        <3>1. Len(got) = 2 /\ \A i \in DOMAIN got : got[i] = reader.want
            <4>1. reader.got # <<>> /\ GotChecked(got)
                BY <2>6
            <4>2. Len(got) = 2
                <5>1. Len(reader.got) = 1
                    BY <2>1, <4>1
                <5> QED BY <2>5, <5>1
            <4> QED BY <4>1, <4>2 DEF GotChecked
        <3>2. got[1] = reader.want /\ got[2] = reader.want
            BY <2>5, <3>1
        <3> QED BY <2>1, <2>5, <3>1, <3>2
    <2>10. ReaderFits'
        BY <2>1, <2>6, <2>7, <2>8, <2>9 DEF ReaderFits
    <2> QED BY <1>1, <1>5, <2>8, <2>10 DEF Fetch
<1> QED BY <1>3, <1>4, <1>5

(* The sweeper, and the days: what it lists of a put that is alone is the  *)
(* row of a put that failed, and at the keys of another row is not its     *)
(* object.                                                                 *)
LEMMA SweepsKeep ==
    ASSUME CacheInv,
           \/ WeekPasses \/ ListOrphans \/ SweepRow
           \/ \E r \in sweep.listed : \E kept \in SUBSET ObjectsAt(r[1], r[2]) : SweepObjects(r, kept)
    PROVE  CacheInv'
<1> DEFINE Sweep == [pc : {"idle", "objects", "row"}, listed : SUBSET RowIds, row : RowIds]
           Row == [status : {"none", "pending", "committed", "orphan"}, bytes : Content]
<1>0. /\ sweep \in Sweep /\ rows \in [RowIds -> Row] /\ store \in [ObjectIds -> Content]
      /\ aged \subseteq RowIds /\ faults \in 0..MaxBusFaults
      /\ sweep.pc = "row" => sweep.row \in sweep.listed
    BY DEF CacheInv, CacheTypeOK
<1>1. ASSUME sweep' \in Sweep, rows' \in [RowIds -> Row], store' \in [ObjectIds -> Content],
             aged' \subseteq RowIds, faults' \in 0..MaxBusFaults,
             sweep'.pc = "row" => sweep'.row \in sweep'.listed,
             \A r \in RowIds : rows'[r].status = "orphan" => rows[r].status = "orphan",
             \A r \in sweep'.listed : r \in sweep.listed \/ rows[r].status = "orphan",
             \A p \in Puts : Alone(p) /\ put[p].pc \in {"commit", "ok"} =>
                 store'[<<"immutable", PutBytes[p]>>] = store[<<"immutable", PutBytes[p]>>],
             UNCHANGED <<pointer, put, late, reader>>
      PROVE  CacheInv'
    <2>1. CacheTypeOK' /\ ReaderFits'
        BY <1>1 DEF CacheInv, CacheTypeOK, ReaderFits, GetIsOnePut
    <2>2. ASSUME NEW p \in Puts PROVE PutFits(p)'
        <3>1. AloneFits(p)'
            BY <1>1, RowIsARow DEF CacheInv, PutFits, AloneFits, Alone, PutAt, RowOf
        <3> QED BY <1>1, <3>1 DEF CacheInv, PutFits, SeenFits, PutAt
    <2> QED BY <1>1, <2>1, <2>2 DEF CacheInv
<1>2. CASE WeekPasses
    <2>1. aged' \subseteq RowIds /\ UNCHANGED <<rows, pointer, store, put, late, reader, sweep, faults>>
        BY <1>2 DEF WeekPasses
    <2> QED BY <1>0, <1>1, <2>1
<1>3. CASE ListOrphans
    <2> DEFINE listed == {r \in RowIds : Listable(r)}
    <2>1. sweep' \in Sweep /\ sweep'.pc = "objects" /\ sweep'.listed = listed
        BY <1>0, <1>3 DEF ListOrphans
    <2>2. \A r \in listed : rows[r].status = "orphan"
        BY DEF Listable
    <2>3. UNCHANGED <<rows, pointer, store, put, late, reader, aged, faults>>
        BY <1>3 DEF ListOrphans
    <2> HIDE DEF listed
    <2> QED BY <1>0, <1>1, <2>1, <2>2, <2>3
<1>4. CASE SweepRow
    <2> DEFINE left == sweep.listed \ {sweep.row}
    <2>1. /\ sweep' \in Sweep /\ sweep'.pc # "row" /\ sweep'.listed \subseteq sweep.listed
        <3>1. left \subseteq RowIds
            BY <1>0
        <3>2. CASE left = {}
            BY <1>4, <3>2 DEF SweepRow, NotSweeping, RowIds
        <3>3. CASE left # {}
            BY <1>0, <1>4, <3>1, <3>3 DEF SweepRow
        <3> QED BY <3>2, <3>3
    <2>2. /\ rows' \in [RowIds -> Row]
          /\ \A r \in RowIds : rows'[r].status = "orphan" => rows[r].status = "orphan"
        BY <1>0, <1>4 DEF SweepRow, Content
    <2>3. aged' \subseteq RowIds /\ UNCHANGED <<pointer, store, put, late, reader, faults>>
        BY <1>0, <1>4 DEF SweepRow
    <2> QED BY <1>0, <1>1, <2>1, <2>2, <2>3
<1>5. ASSUME NEW r \in sweep.listed, NEW kept \in SUBSET ObjectsAt(r[1], r[2]), SweepObjects(r, kept)
      PROVE  CacheInv'
    <2>1. sweep' \in Sweep /\ sweep'.listed = sweep.listed /\ sweep'.row \in sweep'.listed
        BY <1>0, <1>5 DEF SweepObjects
    <2>2. store' \in [ObjectIds -> Content]
        BY <1>0, <1>5 DEF SweepObjects, Content
    <2>3. faults' \in 0..MaxBusFaults
        <3>1. CASE kept = {}
            BY <1>0, <1>5, <3>1 DEF SweepObjects
        <3>2. CASE kept # {}
            <4>1. BusFault
                BY <1>5, <3>2 DEF SweepObjects
            <4> QED BY <1>0, <4>1, BusAssumption DEF BusFault
        <3> QED BY <3>1, <3>2
    <2>4. ASSUME NEW p \in Puts, Alone(p), put[p].pc \in {"commit", "ok"}
          PROVE  store'[<<"immutable", PutBytes[p]>>] = store[<<"immutable", PutBytes[p]>>]
        <3> DEFINE o == <<"immutable", PutBytes[p]>>
        <3>1. o \in ObjectIds /\ RowOf(p) = o /\ RowOf(p) \in RowIds
            BY <2>4, RowIsARow DEF Alone, ObjectIds
        <3>2. r # o
            BY <2>4, <3>1 DEF CacheInv, PutFits, AloneFits, PutAt
        <3>3. r \in RowIds
            BY <1>0, <1>5
        <3>4. o \notin ObjectsAt(r[1], r[2])
            BY <3>2, <3>3 DEF ObjectsAt, RowIds, FixedKinds
        <3> QED BY <1>5, <3>1, <3>4 DEF SweepObjects
    <2>5. UNCHANGED <<rows, pointer, put, late, reader, aged>>
        BY <1>5 DEF SweepObjects
    <2> QED BY <1>0, <1>1, <2>1, <2>2, <2>3, <2>4, <2>5
<1> QED BY <1>2, <1>3, <1>4, <1>5

LEMMA CacheStep == CacheInv /\ [CacheNext]_busVars => CacheInv'
<1> SUFFICES ASSUME CacheInv, [CacheNext]_busVars PROVE CacheInv'
    OBVIOUS
<1>1. CASE UNCHANGED busVars
    BY <1>1 DEF busVars, CacheInv, CacheTypeOK, ReaderFits, GetIsOnePut, PutFits, SeenFits, AloneFits, Alone,
                PutAt, RowOf
<1> QED BY <1>1, LooksKeep, RowsKeep, UploadKeeps, CommitsKeep, ReadersKeep, SweepsKeep DEF CacheNext

(* The inductive invariant of the caches: what a put has seen of the       *)
(* pointer, that only its own failure makes the row of a put of new bytes  *)
(* an orphan, and what a reader has between its two calls.                 *)
THEOREM CacheInvariant == CacheSpec => []CacheInv
<1>1. CacheInit => CacheInv
    BY CacheInitHolds
<1>2. CacheInv /\ [CacheNext]_busVars => CacheInv'
    BY CacheStep
<1> QED BY <1>1, <1>2, PTL DEF CacheSpec

(* A step that moves the pointer is a commit, of a put that had read the   *)
(* entry it replaces (commit_cache_pointer_cas).                           *)
LEMMA PointerMoves ==
    ASSUME CacheInv, CacheNext, pointer'["immutable"] # pointer["immutable"]
    PROVE  \E p \in Puts : /\ PutKind[p] = "immutable"
                           /\ put[p].seen = pointer["immutable"]
                           /\ pointer'["immutable"].bytes = PutBytes[p]
<1>1. PICK p \in Puts : Committed(p)
    BY DEF CacheNext, LookAtPointer, LookAtUrl, LookAtRow, Find, InsertPending, UpsertPatched, Upload,
           UploadFails, CommitBlob, CommitUnanswered, LateCommit, MarkOrphan, MarkFails, PutKilled,
           GetByPointer, GetPatched, StartGet, Fetch, WeekPasses, ListOrphans, SweepObjects, SweepRow
<1>2. /\ PutKind[p] = "immutable" /\ put[p].seen.version = pointer["immutable"].version
      /\ pointer'["immutable"].bytes = PutBytes[p]
    BY <1>1, CommittedLeaves
<1>3. put[p].seen = pointer["immutable"]
    BY <1>2 DEF CacheInv, PutFits, SeenFits
<1> QED BY <1>2, <1>3

(* All that the run checks of the caches, for any puts, contents and       *)
(* faults: a pointer moved by version compare is moved by a put that read  *)
(* what it replaces; the object of new bytes stays while the pointer names *)
(* it; the two files of a get-patched are of one put (cache_bus_cli.py).   *)
THEOREM CachesAreSafe == CacheSpec => CacheSafe
<1>1. CacheInv => CacheTypeOK /\ NewBytesStay /\ GetIsOnePut
    BY DEF CacheInv, ReaderFits, NewBytesStay, PutFits, AloneFits, Alone
<1>2. CacheInv /\ [CacheNext]_busVars =>
        [pointer'["immutable"] # pointer["immutable"] =>
            \E p \in Puts : /\ PutKind[p] = "immutable"
                            /\ put[p].seen = pointer["immutable"]
                            /\ pointer'["immutable"].bytes = PutBytes[p]]_busVars
    BY PointerMoves DEF busVars
<1>3. CacheSpec => [][CacheNext]_busVars
    BY PTL DEF CacheSpec
<1> QED BY <1>1, <1>2, <1>3, CacheInvariant, PTL DEF CacheSafe, MovesWhatWasRead
=============================================================================
