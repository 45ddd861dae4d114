----------------------------- MODULE PublishBus -----------------------------
(***************************************************************************)
(* What a run of daily.yml leaves in the control plane: its row in runs,   *)
(* the artifact its compute job hands to the render job                    *)
(* (artifact_bus_cli.py), and the published file with its row and its      *)
(* manifest (publish_bus_cli.py).  Runs of one date store the file under   *)
(* one key; attempts of one run share every key and row.  A day may turn   *)
(* out closed, and a run be dispatched to skip the publication.  Beside    *)
(* them work reconcile-stale-runs, reconcile-manifest and                  *)
(* orphan_sweeper.py.  Rollout stages 3c and 4c: a failed commit fails the *)
(* job.                                                                    *)
(***************************************************************************)
EXTENDS Naturals, FiniteSets

CONSTANTS
    Runs,         \* workflow runs of one date
    Files,        \* what a computation, or its rendering, may come to
    NoFile,
    NoRun,
    MaxAttempts,  \* bound on the attempts of a run
    MaxRunFaults  \* bound on the faults

ASSUME RunAssumption == MaxAttempts \in Nat /\ MaxRunFaults \in Nat

VARIABLES
    runRow,     \* runs: [Runs -> [status, reason, started]]
    job,        \* the attempt under way or last: [Runs -> [pc, attempts, from, got, skip]]
    handoff,    \* runs/daily/<run>: [Runs -> [blob, manifest]]
    index,      \* artifact_index: [Runs -> [status, file]]
    pubRow,     \* publish_status: [Runs -> [status, file]]
    published,  \* the file of the date: [file, by], by: whose call touched it last
    manifest,   \* its manifest: [run, file, status]
    stale,      \* rows reconcile-stale-runs listed and has not patched
    look,       \* the row reconcile-manifest has read, if any: [run, file]
    withdrawn,  \* history: runs whose committed row a handler marked an orphan
    swept,      \* rows orphan_sweeper.py listed and has not deleted
    runFaults

\* What only the operator's tools, and what only a publication changes.
tools == <<stale, swept, look>>
publication == <<pubRow, published, manifest, withdrawn>>
runVars == <<runRow, job, handoff, index, publication, tools, runFaults>>

NoRow == [status |-> "none", file |-> NoFile]

RunInit ==
    /\ runRow = [r \in Runs |-> [status |-> "none", reason |-> "-", started |-> "now"]]
    /\ job = [r \in Runs |-> [pc |-> "over", attempts |-> 0, from |-> "artifact", got |-> NoFile,
                        skip |-> FALSE]]
    /\ handoff = [r \in Runs |-> [blob |-> NoFile, manifest |-> NoFile]]
    /\ index = [r \in Runs |-> NoRow]
    /\ pubRow = [r \in Runs |-> NoRow]
    /\ published = [file |-> NoFile, by |-> NoRun]
    /\ manifest = [run |-> NoRun, file |-> NoFile, status |-> "none"]
    /\ stale = {} /\ swept = {} /\ look = {} /\ withdrawn = {}
    /\ runFaults = 0

RunRow == [status : {"none", "running", "success", "failed"},
           reason : {"-", "stale", "market_closed"}, started : {"now", "hours", "week"}]
Attempt == [pc : {"over", "artifact", "blob", "index", "indexed", "unindex", "get", "publish",
                  "file", "manifest", "commit", "orphan", "restate", "won", "lost", "closed"},
            attempts : 0..MaxAttempts, from : {"closed", "artifact", "get", "won"},
            got : Files \cup {NoFile}, skip : BOOLEAN]
\* The objects of a run, at keys of its own; those of a date, at keys its runs
\* share.
Handoff == [blob : Files \cup {NoFile}, manifest : Files \cup {NoFile}]
PublishedObject == [file : Files \cup {NoFile}, by : Runs \cup {NoRun}]
PublishedManifest == [run : Runs \cup {NoRun}, file : Files \cup {NoFile},
                      status : {"none", "pending", "committed", "orphan"}]
StatusRow == [status : {"none", "pending", "committed", "orphan"}, file : Files \cup {NoFile}]

RunTypeOK ==
    /\ runRow \in [Runs -> RunRow] /\ job \in [Runs -> Attempt] /\ handoff \in [Runs -> Handoff]
    /\ index \in [Runs -> StatusRow] /\ pubRow \in [Runs -> StatusRow]
    /\ published \in PublishedObject /\ manifest \in PublishedManifest
    /\ stale \subseteq Runs /\ swept \subseteq Runs /\ withdrawn \subseteq Runs
    /\ look \subseteq [run : Runs, file : Files \cup {NoFile}]
    /\ runFaults \in 0..MaxRunFaults

-----------------------------------------------------------------------------
InFlight == {r \in Runs : job[r].pc # "over"}
RunAt(r, pc) == job[r].pc = pc
RunGoto(r, pc) == job' = [job EXCEPT ![r].pc = pc]
RunFault == runFaults < MaxRunFaults /\ runFaults' = runFaults + 1

CanStart(r) == InFlight = {} /\ job[r].attempts < MaxAttempts /\ runRow[r].started # "week"

(* An attempt from the top, one run at a time (concurrency group), within  *)
(* the week: upsert-run merges into the row of an earlier attempt, which   *)
(* is running again with the start and the reason it had.  The date is     *)
(* resolved anew, to an open day and what is computed of it, or to a       *)
(* closed day (NoFile); skip_publish is an input of the run.               *)
StartAttempt(r, file, skip) ==
    /\ CanStart(r)
    /\ job[r].attempts > 0 => skip = job[r].skip
    /\ runRow' = [runRow EXCEPT ![r].status = "running"]
    /\ LET start == IF file = NoFile THEN "closed" ELSE "artifact" IN
       job' = [job EXCEPT ![r] = [pc |-> start, attempts |-> @.attempts + 1, from |-> start,
                                  got |-> file, skip |-> skip]]
    /\ UNCHANGED <<handoff, index, publication, tools, runFaults>>

(* "Re-run failed jobs", or one job and those that need it: the jobs       *)
(* before keep their results, upsert-run is not called again, and the row  *)
(* stays what it is.                                                       *)
Reached(r) ==
    CASE job[r].from = "get" -> {"artifact", "get"}
      [] job[r].from = "won" -> {"artifact", "get", "won"}
      [] OTHER -> {job[r].from}

Resume(r, file, from) ==
    /\ CanStart(r) /\ job[r].attempts > 0
    /\ from \in Reached(r)
    /\ IF from = "artifact" THEN file # NoFile ELSE file = job[r].got
    /\ job' = [job EXCEPT ![r].pc = from, ![r].from = from, ![r].attempts = @ + 1, ![r].got = file]
    /\ UNCHANGED <<runRow, handoff, index, publication, tools, runFaults>>

(* artifact_bus_cli.py put: the blob, then its manifest, then the index.   *)
PutArtifact(r) ==
    /\ \/ /\ RunAt(r, "artifact")
          /\ handoff' = [handoff EXCEPT ![r].blob = job[r].got]
          /\ RunGoto(r, "blob")
       \/ /\ RunAt(r, "blob")
          /\ handoff' = [handoff EXCEPT ![r].manifest = job[r].got]
          /\ RunGoto(r, "index")
    /\ UNCHANGED <<runRow, index, publication, tools, runFaults>>

(* insert_artifact_index_pending is a plain insert: the row of an earlier  *)
(* attempt is in its way.                                                  *)
InsertIndex(r) ==
    /\ RunAt(r, "index")
    /\ IF index[r].status = "none"
       THEN /\ index' = [index EXCEPT ![r] = [status |-> "pending", file |-> job[r].got]]
            /\ RunGoto(r, "indexed")
       ELSE RunGoto(r, "lost") /\ UNCHANGED index
    /\ UNCHANGED <<runRow, handoff, publication, tools, runFaults>>

CommitIndex(r, answered) ==
    /\ RunAt(r, "indexed")
    /\ IF answered THEN UNCHANGED runFaults ELSE RunFault
    /\ index' = [index EXCEPT ![r].status = "committed"]
    /\ job' = [job EXCEPT ![r].pc = IF answered THEN "get" ELSE "unindex",
                          ![r].from = IF answered THEN "get" ELSE @]
    /\ UNCHANGED <<runRow, handoff, publication, tools>>

OrphanIndex(r) ==
    /\ RunAt(r, "unindex")
    /\ index' = [index EXCEPT ![r].status = "orphan"]
    /\ RunGoto(r, "lost")
    /\ UNCHANGED <<runRow, handoff, publication, tools, runFaults>>

(* The render job.  artifact_bus_cli.py get: the content must be what the  *)
(* manifest says.  What is rendered of it depends on the enrichment, which *)
(* another attempt may have had otherwise or not at all.  Under            *)
(* skip_publish nothing is published.                                      *)
GetArtifact(r, rendered) ==
    /\ RunAt(r, "get")
    /\ LET ok == handoff[r].blob # NoFile /\ handoff[r].blob = handoff[r].manifest
           next == IF ~ok THEN "lost" ELSE IF job[r].skip THEN "won" ELSE "publish" IN
       job' = [job EXCEPT ![r].pc = next, ![r].got = rendered,
                          ![r].from = IF next = "won" THEN "won" ELSE @]
    /\ UNCHANGED <<runRow, handoff, index, publication, tools, runFaults>>

-----------------------------------------------------------------------------
(* insert_publish_status_pending returns a committed row as it is, and     *)
(* makes any other row pending with the new file.  A committed row of the  *)
(* same file only has its manifest restated; of another file it ends the   *)
(* command before anything is stored.                                      *)
RunRecorded(r) == runRow[r].status # "none"

InsertPublish(r) ==
    LET row == pubRow[r] IN
    /\ RunAt(r, "publish") /\ RunRecorded(r)
    /\ IF row.status = "committed"
       THEN RunGoto(r, IF row.file = job[r].got THEN "restate" ELSE "lost") /\ UNCHANGED pubRow
       ELSE /\ pubRow' = [pubRow EXCEPT ![r] = [status |-> "pending", file |-> job[r].got]]
            /\ RunGoto(r, "file")
    /\ UNCHANGED <<runRow, handoff, index, published, manifest, withdrawn, tools, runFaults>>

ManifestOf(r, file, status) == [run |-> r, file |-> file, status |-> status]

PutPublished(r) ==
    /\ \/ /\ RunAt(r, "file")
          /\ published' = [file |-> job[r].got, by |-> r]
          /\ RunGoto(r, "manifest") /\ UNCHANGED manifest
       \/ /\ RunAt(r, "manifest")
          /\ manifest' = ManifestOf(r, job[r].got, "pending")
          /\ RunGoto(r, "commit") /\ UNCHANGED published
    /\ UNCHANGED <<runRow, handoff, index, pubRow, withdrawn, tools, runFaults>>

(* Mutant: a run whose commit got no answer goes on as if it had.          *)
CommitPublishAssumed(r, ran) ==
    /\ RunAt(r, "commit")
    /\ RunFault
    /\ pubRow' = [pubRow EXCEPT ![r].status = IF ran THEN "committed" ELSE @]
    /\ RunGoto(r, "restate")
    /\ UNCHANGED <<runRow, handoff, index, published, manifest, withdrawn, tools>>

CommitPublish(r) ==
    /\ RunAt(r, "commit")
    /\ pubRow' = [pubRow EXCEPT ![r].status = "committed"]
    /\ RunGoto(r, "restate")
    /\ UNCHANGED <<runRow, handoff, index, published, manifest, withdrawn, tools, runFaults>>

CommitPublishUnanswered(r, ran) ==
    /\ RunAt(r, "commit")
    /\ RunFault
    /\ pubRow' = [pubRow EXCEPT ![r].status = IF ran THEN "committed" ELSE @]
    /\ RunGoto(r, "orphan")
    /\ UNCHANGED <<runRow, handoff, index, published, manifest, withdrawn, tools>>

(* The handlers of a failed store or commit; the mark itself may fail.     *)
(* Whether the row is committed is not asked.                              *)
OrphanPublish(r, marked) ==
    /\ RunAt(r, "orphan")
    /\ IF marked THEN UNCHANGED runFaults ELSE RunFault
    /\ pubRow' = [pubRow EXCEPT ![r].status = IF marked THEN "orphan" ELSE @]
    /\ withdrawn' = withdrawn \cup {q \in {r} : marked /\ pubRow[r].status = "committed"}
    /\ RunGoto(r, "lost")
    /\ UNCHANGED <<runRow, handoff, index, published, manifest, tools>>

(* The manifest of a committed row; a failure is only a warning.           *)
RestateManifest(r, stored) ==
    /\ RunAt(r, "restate")
    /\ IF stored THEN UNCHANGED runFaults ELSE RunFault
    /\ manifest' = IF stored THEN ManifestOf(r, pubRow[r].file, "committed") ELSE manifest
    /\ job' = [job EXCEPT ![r].pc = "won", ![r].from = "won"]
    /\ UNCHANGED <<runRow, handoff, index, pubRow, published, withdrawn, tools>>

StoreFails(r) ==
    /\ job[r].pc \in {"artifact", "blob", "get", "file", "manifest"}
    /\ RunFault
    /\ RunGoto(r, IF job[r].pc \in {"file", "manifest"} THEN "orphan" ELSE "lost")
    /\ UNCHANGED <<runRow, handoff, index, publication, tools>>

-----------------------------------------------------------------------------
(* Mutant: the patch of a run leaves the reason that is there.             *)
PatchedKeepingReason(row, status, reason) ==
    [row EXCEPT !.status = status, !.reason = IF reason = "-" THEN @ ELSE reason]
(* update_run with include_degraded_reason: both fields, by the run's id,  *)
(* whatever the row says.                                                  *)
Patched(row, status, reason) == [row EXCEPT !.status = status, !.reason = reason]

(* finalize_run: a closed day is a success; else the job results decide,   *)
(* of this attempt or kept from an earlier one: others, those of the jobs  *)
(* beside the publication (enrichment, derived generation, as-of bundle,   *)
(* mirrors).                                                               *)
TerminalStatus(r, others) ==
    IF RunAt(r, "closed") THEN [status |-> "success", reason |-> "market_closed"]
    ELSE [status |-> IF RunAt(r, "won") /\ others THEN "success" ELSE "failed", reason |-> "-"]

Finalize(r, others) ==
    /\ job[r].pc \in {"won", "lost", "closed"}
    /\ runRow' = [runRow EXCEPT ![r] = Patched(@, TerminalStatus(r, others).status,
                                               TerminalStatus(r, others).reason)]
    /\ RunGoto(r, "over")
    /\ UNCHANGED <<handoff, index, publication, tools, runFaults>>

(* The runner is gone, or update-run fails: the row stays as it is.        *)
RunKilled(r) ==
    /\ ~RunAt(r, "over")
    /\ RunFault
    /\ RunGoto(r, "over")
    /\ UNCHANGED <<runRow, handoff, index, publication, tools>>

TimePasses(t) ==
    /\ InFlight = {} /\ swept = {}
    /\ \E r \in Runs : runRow[r].status # "none" /\ runRow[r].started # t
    /\ t = "hours" => \A r \in Runs : runRow[r].started # "week"
    /\ runRow' = [r \in Runs |-> IF runRow[r].status = "none" THEN runRow[r]
                                 ELSE [runRow[r] EXCEPT !.started = t]]
    /\ UNCHANGED <<job, handoff, index, publication, tools, runFaults>>

(* reconcile-stale-runs, by hand: rows running since long are listed, then *)
(* patched one by one.                                                     *)
ListStale ==
    LET old == {r \in Runs : runRow[r].status = "running" /\ runRow[r].started # "now"} IN
    /\ stale = {} /\ old # {}
    /\ stale' = old
    /\ UNCHANGED <<runRow, job, handoff, index, publication, swept, look, runFaults>>

PatchStale(r) ==
    /\ r \in stale
    /\ stale' = stale \ {r}
    /\ runRow' = [runRow EXCEPT ![r] = Patched(@, "failed", "stale")]
    /\ UNCHANGED <<job, handoff, index, publication, swept, look, runFaults>>

(* publish_bus_cli.py reconcile-manifest, by hand, at any time: the row is *)
(* read, and the manifest made of it is put.                               *)
LookUpPublish(r) ==
    /\ pubRow[r].status = "committed"
    /\ look' = {[run |-> r, file |-> pubRow[r].file]} /\ look' # look
    /\ UNCHANGED <<runRow, job, handoff, index, publication, stale, swept, runFaults>>

ReconcileManifest(l) ==
    /\ l \in look
    /\ look' = {}
    /\ manifest' = ManifestOf(l.run, l.file, "committed")
    /\ UNCHANGED <<runRow, job, handoff, index, pubRow, published, withdrawn, stale, swept,
                   runFaults>>

(* orphan_sweeper.py on publish_status: the file and the manifest of the   *)
(* row's keys, and the row.                                                *)
ListSwept ==
    LET old == {r \in Runs : pubRow[r].status = "orphan" /\ runRow[r].started = "week"} IN
    /\ swept = {} /\ old # {}
    /\ swept' = old
    /\ UNCHANGED <<runRow, job, handoff, index, publication, stale, look, runFaults>>

SweepPublish(r) ==
    /\ r \in swept
    /\ swept' = swept \ {r}
    /\ pubRow' = [pubRow EXCEPT ![r] = NoRow]
    /\ published' = [file |-> NoFile, by |-> r]
    /\ manifest' = [run |-> NoRun, file |-> NoFile, status |-> "none"]
    /\ UNCHANGED <<runRow, job, handoff, index, withdrawn, stale, look, runFaults>>

RunNext ==
    \/ \E r \in Runs :
        \/ \E f \in Files \cup {NoFile} :
            \/ \E skip \in BOOLEAN : StartAttempt(r, f, skip)
            \/ \E from \in {"closed", "artifact", "get", "won"} : Resume(r, f, from)
        \/ \E f \in Files : GetArtifact(r, f)
        \/ PutArtifact(r) \/ InsertIndex(r) \/ OrphanIndex(r)
        \/ InsertPublish(r) \/ PutPublished(r) \/ CommitPublish(r) \/ StoreFails(r)
        \/ \E ok \in BOOLEAN : \/ CommitIndex(r, ok) \/ CommitPublishUnanswered(r, ok)
                               \/ OrphanPublish(r, ok) \/ RestateManifest(r, ok) \/ Finalize(r, ok)
        \/ RunKilled(r) \/ PatchStale(r) \/ LookUpPublish(r) \/ SweepPublish(r)
    \/ \E l \in look : ReconcileManifest(l)
    \/ \E t \in {"hours", "week"} : TimePasses(t)
    \/ ListStale
    \/ ListSwept

RunSpec == RunInit /\ [][RunNext]_runVars

-----------------------------------------------------------------------------
(* The manifest beside a file claims a commit only for a row that is       *)
(* committed with the same file, unless the handler of an unanswered       *)
(* commit made a committed row of that run an orphan: then what was said   *)
(* of it, or is being said by reconcile-manifest, may stand.               *)
ManifestIsBacked ==
    manifest.status = "committed" /\ manifest.run \notin withdrawn =>
        pubRow[manifest.run] = [status |-> "committed", file |-> manifest.file]

(* The file of a committed row is the one its run stored: what lies at the *)
(* key of the date and was put there by that run last is that file.  A     *)
(* re-run of another content ends before it stores (publish_mismatch).     *)
FileIsAsRecorded ==
    \A r \in Runs : pubRow[r].status = "committed" /\ published.by = r =>
                      published.file = pubRow[r].file

(* A run recorded as a success carries the reason of a closed day only if  *)
(* its last start found the market closed, and never the reason of a       *)
(* reconciliation; with no reason it has published, unless it was to skip  *)
(* that.                                                                   *)
SuccessIsPublished ==
    \A r \in Runs : runRow[r].status = "success" =>
        IF runRow[r].reason = "market_closed" THEN job[r].from = "closed"
        ELSE runRow[r].reason = "-" /\ (job[r].skip \/ pubRow[r].status = "committed")

(* All that is claimed of a day's runs and the file they publish.          *)
PublishSafe == RunTypeOK /\ ManifestIsBacked /\ FileIsAsRecorded /\ SuccessIsPublished
=============================================================================
