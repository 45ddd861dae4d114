---------------------------- MODULE NameAliases ----------------------------
(***************************************************************************)
(* The list of names a company goes by, which the scoring of news looks up *)
(* (src/src/stockradar/jobs/update_kabutan_name_aliases.py, launched by    *)
(* src/scripts/run_alias_refresh.py).  A pass reads two sites code by code *)
(* and the disclosures of the last months as a whole, for hours; it saves  *)
(* a checkpoint now and then, may be killed at any time, and a later       *)
(* attempt with the same date and codes goes on where the last checkpoint  *)
(* was saved.  The YAML it writes is a proposal: the operator copies it to *)
(* the config, and edits the config by hand.                               *)
(*                                                                         *)
(* A word stands for the aliases that share a dedup key.  Request counts,  *)
(* pauses and latencies are left out, and so is the anomaly about them.    *)
(***************************************************************************)
EXTENDS Integers, FiniteSetsExt

CONSTANTS
    NameCodes,     \* the codes, in their order
    Words,
    OwnName,       \* [NameCodes -> the words of its listed and shortened name]
    ShortWords,    \* three to five letters
    NoiseWords,    \* what is_valid_alias refuses
    Alphabet,      \* [Words -> place]
    Shown,         \* [site -> [day -> [code -> the words it shows]]]
    Disclosed,     \* [day -> [code -> [Words -> disclosures under that name]]]
    NumNameDays,
    SaveEvery,     \* checkpoint_interval
    Outages,       \* bound: the sites that may be silent at once
    MaxNamePasses  \* bound: attempts

ASSUME NamesAssumption ==
    /\ NameCodes \subseteq Nat /\ NumNameDays \in Nat \ {0} /\ SaveEvery \in Nat \ {0} /\ MaxNamePasses \in Nat
    /\ Disclosed \in [1..NumNameDays -> [NameCodes -> [Words -> Nat]]]

NameDays == 1..NumNameDays
Sites == {"kabutan", "nikkei"}
NoRecord == [count |-> 0]
NoRecords == [c \in NameCodes |-> [w \in Words |-> NoRecord]]
NoDisclosures == [c \in NameCodes |-> [w \in Words |-> 0]]

VARIABLES
    nameDay,         \* today
    config,          \* config/kabutan_name_aliases.yaml
    proposal,        \* the YAML of the last pass: of what pass, and its aliases
    nameState,       \* alias_state.json
    delta, summary,  \* alias_delta and alias_summary of each date
    checkpoints,     \* the files of the checkpoint directory
    namePass,        \* the attempt under way
    seenTotal        \* history: how often a read saw a word under a code
nameVars == <<nameDay, config, proposal, nameState, delta, summary, checkpoints, namePass, seenTotal>>

NoCandidates == [c \in NameCodes |-> {}]
NoPass == [by |-> 0, pc |-> "idle", date |-> 1, codes |-> {}, base |-> [c \in NameCodes |-> {}],
           old |-> NoRecords, issuers |-> NoDisclosures,
           done |-> {}, found |-> NoCandidates, unsaved |-> 0]

NameInit ==
    /\ nameDay = 1 /\ config = NoPass.base /\ namePass = NoPass /\ checkpoints = {}
    /\ proposal = [by |-> 0, names |-> NoPass.base] /\ nameState = [by |-> 0, records |-> NoPass.old]
    /\ delta = [d \in NameDays |-> [by |-> 0, rows |-> {}]]
    /\ summary = [d \in NameDays |-> [by |-> 0, added |-> 0, review |-> 0]]
    /\ seenTotal = NoDisclosures

-----------------------------------------------------------------------------
(* What the sites show.  An answer that does not come after the retries is *)
(* an empty one.                                                           *)
ValidWord(w) == w \notin NoiseWords
Answer(words, ok) == IF ok THEN words ELSE {}
SiteWords(site, d, c, ok) == {w \in Answer(Shown[site][d][c], ok) : ValidWord(w)}
\* Of the names in the disclosures of a code the two most frequent count.
Ahead(counts, v, w) == counts[v] > counts[w] \/ (counts[v] = counts[w] /\ Alphabet[v] < Alphabet[w])
TopTwo(counts) == {w \in Words : Cardinality({v \in Words : ValidWord(v) /\ Ahead(counts, v, w)}) < 2}
IssuerCounts(d, codes, ok) ==
    [c \in NameCodes |-> [w \in Words |->
        IF ok /\ c \in codes /\ ValidWord(w) /\ w \in TopTwo(Disclosed[d][c]) THEN Disclosed[d][c][w] ELSE 0]]

(***************************************************************************)
(* An attempt begins                                                       *)
(***************************************************************************)
FingerprintUndated(d, codes) == codes
Fingerprint(d, codes) == <<d, codes>>

LoadCheckpoint(print) ==
    LET kept == {k \in checkpoints : k.print = print}
    IN IF kept = {} THEN [print |-> print, done |-> {}, found |-> NoCandidates] ELSE CHOOSE k \in kept : TRUE

SaveCheckpoint(p) ==
    LET print == Fingerprint(p.date, p.codes)
    IN {k \in checkpoints : k.print # print} \union {[print |-> print, done |-> p.done, found |-> p.found]}

\* ok: TDnet answers.
StartNamePass(d, codes, ok) ==
    /\ namePass.pc = "idle" /\ namePass.by < MaxNamePasses /\ d <= nameDay /\ codes # {}
    /\ LET resumed == LoadCheckpoint(Fingerprint(d, codes))
       IN namePass' = [by |-> namePass.by + 1, pc |-> "collect", date |-> d, codes |-> codes, base |-> config,
                       old |-> nameState.records, done |-> resumed.done, found |-> resumed.found, unsaved |-> 0,
                       issuers |-> IssuerCounts(d, codes, ok /\ codes \ resumed.done # {})]
    /\ UNCHANGED <<nameDay, config, proposal, nameState, delta, summary, checkpoints, seenTotal>>

(***************************************************************************)
(* It reads code after code                                                *)
(***************************************************************************)
\* A name seen twice in one place is no better than a name seen once.
ConfidenceByCount(sources, count, w, known) ==
    CASE known \/ count >= 2 -> "high"
      [] ~(known \/ count >= 2) /\ (~ValidWord(w) \/ w \in ShortWords) -> "low"
      [] OTHER -> "medium"
Confidence(sources, count, w, known) ==
    CASE known \/ Cardinality(sources) >= 2 -> "high"
      [] ~(known \/ Cardinality(sources) >= 2) /\ (~ValidWord(w) \/ w \in ShortWords) -> "low"
      [] OTHER -> "medium"

Known(p, c) == OwnName[c] \union p.base[c]

Observed(p, c, silent, w) ==
    {s \in Sites : w \in SiteWords(s, nameDay, c, s \notin silent)}
      \union (IF p.issuers[c][w] > 0 THEN {"tdnet"} ELSE {})
SeenNow(p, c, silent, w) == Cardinality(Observed(p, c, silent, w) \ {"tdnet"}) + p.issuers[c][w]

CandidateFor(p, c, silent, w) ==
    LET sources == Observed(p, c, silent, w)
        seen == SeenNow(p, c, silent, w)
    IN [word |-> w, sources |-> sources, read |-> p.date, known |-> w \in Known(p, c),
        count |-> seen + p.old[c][w].count,
        confidence |-> Confidence(sources, seen, w, w \in Known(p, c))]

\* silent: the sites that do not answer; the code counts as done all the same.
ReadCode(silent) ==
    /\ namePass.pc = "collect" /\ namePass.done # namePass.codes
    /\ LET p == namePass
           c == Min(p.codes \ p.done)
           words == {w \in Words : Observed(p, c, silent, w) # {}}
           read == [p EXCEPT !.done = @ \union {c}, !.unsaved = @ + 1,
                             !.found[c] = {CandidateFor(p, c, silent, w) : w \in words}]
           saves == read.unsaved >= SaveEvery
       IN /\ namePass' = IF saves THEN [read EXCEPT !.unsaved = 0] ELSE read
          /\ checkpoints' = IF saves THEN SaveCheckpoint(read) ELSE checkpoints
          /\ seenTotal' = [seenTotal EXCEPT ![c] = [w \in Words |-> @[w] + SeenNow(p, c, silent, w)]]
    /\ UNCHANGED <<nameDay, config, proposal, nameState, delta, summary>>

(***************************************************************************)
(* And writes: the YAML, the delta, the state, the summary, in this order  *)
(***************************************************************************)
ActionOn(p, c, k) ==
    CASE k.word \in p.base[c] -> "skip"
      [] k.word \notin p.base[c] /\ k.confidence = "low" -> "review"
      [] OTHER -> "add"
DeltaOf(p, c) == {[code |-> c, word |-> k.word, action |-> ActionOn(p, c, k)] : k \in p.found[c]}
DeltaRows(p) == UNION {DeltaOf(p, c) : c \in p.codes}
Merged(p) == [c \in NameCodes |->
                p.base[c] \union {r.word : r \in {r \in DeltaRows(p) : r.code = c /\ r.action = "add"}}]

RecordOf(p, c, w) ==
    LET seen == {k \in p.found[c] : k.word = w}
        was == p.old[c][w]
        first == IF was = NoRecord THEN p.date ELSE was.first
    IN CASE seen # {} -> LET k == CHOOSE k \in seen : TRUE
                         IN [count |-> k.count, first |-> first, last |-> p.date, confidence |-> k.confidence]
         [] seen = {} /\ was # NoRecord -> [was EXCEPT !.last = p.date]
         [] OTHER -> [count |-> 1, first |-> p.date, last |-> p.date, confidence |-> "medium"]
\* The records of words that are not on the list are dropped.
BuildState(p) == [c \in NameCodes |-> [w \in Words |-> IF w \in Merged(p)[c] THEN RecordOf(p, c, w) ELSE NoRecord]]

PassAt(pc) == namePass.pc = pc
PassGoto(pc) == namePass' = [namePass EXCEPT !.pc = pc]

WriteProposal ==
    /\ PassAt("collect") /\ namePass.done = namePass.codes
    /\ proposal' = [by |-> namePass.by, names |-> Merged(namePass)] /\ PassGoto("delta")
    /\ UNCHANGED <<nameDay, config, nameState, delta, summary, checkpoints, seenTotal>>

WriteDelta ==
    /\ PassAt("delta") /\ PassGoto("state")
    /\ delta' = [delta EXCEPT ![namePass.date] = [by |-> namePass.by, rows |-> DeltaRows(namePass)]]
    /\ UNCHANGED <<nameDay, config, proposal, nameState, summary, checkpoints, seenTotal>>

WriteState ==
    /\ PassAt("state") /\ PassGoto("summary")
    /\ nameState' = [by |-> namePass.by, records |-> BuildState(namePass)]
    /\ UNCHANGED <<nameDay, config, proposal, delta, summary, checkpoints, seenTotal>>

\* A kill in the middle of this write leaves a torn file, which is read as empty.
TearState ==
    /\ PassAt("state") /\ PassGoto("idle")
    /\ nameState' = [by |-> namePass.by, records |-> NoRecords]
    /\ UNCHANGED <<nameDay, config, proposal, delta, summary, checkpoints, seenTotal>>

Summary(p) ==
    [by |-> p.by, added |-> Cardinality({r \in DeltaRows(p) : r.action = "add"}),
     review |-> Cardinality({r \in DeltaRows(p) : r.action = "review"})]
WriteSummary ==
    /\ PassAt("summary") /\ PassGoto("clear")
    /\ summary' = [summary EXCEPT ![namePass.date] = Summary(namePass)]
    /\ UNCHANGED <<nameDay, config, proposal, nameState, delta, checkpoints, seenTotal>>

ClearCheckpoint ==
    /\ PassAt("clear") /\ PassGoto("idle")
    /\ checkpoints' = {k \in checkpoints : k.print # Fingerprint(namePass.date, namePass.codes)}
    /\ UNCHANGED <<nameDay, config, proposal, nameState, delta, summary, seenTotal>>

(***************************************************************************)
(* The operator and the machine                                            *)
(***************************************************************************)
KillNamePass ==
    /\ ~PassAt("idle") /\ PassGoto("idle")
    /\ UNCHANGED <<nameDay, config, proposal, nameState, delta, summary, checkpoints, seenTotal>>

NextNameDay ==
    /\ nameDay < NumNameDays /\ nameDay' = nameDay + 1
    /\ UNCHANGED <<config, proposal, nameState, delta, summary, checkpoints, namePass, seenTotal>>

AdoptProposal ==
    /\ config # proposal.names /\ config' = proposal.names
    /\ UNCHANGED <<nameDay, proposal, nameState, delta, summary, checkpoints, namePass, seenTotal>>

\* Words are put in by adopting the proposal, and taken out by hand.
EditConfig(c, words) ==
    /\ words # config[c] /\ config' = [config EXCEPT ![c] = words]
    /\ UNCHANGED <<nameDay, proposal, nameState, delta, summary, checkpoints, namePass, seenTotal>>

NameNext ==
    \/ \E d \in NameDays, codes \in SUBSET NameCodes, ok \in BOOLEAN : StartNamePass(d, codes, ok)
    \/ \E silent \in Outages : ReadCode(silent)
    \/ WriteProposal \/ WriteDelta \/ WriteState \/ TearState \/ WriteSummary \/ ClearCheckpoint
    \/ KillNamePass \/ NextNameDay \/ AdoptProposal
    \/ \E c \in NameCodes : \E words \in SUBSET config[c] : EditConfig(c, words)

NameSpec == NameInit /\ [][NameNext]_nameVars

-----------------------------------------------------------------------------
(* Properties.                                                             *)

\* The files and the attempt have their shape.
NamesTypeOK ==
    /\ nameDay \in NameDays /\ config \in [NameCodes -> SUBSET Words]
    /\ proposal.by <= namePass.by /\ proposal.names \in [NameCodes -> SUBSET Words]
    /\ nameState.by <= namePass.by /\ DOMAIN nameState.records = NameCodes
    /\ namePass.pc \in {"idle", "collect", "delta", "state", "summary", "clear"}
    /\ namePass.done \subseteq namePass.codes /\ namePass.unsaved \in 0..SaveEvery
    /\ \A k \in checkpoints : k.done \subseteq NameCodes
    /\ \A j, k \in checkpoints : j.print = k.print => j = k

(* An attempt, however often it was killed and went on, never writes what  *)
(* was read on behalf of another date or another list of codes, and never  *)
(* leaves out a code.                                                      *)
ReadForItsDate ==
    namePass.pc \notin {"idle", "collect"} =>
      /\ namePass.done = namePass.codes
      /\ \A c \in namePass.codes : \A k \in namePass.found[c] : k.read = namePass.date
      /\ \A c \in NameCodes \ namePass.codes : namePass.found[c] = {}

(* No read is counted twice: the count a record has is at most what reads  *)
(* have seen, kills, resumed attempts and repeated dates included.  A name *)
(* taken up by hand counts as one.                                         *)
NoReadCountedTwice ==
    \A c \in NameCodes, w \in Words : nameState.records[c][w].count <= seenTotal[c][w] + 1

(* What a pass adds to the list of a code is vouched for: it was the       *)
(* company's own name or on the list when it was read, or two places used  *)
(* it, or it is long enough not to be mistaken for another's.              *)
AddedIsVouchedFor ==
    namePass.pc = "delta" =>
      \A c \in NameCodes : \A w \in proposal.names[c] \ namePass.base[c] :
        \E k \in namePass.found[c] :
          /\ k.word = w
          /\ k.known \/ Cardinality(k.sources) >= 2 \/ w \notin ShortWords \union NoiseWords

(* A summary is the last to be written: where it is of the pass that wrote *)
(* the list, so are the delta of its date and the state.                   *)
SummaryVouches ==
    \A d \in NameDays : (summary[d].by = proposal.by /\ proposal.by # 0) =>
      /\ delta[d].by = proposal.by /\ nameState.by = proposal.by
      /\ summary[d].added = Cardinality({r \in delta[d].rows : r.action = "add"})
      /\ \A c \in NameCodes, w \in Words :
           (w \in proposal.names[c]) <=> (nameState.records[c][w] # NoRecord)

\* The name aliases as a whole.
NamesSafe == NamesTypeOK /\ ReadForItsDate /\ NoReadCountedTwice /\ AddedIsVouchedFor /\ SummaryVouches
=============================================================================
