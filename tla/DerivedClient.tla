---------------------------- MODULE DerivedClient ----------------------------
(***************************************************************************)
(* SupabaseMetricGenerationAdapter: what lies between one call of a writer *)
(* and the functions of the database.  A listing is read page by page,     *)
(* each page a query of its own, while other generations commit.  A batch  *)
(* is sent in chunks, each a transaction of its own, any of which may be   *)
(* refused, or its answer lost.  What the functions do with the rows is    *)
(* DerivedGeneration; here a row is registered, uploaded or staged.        *)
(***************************************************************************)
EXTENDS Naturals, FiniteSets

CONSTANTS
    NSeries,      \* the series codes, in the order of the listing
    PageSize,     \* rows of a page
    MaxVersions,  \* bound on the commits of one series
    NItems,       \* objects of the batch
    ChunkSize,    \* BATCH_OBJECT_CHUNK_SIZE
    MaxErrors     \* bound on the calls that end without an answer

ASSUME ClientAssumption ==
    /\ PageSize \in Nat \ {0} /\ ChunkSize \in Nat \ {0}
    /\ NSeries \in Nat /\ NItems \in Nat /\ MaxVersions \in Nat /\ MaxErrors \in Nat

VARIABLES
    shelf,       \* the committed key of each series, a version; 0 is no row
    listing,     \* [pc, offset, out, since]: since is the shelf at its start
    server,      \* [status, registered, uploaded, staged] of the generation
    batch,       \* [pc, next, ids]: the step, the first item unsent, the ids known
    clientErrs   \* calls without an answer so far

clientVars == <<shelf, listing, server, batch, clientErrs>>

SeriesCodes == 1..NSeries
Items == 1..NItems
GenerationRecord == [status : {"pending", "committed", "failed"}, registered : SUBSET Items,
                     uploaded : SUBSET Items, staged : SUBSET Items]
BatchCall == [pc : {"register", "mark", "stage", "commit", "done", "conflict", "error"},
              next : Nat, ids : SUBSET Items]
Steps == <<"register", "mark", "stage", "commit">>

ClientInit ==
    /\ shelf = [c \in SeriesCodes |-> 0]
    /\ listing = [pc |-> "idle", offset |-> 0, out |-> shelf, since |-> shelf]
    /\ server = [status |-> "pending", registered |-> {}, uploaded |-> {}, staged |-> {}]
    /\ batch = [pc |-> "register", next |-> 1, ids |-> {}]
    /\ clientErrs = 0

ClientTypeOK ==
    /\ shelf \in [SeriesCodes -> 0..MaxVersions]
    /\ listing \in [pc : {"idle", "paging", "done"}, offset : Nat,
                    out : [SeriesCodes -> 0..MaxVersions],
                    since : [SeriesCodes -> 0..MaxVersions]]
    /\ server \in GenerationRecord /\ batch \in BatchCall
    /\ clientErrs \in 0..MaxErrors

-----------------------------------------------------------------------------
(* Another generation commits a series: a new row, or a new key for it.    *)
(* No commit leaves a series without one (PublishedStaysServed).           *)
OthersCommit(c) ==
    /\ shelf[c] < MaxVersions
    /\ shelf' = [shelf EXCEPT ![c] = @ + 1]
    /\ UNCHANGED <<listing, server, batch, clientErrs>>

StartListing ==
    /\ listing.pc = "idle"
    /\ listing' = [pc |-> "paging", offset |-> 0,
                   out |-> [c \in SeriesCodes |-> 0], since |-> shelf]
    /\ UNCHANGED <<shelf, server, batch, clientErrs>>

(* The rows of a query ordered by code, at the limit and offset given.     *)
Before(c) == Cardinality({b \in SeriesCodes : b < c /\ shelf[b] > 0})
PageAt(offset) ==
    {c \in SeriesCodes : shelf[c] > 0 /\ Before(c) >= offset /\ Before(c) < offset + PageSize}

(* Mutant: the loop ends at a page that brings no code it does not know.   *)
ReadPageUntilKnown ==
    LET page == PageAt(listing.offset)
    IN  /\ listing.pc = "paging"
        /\ listing' = [listing EXCEPT
              !.out = [c \in SeriesCodes |-> IF c \in page THEN shelf[c] ELSE @[c]],
              !.offset = @ + PageSize,
              !.pc = IF \A c \in page : listing.out[c] # 0 THEN "done" ELSE "paging"]
        /\ UNCHANGED <<shelf, server, batch, clientErrs>>

(* list_committed_series_keys: one page.  A short page is the last.        *)
ReadPage ==
    LET page == PageAt(listing.offset)
    IN  /\ listing.pc = "paging"
        /\ listing' = [listing EXCEPT
              !.out = [c \in SeriesCodes |-> IF c \in page THEN shelf[c] ELSE @[c]],
              !.offset = @ + PageSize,
              !.pc = IF Cardinality(page) < PageSize THEN "done" ELSE "paging"]
        /\ UNCHANGED <<shelf, server, batch, clientErrs>>

-----------------------------------------------------------------------------
(* _chunked: the chunk that starts at the first item unsent.               *)
Chunk == {i \in Items : i >= batch.next /\ i < batch.next + ChunkSize}

(* What the function the step calls does to the rows, when it accepts.     *)
Applied(step) ==
    CASE step = "register" -> [server EXCEPT !.registered = @ \cup Chunk]
      [] step = "mark"     -> [server EXCEPT !.uploaded = @ \cup Chunk]
      [] step = "stage"    -> [server EXCEPT !.staged = @ \cup Chunk]
      [] step = "commit"   -> [server EXCEPT !.status = "committed"]

Accepts(step) ==
    /\ step = "mark" => Chunk \subseteq server.registered
    /\ step = "commit" => Items \subseteq server.uploaded
    /\ server.status = "pending" \/ (step = "commit" /\ server.status = "committed")

(* The step after a chunk is answered: the next chunk, or the next call.   *)
AfterChunk(step) ==
    IF step # "commit" /\ batch.next + ChunkSize <= NItems
    THEN [batch EXCEPT !.next = @ + ChunkSize]
    ELSE [batch EXCEPT !.next = 1,
              !.pc = CASE step = "register" -> "mark" [] step = "mark" -> "stage"
                       [] step = "stage" -> "commit" [] OTHER -> "done"]

Calling(step) == batch.pc = step /\ UNCHANGED <<shelf, listing>>

(* register_pending_objects, mark_objects_uploaded,                        *)
(* stage_latest_observations and commit_generation: a chunk is sent and    *)
(* answered.  A registration answers with the ids the marks will need.     *)
SendChunk(step) ==
    /\ Calling(step)
    /\ Accepts(step)
    /\ step = "mark" => Chunk \subseteq batch.ids
    /\ server' = IF server.status = "pending" THEN Applied(step) ELSE server
    /\ batch' = [AfterChunk(step) EXCEPT
                    !.ids = IF step = "register" THEN @ \cup Chunk ELSE @]
    /\ UNCHANGED clientErrs

(* _rpc: a refusal ("not pending", "mismatch") is a conflict to the        *)
(* writer; nothing is sent after it.                                       *)
Refused(step) ==
    /\ Calling(step)
    /\ ~Accepts(step)
    /\ batch' = [batch EXCEPT !.pc = "conflict"]
    /\ UNCHANGED <<server, clientErrs>>

(* Mutant: a chunk without an answer is passed over.                       *)
NoAnswerPassedOver(step, ran) ==
    /\ Calling(step)
    /\ clientErrs < MaxErrors
    /\ clientErrs' = clientErrs + 1
    /\ server' = IF ran /\ Accepts(step) /\ server.status = "pending"
                 THEN Applied(step) ELSE server
    /\ batch' = AfterChunk(step)

(* The call times out: the function may have run or not.                   *)
NoAnswer(step, ran) ==
    /\ Calling(step)
    /\ clientErrs < MaxErrors
    /\ clientErrs' = clientErrs + 1
    /\ server' = IF ran /\ Accepts(step) /\ server.status = "pending"
                 THEN Applied(step) ELSE server
    /\ batch' = [batch EXCEPT !.pc = "error"]

(* The writer is run again under the same identity, with a new adapter;    *)
(* begin_generation refuses one that is committed or failed.               *)
RunAgain ==
    /\ batch.pc = "error"
    /\ batch' = IF server.status = "pending" THEN [pc |-> "register", next |-> 1, ids |-> {}]
                ELSE [batch EXCEPT !.pc = "conflict"]
    /\ UNCHANGED <<shelf, listing, server, clientErrs>>

(* ... or its handler gives the generation up.                             *)
GiveUp ==
    /\ batch.pc = "error"
    /\ server.status = "pending"
    /\ server' = [server EXCEPT !.status = "failed"]
    /\ UNCHANGED <<shelf, listing, batch, clientErrs>>

ClientNext ==
    \/ \E c \in SeriesCodes : OthersCommit(c)
    \/ StartListing
    \/ ReadPage
    \/ \E i \in DOMAIN Steps :
        \/ SendChunk(Steps[i])
        \/ Refused(Steps[i])
        \/ \E ran \in BOOLEAN : NoAnswer(Steps[i], ran)
    \/ RunAgain
    \/ GiveUp

ClientSpec == ClientInit /\ [][ClientNext]_clientVars

-----------------------------------------------------------------------------
(* A listing whose pages are read while others commit misses no series     *)
(* that had a row when it began, and every key it returns was the key of   *)
(* its series at some moment since: offsets over a growing table repeat    *)
(* rows, and never skip one, because no commit takes a series away.        *)
ListingIsCurrent ==
    listing.pc = "done" =>
        \A c \in SeriesCodes :
            /\ listing.out[c] <= shelf[c]
            /\ listing.out[c] = 0 => listing.since[c] = 0
            /\ listing.out[c] # 0 => listing.out[c] >= listing.since[c]

(* The last call ends well only for a generation whose every item is       *)
(* registered, uploaded and staged, through any losses and runs; what an   *)
(* error leaves behind is a prefix of whole chunks.                        *)
BatchIsWhole ==
    /\ batch.pc = "done" => /\ server.status = "committed"
                            /\ server.registered = Items
                            /\ server.staged = Items
    /\ \A S \in {server.registered, server.uploaded, server.staged} :
           \A i \in Items, j \in S : (i - 1) \div ChunkSize <= (j - 1) \div ChunkSize => i \in S

(* All that is claimed of the client's pages and chunks.                   *)
ClientSafe == ClientTypeOK /\ ListingIsCurrent /\ BatchIsWhole
=============================================================================
