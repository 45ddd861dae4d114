------------------------------ MODULE CacheBus ------------------------------
(***************************************************************************)
(* The warm caches: scripts/storage/cache_bus_cli.py over the tables       *)
(* cache_index and cache_pointers and the bucket, its readers, and         *)
(* orphan_sweeper.py.  A put looks at the index, makes its row pending,    *)
(* stores the object and commits; whatever goes wrong after the row is     *)
(* pending ends in a handler that marks the row an orphan, without asking  *)
(* what became of the commit.  One workflow run at a time puts a cache     *)
(* (the concurrency groups); readers and the sweeper run beside it, and a  *)
(* commit whose caller timed out may still arrive.                         *)
(***************************************************************************)
EXTENDS Naturals, FiniteSets, Sequences

CONSTANTS
    Puts,        \* invocations of a put command
    PutKind,     \* [Puts -> Kinds]
    PutBytes,    \* [Puts -> Bytes], what the local file holds
    Bytes,
    NoBytes,
    MaxBusFaults \* bound on the faults

FixedKinds == {"immutable", "fixed", "jpx"}
Kinds == FixedKinds \cup {"patched"}

ASSUME BusAssumption ==
    /\ PutKind \in [Puts -> Kinds] /\ PutBytes \in [Puts -> Bytes] /\ NoBytes \notin Bytes
    /\ MaxBusFaults \in Nat

VARIABLES
    rows,       \* cache_index: [RowIds -> [status, bytes]]
    pointer,    \* cache_pointers: [FixedKinds -> [bytes, version]]
    store,      \* the bucket: [ObjectIds -> Bytes \cup {NoBytes}]
    put,        \* [Puts -> [pc, seen, found]]
    late,       \* puts whose commit is on its way although they gave up on it
    reader,     \* a get: [pc, kind, want, got]
    sweep,      \* orphan_sweeper.py: [pc, listed, row]
    aged,       \* rows created more than --keep-days ago
    faults

busVars == <<rows, pointer, store, put, late, reader, sweep, aged, faults>>

RowIds == (FixedKinds \X Bytes) \cup {<<"patched", NoBytes>>}
ObjectIds == ({"immutable"} \X Bytes) \cup ({"fixed", "jpx", "csv", "manifest"} \X {NoBytes})

RowOf(p) == <<PutKind[p], IF PutKind[p] = "patched" THEN NoBytes ELSE PutBytes[p]>>

(* resolve_immutable_object_key, resolve_fixed_object_key,                 *)
(* resolve_patched_r2_keys: one key per content, per cache, or per file.   *)
ObjectsAt(kind, b) ==
    CASE kind = "immutable" -> {<<kind, b>>}
      [] kind = "patched"   -> {<<"csv", NoBytes>>, <<"manifest", NoBytes>>}
      [] OTHER              -> {<<kind, NoBytes>>}

NoPointer == [bytes |-> NoBytes, version |-> 0]
Idle == [pc |-> "idle", seen |-> NoPointer, found |-> FALSE]
NotReading == [pc |-> "idle", kind |-> "patched", want |-> NoBytes, got |-> <<>>]
NotSweeping == [pc |-> "idle", listed |-> {}, row |-> <<"patched", NoBytes>>]

CacheInit ==
    /\ rows = [r \in RowIds |-> [status |-> "none", bytes |-> NoBytes]]
    /\ pointer = [k \in FixedKinds |-> NoPointer]
    /\ store = [o \in ObjectIds |-> NoBytes]
    /\ put = [p \in Puts |-> Idle]
    /\ late = {}
    /\ reader = NotReading
    /\ sweep = NotSweeping
    /\ aged = {}
    /\ faults = 0

Content == Bytes \cup {NoBytes}
Entry == [bytes : Content, version : Nat]
PutState == [pc : {"idle", "find", "insert", "upload", "repair", "manifest", "commit", "mark",
                   "ok", "noop", "failed", "dead"},
             seen : Entry, found : BOOLEAN]

CacheTypeOK ==
    /\ rows \in [RowIds -> [status : {"none", "pending", "committed", "orphan"}, bytes : Content]]
    /\ pointer \in [FixedKinds -> Entry] /\ store \in [ObjectIds -> Content]
    /\ put \in [Puts -> PutState] /\ late \subseteq Puts
    /\ reader \in [pc : {"idle", "fetch", "ok", "miss"}, kind : Kinds, want : Content, got : Seq(Content)]
    /\ sweep \in [pc : {"idle", "objects", "row"}, listed : SUBSET RowIds, row : RowIds]
    /\ aged \subseteq RowIds
    /\ faults \in 0..MaxBusFaults

-----------------------------------------------------------------------------
Ended == {"idle", "ok", "noop", "failed", "dead"}
Busy(kind) == \E p \in Puts : PutKind[p] = kind /\ put[p].pc \notin Ended

PutAt(p, pc) == put[p].pc = pc
PutGoto(p, pc) == put' = [put EXCEPT ![p].pc = pc]
BusFault == faults < MaxBusFaults /\ faults' = faults + 1

(* The status a row has goes with its bytes; a row of a fixed cache keeps  *)
(* the bytes of its id.                                                    *)
SetRow(r, status, b) == rows' = [rows EXCEPT ![r] = [status |-> status, bytes |-> b]]

(* get_cache_pointer: the entry, or none.                                  *)
PointerOf(kind) == pointer[kind]

(* The first read.  put-fixed and put-immutable read the pointer and end   *)
(* when it has their bytes.                                                *)
LookAtPointer(p) ==
    LET entry == PointerOf(PutKind[p]) IN
    /\ PutAt(p, "idle") /\ PutKind[p] \in {"immutable", "fixed"} /\ ~Busy(PutKind[p])
    /\ put' = [put EXCEPT ![p].seen = entry,
                          ![p].pc = IF entry.bytes = PutBytes[p] THEN "noop" ELSE "find"]
    /\ UNCHANGED <<rows, pointer, store, late, reader, sweep, aged, faults>>

(* put-jpx-url then also looks for the object, to put it back when it is   *)
(* missing.                                                                *)
LookAtUrl(p) ==
    LET entry == PointerOf("jpx") IN
    /\ PutAt(p, "idle") /\ PutKind[p] = "jpx" /\ ~Busy("jpx")
    /\ put' = [put EXCEPT ![p].seen = entry,
                          ![p].pc = IF entry.bytes # PutBytes[p] THEN "find"
                                    ELSE IF store[<<"jpx", NoBytes>>] = NoBytes THEN "repair" ELSE "noop"]
    /\ UNCHANGED <<rows, pointer, store, late, reader, sweep, aged, faults>>

(* put-patched reads the row of its key; a committed one is not replaced.  *)
LookAtRow(p) ==
    LET row == rows[RowOf(p)] IN
    /\ PutAt(p, "idle") /\ PutKind[p] = "patched" /\ ~Busy("patched")
    /\ PutGoto(p, IF row.status # "committed" THEN "insert"
                  ELSE IF row.bytes = PutBytes[p] THEN "noop" ELSE "failed")
    /\ UNCHANGED <<rows, pointer, store, late, reader, sweep, aged, faults>>

(* insert_cache_index_pending_fixed: is there a row to use again?  The     *)
(* query asks for pending and orphan rows, never for committed ones.       *)
Find(p) ==
    /\ PutAt(p, "find")
    /\ put' = [put EXCEPT ![p].pc = "insert",
                          ![p].found = rows[RowOf(p)].status \in {"pending", "orphan"}]
    /\ UNCHANGED <<rows, pointer, store, late, reader, sweep, aged, faults>>

(* ... the row is patched, or inserted; the unique index refuses a second  *)
(* row of the same bytes, and a row that is gone cannot be patched.        *)
InsertPending(p) ==
    LET r   == RowOf(p)
        row == rows[r]
    IN  /\ PutAt(p, "insert")
        /\ PutKind[p] # "patched"
        /\ IF put[p].found = (row.status # "none")
           THEN SetRow(r, "pending", PutBytes[p]) /\ PutGoto(p, "upload")
           ELSE PutGoto(p, "failed") /\ UNCHANGED rows
        /\ UNCHANGED <<pointer, store, late, reader, sweep, aged, faults>>

(* upsert_cache_index_pending_patched: the one row of the key is patched   *)
(* or inserted, whatever status it has.                                    *)
UpsertPatched(p) ==
    /\ PutAt(p, "insert") /\ PutKind[p] = "patched"
    /\ SetRow(RowOf(p), "pending", PutBytes[p])
    /\ PutGoto(p, "upload")
    /\ UNCHANGED <<pointer, store, late, reader, sweep, aged, faults>>

(* put_object, put_object_create_only.  The two files of a patched cache   *)
(* are stored one after the other.  A repair puts the object, and then     *)
(* reports an error because it has no row to commit.                       *)
FirstObject(p) ==
    CASE PutKind[p] = "patched" -> <<"csv", NoBytes>>
      [] PutKind[p] = "immutable" -> <<"immutable", PutBytes[p]>>
      [] OTHER -> <<PutKind[p], NoBytes>>

Upload(p) ==
    /\ put[p].pc \in {"upload", "repair", "manifest"}
    /\ store' = [store EXCEPT
                   ![IF PutAt(p, "manifest") THEN <<"manifest", NoBytes>> ELSE FirstObject(p)]
                       = PutBytes[p]]
    /\ PutGoto(p, CASE PutAt(p, "repair") -> "failed"
                 [] PutAt(p, "upload") /\ PutKind[p] = "patched" -> "manifest"
                 [] OTHER -> "commit")
    /\ UNCHANGED <<rows, pointer, late, reader, sweep, aged, faults>>

(* Where an error leads: to the mark, when there is a row to mark.         *)
OnPutError(p) == IF PutAt(p, "repair") THEN "failed" ELSE "mark"

UploadFails(p) ==
    /\ put[p].pc \in {"upload", "repair", "manifest"}
    /\ BusFault
    /\ PutGoto(p, OnPutError(p))
    /\ UNCHANGED <<rows, pointer, store, late, reader, sweep, aged>>

-----------------------------------------------------------------------------
(* Mutant: the pointer moves whatever its version.                         *)
CommitHoldsAnyVersion(p) ==
    IF PutKind[p] = "immutable" THEN TRUE
    ELSE IF PutKind[p] = "patched" THEN rows[RowOf(p)].status # "none"
    ELSE rows[RowOf(p)].status = "pending"

(* commit_cache_pointer_cas moves the pointer only from the version the    *)
(* put read, and does not touch the row (the CLI sets its status through   *)
(* an attribute only the test double has).  commit_fixed_cache and         *)
(* commit_jpx_url_cache ask for a pending row and leave the version alone. *)
(* commit_cache_index_patched patches whatever row is there.               *)
CommitHolds(p) ==
    CASE PutKind[p] = "immutable" -> pointer["immutable"].version = put[p].seen.version
      [] PutKind[p] = "patched"   -> rows[RowOf(p)].status # "none"
      [] OTHER                    -> rows[RowOf(p)].status = "pending"

Committed(p) ==
    IF CommitHolds(p)
    THEN /\ pointer' = IF PutKind[p] = "patched" THEN pointer
                       ELSE [pointer EXCEPT ![PutKind[p]] =
                              [bytes |-> PutBytes[p],
                               version |-> IF PutKind[p] = "immutable" \/ @.version = 0
                                           THEN @.version + 1 ELSE @.version]]
         /\ IF PutKind[p] = "immutable" THEN UNCHANGED rows
            ELSE SetRow(RowOf(p), "committed", PutBytes[p])
    ELSE UNCHANGED <<rows, pointer>>

CommitBlob(p) ==
    /\ PutAt(p, "commit")
    /\ Committed(p)
    /\ PutGoto(p, IF CommitHolds(p) THEN "ok" ELSE "mark")
    /\ UNCHANGED <<store, late, reader, sweep, aged, faults>>

(* The call times out; it has run, or is still on its way, or is lost.     *)
CommitUnanswered(p) ==
    /\ PutAt(p, "commit")
    /\ BusFault
    /\ PutGoto(p, "mark")
    /\ \/ Committed(p) /\ UNCHANGED late
       \/ late' = late \cup {p} /\ UNCHANGED <<rows, pointer>>
    /\ UNCHANGED <<store, reader, sweep, aged>>

LateCommit(p) ==
    /\ p \in late
    /\ late' = late \ {p}
    /\ Committed(p)
    /\ UNCHANGED <<store, put, reader, sweep, aged, faults>>

(* mark_cache_index_orphan patches the row by its id, whatever its status; *)
(* its own failure is swallowed.                                           *)
MarkOrphan(p) ==
    LET r == RowOf(p) IN
    /\ PutAt(p, "mark")
    /\ PutGoto(p, "failed")
    /\ rows' = [rows EXCEPT ![r].status = IF @ = "none" THEN @ ELSE "orphan"]
    /\ UNCHANGED <<pointer, store, late, reader, sweep, aged, faults>>

MarkFails(p) ==
    /\ PutAt(p, "mark")
    /\ BusFault
    /\ PutGoto(p, "failed")
    /\ UNCHANGED <<rows, pointer, store, late, reader, sweep, aged>>

PutKilled(p) ==
    /\ put[p].pc \notin Ended
    /\ BusFault
    /\ PutGoto(p, "dead")
    /\ UNCHANGED <<rows, pointer, store, late, reader, sweep, aged>>

-----------------------------------------------------------------------------
(* get-fixed and get-jpx-url read the pointer, get-patched the committed   *)
(* row; then the objects, one call each.                                   *)
StartGet(kind, want) ==
    /\ reader.pc \in {"idle", "ok", "miss"}
    /\ reader' = [pc |-> IF want = NoBytes THEN "miss" ELSE "fetch",
                  kind |-> kind, want |-> want, got |-> <<>>]
    /\ UNCHANGED <<rows, pointer, store, put, late, sweep, aged, faults>>

GetByPointer(kind) == StartGet(kind, PointerOf(kind).bytes)

GetPatched ==
    LET row == rows[<<"patched", NoBytes>>] IN
    StartGet("patched", IF row.status = "committed" THEN row.bytes ELSE NoBytes)

(* Only get-patched compares what it got with the row.                     *)
GotChecked(got) ==
    reader.kind = "patched" => \A i \in DOMAIN got : got[i] = reader.want

Fetch ==
    LET o    == CASE reader.kind = "immutable" -> <<"immutable", reader.want>>
                  [] reader.kind = "patched"   -> <<IF reader.got = <<>> THEN "csv" ELSE "manifest", NoBytes>>
                  [] OTHER                     -> <<reader.kind, NoBytes>>
        got  == Append(reader.got, store[o])
        more == reader.kind = "patched" /\ reader.got = <<>>
    IN  /\ reader.pc = "fetch"
        /\ reader' = [reader EXCEPT !.got = got,
               !.pc = IF store[o] = NoBytes THEN "miss" ELSE IF more THEN "fetch"
                      ELSE IF GotChecked(got) THEN "ok" ELSE "miss"]
        /\ UNCHANGED <<rows, pointer, store, put, late, sweep, aged, faults>>

-----------------------------------------------------------------------------
(* A week passes.  No run and no sweep lasts that long; a row that is used *)
(* again keeps the day it was created.                                     *)
WeekPasses ==
    /\ \A k \in Kinds : ~Busy(k)
    /\ late = {} /\ sweep.pc = "idle"
    /\ aged' = {r \in RowIds : rows[r].status # "none"}
    /\ aged' # aged
    /\ UNCHANGED <<rows, pointer, store, put, late, reader, sweep, faults>>

(* Mutant: rows no put has finished with are swept as well.                *)
ListableAlsoPending(r) == rows[r].status \in {"orphan", "pending"} /\ r \in aged
(* list_orphan_rows and the cutoff.                                        *)
Listable(r) == rows[r].status = "orphan" /\ r \in aged

ListOrphans ==
    /\ sweep.pc = "idle"
    /\ {r \in RowIds : Listable(r)} # {}
    /\ sweep' = [sweep EXCEPT !.pc = "objects", !.listed = {r \in RowIds : Listable(r)}]
    /\ UNCHANGED <<rows, pointer, store, put, late, reader, aged, faults>>

(* The objects of one listed row.  A delete that fails is a warning.       *)
SweepObjects(r, kept) ==
    /\ sweep.pc = "objects"
    /\ r \in sweep.listed
    /\ kept \subseteq ObjectsAt(r[1], r[2])
    /\ IF kept = {} THEN UNCHANGED faults ELSE BusFault
    /\ store' = [o \in ObjectIds |->
                   IF o \in ObjectsAt(r[1], r[2]) \ kept THEN NoBytes ELSE store[o]]
    /\ sweep' = [sweep EXCEPT !.pc = "row", !.row = r]
    /\ UNCHANGED <<rows, pointer, put, late, reader, aged>>

(* ... and then the row, whether the objects went or not.                  *)
SweepRow ==
    LET left == sweep.listed \ {sweep.row} IN
    /\ sweep.pc = "row"
    /\ rows' = [rows EXCEPT ![sweep.row] = [status |-> "none", bytes |-> NoBytes]]
    /\ aged' = aged \ {sweep.row}
    /\ sweep' = IF left = {} THEN NotSweeping
                ELSE [sweep EXCEPT !.pc = "objects", !.listed = left]
    /\ UNCHANGED <<pointer, store, put, late, reader, faults>>

CacheNext ==
    \/ \E p \in Puts :
        \/ LookAtPointer(p) \/ LookAtUrl(p) \/ LookAtRow(p)
        \/ Find(p) \/ InsertPending(p) \/ UpsertPatched(p) \/ Upload(p) \/ UploadFails(p)
        \/ CommitBlob(p) \/ CommitUnanswered(p) \/ LateCommit(p)
        \/ MarkOrphan(p) \/ MarkFails(p) \/ PutKilled(p)
    \/ \E k \in FixedKinds : GetByPointer(k)
    \/ GetPatched
    \/ Fetch
    \/ WeekPasses
    \/ ListOrphans
    \/ \E r \in sweep.listed : \E kept \in SUBSET ObjectsAt(r[1], r[2]) : SweepObjects(r, kept)
    \/ SweepRow

CacheSpec == CacheInit /\ [][CacheNext]_busVars

-----------------------------------------------------------------------------
(* A pointer that is moved by version compare is moved only by a put that  *)
(* had read the very entry it replaces: a commit that arrives late, after  *)
(* its caller gave up and later runs have put, changes nothing.            *)
MovesWhatWasRead ==
    [][pointer'["immutable"] # pointer["immutable"] =>
         \E p \in Puts : /\ PutKind[p] = "immutable"
                         /\ put[p].seen = pointer["immutable"]
                         /\ pointer'["immutable"].bytes = PutBytes[p]]_busVars

(* The object of a put that ended well, of bytes no other put has tried,   *)
(* is there as long as the pointer names it, through any number of sweeps, *)
(* lost answers and killed runs of other puts.                             *)
NewBytesStay ==
    \A p \in Puts :
        (/\ PutKind[p] = "immutable" /\ put[p].pc = "ok"
         /\ pointer["immutable"].bytes = PutBytes[p]
         /\ \A q \in Puts \ {p} : <<PutKind[q], PutBytes[q]>> # <<PutKind[p], PutBytes[p]>>)
        => store[<<"immutable", PutBytes[p]>>] = PutBytes[p]

(* The csv and the manifest a get-patched returns were stored by one put,  *)
(* the one the row named when the get began, although another put may      *)
(* have replaced either file between its two reads.                        *)
GetIsOnePut ==
    (reader.pc = "ok" /\ reader.kind = "patched") => reader.got = <<reader.want, reader.want>>

(* All that is claimed of the cache bus.                                   *)
CacheSafe == []CacheTypeOK /\ []NewBytesStay /\ []GetIsOnePut /\ MovesWhatWasRead
=============================================================================
