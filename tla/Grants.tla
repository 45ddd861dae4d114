------------------------------- MODULE Grants -------------------------------
(***************************************************************************)
(* Minting a download URL (SignedUrlMinter.mint_get over the REST adapters *)
(* of signed_url_supabase.py): the row that commits the object, the grants *)
(* of the request, the entitlement, the object itself, then the URL and    *)
(* its grant in download_grants.  Mints of one request may overlap, rows   *)
(* and objects change under them, and any call may fail.  The five source  *)
(* tables of a lookup by key are read as one step.                         *)
(***************************************************************************)
EXTENDS FiniteSets, Naturals

CONSTANTS
    Mints,       \* calls of mint_get
    Requests,    \* request ids
    Actors,
    Refs,        \* rows of the source tables
    RefKey,      \* [Refs -> object key]
    Contents,    \* what an object may hold
    Nothing,     \* no key, no row, no object, no digest
    MaxChanges   \* bound: changes of rows and objects

VARIABLES
    refRow,      \* the source rows: [Refs -> [status, digest]]
    bucket,      \* [keys -> Contents \cup {Nothing}]
    grants,      \* download_grants, the issued ones: set of [request, key, actor, digest, by]
    denials,     \* and the denied ones: set of [request, reason]
    mint,        \* [Mints -> [pc, request, actor, key, ref, digest, head, refresh, reason]]
    changes      \* how often rows and objects have changed

grantVars == <<refRow, bucket, grants, denials, mint, changes>>

ObjectKeys == {RefKey[r] : r \in Refs}
NoMint == [pc |-> "idle", request |-> Nothing, actor |-> Nothing, key |-> Nothing, ref |-> Nothing,
           digest |-> Nothing, head |-> Nothing, refresh |-> FALSE, reason |-> "-"]

GrantInit ==
    /\ refRow = [r \in Refs |-> [status |-> "pending", digest |-> Nothing]]
    /\ bucket = [k \in ObjectKeys |-> Nothing]
    /\ grants = {} /\ denials = {}
    /\ mint = [m \in Mints |-> NoMint]
    /\ changes = 0

CommittedObjectRef == [status : {"pending", "committed", "orphan"}, digest : Contents \cup {Nothing}]
DownloadGrant == [request : Requests, key : ObjectKeys, actor : Actors,
                  digest : Contents \cup {Nothing}, by : Mints]
DenyReasons == {"malformed", "orphan", "identity_mismatch", "not_committed", "request_id_conflict",
                "entitlement_denied", "entitlement_unproven", "object_missing", "checksum_mismatch"}
MintRequest == [pc : {"idle", "resolve", "grants", "prove", "head", "record", "deny", "issued", "denied", "error"},
                request : Requests \cup {Nothing}, actor : Actors \cup {Nothing},
                key : ObjectKeys \cup {Nothing}, ref : Refs \cup {Nothing},
                digest : Contents \cup {Nothing}, head : Contents \cup {Nothing},
                refresh : BOOLEAN, reason : DenyReasons \cup {"-"}]

GrantTypeOK ==
    /\ refRow \in [Refs -> CommittedObjectRef]
    /\ bucket \in [ObjectKeys -> Contents \cup {Nothing}]
    /\ grants \subseteq DownloadGrant
    /\ mint \in [Mints -> MintRequest]

-----------------------------------------------------------------------------
MintAt(m, pc) == mint[m].pc = pc
Deny(m, reason) == mint' = [mint EXCEPT ![m].pc = "deny", ![m].reason = reason]

(* A request names a key, or a row, or both.                               *)
StartMint(m, request, actor, key, ref) ==
    /\ MintAt(m, "idle")
    /\ key # Nothing \/ ref # Nothing
    /\ mint' = [mint EXCEPT ![m] = [NoMint EXCEPT !.pc = "resolve", !.request = request,
                                        !.actor = actor, !.key = key, !.ref = ref]]
    /\ UNCHANGED <<refRow, bucket, grants, denials, changes>>

(* One that names neither, an unknown table, another operation or a        *)
(* lifetime out of 60..3600 seconds is denied before anything is read.     *)
StartMalformed(m, request, actor) ==
    /\ MintAt(m, "idle")
    /\ mint' = [mint EXCEPT ![m] = [NoMint EXCEPT !.pc = "deny", !.reason = "malformed",
                                        !.request = request, !.actor = actor]]
    /\ UNCHANGED <<refRow, bucket, grants, denials, changes>>

(* The rows a request finds: the row it names, whatever its status, or the *)
(* committed rows of the key.                                              *)
RowsOfKey(key) == {r \in Refs : RefKey[r] = key /\ refRow[r].status = "committed"}
Found(m) == IF mint[m].ref # Nothing THEN {mint[m].ref} ELSE RowsOfKey(mint[m].key)
RowDigest(r) == refRow[r].digest

(* Rows of one key in several places are nobody's: the lookup gives none.  *)
ResolveObject(m) ==
    LET key == mint[m].key IN
    /\ MintAt(m, "resolve")
    /\ IF Cardinality(Found(m)) # 1 THEN Deny(m, "orphan")
       ELSE LET r == CHOOSE x \in Found(m) : TRUE IN
            IF key # Nothing /\ RefKey[r] # key THEN Deny(m, "identity_mismatch")
            ELSE IF refRow[r].status = "orphan" THEN Deny(m, "orphan")
            ELSE IF refRow[r].status # "committed" THEN Deny(m, "not_committed")
            ELSE mint' = [mint EXCEPT ![m].pc = "grants", ![m].key = RefKey[r], ![m].ref = r,
                                      ![m].digest = RowDigest(r)]
    /\ UNCHANGED <<refRow, bucket, grants, denials, changes>>

(* Mutant: a request id is refreshed for whoever asks.                     *)
ConflictsByKey(m) == {g \in grants : g.request = mint[m].request /\ g.key # mint[m].key}

(* get_by_request_id: a request id stands for one object and one actor.    *)
Conflicts(m) ==
    {g \in grants : /\ g.request = mint[m].request
                    /\ g.key # mint[m].key \/ g.actor # mint[m].actor}

ReadGrants(m) ==
    /\ MintAt(m, "grants")
    /\ IF Conflicts(m) # {} THEN Deny(m, "request_id_conflict")
       ELSE mint' = [mint EXCEPT ![m].pc = "prove",
                         ![m].refresh = \E g \in grants : g.request = mint[m].request]
    /\ UNCHANGED <<refRow, bucket, grants, denials, changes>>

(* The entitlement port's answer; a failure of it counts as unproven.      *)
Prove(m, proof) ==
    /\ MintAt(m, "prove")
    /\ IF proof = "proven" THEN mint' = [mint EXCEPT ![m].pc = "head"]
       ELSE Deny(m, IF proof = "denied" THEN "entitlement_denied" ELSE "entitlement_unproven")
    /\ UNCHANGED <<refRow, bucket, grants, denials, changes>>

(* What a HEAD of the object tells.                                        *)
HeadOf(key) == bucket[key]

(* Mutant: the object is not compared with its row.                        *)
HeadMatchesAny(m) == TRUE
(* Size and digest, where the row has them.                                *)
HeadMatches(m) == mint[m].digest \in {Nothing, HeadOf(mint[m].key)}

HeadObject(m) ==
    LET key == mint[m].key IN
    /\ MintAt(m, "head")
    /\ IF HeadOf(key) = Nothing THEN Deny(m, "object_missing")
       ELSE IF ~HeadMatches(m) THEN Deny(m, "checksum_mismatch")
       ELSE mint' = [mint EXCEPT ![m].pc = "record", ![m].head = HeadOf(key)]
    /\ UNCHANGED <<refRow, bucket, grants, denials, changes>>

(* Mutant: the unique index on issued request ids is missing.              *)
InsertHoldsAlways(m) == TRUE
InsertHolds(m) == \A g \in grants : g.request # mint[m].request

GrantOf(m) == [request |-> mint[m].request, key |-> mint[m].key, actor |-> mint[m].actor,
               digest |-> IF mint[m].digest = Nothing THEN mint[m].head ELSE mint[m].digest,
               by |-> m]

(* The URL is signed without asking anybody, then its grant is recorded:   *)
(* inserted, or the one of the request brought up to date.  Only then is   *)
(* the URL handed out.                                                     *)
RecordGrant(m) ==
    LET same == {g \in grants : g.request = mint[m].request} IN
    /\ MintAt(m, "record")
    /\ IF mint[m].refresh
       THEN /\ grants' = (grants \ same) \cup {GrantOf(m)}
            /\ mint' = [mint EXCEPT ![m].pc = "issued"]
       ELSE IF InsertHolds(m)
       THEN /\ grants' = grants \cup {GrantOf(m)}
            /\ mint' = [mint EXCEPT ![m].pc = "issued"]
       ELSE mint' = [mint EXCEPT ![m].pc = "error"] /\ UNCHANGED grants
    /\ UNCHANGED <<refRow, bucket, denials, changes>>

\* The row of a denial.
DenialOf(m) == [request |-> mint[m].request, reason |-> mint[m].reason]
RecordDenial(m) ==
    /\ MintAt(m, "deny")
    /\ denials' = denials \cup {DenialOf(m)}
    /\ mint' = [mint EXCEPT ![m].pc = "denied"]
    /\ UNCHANGED <<refRow, bucket, grants, changes>>

(* A call fails: exit code 2 and no URL, also when the grant was recorded  *)
(* and only the answer was lost.                                           *)
MintFails(m) ==
    /\ mint[m].pc \notin {"idle", "issued", "denied", "error"}
    /\ mint' = [mint EXCEPT ![m].pc = "error"]
    /\ grants' \in {grants, IF MintAt(m, "record") /\ ~mint[m].refresh /\ InsertHolds(m)
                            THEN grants \cup {GrantOf(m)} ELSE grants}
    /\ UNCHANGED <<refRow, bucket, denials, changes>>

-----------------------------------------------------------------------------
(* Writers and sweepers of the source tables.                              *)
RowChanges(r, status, digest) ==
    /\ changes < MaxChanges /\ changes' = changes + 1
    /\ refRow' = [refRow EXCEPT ![r] = [status |-> status, digest |-> digest]]
    /\ refRow' # refRow
    /\ bucket' = IF status = "committed" /\ digest # Nothing
                 THEN [bucket EXCEPT ![RefKey[r]] = digest] ELSE bucket
    /\ UNCHANGED <<grants, denials, mint>>

ObjectChanges(k, content) ==
    /\ changes < MaxChanges /\ changes' = changes + 1
    /\ bucket[k] # content
    /\ bucket' = [bucket EXCEPT ![k] = content]
    /\ UNCHANGED <<refRow, grants, denials, mint>>

GrantNext ==
    \/ \E m \in Mints :
        \/ \E q \in Requests, a \in Actors :
             \/ StartMalformed(m, q, a)
             \/ \E k \in ObjectKeys \cup {Nothing}, r \in Refs \cup {Nothing} : StartMint(m, q, a, k, r)
        \/ ResolveObject(m) \/ ReadGrants(m) \/ HeadObject(m) \/ RecordGrant(m)
        \/ \E proof \in {"proven", "denied", "unproven"} : Prove(m, proof)
        \/ RecordDenial(m) \/ MintFails(m)
    \/ \E r \in Refs, status \in {"committed", "orphan"}, d \in Contents \cup {Nothing} :
         RowChanges(r, status, d)
    \/ \E k \in ObjectKeys, c \in Contents \cup {Nothing} : ObjectChanges(k, c)

GrantSpec == GrantInit /\ [][GrantNext]_grantVars

-----------------------------------------------------------------------------
(* A request id has one grant, however many of its mints overlap, and a    *)
(* mint that found no grant loses to the one that recorded its own first.  *)
OneGrant == \A g, h \in grants : g.request = h.request => g = h

(* Whoever was handed a URL is the actor a grant of that request records,  *)
(* for that very object, also after later mints have refreshed the grant.  *)
UrlIsRecorded ==
    \A m \in Mints : MintAt(m, "issued") =>
        \E g \in grants : g.request = mint[m].request /\ g.key = mint[m].key /\ g.actor = mint[m].actor

(* A grant keeps the digest the object had when its mint looked, though    *)
(* the row or the object may have been replaced between the two reads.     *)
DigestIsSeen == \A g \in grants : g.digest = mint[g.by].head

(* All that is claimed of the grants and the URLs handed out.              *)
GrantSafe == GrantTypeOK /\ OneGrant /\ UrlIsRecorded /\ DigestIsSeen
=============================================================================
