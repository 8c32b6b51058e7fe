----------------------------- MODULE SyncStore -----------------------------
(***************************************************************************)
(* The synced rows of one account: the sequence counter, the sync_rows     *)
(* table, the write transactions of the batch and delete endpoints, the    *)
(* paged list endpoint, the device table, and the devices that drain the   *)
(* list.  Accounts share no row and no counter, so one account is enough.  *)
(*                                                                         *)
(* Writers hold SQLite's write lock for a whole transaction (BEGIN         *)
(* IMMEDIATE), so at most one is open; a list reads the last commit (WAL). *)
(* A process can die inside a transaction, which rolls it back.            *)
(***************************************************************************)
EXTENDS Integers, FiniteSets

CONSTANTS
    Apps,       \* the :app path segments the server allows
    Keys,       \* the (app, entityId) pairs that can name a row
    AppOf,      \* the app of each key
    Devices,    \* the account's devices, each pulling every app
    Envs,       \* envelopes (ciphertexts the server never opens)
    NoEnv,      \* the envelope of a row that does not exist
    None,       \* no app
    PageLimit,  \* rows per page of the list endpoint
    MaxBatch,   \* BOUND: rows one batch may write
    MaxSeq      \* BOUND: highest sequence number handed out

ASSUME KeysFinite == IsFiniteSet(Keys)
ASSUME AppOfType == AppOf \in [Keys -> Apps]
ASSUME NoneNoApp == None \notin Apps
ASSUME BoundsNat == PageLimit \in Nat \ {0} /\ MaxBatch \in Nat /\ MaxSeq \in Nat

VARIABLES
    accountSeq, \* account_seq.value, 0 before the first write
    rows,       \* rows[k]: the committed row of k, Absent (seq 0) if none
    lock,       \* the app of the open batch transaction, None if none is open
    draft,      \* the rows as the open transaction sees them
    draftSeq,   \* the counter as the open transaction sees it
    lastSeen,   \* devices.last_seen_seq, 0 for a device never reported
    cursor,     \* cursor[d][a]: the `since` of d's next list of app a
    replica,    \* replica[d][k]: the copy of k that d holds
    draining,   \* the app d is draining, None between drains
    answered,   \* whether the list d asked for has been answered
    page        \* the answer on its way to d

writeVars == <<lock, draft, draftSeq>>
serverVars == <<accountSeq, rows, lock, draft, draftSeq, lastSeen>>
deviceVars == <<cursor, replica, draining, answered, page>>
vars == <<accountSeq, rows, lock, draft, draftSeq, lastSeen,
          cursor, replica, draining, answered, page>>

-----------------------------------------------------------------------------
Row == [seq : Nat, env : Envs \cup {NoEnv}, deleted : BOOLEAN]
Absent == [seq |-> 0, env |-> NoEnv, deleted |-> FALSE]

Page == [rows : [Keys -> Row], last : Nat, more : BOOLEAN, asOf : Nat]
EmptyPage ==
    [rows |-> [k \in Keys |-> Absent], last |-> 0, more |-> FALSE, asOf |-> 0]

(* What a client sends for one row of a batch. *)
RowInput == [env : Envs, deleted : BOOLEAN, insertOnly : BOOLEAN]

TypeOK ==
    /\ accountSeq \in Nat
    /\ rows \in [Keys -> Row]
    /\ lock \in Apps \cup {None}
    /\ draft \in [Keys -> Row]
    /\ draftSeq \in Nat
    /\ lastSeen \in [Devices -> Nat]
    /\ cursor \in [Devices -> [Apps -> Nat]]
    /\ replica \in [Devices -> [Keys -> Row]]
    /\ draining \in [Devices -> Apps \cup {None}]
    /\ answered \in [Devices -> BOOLEAN]
    /\ page \in [Devices -> Page]

Init ==
    /\ accountSeq = 0
    /\ rows = [k \in Keys |-> Absent]
    /\ lock = None
    /\ draft = rows
    /\ draftSeq = 0
    /\ lastSeen = [d \in Devices |-> 0]
    /\ cursor = [d \in Devices |-> [a \in Apps |-> 0]]
    /\ replica = [d \in Devices |-> [k \in Keys |-> Absent]]
    /\ draining = [d \in Devices |-> None]
    /\ answered = [d \in Devices |-> FALSE]
    /\ page = [d \in Devices |-> EmptyPage]

-----------------------------------------------------------------------------
(* The write endpoints. *)

NextSeqStuck(s) == IF s = 0 THEN 1 ELSE s
NextSeq(s) == s + 1

SkipsNoProbe(stored, in) == in.insertOnly /\ stored # Absent
(* A batch row that consumes no sequence number: an insert-only row whose  *)
(* entity exists, or a tombstone over a tombstone with the same envelope.  *)
Skips(stored, in) ==
    \/ in.insertOnly /\ stored # Absent
    \/ in.deleted /\ stored.deleted /\ stored.env = in.env

(* POST /:app/batch takes the write lock. *)
BeginBatch(a) ==
    /\ lock = None
    /\ lock' = a
    /\ UNCHANGED <<accountSeq, rows, draft, draftSeq, lastSeen>>
    /\ UNCHANGED deviceVars

PutRowKeepsSeq(k, in) ==
    /\ lock = AppOf[k]
    /\ ~Skips(draft[k], in)
    /\ draftSeq < MaxSeq /\ draftSeq - accountSeq < MaxBatch
    /\ draftSeq' = IF draft[k] = Absent THEN NextSeq(draftSeq) ELSE draftSeq
    /\ draft' = [draft EXCEPT ![k] =
           [seq |-> IF @ = Absent THEN draftSeq' ELSE @.seq,
            env |-> in.env, deleted |-> in.deleted]]
    /\ UNCHANGED <<accountSeq, rows, lock, lastSeen>>
    /\ UNCHANGED deviceVars
(* One row of the open batch is written under a fresh number.  A row that  *)
(* Skips leaves the transaction as it is, and so needs no action.          *)
PutRow(k, in) ==
    /\ lock = AppOf[k]
    /\ ~Skips(draft[k], in)
    /\ draftSeq < MaxSeq /\ draftSeq - accountSeq < MaxBatch
    /\ draftSeq' = NextSeq(draftSeq)
    /\ draft' = [draft EXCEPT ![k] =
           [seq |-> draftSeq', env |-> in.env, deleted |-> in.deleted]]
    /\ UNCHANGED <<accountSeq, rows, lock, lastSeen>>
    /\ UNCHANGED deviceVars

CommitBatch ==
    /\ lock # None
    /\ lock' = None
    /\ rows' = draft
    /\ accountSeq' = draftSeq
    /\ UNCHANGED <<draft, draftSeq, lastSeen>>
    /\ UNCHANGED deviceVars

(* The process dies, or a statement throws, inside the transaction. *)
RollbackBatch ==
    /\ lock # None
    /\ lock' = None
    /\ draft' = rows
    /\ draftSeq' = accountSeq
    /\ UNCHANGED <<accountSeq, rows, lastSeen>>
    /\ UNCHANGED deviceVars

(* DELETE /:app/:entityId.  A row that does not exist (404) and a row that *)
(* is a tombstone already change nothing.                                  *)
SoftDeleteRow(k) ==
    /\ lock = None /\ accountSeq < MaxSeq
    /\ rows[k] # Absent /\ ~rows[k].deleted
    /\ accountSeq' = NextSeq(accountSeq)
    /\ rows' = [rows EXCEPT ![k] =
           [seq |-> accountSeq', env |-> @.env, deleted |-> TRUE]]
    /\ draft' = rows' /\ draftSeq' = accountSeq'
    /\ UNCHANGED <<lock, lastSeen>>
    /\ UNCHANGED deviceVars

(* An intent or a blob's zero point takes a number of the shared counter:  *)
(* no row will ever carry it.                                              *)
TakeSeqElsewhere ==
    /\ lock = None /\ accountSeq < MaxSeq
    /\ accountSeq' = NextSeq(accountSeq)
    /\ draftSeq' = accountSeq'
    /\ UNCHANGED <<rows, lock, draft, lastSeen>>
    /\ UNCHANGED deviceVars

-----------------------------------------------------------------------------
(* The list endpoint and the device that drains it page by page. *)

NewerThanNext(a, since) ==
    {k \in Keys : AppOf[k] = a /\ rows[k].seq > since + 1}
(* The rows of an app above a cursor. *)
Newer(a, since) == {k \in Keys : AppOf[k] = a /\ rows[k].seq > since}

FirstDescending(S) ==
    {k \in S : Cardinality({j \in S : rows[j].seq >= rows[k].seq}) <= PageLimit}
(* The lowest PageLimit of a set of rows, by sequence number. *)
First(S) ==
    {k \in S : Cardinality({j \in S : rows[j].seq <= rows[k].seq}) <= PageLimit}

HasMoreShort(S) == Cardinality(S) > PageLimit + 1
(* One row more than the page is there. *)
HasMore(S) == S \ First(S) # {}

Poll(d, a) ==
    /\ draining[d] = None
    /\ draining' = [draining EXCEPT ![d] = a]
    /\ UNCHANGED <<cursor, replica, answered, page>>
    /\ UNCHANGED serverVars

(* GET /:app/list?since=cursor answers with the first rows above the       *)
(* cursor.  `last` is the number of the page's last row, `asOf` records    *)
(* the counter at that moment for the properties.                          *)
List(d) ==
    /\ draining[d] # None /\ ~answered[d]
    /\ LET a == draining[d]
           newer == Newer(a, cursor[d][a])
           here == First(newer)
       IN \E last \in {cursor[d][a]} \cup {rows[k].seq : k \in here} :
            /\ \A k \in here : rows[k].seq <= last
            /\ page' = [page EXCEPT ![d] =
                   [rows |-> [k \in Keys |-> IF k \in here THEN rows[k] ELSE Absent],
                    last |-> last, more |-> HasMore(newer), asOf |-> accountSeq]]
    /\ answered' = [answered EXCEPT ![d] = TRUE]
    /\ UNCHANGED <<cursor, replica, draining>>
    /\ UNCHANGED serverVars

CursorFromPush(d) == accountSeq
(* The cursor a page leaves the device at: that of its last row. *)
CursorAfter(d) == page[d].last

(* The device applies the page row by row, moves its cursor to the last    *)
(* row, and asks again while the server says there is more.                *)
ApplyPage(d) ==
    /\ draining[d] # None /\ answered[d]
    /\ replica' = [replica EXCEPT ![d] = [k \in Keys |->
           IF page[d].rows[k] # Absent THEN page[d].rows[k] ELSE replica[d][k]]]
    /\ cursor' = [cursor EXCEPT ![d][draining[d]] = CursorAfter(d)]
    /\ draining' = [draining EXCEPT ![d] = IF page[d].more THEN @ ELSE None]
    /\ answered' = [answered EXCEPT ![d] = FALSE]
    /\ page' = [page EXCEPT ![d] = EmptyPage]
    /\ UNCHANGED serverVars

(* The request or its answer is lost and the device gives the drain up.    *)
(* A list changes nothing on the server, so a lost answer is as good as no *)
(* request.                                                                *)
AbandonDrain(d) ==
    /\ draining[d] # None /\ ~answered[d]
    /\ draining' = [draining EXCEPT ![d] = None]
    /\ UNCHANGED <<cursor, replica, answered, page>>
    /\ UNCHANGED serverVars

MergeCursor(stored, reported) == IF reported > stored THEN reported ELSE stored

(* POST /:app/device.  A device reports how far it has drained every app;  *)
(* the report may be late, repeated or overtaken by a later one, so any    *)
(* position the device has passed can arrive.                              *)
UpdateDeviceCursor(d) ==
    \E reported \in 0..accountSeq :
        /\ \A a \in Apps : reported <= cursor[d][a]
        /\ lastSeen' = [lastSeen EXCEPT ![d] = MergeCursor(@, reported)]
        /\ UNCHANGED <<accountSeq, rows, lock, draft, draftSeq>>
        /\ UNCHANGED deviceVars

-----------------------------------------------------------------------------
Write ==
    \/ \E a \in Apps : BeginBatch(a)
    \/ \E k \in Keys, in \in RowInput : PutRow(k, in)
    \/ CommitBatch
    \/ RollbackBatch
    \/ \E k \in Keys : SoftDeleteRow(k)
    \/ TakeSeqElsewhere

Drain(d) ==
    \/ \E a \in Apps : Poll(d, a)
    \/ List(d)
    \/ ApplyPage(d)
    \/ AbandonDrain(d)
    \/ UpdateDeviceCursor(d)

Next == Write \/ \E d \in Devices : Drain(d)

Spec == Init /\ [][Next]_vars

(* A transaction ends; a device keeps polling every app, a request for an  *)
(* app that is repeated for ever is answered some day, and an answer that  *)
(* arrived is applied.                                                     *)
Fairness ==
    /\ WF_vars(CommitBatch \/ RollbackBatch)
    /\ \A d \in Devices :
        /\ \A a \in Apps : SF_vars(Poll(d, a))
        /\ \A a \in Apps : SF_vars(draining[d] = a /\ List(d))
        /\ WF_vars(ApplyPage(d))

FairSpec == Spec /\ Fairness

-----------------------------------------------------------------------------
(* A sequence number names at most one row, and none is above the counter: *)
(* "Strictly increasing, with no duplicates" (the contract of the counter).*)
SeqNamesOneRow ==
    \A j, k \in Keys :
        /\ rows[k].seq <= accountSeq
        /\ rows[j].seq = rows[k].seq /\ rows[k].seq > 0 => j = k

(* The cursor covers what it has passed: a row at or below a device's      *)
(* cursor is held by the device exactly as the server has it, however      *)
(* writes, pages and deletes interleaved.  No row is ever skipped.         *)
CursorCovers ==
    \A d \in Devices, k \in Keys :
        rows[k].seq <= cursor[d][AppOf[k]] => replica[d][k] = rows[k]

(* A reported position can be trusted by whoever collects garbage behind   *)
(* it: everything at or below devices.last_seen_seq is held by the device, *)
(* even when reports are late, repeated or out of order.                   *)
AckedIsHeld ==
    \A d \in Devices, k \in Keys :
        rows[k].seq <= lastSeen[d] => replica[d][k] = rows[k]

(* The device table only moves forward, whatever order reports arrive in.  *)
AckNeverBackward ==
    [][\A d \in Devices : lastSeen'[d] >= lastSeen[d]]_vars

(* A drain that ends has everything that was committed when its last page  *)
(* was read, unless it was rewritten since: no row falls between pages.    *)
DrainIsComplete ==
    [][\A d \in Devices :
        (answered[d] /\ draining'[d] = None) =>
            \A k \in Keys :
                (AppOf[k] = draining[d] /\ rows[k].seq <= page[d].asOf)
                    => replica'[d][k] = rows[k]]_vars

(* Deleting what is deleted already is quiet: no batch row and no DELETE   *)
(* gives a tombstone a new number while leaving its envelope, so a device  *)
(* that deletes again what it drained cannot spin the account's counter.   *)
TombstonesStayQuiet ==
    [][\A k \in Keys :
        (draft[k].deleted /\ draft'[k].deleted /\ draft'[k].env = draft[k].env)
            => draft'[k].seq <= draft[k].seq]_vars

(* When writing stops every device comes to hold every row, and keeps it.  *)
Converges ==
    <>[](\A d \in Devices, k \in Keys : replica[d][k] = rows[k])

-----------------------------------------------------------------------------
(* The rows, cursors and pages implement the feed of ReplicaFeed: a device *)
(* is owed the keys whose row is above its cursor.                         *)
Owed == [d \in Devices |-> {k \in Keys : rows[k].seq > cursor[d][AppOf[k]]}]

Feed == INSTANCE ReplicaFeed WITH
            Empty <- Absent, store <- rows, view <- replica, owed <- Owed

(* Every behaviour of the sync endpoints is one the feed allows. *)
ImplementsFeed == Feed!FeedSpec
=============================================================================
