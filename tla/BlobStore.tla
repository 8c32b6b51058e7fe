----------------------------- MODULE BlobStore -----------------------------
(***************************************************************************)
(* The media of the accounts: the blobs table, the content-addressed bytes *)
(* the accounts share, the resumable upload sessions with their staged     *)
(* parts, the quota gate, the reclaim sweep, the upload reaper and the     *)
(* deletion of an account.                                                 *)
(*                                                                         *)
(* A handler is synchronous once its body is parsed and runs in one turn   *)
(* of the event loop, so no other handler is seen half-way.  The disk and  *)
(* the database do not commit together: the process can die between two    *)
(* durable writes, and `writes` is how many of its writes a handler did.   *)
(***************************************************************************)
EXTENDS Integers, Sequences, FiniteSetsExt, SequencesExt

CONSTANTS
    Accounts,
    Hashes,         \* content addresses
    Chunks,         \* the contents a part can have
    ChunkSize,      \* the length of each
    Whole,          \* Whole[h]: the one content, as parts, whose hash is h
    Uploads,        \* upload ids, each minted once
    Parts,          \* part indexes
    Devices,        \* the devices of each account
    NoChunk, NoRow, NoSession, NoBytes,
    Crashes,        \* whether the process may die inside a handler
    ReclaimOn,      \* policy.reclaim, FALSE (retain) by default
    Grace,          \* gracePeriodMs
    DeadAfter,      \* deadDevicePeriodMs
    SessionTtl,     \* the reaper's ttlMs
    MaxBlobSize,
    StorageQuota,   \* quota.storageBytes
    UploadQuota,    \* quota.uploads
    MaxTime,        \* BOUND: the last instant
    MaxSeq,         \* BOUND: highest sequence number of an account
    MaxRefs         \* BOUND: highest reference count

ASSUME ChunkSizes == ChunkSize \in [Chunks -> Nat \ {0}]
ASSUME Addresses == Whole \in [Hashes -> Seq(Chunks)]
ASSUME Finite == IsFiniteSet(Hashes) /\ IsFiniteSet(Uploads)
ASSUME PartsNat == Parts \subseteq Nat /\ IsFiniteSet(Parts)
ASSUME Absent ==
    /\ NoChunk \notin Chunks /\ NoBytes \notin Seq(Chunks)
    /\ NoRow \notin [ref : Nat, zero : Nat, active : Nat]
ASSUME Switches == Crashes \in BOOLEAN /\ ReclaimOn \in BOOLEAN
ASSUME Periods == {Grace, DeadAfter, SessionTtl} \subseteq Nat
ASSUME Bounds == {MaxBlobSize, StorageQuota, MaxTime, MaxSeq, MaxRefs} \subseteq Nat

VARIABLES
    clock,
    accountSeq,     \* accountSeq[a]: account_seq.value
    blobs,          \* blobs[a][h]: the metadata row, or NoRow
    bytes,          \* bytes[h]: the content under address h, or NoBytes
    sessions,       \* sessions[u]: the upload session, or NoSession
    partRows,       \* partRows[u][p]: recorded size of a part, 0 if none
    staged,         \* staged[u][p]: the part's bytes on disk, or NoChunk
    devices,        \* devices[a][d]: the device table
    supplied,       \* supplied[a]: contents that a itself has sent
    settled         \* settled[a][h]: when h was last touched and last fell to zero

uploadVars == <<sessions, partRows, staged>>
vars == <<clock, accountSeq, blobs, bytes, sessions, partRows, staged, devices,
          supplied, settled>>

-----------------------------------------------------------------------------
SizeOf(content) == SumFunction([i \in DOMAIN content |-> ChunkSize[content[i]]])

(* zero is zero_ref_seq, 0 standing for NULL. *)
BlobRow == [ref : 0..MaxRefs, zero : 0..MaxSeq, active : 0..MaxTime]
Session == [account : Accounts, hash : Hashes, declared : 0..MaxBlobSize, at : 0..MaxTime]
NoParts == [p \in Parts |-> 0]
NoStaging == [p \in Parts |-> NoChunk]
(* A device the table has no row of counts as dead at any time. *)
NeverSeen == [seen |-> 0, active |-> -DeadAfter]

TypeOK ==
    /\ clock \in 0..MaxTime
    /\ accountSeq \in [Accounts -> 0..MaxSeq]
    /\ blobs \in [Accounts -> [Hashes -> BlobRow \cup {NoRow}]]
    /\ bytes \in [Hashes -> Seq(Chunks) \cup {NoBytes}]
    /\ sessions \in [Uploads -> Session \cup {NoSession}]
    /\ partRows \in [Uploads -> [Parts -> Nat]]
    /\ staged \in [Uploads -> [Parts -> Chunks \cup {NoChunk}]]
    /\ devices \in [Accounts -> [Devices -> [seen : 0..MaxSeq, active : -DeadAfter..MaxTime]]]
    /\ supplied \in [Accounts -> SUBSET Chunks]
    /\ settled \in [Accounts -> [Hashes -> [touched : 0..MaxTime, zero : 0..MaxSeq]]]

Init ==
    /\ clock = 0
    /\ accountSeq = [a \in Accounts |-> 0]
    /\ blobs = [a \in Accounts |-> [h \in Hashes |-> NoRow]]
    /\ bytes = [h \in Hashes |-> NoBytes]
    /\ sessions = [u \in Uploads |-> NoSession]
    /\ partRows = [u \in Uploads |-> NoParts]
    /\ staged = [u \in Uploads |-> NoStaging]
    /\ devices = [a \in Accounts |-> [d \in Devices |-> NeverSeen]]
    /\ supplied = [a \in Accounts |-> {}]
    /\ settled = [a \in Accounts |-> [h \in Hashes |-> [touched |-> 0, zero |-> 0]]]

(* How many of its n durable writes a handler may have done. *)
Writes(n) == IF Crashes THEN 1..n ELSE {n}

-----------------------------------------------------------------------------
(* Quotas *)

Total(H) == SumFunctionOnSet([h \in Hashes |-> SizeOf(Whole[h])], H)

(* blobFootprint: what an account stores, and what its sessions reserve.   *)
BlobBytesReferenced(a) ==
    Total({h \in Hashes : blobs[a][h] # NoRow /\ blobs[a][h].ref > 0})
BlobBytes(a) == Total({h \in Hashes : blobs[a][h] # NoRow})

SessionsOf(a) == {u \in Uploads : sessions[u] # NoSession /\ sessions[u].account = a}
DeclaredBytes(a) == SumFunction([u \in SessionsOf(a) |-> sessions[u].declared])

AdmitUpload(a, size) ==
    /\ Cardinality(SessionsOf(a)) < UploadQuota
    /\ BlobBytes(a) + DeclaredBytes(a) + size <= StorageQuota

AdmitFinalize(a, size) == BlobBytes(a) + size <= StorageQuota

-----------------------------------------------------------------------------
(* The upload endpoints *)

(* POST /blobs/uploads opens a session when the account has no row of the  *)
(* hash.  An upload id is minted fresh: it never meets what is left of     *)
(* another.                                                                *)
Initiate(a, h, size, u) ==
    /\ sessions[u] = NoSession /\ staged[u] = NoStaging
    /\ blobs[a][h] = NoRow
    /\ size <= MaxBlobSize /\ AdmitUpload(a, size)
    /\ sessions' = [sessions EXCEPT ![u] =
           [account |-> a, hash |-> h, declared |-> size, at |-> clock]]
    /\ UNCHANGED <<clock, accountSeq, blobs, bytes, partRows, staged, devices,
                   supplied, settled>>

(* PUT a part: the bytes are staged, then the part is recorded.  A part    *)
(* sent again replaces what was recorded of it.                            *)
SendPart(u, p, c, writes) ==
    /\ sessions[u] # NoSession
    /\ SumFunctionOnSet(partRows[u], Parts \ {p}) + ChunkSize[c] <= sessions[u].declared
    /\ staged' = [staged EXCEPT ![u][p] = c]
    /\ partRows' = IF writes >= 2 THEN [partRows EXCEPT ![u][p] = ChunkSize[c]]
                                  ELSE partRows
    /\ supplied' = [supplied EXCEPT ![sessions[u].account] = @ \cup {c}]
    /\ UNCHANGED <<clock, accountSeq, blobs, bytes, sessions, devices, settled>>

Recorded(u) == {p \in Parts : partRows[u][p] # 0}

(* The elements of a finite set of numbers, lowest first. *)
Increasing(S) ==
    CHOOSE order \in [1..Cardinality(S) -> S] :
        \A i, j \in 1..Cardinality(S) : i < j => order[i] < order[j]

(* The staged bytes of the recorded parts, in the order of their indexes.  *)
Assembled(u) ==
    [i \in 1..Cardinality(Recorded(u)) |-> staged[u][Increasing(Recorded(u))[i]]]

(* A recorded part whose bytes are gone makes the assembly throw. *)
Assembles(u) == \A p \in Recorded(u) : staged[u][p] # NoChunk

DiscardStagingOnly(u, writes) ==
    /\ staged' = [staged EXCEPT ![u] = NoStaging]
    /\ UNCHANGED <<sessions, partRows>>
(* The staged bytes go first, then the session row and its parts. *)
Discard(u, writes) ==
    /\ staged' = IF writes >= 1 THEN [staged EXCEPT ![u] = NoStaging] ELSE staged
    /\ sessions' = IF writes >= 2 THEN [sessions EXCEPT ![u] = NoSession] ELSE sessions
    /\ partRows' = IF writes >= 2 THEN [partRows EXCEPT ![u] = NoParts] ELSE partRows

FinalizeOwnedAnywhere(u, writes) ==
    /\ sessions[u] # NoSession
    /\ LET a == sessions[u].account  h == sessions[u].hash
       IN /\ blobs[a][h] # NoRow \/ bytes[h] # NoBytes
          /\ blobs' = [blobs EXCEPT ![a][h] =
                 IF @ = NoRow THEN [ref |-> 0, zero |-> accountSeq[a], active |-> clock]
                              ELSE @]
    /\ Discard(u, writes)
    /\ UNCHANGED <<clock, accountSeq, bytes, devices, supplied, settled>>
(* POST finalize of a hash the account has a row of already. *)
FinalizeOwned(u, writes) ==
    /\ sessions[u] # NoSession
    /\ blobs[sessions[u].account][sessions[u].hash] # NoRow
    /\ Discard(u, writes)
    /\ UNCHANGED <<clock, accountSeq, blobs, bytes, devices, supplied, settled>>

VerifiedAlways(u) == TRUE
(* The assembled bytes hash to the declared address. *)
Verified(u) == Assembled(u) = Whole[sessions[u].hash]

CanStore(u) ==
    /\ SizeOf(Assembled(u)) <= MaxBlobSize
    /\ Verified(u)
    /\ AdmitFinalize(sessions[u].account, SizeOf(Assembled(u)))

(* POST finalize of bytes that hash to something else, or no longer fit    *)
(* the quota: the session is discarded.  Too large an assembly (413) and   *)
(* one that throws (500) leave it alone.                                   *)
FinalizeRejected(u, writes) ==
    /\ sessions[u] # NoSession
    /\ blobs[sessions[u].account][sessions[u].hash] = NoRow
    /\ Assembles(u) /\ SizeOf(Assembled(u)) <= MaxBlobSize
    /\ ~CanStore(u)
    /\ Discard(u, writes)
    /\ UNCHANGED <<clock, accountSeq, blobs, bytes, devices, supplied, settled>>

ZeroPointStale(a) == accountSeq[a]
(* The number stamped on a blob that is at zero references from here on. *)
ZeroPoint(a) == accountSeq[a] + 1

BytesWrittenLast(writes) == writes >= 3
(* Putting the bytes in place is the first write of a finalize. *)
BytesWritten(writes) == writes >= 1

(* POST finalize of bytes that check out: the bytes are stored unless they *)
(* are there, then the row is inserted at zero references, then the        *)
(* session is discarded.                                                   *)
FinalizeStored(u, writes) ==
    /\ sessions[u] # NoSession
    /\ LET a == sessions[u].account  h == sessions[u].hash
       IN /\ blobs[a][h] = NoRow /\ accountSeq[a] < MaxSeq
          /\ Assembles(u) /\ CanStore(u)
          /\ bytes' = IF BytesWritten(writes) /\ bytes[h] = NoBytes
                      THEN [bytes EXCEPT ![h] = Assembled(u)] ELSE bytes
          /\ IF writes >= 2
             THEN /\ accountSeq' = [accountSeq EXCEPT ![a] = @ + 1]
                  /\ blobs' = [blobs EXCEPT ![a][h] =
                        [ref |-> 0, zero |-> ZeroPoint(a), active |-> clock]]
                  /\ settled' = [settled EXCEPT ![a][h] =
                        [touched |-> clock, zero |-> accountSeq'[a]]]
             ELSE UNCHANGED <<accountSeq, blobs, settled>>
    /\ Discard(u, writes - 2)
    /\ UNCHANGED <<clock, devices, supplied>>

(* DELETE /blobs/uploads/:uploadId *)
CancelUpload(u, writes) ==
    /\ sessions[u] # NoSession
    /\ Discard(u, writes)
    /\ UNCHANGED <<clock, accountSeq, blobs, bytes, devices, supplied, settled>>

-----------------------------------------------------------------------------
(* Reference tracking *)

(* What a reference makes of a row: it is no longer at zero. *)
Referenced(a, h) == [ref |-> blobs[a][h].ref + 1, zero |-> 0, active |-> clock]

(* POST ref-add *)
AddBlobReference(a, h) ==
    /\ blobs[a][h] # NoRow /\ blobs[a][h].ref < MaxRefs
    /\ blobs' = [blobs EXCEPT ![a][h] = Referenced(a, h)]
    /\ settled' = [settled EXCEPT ![a][h] = [touched |-> clock, zero |-> 0]]
    /\ UNCHANGED <<clock, accountSeq, bytes, sessions, partRows, staged, devices, supplied>>

ReleasedRestamps(a, h) ==
    LET row == blobs[a][h]
    IN [ref |-> IF row.ref = 0 THEN 0 ELSE row.ref - 1, active |-> clock,
        zero |-> IF row.ref <= 1 THEN ZeroPoint(a) ELSE row.zero]
(* What a release makes of a row: only the step from one reference to none *)
(* stamps the zero point, a release at zero only counts as activity.       *)
Released(a, h) ==
    LET row == blobs[a][h]
    IN IF row.ref = 0 THEN [row EXCEPT !.active = clock]
       ELSE [ref |-> row.ref - 1, active |-> clock,
             zero |-> IF row.ref = 1 THEN ZeroPoint(a) ELSE row.zero]

(* POST ref-release *)
ReleaseBlobReference(a, h) ==
    /\ blobs[a][h] # NoRow /\ accountSeq[a] < MaxSeq
    /\ blobs' = [blobs EXCEPT ![a][h] = Released(a, h)]
    /\ accountSeq' = [accountSeq EXCEPT ![a] = IF blobs[a][h].ref = 1 THEN @ + 1 ELSE @]
    /\ settled' = [settled EXCEPT ![a][h] =
           [touched |-> clock,
            zero |-> IF blobs[a][h].ref = 1 THEN accountSeq'[a] ELSE @.zero]]
    /\ UNCHANGED <<clock, bytes, sessions, partRows, staged, devices, supplied>>

(* POST /:app/device *)
DeviceReports(a, d, seen) ==
    /\ seen <= accountSeq[a]
    /\ devices' = [devices EXCEPT ![a][d] =
           [seen |-> IF seen > @.seen THEN seen ELSE @.seen, active |-> clock]]
    /\ UNCHANGED <<clock, accountSeq, blobs, bytes, sessions, partRows, staged,
                   supplied, settled>>

-----------------------------------------------------------------------------
(* The sweeps and the deletion of an account *)

Alive(a, d) == devices[a][d].active > clock - DeadAfter

(* listReclaimableBlobs: no references, at rest for the grace period, and  *)
(* every device that is not dead has acknowledged the zero point.          *)
Reclaimable(a, h) ==
    /\ blobs[a][h] # NoRow
    /\ blobs[a][h].ref = 0 /\ blobs[a][h].zero # 0
    /\ blobs[a][h].active <= clock - Grace
    /\ \A d \in Devices : Alive(a, d) => devices[a][d].seen >= blobs[a][h].zero

(* A sweep lists what is reclaimable and takes one blob after the other,   *)
(* its bytes, then its row.  It may die after some (`done`), and with the  *)
(* bytes of one more deleted (`begun`).                                    *)
ReclaimSweep ==
    LET eligible == {b \in Accounts \X Hashes : Reclaimable(b[1], b[2])}
    IN \E done \in SUBSET eligible :
        \E begun \in {done} \cup {done \cup {b} : b \in eligible} :
            /\ ReclaimOn
            /\ begun # {}
            /\ ~Crashes => done = eligible
            /\ bytes' = [h \in Hashes |->
                   IF \E a \in Accounts : <<a, h>> \in begun THEN NoBytes ELSE bytes[h]]
            /\ blobs' = [a \in Accounts |-> [h \in Hashes |->
                   IF <<a, h>> \in done THEN NoRow ELSE blobs[a][h]]]
            /\ UNCHANGED <<clock, accountSeq, sessions, partRows, staged, devices,
                           supplied, settled>>

(* The reaper takes the sessions whose time is up, bytes, then row. *)
ReapUploadSession(u, writes) ==
    /\ sessions[u] # NoSession /\ sessions[u].at <= clock - SessionTtl
    /\ Discard(u, writes)
    /\ UNCHANGED <<clock, accountSeq, blobs, bytes, devices, supplied, settled>>

UnheldAll(a) == {h \in Hashes : blobs[a][h] # NoRow}
(* The hashes of an account that no other account has a row of. *)
Unheld(a) == {h \in Hashes : /\ blobs[a][h] # NoRow
                             /\ \A o \in Accounts \ {a} : blobs[o][h] = NoRow}

(* DELETE /admin/accounts/:accountId.  One transaction takes all rows of   *)
(* the account.  After it the staged bytes and then the blobs nobody else  *)
(* holds are removed one by one, which may be cut short.                   *)
DeleteAccount(a) ==
    \E cleared \in SUBSET SessionsOf(a), removed \in SUBSET Unheld(a) :
        /\ ~Crashes => cleared = SessionsOf(a) /\ removed = Unheld(a)
        /\ removed # {} => cleared = SessionsOf(a)
        /\ accountSeq' = [accountSeq EXCEPT ![a] = 0]
        /\ blobs' = [blobs EXCEPT ![a] = [h \in Hashes |-> NoRow]]
        /\ sessions' = [u \in Uploads |->
               IF u \in SessionsOf(a) THEN NoSession ELSE sessions[u]]
        /\ partRows' = [u \in Uploads |->
               IF u \in SessionsOf(a) THEN NoParts ELSE partRows[u]]
        /\ devices' = [devices EXCEPT ![a] = [d \in Devices |-> NeverSeen]]
        /\ supplied' = [supplied EXCEPT ![a] = {}]
        /\ settled' = [settled EXCEPT ![a] =
               [h \in Hashes |-> [touched |-> 0, zero |-> 0]]]
        /\ staged' = [u \in Uploads |-> IF u \in cleared THEN NoStaging ELSE staged[u]]
        /\ bytes' = [h \in Hashes |-> IF h \in removed THEN NoBytes ELSE bytes[h]]
        /\ UNCHANGED clock

Tick ==
    /\ clock < MaxTime
    /\ clock' = clock + 1
    /\ UNCHANGED <<accountSeq, blobs, bytes, sessions, partRows, staged, devices,
                   supplied, settled>>

-----------------------------------------------------------------------------
Upload(u) ==
    \/ \E a \in Accounts, h \in Hashes, size \in 1..MaxBlobSize : Initiate(a, h, size, u)
    \/ \E p \in Parts, c \in Chunks, writes \in Writes(2) : SendPart(u, p, c, writes)
    \/ \E writes \in Writes(2) : FinalizeOwned(u, writes)
    \/ \E writes \in Writes(2) : FinalizeRejected(u, writes)
    \/ \E writes \in Writes(4) : FinalizeStored(u, writes)
    \/ \E writes \in Writes(2) : CancelUpload(u, writes)
    \/ \E writes \in Writes(2) : ReapUploadSession(u, writes)

Reference ==
    \/ \E a \in Accounts, h \in Hashes : AddBlobReference(a, h)
    \/ \E a \in Accounts, h \in Hashes : ReleaseBlobReference(a, h)
    \/ \E a \in Accounts, d \in Devices, seen \in 0..MaxSeq : DeviceReports(a, d, seen)

Next ==
    \/ \E u \in Uploads : Upload(u)
    \/ Reference
    \/ ReclaimSweep
    \/ \E a \in Accounts : DeleteAccount(a)
    \/ Tick

Spec == Init /\ [][Next]_vars

(* Time passes and the reaper runs on its timer.  A sweep may die with the *)
(* process, but not all of them do: each stale session is met by one that  *)
(* gets past it.                                                           *)
ReaperFairness ==
    /\ WF_vars(Tick)
    /\ \A u \in Uploads : WF_vars(ReapUploadSession(u, 2))

ReapingSpec == Spec /\ ReaperFairness

(* Besides, the reclaim timer fires, and a device of each account that     *)
(* holds the original of a blob keeps trying to upload it.                 *)
Reupload(a, h, u) ==
    \/ Initiate(a, h, MaxBlobSize, u)
    \/ /\ sessions[u] # NoSession /\ sessions[u].account = a /\ sessions[u].hash = h
       /\ \/ \E i \in DOMAIN Whole[h] : /\ partRows[u][i] = 0
                                        /\ SendPart(u, i, Whole[h][i], 2)
          \/ Recorded(u) = DOMAIN Whole[h] /\ FinalizeStored(u, 4)
          \/ FinalizeOwned(u, 2)
          \/ FinalizeRejected(u, 2)

HealingSpec ==
    /\ ReapingSpec
    /\ WF_vars(ReclaimSweep)
    /\ \A a \in Accounts, h \in Hashes :
           WF_vars(\E u \in Uploads : Reupload(a, h, u))

-----------------------------------------------------------------------------
(* An account has a row of a hash only if it sent all of the content       *)
(* itself: no one comes by the right to download bytes by naming a hash    *)
(* that another account uploaded.                                          *)
PossessionProven ==
    \A a \in Accounts, h \in Hashes :
        blobs[a][h] # NoRow => \A i \in DOMAIN Whole[h] : Whole[h][i] \in supplied[a]

(* What is stored under an address is the content the address names, after *)
(* parts sent twice, out of order, cut short by a crash or not at all.     *)
AddressesHold ==
    \A h \in Hashes : bytes[h] # NoBytes => bytes[h] = Whole[h]

(* The blobs of an account never exceed its quota, whatever sizes uploads  *)
(* declare and wherever the process dies.                                  *)
StoredWithinQuota ==
    \A a \in Accounts : Total({h \in Hashes : blobs[a][h] # NoRow}) <= StorageQuota

(* Under the default policy (retain) a row never loses its bytes, shared   *)
(* with a deleted account or not: what the server says it has can be       *)
(* downloaded.                                                             *)
RowsHaveBytes ==
    \A a \in Accounts, h \in Hashes : blobs[a][h] # NoRow => bytes[h] # NoBytes

(* Bytes go only when nobody references them: "Reclaim requires ALL of:    *)
(* (1) zero references", and the deletion of an account leaves "bytes      *)
(* another account still references".                                      *)
BytesOutliveReferences ==
    [][\A a \in Accounts, h \in Hashes :
        (bytes[h] # NoBytes /\ bytes'[h] = NoBytes)
            => blobs'[a][h] = NoRow \/ blobs'[a][h].ref = 0]_vars

(* A sweep leaves a blob alone that was referenced or released, at zero    *)
(* too, within the grace period, and one that fell to zero after the last  *)
(* position some live device acknowledged.  (Only the deletion of the      *)
(* account, which puts the counter back to 0, asks nothing.)               *)
ReclaimIsPatient ==
    [][\A a \in Accounts, h \in Hashes :
        (/\ bytes[h] # NoBytes /\ bytes'[h] = NoBytes
         /\ blobs[a][h] # NoRow /\ accountSeq'[a] # 0)
          => /\ settled[a][h].touched + Grace <= clock
             /\ \A d \in Devices :
                    Alive(a, d) => devices[a][d].seen >= settled[a][h].zero]_vars

(* And it leaves nothing for ever: a blob without references that rests    *)
(* for the grace period, and whose last fall to zero every live device has *)
(* acknowledged, goes with the next sweep.  A release that comes again at  *)
(* zero starts the grace period again and asks no device to acknowledge    *)
(* anything new.                                                           *)
ReclaimIsDue ==
    \A a \in Accounts, h \in Hashes :
        (/\ blobs[a][h] # NoRow /\ blobs[a][h].ref = 0
         /\ settled[a][h].touched + Grace <= clock
         /\ \A d \in Devices : Alive(a, d) => devices[a][d].seen >= settled[a][h].zero)
          => Reclaimable(a, h)

(* An upload that is never finished, or whose clean-up was cut short, does *)
(* not hold its reservation for ever.                                      *)
SessionsEnd ==
    \A u \in Uploads :
        (sessions[u] # NoSession /\ sessions[u].at + SessionTtl <= MaxTime)
            ~> sessions[u] = NoSession

(* A row whose bytes are gone heals when a device uploads the blob again:  *)
(* "fails closed (download 404) until a re-upload heals it".               *)
ReuploadHeals ==
    \A a \in Accounts, h \in Hashes :
        (blobs[a][h] # NoRow /\ bytes[h] = NoBytes)
            ~> (blobs[a][h] = NoRow \/ bytes[h] # NoBytes)

(***************************************************************************)
(* Uploads, shared files and crashes implement a shelf for each account:   *)
(* it can download what it has a row of and whose bytes are right.         *)
(***************************************************************************)
Downloadable ==
    [a \in Accounts |-> {h \in Hashes : blobs[a][h] # NoRow /\ bytes[h] = Whole[h]}]

Shelf == INSTANCE MediaShelf WITH
    Content <- [h \in Hashes |-> {Whole[h][i] : i \in DOMAIN Whole[h]}],
    Size <- [h \in Hashes |-> SizeOf(Whole[h])],
    Quota <- StorageQuota,
    sent <- supplied,
    shelf <- Downloadable

(* Under the default policy (retain) a blob gets on the shelf of an        *)
(* account in one step, complete, paid for and proven, wherever processes  *)
(* die, and stays until the account is deleted, whatever others do.        *)
ImplementsShelf == Shelf!ShelfSpec
=============================================================================
