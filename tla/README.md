# GLANCEvault: models, checks and proofs

GLANCEvault (`src/`) is the self-hosted sync server of the GLANCE apps: an
Express application over one SQLite database and one directory of blobs. It
stores ciphertext it never opens, numbers every write of an account, and lets
the account's devices pull what is newer than a cursor. This directory holds
TLA+ models of it, the TLC runs that check them, and TLAPS proofs.

Paths below are relative to the repository; a citation such as
`routes/sync.ts:78` means `src/src/routes/sync.ts`.

## 1. Inventory

### Components

| component | state | operations | talks to |
|---|---|---|---|
| sync rows (`storage/sqlite.ts`, `routes/sync.ts`) | `sync_rows`, `account_seq`, `devices` | batch upsert, soft delete, paged list, get, device report | hub (nudge after commit), quota gate |
| intents (`routes/intents.ts`) | `intent_events`, the same `account_seq` | insert-only batch with lazy prune, paged list with expiry filter | hub, quota gate |
| blobs (`routes/blobs.ts`, `disk-blobstore.ts`) | `blobs`, `blob_upload_sessions`, `blob_upload_parts`; files by hash; staged part files | initiate, part, status, finalize, cancel, head, get, ref-add, ref-release | counter (zero point), quota gate |
| reclaim and reaper (`reclaim.ts`, `upload-reaper.ts`) | none of their own; two timers | the two sweeps | blobs, sessions, `devices` |
| quotas (`quotas.ts`) | none: SELECT-only aggregates | admitUpload, admitFinalize, admitSyncBatch, admitIntents | every write route that is gated |
| accounts and credentials (`admin.ts`, `enroll.ts`, `credential-auth.ts`) | `accounts` (key hash), `device_credentials` | create, rotate, delete, enroll, revoke, authenticate | hub (disconnect), blob store |
| push (`routes/events.ts`, `realtime/hub.ts`) | subscriber sets per account, their total, one heartbeat per stream | connect, publish, heartbeat, close, disconnect | credentials |
| scope (`scope.ts`) | per-request binding of a credential to its account | resolve, bind | everything account-scoped |
| salt (`routes/salt.ts`) | `account_salts` | get, put if absent | |
| migrations, configuration, boot, shutdown (`migrations.ts`, `config.ts`, `index.ts`, `server.ts`) | `user_version` and the schema, timers, sockets, which middleware is registered | load, migrate, listen, drain, exit | every other part: it decides which exist |
| rate limiter (`middleware/rate-limit.ts`) | window per address | admit, lazy sweep | in front of every route but `/healthz` |
| usage, request log, CORS, health | none | read only | |

### What is hard here

- **Many devices, one counter.** Cursors are only safe if nothing ever appears
  at or below a cursor. Pages, rewrites, deletes, roll-backs and the other users
  of the counter (intents, the zero point of blobs) interleave with drains.
- **Two stores that do not commit together.** Blob bytes and staged parts are
  files, their records are rows; a crash falls between any two writes, and the
  order of the two decides what is lost.
- **Content addressing across accounts.** Bytes are shared by hash, rows are per
  account, deletion and reclaim must respect both.
- **Requests outlive their authentication.** A body is read in later turns of
  the event loop than the headers that were authenticated.
- **Streams die in several ways** (client, heartbeat, revocation, error), each of
  which must take the stream off the hub and count it once.
- **Nudges that cause writes.** A nudge makes every device drain, every drain is
  followed by writes, and some writes nudge: too many nudges never end, too few
  leave a device behind.
- **Several processes on one volume** during an upgrade: they read the schema
  version before they migrate, and write blob files into one directory.
- **A configuration that fails open**: a blank, mistyped or unread setting must
  not give a weaker authentication than the operator asked for.
- **Retries** of parts, finalizes, releases, device reports and intents whose
  answers were lost; events that expire while they are retried.

What makes each component correct is stated by the properties of section 3; every hazard with
its line, and the property that covers it, is in `PROJECT.json`.

## 2. Modules

| module | models | extends / instantiates |
|---|---|---|
| `ReplicaFeed` | what the sync endpoints promise, without numbers, pages or transactions (abstract), and the proof that the promise is kept | |
| `SyncStore` | counter, rows, batch transactions, deletes, list, device table, draining devices | implements `ReplicaFeed` (`Feed == INSTANCE`) |
| `SyncStoreProofs` | proofs about `SyncStore` | extends `SyncStore` |
| `MediaShelf` | what the blob endpoints promise an account on a server that keeps what it stores: a shelf of blobs (abstract) | |
| `BlobStore` | uploads, blob rows, shared bytes, references, reclaim, reaper, quota, account deletion | implements `MediaShelf` (`Shelf == INSTANCE`) |
| `BlobStoreProofs` | proofs about `BlobStore` | extends `BlobStore` |
| `Membership` | what enrollment, revocation and push promise: which device is in with which credential, and who listens (abstract) | |
| `Accounts` | registry, credentials, requests in flight, push streams, hub | implements `Membership` (`Members == INSTANCE`) |
| `AccountsProofs` | proofs about `Accounts` | extends `Accounts` |
| `Mailbox` | what the intents endpoints promise: every receiver gets an accepted event once, or it expires (abstract) | |
| `Intents` | intent rows with expiry, the volume cap, senders with an outbox, receivers with a cursor | implements `Mailbox` (`Promise == INSTANCE`) |
| `IntentsProofs` | proofs about `Intents` | extends `Intents` |
| `Push` | which writes nudge, the hub's fan-out, the event streams and their `ready` frame, devices that drain and write back | |
| `PushProofs` | proofs about `Push` | extends `Push` |
| `Config` | `loadConfig` as a function of what the operator set, and the proofs a configuration accepts | |
| `Server` | processes from boot to exit on one volume: configuration, migrations, blob files, requests in flight | extends `Config` |
| `ServerProofs` | proofs about `Server` | extends `Server` |
| `RateLimit` | the map of windows, its lazy sweep, admission and `Retry-After` | |
| `RateLimitProofs` | proofs about `RateLimit` | extends `RateLimit` |
| `MCSyncStore`, `MCBlobStore`, `MCAccounts`, `MCIntents`, `MCPush`, `MCServer`, `MCRateLimit` | instances for TLC | extend their module |

The operators that stand directly before the definition they vary
(`SkipsNoProbe` before `Skips`, `UnheldAll` before `Unheld`, ...) are bugs
somebody could have written: substituted for the definition, each makes a
property fail (the `mutants` of `PROJECT.json`). No specification uses them.

### How state and steps correspond to the code

**SyncStore.** One account, since accounts share neither row nor counter. A
batch is a SQLite `BEGIN IMMEDIATE` transaction: `BeginBatch` takes the write
lock, `PutRow` is one iteration of the loop in `batchUpsert`, `CommitBatch` and
`RollbackBatch` end it. `draft` and `draftSeq` are the open transaction's view;
readers see `rows` and `accountSeq`, the last commit (WAL), so the model also covers
several server processes on one database. A row that consumes no number
(`Skips`: insert-only and present, or the same tombstone again) leaves the
transaction as it is. `SoftDeleteRow` is a transaction of one row.
`TakeSeqElsewhere` is every other caller of `nextSeq`. The device half is the
client loop the repository ships in `scripts/losslessness-check.ts` (`fetchAll`):
poll an app, apply a page, set the cursor to its last row, go on while `hasMore`.
`List` and `ApplyPage` are two steps, so anything can happen while an answer is
on its way. A device is taken to report honestly: never more than the position it has
drained in every app; reports can be late, repeated or out of order.

**BlobStore.** Handlers are synchronous after body parsing, so a handler is one
step, but a process death can cut it between durable writes: `writes` says how
many of its writes were done (`Writes(n)` is 1..n when crashes are on). A part
is staged, then recorded; a finalize puts bytes, inserts the row, removes the
staged bytes, removes the session; reclaim deletes bytes, then the row. A
content is a sequence of chunks and `Whole[h]` is the one content whose SHA-256
is `h`, so a part sent twice with other bytes, a missing part or a crashed
replacement changes what the assembly gives. `supplied` and `settled` are
history: what an account itself has sent, and when a blob was last touched and
last fell to zero, recorded independently of the row. A reaper sweep over
several sessions is several `ReapUploadSession` steps. `Shelf` maps the whole
machinery to what an account can download: a hash it has a row of and whose bytes
are right.

**Accounts.** Account-key mode. Keys are numbered in the order they are minted;
credentials and streams are minted once. `Authenticate` and `HandleWrite` are
two steps for a request with a body; connecting and enrolling happen in one
turn. A stream is `open` while its response is not over, `wired` while it has
its heartbeat and close handler, and in `hub` while it is registered. In
`Connect` the stream is registered first; the read of the current number that
follows can throw, which leaves it registered and neither open nor wired.
`Members` maps all this to who is in: the working credential of each device
(`MemberOf`), and the credential behind each stream on the hub (`Listening`).

**Intents.** A batch is a set, because all that matters about its order is that
each new event gets its own next number (every order is allowed). The prune is part
of `InsertIntents`, as it is part of the transaction. The cap's fast path is
implied by its slow path and is not separate. The clients on both ends are not
in the repository; they follow sections 7.5 and 7.6 of its specification. An
event's expiry is fixed when it is emitted. `Promise` maps rows and cursors to
what a receiver is still due (`Due`): the rows past its cursor, together with what
is on a page on its way that it has not taken yet.

**Push.** One account. Accounts asks who may hold a stream; Push asks what its
streams are worth. `content` counts the changes another device has to fetch, and
a frame carries the content it tells of; bookkeeping writes take a sequence
number and leave `content` alone, which is why the model counts one and not the
other. A write handler commits, publishes and answers in one turn of the event
loop, so `Commit` is one step with one choice: the process dies between the
commit and the nudge (`Die`) or it does not. `BatchEmits`, `IntentsEmit`,
`DeleteEmits` and `ReportEmits` are the conditions in front of the four `emit`
calls (the last has none). A stream is `cut` while its connection is gone and the
server has not noticed, and `lost` when its set-up threw after `subscribe`: the
error handler of Express destroys the connection and never ends the response, so
`deliver` does not throw and the stream keeps its place until the process restarts.
For the same reason `publish` has no eviction in the model: no subscriber of this
program is on the hub after its response was ended (`Publish`). The devices
follow section 14.3 of the specification; `Housekeep` is what they write after a
drain, one disjunct per kind of write. Polling, their backstop, is left out on
purpose: what is shown holds by push alone.

**Config and Server.** `Config` has no variables. What matters of a setting is
whether it is absent, blank, a value the parser knows or one it does not; the
settings are the two modes, the two secrets, and one that stands for all that
must parse. `Server` adds the processes. `Boot` loads the configuration and reads
`user_version` once (`StartAt`), as `runMigrations` does; each `Migrate` is a
transaction, and because its statements fail on a table that exists, a process that
is behind another ends with an exception (`MigrateThrows`). A build may be older
than the schema it finds (`Target`). A put is `BeginPut`, `OpenTemp`, one
`WriteChunk` per piece, `Rename`: a thread does nothing else meanwhile (`Idle`),
but other processes do and the process may die. Files are followed through their
names: a process that has a file open keeps it when another renames, replaces or
deletes it (`Renamed`, `RemoveBlob`). `request` holds the proof behind a request
that was let through, or an open push stream; `Drained` waits for it, as
`server.close` does.

**RateLimit.** `Request` is the whole middleware: sweep if due, find or open the
window, count, admit or refuse. `admitted`, `waitUntil` and `lastRequest` are
history. A restart forgets the map and with it the histories, since nothing is
promised across it.

## 3. Runs

| run | configuration | states | what it shows |
|---|---|---|---|
| `sync` | 2 rows of one app and 1 of another, 1 device, page of 1, batches of up to 2, 3 numbers | 217 k | `SeqNamesOneRow`, `CursorCovers`, `AckedIsHeld`, `DrainIsComplete`, `TombstonesStayQuiet`, `ImplementsFeed`, `Converges` |
| `uploads` | 1 account, 2 sessions, 2 blobs of which the quota admits either, crashes | 235 k | `AddressesHold`, `StoredWithinQuota`, `SessionsEnd` |
| `sharing` | 2 accounts, 2 sessions, 1 blob of two parts, crashes, retain policy | 46 k | `PossessionProven`, `RowsHaveBytes`, `ImplementsShelf` |
| `reclaim` | 1 account, 2 devices, 1 blob, crashes, reclaim on, 4 instants | 63 k | `ReclaimIsDue`, `ReclaimIsPatient` |
| `accounts` | 2 accounts, 2 devices, 2 credentials, 2 streams, 2 keys | 168 k | `OneCredentialPerDevice`, `LeakedKeyContained`, `CredentialsHaveAccount`, `RevokedHaveNoStream`, `CountIsExact`, `InactiveStreamsEnd`, `DroppedStreamsLeave`, `ImplementsMembership` |
| `intents` | 3 events, cap of 2, pages of 1, 3 instants, 4 numbers | 35 k | `DeliveredOnce`, `NoneMissed`, `VolumeWithinCap`, `OutboxDrains`, `ResendOfLiveTakesNoSeq`, `ImplementsMailbox` |
| `push` | 2 devices, 4 connections, 3 places on the hub, 1 change of content, process deaths | 283 k | `Told`, `NudgesSettle`, `EveryoneCurrent` |
| `server` | 2 processes (builds with 1 and 2 migrations), 2 blobs of 2 pieces, one of them stored through both, 9 deployments, crashes | 188 k | `SchemaWhole`, `ServesOnItsSchema`, `AskedModeEnforced`, `BlobsAreWhole`, `EveryoneServes` |
| `ratelimit` | 2 addresses, windows of 3 ticks, limit of 2, seconds of 2 ticks, 8 instants, restarts | 1.4 M | `BurstBounded`, `MapBounded`, `RetryAfterSuffices` |
| `heal`, `shared_bytes`, `deleted_account` | | | the disagreements of section 4 |

The type invariants are proved (section 5) and in no run.

**Bounds.** `MaxSeq`, `MaxTime`/`MaxNow`, `MaxRefs`, `MaxBatch` and `MaxKeys`
stop counters; each is a guard named BOUND. They are chosen so that the cases of
the hazards fit: three numbers let two rows fall on two pages and one of them be
rewritten in between; two numbers in one batch let a roll-back give them out
again; in `reclaim` four instants let a device die (`DeadAfter` 2), the grace
period pass (1) and a release come in between, and three numbers are an insert,
a release and a second release; in `intents` four numbers let an event be posted,
pruned and posted again beside others. Two credentials are enough for
one to supersede the other and for one to survive a rotation that should have
taken it; `MaxPerAccount` and `MaxTotal` are both 2, so `MaxTotal` and not the
account cap binds first when both accounts have streams. `MaxAccounts` does not
bind (both accounts may exist). In `sync` one device is enough for every
property, as no property relates two devices and devices do not interact; in
the proofs the number of devices is arbitrary.
In `push` four connections for three places let broken connections stand in the
way of a new one, and one stream be lost for good while both devices still fit; one
change of content can be announced, found by `ready`, or lost with the process, and
a second one would meet the devices as the first does (in the proofs there are any
number). In `server` two migrations of which one build has one
are the least that let a process find a schema ahead of it, behind it, and half
of what it expects; two pieces let a file be half written; h1 is stored through
one process only, h2 through both, which is what `BlobsAreWhole` tells apart. In
`ratelimit` a window that is not a whole number of seconds (3 and 2) makes the
rounding of `Retry-After` matter, and eight instants hold two windows and their
sweeps.
`SYMMETRY` is used in `sharing` and `reclaim`, which check invariants and
action properties only.

`CHECK_DEADLOCK FALSE` everywhere: a bounded model comes to the end of its
numbers, and the servers themselves may be idle.

**Fairness.**
- `sync`: a transaction ends (its code has no await); a device polls on a
  cadence and is nudged, and of the polls it repeats for ever one is answered
  (strong fairness, since any single one may be lost). Nothing is assumed of
  writers.
- `uploads`: time passes, and the reaper, whose timer `index.ts` always starts,
  gets past every stale session some day although single sweeps may die.
- `heal`: besides, the reclaim timer fires (the operator switched it on) and a device
  that holds the original keeps uploading it. The assumption is generous on
  purpose: what it refutes fails in spite of it.
- `accounts`: close events of finished responses fire and heartbeats run
  while a stream lives. Nothing is assumed of clients.
- `push`: the close event of a broken connection fires; a client notices that its
  connection is gone, connects again, reads its frames, drains when it is told to
  and makes the writes it makes after a drain. Nothing polls. `NudgesSettle` and
  `EveryoneCurrent` speak of behaviours in which changes of content, broken
  connections, failed set-ups and process deaths end some day, and `EveryoneCurrent`
  of those in which the places the failed set-ups took leave one for each device.
- `server`: a process that can boot, migrate or listen does; the supervisor
  starts what is down (compose `restart: unless-stopped`) and kills what does not
  drain. Requests may stay for ever. `EveryoneServes` speaks of behaviours in which
  processes stop being stopped from outside.
- `ratelimit` has no liveness.
- `intents`: time passes, and a sender that keeps posting an event the cap
  would admit gets an answer once.

## 4. Where the code and its documents disagree

Three are runs TLC finds violated; `PROJECT.json` quotes the sentence.

1. `heal`: a row whose bytes are gone is said to heal by re-upload. Initiate and
   finalize answer from the row and store nothing; when a reference is added
   after a sweep died between bytes and row, the blob stays a 404.
2. `shared_bytes`: reclaim needs zero references, but decides per account and
   deletes the bytes all accounts share.
3. `deleted_account`: deleting an account removes "ALL of its data", but a
   request authenticated before and handled after writes rows again.

Five more were met while modelling. They have no run of their own: the models
show the behaviour, and the properties are stated around it.

4. `quotas.ts:63-65`: stored plus reserved "never exceeds the limit", but a crash
   inside a finalize leaves the blob and its session both counted until the
   reaper takes the session. What is stored never exceeds the quota
   (`StoredWithinQuota`), and the session does go (`SessionsEnd`). Without crashes
   the sentence is true and proved, all three parts of it (section 5:
   `ReservedWithinQuotaHolds`, `ActualWithinDeclaredHolds`, `FinalizeAdmittedHolds`).
5. `routes/events.ts:154-155`: "a dead connection never leaks in the hub", but a
   read that throws between `subscribe` and the close handler leaves the
   subscriber on the hub: Express destroys the connection without ending the
   response, so no delivery throws and no publish evicts it. It keeps its place
   under both caps until the process restarts or its credential is revoked
   (`ConnectThrows`). Streams that got past their set-up do leave
   (`InactiveStreamsEnd`, `DroppedStreamsLeave`), and devices stay current while
   the lost ones leave them room (`EveryoneCurrent`).
6. `sqlite.ts:407-409`: a re-sent event "consumes no seq", but one re-sent after
   it expired and was pruned is numbered again, and its post nudges. It takes no
   number before that (`ResendOfLiveTakesNoSeq`) and is never delivered again
   (`DeliveredOnce`).
7. `config.ts:235-236` and `:244`: file loading is skipped if `./config.json` is
   missing. It is skipped as well if that file is there and does not parse, so a
   slip of the pen in a file that says `per-account` boots a shared server, what
   `normalizeAuthMode` calls "exactly the failure that must not happen". A file
   named by `GLANCEVAULT_CONFIG` is fatal instead. `AskedModeEnforced` exempts this
   case and no other.
8. `disk-blobstore.ts:104-105`: a concurrent reader sees "either no blob or the
   complete blob, never a partial one". The temporary name is the hash, so two
   processes that store the same blob write into one file, and the rename of the
   one can publish what the other has just truncated; if that other dies there, the
   file stays partial. `BlobsAreWhole` holds of every blob stored through one
   process and exempts the others while they are being written or after such a death.

## 5. Proofs

`SyncStoreProofs` proves, for every set of apps, keys, devices and envelopes, every page and
batch size and every `MaxSeq`, what the run `sync` checks of safety:
`TypeCorrect`, `SeqNamesOneRowHolds`, `CursorCoversHolds`, `AckedIsHeldHolds`,
`AckNeverBackwardHolds`, `DrainIsCompleteHolds`, `TombstonesStayQuietHolds`, and
`ImplementsFeedHolds`: `SyncStore` implements `ReplicaFeed`, whose own promise is
`PromiseKept`. The assumptions are those named in `SyncStore`: finitely many
keys, each key has one app, `None` is no app, the bounds are numbers.

None of the invariants is inductive alone. `CursorCovers` says nothing of a page
on its way, which was read from rows that may have moved since. The inductive
invariant `IInv` adds
- `DraftInv`: an open transaction differs from the committed rows only by rows
  numbered above the committed counter, so a commit never publishes at or below
  anything a device has seen;
- `CursorInv`: reports are at most cursors and cursors at most the counter;
- `PageInv`: a page in flight has every row between the cursor it was asked with
  and its last row that was not rewritten since, and the final page has every row
  committed when it was read and not rewritten since.

The one fact about pages this rests on is `FirstDownward`: the first rows of a
set are closed downward in the order of their numbers. Writes are handled
together (`WriteSteps`: each either keeps the rows or publishes above the
counter, `PublishesAbove`), reads by `DrainSteps`. `Invariance` combines them,
and the refinement maps a publishing write to `Publish` and an applied page to
`Serve`, everything else to stutters.

`AccountsProofs` proves what the run `accounts` checks of safety, and the caps:
`OneCredentialPerDeviceHolds`, `LeakedKeyContainedHolds`,
`CredentialsHaveAccountHolds`, `RevokedHaveNoStreamHolds`, `CountIsExactHolds`
and `TypeCorrect`, assuming that there are finitely many streams, that `None` is
neither a credential nor the record of one, and that the caps are numbers. Apart
from types the invariant needs one addition: `KeyIsNewest`, the key of a registered
account is no older than the last rotation that signed its devices out.
Without it an enrollment could mint a credential under a key that a rotation had
contained. The count needs an argument of its own, as `total` is updated beside
the set it counts: `ConnectCounts`, `UnsubscribeCounts` and `DisconnectCounts` show
for each way on or off the hub that both change by the same number. From it follows
`HubWithinCapsHolds`: the caps hold of the streams on the hub, which needs besides
that a stream's credential was issued (`StreamsIssued`), so that an enrollment does
not move it to another account. `ImplementsMembershipHolds`: `Accounts` implements
`Membership`, whose own promise is `PromiseKept`. An enrollment maps to `Join`, a revocation, a
rotation that signs out and a deletion to `PutOut` (`RevokePutsOut`), a connect to
`Listen`, close events, heartbeats and restarts to `Stop`. It rests on
`OneCredentialPerDevice`, by which the member of a device is determined (`MemberIs`).

`IntentsProofs` proves `DeliveredOnceHolds`, `NoneMissedHolds`,
`VolumeWithinCapHolds` and `TypeCorrect`, for every finite set of events, every set of
receivers, every cap and every page size of at least one. The invariant adds
- `RowInv`: a row is of an emitted event, and a number names one row;
- `GotInv`: what a receiver got is expired or stored at or below its cursor. It
  says why a repeated post does no harm: until its expiry the event keeps its row,
  and afterwards the prune of the same transaction takes the new row away;
- `PageInv`: a page on its way has nothing its receiver got before, and every
  event that is not expired from the cursor to the page's last number.

`InsertSteps` says what a batch does to the rows, `ServerSteps` that no step of the
server disturbs what holds of the receivers, and `ListSteps` and `ReceiveSteps`
treat the receivers' own. The cap follows from `InsertWithinCap`: the events that
are not expired after an admitted batch are among those before it and its new ones.

`ResendOfLiveTakesNoSeqHolds` needs one more fact, `NumberedInv`: an event that was
numbered has its row until it expires.

`RateLimitProofs` proves `BurstBoundedHolds`, `MapBoundedHolds`,
`RetryAfterSufficesHolds` and `TypeCorrect`, for every set of addresses and every
positive window, limit and second. The invariant says of each client's log
(`LogOK`) that windows do not overlap and hold at most `Limit` admissions, of the
map (`WindowOK`, `ClosedLog`) that it holds the last window of the log unless
that is over, of the sweep (`SweepInv`) that what it leaves ends after it, and of
refusals (`WaitInv`) that a client was never told to come back early, which rests
on `RetryAfterCovers`, the one piece of arithmetic.

`ServerProofs` proves `SchemaWholeHolds`, `ServesOnItsSchemaHolds`,
`AskedModeEnforcedHolds`, `BlobsAreWholeHolds` and `TypeCorrect`, for every set of
processes, every builds' numbers of migrations, every set of deployments and
every set of blobs and pieces. Assumed are that builds carry no more migrations
than the newest, that deployments are settings, and that the model values differ. A process
that migrates has seen everything below its next migration applied, which is why a stale version does no harm: it can only make the process throw.
For `AskedModeEnforced` the invariant keeps that a running process loaded the
settings that are there, and the rest is a case analysis of `LoadConfig`. For
`BlobsAreWhole` it relates what a process has written to what is in the file it
has open, for the blobs that are stored through one process.

`PushProofs` proves `ToldHolds` and `TypeCorrect` for every set of devices and
connections and any number of places. The invariant adds `OwnStream`, no two
devices listen on one connection, so nobody else takes a device's frames, and
`NotAhead`, a device has no more than its account, so a `ready` frame it may ignore
says nothing new.

`ImplementsMailboxHolds`: `Intents` implements `Mailbox`, whose own promise is
`PromiseKept`. A post that is admitted maps to `Accept`, a tick to `Expire`, a page
that is taken to `Deliver`, lists and lost answers to stutters. What makes it work is that
neither a repeated post nor a prune changes what anyone is due (`PostAccepts`,
`DueTo`): a row is pruned only when it has expired, and one that comes back after that
is expired from the start.

`BlobStoreProofs` proves what the runs `uploads`, `sharing` and `reclaim` check of
safety, and `BytesOutliveReferences` where it holds: `TypeCorrect`,
`AddressesHoldHolds`, `StoredWithinQuotaHolds`, `PossessionProvenHolds`,
`RowsHaveBytesHolds`, `BytesOutliveReferencesHolds`, `ReclaimIsPatientHolds`,
`ReclaimIsDueHolds` and `ImplementsShelfHolds`, for every set of accounts and
devices, every finite set of hashes, uploads and part indexes, and every content.
Assumed are that parts are numbered, that no content is the mark of missing bytes
nor a row the mark of a missing one, and that bounds and periods are numbers. The
invariant adds
- `StagedIsSupplied`: what is staged for an open session was sent by the account of
  the session. With `IncreasingIsListing` (a finite set of numbers has an increasing
  list, an argument on ranks) an assembly holds only staged bytes, and one that
  passes the hash check has been sent completely by its account;
- `RowsTell`, for `ReclaimIsPatient` and `ReclaimIsDue`: the activity and the zero
  point of a row are what the history says, and a row at zero has a zero point.

`StoreStep` says once for all steps where rows and bytes come from and what takes
bytes away; the properties follow from it. Some theorems have a condition:
`RowsHaveBytesHolds` and `ImplementsShelfHolds` that the sweep is off,
`BytesOutliveReferencesHolds` and `ReclaimIsPatientHolds` `Unshared`, that it is off
or there is one account. The run `shared_bytes` shows that they do not hold otherwise.

The quota is about sums over sets. The model writes them with the folds of the
community modules, whose definition picks an element by CHOOSE and recurses. `Sums`
unfolds that definition; `SubsetInduction` is induction on the subsets of a finite
set (a smallest counterexample, `LeastNumber`), stated for a set of subsets instead
of an operator so that the provers can use it. From the two follow the lemmas the
rest cites: a sum of numbers is one (`SumType`), any element can be taken off it
(`SumTakesOff`), fewer elements give no more (`SumOfFewer`), and numbers picked
without repetition give no more than all (`SumOfPicked`). `StoredStep` then says that
a step either takes away from what an account stores or adds one blob that fits.

Three theorems are about the sentence of `quotas.ts:63-65` and assume `~Crashes`,
without which it is false (section 4): `ReservedWithinQuotaHolds`, what is stored and what
sessions declared fit the quota together; `ActualWithinDeclaredHolds`, a session
assembles at any time, to no more than it declared; `FinalizeAdmittedHolds`, a finalize
is never refused for the quota. Their invariant is `PartsTrue` (what is recorded of
a part is the length of what is staged) and `PartsFit` (the recorded parts fit the declared
size, and what has no session has no parts): the two facts a crash breaks.

For `ImplementsShelfHolds`, a finalize maps to `Put`, a part that is sent to `Send`,
the deletion of the account to `Clear`, everything else, what other accounts and
dying processes do included, to a stutter. The shelf's own promise is `PromiseKept`.

Only model-checked is liveness (`Converges`, `SessionsEnd`, `InactiveStreamsEnd`,
`DroppedStreamsLeave`, `OutboxDrains`, `NudgesSettle`, `EveryoneCurrent`,
`EveryoneServes`), which TLAPS does not reach. Every safety property of a passing run is a
theorem.

## 6. Not modelled

- The row cap of the sync batch (documented as a soft cap) and `deletedAt`.
- Deletion of an account in `SyncStore`: its counter starts again at 0, and old cursors are above it.
- Blobs and parts of size zero; byte ranges of downloads; power loss (files are
  not synced to disk before the rename); several processes in `BlobStore`, where a
  sweep and a reference could interleave.
- A hub shared by several processes: each process nudges its own streams only.
- Bootstrap-secret enrollment and shared-token mode beyond the choice between
  them: no registry to agree with.
- Settings whose unknown values fall back to a default (reclaim, request log,
  rate limit, trust proxy), CORS origins.
- `pruneExpiredIntents`, the sweep over all accounts: nothing calls it.
- A clock that steps back.
- Salt (one insert-if-absent and a read), usage, request log, CORS, health: no
  state of their own or one statement (see the notes in `PROJECT.json`).

## 7. Plan

Done, in this order: `ReplicaFeed` and `SyncStore` with runs and proofs (the core:
losing no row); `BlobStore`; `Accounts`; `Intents`; `AccountsProofs`;
`IntentsProofs`; `RateLimit`, `Config` and `Server`, `Push`, each with its proofs;
`BlobStoreProofs`; the abstract `Mailbox`,
`MediaShelf` and `Membership` with their refinements, and the quota.

Next, in order:
1. Account deletion and re-registration in `SyncStore`: cursors across
   registrations.
2. A variant of `BlobStore` with two processes: the sweep against a ref-add.
3. `ByteRange` (`parseRange`) as an operator with a lemma.
