# Cachearoo in TLA+

Cachearoo is a key/value store with an event bus. One Node process keeps
*buckets* of JSON values, each a pair of LevelDB databases (records and
metadata) or a map in memory. Clients read and write keys over HTTP or a
WebSocket; WebSocket clients subscribe to keys and are sent every change.
A bucket can be a replica of the bucket of another Cachearoo, which it follows
over a WebSocket of its own.

The program is single threaded, and hard for another reason: every handler is
asynchronous. At each `await` any other handler may run, LevelDB applies the
calls in flight in any order, and the process can die between two of them.
That is what these modules are about.

## 1. Inventory

| Component | Code (under `src/src`) | State | Operations | Makes it correct |
|---|---|---|---|---|
| Key operations | `datastore/datastore.ts`, `datastore/leveldb/datastore-level.ts` | records (`db`), metadata (`metadb`), `writeSemaphore` | `write`, `writeFailIfExists`, `patch`, `remove`, `read`, `list` | the two databases agree; an acknowledged patch is not lost; one creator per key; events tell what is stored |
| Bucket opening | the same | the LevelDB handles, the copied metadata, session keys on disk | `open`, `copyBucketMetaData`, `deleteExpiredKeys` | whatever a crash left, an opening that succeeds leaves no stale session key |
| Bucket lifecycle | `datastore.ts`: `init`, `createBucket`, `initializeBucket`, `applyBucketConfig`, `updateDBState`, `removeBucketAndData`, `repair`, `updateBuckets` | the map of buckets, their config and `isDeleting`, the config bucket | configure, create on first write, scan, delete, repair | a configuration is not lost; a deleted bucket leaves nothing but files that are not its own; one handle per directory |
| Storages | `datastore/datastore-memory.ts`, `datastore.ts`: `getStorage`, `generateKey` | one map per bucket in memory beside LevelDB; the last generated key | as above, without I/O; change of `persistenceDisabled` | events tell what is served, whichever storage serves; no key is given out twice |
| Session keys | `api/ws/ws-datastore-operations.ts` (`SessionExpiringKeys`) | key -> connections | `add`, `removeByConnection` | a session key disappears with its connections |
| WebSocket bus | `api/ws/ws-api.ts` | connections, what each is registered for | connect, register, broadcast, close | each change reaches every subscriber once and in order; every request is answered once |
| Replication client | `replication-client.ts` | one client per replicated bucket, its socket, its reconnect timer | `connect`, `reconnect`, `disconnect`, `initReplicationClients` | one client per replicated bucket, of the configured master; a replaced one does not return |
| Replication data | `datastore.ts` `receiveReplicationMessage`, `cachearoo.ts` `init` | the snapshot and the changes in flight, the replica's keys | register, snapshot, change, resynchronise | the replica converges to the master |
| Wiring | `cachearoo.ts`, `virtual-paths.ts`, `api/http/bucket-router.ts` | replication clients, routes | start order, `configureBuckets` and `virtualPaths.load` on every change | in the end the clients and the routes are those of the configuration |
| HTTP | `api/http/*.ts`, `security.ts` | - | GET, POST, PATCH, DELETE | a request is answered once, its status tells what happened |
| Admin page of a bucket | `../_admin/src/components/key-list.jsx`, `key-editor.jsx`, `confirm-dialog.jsx` | the list, the ticks, the open editor, requests under way | reload, tick, delete, edit, save | the editor saves what it shows under the key it shows; the list catches up with the bucket |
| Small parts | `config.ts`, `logger.ts`, `device-id.ts`, `file-utils.ts`, `app.ts` | files | - | - |

Interactions. A handler of the WebSocket bus or of the HTTP router calls
`DataStore`, which calls one of the two storages and then `onDataUpdated`, the
callback by which `CachearooDb` makes the bus broadcast the change. A write of
the config bucket emits `bucket-list-update`, on which `configureBuckets` scans
the disk, opens what it finds and starts or stops replication clients. The
session keys of a connection are removed by its `close` event. A replication
client feeds `receiveReplicationMessage`, which writes the storage and emits the
same events.

Everything hard to test that was found is listed, at its line, under `hazards`
in `PROJECT.json`.

## 2. Plan

In order of what matters most to somebody who stores data here. Done:

1. `KeyOps`: the four mutations of a key and the opening of its bucket, with
   `KeyOpsInv` (why its invariants hold), `KeyOpsProofs`, and the abstract
   specification `AtomicKeys` that `KeyOpsAtomic` shows it to implement.
2. `SessionKeys` and `SessionKeysProofs`: keys that expire with a connection.
3. `Replication`: a master, a replica and the link between them.
4. `Buckets`: creation, configuration, scanning, repair and deletion of buckets.
5. `Wiring`: the replication clients and the routes that configurations make.
6. `Api`: requests over HTTP and WebSockets, and the event bus.
7. `Storages`: buckets in LevelDB and in memory, and generated keys.
8. `KeyPage`: the admin page of a bucket.
9. Proofs of the safety properties of all of them: `ReplicationProofs`,
   `BucketsProofs`, `WiringProofs`, `ApiProofs`, `StoragesProofs` and
   `KeyPageProofs` beside the first two, and the refinement of `AtomicKeys` at the
   end of `KeyOpsProofs`.

Left for later: tidying of the longest proofs, `BucketsProofs` first, and the parts
of the routers that are not modelled (section 8).

No module declares a recursive operator, so each can carry proofs.

## 3. The modules and the code

An action is what the program does between two `await`s, or the effect of a
storage call that is awaited; but for the start of the service in `Buckets`, no
action holds more than one call of the storage.
`map` in `PROJECT.json` names the lines of every definition. Operators called
`Bug...` are no part of a specification: each is a plausible mistake in the
definition that follows it, kept beside it to show which property notices it.

### KeyOps

One LevelDB bucket, its requests and its opening. `db` and `meta` are the two
databases, `holder` and `waiting` the `writeSemaphore`, `pc[r]` the storage call
request `r` awaits, `seen[r]` the value `writeFailIfExists` or `patch` has read.
`create` stands for `writeFailIfExists`.

| Code | Actions |
|---|---|
| `DataStore.write`, `remove` | `Invoke`, `StoreRecord`, `StoreMeta`, `Publish` |
| `DataStore.writeFailIfExists` | `Invoke`, `Acquire`, `ReadForCreate`, `StoreRecord`, `StoreMeta`, `Publish` or `GiveUp` |
| `DataStore.patch` | the same with `ReadForPatch` |
| a storage call that rejects | `Fault`, during an opening `FailOpening` |
| `DataStoreLevel.open`, `copyBucketMetaData`, `deleteExpiredKeys` | `Open`, `CopyMetadata`, `PurgeRecord`, `PurgeMeta`, `Serve` |
| the process dies | `Crash` |

A JSON value is the set of requests that contributed to it, which is all that a
lost update needs. `patch` and `rootPatch` differ in what the code stores:
`patch` (`datastore.ts`, 327-330) passes the value it has read to `json-patch`,
stores that value and announces the result. An operation below the root changes
the value in place and the two are one; an operation on the root (path `""`)
returns a new value, and what was read is stored again. Hence `NewRecord`, what
is stored, and `Announced`, what subscribers and the client are told.

A call of the opening may reject when the handles are set already. Both `catch`
clauses swallow that and the bucket is served as it is (`FailOpening`): with
records without metadata, or with the session keys of the sessions before.

Six variables are history that no code keeps: `view` is what
a subscriber holds that applies every event; `suspect` are keys whose last
mutations overlapped or were interrupted; `exposed` are the creates and patches
whose key was later replaced by an operation that does not take the semaphore;
`misread` are the creates that took a failing read for an absent key; `spared`
are the session keys a failed opening has left; `old` are
the requests made before the last crash. The properties of `KeyOps`
excuse what is in them, and have to: overlapping plain writes do leave the
two databases apart, and a plain write during a patch is lost.

### AtomicKeys and KeyOpsAtomic

`AtomicKeys` is what a client of `writeFailIfExists` and `patch` may rely on: a
request takes effect at one instant on the value of that instant. `KeyOpsAtomic`
maps `KeyOps` to it: the effect is the storing of the record, and a refusal is
decided when the value is read. Its `PatchRoot` acknowledges and changes nothing but
the expiry, as the code does. An error may follow an effect (the record was
stored, its metadata not), and a crash may lose the answer, never the effect.
It holds when clients use creates and patches only and the read does not fail:
`writeFailIfExists` treats any error of its read as "there is no such key".

### SessionKeys

`keys` is `SessionExpiringKeys.keys`. `Request`, `Store`, `Return` and `Reject`
are an operation of `processOperation` around its datastore call, `Close` is the
`close` handler with `removeByConnection`, `Remove` and `FailRemoval` the
removals it issues without waiting for them. `late` are the session writes that
returned after their connection had closed, `kept` the removals that failed.

### Replication

The master (`Store`, `Publish`, `Register`, `SendBucket`), the link (`Connect`,
`Drop`) and the replica: `ReceiveChange` and `ApplyChange` are the branch of
`receiveReplicationMessage` for a change; `ReceiveBucket`, `WriteNext`,
`ListLocal`, `DeleteNext` and `EndResync` the one for a whole bucket, one storage
call a step. The WebSocket does not wait for a handler, so `writing` and
`resyncs` are sets. A value that is false in a condition (`0`, `""`, `false`,
`null`) is taken for no change: the kind `"falsy"`.

`Broadcast` is what reaches a replica and was never stored: `event-broadcast` of a
client, and the announcement of a patched root; `ReceiveBroadcast` and
`ApplyBroadcast` are its handler. `ListingFails` is the listing of the master that
rejects: the replica stays registered and no bucket is sent. The replica's own
listing (`Fault`) ends the handler before its deletions. `raced` is history: the keys
for which the code orders nothing, or which a failure or a broadcast has set apart
from the master; only a bucket that is listed and received makes them good.

### Buckets

The map of one service, its bucket objects, the folders, the LevelDB locks, the
stored configurations and `bucketCreationSemaphore`. A deleted bucket and a later
one of its name are two objects, and a task goes on with the one it has looked
up, as the promises do.

| Code | Actions |
|---|---|
| `write`: `createBucketIfNotExists`, `waitForBucketCreation` | `StartWrite`, `Acquire`, `Created` |
| `initializeBucket`, `bucket-list-update` | `StartConfigure`, `Created`, `Scan`, `CreateNext` |
| `read` of a bucket that is not there, `updateBuckets` | `StartRead`, `Scan`, `CreateNext` |
| `createBucket`, `applyBucketConfig` | `CreateBucket` (operator), `StoreConfig`, `ApplySupplied`, `ReadConfig`, `ApplyStored`, `ApplyEmpty` |
| `updateDBState`, `DataStoreLevel.open` | `UpdateDBState` (operator), `Mkdir`, `OpenDb`, `OpenMeta`, `Purge`, `OpenFailed` |
| `removeBucketAndData`, `DataStoreLevel.close` | `StartDelete`, `FinishClose`, `RefuseDelete`, `Rm`, `Rmdir`, `Unconfigure`, `Unmap` |
| `repair` | `StartRepair`, `FinishClose`, `Repair`, `Mkdir`, `OpenDb`, `OpenMeta` or `OpenFailed` |

`folders` are the directories a scan looks for, `dir` those among them that have the
directory of the databases, `assets` those that hold other files. A deletion removes
the directory of the databases (`Rm`), then the folder, which stays when it is not
empty (`Rmdir`); the next scan or start makes a bucket of it again.

The two databases of a bucket share one lock, and a start of the service is one
step, since nothing else runs before the servers listen. Keys,
`persistenceDisabled`, a close that fails and failures during a start are left
out; assets are there from the beginning. `mixed` is history: names on which a configuration, a deletion, a repair or
a failure interfered with another call; `scanned`, names a scan and another call
worked on together.

### Wiring

What follows from a configuration. `made[b]` are all clients that were ever made
for a bucket, `current[b]` the one in the map; a client that was disconnected
lives on as long as its timer, its handshake or its closing connection.

| Code | Actions |
|---|---|
| `initializeBucket`, `createBucketIfNotExists`, `removeBucketAndData` | `Configure`, `Configured`, `OpenFails`, `FirstWrite`, `Delete` |
| the handler of `bucket-list-update`: `createNewRoutes`, `initReplicationClients` | `Scanned` |
| `ReplicationClient`: its handlers and its timer | `Timer`, `Established`, `ConnectFailed`, `Lost`, `OnClose`, `Closed`, `Message` |
| `VirtualPaths.load`, `applyRouting` | `EditPath`, `PathEdited`, `Load`, `ApplyRouting` |
| start and end of the process | `Start`, `Crash` |

`initReplicationClients` compares the configured URI with the client's own, to
which `buildReplicationUri` has appended the query with the device id: the two are
never equal, no client is kept, and every announcement replaces them all (`Keeps`).

`Load` lists the virtual paths outside any `try`. When that rejects, the handler ends
without a route (`LoadFails`): `unlisted` are the paths nobody routes until another
handler has listed them.

### Api

`call` and `pc` are a request from its message to its answer, `answers` what its
caller was sent, `registered`, `inbox` and `listings` what a connection asked
for, was sent, and waits for. A call of the datastore is one wait that resolves
(`Resolve`, with the event) or rejects (`Reject`). `Break` is a socket whose
sends throw, `Close` its end. `log`, `since` and `switched` are history: the
order of the events, how many of them a connection was not yet registered for,
and who registered anew while it was sent buckets.

### Storages

One open bucket and the two storages it may be in. `persistence` is the setting
in force; `Toggle` moves the bucket and leaves its records. A value is the set of contributions to it, two from a patch
of two operations, so that a patch that fails half way is seen. `view` is what a
subscriber holds, `stale` the keys whose storage changed without an event, or whose
event told of a patched root, which is not stored (`PatchRoot`).
`GenerateKey` is `generateKey` with any clock.

### KeyPage

The page (`listed`, `selected`, the editor's `key`, `value`, `text`, `invalid`)
and what it waits for (`waiting`, `answers`, `reads`, `saves`, `removing`).
Versions (`changes`, `listedAt`, `newest`) stand for contents of the bucket. A record
that is false in a condition (`0`, `""`, `false`, `null`) is shown as an empty object
(`TextOf`), and nothing is saved while the value is one. The
client library is not in the repository: it delivers each answer in its time and
each change once, after the listener is registered.

## 4. The runs

| Run | Instance | States | Shows |
|---|---|---|---|
| `key_concurrency` | 1 key, 3 requests, 1 failing call, 2 crashes | 2.3M | databases and events agree on every key that was not raced; no patch lost; one creator; a restart repairs the metadata and expires session keys |
| `key_atomic` | 1 key, 3 creates or patches, 1 failing write, 1 crash | 563k | `KeyOps` implements `AtomicKeys`; every request is answered |
| `session_keys` | 1 key, 2 connections, 3 operations, 1 failing call | 151k | a session key is registered, goes with its connection and with no other |
| `replication` | 1 key, 2 changes, 1 broadcast, 1 lost connection or crash, 1 failing call | 166k | a key that was not raced agrees and never goes back, and the next bucket makes good what was lost or only announced; the replica comes to rest |
| `buckets` | 1 name, 2 calls, 1 failing call, 1 crash | 184k | a bucket is there or not, in all its places, and leaves files of others at most; a deletion deletes what it closed; first writes are served; every call is answered |
| `wiring` | 1 bucket, 2 masters, 1 virtual path, 2 edits, 2 failures, 1 crash | 138k | one client per bucket, of the configured master; every route; the status is true |
| `api` | 2 connections and HTTP, 2 requests, 2 registrations, 1 broken socket | 2.0M | one answer per request, each event once and in order, and only of calls that succeeded |
| `storages` | 2 keys, 2 requests, 2 changes of the setting, 1 restart, 1 message of the master, 3 generated keys | 403k | events tell what is served; fresh keys |
| `key_page` | 2 keys, 3 acts of the user or of other clients | 1.8M | the editor saves what it shows; the list catches up |
| `session_close`, `replication_race`, `buckets_config` | small, without any failure | | the disagreements of section 7 |

Bounds. `Requests`, `Tasks` and `Connections` are made once each, so their number
is the number of overlapping calls: three in `KeyOps`, because a lost update or a
wrong release takes two and a queue behind them a third. Keys do not interact
except through the semaphore and the opening, so one key carries the races.
`MaxCrashes = 2` lets the second crash interrupt the opening that repairs the
first. `MaxChanges = 2` with `MaxDrops = 1` puts handlers of two connections side
by side, each with an older bucket than the change that follows; one broadcast meets
buckets and changes before it and after it, and the bucket of the second connection
makes it good. A name of a
bucket is independent of the others but for the semaphore; in `buckets` a
configuration brings a scan of its own, so two calls make up to three tasks on
one name. `Generations = 4` is enough for the objects they keep alive: TLC would
stop at a name that has none left. In `wiring` two edits replace a client and
replace its replacement while the first one's timer or handshake runs, and the
second failure can hit the connection the first one delayed. In `api` the second
registration meets an event or a synchronisation of the first. In `storages` two
changes bring a bucket back to a storage with its old records, and three keys are
what it takes to repeat one after the clock has stepped back. In `key_page` three
acts are two clicked rows and an edit, or a save overtaken by the next row.

Larger instances were run by hand without an error: two keys and two crashes,
failing reads in the liveness of `KeyOps`, the invariants `IInv` of `KeyOpsInv` and
`BucketsProofs`, three calls with a crash in `Buckets`, `MaxEdits = 3` in `Wiring`, and
`KeepLocal = TRUE` and two lost connections in `Replication`. `Symmetry` is used for safety properties
only. Deadlock is not checked in `wiring`, `api`, `storages` and `key_page`: their
bounds let clients and users stop asking, and then nothing is left to do; a
request without an answer is found by `AnsweredOnce`, which says who must have
one, and clients or handlers that stand still by `FollowsConfiguration`.

## 5. Fairness

Weak fairness, and only of what the program or its surroundings do by themselves:
a storage call ends and a resolved promise runs its continuation (`Advance`,
`Store`, `Return`, `Remove`, `CloseDone`, the handlers of `Replication`); systemd
starts the service again (`Restart=always`,
`src/setup/deb/etc/systemd/system/cachearoo.service`, hence `Boot`); a lost
replication link is opened again after a timer of five seconds and messages on an
open link arrive (`Connect`, `Deliver`). Clients owe nothing: no call, no close.
Failures, drops and crashes are bounded by constants and never owed. The queue of
a semaphore is served in order, so weak fairness of each request is enough. In
`Wiring` the handlers of events run, timers fire, and a handshake or a closing
connection ends, for each client by itself; that a master can be reached is not
assumed at once, only that connections stop failing some day. `Api`, `Storages`
and `KeyPage` state safety only.

## 6. The proofs

`tlapm` checks the theorems for every set of keys, requests, connections and
operations and every bound; their only assumptions are the named ones on the
constants (sentinels such as `NoRecord` are no records, bounds are naturals). The
refinement of `AtomicKeys` has one hypothesis more, stated in it: `AtomicUse`.

Every safety invariant and every safety action property a run checks is a theorem.
In each module of proofs `Invariance` is `Spec => []IInv`, shown from `Init => IInv`
and one lemma per action or per group of actions, and the others follow from it.
What makes each property inductive:

**KeyOpsProofs**: `TypeOK`, `MetaAgrees`, `MirrorAgrees`, `NoLostPatch`,
`SingleCreator` and `NoStaleSession`, root patches and failing openings included. That a patch is not lost depends on who holds
the semaphore, on what the holder has read and on what an opening may delete.
`KeyOpsInv` names the layers, each preserved with the help of the ones above it:

1. `HolderInv`: who is between the read and the release of a create or a patch
   holds the semaphore. `RequestInv`: what history says of a request fits its
   phase. `BootInv`: an opening purges session records and no others, and the old ones
   that are left when it serves are spared.
2. `WindowInv`: a key that is not suspect has one mutation in flight at most, and
   holds what that one stored. `MetaInv` and `MirrorAgrees` follow from it: the
   second storage call and the event come from the same request as the record, and
   after a patch of the root the copy is that of the patch (`HoldsRootPatch`).
3. `ReadInv`: what the holder has read is still there when it writes, or every
   create and patch past its read is exposed. `CreateInv`: a create writes only
   when it saw no record.
4. `PatchInv` (the part is in the value, in a record without an expiry) and
   `ClaimInv` (one create stands per key), which are `NoLostPatch` and
   `SingleCreator` extended to requests still in flight.

`CreatesAndPatchesAreAtomic` proves that `KeyOps` implements `AtomicKeys` when
`AtomicUse` holds: clients use creates and patches only, and no read fails (writes
fail and the process dies as they please). Then nobody replaces a key blindly
(`Sighted`), so `ReadInv` says that the record a request has read is still the
record of its key when it stores its own: `StoreRecord` is `Create`, `Patch`
or `PatchRoot`. A read that stops a request is `Refuse`, the event `Ack`, a failing write `Fail`, a
crash `Restart`, the removal of a session record at an opening `Expire`, and every
other step a stutter. Both halves of `AtomicUse` are needed: with plain writes among
the operations, or a failing read inside `writeFailIfExists`, a value that was
there is replaced, which `AtomicKeys` never does.

**SessionKeysProofs**: `TypeOK`, `OpenIsRegistered`, `ClosedIsRemoved` and the action
property `RemovedForAReason`, from what a stored request and a registered
connection say of each other.

**ReplicationProofs**: `TypeOK`, `Agrees` and the action property `NoStepBack`. For a
key that is not raced, `OrderInv` and `CalmInv` say that its changes are delivered and
applied in their order and differ from no bucket under way, `ResyncInv` what the
handler of a bucket has done or will do, `NewerInv` that nothing on its way is older
than what the replica has, and `LatestInv` that the newest thing on its way is what
the master has. `ForeignInv` says that a key with a broadcast on its way or in a
handler is raced, so none is of the keys above. When nothing is on its way, `LatestInv`
is `Agrees`.

**BucketsProofs**: `TypeOK`, `DeletesWhatItClosed`, `Coherent` and the action property
`WritesAreServed`. `Coherent` is about names no call is at work on, so the invariant
has to say how far each call has brought a name. A name nobody has interfered on is in
the hands of one configuration, deletion or repair, or of any number of *finders*
(first writes, reads and scans that create the bucket from what is stored), and

1. `Bound`: all have looked up the bucket of the map, and no other object is open;
2. `Locked`: the lock is that of a bucket with handles, or of the one call that is
   between its two `open`s;
3. `Achieved` and `FoundNone`: what each step takes for granted of the bucket, the
   folder and the stored configuration, for one call, from its own variables;
4. `Agreed` and `Opened`: where the stored configuration is not the one in memory, or
   a bucket that should be open is not, a call is at work that will see to it, and at
   which steps it can be;
5. `LeftInv`, in a theorem of its own (`Remains`): a folder without a bucket, or of a
   deletion past its `rmdir`, holds other files;
6. `HolderInv` and `ServedInv`, for `WritesAreServed`: first writes at work hold the
   semaphore, so without a scan there is one, and a bucket said to be open is.

A step of a task is shown to keep the name it works on (a lemma `...Step` per action,
each concluding `Keeps`); that it leaves all other names alone is one lemma,
`LocalStep`, for all of them. `SoloName` and `SharedName` put the invariant of a name
together again after a step of its only call and of one of several. The attempt to
prove `Coherent` found it false: see the deletion of a disabled bucket in section 7,
which `Interrupted` now excepts.

**WiringProofs**: `TypeOK`, `RetryingIsCurrent`, `ConnectedIsTrue`, `EverythingRouted`
and the action property `FedByItsMaster`. `RoutingInv` says of each virtual path and
bucket without a route which load or scan under way will make it, at which of its two
steps, or that a listing of it has failed; `CurrentInv` that the client in the map has the configured address, or a handler
that will replace it is still to run.

**ApiProofs**: `TypeOK`, `AnsweredOnce`, `EveryEventOnce`, `EventsAreOfSuccesses` and
`BucketUnderItsName`. `CallingInv`: only what the key entitles to is called.
`InboxInv` bounds what was sent by what was emitted, so that a new event is the last
of every inbox. `ListingInv`: a listing is of the bucket that has its place in the
registrations, unless they changed while it was made.

**StoragesProofs**: `TypeOK`, `EventsTellWhatIsServed` and `FreshKeys`. The second is
inductive with the types. `KeyInv` makes `FreshKeys` so:
the keys of a millisecond are counted from zero, and until the clock is set back the
last key is of the newest one and has its largest counter.

**KeyPageProofs**: `TypeOK`, `EditorShowsItsRecord` and `ListSettles`. `PendingInv`: the
last change the page was not brought is announced, asked for or answered. Each step
keeps the text and the value of an editor together, up to `TextOf` of a falsy record.

Only model-checked: liveness (`EverySettles`, `SessionRecordsGo`, `Settles`,
`FollowsConfiguration`), which the prover does not do. The disagreements of section 7 are
counterexamples, which need no proof.

## 7. What the code does and its text does not say

Three runs end in a counterexample, none of which needs a failing call:

- `session_close`. `processOperation` registers a session key when its write
  returns. If the connection closed meanwhile nothing will ever remove the key,
  until the next restart.
- `replication_race`. The replica is registered before the bucket is listed, and
  its handlers do not wait for each other: a change that overtakes the
  resynchronisation is deleted or overwritten by it.
- `buckets_config`. A first write creates its bucket with an empty configuration
  when it found none, and stores that at the end of the opening, over a
  configuration stored in between.

Seen on the way, without a text that says otherwise; the properties name most of
these cases as exceptions:

- Two plain writes of one key may be stored in one order and announced in the
  other, because an event is emitted when both storage calls of its write have
  returned: a subscriber that applies the events keeps a value the store has not.
- A patch of the root is acknowledged and announced, and not stored: subscribers and
  replicas hold a value the store never had.
- An opening whose purge or whose copy of the metadata rejects is logged, and the bucket
  is served with the session keys of the last sessions, or with records without metadata.
- Of two openings of one bucket the second meets the lock of the first and fails;
  a first write that overlaps with a scan or with a configuration is refused.
- A bucket that is disabled has no database, so its deletion is refused after
  `isDeleting` was set: it can be neither enabled nor deleted until a restart. A
  configuration that enables it is stored and acknowledged all the same; when the
  bucket never had a folder, the restart that forgets `isDeleting` does not find it,
  and its configuration says of a missing bucket that it is enabled.
- When a deletion overlaps an opening, the handles of the opened object can stay
  with an object nobody finds any more, and hold the lock.
- The second of two overlapping deletions may remove the folder and the
  configuration of a newer bucket of the name, and a scan may bring a deleted
  bucket back.
- A folder that holds other files, the assets of a web site, survives the deletion of
  its bucket; the next scan or start makes an empty bucket of it.
- A configuration that disables a bucket without a folder is not looked at after a
  restart, until a write or a scan meets the name.
- Only `repair` looks at `status.repairing`: a scan or a configuration opens a
  bucket while its databases are being repaired.
- A virtual path whose handler cannot list the paths stays without a route until the
  next edit; a listing that fails during the start ends the start.
- Every `bucket-list-update` and every edit of a virtual path replaces all
  replication clients, for the comparison that should keep them never holds.
- A client disconnected while its timer or its handshake runs connects once more,
  and feeds the bucket until that connection is lost.
- A WebSocket operation of an unknown name is never answered, although
  `processOperation` prepares the error.
- A replica that registers anew during its synchronisation can be sent one
  bucket's records under another's name.
- A replica for which the bucket cannot be listed stays registered without it, and one
  stores what a client broadcasts by `event-broadcast`. A falsy value (`0`, `""`, `false`,
  `null`) reaches it with the next bucket only.
- The bucket a master sends goes to LevelDB although the replica is kept in
  memory; deletions of that resynchronisation have no event.
- A patch that fails half way has changed a record in memory.
- When a bucket in memory has session records left in LevelDB, `deleteExpiredKeys` finds
  them and removes them from the memory, which rejects at a start; the `catch` of
  `applyBucketConfig` stores an empty configuration, and `persistenceDisabled` is lost
  (`StartsWith`).
- Deleting a bucket leaves its records in memory, for a later
  bucket of the name.
- `generateKey` repeats keys when the clock steps back.
- On the admin page, two rows clicked quickly put the first record's text into
  the editor of the second, and the answer of a save closes whatever editor is
  open by then. An invalid text that was cancelled disables Save of the next one. A falsy
  record is shown as `{}`, and saving it does nothing.
- The replication dialog of the admin stores a configuration without `disabled`
  and `persistenceDisabled`, which it does not show.

## 8. Not modelled

- Parsing of paths and queries, compression, static files and the status page of
  the HTTP server: a request is one call of `DataStore` and its outcome a status.
- `encodeBucketPath`, `decodeBucketPath` and `isValidBucketName`: operations on
  characters, without state.
- Logging, device id, reading the configuration file: files read at the start, or
  pure output.
- The other pages of `_admin` (their writes are inputs of `Buckets`, `Wiring` and
  `Storages`), installers, scripts and the benchmark.
- What a deletion of a bucket leaves in memory: `Storages` has one bucket that is
  always open.
- A listing of the admin page that fails, which nothing asks for again until the
  next change, and a lost connection of the admin, which is the client library's.
- `removeBucketData` and `deleteBucket` of `DataStore` have no caller.
- Overlapping writes of the master and local writes of the replica's own clients
  are left out of `Replication`; the first are in `KeyOps`.
