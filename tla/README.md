# Lumina Relay: verification project

Lumina Relay is a Go server (gin, SQLite, a directory of files) that keeps the
end-to-end encrypted data of Lumina clients: accounts and devices, sync groups,
content-addressed ciphertext blocks, one manifest per device, session snapshots
and a WebSocket bus. This directory holds TLA+ models of its stateful parts, the
TLC configurations that check them on small instances, and proofs that TLAPS
checks for every instance.

Paths below are relative to the repository; `queries.go` is
`internal/db/queries.go`.

## 1. The system

### Inventory

| component | state | operations | modelled in |
|---|---|---|---|
| blocks (`service/blocks.go`, `queries.go`) | `block_objects`, `account_blocks`, `device_blocks`, `upload_reservations`, `accounts.used_bytes` | Put (reserve, install, commit, cancel), Missing, Get, Prune, the batches of a discard | `BlockLifecycle` |
| garbage collector (`service/blocks.go`, `main.go`) | objects in state `deleting`, local lists of claims and victims | claim, delete file, finalise, sweep of orphan files; at start and hourly | `BlockLifecycle` |
| file store (`store/blocks.go`) | one file per block, modification times | PutNew, Delete, ListFiles, Open, cleanup of temporary files | `BlockLifecycle` (partly) |
| devices, groups, codes (`service/sync.go`, `queries.go`) | `devices`, `sync_groups`, `sync_codes` | enrol, issue code, redeem (merge), revoke, discard other groups, list devices | `DeviceGroups` |
| session middleware (`middleware/auth.go`) | the group captured for a request | RequireSession | `DeviceGroups` |
| device proof (`middleware/auth.go`, `queries.go`) | `request_nonces` | RequireDeviceProof, UseRequestNonce | `RequestNonces` |
| events (`service/events.go`, `handler/events.go`) | tickets, subscribers and their buffers, connections | issue and consume ticket, subscribe, publish, forward, drop | `GroupEvents` |
| manifests (`service/manifest.go`, `queries.go`) | `manifests`, `manifest_heads` | put (CAS with idempotent retry), get, list heads | `Manifests`, `ManifestLog`; the listing in `DeviceGroups` |
| session snapshots (`service/sessions.go`, `db/session_files.go`) | `session_files`, session share of `used_bytes` | put and delete (CAS), get, migration, cascade | `SessionFiles`; the bytes in `BlockLifecycle` |
| registration, login, renewal (`service/connection.go`, `auth/challenge.go`) | challenge store (memory), `accounts` | Start/Complete, StartSession/CompleteSession | `Connections` |
| rate limiter (`middleware/hashed_limiter.go`) | hits per hashed key | Allow, cleanup | `HashedLimiter` |
| tokens (`auth/jwt.go`) | none: signed with the secret, issued by the instance | issue, parse | `ServerLife` |
| secret, instance id (`auth/secret.go`, `db/relay_meta.go`) | a file, a row of `relay_meta` | find or make at start | `ServerLife` |
| process and HTTP server (`main.go`, `server/server.go`) | listener, signal context, collector goroutine, requests in flight | start, serve, 5 s for requests and 30 s for the collector at the end | `ServerLife`; the first collection in `BlockLifecycle` |
| transcripts, signatures, migrations, pragmas, router | none, or once at start | – | not modelled |
| bodies, headers, access log, recovery, discovery, health, errors, config, logger, load test | none, or per request | – | not modelled |

### How the parts interact

Every request of a client with a session passes `RequireSession`, which reads
the device once and stores its account and group in the request context, then
`RequireDeviceProof`, which consumes a nonce. The handler then runs one or
several SQLite transactions. Write transactions are immediate (`_txlock=immediate`),
so they are serial; a single query is a snapshot. Nothing spans two of them:
**what a handler has read before a transaction may be out of date in it.**
Handlers that change groups or manifests publish to the event hub afterwards,
in memory, under its mutex. The block directory is a second store without a
transaction in common with the database; the collector and the uploads work on
both. `used_bytes` is shared by blocks and session snapshots.

### What is hard here

* Two stores: a crash, an error or another request between the file and the row.
* The group captured by the middleware, while merges, discards and revocations run.
* Publication after the transaction, while clients subscribe.
* Lost answers and retries of manifests, snapshots, discards.
* Instants that are read before a mutex or a transaction and used after it:
  uploads, nonces, the limiter, the challenge store.
* Quotas, buffers, capacities, batch sizes; counters kept incrementally.
* Restarts: memory (hub, tickets, challenges, limiter) is lost, SQLite is not,
  and a file may be torn. A second process may be started before the first one
  has ended: only the port is exclusive, and it is asked for last.

`PROJECT.json` lists each hazard at its line with the properties that cover it.

## 2. Modules

```
 QuotaLedger <= BlockLifecycle -- BlockLifecycleProofs
 ManifestLog <= Manifests ------- ManifestsProofs
                DeviceGroups ---- DeviceGroupsProofs
                  |- GroupEvents  --.    |
                  |- SessionFiles ----- GroupServicesProofs
                     (both extend DeviceGroups)
                Connections ----- ConnectionsProofs
                RequestNonces --- RequestNoncesProofs
                HashedLimiter --- HashedLimiterProofs
                ServerLife ------ ServerLifeProofs
                                   (<= : is implemented by)
```

`MC<Module>` supplies constant values and symmetry sets for TLC, nothing else.
Names of actions and variables follow the code (`ReserveBlockUpload`,
`releaseUnreferencedAccountBlock` as `ReleaseBatch`, ...). Operators called
`Mutant...` are faulty variants of the definition that follows them, used to
see that a property does depend on that piece of code; no specification uses
them.

### BlockLifecycle

State: the columns of the block tables as functions, `mtime` for the directory,
and everything an upload (`pc`, `req`, `started`), a discard or prune (`jobPc`,
`job`, `pending`) and the collector (`gcPc`, `claimed`, `deleted`, `listed`,
`victims`) keeps in local variables between two steps. One action per write
transaction and per file-system call:

* `BeginPut` → `ReserveBlockUpload`/`RejectUpload` → `PutNew`/`PutNewFails` →
  `CommitBlockUpload`/`CommitFails` → `CancelBlockUpload`. The instant is read
  once, in `BeginPut`, and used by reservation *and* commit.
* `DiscardOtherGroups` (structural transaction) → `ReleaseBatch`*;
  `BeginPrune` → `ReleaseBatch`*; `CleanupStops` when a batch is refused or
  fails – the rest of the list is then forgotten, as in the code.
* `ClaimCollectibleBlocks` → `DeleteClaimedFile`, `FinalizeBlockDeletion` →
  `ListFiles` → `SelectOrphanFiles` → `DeleteOrphanFile` → `CollectionEnds`.
  No request is served before the first collection has ended (`serving`).
* `RevokeDevice`, `MergeGroups`, `PutSessionFile`, `DeleteSessionFile` as far as
  blocks depend on them; `Crash`; `Tick`.
* `Missing` and `Get`, the requests that only read, are operators: what they
  answer in a state. A client that was told a block is present does not upload
  it, so the answer has to stay true (`PresentStaysPresent`). The code reads the row
  first and the file afterwards (`service/blocks.go:105`), with the group the
  middleware captured. An answer torn between the two is still that of one of
  the two states: a block that is not visible is missing in the first, a file that
  is gone makes it missing in the second, and with a row in the first and a file
  in the second it was present in the first, as a visible block has a file. The
  one exception is a file the sweep had deleted before and an upload has put
  back in between (`BlockLostFile`). A captured group that was merged away makes
  everything missing, and the client uploads in vain.

`QuotaLedger` is what an account may expect of all this: an amount stored, an
amount promised, and four bookings. `used_bytes` is the first column, the charged
reservations are the second.

Abstractions: blocks have unit size; session bytes are one total per account;
a file's modification time is the instant it is linked; a merge may keep either
group (age is irrelevant to blocks); the captured group of a prune is the set of
its members at the transaction's check; the order of deletions is free. Each
request runs once. `Prune` is implemented by the service but has no route
(`FRONTEND_INTEGRATION.md:649`); it is modelled because its code is there.
The collector's list of captured claims and its transaction are one action.

### DeviceGroups

A group is named after the device it was created for. `RequireSession` captures
the group; `GenerateCode`, `RedeemSyncCode` (`AlreadyJoined`, `MergeGroups`),
`RevokeDevice`, `DiscardOtherGroups` are the transactions, which may come any
time later; `ReadRevision` and `ReadHeads` are the two reads of a listing.
A transaction that takes an instant may take any between the request's arrival
and now. Consumed codes are dropped. A MAC that collides is redrawn, as
`GenerateCode` does. A discard may carry any revision the group has had. A
discard that finds no other device changes nothing and is left out. The heads a
listing has read stay with its handler until the client is done with them
(`Abandon`), so that the answer can be compared with the state it is dated by.

### GroupEvents

Adds the hub, the tickets and the connections. After its transaction a handler
holds in `out` what it has still to publish; `ListRecipients`,
`ReadEventRevision` and `Publish` are separate steps because the code makes
separate reads, each of which may fail when the caller has hung up: a revocation
then goes to the devices listed so far (the error is ignored), a manifest or a
snapshot event to nobody, and a manifest event may go without its revision.
`PutOwnManifest` and `ChangeSessionFile` (`session_file_updated` and
`session_file_deleted`, one type here) stand for the publishing handlers only: what
they store is the subject of `Manifests` and `SessionFiles`, and a request that
stores nothing is `Abandon`.
A connection goes through `ConsumeTicket`, `CheckDevice`, `SubscribeConn`,
`SendReady`, `SendEvent`/`CloseDropped`, and may be lost at any time. Reading the
group for `ready` and writing it are one action: nothing else happens to this
client between the two, and the read decides what is sent. `Faults` says whether
a release batch of a discard may fail.

### SessionFiles

Snapshots with version, group and text; a text is named after the write that
stored it. `seen` is what the client of a device knows, `base` what it knew when
it sent the request; answers may be lost (`Learn`). A refusal teaches the client
nothing: the `currentVersion` of a `409 stale_session_file` comes without a text, and
the client is told to fetch the snapshot before it writes on that version
(`FRONTEND_INTEGRATION.md:717`). A client that wrote on the bare number would
overwrite a text it has not read, and `OverwritesWhatWasRead` does not speak of it.
`born` has no counterpart in
the code: it names the creation of a row and serves the properties only.
Merging migrates, then cascades, in the code's order.

### Manifests and ManifestLog

`ManifestLog` says what a device's manifests are: a log to which each write is
appended at most once while the device is active. `Manifests` has the client
that sends a write with the version it believes to be the head and repeats it,
the attempts that overtake each other, and `PutDeviceManifest` with its three
outcomes. `history` and `acked` record what was stored and acknowledged.
Devices share no manifests, so one device is modelled.

### Connections

`Start` and `StartSession` look up; `CreateAttempt` is `ChallengeStore.Create`
under the mutex (cleanup, eviction, insertion) with the expiry computed before;
`TakeAttempt` consumes; `CompleteRegistration`, `CompleteLogin`,
`CompleteSession` are the transactions. A device is named after the attempt that
enrolled it, so that an identifier in use is among the refusals of `Refuse`.

### RequestNonces

`CheckProof` reads the clock, `DeleteExpired` and `UseNonce` are the two
statements, which the code does not put into one transaction. `GiveUp` covers
failing statements and clients that hang up, after the row was inserted or not.

### ServerLife

A run is one life of the process; what it generates (identifier, secret) is named
after it. Each statement of `GetOrCreateInstanceID` and each step of
`LoadOrGenerateSecret` (read, truncate, write) is an action, and so are
`CollectAtStart` (the removal of temporary files and the first collection, on the
main goroutine), `Listen`, `Signal`, `Shutdown`, `ShutdownReturns`,
`WaitForCollector`, `Exit` and `Crash`. Signals and crashes may come anywhere; a
crash has no code of its own. `secretFile` is `Null` for a missing file and for one of the wrong
length: the code treats them alike. The two time limits of the shutdown are
choices (`DrainIsOver` is true at once, as requests may or may not be done). `inMemory` (runs whose
secret was not written, which the code allows) and `disturbed` (overlapping
starts, or an intact secret that could not be read) serve the properties only.
`StartServer` stands for directories, migration and the connection, any of which
may end the run.

### HashedLimiter

`ReadClock` before the mutex; `RefuseKey`, `AdmitKnown`, `AdmitNew`, `RefuseNew`
are the four ways through `Allow` under it.

## 3. What TLC checks

| run | properties | question |
|---|---|---|
| BlockRaces | TypeOK, ClaimIsExclusive, OrphansAreStamped, ClaimSparesLiveFiles, SweepSparesYoungFiles, RevokedGainsNothing, OrphanObjectsCollected, OrphanFilesCollected, ReservationsSettle | two accounts upload and prune one object, with revocations, the collector and a fault; leftovers of all three kinds disappear once requests stop |
| BlockQuota | ReferencesNest, UsedIsExact, QuotaHonoured, OwnedIsReferenced, ImplementsLedger, PresentStaysPresent | two blocks, session bytes, merges and a discard in batches on a quota of two |
| BlockLostFile | ReferencedHasFile (refuted) | see below |
| Groups | GroupsAreInhabited, CodesFollowInviter, ListingIsComplete, RevisionTellsGrowth | three devices merge, revoke, discard and list with stale captures |
| EventsReach | EventsTypeOK, MergeReachesListeners, DiscardReachesListeners | merges and discards publish in any order while a client connects |
| EventsCatchUp | ListenersCatchUp | a client is up to date in the end, or disconnected |
| Sessions | FilesTypeOK (with TypeOK of DeviceGroups), FilesHaveGroups, VersionsNameTexts, OverwritesWhatWasRead, MembersKeepFiles | writes, deletions and lost answers under merges, discards, revocations |
| ManifestRetries | AcknowledgedIsStored, ConflictIsReal, ImplementsLog | retries that overtake each other |
| Connect | GrantedOnce, OneAccountPerName, PushedOutByYounger | four attempts in a store for two, two handlers, restarts |
| Nonces | AcceptedOnce | three copies of two requests, stalls, restarts |
| Limiter | LimitHolds, CapacityHolds | four calls of three keys out of order |
| Life | OneInstance, TokensSurvive, SignalledExits | three starts, two of them at once, crashes, signals and an I/O error anywhere |

### Disagreements between code and documents

One run expects a violation.

* **BlockLostFile / ReferencedHasFile.** The sweep decides on a directory
  listing and a query made afterwards, and then deletes. An old file without a
  row (left by a failed upload more than a day before) is taken as a victim; an
  upload of the same block then reserves, finds the file in place and keeps it
  (`PutNew`), and commits; the sweep deletes it. The row remains and the file is
  gone. The comment at `service/blocks.go:207` says the grace period excludes
  this: it protects young files (`SweepSparesYoungFiles`, proved), not old ones
  that come into use again.

The model of the process shows a divergence that has no run of its own, as no
document promises the contrary in so many words: **any** error of the read of the
secret file, of an intact one too, counts as a missing file, and a new secret is
written over it (`auth/secret.go:20`), although `main.go:123` persists the secret so that
sessions survive restarts; two first starts that overlap may likewise each work
with a secret of their own. `TokensSurvive` excepts both (`disturbed`) and holds
otherwise. A second process also runs its startup collection before it finds the
port taken (`main.go:144`), next to the collector of the first.

The shutdown has a gap of the same kind. `main.go:171-173` grants the collector thirty
seconds because a file operation may hang; the collection at the start has no
such limit. Its statements end with the signal context, the deletion of a file
does not, and as the signals have been taken over by then (`main.go:75`) a process
that hangs there is ended by a kill only. `SignalledExits` excepts a run in
`"collecting"`; without the exception TLC refutes it, as no fairness is given to
`CollectAtStart`.

Five further statements are defined in the modules and listed in no cfg. The
code does not keep them, and TLC refutes each within a minute when it is added
to a run as described:

* **DiscardReleasesQuota** (invariant, in BlockQuota). When a release batch of a
  discard fails, or the process dies between batches, the remaining blocks stay
  charged to the account without a reference; nothing takes them up later.
  `OwnedIsReferenced` states what holds as long as nothing fails.
* **DiscardReachesListeners** (invariant, in EventsReach with `Faults = TRUE`). In
  the same case the handler returns the error before it publishes: the devices
  are revoked untold.
* **RevocationIsBroadcast** (invariant, in EventsReach with the kinds generate,
  redeem, revoke, manifest, ticket). The recipients of a revocation are read
  afterwards with the caller's context and captured group; if the caller hangs up
  or the group is merged away, nobody is told.
* **ManifestEventsCarryRevision** (invariant, in EventsReach with the same kinds).
  An ignored error of `GetSyncGroup` gives a `manifest_updated` event without a
  revision.
* **NoBlindOverwrite** (action property, in Sessions). Versions of a snapshot start
  at 1 again after a deletion, so a client that knows version 1 of the deleted
  snapshot overwrites version 1 of the new one. `OverwritesWhatWasRead` states,
  and Sessions checks, what does hold.

### Bounds, and why they are enough

* *Clocks.* Lifetimes are scaled down but keep their order: in `BlockRaces` a
  reservation lives 1, the grace period is 2, and the clock runs to 4 with
  requests up to 2 (`Horizon`), so that an object can be orphaned, age and be
  claimed while an upload that began earlier is still under way, and liveness
  is about a system that is left alone. `BlockQuota` needs only that
  reservations expire and uploads outlive them (clock 1, reservations of 1,
  stalls allowed). In `Connect` an attempt lives 3 and the clock runs to 3: it
  can be stale when inserted, expire or be pushed out. In `Nonces` skew, margin
  and clock (1, 2, 6) let a nonce be issued, expire, be deleted and be tried
  again; in `Limiter` (window 3, stall 1, clock 6) two windows pass. In `Groups`
  and `EventsCatchUp` codes and tickets expire; in `EventsReach` and `Sessions`
  only order matters and the clock stands (`MaxTime` 0).
* *Actors.* Two uploads of one block meet at every step; a third behaves like
  one of them. One discard or prune with batches of one block has a gap between
  batches. Three devices are the least that allow two successive merges, and
  thus events, codes and listings that are overtaken by a second merge (`Groups`,
  `EventsReach`). A snapshot is in one group at a time and meets one other group
  in a merge, and a client is told by one handler at a time, so that two devices
  do in `Sessions` and `EventsCatchUp`, where requests or liveness are the
  matter. Two handlers give one with a stale capture and one that makes it stale.
* *Accounts.* They share block objects and nothing else: `BlockRaces` has two,
  the other runs one.
* *Faults.* `MaxFaults` is 1 in `BlockRaces`, `BlockQuota` and `Life`: a crash, an I/O error
  or a cancelled context, anywhere (crashes are free in `Life`). The proofs need no
  such bound.
* *Runs of the process.* Three (`MaxRuns`), two alive at once (`MaxAlive`): one that
  leaves a torn file or a half-made identifier, one that overlaps it, one that
  comes later and must accept what the others issued. One request in flight is
  enough to keep a drain waiting.
* *Symmetry.* Only in runs without liveness. `BlockQuota` permutes uploads, blocks
  and devices: no constant tells them apart there.
* *Buffers.* A buffer of one event, one connection and one ticket make the limits
  bite at once.
* *Writes.* Three texts or manifests: one stored, one that competes, one later.

Deadlock is checked in the block, nonce and connection runs, where the
collector, restarts or the clock's other actors always have a step. The group,
event, session, limiter, manifest and process runs set `CHECK_DEADLOCK FALSE`: their
devices, calls, writes, instants and starts are bounded, and with all of them
used up nothing is left to do.

### Fairness

Safety needs none. `BlockRaces` uses `FairSpec`: weak fairness of each upload's and
each cleanup's own steps, taken together (goroutines are scheduled, statements
end by their busy timeout, and a failure is a step as well), of the collector
(`main.go` starts it and its ticker fires every hour) and of the clock. No
fairness is given to arrivals, to crashes or to particular outcomes. Faults are
bounded, so a disk that fails for ever is excluded. `Life` assumes of each run
that its main goroutine is scheduled, that its timers fire and that the calls it
makes for the identifier and the secret return; nothing of requests and of
collections, the first one (`CollectAtStart`) or the hourly ones, which may hang for
ever. `EventsCatchUp` uses `EventsFairSpec`: a handler
that has committed goes on to publish, and a connection's loop writes or times
out (`WSWriteTimeout`); nothing is assumed of clients.

## 4. What is proved

All proofs are for any sets of accounts, devices, blocks, requests and any
values of the parameters that satisfy the named assumptions of the modules.

**BlockLifecycleProofs.** `TypeCorrect`, then four invariants, each inductive on
top of the ones before:

* `Accounting`: `used_bytes` is the number of owned blocks plus session bytes.
  Needed for its own sake and because `TypeOK` alone does not exclude that a
  release makes the counter negative.
* `Structure`: references nest, ownership implies an active object, a deleting
  object has neither owner nor reservation, stamps mirror ownership, and the
  collector's claims are deleting. None of the parts is inductive alone: a commit
  keeps `ClaimIsExclusive` only because a reservation excludes `deleting`, and
  `FinalizeBlockDeletion` keeps `OrphansAreStamped` only because the block it
  finalises is unowned.
* `SweepInv`: listing and victims carry modification times that are still those of
  the files or the files are gone, so age only grows.
* `QuotaInv`: used plus charged reservations within the quota. It needs that the
  removal of expired reservations only shrinks the charged set, and that a
  release which makes a reservation chargeable frees as much as it starts to
  charge.

From them: `UsedAlwaysExact`, `ReferencesAlwaysNest`, `ClaimAlwaysExclusive`,
`OrphansAlwaysStamped`, `QuotaAlwaysHonoured`, `ReservationAlwaysSuffices` and the
action properties `ClaimAlwaysSpares`, `RevokedNeverGains`, `SweepAlwaysSpares`.
(`ReservationSuffices`, that the repeated quota check of a commit cannot fail, is in no
run: `ImplementsLedger` says it and more.)

`OwnedAlwaysReferenced` (as long as nothing fails, no interleaving of uploads,
merges and batches strands quota) needs a stronger invariant, `NothingStranded`:
the property accepts a block that a running *prune* has still to look at, but a
prune that is over would leave it behind. What is inductive is that only
*discards* owe such blocks, since a prune drops the references in the batch that
releases the block; and that a group's devices have one owner, so that the
references a prune drops are of the account it releases to.

`PresentAlwaysStays` follows from `Structure` and the same fact about owners. `Seen`
splits what an active device can read into its reference, which only a discard or
a prune of its group takes (`SeenReference`), and the file, which a claim never
takes from a referenced block; what remains of the sweep is in the property.

`ImplementsQuotaLedger`: `BlockLifecycle` implements `QuotaLedger`. Every step is
classified by what it does to the two columns (`QuietLedger`, `ReserveLedger`,
`CommitLedger`, `ReleaseLedger`, `SessionLedger`); the books of a release (`ReleaseBooks`)
and `QuotaInv` carry the argument. A commit is a `Keep`, which asks nobody for room,
although other transactions came in between.

**DeviceGroupsProofs.** `GroupsAlwaysInhabited`, `CodesAlwaysFollow`,
`ListingAlwaysComplete`, `RevisionAlwaysTells`. The invariant adds `Unborn` (the group
of a device that has not enrolled does not exist) and `ListingIsDated` (a captured
revision is one its group has had). The lemma that carries it is `GroupsAdvance`: a
step changes the members of a group that remains only together with a higher
revision, and a group that is gone stays gone. Without `Unborn` a group could come
back with revision 1 and meet a listing of that revision.

**GroupServicesProofs.** What rests on the groups. `FilesImplementGroups`: snapshots
on top of the groups are a refinement of `DeviceGroups`, so `GroupsInv` is at hand;
`EventsImplementGroups` says the same of notifications, but for restarts, which end
all requests in one step and for which `RestartStep` shows `GroupsInv` anew.

*Snapshots.* `VersionsAlwaysNameTexts` is not inductive: a client could hold a version
that is still to come and meet another text under it. `CopiesInOrder` adds that
nobody holds a later version than the row of the same creation, nor a creation
later than the row's. Each step either hands copies on (`TextsKeep`) or stores the
next text (`TextStored`), and both keep the order. `OverwritesAlwaysRead` follows in one
step: a base of the row's version is the row's text, or an older creation.
`FilesAlwaysHaveGroups` and `MembersAlwaysKeepFiles` rest on the lemmas about merges and
discards of `DeviceGroupsProofs` and on the order in which a merge migrates and
deletes.

*Notifications.* `MergeAlwaysReaches`, `DiscardAlwaysReaches`, `SettledAlwaysKnows`. The
properties speak of connections that listen; what has to be carried there from
the check of the ticket is `Admitted`: until a connection is told a revision, its
device is in the ticket's group, or that group is gone for good, and then `ready`
fails and the connection ends. `OutboxInOrder` keeps a handler from starting a
request while it still has something to publish. Every step of the groups either
leaves a device's group as it is or leaves the event for the device in the hands
of the handler (`GroupsTell`), and `Publish` hands it to the buffer or drops the
subscriber. `DiscardAlwaysReaches` assumes `~Faults`: with `Faults` it is false (section
3). `SettledAlwaysKnows` adds the other bound: by `NotAhead` nobody is told, and no
handler holds, a revision the recipient's group has not reached, so a connection
with nothing on its way knows the revision exactly.

**ServerLifeProofs.** `AlwaysOneInstance`, `TokensAlwaysSurvive`. The strengthening
is `SecretIsKept`: while nothing was disturbed, the file holds the secret of every
run that did not fail to write it and of every token such a run issued, at most
one run is settling which secret to use, and it rewrites the file only when there
is none to lose. `Prepared` says what a run has at each place of its start.

**RequestNoncesProofs.** `NeverReplayed` from `NoncesAreKept`: a row goes only after
window and margin, and no copy that read the clock inside the window is still
under way by then. This is where `StallAssumption` (`MaxStall < Margin`) is
used: a handler must not be held up for the minute the nonce is kept longer,
between reading the clock and inserting. The code supports this and does not
enforce it: a statement waits at most 5 s for the lock of SQLite, but the wait for
one of the 32 pooled connections (`db/db.go:26`) has no limit of its own, nor has a
process that is suspended in between.

**HashedLimiterProofs.** `LimitAlwaysHolds`, `CapacityAlwaysHolds`, from
`AdmittedIsCounted` as the strengthening: the limit is a statement about the
instants of admission, the map holds the instants calls have read.

**ManifestsProofs.** `ManifestsAreALog` (the refinement of `ManifestLog`),
`AcknowledgedStays`, `ConflictsAreReal`. The invariant relates `history`, rows and
the bases of the writes: a write stored at version *n* has base *n - 1*, so it is
not stored a second time.

**ConnectionsProofs.** `NeverGrantedTwice`: an attempt is in the store, spent, or
in one handler's hands, never in two of these. `NamesStayUnique`.
`NeverPushedOutEarly`: with `Timely` (an expiry is the present plus the lifetime, or
earlier by at most the stall) the attempts that stay and the new one are the
rivals of the one that a full store gives up (`EvictedHasRivals`), and rivals remain
rivals (`RivalsStay`). `StoreNeverOverfull`: a creation gives up one attempt at most,
which keeps the store within its capacity.

### Only model-checked

Liveness and everything about fairness (`OrphanObjectsCollected`,
`OrphanFilesCollected`, `ReservationsSettle`, `ListenersCatchUp`, `SignalledExits`): beyond
the prover. Every invariant and every action property of a passing run has a
theorem. Statements about recursive definitions for every input do not arise: the
models have no recursive operators.

The assumptions on constants are named in the modules: parameters are natural
numbers, `Null` is none of the values it stands apart from (`NullAssumption`,
`NoRowAssumption`), devices have owners, the sets that are counted are finite. Two
say something of the code's surroundings: `StallAssumption` of `RequestNonces`
(above), and `~Faults` in `DiscardAlwaysReaches`.

## 5. Not modelled

* Cryptography and transcripts: a proof is valid or not; what is checked
  about replay is the nonce.
* Parsing, body limits, headers, logs, configuration, routing: no shared state.
* Migration of the schema: a library, run before anything else.
* Two collectors: an overlapping second process (in `ServerLife`) collects once
  while the first one may collect too; `BlockLifecycle` has one collector.
* Temporary files of uploads: no other code reads them.
* The bootstrap of a new session (reads of account, group and other sync data,
  each its own snapshot) and the quota of session files in `SessionFiles` (it is
  in `BlockLifecycle`).

## 6. Plan

Done: `BlockLifecycle` with `QuotaLedger`, `DeviceGroups` with `GroupEvents` and
`SessionFiles`, `Manifests` with `ManifestLog`, `Connections`, `RequestNonces`,
`HashedLimiter`, `ServerLife`, and proofs of all their safety properties. Next:

1. Theorems that go beyond the runs: what a discard leaves behind when a batch
   fails, as a bound on the stranded blocks.
2. The bootstrap and `HasOtherSyncData` as reads torn by merges
   (`service/connection.go:344`).
3. A second collector in `BlockLifecycle` (`main.go:144`), with its own claims and
   listing; the proofs of `Structure` and `SweepInv` have to follow.

Running it: `tlc -config BlockRaces.cfg MCBlockLifecycle` and so on (the pairs are
in `PROJECT.json`), `tlapm BlockLifecycleProofs.tla` for a proof module.
