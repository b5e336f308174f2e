# iList in TLA+

iList is a file index on Cloudflare Workers: one worker (`src/src/worker`) that keeps its state in
a D1 database and an R2 bucket and forwards to S3, OneDrive, Google Drive and Dropbox, and a
browser client (`src/src/ui`). The worker has no background jobs, no locks and no transactions
that span more than one SQL statement. Every request is an asynchronous handler that may be
suspended at each `await`, overlap with any other request, fail in the middle, or be evicted. What
keeps the data right is the `WHERE` clause of single statements, leases with an expiry, journal
rows written before the work, and retries. These are the parts modelled here.

All paths below are those of the repository, under `src/`; `PROJECT.json` gives the lines each
definition stands for.

## 1. Inventory

| Component | State | Operations | Interacts with |
|---|---|---|---|
| Upload session table (`upload-session-store.ts`, migrations 0012, 0013) | `upload_sessions`: parts, encrypted provider state, part lease, terminal lease, item, expiry, last cleanup attempt | create, claim/record/release a part, claim/complete/abort/release a terminal operation, list and touch cleanup candidates | upload service |
| Upload service (`upload-service.ts`, `upload-routes.ts`) | handlers in flight | create, uploadPart, complete, abort, cleanupExpired | session table, adapters |
| Upload adapters (`drivers/*/driver.ts`, `client.ts`) | the provider's upload session, its file | createSession, uploadPart, complete, abort | providers (external) |
| Native entry tree (`file-system.ts`, `db.ts`, migration 0002) | `entries`: tree of folders and files with a status and an owner | create folder, patch, move, copy, upload, delete | R2 blobs, recovery operations |
| Storage recovery operations (`file-system.ts`, migration 0007) | `storage_recovery_operations`: a journal with claims | enqueue, touch, activate, claim, renew, complete, retry; `reconcileStorageRecovery` | entries, R2 |
| Shares (`share-store.ts`, `share-admin-routes.ts`, `share-public-routes.ts`, `share-auth.ts`) | `shares`; cookies in browsers | create, update, rotate, delete; authenticate, view, download | rate limit, entries, drivers |
| Authentication rate limit (`auth-rate-limit.ts`) | `auth_rate_limits`: failures per window, one reservation per key | reserve, record failure, clear, release | login, share passwords |
| Administrator sessions (`auth.ts`) | `sessions` | login, logout, expiry | rate limit; deletes upload sessions by foreign key |
| Access tokens (`drivers/*/tokens.ts`, `credentials.ts`) | one encrypted document per mount, read, merged and written back whole; refresh lease | refresh under a lease, wait for another's refresh, retry after a 401 | OAuth, mount routes, provider |
| OAuth (`oauth-*.ts`) | `oauth_states`, one per mount | start, callback (single use), exchange, save credentials | credentials, provider |
| Mounts (`mounts.ts`, `mount-routes.ts`) | `mounts` | create, update, disconnect, delete, list | credentials, shares, upload sessions |
| Legacy objects and their migration (`db.ts`, `scripts/migrate-objects.mjs`) | `objects`; in `settings` the lock of a migration and the reservations of requests | PUT, PATCH, DELETE under a reservation; lock, drain, snapshot, import, release | entries, R2 |
| Browser upload queue (`ui/features/uploads`, `ui/api/uploads.ts`) | tasks in a reducer, the last rendered ones, transports, `localStorage` | add, start, pause, resume, retry, rebind a file, cancel, restore after a reload | upload routes |
| Driver file operations (`drivers/*/driver.ts`, `external-entries.ts`) | none; the provider's tree, at S3 the keys of a bucket | list, create folder, upload, rename, move, copy, delete, in batches | providers |
| Routing, views, headers, operator scripts, React components | none of their own | translation and rendering | |

What is hard in it:

- **Interleavings of handlers.** Any two requests overlap at every `await`; most bugs this design
  can have are a check before an `await` and an action after it.
- **Two stores without a transaction.** Native uploads and deletions change D1 and R2; resumable
  uploads change D1 and a provider. One of two writes may happen without the other.
- **Lost answers.** A statement or a provider call may take effect although the caller sees an
  error. Retries must recognise what was already done.
- **Leases.** A handler outlives its lease, another takes it over, and both go on.
- **Evictions.** A handler disappears between two steps, with its lease and its `finally` blocks.
- **No daemon.** Cleanup and recovery only run inside later requests.

What makes each component correct:

- *Uploads*: rows always pass `assertStoredRow`; the holder of a lease in force is alone; parts and
  items are never lost or resurrected; no client is told something a later state contradicts;
  recorded parts are at the provider, items mean files; expired sessions are closed and retried
  parts recorded.
- *Native storage*: a file that is served has its content; no blob and no name is leaked; a tree in
  deletion is always going to be finished; nothing usable ends below something being deleted.
- *Shares*: replaced links, old passwords and disabled shares stay so; limits hold.
- *Rate limit*: at most one verification per key at a time, no more failures per window than
  allowed, nobody locked out for good.
- *Credentials*: the stored access and refresh token belong to one consent, a rotated refresh token
  is not overwritten by its predecessor, a consent is taken once.
- *Upload queue*: a slot of the queue is never lost, no open session of the server is forgotten, no
  session is filled from two versions of a file, tasks get their turn.
- *Legacy migration*: no mutation of an object is lost between the snapshot and the import, which
  touches no entry that exists and publishes nothing.
- *S3 files*: an upload that was answered stays in the bucket until it is deleted, and nothing is
  written over, although a rename is a copy and a deletion for each key.

The hazards, each at its line, are in `PROJECT.json`.

## 2. Modules

    UploadStore --> UploadAdapters --> UploadService
    UploadService + INSTANCE of UploadSession --> UploadRefinement --> MCUploadService
                                                        +------------> UploadProofs
    SessionContract --> UploadSession
                +-----> UploadQueue --> MCUploadQueue
                             +--------> UploadQueueProofs
    UploadCleanup + INSTANCE of UploadService --> MCUploadLive
    StorageTables --> NativeStorage --> NativeCopies
                          |                   +---> NativeStorageProofs
                          +-----------> MCNativeStorage
    NativeStorage + LegacyMigration --> MCStorage
    LegacyMigration --> LegacyMigrationProofs
    BucketPromises --> S3Files --> S3FilesProofs
    MountCredentials + BucketPromises + INSTANCE of S3Files --> MCMountCredentials
          +----------> MountCredentialsProofs
    Shares + NativeCopies --> MCShares
       +-----> SharesProofs
    AuthRateLimit --> MCAuthRateLimit
          +---------> AuthRateLimitProofs

(an arrow is EXTENDS, from the extended module). Three MC modules put systems that share
little or nothing into one run, and a constant variable `focus` says which of them moves; each of them
says what the parts have in common. All follow one convention. A handler is a *slot*:
a record with the step it is at (`pc`), its arguments and what it read so far. An action is one
`await`: one SQL statement or one external call, with the synchronous code up to the next `await`.
A statement is a pair of operators, a guard (the `WHERE` clause and the constraints of the schema)
and the row it leaves, so the same definitions serve the actions and the proofs. Definitions
called *mutants* follow no code: each is a plausible mistake in the definition after it, used to
confirm that a property can fail.

### UploadStore, UploadAdapters, UploadService

`UploadStore` is the row of one `upload_sessions` record and every statement on it. Lease columns
keep what the code compares: part number and expiry for a part, operation, owner and expiry for a
completion or cancellation. `UploadAdapters` has the four `resumableUpload` adapters and, marked
external, what they rely on at the provider: parts it holds, whether its session is open, whether
the file was committed, when it expires. The adapters differ where the providers do: S3 keeps
parts and can tell a finished upload from a missing one; the others only have an offset, kept in
`state.next`. `UploadService` has the handlers of `createResumableUpload`, `uploadResumablePart`,
`completeResumableUpload`, `abortResumableUpload` and `cleanupExpiredUploads`. Names of steps:
`n…` create, `p…` part, `c…` complete, `a…` abort. The environment evicts handlers, expires the
provider's session, deletes the row (logout and mount deletion cascade to it) and lets time pass,
between any two steps and by any amount, so leases run out under handlers that go on.

### SessionContract, UploadSession, UploadRefinement

`SessionContract` is what a client of the routes may rely on: a session is absent, active, completing,
completed or aborted and holds parts; which successors each operation may give it; and what an
answer promises of it from then on. `UploadSession` is the abstract machine of that contract: somebody
works on the session, answers a promise that its state keeps, or the row vanishes. `UploadRefinement`
maps the row of `UploadService` to a session and the answers in its slots to promises, and
`KeepsTheContract` says that the service implements the machine. `UploadQueue` is built on the same
contract: the server it talks to is any server that keeps it.

### UploadCleanup

`UploadService` has one session. `UploadCleanup` has several, with no more of each than the
cleanup tells apart: the order of `cleanup_attempted_at` (a sequence), the terminal lease, and whether the
provider refuses to close it (`Stuck`) or the row cannot even be decoded (`Unreadable`). A visit lists
the first `Limit` rows without a lease in force, touches those it cannot read, claims, closes and
marks the others one by one, and touches what failed. A lease runs out under its holder only
against the failure budget: two visits that always outlast their leases do keep each other from
ever closing the row, as each takes it from the other before it marks it.

### UploadQueue

JavaScript runs one task at a time, so an action is everything between two events: a click, a render,
an answer. `tasks` is the state of the reducer, `view` what was rendered last; buttons and the closures
behind them are those of `view`. `live` has the transports (`sendXhr` and the loop over parts), `saved`
is `localStorage`, `strays` are requests whose connection the browser gave up and that still arrive.
The server executes a request when it likes, by `SessionContract`. `origin` records from which version of
the file the parts of a session came.

### StorageTables, NativeStorage

`StorageTables` is `entries` and `storage_recovery_operations` with every statement `db.ts` runs on
them, under the unique constraints, foreign keys and triggers of the migrations. An *attempt*
stands for the UUID an upload or deletion makes up: it is owner of the rows, identity of the
operation and storage key of the blob. `NativeStorage` has the handlers of `uploadFile` (`u…`),
`deleteEntryTrees` (`x…`) and `reconcileStorageRecovery` (`r…`) with its two recoveries (`c…` for
uploads, `d…` for trees; `k…` completes an operation that has nothing left to do, `t…` is the end of
the `try` and its `catch`). Recovery runs inside uploads, deletions and the router's
`reconcileAfterStorageFailure`; each place decides where its exceptions land (`after`, `catch`).
`createFolder`, `moveEntries` and `patchEntry` are single actions, because their last statement
repeats every check they made before. Five minutes without a heartbeat, or 30 seconds without a
renewal, is the flag `aged` of an operation. It is set at any time when no live handler keeps the
operation fresh, and, against the failure budget, during an R2 call of one that does: only such
a call can last that long, and only when all its heartbeats fail meanwhile.

### NativeCopies

`copyEntries` for one entry on top of `NativeStorage`: the checks of the source and the
destination, then a depth-first walk that inserts a provisional folder or puts a blob and inserts its
row, one statement or call at a time, and, on failure, the deletion of what was made, which is
`deleteEntryTrees` of `NativeStorage` with its outcome ignored. A copy has no operation in the
journal; what protects the tree is only that the copied folders are rows like any other. It starts
from `Shelves`, trees as they are between requests; `ShelvesAreWhole` says what that means, and
`MCShares` has TLC evaluate it for the trees of the run.

### LegacyMigration

The table `objects`, the tree it is imported into, the reservations of the requests and the lock of
the script. A request reserves, renews, calls R2 (a call that takes time and may fail) and writes
its row under the guard that its reservation still exists; the triggers of D1 refuse writes
under the lock. A run of the script takes or takes over the lock, waits until the reservations are
gone, renews, selects, reads the existing entries, renews again and imports in one transaction.
Requests and scripts may be late by any time; leases and the clock are relative times that `Tick`
lowers.

### MountCredentials

One mount at any of the three OAuth drivers or at S3: its document (sections `app`, `auth`,
`provider`), the refresh lease, and the OAuth flows. A refresh token is the consent it came from and
a version that the provider raises when it rotates it. Handlers are requests to the provider (read
the document, use its access token or refresh under the lease or wait for whoever does, once
more after a 401), starts and callbacks of flows, and the administrator's disconnection, PATCH and
deletion. Every write is `document := merge(what I read, section)`, as in the code.

### BucketPromises, S3Files

The bucket as a function of keys, and every operation of the S3 driver as its series of requests:
list, HEAD, conditional PUT, conditional COPY, DELETE. A rename or move copies each key of the folder
to a name nobody has and deletes the source when all are copied. Contents are numbered as they are
uploaded; `fate` records which were answered, deleted, or put into a folder that was being moved away.
`BucketPromises` holds the properties, in terms of the bucket alone, so that the model and the
composed run state the same ones.

### Shares

One share: the columns `updateShareRecord` writes (`policy`), the revision of its password, the
download counter. Administrators read, write and re-read; visitors authenticate (read, upgrade the
hash, clear the failures, get a cookie) and download (read, resolve, count). `told`, `revoked`,
`peak` and `served` record what was answered and given out; no action reads them. Seconds are
ticks of `now`; a share or cookie without expiry has `Forever`.

### AuthRateLimit

The rows of `auth_rate_limits` for the keys one client address meets: the address and the username
at a login, the share at a share. The handlers are `handleLogin` and `authenticate` of a share;
both reserve their keys one by one, verify, and record or clear them one by one, with the release
of what is left on every way out. The steps are `reserve`, `read` (the row a refusal reads for its
`Retry-After`), `verify`, `upgrade` (of a share's hash), `record`, `clear`, `release` and `admit`.

Seconds are relative to the present. `Tick` lowers all of them by one, down to a floor below which no
comparison of a statement can tell two values apart (`Over`, `WindowOver`, `Ancient`), so the model
is finite without a bound on time or on attempts. A handler reads the clock and binds the
reading to a statement, which the database runs some time later: `lag` is the age of the reading by
then, and `MaxDelay` bounds it. A token is the name of its handler; once the handler has answered, or
never knew that its statement took effect, it is `gone`. `lease` (how long a handler's reservation is
in force) and `book` (the wrong answers handlers gave in time, per window) are read by no action.

## 3. Runs

| Run | Shows |
|---|---|
| `UploadService` | Safety of one upload with two handlers, two parts, all four providers, one fault, expiring leases, and a row that may vanish |
| `UploadLive` | `session`: at S3, expired sessions get closed, retried parts get recorded. `rotation`: sessions that cannot be closed or read do not starve the others |
| `UploadGoogleExpiry` | *violation*: an expired Google Drive session is never closed |
| `UploadDropboxRetry` | *violation*: after a lost answer a Dropbox part can never be recorded |
| `NativeStorage` | `moves`, `failures`: two handlers, a folder, a file, two attempts; moves and renames, or one failure. `table`: all requests to the legacy table and one migration, or one request and two migrations |
| `NativeRecovery` | One request at a time, two files, three attempts, one failure: everything unfinished keeps an operation and goes |
| `NativeDeleteRace` | *violation*: two requests, no failure: a tree that stays in deletion for good |
| `MountCredentials` | `credentials`: two concurrent requests of any kind, one disconnection or edit or failure. `files`: two concurrent requests on the files of an S3 mount, which race and fail halfway |
| `UploadQueue` | Two tasks compete for one slot while a user clicks ahead of the answers, leaves, reloads and chooses files again |
| `Shares` | `share`: one administrator, two requests of a browser: cookies, links, limits and answers. `copies`: a folder with a file is copied while it, the copy or the destination is deleted, or a call of the copy fails |
| `AuthRateLimit` | Two logins, or two passwords of a share, with late statements, verifications that outlive their reservation, and one failed statement or eviction |
| `SharesLostUpdate` | *violation*: with two administrator requests a replaced link works again |

### Bounds, and why they are enough

*Uploads.* Two handlers (`Requests`): every conflict the row arbitrates is between the holder of a
lease and one other. A slot is free again after its request, so any number of requests follow one
another. Two parts (`NParts`): enough to have one recorded, one missing, and wrong offsets.
`LeaseTime = 1`, `MaxTime` of 2 or 3: a lease can run out under its holder and be taken over, a
session can expire with a lease in force. `MaxFaults = 1`: one statement or call with a lost answer,
or one eviction. `FaultHorizon` is the last tick at which one may happen (set below `MaxTime` in
the liveness runs, so there is time left to recover). `SessionTTL` and `Extensions` say how long a
provider's session lasts and whether OneDrive pushes the end back.

*Cleanup.* Three sessions, one stuck, one unreadable, one sound, and visits of one row (`Limit = 1`)
stand for the code's ten rows among more: the sound one is reached only if both others go behind
it. Two cleanups, so that a lease is met by another visit; one fault. Two faults were checked too.

*Queue.* Two tasks for one slot (`MaxConcurrent = 1`), two sessions, two parts, two versions of the
file, four events (`MaxEvents`: clicks, of which there may be four, a reload or departure, a lost
request). Pausing, resuming, cancelling and retrying one task against an answer takes three.

*Native storage.* `MaxAttempts` bounds uploads and deletions together: with two, an upload races a
deletion, a recovery and a second upload of the same id or name; with three (`NativeRecovery`), two
files are deleted with the folder that holds them, in two passes, since `MaxBlobDeletes = 1`.
`MaxFaults = 1` covers a failed or half-done statement or R2 call, an eviction, or a PUT that
outlives its heartbeats. `Rearranged` are the entries that move and are renamed: both in the part
`moves`, where nothing fails, one of the two files in `NativeRecovery`, none in the part
`failures`. Handlers of other uploads and deletions that only matter by their reconcile are
`OtherRequest`.

*Copies.* Three folders and two files are enough for a copy of a folder with a file and a
destination that is not its parent; four attempts are the content copied, its copy, the deletion of
somebody else and that of the rollback. Only calls of the copy fail, and a failure uses up the
deletion of the other request. Four attempts with a failure anywhere were checked too, in 1.4
million states. A copy makes entries that no share names, so a behaviour has the share or the copy.

*Legacy table.* Leases of one tick, so that reservations and locks run out at any point and are taken
over; one failure or change of others (`MaxEvents`). Two requests and one script without failures, or
one request and two scripts with one. Two keys in one folder, one of them in the table, one name
they can collide on.

*Mounts.* Two requests (one that waits for the other's refresh, an edit during a refresh, two
callbacks), two consents, two versions of a refresh token, three access tokens, one event. *Files.* Two
folders, one inside the other when moved, a file in either; two handlers, batches of two, and
three requests and failures together, among them an upload of new content (`Contents`).

*Shares.* Two administrator requests, two links, two passwords, a limit of one download, two
requests of one browser. Lost answers are unlimited. Another browser's cookies are independent of
these.

*Rate limit.* Two handlers, two failures per window (`MaxFailures`), `Window = 3`,
`Reservation = 1`, `MaxBackoff = 2`, `Retention = 5`, `MaxDelay = 1`: the proportions of the code
(a reservation is shorter than a window, the backoff is cut off, a sweep deletes only rows whose
window is over by any clock reading). One second of delay is enough to write times older than what is
there. The rows of logins and shares never meet, so a behaviour has one or the other (`Scopes`). The
run leaves out logins under other names, which share the row of the address; the proofs cover them.

Deadlock checking is off where the bounded model may come to rest: attempts, requests, clicks and time are
bounded, and a server without requests does nothing. The upload runs check deadlock (their cleanup
and clients never stop).

### Properties

Uploads: `RowAlwaysReadable` (each row satisfies the conditions `assertStoredRow` throws on),
`TerminalLeaseIsExclusive`, `PartLeaseIsExclusive` (only while nothing was lost: the part lease has
no owner column), `RepliesStayTrue`, `RecordedPartsHeld`, `ItemMeansFile`, `RowOnlyAdvances`;
`KeepsTheContract`; `ExpiredSessionsGetClosed`, `RetriedPartsGetRecorded`, `SessionsTakeTurns`.

Rate limit: `OneVerificationAtATime`, `GuessesWithinLimit`, `NoReservationLeftBehind`,
`RetryAfterIsEnough`; `NobodyLockedOut`. `GuessesWithinLimit` counts what a client learns, not what the
row counts. A handler that outlives its reservation may still tell its client that the
password was wrong, and `record` does not count it when another handler has taken over; the
property is about answers found in time and those the row counts.

Native storage: `ReadyFilesHaveBlobs`, `BlobsAreOwned`, `JournalCoversUploads`,
`JournalCoversDeletions`, `DeletedMeansGone`, `UsableUnderUsable`, `EntryLifecycle`; `LeftoversGo`.
Of copies, `CopiesAreWhole`: `ReadyFilesHaveBlobs` and `UsableUnderUsable` hold of what a copy makes, and
so does `CopiedBlobsAreOwned`: a blob a copy wrote belongs to its row, is in the hands of the copy,
or was given up by a call that failed or a name that was taken.

Legacy table: `MigrationSeesEveryWrite` (whoever holds the lock when it imports knows every row as it
is), `ImportIsFaithful`.

Credentials: `AuthorizationOfOneGrant`, `StatesAreUsedOnce`, `RotationsSurvive` (but for a refresh that
outlives its lease, and an edit that writes back the document it read). S3 files:
`ContentSurvives`, `NothingOverwritten`.

Queue: `SlotsAreAlive`, `OneFilePerSession`, `NoSessionForgotten` (unless a request is lost, or a click comes
before the render of the last dispatch); `QueueMoves`.

Shares: `CookiesProveThePassword`, `DownloadsWithinLimit`, `OldLinksStayDead`, `AnswersHold`. The
third and fourth, and the first, hold for one administrator request at a time and not for two
(see the finding); `DownloadsWithinLimit` holds for any number.

### Fairness

Liveness is claimed under the fairness the platform gives: a handler that is not evicted runs its
next step (`WF` of each slot's steps), time passes, a provider drops an expired session, an
operation nobody touches ages. Two assumptions are about users: requests keep coming, so a cleanup
(`CleanupStart`) or a reconcile (`OtherRequest`) is run again and again, and a client retries a part
it was not answered for. They are strong fairness because the model has one or two slots, which
may be busy whenever the action would be enabled, where the runtime always has room for another
request. The visits of the rotation are owed as those of one session are: a handler that is not evicted
ends, leases run out, cleanups keep coming. Of the browser: React renders after a dispatch
(`WF(Render)`), and a transport that was answered, or whose request fails or is served, goes on (`WF`
of each `Transport(i)`); nothing is owed by the user. Of the clients that log in no fairness is assumed: `NobodyLockedOut` is about
one that asks again and again, alone from some time on, with the right password. No fairness is
assumed of faults, evictions, moves or expiry of cookies.

### Findings

1. *Google Drive and OneDrive sessions that expired are never closed.* The cleanup visits sessions
   whose time is over; the adapters refuse a state whose time is over before they call the
   provider. Every cleanup fails and the row stays active.
2. *A Dropbox part whose answer was lost can never be recorded.* Dropbox has advanced its offset,
   the row has not; the code repeats the old offset for ever.
3. *A deletion can be closed before it begins.* `deleteEntryTrees` inserts its operation as
   `pending` and claims the rows in the next statement. A reconcile of another request in
   between finds rows that are ready, concludes that there is nothing to do and completes the
   operation. The rows are then claimed for an owner without an operation; the deletion answers
   success, and rows, names and blobs stay.
4. *Concurrent changes of a share undo each other.* `updateShareRecord` writes every column from a
   row it read before, the token included: a save that overlaps a rotation restores the old link.

### Observed, without a claim of the repository against it

The models show the following as well. No document or test says otherwise, or the property is
stated with this as its exception, so no run is listed for it.

- *Queue.* After a reload the queue writes its empty list to `localStorage` before it reads what the
  last visit saved, so the time stamp of the file is never known and choosing the original file
  starts over (`useUploadQueue.ts:162` and `:127`). A completion whose answer is lost can never be
  retried to success: the session is no longer active.
- *Credentials.* A request that waits for another's refresh after a 401 takes any token that has not
  expired, so it may get the rejected one again (`waitForRefresh`). A refresh under way restores the
  authorization after a disconnection. A PATCH can bring back the refresh token it read.
- *Legacy table.* A second migration imports again what was deleted from the tree meanwhile. The
  legacy DELETE removes the row and the blob but not an imported entry. The script waits five
  minutes for reservations that last fifteen: one evicted request makes it fail.
- *S3.* A folder `a/` and a file `a` can be made at once: the conditions of the requests are on
  different keys. A relocation that failed halfway is answered 409 when it is repeated. Moves and
  copies do not ask whether their destination exists. A file deleted and uploaded again into a folder
  that is being moved goes with the source: the exception in `ContentSurvives`.
- *Copies.* An INSERT that finds its name taken leaves the copied blob behind, without any failure.
  The rollback deletes what others put into the provisional folder, and is refused if something in it
  is not ready. A folder INSERT whose answer is lost is outside the `try`: its folder stays.

## 4. Proofs

`UploadProofs` proves, for every number of parts and handlers, any set of the four providers and any
times and budgets (the `ASSUME`s of the modules are all that is used):

| Theorem | States |
|---|---|
| `TypeCorrect`, `TypesHold` | `[]TypeInv`, `[]TypeOK` |
| `RowsStayReadable` | `[]RowAlwaysReadable` |
| `Safety` | `[]Inv`, the inductive invariant |
| `TerminalLeasesExclude` | `[]TerminalLeaseIsExclusive` |
| `RepliesAreTrue` | `[]RepliesStayTrue` |
| `RowsAdvance` | `RowOnlyAdvances` |
| `PartLeasesExclude` | `[]PartLeaseIsExclusive` |

`TypeInv` strengthens `TypeOK`: which fields of a slot are meaningful depends on its step, and the
steps that use a part number or a snapshot need it to be one.

The argument has two halves. Whatever action a handler takes, its effect on the row is one of the
nine cases of `Statement(s)`, so what concerns the row alone (`RowsStayReadable`, `RowsAdvance`) is
proved once per statement and not once per action. For the handler, `Outcome(s)` sums up what an
action may make of a slot: which step follows which, with what lease and what answer. `Inv` is

- `HandlerInv`: a handler at a step that presumes a lease has taken it, with the expiry it
  remembers, and works on a row that had been inserted;
- `Fresh`: a row is inserted at most once, and whoever is still about to insert is alone; without
  it a row could be replaced under handlers that hold leases in it;
- `TerminalLeaseIsExclusive` and `RepliesStayTrue` themselves.

`TerminalLeaseIsExclusive` is not inductive without `HandlerInv` (a handler could stand at
`aMark` without ever having claimed), nor `RepliesStayTrue` without `TerminalLeaseIsExclusive`.
The steps of another handler preserve the lease because every statement that could disturb it has
a guard that is false while it is in force (`LeaseBlocks`).

The lease of a part has no owner column, so that it excludes takes more: no two handlers may remember
the same part and expiry (`PartLeases`). `Arrives` says where a handler that works on a part comes from
and what its last step did; while nothing has failed, a lease is only cleared by its own
handler or after its time.

`UploadProofs` also proves that the service implements the contract (`ServiceKeepsTheContract`:
`Spec => KeepsTheContract`, initial states and steps, under the mapping of `UploadRefinement`) and
`CompletionsAreFull`: nobody starts to complete a session with a part missing. Beyond `Inv` it needs
`FullBeforeCompleting`, as a handler counts the parts in the row it read before it claims, and
`Knows`: the answer a handler is about to give is one that the row it read promises, and rows
only advance.

Two more theorems relate the row to the provider: `RecordedPartsAreHeld` (`[]RecordedPartsHeld`) and
`ItemsMeanFiles` (`[]ItemMeansFile`). A handler takes a part to the provider and the answer to the row
in different steps, and in between anybody may cancel, complete or expire the session. `ProviderInv` says
what each step relies on: a handler that has not recorded its part yet carries one that the
provider holds; one that completes has read a row with all parts. Dropbox commits whatever it holds
at the recorded offset, so it needs `InOrder` too: the offset in the row counts the recorded parts and
at most one handler is ahead of it, by one part. The hypothesis of both is `RangesAreWhole`: Google,
if it is among the providers, does not answer a part with a range that stops short of it. Without it
the code does record a part that is not held (`drivers/google/client.ts:289`); see section 5.

`LegacyMigrationProofs` proves `TypeCorrect`, `SnapshotsStayCurrent` (`[]MigrationSeesEveryWrite`) and
`ImportsAreFaithful` (`ImportIsFaithful`) for any keys, tables, requests, scripts, leases and number of
failures. The invariant, `LeaseInv`, is that once a script that still holds the lock has drained, no
reservation is left and none can come back; a write needs one, or is refused by a trigger; so
the snapshot is the table.

`MountCredentialsProofs` proves `TypeCorrect`, `StoredAuthorizationIsOfOneGrant`
(`[]AuthorizationOfOneGrant`), `FlowsAreAnsweredOnce` (`[]StatesAreUsedOnce`) and `RotatedTokensSurvive`
(`RotationsSurvive`) for any requests, drivers and bounds. `AuthInv` is the strengthening: not only the stored document, but what every handler has
read and may write back pairs the tokens of one consent; `FreshInv` and `FlowInv` say the same of tokens
and flows that are yet to come. `RotationInv` is what keeps a rotated token: no version in anybody's
hands is ahead of the provider's (`IssuedInv`); as long as no refresh outlives its lease, there is one
refresh at a time (`LeaseInv`), so what it is about to store is the provider's valid version
(`LatestInv`); and until the first tokens of a consent are stored nobody else holds any of it, so a
callback cannot go back behind them (`ConsentInv`). `Carry` is the one lemma for all steps without an
answer of the provider, `Advance` the one about its answers. What is left are the two exceptions the
property names.

`S3FilesProofs` proves `UploadsSurvive` (`[]ContentSurvives`) and `WritesNeverReplace` (`NothingOverwritten`) for
any bucket, batches, requests and failures. The invariant is that every upload that was kept has a
key that holds it and that no running relocation is about to delete (`Held`): a relocation deletes
only what it listed and, key by key, copied (`Handled`).

`UploadQueueProofs` proves, for any number of tasks, sessions, parts, slots, clicks, visits and faults:

| Theorem | States |
|---|---|
| `QueueTypes` | `[]UQTypeOK` |
| `SlotsStayAlive` | `[]SlotsAreAlive` |
| `FilesAreNotMixed` | `[]OneFilePerSession` |
| `SessionsAreRemembered` | `NoSessionForgotten`, a property of steps |

Every action replaces the task, the transport and the pause flag of one id together, so the core of `QueueInv`
is a predicate on these three, `Good`: which statuses occupy a slot and with what transport
(`Seated`), which session a transport may address at each of its steps (`Addressed`), which file a
task and its transport have (`Filed`). `Shown` says how far the last render may lag behind. `Commits` proves
once that a render with its effects keeps all that, so an action only has to show that the three
records it commits are `Good`. That no more tasks start than there are slots free is a counting
argument (`FirstOnes`: the first n of a finite set of numbers are at most n). For `OneFilePerSession`
everything that could still bring a part to a session, tasks, transports, requests under way and the saved
stamps, is a claim that the session is of some version (`Claims`), and all claims for one session agree.

`NoSessionForgotten` needs a second invariant, `MemoryInv`. `Linked` says what a task and its transport know of
each other: they agree on the session once the task was told of it, a transport that was stopped by anything but
a pause belongs to a task that is cancelled or gone, and a task that waits or is complete has no transport.
`Concluded` says that what either takes to be complete is complete on the server, so a task may drop it, and
`Dismissed` that the last render offers nothing but removal for a task whose transport is being stopped for good. A step then
only has to show that whoever held an open session (`Held`) passes it on: to the other of the two, to a
cancellation on its way, or to the list of the next visit (`PassedOn`). The exceptions are those of the
property: a lost or refused request, and a click before the render of the last dispatch.

`AuthRateLimitProofs` proves, for every set of handlers and keys, every policy, all times that satisfy
`TimesAssumption` and any delay and number of faults:

| Theorem | States |
|---|---|
| `InvHolds` | `[]Inv`, the inductive invariant |
| `TypeCorrect` | `[]TypeOK` |
| `VerificationsAlternate` | `[]OneVerificationAtATime` |
| `GuessesAreLimited` | `[]GuessesWithinLimit` |
| `ReservationsEnd` | `[]NoReservationLeftBehind` |
| `WaitingIsEnough` | `[]RetryAfterIsEnough` |

Each action is, for one key, one of six statements (`Statement`), perhaps with the token forgotten
(`Effect`); `StatementSound` and `EffectSound` are proved once, `StepKeeps` turns them into `Inv'`, and an
action only has to say where its handler goes. `Inv` adds to the properties:

- `RowInv`: the window of the book is the window of the row, and the row counts at least what the
  book does; a reserved row has room for one more failure, which makes the count inductive. Times in
  a row are bounded by `updated` plus the delay, which is why a sweep never deletes an open window
  or a reservation in force: it needs `Retention >= Window + 2 * MaxDelay`;
- `LeaseInv`: a reservation in force is in the row, with the same end, so that the upsert's
  `until <= t` refuses everybody else, whatever the age of their reading;
- `HeldInv`: as long as nothing failed, a token in a row is among the keys its handler still has to
  end, at each of its steps.

`SharesProofs` proves, for any visitors, passwords, limits, times and numbers of requests:

| Theorem | States | For |
|---|---|---|
| `DownloadsAreLimited` | `[]DownloadsWithinLimit` | any number of administrators |
| `LinksDie` | `[]OldLinksStayDead` | one administrator (`OneAdmin`) |
| `CookiesProvePasswords` | `[]CookiesProveThePassword` | one administrator |
| `AnswersStayTrue` | `[]AnswersHold` | one administrator |

The limit needs nothing of how changes interleave, because the row that is written back does not hold the
count: `LimitInv` only says that the row has counted what was served. The other three are false for two
administrators (finding 4), so `OneAdmin` is their hypothesis and not a convenience. With it, `LinkInv`
says that between the read and the write of a change nobody but the change touches the link or the
password, visitors who upgrade a hash included. `CookieInv` covers those about to get a cookie: what
was proved at a revision is of a revision no later than that of the row, and if it is that of the
row, it is the password of the row.

`NativeStorageProofs` proves, for any folders, files and names and any number of attempts:

| Theorem | States | For |
|---|---|---|
| `TypeCorrect` | `[]TypeInv` | any handlers and failures |
| `Invariance` | `[]Inv`, the inductive invariant | any |
| `FilesHaveBlobs` | `[](ReadyFilesHaveBlobs \/ LateAndFailed)` | any |
| `FilesHaveBlobsAfterOneFailure` | `[]ReadyFilesHaveBlobs` | any handlers, `MaxFaults <= 1` |
| `NoBlobForgotten` | `[]BlobsAreOwned` | any |
| `UploadsAreCovered` | `[]JournalCoversUploads` | any |
| `TreeStaysUsable` | `[]UsableUnderUsable` | any |
| `LifecycleKept` | `EntryLifecycle` | any |
| `DeletionsAreCovered` | `[]JournalCoversDeletions` | one handler, any failures |
| `DeletedIsGone` | `[]DeletedMeansGone` | one handler, any failures |

and of `CopySpec`, the copies with all that goes on meanwhile, for any trees that are `ShelvesAreWhole`:

| Theorem | States | For |
|---|---|---|
| `CopyInvariance` | `[]CopiesInv`, the inductive invariant | any handlers, copiers and failures |
| `CopiesKeepTheStorage` | `[](CopiedBlobsAreOwned /\ UsableUnderUsable /\ (ReadyFilesHaveBlobs \/ LateAndFailed))` | any |
| `CopiesStayWhole` | `[]CopiesAreWhole` | `MaxFaults <= 1` |
| `CopiesLeaveUploadsCovered` | `[]JournalCoversUploads` | any |
| `CopiesKeepLifecycle` | `[][LifecycleStep]_allVars` | any |

No property of D1 and R2 is inductive: whether a blob is safe depends on what every handler that could
delete it has read and not yet acted on. So the invariant has layers, each inductive given those
before it:

- `AttemptInv`: an attempt is used once, by one handler, and its operation comes before its row and
  blob; `RowInv`: what a row says of itself, and which operation stands behind it;
- `TreeInv`: the root stays, and every usable row leads up to it through usable folders. A move checks
  the ancestors of its destination in its statement, a claim takes all that is below a row.
  Ancestors are a least fixed point, taken over sets of folders only, as parents are folders
  (`AncestorsClimb`); the lemmas say what one changed row does to them;
- `UnpublishedInv`: until an upload publishes its row, no row with its key is shown;
- `DeleteInv`: a key that a worker has on its list, or that it noted as wiped, is `Dead` (no row shows it
  and no upload can bring it back), and a row outlives its blob and what is under it;
- `UploadInv` and `CleanInv`: as long as an upload holds its operation, its row and blob are there;
  a cleaner that has got as far as the blob has seen that no row shows it.

Each step is described once, in terms of one row, one operation and one blob (`RowChange`,
`OpChange`, `Effects`) and of where its handler can stand next (`Landings`); the layers then argue from
those few cases and not from the forty actions.

Copies enter the layers at one point. Without copies every key in a row or a bucket has an operation;
a copy makes a key up that has none. So `AttemptInv`, `RowInv` and `Dead` allow a key to be `Foreign`:
already made up, without operation, and of no handler, so that nobody will ever enqueue it. `CopyInv`
is what a copy adds: while it is between its PUT and its INSERT, or between a refused INSERT and the
DELETE, its key is `Unused` (in no row and on no list of a deletion) and of no other copy, and until
the INSERT is refused its blob is there. Nobody else can come to know such a key (`UnusedStays`), which
is why no journal is needed as long as the copy lives. Each call of a copy adds a row under a ready
folder, adds a blob or takes its own back (`CopyWrites`); each layer is shown to survive those three
(`LayersCopied`), and the rest is what became of the key (`KeyMoves`). The deletion by which a copy rolls
back is a deletion of `NativeStorage`, and the folders on its stack are never the root (`Stacks`).
`ShelvesAreWhole` is about where a behaviour begins and not about the constants of the code:
every row is ready, under a ready folder, and each file has a key of its own.

`LateAndFailed` is the one way in which content goes: a PUT whose heartbeats do not get through for minutes and, on
top of it, another failure. That takes two failures of the budget, hence `MaxFaults <= 1`. The last
two theorems are false for two handlers (finding 3), so one handler is their hypothesis. With it, the
tree of an operation is claimed as a whole (`ClaimedWhole`), and a worker that is about to complete
an operation has seen that nothing of it is left (`HandlerClaims`).

Only model-checked: all liveness (the prover has no fairness reasoning about `ENABLED`). Every
invariant and action property of a passing run is a theorem.

## 5. What is not modelled

- *Data*: contents, names beyond equality, encryption, request parsing, response formatting.
- *Uploads*: the list of sessions, the part repeated with other contents, a provider that answers
  with a short range: `ShortRanges = TRUE` models it and breaks `RecordedPartsHeld`; the runs keep it
  `FALSE` and the proofs assume `RangesAreWhole`, since no text of the repository promises the property
  then. In the rotation, no two
  attempts are made in the same millisecond.
- *Native storage*: several ids in one request, visibility and order. Two failures in one
  upload (heartbeats that fail for five minutes, and then the last one too) do lose a file that
  was acknowledged: `MaxFaults = 2` shows it.
- *Legacy table*: objects in R2 beyond the time a call takes, and columns that are only copied.
- *Mounts*: creation, names and paths, the connection test. Deleting a share or session of a deleted
  mount is a foreign key.
- *S3 files*: requests are atomic and consistent and a listing is one page; tools that use the
  bucket directly; entries that were not listed; signatures and encodings. OneDrive, Google
  Drive and Dropbox do each of these operations in one call, and keep the tree themselves.
- *Shares*: the inside of the shared tree, the access counter, which decides nothing.
- Routing, headers, views and scripts without state, React components, browser hooks that only
  show what the server answers, and the drivers' downloads: translation without state of their own.

## 6. Plan

What is left, in this order.

1. Several ids in one native request; the part sent twice with other contents (`samePart`).
