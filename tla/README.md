# Specifications of USBVault

TLA+ models of the stateful parts of USBVault (Quantum_Shield), its API server
and its client, the TLC runs that check them, and TLAPS proofs of the facts that
matter most. Every definition is translated from the source (Go under
`usbvault-server/`; TypeScript and JavaScript under `usbvault-app/`,
`usb-companion/` and `electron-shell/`); `PROJECT.json` maps each one to its
lines.

Contents: [inventory](#1-inventory) · [modules](#2-modules-and-the-code) ·
[runs](#3-runs) · [bounds](#4-bounds) · [fairness](#5-fairness) ·
[proofs](#6-proofs) · [disagreements](#7-where-the-code-and-its-comments-disagree) ·
[not modelled](#8-what-is-not-modelled) · [plan](#9-plan)

## 1. Inventory

USBVault is a zero-knowledge file vault. The client (`usbvault-app`, React Native
for phones and the browser, with the Rust primitives of `usbvault-crypto`)
encrypts; on a computer it keeps its vaults on USB drives, which it reaches
through a local companion process (`usb-companion`) that a desktop shell
(`electron-shell`) starts and supervises. A Go API server
(`usbvault-server`, several replicas behind a load balancer) keeps accounts,
sessions, metadata and ciphertext. The server's state is spread over PostgreSQL
(durable), Redis (a cache that may be lost), S3 (objects) and the memory of each
replica. Nearly every handler makes several calls to several of these without a
common transaction: this is where the hard behaviour of the server is.

The client's state is in the memory of a page, in `localStorage` and IndexedDB
(which tabs share and a reload keeps), in the secure store of a phone, and on the
drive. JavaScript runs one callback at a time, so every `await` is where other
callbacks, tabs, timers and reloads get in: an action of a client module extends
from one await to the next.

| Part | State | Operations | Interacts with | What makes it hard, and what must hold |
| --- | --- | --- | --- | --- |
| Sessions (`auth/jwt.go`, `token_epoch.go`, `account.go`) | `users.token_epoch`, `deleted_at`; Redis mirror, revocation entries, `user_tokens` | login tail, refresh, logout everywhere, deletion, validation | signing keys, every login path | two stores without a transaction, a cache that may be flushed, concurrent requests with one token. A refresh token works once; a logged-out or deleted account cannot refresh, with or without Redis; no session escapes a logout |
| SRP login and lockout (`auth/srp.go`, `lockout.go`) | Redis handshake sessions, lockout record | init, verify, record, reset | sessions | check and count are separate round trips, a sleep inside a deadline. The lock bounds the guesses |
| Recovery codes, re-registration (`recovery/`, `auth/reregistration.go`, `register.go`) | `recovery_codes`, the SRP verifier | generate, verify, re-register | login (409 when flagged) | statements without a transaction. The verifier is reset only by burning a code |
| Signing keys (`auth/key_rotation.go`, `jwt.go`) | `jwt_signing_keys`, the key cache of each replica, the global key | initialise, rotate, clean up, sign, verify | sessions | two locks, replicas, failures between two statements. A token verifies for as long as it lives |
| GC leader and scheduler (`gc/leader.go`, `scheduler.go`, `handlers.go`) | Redis lock with a lifetime; `isLeader`, trigger channel | acquire, renew, release, trigger, execute, shutdown | all GC jobs | leases, check then act, crashes, lost calls. A leader within its lease holds the lock, and again and again there is one |
| Object storage (`storage/s3.go`, `gc/s3_orphan.go`) | objects in S3, presigned URLs | sign, PUT, confirm, finalize checks, delete, orphan job | billing tier, multipart | listing is no snapshot, nothing is locked, clients act on their own. The tier's limits hold |
| Multipart uploads (`storage/multipart*.go`, `gc/multipart_cleanup.go`) | upload in S3, row and parts in PostgreSQL, cache per replica | initiate, part, finalize, abort, expiry sweep, GC job | object storage | restarts, a write-through cache filled concurrently, failing calls. Acknowledged parts are assembled; every upload ends |
| USB vault container (`vaultOrchestrator.ts`, `vaultContainerService.js`) | the file VAULT.bin; the decrypted index in memory | unlock, add, remove, compact, lock | file list, setup | a commit is three writes over a lossy call interface, a drive can be pulled. The container is always readable, and what was reported is there |
| Vault list (`vaultListStore.ts`, `webStorage.ts`) | list in memory and localStorage, files in IndexedDB | load, create, rename, delete, save | companion, container | loads overlap with changes and with each other, writes fail silently, old entries are migrated. No vault disappears that was not itself hit |
| File list (`useVaultUnlock`, `useEncryptFlow`, `useRemoveFile`) | files shown, cache | unlock, store, remove, poll | container | shows an index that is not on the drive yet. Only committed files are shown |
| USB setup (`usbProvisioner.js` and its neighbours, `setup-usb.tsx`) | partitions, mount points, containers | partition, mount, write, eject, wipe | operating system, container | paths that belong to another drive. Only the chosen drive changes, and what is reported ready is |
| Offline queue (`offlineQueueService.ts`) | queue in memory and its copy | enqueue, pass, retry, remove, clear | network events | overlapping passes, reloads. Nothing is run twice or lost |
| Sync socket (`syncService.ts`) | WebSocket, timers, queue | connect, flush, heartbeat, replay | sync server | events of replaced sockets. Never stranded; synced means sent |
| Desktop shell (`companion-manager.ts`) | child process, status, counters | start, health check, restart, stop | companion | overlapping awaits. Never left waiting for nothing |
| Native session (`api.ts`, `auth.ts`, `authStore.ts`) | two tokens in the secure store, master key | request, refresh, login, logout, lock | sessions of the server | concurrent 401s. No refresh token is used twice, every request settles |
| Web sign-in (`authStore.ts`, `fido2Service.ts`) | account and devices in localStorage | login, register, ceremonies, devices | AppProtection | tabs, pages without WebAuthn, writes that fail silently. A registered second factor is asked for where the page can |
| Emergency access (`emergencyAccessService.ts`) | contacts and requests in storage | designate, request, approve, deny, revoke, open | | load, decide, store without a lock. A revoked contact gets no key |
| Application protection (`appProtection.ts`, `_layout.tsx`) | timers, clipboard | copy, leave, return, lock | web sign-in | timers that cancel each other, renders that cancel all. A copied secret is removed |
| Sharing, sync, vault, billing, audit of the server | tables; CRDT state; connections; webhooks; a hash chain | see the [plan](#9-plan) | each other, sessions | limits counted before they are used, merges, late webhooks |
| Access control, rate limiting, plumbing | little | filters | all | mostly stateless |
| Screens, cryptographic core, deployment | layout, bytes | | | out of reach of model checking, or no state of their own |

The hazards, each at its line and with the properties that cover it, are in
`PROJECT.json` under `hazards`.

## 2. Modules and the code

One module per component. Its specification, type invariant and variables have
the component's name in theirs (`SrpSpec`, `LeaderTypeOK`, `uploadVars`), so that
components can be extended together. The constants that switch failures on
(`Lossy`, `DbFaults`, `S3Faults`, `RedisErrors`, `LostCalls`, `MaxFaults`,
`CompactBreaks`, `KillInRefresh`, `ClipboardFails`, `Disturbed` ...) say under which failures a
property is claimed. A definition whose
comment begins with *Slip* is a plausible mistake in the operation that follows
it; no specification uses it, and it exists to show that a property notices.

**TokenSessions.** One account; every key is scoped by user or by token, so
accounts do not interact. A *pair* is an access and a refresh token minted
together. Each request slot runs one handler at a time (`kind`, `pc`), and each
round trip is a step: `LoginReadEpoch`, `WriteMirror` (the best-effort SET of
`setEpochMirror`), `LoginIssue` for the tail every login path shares;
`RefreshRead` (the durable check), `RefreshRotate` (the Lua script), then either
`RefreshMint` and `RefreshRegister` or the revocation of the family; logout and
deletion share `RevokeOwn`, `ListTokens`, `RevokeOne`, `RevokeDone` and
`BumpUserTokenEpoch`, in the order of their handler. `RedisFlush` empties Redis
at any time. `begunEpoch` and `begunDeleted` are history variables. Expiry of
tokens is left out: entries outlive what they guard, and the horizon is shorter.

**SessionRegistry.** What the sessions of an account promise, without handlers or
stores: `Login` hands out the first token of a session, `Admit` finds one good,
`Replace` exchanges an admitted token for its successor, once, `EndAll` starts a new era.
`TokenSessions!ImplementsRegistry` is the refinement: an era is the value of the
durable column, a token is spent when a pair has been minted from it, and the admitted
tokens are those of the refreshes between the durable check and the minting.

**SrpLogin.** One (email hash, IP) bucket, the key of the lockout record.
`InitCheck` reads the record and sleeps the progressive delay inside the request
context; `late` says that the context ran out meanwhile, in which case the SELECT
fails whatever the row. `VerifyGet`, `VerifyDelete`, `VerifyCheck`,
`VerifyFails` / `VerifySucceeds`, `ResetAttempts` are the round trips of
`/srp/verify`. The group arithmetic is a choice between a right and a wrong
proof. `guesses` and `lateFails` are history variables.

**RecoveryCodes.** One account. `GenerateDelete` and one `GenerateInsert` per
index are separate statements; `VerifySelect` / `VerifyMark` likewise;
`ReRegisterSelect` reads the account's flag and the unused rows, which no property tells
apart, inside the transaction whose guarded UPDATE and verifier
swap are one step, `ReRegisterCommit`, because the UPDATE holds the row until the
commit (under READ COMMITTED the guard is evaluated again on the current row).

**SigningKeys.** The table is shared, the active key, cache and global private
key are per instance. Minting copies the key (`MintCopy`) and reads the kid later
(`MintSign`). `RotateMark` and `RotateStore` are the two statements of
`RotateKey`, which holds the service's lock throughout. The ticker rotates and
then always cleans up. Time is counted in months, so the 30-day refresh token,
the retention of 60 days and the interval of 90 days keep their order.

**GcLeader.** Time is counted in renewal periods (`ttl/3` in the code, so `TTL = 3`),
and `Period` ends one at any moment, whatever the replicas are at. Every Redis call is a
step of its own: SETNX and its reply (`tryAcquire`, `tryAcquireReply`), GET and EXPIRE of
a renewal, GET and DEL of a release. So the lock can expire, and change hands, between a
GET and the call it decides on. Two history variables: `age` counts the periods since a
replica's SETNX or last EXPIRE; `stale` marks a replica whose second call comes after the
key it saw is gone, and a leader deposed by the DEL of such a one.

**ObjectStorage.** One user. `FinalizeUpload`'s check after assembly reads the
size (`HeadObject`), sums the listing key by key (`ListKey`), then accepts or
deletes by key. Single-shot uploads: `HandleGenerateUploadURL`, `ClientPut`
(client, external), `ConfirmUpload`, `ConfirmRemoves`, `DeleteBlob`. The orphan
job lists pages and deletes up to its limit. The bytes at some keys are a set (`Bytes`),
and what is stored there is its cardinality (`BytesAt`), which the provers can reason about. The table `blobs` is empty in every
reachable state, because no statement inserts into it.

**MultipartUploads.** One upload, the only unit the code shares state by. A
handler looks up the cache of the process it runs on, else reads the row
(`loadMiss`) and fills the cache (`Loaded`); work on the cache under `mu` is
atomic. `Cleanup*` is the hourly sweep of a process, `MultipartCleanupJob` the
S3-side job, `Restart` loses the memory of a process and its handlers. The
outcome of the size and quota checks is a free choice here: ObjectStorage models
it.

**Arrays.** `Array.prototype.filter`, for the arrays of OfflineQueue and SyncSocket.

**The modules \*Proofs.** The theorems and their lemmas, see [section 6](#6-proofs).

**The modules MC\*.** `MCTokenSessions` adds the symmetry set. `MCAccounts`,
`MCObjects`, `MCJobs`, `MCVaults`, `MCBackground` and `MCClientSessions` each put
several components that share no state side by side: the variable `part` names the
one that takes the steps in a behaviour, the others stay in an initial state.
Nothing is lost by this (a property of one component cannot depend on the other),
and the state space is the sum of theirs, not the product. TLC reports a
component's next-state relation as one conjunct of the bundle's, with the coverage
of each of its actions.

**VaultContainer, VaultContents.** The file is a header with two index slots and a
sequence of blocks; an offset is a position in it. `addFile`, `removeFile` and
`compactVault` are flows of calls to the companion (`AppendRecord`, `AppendIndex`,
`WriteHeader`, `RewriteVault`, `RereadHeader`), each of which may fail before or
after it took effect (`CallFails`). `reload` forgets the memory. `VaultContents` is
the abstract specification: a set of files that changes only by a commit, which
makes it what memory wants. `ImplementsContents` is the refinement, with the
contents read from the drive through the active slot (during a compaction, those
of before it). The overwrite of the 24 KiB header is one step: a header torn by a pulled
drive is left out.

**VaultList.** `loadVaults` migrates the entries of older versions and then waits for
the companion twice (`DrivesListed`, `VaultsDiscovered`). The migration keeps what is
tagged `local` or has an id of the old form (`Recognised`; `OldIds` are the vaults that
have one) and purges the rest. `deleteVault` cleans up IndexedDB file by file
(`CleanListed`, `CleanBlob`, `CleanMeta`); `addFileWeb` saves metadata, blob and
counts (`SavePutsMeta`, `SavePutsBlob`, `SaveWritesList`). Every write to localStorage may
fail, which `lsSet` only logs. History variables: `strayed` are the local vaults whose own
creation or deletion was not written or that the migration did not carry over, `raced`
says that one of the two lost updates of section 7 happened.

**FileList.** `RestoreFiles` is the end of the poll, which copies the
orchestrator's index; `UnlockSyncs`, `AddCommitted`, `RemoveCommitted` and
`StoreDeletes` are the ends of the user's flows. `PlugOrPull` and `ReloadPage` are
the environment.

**UsbSetup.** Drives, mount paths and what each SECURE volume holds. The three
platforms differ in how the path of the new volume is found (`AwaitMount`,
`UdisksMount`, `findVolumeForDisk`, `FallbackMount`); from there on everything goes
by the path (`writeVaultBin`, `provisionHeader`, `provisionIndex`,
`provisionCommit`). On Linux `secureWipe` swallows the errors of `dd`. Screen and
companion end a provisioning together, as they do over IPC, which has no time-out; the
way through HTTP, where the screen gives up after 10 s (`usbService.ts:70`) while the
companion goes on, is left out.

**OfflineQueue.** `processQueue` selects the pending operations and goes through
them, waiting for a handler (`HandlerSucceeds`, `HandlerFails`) or a back-off
(`BackoffEnds`); operations are shared objects, so a pass works on what it
selected even when it is no longer in the queue.

**SyncSocket.** Socket events carry the socket they belong to, which may have been
replaced. Between two items of a flush only code of the same task runs.

**DesktopShell.** Each call of the manager that waits (for a port, the health
check, a delay, an exit) is a slot of `Waits`; it reads the manager's fields again
when it goes on. The installation without the companion's files, and a fork that
fails, are left out.

**NativeSession.** Requests and one user flow run concurrently. A token is a
session and a generation. `PostRefresh` is what a client sees of the server's
`RefreshAccessToken` (modelled in detail in TokenSessions): it rotates at each refresh and
takes a second use for theft. `RefreshStore` writes the two entries one after the other;
the secure store may fail to read or write them within a refresh, which then deletes both.

**WebAuth.** Tabs share the account and the devices; a flow waits for Argon2 and
for the ceremony. A page may lack WebAuthn (`webAuthn`), in which case `LoginDerived` does
not ask for the second factor; a write of the devices, the account or the session may fail
silently. `unsaved` records that a change of the devices was reported and not stored,
`staleWrite` that an authentication wrote back an older list.

**EmergencyAccess.** A call loads, decides, loads again and stores
(`_persistRequestLoads`, `_persistRequests`, `_persistContactLoads`, `_persistContact`),
with any other calls between, also ones that store the same list. `undone` records the
contacts put back by a list that was loaded before their revocation was stored. Only tests
call the service so far.

**AppProtection.** The lock timer, the timers of copies, the asynchronous
clipboard, and the hook that is set up again by renders (`useAppProtection`,
`RenderCleanup`). A render is due after every change of `isAuthenticated`, so after each
lock, and after a change of the theme. `forgotten` records the copies that a render, or a
clipboard that failed, left with nothing to remove them.

## 3. Runs

All under `tla/`: `tlc -workers 2 -config <run>.cfg <module>`.

### Runs that pass

| Run, module | States | Shows |
| --- | --- | --- |
| `TokenSessions_flush`, MCTokenSessions | 619k | With Redis flushed at any time, calls lost and PostgreSQL failing: `DurableCutOff` (a refresh past the durable check began with a token of the current epoch and an account not deleted), `FamilyKeepsEpoch` (no chain of rotations outlives an increment) and `MirrorNotAhead` |
| `TokenSessions_sessions`, MCTokenSessions | 46k | With both stores answering: `RefreshSingleUse` (of the requests presenting a token at most one mints or gets as far as minting); `NoUntrackedSession` (a live session is in `user_tokens`, revoked, about to be revoked or about to be outdated); `ImplementsRegistry`; `LogoutEndsSessions` under fairness |
| `Accounts`, MCAccounts | 1565k | SrpLogin: `LockBoundsGuesses`, after the lock fewer proofs than handler slots are evaluated, although sessions can be banked and the count can fail. RecoveryCodes: `OneCodePerReset`, resets of the verifier and burned codes agree; `ReuseBounded`, a code is accepted at most as often as there are requests at a time (`CodeAcceptedOnce` fails, section 7). SigningKeys: `WrongKidIsRetired`, only a request across the end of a rotation misnames its key (`KidNamesSigner` fails, section 7); `KeyOutlivesTokens` and `RestartVerifies` for one process, restarts and one failed statement |
| `Objects`, MCObjects | 1045k | ObjectStorage: `AcceptedWithinQuota`, accepted uploads fit the quota together, without a lock or a snapshot. MultipartUploads: `ResumeKeepsParts`, until expiry an assembled object has every part acknowledged before its finalization was requested |
| `Jobs`, MCJobs | 123k | GcLeader: `LeaderHoldsLock` (a leader within its lease, whatever time passes between two calls, holds the lock unless a call that came too late deposed it), and `ElectionGoesOn` under fairness. MultipartUploads: `UploadEnds`, an open upload ends in S3 and in the table, whatever failed |
| `Vaults`, MCVaults | 1520k | VaultContainer: `CrashSafe` (at every moment the active slot names a whole index whose records are there), `DiskMatchesOutcomes` (what was reported done is on the drive, what was reported failed is there entirely or not at all) and `ImplementsContents`. VaultList: `VaultsKept`, overlapping loads, the migration and failing writes lose or bring back no vault but the one they hit. FileList: `ShownIsCommitted`. UsbSetup: `SetupIsUsable`, `OnlyChosenDrive` |
| `Background`, MCBackground | 343k | OfflineQueue: `NoRerun`, `NothingLost`. SyncSocket: `NeverStranded` (while the user wants the connection, something is due that revives it), `SyncedWasSent`. DesktopShell: `NeverStuck` |
| `ClientSessions`, MCClientSessions | 710k | NativeSession: `NoTokenReuse`, and `RequestSettles` under fairness. WebAuth: `DeviceListExact`; `SecondFactorAsked`, where the page has WebAuthn no password alone signs in past a reported registration, in whichever tab. EmergencyAccess: `RevokedGetNoKey`, after a reported revocation the key goes out only through a call that had checked the contact before, or after an older list was stored over it. AppProtection: `SecretIsCleared`, only a render or a failing clipboard forgets a password |

Each component also has one type invariant; a bundle's `TypeOK` is that of the
component that moves. They are all proved (section 6); the runs
`TokenSessions_flush`, `Accounts`, `Objects` and `Vaults` check theirs too. The exceptions a property makes are in its comment: they are
the cases section 7 reports.

`ResumeKeepsParts` speaks of uploads within their 24 hours. Later, a sweep whose
abort *and* DELETE both fail still evicts the cache entry, and a handler can
refill it from a read that misses a part being stored; the model reaches this
with one process and it is why the property has the condition.

### Runs that find a violation

`TokenSessions_deleted`, `ObjectStorage_orphans`, `MultipartUploads_replicas` and
`AppProtection_render` each check one sentence of a comment or document against the
code; see [section 7](#7-where-the-code-and-its-comments-disagree).

## 4. Bounds

* Two or three request slots and two or three pairs, codes, uploads: the races
  in this code are between two handlers over one item; three slots are used where
  a count depends on the slots (SrpLogin, RecoveryCodes). With two pairs a second
  rotation of a token would lack a name for its child; that is why
  `RefreshSingleUse` also speaks of the requests about to mint. Names run out by
  construction; a handler that needs a name starts only when one is left
  (`MintAllowed`, `BumpAllowed`, `KeyLeft`), so that no handler gets stuck in the
  middle because of a bound.
* `MaxEpoch = 1`: one logout or deletion. The epoch only grows and is compared,
  and the proofs cover every value.
* `MaxAttempts = 3`, `MaxRecorded = 5` (10 in the code): the lock is reached and
  passed. Six months, four keys: two ticks of the rotation and every alignment of
  manual rotations with them.
* `MaxFaults`: three failing calls or restarts for the parts of an upload, two in
  the liveness run, one for the signing keys (two break it, section 7).
  `MaxExits = 2`: every replica leaves once, or one leaves twice.
* `Sizes = {1, 2, 3}`, `MaxFile = 2`, `Quota = 3`: an object too large for the
  tier, two that fit one by one and not together, two that fit together.
* Container: two files, one flow, four blocks, so that an addition meets the limit
  and a compaction makes room. Vault list: two local vaults, one of them with an id of the
  old form, one on a drive, two overlapping loads, one file. Files are added to one vault
  (`FileVaults`), and the run stops a behaviour at the first lost update that `VaultsKept`
  excepts (`~raced`): the property says nothing after it. USB: two drives that can claim each other's path, two screens.
* Queue: three operations, a limit of two (the trimming happens), two passes, two
  retries. Socket: three sockets, so that a replaced one can be replaced again.
  Shell: three processes, two restarts, two ports, one stop.
* Native session: two requests, two logins, one refresh each, one retry. Web: two
  tabs, two authenticators. Emergency access: two contacts, one request, two
  overlapping calls. Clipboard: two copies, two lock timers. As with the vault list, a
  behaviour stops where its properties except what follows (`staleWrite`, `unsaved`,
  `undone`).
* Symmetry is used where only invariants are checked. In a bundle two components
  are given the same values for the sets that are permuted, and nothing in the
  modules orders or chooses among them.
* Deadlock checking is on in the runs of TokenSessions and off where the model ends
  by running out of names, or where the component really stops (an upload that
  ends, a queue that is empty, a user who does nothing more).

## 5. Fairness

* `TokenSessions!FairSpec`: weak fairness of the steps of a handler. Its
  goroutine is scheduled and every call it makes has a deadline
  (`tokenContextTimeout`). No fairness on arrivals.
* `LeaderFairness`: time passes; the election loop, jobs and shutdowns
  proceed; a process that is down is started again by the orchestrator. Strong
  fairness of `Acquires`: Redis does not fail for ever, so of the SETNXs that
  took the lock some are answered. Strong fairness that a waiting trigger is
  taken, because Go's `select` chooses among ready cases at random. No fairness on
  triggers, crashes or stops.
* `UploadFairness`: handlers and the sweep of each process proceed,
  the 24 hours pass and the GC scheduler runs its job; faults are bounded, which
  stands for outages that end.
* `NativeFairness`: a request that was sent is answered or fails (axios has a
  time-out), and the steps of the refresh in progress go on. The refresh itself is
  posted without a time-out (`api.ts:389`): that the platform ends it is an
  assumption. Network errors are bounded by the retries of the code.

## 6. Proofs

`tlapm <module>.tla` for the eight modules whose names end in `Proofs`. One that
proves about a bundle extends its MC module, so the component theorems and the
bundle's type theorem share their lemmas. The theorems hold for any sets of
requests, tabs, files, drives, replicas and so on and for any bounds, from the named
assumptions of the modules: types of the constants, the "nothing" values outside the
sets they stand beside, finiteness of the sets that are counted (`SrpReqs`,
`RecoveryReqs`, `Insts`, `Files`, the keys of the object store), and three facts of the code: the lock lives for at least two periods
(`TTLAssumption`), a token lives shorter than a rotated key is kept and than the
ticker's interval (`LifetimesAssumption`), there is a drive (`UsbSetupAssumption`).

Every invariant, action property and refinement of the passing runs is a theorem, and so
are `OneTokenPerSession`, which needs three pairs to be violated, and the types of the
components of `Jobs`, `Background` and `ClientSessions`, which no run checks. Where a theorem needs a failure switched off, it has that as a
hypothesis; the constant has the same value in the run, and section 7 says what
happens otherwise. The inductive invariants are below; each proof has a lemma per
group of actions, and its parts are the conjuncts named here.

**TokenSessionsProofs.** `DurableInvariant` proves `SpecFlush => []DInv`, where
`DInv` adds to the types: `EpochsBounded` (every epoch stored, claimed or held is
one the column has had), `BegunOK`, `RefreshOK` (past the durable check a refresh
holds exactly the epoch of its token, which was current when it began) and
`FamilyOK`. `DurableCutOff` is not inductive alone: minting needs to know that the
epoch in hand equals that of the token, and that equality follows only because no
token is ahead of the column (`epochOf >= dbEpoch` from the check,
`epochOf <= dbEpoch` from `EpochsBounded`). From `DInv` follow `TypeCorrect`,
`RefreshCutOff`, `FamilyEpoch` and `MirrorBehind`, all with Redis flushed at any
time. `SingleUse` needs `SInv`: in addition a rotated token, or one about to be
minted for, has its revocation entry, so that the script refuses the next request.
It is proved for `Spec`, without flushes: a flush loses the entry, and then
the same token can be rotated twice.
`SessionsTracked` (`NoUntrackedSession`, with `~Lossy` and `~DbFaults`) uses `UInv`:
`Tracked`, pair by pair, is not inductive because a handler that ends throws its
list away. `TodoOK` says that the list is empty wherever that happens, `DeletesOK`
that a deletion drops the set of tokens only after it has marked the account.
`SessionsAreARegistry` proves the refinement from `SInv`, handler by handler: the
durable check is `Admit`, because a token not below the column is by `EpochsBounded` at it; minting is `Replace`, and the parent is not spent because of `SingleUse`'s
invariant; the increment is `EndAll`; every other step shrinks the set of the admitted
or stutters (`RegistryFrame`, `AdmittedShrinks`). `SessionHasOneToken` is inductive with
`SInv`. Both are for `Spec`: after a flush a token can be spent twice.

**GcLeaderProofs.** `LeaseInvariant` proves `IInv`, with time passing between any two
calls: a leader with n < TTL periods behind its SETNX or last EXPIRE, and not deposed by
a late call, owns the lock with at least TTL - n periods left (`LeaseLeft`). Counting what
is left is the strengthening: that the leader owns the lock does not survive the end of a
period by itself. A renewal or a release between its two calls owns the key or is marked
stale (`RenewsOwn`, `ReleasesOwn`), and one that is stale owns nothing (`StaleDeposed`):
this is what bounds the check-then-act, because a DEL that takes the lock from another
replica comes from a stale one, which marks its victim. `OneLeader` and
`LeaderTypes` follow. The bound is sharp: after TTL periods the key is gone and the
replica still leads.

**AccountsProofs.** `ResetBurnsOneCode`: `RecoveryInv` adds that burned codes stay
marked used, so the guarded UPDATE refuses them; generations that delete rows do not
unmark. `CodeReuseBounded`: the requests that hold a code and the acceptances so far
are together at most the requests. A request that selects the row of a code adds a holder, so
the invariant must say that a code accepted before has no unused row: `CodesOK`, and
`InsertersOK`, a generation inserts each row once, under a batch of its own. `LockBounds`: failures are counted from the moment of the lock
(`CountsFromLock`), and the request that causes the lock is no longer among those that
can fail late, which is why the bound is strict. `KeysOutliveTokens` and
`RestartsVerify` (one instance, `MaxFaults <= 1`) share `SigningInv`. A token may be
younger than the mark of its key after a failed INSERT, and then the retention counted
from the mark does not cover it. `YoungerOK` says that this took the one fault, that no
cleanup is due, and that either the key is still the one in use (so that the next tick
marks it again before cleaning) or the token is from before the instance's last start or
tick; `SweepOK` that while a cleanup is due a marked key in use was marked this month.
`AccountTypes` needs neither hypothesis, but the counting argument
`NumbersLeft`: every instance that is starting or rotating finds a free number, the
pigeonhole that `KeyLeft` keeps. `MisnamesOnlyRetired` needs neither hypothesis either
(`KidInv`): while it rotates, an instance's key is marked (`SignsWithActive`), so the key a
request has copied is its instance's key or a retired one of a lower number (`CopiesOK`);
that the number is lower rests on `NumberedInOrder`.

**VaultContainerProofs**, for one flow, compactions that are not cut off between the
rename and the header, and no lock in the middle of a flow (`OneFlow`).
`ContainerInv` relates drive, memory and flow: what memory points to is in the file
(`MemOK`), the header a flow is about to write leads to an index equal to memory's
(`FlowHolds`), callers were told what memory has (`ToldOK`), and in the window of a
compaction the new index fits (`WindowOK`: the block of the old index was dropped).
`ContainerCrashSafe` and `ContainerTellsTheTruth` are conjuncts of it. For
`ContainerImplements` every step maps to a commit of `VaultContents`, to a change of what
memory wants, or to a stutter: appends leave what a reader finds (`BlocksKept`), and
only `WriteHeader` changes the contents of the drive.

**VaultsProofs.** `ListKeepsVaults`: a load reads the storage in the step that sets the
list, and local vaults stored without a tag, which a load leaves out, are strayed ones
once a load is past the migration (`LoadsSeeTagged`); with this and the types `VaultsKept` is
inductive. `ScreenShowsDrive`: `ShownWithin` says, for each
point at which a user's flow waits, how list, memory and drive differ: only by the
files of that flow, in the direction of the operation, whatever a poll copied.
`SetupLeavesVault` and `SetupKeepsToDrive` (`~Disturbed`): `SetupHolds` says what each
step of a setup has left on its drive and that the path it holds is the mount point of
that drive; with distinct mount points, which are part of the types, a write by path
reaches no other drive. `Alone`: two screens do not set up one drive. `VaultTypes` has the
hypothesis `OneFlow`, because overlapping flows can make a compaction copy more records
than the container has room for.

**ObjectsProofs.** `ResumeSurvivesRestarts` (one process): while the upload is open an
acknowledged part is in the table and in the cache entry, and while there is no entry it is
in every list a handler has read to make one (`OpenKept`); until the client knows the
upload its one initiation is all there is (`Initiation`); the finalization that assembled
the object had all it needed (`Assembled`). With two processes the second clause fails,
and so does the property (run `MultipartUploads_replicas`). `ObjectTypes` holds for any
number of processes.
`AcceptedUploadsFitQuota`: the finalizations list key by key, each at its own pace, so none
of them sees a state the store was in. `QuotaInv` says that of *any* set of objects in place
whose uploads were accepted or may still be, one answers for the whole set (`Covers`): it
has not listed yet, or has counted what it has listed, or was accepted with the set within
the quota. That one is the upload that wrote last, because everything else in the set was
there before its listing began. For the set of all accepted objects it must have been
accepted, which is the property. The quantification over subsets is the strengthening: an
object that is deleted or replaced leaves a subset, which is covered already. That more
keys hold no fewer bytes (`BytesGrow`) is a fact about cardinalities.

**BackgroundProofs.** `ShellNeverStuck`: `UnderWay` refines the property by the kind
of call, because a call that spawns gives up when the manager is stopping, and then one
that stops or restarts must be there. `SocketNeverStranded` and `SocketSyncsWhatItSent`
are inductive together with the types. `QueueRunsOnce`: `OnePass`, unless `clear()` hit a
waiting pass there is one pass, it holds `isProcessing`, and nothing before it has
succeeded. `QueueLosesNothing` (`~SaveMayFail`): `StoredKept`, localStorage lists the
queue, position by position. Both arrays go through `filter` of Arrays, defined by the
positions that are kept: `SelectSeq` of the standard module is given to the provers without
a definition. The lemmas about `filter` (a sequence, what it ranges over, injective if the
array is) are proved from the cardinalities of initial segments.

**ClientSessionsProofs.** `RefreshTokensUsedOnce` (`~KillInRefresh`): the stored refresh
token is the current one of its session, unless the one refresh in progress has used it
and will replace or delete it (`StoreIsCurrent`, `OneRefresh`); `SessionsOrdered` keeps
the tokens of a login apart from all that are held before it has stored them.
`RevocationHolds` (no hypothesis): a contact whose revocation was reported is stored as
revoked or was put back (`Gone`); a contact that was never designated is on no list and only
its own designation is about it (`Fresh`), so nothing but an older list can make a revoked
contact active; and a call that goes on to give the key to a contact revoked when it was
checked found it put back (`Progress`). `SecretsAreCleared` (no hypothesis) adds that a copy whose
call has not set the clipboard is not on it. `DeviceListKept` is inductive with the types.
`PasswordAloneNeverSuffices` is an action property: the devices are read again in the step
that opens the session, and they are the ones registered by `DeviceListExact`.

Only model-checked: the liveness properties `LogoutEndsSessions`, `ElectionGoesOn`,
`UploadEnds` and `RequestSettles`, because the prover does not do fairness. None of the
modules has a RECURSIVE operator.

## 7. Where the code and its comments disagree

Each item names the property that TLC finds violated and the sentence it is about.
Those marked *run* are runs of `PROJECT.json`; the others are checked by hand, with
the module's specification, the bounds of section 4 and the constants named. In
the server part paths are relative to `usbvault-server/internal/`, in the client
part to `usbvault-app/src/`, unless they are complete.

### Server

* TokenSessions, `HonouredOnlyAtCurrentEpoch`, at
  `auth/token_epoch.go:71`. LoadUserTokenEpoch and the refresh path write the
  epoch they read back to the Redis mirror with an unconditional SET, so a value
  read before a logout can overwrite the one the logout wrote, and access tokens
  of the older epoch pass checkTokenEpochRedis until they expire;
  auth/token_epoch.go:4 says "A token is only honoured while its epoch matches the
  user's current epoch".
* *Run* TokenSessions, `DeletedAccountHasNoCurrentToken`, at
  `auth/token_epoch.go:66`. LoadUserTokenEpoch selects token_epoch without looking
  at deleted_at, and the handshake checked deleted_at in an earlier request: a
  login overlapping the deletion mints a pair that carries the bumped epoch;
  auth/account.go:61 says "This is the durable (Redis-flush-proof) guarantee that
  a deleted account can no longer mint sessions".
* TokenSessions, `ReuseRevokesFamily`, at `auth/jwt.go:595`.
  revokeTokenFamily revokes what user_tokens holds when it lists it; the winner of
  the race has revoked the parent but adds the child's jtis to the set only
  afterwards (jwt.go:570 and 577), so the child is not revoked; auth/jwt.go:435
  says "If concurrent reuse detected, revoke entire token family".
* SrpLogin, `SessionUsedOnce`, at `auth/srp.go:358`. The session is read
  with GET (line 350) and deleted with a separate DEL whose count is not looked
  at, so two concurrent verifications use one session; auth/srp.go:357 says
  "Delete session immediately to prevent replay attacks".
* SrpLogin, `DecoyOnlyForMissingAccount`, at `auth/srp.go:170`.
  HandleSRPInit sleeps the progressive delay (up to 32 s) inside a context of 5 s;
  from four failures on the SELECT at line 178 fails with the expired context and
  every error is treated as a missing user: an existing account gets a decoy it
  cannot log in with; auth/srp.go:196 says "user not found — returning decoy SRP
  init".
* RecoveryCodes, `CodeAcceptedOnce`, at `recovery/handlers.go:123`.
  HandleVerifyCode marks the matched row without the guard used_at IS NULL and
  without looking at the rows affected, so two concurrent requests both answer
  that the code is valid; recovery/service.go:77 says "Returns true if the code is
  valid and unused".
* RecoveryCodes, `ReturnedCodesStored`, at `recovery/handlers.go:32`.
  The DELETE and the INSERTs of HandleGenerateCodes are separate statements: a
  concurrent generation deletes rows of the first in the middle of its loop, which
  still answers 201 with codes that are not stored; recovery/handlers.go:18 says
  "Old codes are deleted and replaced with 10 new ones.".
* SigningKeys, `KidNamesSigner`, at `auth/jwt.go:268`.
  GenerateTokenPairWithEpoch copies the private key under jwtKeyMu and asks
  GetActiveKID later under another mutex: a rotation in between gives a token
  whose kid is not the key that signed it, and every validation of it fails;
  auth/jwt.go:49 says "CR-3 FIX: Mutex protects JWT key globals during key
  rotation".
* SigningKeys, `RotationTransparent`, at `auth/key_rotation.go:252`.
  GetVerificationKey looks only into the memory of its process and nothing reloads
  it, so a token signed by the replica that rotated is refused by the others until
  they restart (deploy/k8s/production-values.yaml:210 sets minReplicas: 3);
  SECURITY.md:878 says "No action required (transparent)" and line 881 "Refresh
  tokens work as expected".
* SigningKeys, `KeyOutlivesTokens`, at `auth/key_rotation.go:338`.
  RotateKey marks the key rotated before it stores the next one; when the INSERT
  fails the marked key goes on signing, and when the next rotation fails as well
  StartAutoRotation still runs CleanupExpiredKeys, which deletes the key in use 90
  days after the mark; auth/key_rotation.go:198 says "Old rotated keys remain in
  database for verification of previously-signed tokens.".
* GcLeader, `OnlyLeaderRuns`, at `gc/scheduler.go:195`. executeJob asks
  IsLeader once, before the job; a job that runs on when the leadership is lost
  overlaps the next leader's; gc/leader.go:13 says "Only the leader instance runs
  GC jobs to prevent duplicate work in multi-replica deployments.".
* GcLeader, `TriggeredRuns`, at `gc/scheduler.go:195`. HandleGCTrigger
  answers 202 with status triggered on any replica, and executeJob then skips the
  job without a word when that replica does not lead; gc/handlers.go:19 says
  "HandleGCTrigger manually triggers a specific GC job by name.".
* GcLeader, `IsLeader`, at `gc/leader.go:115`. The result of EXPIRE is
  ignored, so a renewal that did not happen leaves isLeader set while the key runs
  out and another replica acquires it; the same happens, without any lost call, to a
  replica that is suspended for the life of the lock; gc/leader.go:38 says "IsLeader
  returns whether this instance currently holds the leader lock.".
* GcLeader, `ReleaseDeletesOwn`, at `gc/leader.go:128`. GET and DEL are separate calls:
  the lock may expire and be acquired by another replica in between, and the DEL then
  deletes that replica's lock (an EXPIRE extends it in the same way); gc/leader.go:125
  says "Only delete if we still own it".
* ObjectStorage, `TierStorageHolds`, at `storage/s3.go:484`. The quota of a
  single-shot upload is checked against what S3 holds when the URL is signed;
  several URLs are granted against the same usage and nothing checks the sum after
  the PUTs; storage/s3.go:484 says "a tier cannot exceed MaxStorageMB regardless
  of how the bytes are split across files".
* ObjectStorage, `UnverifiedNeverPersists`, at
  `storage/multipart.go:579`. deleteFinalObject is called with the context of the
  request: when the HEAD failed because the client went away, the deletion fails
  the same way and the object stays; storage/multipart.go:499 says "an unverified
  (possibly oversized) object cannot persist.".
* ObjectStorage, `RejectsOwnObject`, at `storage/multipart.go:580`.
  deleteFinalObject deletes by key, and two uploads of the same file share the
  key: the rejection of one deletes what the other wrote there and was accepted;
  storage/multipart.go:456 says "we DeleteObject the just-assembled object".
* *Run* ObjectStorage, `ConfirmedKept`, at `gc/s3_orphan.go:102`.
  S3OrphanJob deletes every blob key whose id is not in the table blobs, and no
  code inserts into that table (s3.go:117 says so), so a confirmed upload is
  deleted; docs/adr/008-s3-blob-storage.md:70 says "Orphaned blobs possible if
  metadata delete fails (requires cleanup job)", that is that only blobs without
  metadata are orphans.
* *Run* MultipartUploads, `AckedPartsAssembled`, at
  `storage/multipart.go:468`. loadUpload returns the cached upload without looking
  at the table, so a replica finalizes from the parts it recorded itself and
  leaves out those another replica acknowledged; storage/multipart.go:6 says
  "resume survives server restarts" and "works across replicas".

In `TokenSessions_deleted` the refresh of such a token is refused; its access token
is honoured until it expires. `KeyOutlivesTokens` is the property the run
`Accounts` checks with one fault: it takes two (`MaxFaults = 2`). `RotationTransparent`
needs two replicas, `DecoyOnlyForMissingAccount` the real limits (10, 5 s, 32 s).

### Client

* *Run* `AppProtection_render`, `SecretIsTimed`, at
  `services/security/appProtection.ts:268`. The cleanup of the hook clears the
  clipboard timers, and it runs at every render of the root layout, whose
  configuration is a new object each time (`app/_layout.tsx:145`);
  `hooks/usePasswords.ts:175` says "route through copyWithAutoClear so the clipboard
  is wiped after the configured timeout". The lock itself changes `isAuthenticated`,
  which the layout selects, so a copy made shortly before it is among those forgotten.
  `AwayIsTimed` fails the same way: the lock
  timer is cleared too. With `ClipboardFails` a wipe that throws is not retried.
  `NoLockInFront`: becoming inactive and going to the background arm a timer each, and
  coming back clears only the second.
* VaultContainer, `AlwaysReadable`, and `CrashSafe` with `CompactBreaks`, at
  `usb-companion/src/services/vaultContainerService.js:393`: after the rename of a
  compaction the header still has the offsets of the old file until the application
  writes the new index and header. With two flows, or a lock in the middle of one
  (`Flows = {t1, t2}`, `LockInFlow`), `ImplementsContents` fails: flows of the
  orchestrator share one index and one header without a lock.
* OfflineQueue, `QueueWithinCap`: pending operations are not trimmed, so the queue
  outgrows its limit. `RemovedStaysRemoved`: a pass runs an operation the user
  removed after the pass selected it.
* SyncSocket, `DisconnectIsFinal`, at `services/syncService.ts:196` ("Does NOT
  trigger reconnection"): the online event reconnects after a disconnect.
  `OneLiveSocket`: a second `connect` leaves the first socket alive. `NoGap`
  (`MaxSeq = 3`): an event that arrives before the replay moves `_lastSequence` past
  the missed ones. `ItemKept`: an item enqueued while a flush runs is dropped when
  the flush saves the copy of the queue it began with.
* NativeSession, `LogoutSticks`: a logout that is cut off between the two entries
  leaves the refresh token, and the next request brings a session back. `SessionKept`:
  a refresh that began before a login fails after it and clears the new tokens.
  `AuthenticatedHasKey`: a lock during a login wipes the key before the login sets
  `isAuthenticated`. `NoTokenReuse` with `KillInRefresh`: the rotated token was not
  stored.
* WebAuth, `RemovedDeviceStaysOut`: the update after an authentication writes back a
  list read before the removal. `VerifiedThisSession` (two accounts): `fido2Verified`
  survives the registration of another account in the same tab. `SecondFactorAsked`
  without its exceptions: a page without WebAuthn signs in by the password alone although
  devices are registered, at `stores/authStore.ts:209`; a device whose write failed
  silently (`services/fido2Service.ts:52`) is reported registered and never asked for.
* VaultList, `MigrationSparesLocal`, at `stores/vaultListStore.ts:76`: an untagged local
  vault with an id of the form that `generateVaultId` gives out (`vault-...`, line 32) does
  not match `LOCAL_VAULT_ID_RE` and is purged; line 59 says "Vaults created by the app have
  IDs like "1710000000000-abc123xyz"" and line 74 "Keep only vaults that were created
  locally". When the write of the migration fails (`services/webStorage.ts:135`) its flag is
  set all the same, and the untagged vaults are not shown again.
* VaultList, `UsbNotStored`, at `stores/vaultListStore.ts:153`: a discovered vault
  without a path is stored with the local ones. `VaultsAlwaysKept`: a vault
  created before the first load replaces the stored list. `NoOrphanFiles`, at
  `services/webStorage.ts:185`: a save that is still running when its vault is deleted
  puts its blob after the clean-up has listed the files.
* FileList, `ShownIsCommitted` without `~opFailed`: memory keeps the change of a commit
  that failed, and the poll shows it until the vault is opened again. `ListedOnce`: the poll lists a file whose addition is not committed yet, and
  the addition lists it again. `RemovedNotShown`: a reload after the removal is committed
  and before the cache is written shows the file from the cache.
* UsbSetup, `OnlyChosenDrive` and `SetupIsUsable` with `Disturbed`: a drive that is
  ejected while it is set up leaves its path to another, which gets the container; one
  that is wiped before the screen finishes is reported ready.
* EmergencyAccess, `OverdueIsApproved`, at `services/emergencyAccessService.ts:394`
  and `:417`; `DeniedIsFinal`: an approval that loaded earlier overwrites a denial;
  `RevocationLasts`: a designation stores a list loaded before the revocation, and the
  contact is active again, at line 683; line 152 says "Prevents future access requests from
  this contact".
* DesktopShell, `CrashCountsOnce`, `OneCompanion`, `StopLeavesNone`,
  `RunningServes`: an unhealthy process is counted by the health check and by its exit;
  a call that looked for a port when it was stopped forks its process beside that of
  the restart, or after the stop has found nothing to kill; a process that exits
  between its health check and the report is reported running.

## 8. What is not modelled

* The parts of the server listed in section 9.
* FIDO2 and OIDC ceremonies of the server; only their common tail is
  (TokenSessions). First registration, RBAC, rate limits and the other filters.
* `RevokeKey`, `storage/lifecycle.go`, the circuit breakers: no caller in the
  server reaches them (the breakers' state is reported, nothing runs through
  them).
* The client's screens, translations and forms; services that no screen uses
  (session service, bulk operations, account switcher, notifications, updates, the
  setup wizard hook); lists kept by one callback at a time (audit entries,
  settings); the recovery phrase, which is random and stored nowhere. The password
  list is loaded, changed and stored around awaits without a guard, and promises
  nothing about overlapping changes; it is in the plan.
* The cryptographic core and its bindings, the word list, the Bloom filter, the
  document generators: computation over bytes and tables of data.
* Data: payloads, hashes, headers, log lines, sizes beyond small numbers.

Most of the TypeScript and JavaScript of the repository is of these kinds
(screens, tests' helpers, tables, bindings, generators): of its 111,493 lines the
modules cover 4,778, and the stateful server, in Go, is covered besides. A map of a
third of the lines would have to claim layout and data for a state machine.

## 9. Plan

Done: TokenSessions, SrpLogin, RecoveryCodes, SigningKeys, GcLeader, ObjectStorage,
MultipartUploads, the abstract SessionRegistry; the client's VaultContainer with its abstract specification
VaultContents, VaultList, FileList, UsbSetup, OfflineQueue, SyncSocket, DesktopShell,
NativeSession, WebAuth, EmergencyAccess, AppProtection; the proofs of section 6.

Next, in this order:

1. Proofs: further action properties (a revoked jti and a burned code stay so, the
   fencing of GC jobs by the lease), and theorems with weaker hypotheses:
   `SessionsTracked` under lost answers, `RefreshTokensUsedOnce` with a kill before the
   answer of the server.
2. The composition of NativeSession with SessionRegistry in place of its external
   server.
3. **Sharing**, **SyncState** (register and set merges against a reference
   definition), **Vault** (key rotation jobs, tier limit), **Billing** (webhooks
   late, twice and out of order), **AuditChain**, **RateLimit**, **Migrations**.
4. **PasswordList**: overlapping changes of the password list, two tabs.
