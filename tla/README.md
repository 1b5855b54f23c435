# Verification of zechinus

zechinus is an end-to-end-encryption framework for browser and mobile applications.
An application declares *stores* (`defineStore`), *aggregations* and *reactions*; the
framework encrypts every row under a data key (DEK) before it reaches the server,
caches what it decrypted, and lets several tabs and devices of one account write
concurrently, migrate old rows while they read them, and rotate the DEK under way.

These modules model the parts whose correctness depends on the order of things: what
happens between two awaits, in two tabs, before and after a lock, or when the driver of
a rotation dies. Cryptography is abstracted to "which key and which AAD": a row decodes
under the key and convention it was written with and under no other.

## 1. Inventory

| component | state it keeps | operations | interacts through |
|---|---|---|---|
| row codec (`blobCodec`, `legacyFallback`, `legacyMigration`, `versioning`) | none | encode, decode with candidates, convert | pure, apart from the `persistMigrated` callback |
| stores (`store.ts`, `rowStore.ts`, `blobStore.ts`) | the server's rows; the tab's cache slots | `get`, `set`, `mutate`, `createMany`, `list`, `create/update/remove`, `rotateEpoch`, `verifyRotatedRows` | `StorageAdapter`, `CacheAdapter`, `KeyProvider` |
| session (`config.ts`, key handles, `passkeyDekController`) | current and previous handle, user, unlock method, wraps | unlock (passkey, recovery, zero tap), lock, begin/complete rotation, consume a device's wrap | listeners; handles captured by calls in flight |
| rotation (`rotationMigration`, `rotationRetirement`, `dekRotationCoordinator`) | pending epoch, heartbeat, requests and wraps on the server | begin, migrate, verify, retire, complete; publish, poll, fulfil | rows, `KeyProvider.getPreviousCryptoHandle` |
| reactions (`onSourceWrite.ts`) | pending, rerun and failed keys, two timers, one call in flight | subscriber, debounce, dispatch, retry, flush, unsubscribe, change of user | cache slots the stores write; identity subscription |
| aggregations (`aggregation.ts`) | fingerprints, externals, last envelope, single flight, timers | `get`, `refresh`, invalidate, recompute, background retry | cache slots, its own stored row, other aggregations |
| React bindings | optimistic values, deduplicated fetches, range epochs | `save`, `reload`, `create/update/remove`, effects | the same cache slots |
| mobile cache | memory map, persistence chain | `set`, `clear`, `hydrate`, `flush` | device storage |
| storage adapters | none of their own | `get`, `put`, `putIfMatch`, lists | SQL |

What is hard here:

* every operation is a chain of awaits, and what it read before an await (handle, cache
  entry, row, hash) is used after it;
* tabs and devices share rows and nothing else; the only guard is the `content_hash`
  column and `putIfMatch`;
* reads write: they convert old AADs, old schema versions and, during a rotation, old
  keys, in part with nobody awaiting the result;
* `lock()` destroys key handles under the calls that hold them;
* the driver of a rotation can die at any point and the account's other sessions may
  not have heard of the rotation at all;
* timers, single-flight guards and identity changes meet in every order.

What makes each part correct: an acknowledged write is not lost and applied to what
was there (stores); a cached value is served only when the schema makes the row's content of it
(cache); reading changes nothing (codec); rows stay readable by the keys the account
still has (session, rotation); every written key is eventually handled, for its own user,
or its failure is visible (reactions); a published aggregate is one of its sources'
states, and catches up (aggregations). The full list of hazards, each at its line and with the
properties that cover it, is in `PROJECT.json`.

## 2. Modules

| module | models | state and actions |
|---|---|---|
| `RowCodec` | one stored row and the pure functions that write and read it | a row is a record `dek, aad, epoch, ver, data, hash`; `EncodeBlob`, `Decodes`, `CandidateDecodes`, `CandidateWrites`, `Reencrypted`, `Matches` |
| `RowCodecProofs` | lemmas about `RowCodec`: types, and the exact writes of a read | |
| `RowStore` | one row of a perUser or perKey store, with the tabs and calls on it | `pc[c]` is the await a call is at; one action per continuation and per answer of the server, plus `LazySave`, `NetworkError`, `Lock`, `Unlock` |
| `AtomicRow` | what `optimisticLock` promises: a value to which each call's transform is applied once, in one step | `value`, `committed` |
| `RowStoreProofs` | theorems about `RowStore`: types, the store with the lock, and what rows, caches and calls hold in any store | |
| `StoreRotation` | the rows of a keyed store, sessions that use them, the driver of a rotation | `engine` is what drives the migration (a store's `rotateEpoch`, or conditional batches), `driver` its phase, `listing` what it has yet to handle; `handle`, `previous`, `call`, `late` belong to the sessions |
| `StoreRotationProofs` | theorems about `StoreRotation` | |
| `PasskeyDek` | the `passkeyDekController` sessions of an account's devices, and the wraps, epochs and handshake requests they share | `op[o].phase` is the await a call of the controller is at; one action per continuation, plus `Lock`, `Reload` (a closed page), `Rejected` |
| `PasskeyDekProofs` | theorems about `PasskeyDek` | |
| `Aggregation` | `defineAggregation` over rows and other aggregations, `useAggregation` | `agg[a]` holds the closure variables, `get[g]` a call of `get()`; one action per answer, timer and outside event |
| `AggregationProofs` | theorems about `Aggregation` | |
| `AppSession` | the session the React bindings render, and the adapter and faults of a behaviour | `session` is the handle's number; `plan` says what may happen |
| `KeyedHooks` | `useKeyedStore`, `useKeyedStoreRange`, their registries of fetches, the calls of a perKey store that go past them | `hook[h]` is the last effect of a mounted hook, `fetch` the registries, `op[i]` a call |
| `CollectionHook` | `useCollectionStore` and the calls of a collection it makes | `view` is the mounted hook, `edit[i]` a call |
| `ReactBindings` | the composition: both hook modules over one session and one cache | `Lock` wipes both; `Internal` is what nothing outside decides |
| `ReactBindingsProofs` | theorems about `ReactBindings` and the two hook modules: types, waiting hooks, who fills the cache | |
| `ReactContentProofs` | theorems about what the slots of the cache say of the rows: extends `ReactBindingsProofs` | |
| `OnSourceWrite` | one reaction | variables have the names of the closure's (`pending` is `pendingKeys`, `run` is `inFlight` with the call's keys and `callUserId`) and one action per callback |
| `OnSourceWriteProofs` | theorems about `OnSourceWrite` | |
| `MC*` | small instances for TLC | |

`RowStore` and `StoreRotation` extend `RowCodec`; `KeyedHooks` and `CollectionHook` extend
`AppSession` and `ReactBindings` composes them. `RowStore` looks at one row in every
detail (each await is a state); `StoreRotation` looks at several rows and abstracts a call
to the instants at which it reads and writes them. The `map` of `PROJECT.json` names the lines each
definition stands for. Operators called `X_Y`, placed before a definition `X`, are
*mutants*: plausible mistakes in `X`, each of which makes a property fail.

### RowStore

`mutate()` is `BeginLoad`, then either `ServeHash` and `CacheHit`, or `ServeRow`,
`Decode`, `ConvergeWrite`..., `FinishLoad`; then `Encode`, `ServePut`, `PutDone`, or
`RetryPut` back to the load, or `GiveUp`. The server answers atomically and the call
acts on the answer later, so a lost answer (`NetworkError` at `gotPut`) leaves a write that took
effect and a caller that saw an error. A call keeps the handle it resolved at its start
(`held`); a load captures the previous handle (`fallback`). `Lock` turns both into
the zero key for closure handles (`destroy()` zeroes the bytes in place) and into nothing
for a worker, whose pending requests are never answered.

The schema is a conversion on the way in and out. `Parse` is `schema.safeParse(...).data`: it strips unknown
keys, fills in defaults, transforms. What is hashed and stored is parsed (`NextRecord`), but `mutate()` caches
its `next` as the callback returned it, beside that hash, and `set()` the parsed content (`Written`). A perUser store
(`PerUser`) parses what it hands out (`Given`), a perKey store parses what it reads from the server and hands out a
cache entry as it is (`AsLoaded`). So the cache of a perKey store stands for the row only *up to what the schema
makes of it*: `Readings(d)` is what a caller may be given for a row that holds `d`, one value in a perUser store, in a perKey
store whatever the schema takes for the same. The properties are stated with it, and disagreement 20 is the difference.

A store with the lock has one abstract state: `Linearizable` is the refinement of
`AtomicRow`, with `DataOf(row)` as the value and "the storage answered ok" as commitment; a transform is
applied to a reading of the value, and what the schema makes of the result is the next value.

### StoreRotation

The loop that calls `rotateEpoch`, `verifyRotatedRows` and
`checkRetirementEligibility` is the application's; the model runs them in that order until
the rows are eligible, and lets the driver die anywhere. With `engine = "batch"` it uses
`migrateRotationBatch` (`ListBatch`, `MigrateBatchRow`) until a batch is empty, then
`verifyRowsDecryptAtEpoch` page by page (`VerifyPage`). The two listings these engines are
given are the application's too: the model goes by the epoch stored with a row, and orders the
pages by `Rank`, as the comments on `RotationBatchIO` and `RetirementVerificationIO`
require. A rejected `saveIfMatch` ends the batch, which is `DriverDies`. A session may hold the old key, the
new one, or both; it may adopt the rotation late, even after the retirement.
The variable `quiet` is history: since the listing of the verification no session has
been able to write under the old key. `SafeRetirement` is stated under it, and the run
`StoreRotation_straggler` shows it is needed.

### PasskeyDek

A handle is named by the call that built it (`Current(o)`, `Previous(o)`), and the key inside
is the one that call unwrapped or generated; `alive` is what was built and not destroyed. `Adopt`
is `adoptDekHandle`. A call that awaits a ceremony, a request or a handle leaves a state at
each await, at which `Lock`, `Reload` or any other call of the plan may run. `"drive"` is the
application's rotation: it makes the calls of the controller and the coordinator in the order their
comments prescribe (guard, begin, rewrap, deliver, migrate, retire, complete). The
handshake is `StartHandshake` to `HandshakeActivated` on the new device and
`StartFulfil`, `ListRequests`, `FulfilOne` on a device that has the key. `account.keys`,
`account.oldest`, `stored` and `disturbed` are history for the properties.

A rejected call is over, but for the `confirm()` of `registerPasskey`: the words it belongs to are still
on screen, and the app may call it again. Its `finally` has zeroed the key by then and not the wraps made of
it (`ConfirmRejected`), so the call that succeeds goes on with `ZeroKey` (`Zeroed`).

The properties name what they must leave out, because the code does it: `AdoptedDead` (disagreement 5
below), `AnsweredStale` (6), `disturbed` (7), `Zeroed` (21).

### Aggregation

The synchronous functions of `aggregation.ts` are operators on a record `w` of the state they
share; `Commit` publishes the result and tells React. Everything between two awaits is one
action. `writing` separates the server's answer from the write-through of the cache. Timers may
fire at any moment, the external's TTL is a tick. The history `excused` marks an aggregation the
code itself left behind its sources since its latest run began, in one of the ways listed at its declaration
(disagreements 17 to 19, a late answer of a verification, a run that failed);
`IdleMeansCurrent` is about the others. `Excuse`, `LeftToRun`, `JoinsOldRead` and `Behind` keep that history. A row is
its content, so that a write may put back what was there before.

### AppSession, KeyedHooks, CollectionHook, ReactBindings

A value is the number of the call that wrote it, and its own hash. Call `i` is given `Passed(i)`, of which the schema
makes `i` (`Parse`): the server stores `i`, while `save()`, `update()`, `create()` and `mutate()` leave `Passed(i)` in the cache
and `set()` and `createMany()` leave `i` (`WrittenThrough`). The properties compare what the schema makes of an entry (`Content`). An effect runs some time after
what it depends on changed, once for the latest render, and belongs to the handle (`session`
number) it was rendered with; a fetch in a registry is shared by every hook that joins it.
`Lands` and `Refused` are the server's side of a call, `SaveResolves`, `WriteResolves`,
`ConflictResolves`, `Fails` the caller's. With the Supabase adapter a conditional write for
a null hash makes an INSERT and, refused, an UPDATE (`stage = "second"`). `crowd`, `behind`,
`disorder` and `strayed` are history: which calls met on a slot, whose range missed a write or outlived its
epoch (`Lingers`), whose list was edited by calls that overlapped or rows that changed elsewhere. The hooks promise
nothing useful in these cases and the properties are about the rest; what happens in them is in
section 4.

### OnSourceWrite

The promise chain of a handler call settles in two turns (`.then`/`.catch`, then
`.finally`), between which other promise callbacks, but no timers, can run. `dirty`,
`covered`, `unsynced` and `owed` are history variables for the properties.

## 3. Runs

| run | instance | what it shows |
|---|---|---|
| `RowStore_locked` | 3 `mutate()` of a perKey store in 2 tabs (1 or 2 attempts), absent, current, unhashed and blank rows and one from before the schema dropped a member, one tab locks; worker handles | `Linearizable`, `NoSpuriousConflict`, `LoadIsSnapshot`, `CacheNeverMasks`, `RowReadable`, `TypeOK` |
| `RowStore_plain` | 2 `mutate()` and a `set()` of a perUser store without the lock; closure handles | `SkipsOnlyNoOps`; `Settles` under fairness |
| `RowStore_reads` | 3 `get()` of a perKey store; rows of an old schema with a member the new one drops, a legacy AAD or both, under the old key; tabs with and without it | `ReadsPreserveData` |
| `RowStore_upgrade_lost` | 2 `mutate()`, a row of an old schema | expected violation of `NoLostUpdate` |
| `RowStore_lock_zero_key` | 1 `mutate()`, closure handle, lock | expected violation of `RowReadable` |
| `StoreRotation_rotate` | 2 rows, 2 sessions, one call each; both engines, batches and pages of one row | `SafeRetirement`, `AdoptersCanRead`, `NeverDemigrated`, `BatchKeepsWrites`, `HashBelongs`, `TypeOK` |
| `StoreRotation_straggler` | the same | expected violation of `RetiredRowsReadable` |
| `OnSourceWrite_react` | 2 users, 3 keys, 2 attempts, with and without `coalesce` | `NothingForgotten`, `ErrorVisible`, `UsersApart`, `FlushAttemptsAll`, `Synchronizes`, `TypeOK` |
| `OnSourceWrite_budget` | the same | expected violation of `BudgetPerBatch` |
| `PasskeyDek_sessions` | 2 devices, 3 passkeys, 6 sets of up to 6 calls: rotations one after the other or at once, a handshake, zero tap, recovery, a fresh account on two devices, where a rejected `confirm()` is called again; rejections, locks, a closed page | `HandedOutAlive`, `SavedBeforeUsed` (with `PersistBeforePromote`), `RotationKeyKept`, `TypeOK` |
| `Aggregation_diamond` | a row, an aggregation of it with an external, one of both; 11 plans of writes, failures, refreshes, invalidations, a tick, a lock, a second user | `EnvelopeHonest`, `LockedCacheEmpty`, `IdleMeansCurrent`, `ReactShowsState`, `TypeOK`; `Settles` under fairness |
| `ReactBindings_hooks` | 2 keys, 2 hooks on one and one on the range, or a collection of 2 ids; 22 plans of up to 3 calls, a fault, a foreign write, an unmount, a second session or user, both adapters | `LoadedAtRest`, `KeyCurrentAtRest`, `HashVouches`, `RangeCurrentAtRest`, `OnlyCallsFillLocked`, `ItemsCurrentAtRest`, `LockedReplacesShown`, `TypeOK`; `Settles` under fairness |

Bounds. Three calls in two tabs are the least with two calls that share a cache and a third that
does not, and two attempts are the least with a retry. A transform adds its caller to the
content, which is a set of callers, so a lost update leaves a trace, and every transform also adds `extra`, which the schema strips; `c2` empties it, so that the
content, and the hash, can return to an earlier value. Two schema versions, two keys and
the zero key make every conversion possible. One call per session suffices in the rotation
because a session's later call differs from another session's only in sharing its
handles, and `StoreRotationProofs` shows the same properties without a bound. In `OnSourceWrite` one user has two keys, so that a batch can be replaced by another, and the
other one; counters are bounded by the code itself (`maxAttempts`).

The three larger modules are bounded by a *plan*: the set of calls, and of faults, foreign writes and
ticks, that one behaviour may contain, chosen in `Init`. Within a plan every interleaving is
explored; the plans put together the calls that share state (two writes of one key, a
write and the range that contains it, a rotation and an unlock, a refresh and a failure), since calls that
share none do not meet. Four failures use up the three retries of an aggregation; the
diamond is the smallest graph in which an aggregation has a row both as its own source and
behind another one. Two devices are the least with a handshake, and two `drive` calls the least with a rotation on top of another.
`MaxSessions` bounds the number of unlocks of an aggregation's behaviour (2: one user after another);
the theorems hold for any bound. In `ReactBindings` a plan has fewer than 10 calls of a collection and
fewer than 98 sessions (`CollectionAssumption`, `PlanAssumption`), because values and rendered sessions are coded as
numbers with room for that many. For what section 5 proves no other bound of a run matters.

Deadlock is checked for `OnSourceWrite`, which never stops. The other modules have a finite
number of calls and stop when they have ended, hence `CHECK_DEADLOCK FALSE`; that
nothing stops too early is `Settles`, `LoadedAtRest` and `IdleMeansCurrent`.

Fairness. `RowStore`: the event loop runs every ready continuation and the server answers or
rejects (`WF(Step(c))`, `WF(LazySave(c))`); nothing is assumed of locks, unlocks and
callers. `Settles` is checked for closure handles only: with a terminated worker a call
never settles, by design of the worker protocol. `OnSourceWrite`: timers fire, a handler call
settles one way or the other, promise chains run on. Writes, flushes, user switches and
unsubscription are not fair. `Synchronizes` speaks of executions in which writes and
flushes pause, since each restarts the debounce window and gives a failing batch a new
budget; it makes no assumption that a handler ever succeeds. `Aggregation` and
`ReactBindings` have `WF(Internal)`: effects run, timers fire and requests are answered, in any
order; calls, faults, locks and writes of other devices are not fair. One condition on the union is
enough because `Internal` has no infinite behaviour inside a plan. `PasskeyDek` and
`StoreRotation` state safety only: a ceremony may wait for its user for ever, and the loop that
retries a rotation is not in `src/`.

## 4. Disagreements found

1. A locked store's lazy upgrade is an unconditional put and can erase an acknowledged
   `mutate()` (`rowStore.ts:103`; `RowStore_upgrade_lost`).
2. A closure handle destroyed under a call encrypts under the zero key
   (`keyDerivation.ts:253`; `RowStore_lock_zero_key`).
3. "Every row is already on the new epoch" at retirement is not implied by
   `verifyRotatedRows`: a call that began under the old key can write after it
   (`rotationRetirement.ts:117`; `StoreRotation_straggler`).
4. `maxAttempts` is documented per failing batch; a success does not reset the counter
   (`onSourceWrite.ts:328`; `OnSourceWrite_budget`).

The following were met while modelling and are contained in the models; the properties of
the passing runs exempt them by name, so that everything else stays checked.

5. `tryZeroTapRestore` destroys a stale entry's handle and then awaits `cache.clear()` inside the
   `try` whose `catch` is for an unreadable epoch: if `clear()` rejects, the destroyed handle is
   adopted and the call answers true (`passkeyDekController.ts:847-862`; `ClearFails`).
6. `fulfillPendingRotationRequests` wraps the DEK its caller holds without looking at
   `requestedEpoch`: a device behind a rotation answers with the retired key
   (`dekRotationCoordinator.ts:153`; `AnsweredStale`).
7. An unlock that ends between `beginRotation` and the rewrap replaces the promoted handle; the
   rewrap then stores the old key at the new epoch, and a lock during the unlock's
   await of the previous handle leaves that handle alive in a locked session
   (`passkeyDekController.ts:583, 734`; `disturbed`).
8. `addPasskeyToExistingDek` stores its wrap at epoch 1 (`:691`) and `persistForZeroTap` pairs
   the epoch it read with whatever key is current after the await (`:829`).
9. An optimistic entry of `useKeyedStore.save` carries the hash of the row it will replace
   (`useKeyedStore.ts:135`): `loadRevalidated` serves the unsaved data as the row's, and after a
   rollback caches it again, where every later revalidation confirms it (`crowd = "mixed"`).
10. `loadRevalidated` fills the slot of a hashed store after a lock (`store.ts:1631`), although the
    comment at `useKeyedStore.ts:163-165` says that a reload does not.
11. A range effect joins a fetch that began before the write whose epoch it renders
    (`useKeyedStoreRange.ts:155`; `behind`), and `save` moves no epoch at all.
12. A created item of a locked collection has no hash in the list (`useCollectionStore.ts:99`): its
    first update always conflicts, until the list is read again.
13. `refresh({bypassExternalsTtl})` and `invalidateChannel` during a run are undone by the
    run's own late external, contrary to `aggregation.ts:1319-1325`.
14. `migrateRotationBatch` is to be called "while > 0" (`rotationMigration.ts:143`), but a row that
    a session wrote under the new key carries no epoch, is answered `"already-migrated"` without
    a write, and is listed again for ever by a listing that goes by the stored epoch.
15. `cache.clear()` at a lock also empties the slot of the range epoch, so that the next session counts
    from 0 again (`store.ts:678-686`, `config.ts:27-38`). A range effect of the old session that is answered before React has
    rendered the lock leaves its rows with the old number (`useKeyedStoreRange.ts:158`); when the writes of the
    new session reach that number, `existing.epoch === epoch` (`:150`) takes rows of before the lock for current.
    `reload()` asks after its await only whether the user is the same (`:184`) and may leave rows of an
    earlier session likewise. Both are `behind`. The proof of `RangeShowsRows` met them: its invariant failed at these steps.
16. With an `expectedHash` of null `putIfMatch` accepts a row that has no hash (`types.ts:121-128`). A save that had nothing to
    roll back to and failed leaves its data in the slot without a hash, and the next save then replaces a row that was never
    hashed and that nobody has seen (`NeverLoaded`, exempt in `LockedReplacesShown`). Found by the proof of
    `SavesReplaceShown`.
17. A run's save that ends while the session is locked is stored and not published (`aggregation.ts:1103-1106`). When the same
    user unlocks again `ensureSubscribed` keeps the fingerprints of the session before (`:680`), and an aggregation that
    reads the one that was saved takes its own envelope for fresh.
18. A run that reads another aggregation awaits that one's run in flight whoever began it (`:958-964`): the result of one
    user's run is computed into another user's envelope and stored there, although the comment at `:1066-1070` says that content computed under a
    session that is over is never persisted. `get()` leaves a stale envelope to such a run likewise (`:1270, 1287`).
19. "A genuinely NEW change since the last persist still fails isFresh" (`:654-656`; the same at `:1174-1177`) is not so of a row whose content
    comes back while a run is in flight that read it in between: the debounce finds the last envelope fresh, and the run then
    stores the other content. `lastEnvelope` may also be one that an earlier read of `get()`, or a `get()` of another session, left there (`:1268`).
    17 to 19 are `excused`; the attempt to prove `IdleMeansCurrent` met them.
20. `mutate()` and the hooks' `save()`, `create()` and `update()` cache the data they were given beside the hash of what the schema made of them
    (`store.ts:816, 837, 1489, 1503`, `useKeyedStore.ts:146`, `useCollectionStore.ts:99, 128, 136`; `set()` caches the parsed value, `:794, 1469`). With a schema
    that strips, defaults or transforms, a perKey `get()`, the transform of the next `mutate()` and a mounted hook then
    see content the row never held, and every later revalidation confirms it until the slot is wiped or the row changes
    elsewhere (`store.ts:1628-1631`). perUser `get()` and `mutate()` parse again and are exact. `Readings` and `Content` are this exception: stated
    exactly, `LoadIsSnapshot` and `HashVouches` are violated by the first `mutate()` or `save()`.
21. The `finally` of `registerPasskey`'s `confirm()` zeroes the key also when a save rejected
    (`passkeyDekController.ts:670-672`). Called again it stores the wraps it made at first and activates a handle with 32 zero bytes, a key
    that no wrap holds: what that session writes cannot be read after the next unlock (`Zeroed`).

## 5. Proofs

All theorems hold for every value of the constants that satisfies the named assumptions of the modules.

`RowStoreProofs`: `TypeCorrect`, and for a store with the lock whose initial rows are
current and whose sessions hold no previous key (`LockedAndCurrent`; finding 1 shows why) `LockedInvariant`,
`LockedIsAtomic` (the refinement, step by step) and `ConflictsAreReal`. The invariant `IInv` says
that a hash, wherever it is kept (row, cache slot, call), determines the content it is kept
with (of a copy: what the schema makes of it), and that a row without a hash is still the initial one. Neither is visible in the
properties, and both are needed: an accepted `putIfMatch` compares hashes, and the transform ran on
content. For `ConflictsAreReal`, `Paid` adds that for each attempt a call has used up some other call
committed, and that a call about to be refused has such a commit it has not paid with yet.

Everything a read, a conversion or a write may store belongs to any set of rows
that is closed under the codec and the schema (`ClosedUnderCodec`, `NextRows`). Three such sets give the theorems: rows under
the account's keys (`RowsStayReadable` for worker handles; `OnlyZeroedUnreadable` says that with closure
handles disagreement 2 is the only exception), rows that say one thing to the schema (`ReadsOnlyConvert`), and rows with their own hash. With the
last, `ContentInvariant` holds of every store, locked or not, from initial rows whose hashes are their own:
the hash of every cache entry and of every copy a call holds is that of what the schema makes of its data
(`SameParsed`), for any idempotent `Parse`; that a `mutate()` caches data the schema never saw is part of the statement, not assumed away. `CacheIsHonest`, `LoadsAreSnapshots` and
`OnlyNoOpsAreSkipped` follow.

`OnSourceWriteProofs`: `ReactionInvariant`, and from it `TypeCorrect`, `KeysAreKept`,
`FailuresAreVisible`, `UsersStayApart` and `FlushIsComplete`. `IInv` adds to the
properties where a call's keys can be: failed keys exist only between calls, a rerun only behind
one, every call carries all that is unsynced, an exhausted budget waits with no timer.

`StoreRotationProofs`: every property the run checks, for both engines and any number of rows
and sessions, from what the rotation finds (`InitialRowsAssumption`: rows sealed under the
account's key by this code or older code, each with its own hash). `Sound` types rows, listings and everything
on its way to the store by what makes a row readable: old or new key, the new epoch only under the
new key, its own hash. `TypeCorrect`, `HashesBelong`, `AdoptersRead` and `NoDemigration`
follow from it and from the shape of the writes of a read (`CandidateWritesShape`: a row made canonical,
then one under the current key). `BatchKeeps` needs `UnhashedFixed` besides: a conditional write compares
hashes, and null equals null, so all unhashed rows of a key, stored, listed or on their way, must have the content
the rotation found. `RetirementIsSafe` rests on `Quiet`: once the driver cannot go back to listing
because of a row it has seen, and `quiet` holds, every row is under the new key and no session holds or carries the
old one. It is needed because a session with both keys may write under the old one
(a legacy row is made canonical first), but only while some row is still old.

`PasskeyDekProofs`: `TypeCorrect`, `HandlesAlive` and `PersistsFirst`, for any devices, passkeys, keys and
calls. A call that persists first uses the key of its wrap, or the zero bytes of a `confirm()` called again (`GivenKey`);
that is what `PersistsFirst` says of the handles in a session, after any number of rejections. `PInv` adds to `HandedOutAlive` where a handle can be: the phase a call is at says which handles it
has built, answered for and still owns (`Ready`: `Domains`, `CallsRun`, `Answered`, `Placement`), so that no two calls own
one handle and nothing destroys what another adopted; `RestoreHolds` says that the handle a zero-tap restore has built
is still alive at the await after which it adopts it (disagreement 5 is about what happens there).

`AggregationProofs`: `TypeCorrect`, `StoredIsComputed`, `WipeIsFinal` and `ReactFollows`, for any set of
aggregations over any stores, any number of subscribers and sessions, where an aggregation's source is itself over
rows only (`AggregationAssumption`). The synchronous functions call one another on a working state, so each has
one lemma: it leads from a `Good` state to a `Good` one and `Keeps` what the aggregation owes React until `Publish`.
`Good` says what a run in flight has read (`EnvelopeHonest` is about what it persists), that the external it holds is one
its channel has had, that it asks its upstream once and that a hook's verification is made once per session. The
counters of activity are cardinalities of disjoint unions.

`ReactBindingsProofs`: `Invariant`, and from it `TypeCorrect`, `NoHookLeftLoading` and `LockedOutIsNotFilled`. A hook that waits has a fetch in the registry that it joined in its own session
(`HookWaits`), an effect that fills the cache belongs to the user who is signed in (`FilledBy`), and the activity counter
moves with the registry one fetch at a time (`Counted`). None of them is visible in the properties, which speak of rest or of a user who is not
signed in: they are what every unmount, lock and late answer in between has to preserve.

`ReactContentProofs`: the properties that compare a slot of the cache with the server. They speak of rest, and
their invariants say what each call under way carries, and so what it leaves when it lands, is refused, fails or is taken back.

* `HashesVouch` from `VouchInv`: what a call may put back into a slot is honest (its hash is that of what the schema makes of its data, or none), and so is the slot,
  but for the optimistic entries of a save or update under way. That null is no hash (`Null` is not among `Values`, `None` not among
  `ItemValues`) is assumed.
* `ListShowsRows` from `ListsTrue`: the list a call found shows the rows of before the call, so that the call's own edit of
  that list shows those of after it and its rollback those of before it; a `list()` under way runs alone, for an empty slot.
* `KeyShowsRow` from `VouchInv` and `KeysTrue`: a load carries what the row holds, a save what it held, a landed write itself; a write
  is alone at its key; a key that heals has a load under way that will fill its slot. The first invariant is needed because
  a load that compares hashes serves the entry it began with.
* `SavesReplaceShown` from `VouchInv`, `Provenance` and `RowsListed`: what a conditional write accepts by its hash was shown, because that hash
  vouches for the data beside it. For an entry without a hash the invariant says where its data came from (`Kept`,
  `Known`): only rows of before the first call have none, and a load that made the entry has shown such a row.
* `RangeShowsRows` from `RangesTrue`: what a fetch or a reload has read are the server's rows, or the user is `behind`, or a landed
  write will still move the epoch; a slot that shows other rows is of an older epoch, and every hook whose effect has run for the
  new one waits for a fetch or has failed (`Looked`). No hook has seen an epoch beyond the counter but before a
  lock (`KnownEpoch`), which is where disagreement 15 was found.

Only model-checked:

* liveness (`Settles`, `Synchronizes`): fairness and ENABLED are outside the prover's reach, as is induction over data;
* `RotationKeyKept` and the second half of `SavedBeforeUsed` in `PasskeyDek`: they depend on each passkey being
  used on one device, which is the plans' and not the code's;
* `IdleMeansCurrent` in `Aggregation`: it compares the envelopes of a graph with the rows at rest, and its invariant has to
  say for each phase of each run, read and verification what it will still repair. See the plan.

## 6. Not modelled

Cryptography, compression, wire formats and serialization; the SQL of the storage adapters (what
a statement does to a row is the server's side of the modules); WebAuthn ceremonies; the native
modules; rendering; the pure expression language of `aggregate/`; label dictionaries and schema
fingerprints.

* `useStore` takes the steps of `useKeyedStore` without the registry; `usePasskeyDek` only subscribes;
  `useAutoLock` is a timer that calls `lock()`, which may happen at any time in every module.
* `rotateEpoch` and `verifyRotatedRows` of perUser stores and collections have the steps of
  the keyed ones and are not modelled again.
* The schema is taken to be idempotent (`RowStoreAssumption`): `set()` and `createMany()` parse twice. Content that it rejects is not
  modelled; there `validateRead` or `validateWrite` throws before anything is stored, and the call ends as with `NetworkError`. In the React
  modules the rows that are there at the start conform to the schema as they are.
* `confirm()` of `registerPasskey` is called again only after it rejected. A second call after one that succeeded, and two calls at a time, would
  likewise find the key zeroed; the words are not shown then.
* `Aggregation` has an envelope's `v` equal to `def.version`: `isFresh` (`aggregation.ts:722`) finds an envelope of another build stale, and
  `fingerprintsUnchanged` (`:1057-1065`) does not compare `v`, so a new build that computes the same data keeps an envelope of the old `v` and computes again at every `get()`.
* A fetched external that has the value it had counts as unchanged. In the code its new `fetchedAtIso` differs (`:1064`), so that
  the envelope is saved and published once more, with the same data.
* Of the failures of an aggregation the model has a run's source, compute or save that rejects before it took effect (`Throws`). Not modelled:
  a source that rejects while an upstream's `get()` of the same run is pending (`Promise.all`, `:924-1008`: the run fails as in `Throws`, while that
  `get()` goes on by itself), a save that was stored and whose answer was lost, a `get()` whose read of the envelope fails (`:1264`: its caller sees the error), and a verification
  that fails (`:1280-1286`: it is logged, and what it had not learned counts as fresh until a write is seen).
* A `get()` whose envelope arrives when the session is locked verifies nothing in the model; the code still asks for the hashes (`:1280, 767-850`) with
  the identity it captured. The answers set fingerprints, not the cache or the state React shows, as do the late answers of a verification that a lock overtook,
  which are modelled.
* The mobile cache (`hydrate` against `set` and `clear`, its chain of writes to the device) is below the
  cache contract the other modules use. Its hazard is listed without a property.

## 7. Plan

1. `AggregationProofs`: `IdleMeansCurrent`, with `excused` as the exception.
2. `PasskeyDek`: `RotationKeyKept`, under a named assumption that no two devices use one passkey at a time.
3. The mobile cache as a refinement of the cache contract.
