# Formal models of Defer

Defer is a local-first read-later application. A *vault* is a set of saved
items, encrypted on the devices that share it; every change is an *event*. A
device stores its events, shows them at once, queues them, and pushes them to a
*relay*, which gives each event a sequence number (`seq`) and hands the log to
the vault's other devices. This directory holds TLA+ models of that program,
the TLC runs that check them and TLAPS proofs about them. All source paths
below are relative to the repository's root.

A definition `Name_Variant` that stands just before `Name` is a mutated form of
it: replacing `Name` by it must make a run fail. `PROJECT.json` says which run
and which property each of them breaks; nothing else uses them.

## 1. The system

| Part | State | Operations | Talks to |
|---|---|---|---|
| **Vault relay**, one Durable Object a vault (`apps/relay/src/vault-relay.ts`) | storage keys `event:<seq>`, `nonce:*`, `token:*`, `device:*`, `meta:nextSeq`, `meta:initialized`, `meta:pendingVaultDeleted`, `meta:scheduledFor`, `meta:tombstone`; the runtime's alarm | `POST /events`, `GET /events`, register and revoke a device, schedule and cancel the deletion of the vault, `alarm()` | devices by HTTP, the runtime's alarm scheduler |
| **Rate limits** (`apps/relay/src/rate-limits.ts`, `#enforceRateLimit`, `middleware/pairing-rate-limit.ts`) | two token buckets in the vault's storage, one for each address in the memory of a Worker's isolate | a request consumes from one or two | every handler of the vault, the pairing routes |
| **Commands** (`apps/desktop/src/vault/commands.ts`) | none | `save`, `delete`, `archive`, `like`, ...: store, apply, enqueue, start a flush | storage, projection, queue |
| **Pending-event queue** (`packages/core/src/pending-event-queue`) | entries pending / in flight / failed, written through to a setting | `enqueue`, `peek`, `markInFlight`, `markSynced`, `markFailed`, `hydrate` | commands, flush |
| **Outbound flush** (`packages/core/src/outbound-flush`) | the batch of each running `flush()` | send batches until the queue is empty; stamp the answers | queue, relay, `events` table |
| **Inbound replay and scheduler** (`packages/core/src/inbound-replay`, `apps/desktop/src/vault/inbound.ts`) | the cursor setting, the pull in progress, the trailing trigger | pull pages, store and apply their events | relay, `events` table, projection |
| **Projection** (`packages/core/src/projection`, `projection-store.ts`) | items, items by canonical URL, tags, devices, deletion state | `apply(state, event)`, `hydrate` | commands, inbound replay |
| **Search index** (`packages/core/src/search-index`) | tokens by item, items by token | `apply`, `search` | fed with the projection's events |
| **Onboarding and restore** (`create-vault.ts`, `restore-vault.ts`, `App.tsx`, `relay-config.ts`) | settings: key, vault id, device id, name, token | create, restore, launch | relay (claim), settings |
| **Sign-out and wipe** (`sign-out.ts`, `vault-wipe*.ts`, `vault-deletion-scheduler.ts`) | the setting `pendingRevocation` | sign out, wipe on `VaultDeleted`, schedule and cancel the deletion | relay (DELETE), queue, settings |
| **Pairing, the sponsor's half** (`pairing-existing-device.ts`, `pairing-token-store.ts`) | a sealed payload in KV with a TTL | register the new device, seal, post | relay, pairing routes |
| Router, wire schemas, cryptography, storage, UI | no protocol state of their own | | |

### What is hard in it

* **The relay's handlers interleave at their request bodies.** What was read
  before `await request.json()` (is the vault initialised, is the token valid)
  may be stale when the handler writes.
* **Awaited storage writes are separate.** An eviction may fall between the
  `VaultDeleted` append, `deleteAll()` and the tombstone, between the three
  writes of a cancel, or between the pending deletion and its alarm.
* **Alarms are delivered at least once, and late**: also after the deletion they
  belong to was cancelled, and another one scheduled.
* **Answers get lost.** A push may have been stored although its sender saw it
  fail; the relay refuses a batch as a whole for one duplicate.
* **Several flushes at once** share one queue, because every command starts one
  and waits for none.
* **An event is applied twice**, when the user gives it and when it comes back
  with the log, between other devices' events.
* **Hand-kept indexes** (items by URL, tags, tokens) are updated by difference.
* **A clock may be set back** under a token bucket that stores its last refill.
* **Settings are written one by one**, and a wipe writes empty strings where the
  code that reads them looks for `undefined`: a process that dies between two
  writes leaves a mixture, which the next launch opens.
* **Screens do not wait for what they began.** A restoration, a pairing and a pull
  go on when the user has left for another vault, and their answers are acted on.
* **A sign-out is a `DELETE`** whose answer may be lost, next to a push that may
  arrive after it.

`PROJECT.json` lists these one by one under `hazards`, at the lines where they
bite, with the properties that would notice.

### What makes each part correct

* Relay: a gapless append-only log; no client event twice; tokens and devices in
  correspondence; one deletion at a time, carried out unless cancelled, final
  once carried out.
* Rate limits: never more than the limit in any window, refusals are free, a
  promised retry succeeds.
* Queue and flush: no event is lost, every stamp is the relay's, an entry is
  owned by exactly one flush, every flush ends.
* Sync: the cursor skips nothing, devices converge on what the log says.
* Projection and index: the derived maps are what the items say; a save shows.
* Lifecycle: a vault and its key stay together; a device that was removed stays
  out; a sealed payload belongs to a registered device; a sign-out that the relay
  carried out is on record at the device; the relay knows the token of an open
  vault.

## 2. Modules

    EventLog  <---implements---  VaultRelay --> VaultRelayProofs --> VaultDeletionProofs
              <---implements---  OutboundFlush, DeviceSync (by their proofs)
    RateLimits --> RateLimitsProofs
    PendingEventQueue --> PendingEventQueueProofs
        +--> OutboundFlush -----+--> DeviceSync --> DeviceSyncProofs
    Projection -----------------+
        +--> SearchIndex --> VaultProjection --> VaultProjectionProofs
    OutboundFlush --> OutboundFlushProofs
    DeviceLifecycle --> DeviceLifecycleProofs

(an arrow points from what is extended to what extends it). `MC<Module>`
extends a module with the definitions its configurations need, and each
configuration is named after its run.

**`VaultRelay`** has one variable per kind of storage key, the alarm, and what
the object holds in memory. A handler with a body is an arrival (`PushArrive`,
`ControlArrive`), which makes the checks that come before the body, and a commit
(`PushCommit`, `RegisterCommit`, `ScheduleCommit`, `CancelCommit`) or a
`Refuse`; `Revoke` reads no body. Consecutive storage operations are one action,
because the runtime delivers no other request while one is awaited; but an
eviction can fall between two awaited writes, so such a handler is split there,
`cont` names the write that is due (`arm` after a schedule; `drop`, `disarm`
after a cancel; `wipe`, `bury` in the alarm), and no other handler runs
meanwhile. `Crash` clears `cont` and all memory and keeps storage and the
runtime's alarm. `FireAlarm` takes a due alarm and sets `firing`, which stays
set until a handler completes: that is redelivery.

**`EventLog`** is what the relay promises of a vault: a status (`unborn`,
`live`, `dead`) and a log that grows by batches of new client events, and that
ends by its own last event, if the last thing its devices said about deletion
was to schedule it. `VaultRelay` implements it with `status <- Status` and `log`
the stored events, empty as soon as the vault is wiped.

**`RateLimits`** counts tokens in units of `1/Whole`, which makes the refill
per millisecond an integer (600 a minute is a hundredth of a token a
millisecond). `current`, `elapsed`, `refilled`, `allowed`, `retryAfterMs` are
the lines of `consumeOne`; `Admit` and `Refuse` are `#enforceRateLimit` at the
vault's endpoints and `pairingRateLimit` at the pairing ones, whose bucket
`Recycle` forgets with the isolate that held it. `time` is real time and `back`
how far `Date.now()` was set back against it. `Watch` begins to count one bucket's
admissions at any moment, so that a property about
`window` is a property about every window.

**`PendingEventQueue`** holds the queue's operations on a sequence of entries
(`Select` keeps those that satisfy a predicate, in their order, as a function of
positions rather than a recursion, so that it can be proved about; `MCOutboundFlush`
assumes it equal to `SelectSeq` on small queues, which TLC evaluates);
**`OutboundFlush`** the rest of the way to the relay, per device: `Emit` and
`Enqueue` are `VaultCommands.#emit` (append the row; enqueue, and start a
flush), and a flush goes through `peek`, `sent`, then `stamp` / `duplicate` /
`failed`. `FlushGivesUp` is a push whose sender saw it fail and which may still
arrive (`LateArrival`). `Restart` is the death of the process and the next
launch.

**`Projection`** translates `apply(state, event)` with every reducer,
**`SearchIndex`** `SearchIndex.apply`; **`VaultProjection`** feeds both with any
event, any number of times, in any order.

**`DeviceSync`** extends `OutboundFlush` with the commands that the detail pane
offers for the items a device shows, with `InboundScheduler` and
`InboundReplay.pull()` (`triggerNow`, `PullAnswered`, `ApplyNext` one event at a time, `PageDone`), and with the
projection each device keeps and rebuilds (`Reopen`).

**`DeviceLifecycle`** is one installation of the app. `settings` is its settings
table, where `None` is a setting that was never written and `Blank` (`""`) one that
was wiped; `table` is its events table, as positions of the vaults' logs. A handler
that writes several settings puts them into `writes`; `Write` does the next one and
`Crash` may fall before any of them; `Open`, `RevokeSelf`, `SignedOut` and
`PageDone` are what follows the last one. `screen` says which handlers the user can
start. `net` holds the requests on their way: one may `Arrive` and be heard of or
not, or get lost; `mine` is true as long as its sender still waits, which a crash
ends. A pull whose page holds the vault's `VaultDeleted` starts `executeVaultWipe`,
and the page's cursor is written behind it, as `makeInboundReplay` does. `deletions`
are the positions of a log's `VaultDeleted`s: one that the alarm stored just before an
eviction has pushes behind it, and the redelivered alarm stores another, so that none
of them need be the last event. `Answer`
is what the relay says, as the handlers of `VaultRelay` do, and `OtherRevokes`,
`OtherPushes`, `VaultEnds` and `Expire` are what other devices, the alarm and the
pairing store do meanwhile. `torn`, `overlaid` and `opened` are history that one
property each excepts (see below).

### Abstractions

* Ciphertexts and signatures are left out: the relay never looks into them. The
  pre-signed `VaultDeleted` is represented by the fields its checks read.
* Names, URLs, nonces and tokens are model values. A device mints one token
  (`Owner`).
* The relay in `OutboundFlush` and `DeviceSync` is the log of `EventLog`: a
  batch is stored as a whole or refused as a whole. That the relay is such a log
  is what `ImplementsEventLog` says; that these modules rely on no other relay is the
  theorem `LogIsEventLog`.
* The desktop's storage operations settle without returning to the event loop,
  so what a flush or a page does between two network calls is not interleaved
  with other work of the device; the death of a process can still fall at every
  await. The storage port is taken as durable, as its interface says.

## 3. Runs

The bounds are constants of the modules (`Max*`) and appear only in guards;
requests in flight are bounded by `Slot`, `flush()` calls by `Flush`.

| Run | Question | Bounds |
|---|---|---|
| `RelayRaces` | Do the log, the nonce index, the token registry, the pending deletion and the tombstone stay consistent when requests race? | 2 devices, 2 concurrent requests, 2 nonces a device, batches of 2, log of 3 client events, one eviction at *any* point |
| `RelayReschedule` | Is a deletion carried out only after a window, is a cancelled one never carried out and a deleted vault never revived, and is the object the abstract log? | as above, batches of 1, log of 4: schedule, cancel, schedule again and one more event |
| `RelayLive` | Is a pending deletion carried out or cancelled in the end? | 2 devices, 1 concurrent request, log of 3, one eviction |
| `RateBuckets` | Does the limit hold, are refusals free, is `Retry-After` kept? | capacities 2, 3 and 1, 5 ms, clock set back by up to 1, the isolate recycled any number of times |
| `OutboundBatches` | Two devices, two flushes each: stamps and ownership | 2 events a device, batches of 2, pushes refused, 1 restart |
| `OutboundSingles` | One event a push, with lost answers and late arrivals and restarts at every await of a flush: is an event lost, and do flushes end and events arrive? | 1 device, 3 events, 2 flushes, 2 restarts |
| `OutboundLostAnswer` (violation) | Is an event ever lost? | 1 device, 2 events, one lost answer |
| `ProjectionReplay` | Do the derived maps agree with the items under every sequence of events? | 3 items, 2 URLs, 1 tag, all 14 event types; no bound on the length |
| `SyncReopen` | Does the cursor skip nothing, and does a reopened device show the log? | 2 devices, an event each, pages of 2, refused pushes, 1 restart at any point of a page |
| `SyncLive` | Does every event the relay stored reach every device? | 2 devices, an event each, pages of 1, 1 restart, a late request |
| `SyncOneDevice` (violation) | Does a synced device show what the log says? | 1 device, 3 events |
| `InAndOut` | Do key, vault, token, cursor, events table and the relay's registry stay together while a device creates, restores, pairs, pulls, signs out and is wiped? | 2 vaults, 4 device ids and tokens, logs of 2 pushes, 3 requests on their way, 1 crash at *any* write |

### Why these bounds are enough to be interesting

Two concurrent requests are what a stale read needs: one reads, the other
writes. Two devices give a token that is revoked while its request waits, and a
sponsor and its new device. A log of three holds a schedule, a cancel and the
alarm's event; the reschedule run needs a fourth. One eviction interrupts each
multi-write handler once, and redelivery then runs it again. For the outbound
path, three events and two flushes make a flush find an entry that another has
in flight, with one more behind it; two restarts let a late request arrive
after its event was sent again. The projection's state is finite, so its run
covers sequences of every length. The small buckets keep the code's proportions:
requests accrue twice as fast as events, a token takes several milliseconds, and
a second is longer than that. In the lifecycle
run, two vaults are what a mixture of settings needs; four ids give the creator
its device and token and a restored or paired device its own, or the token that a
launch mints; a log of two has an event after the cursor of the first, and the
`VaultDeleted` behind an event; three requests are a sign-out's push and `DELETE`
next to an older pull, or the push of a device that is removed meanwhile. The
invariants of this run are proved for any number of each.
`OutboundBatches` does not list `NoEventLost`: with no late request it follows from
`StampsAreRight` and `SyncedIsStamped` (an event that left the queue has a seq, and
the relay has that event there); `OutboundSingles` and `OutboundLostAnswer` are where
it says something of its own. Two
devices with an event each never untag, unarchive or unlike what they tagged:
that needs a third event, and is left to `ProjectionReplay`.

### What the runs leave out, and why

A crash point is left out of a run where the code is known not to keep the
property there. Adding it to the configuration shows each of these:

| Left out | In | What happens |
|---|---|---|
| `"bury"`, `"wipe"` in `CrashPoints` | `RelayReschedule` | after `deleteAll()` and before the tombstone the object is empty, and the next push starts a new vault under the same id (`DeletionIsPermanent`); after the `VaultDeleted` append and before `deleteAll()` the vault goes on behind its own deletion (`ImplementsEventLog`) |
| `"drop"` | `RelayReschedule` | the `Cancelled` event is in the log and the deletion is still pending: it is carried out (`CancelledIsNeverDeleted`) |
| `"arm"` | `RelayReschedule`, `RelayLive` | the deletion is pending and nothing is armed: it never happens, and a new schedule is refused (`PendingHasAlarm`, `PendingIsResolved`) |
| `"emit"` in `FragileAt` | all outbound runs | the process dies with the event stored and not queued: no device but this one ever sees it (`NoEventLost`) |
| `"late"` in `Faults` with batches | `OutboundBatches` | the run `OutboundLostAnswer` |
| `"sent"`, `"stamp"`, `"duplicate"` in `FragileAt` | `OutboundBatches`, `SyncReopen` | an event the relay has leaves the queue as a duplicate and stays unstamped; `INSERT OR IGNORE` keeps the row without a seq, and a restart replays it last (`SyncedIsStamped`, `ReopenedShowsLog`) |
| two first pushes that both carry `init = FALSE` | allowed in every relay run | the second is accepted with a token nobody registered; no property claims otherwise |
| a control request that waits for its body while its device is revoked or the vault dies | allowed in every relay run | it still commits; a registration can put a token beside a tombstone, where it authorises nothing |
| an alarm on its way when its deletion is cancelled and another scheduled | allowed in every relay run | it carries the second one out at once; `WindowElapsed` claims only that the window of *some* deletion was over |
| a restore that is answered when another vault was created or opened in the meantime | excepted by `overlaid` in `NoForeignKey`, until a vault is opened or left in full | it overwrites the settings one by one, and a crash leaves the id of one vault with the key of the other |
| a restore or a sign-out that died between its writes | excepted by `torn` in `OpenIsAccepted` | the token that the relay has accepted is lost, and the next launch mints another |
| a second vault on one installation | excepted by `opened` in `FirstVaultIsCovered` | a sign-out keeps the cursor and the events table, a wipe the events table: the cursor of the first vault makes the installation skip the first events of the second, and a launch replays the rows of both |
| a launch after a wipe | allowed in `InAndOut` | it meets empty strings where `loadVault` looks for `undefined` and opens the inbox of a vault `""`; the queue's empty string makes the first command throw. No property claims that the welcome screen shows |
| `resumePendingRevocation` | never called by the app, so no action | a sign-out that died is on record (`SignOutIsResumable`), and nothing resumes it |

Deadlock is not checked in runs whose system may really stop: when the bounds
are used up and nothing is pending. In `RateBuckets` some request is always
possible, and deadlock is checked.

### Fairness

* `RelayLive`: time passes (`Tick`); the runtime delivers a due alarm and the
  object handles it (`FireAlarm`, `AlarmNoop`, `AlarmEmit`): the platform's
  at-least-once delivery; a handler that began its writes goes on. Clients owe
  nothing: no push, no cancel is assumed to happen.
* `OutboundSingles`: an emit that began goes on, and each running flush takes
  its next step: the event loop runs, and `fetch` settles one way or another.
  Nothing makes the network carry a late request. `EventsArrive` assumes beside
  that that no push fails and no process dies, because nothing retries before
  the next command; it is about events enqueued while another flush is running.
* `SyncLive`: the same per flush, the interval triggers a pull when none runs
  (`setInterval` in `InboundScheduler.start`), and a pull goes on. A process may
  die once, also with a push on its way; no pull fails, as a relay that always
  fails spreads nothing.

### Findings

Two runs end in a violation, each of a sentence the repository says:

* `OutboundLostAnswer`: `flush()` takes `DUPLICATE_CLIENT_NONCE` to mean that the
  relay has all events of the batch. The relay refuses a batch for one of them:
  the others are dropped from the queue and stored nowhere else.
* `SyncOneDevice`: applying an event twice is said to be safe. A second save of a
  URL merges into the item that has it; applied again after that item was
  deleted it creates an item of its own. The deleted link is back.

## 4. Proofs

The `*Proofs` modules hold theorems for every value of the constants that satisfies
the named assumptions: any number of devices, tokens, nonces, concurrent requests,
evictions, capacities and rates, every set of crash points, overlapping flushes of
any size, any sequence of events, any number of requests on their way. Where a
theorem needs more than its module's named assumptions, it says so as
`ASSUME ... PROVE`, and each such assumption is an item of the table above.

**`VaultRelay`**, from `OwnerAssumption` (a token has one owner, a device one
token), `SentinelAssumption` (`RELAY_DEVICE_ID` is no device, absent is no value)
and `BoundAssumption` (bounds are numbers):

* `TypeCorrect`. `TypeOK` is inductive: it contains that the domain of `events`
  is `1..nextSeq-1`, which is what a put of stamped events needs.
* `LogContiguous`, `IndexExact`, `NoReplay`, `OnlyAlarmSpeaks`: together they are
  `LogInv`, and only together inductive. A push is refused by the nonce *keys*
  (so `NoReplay` needs `IndexExact`), it stamps from `nextSeq` (so its new keys
  are free by `LogContiguous`), and the alarm appends without a nonce check (so
  what it repeats is a `VaultDeleted` under a device id no client has). The lemma
  `AppendEventsLogInv` is the one put all four handlers share.
* `LogGrows`: a step other than the wipe keeps every stored event.
* `TokensMatch`: registration, revocation, the bootstrap push and the wipe keep
  tokens and devices in correspondence, from `Owner` being injective and
  registration refusing a device that has a token.
* `TombstoneFinal`, from `WipeInv`: a handler in its `wipe` or `bury` step holds
  the record to bury and finds no tombstone to overwrite.
* `DeletionPermanent`, from the same, assuming `"bury" \notin CrashPoints`: the
  assumption is the very eviction described above.
* `OneDeletion`, from `PairInv`: the pending deletion and its mirror
  `scheduledFor` are present together; a schedule checks the one and writes the
  other.

**`RateLimits`**, from `LimitAssumption` (positive capacities and rates),
`SecondAssumption` (a token accrues within a second; the code's slowest bucket,
that of pairing, accrues exactly one) and `NoneAssumption`:

* `TypeCorrect`; `LimitHolds`, from `BudgetInv`: what was admitted in the window
  *and what is left in the bucket* stay within the capacity and what accrued.
  The limit alone says nothing about the bucket and is not inductive. A clock
  that is set back only lowers what is left. A recycled isolate starts a full
  pairing bucket, so the claim is about windows within the life of one isolate.
* `RefusalsAreFree`; `RetriesAreAdmitted`, from `RetryInv`: while the clock was
  never set back no bucket was refilled later than now, and the promised time is
  a whole second after every refill, so that by `SecondAssumption` each bucket
  holds a token then, although only one was reported.

**`VaultDeletionProofs`**, about how a vault ends. Each step of the relay is
classified once (which of log, pending deletion, alarm and tombstone it may touch:
a push, a schedule, a cancel, the alarm's event, the wipe, or none), and the
invariants are proved over the classes.

* `PendingScheduled` and `PendingArmed`: a handler's local copy of what it is about
  to write is what the log says (`HandlerInv`); `PendingArmed` assumes
  `"arm" \notin CrashPoints`.
* `DeletedInWindow`, from `BornInv` (every deletion control in the log was stored a
  window before the time it names) and `EndInv` (what the alarm found due).
* `CancelledStays`, from `LastInv`: the last deletion control of the log and the
  pending record agree. Assumes `"drop" \notin CrashPoints`, the eviction that
  breaks exactly this agreement.
* `RelayIsEventLog`: `Spec => Log!Spec` under the refinement mapping, assuming the
  cancellation and the wipe are not cut in two. Every step appends one batch, ends
  the log with its `VaultDeleted`, or stutters.

**`VaultProjectionProofs`**, about any set of events applied in any order, any number
of times: a step creates an item, patches some fields of one, deletes one, or keeps
them (`Created`, `Patched`, `Deleted`, `Kept`: what the reducers come down to).
`ProjectionInv` says that the URL map and the items' URLs are inverse, which is what
`findLiveItemByUrl` relies on when a save merges; `HitsExact` that the index holds
exactly the live items' tokens. From these `UrlsExact`, `TagSetExact`,
`ReverseMapExact`, `LiveFound` and `SavesVisible`.

**`PendingEventQueueProofs`** are lemmas about the queue's operations: `Select` is an
order-preserving bijection from the positions it keeps (the rank of a position is its
image), hence what each of enqueue, mark in flight, mark synced, mark failed and
hydrate does to the set of entries, their states and their order. `OutboundFlushProofs`
cites nothing else about sequences.

**`OutboundFlushProofs`**, for any devices, flushes, batch size and faults, from
`BoundAssumption` (bounds are numbers, batches are not empty):

* `TypeCorrect`; `InFlightOwned`, from `OwnInv`: an entry in flight lies in the batch
  of exactly one running flush, because `peek` takes pending entries only and marks
  them before the first await.
* `StampsRight`, from `StampInv`: the seqs that a flush still has to stamp are those
  under which the log has the rest of its batch, whatever was appended behind them.
* `NoneLost`, from `PlaceInv`: a batch that is about to be dropped from the queue is in
  the log. Assumes `MaxBatch = 1` and `"emit" \notin FragileAt`: with larger
  batches it is false, as `OutboundLostAnswer` shows.
* `SyncedStamped`, from `KnownInv` (an event of a queue is in the log only while its
  flush stamps it, so the relay has no duplicate to refuse) and `RowInv` (what a flush
  is done with is stamped), assuming that no failed push arrives late and no process
  dies between a push and its `markSynced` or a row and its queue entry.
* `LogIsEventLog`: `Spec => Relay!Spec`, where `Relay` is `EventLog` with the log of
  this model. It needs `OnceInv`: a batch is a piece of a queue, and so has no event
  twice; that no queue has one twice needs that what is being emitted is new
  (`OwnInv`), and what a restart or a lost answer leaves on its way was a batch. Under
  any faults, then, the relay of this model promises no more than the abstract log,
  which `VaultRelay` implements (`RelayIsEventLog`).

**`DeviceSyncProofs`**. A step of the composition is a step of the flushes or the
replay of one event (`FlushOrRest`), and the latter changes rows and nothing else that
an invariant of the flushes speaks of. So `FlushInv` (those invariants, and `CoverInv`)
is kept by both, and `SyncInv` adds what holds with mild faults.

* `CursorCovered`, from `CoverInv`: up to the cursor of the pull in progress, and up to
  each event of its page that was applied, the table has the relay's events.
* `FlushesAmongPulls`, `NoneLostAmongPulls`, `SharedLogIsEventLog`: what
  `OutboundFlushProofs` has of the flushes alone holds with any pulls in between.
* `ReopenedAsLog`, under the assumptions of `SyncedStamped`. It needs `TableInv`, by
  which a table has an event once: a new event has a nonce that no row has yet, one
  that is pulled is ignored if there is a row for it. The rows of a synced device are
  all stamped (`RowInv`), each with its place in the log (`StampInv`), which has no
  event twice (`OnceInv`), and every place is taken (`CoverInv`); hence their seqs are
  a bijection onto `1..Len(log)`, and `replayOrder` of the rows *is* the log
  (`OrderedAsLog`, which counts the rows that come before a row). What a replay
  makes of the log is the same on both sides, and the proof does not open it.

**`DeviceLifecycleProofs`**, from `SentinelAssumption`, for any vaults, ids, requests
on their way, pushes and deaths of the process:

* `TypeCorrect`, from `TypeInv` with `BlankInv` and `RegistryInv`. That only real ids
  are registered needs that an installation which was wiped, and opens with an empty
  device id, has an empty token as well: the wipe empties the token first, and every
  writer of a new id has a token or leaves the empty one (`BlankInv`).
* `SealedRegistered`, from `SealInv`, which says the same of a seal on its way: the
  registration's acceptance precedes the seal, and what follows only removes.
* `RevokedOut`, from `FreshInv`: as long as a registration or a claim is on its way,
  nobody else knows its device, so that it cannot bring back one that was removed.
* `KeyOfItsVault`, from `PlanInv` (which of the running handler's writes are on disk)
  and `KeyInv`: before a create writes its id no vault would open, before a restore
  does its own would, and a wipe empties the key first.
* `Resumable`, from `LeaveInv`: the same claim about a `DELETE` on its way, so that it
  holds when the request is sent and stays true whatever becomes of it; and that a
  device that leaves is nobody's new identity.
* `AcceptedWhenOpen`, from `BirthInv` (the relay does not know a vault that nobody
  created) and `HomeInv`. That the running device is in the registry is not inductive:
  the next launch starts the device that is on disk, and a create, a restore or a
  sign-out is rewriting that one setting by setting. `HomeInv` says the same of the
  device on disk and of the one that a restore is about to write, and that a vault
  that no push has reached yet is claimed by nobody else; all of it as long as no
  restore and no sign-out died between its writes (`torn`).
* `FirstVaultCovered`, from `PullInv` and `CursorInv`: the events up to *every* cursor
  are in the table, also up to the one a pull on its way started from (its page may be
  applied after another one moved the cursor), and the one that a page, or a wipe
  behind it, is still to write.

The last proof corrected its model: with `VaultDeleted` taken to be the last event of
an ending log, `CursorInv` was not inductive, because a push between the alarm's two
writes moves it from there. The code allows that push, and the model now does.

**Only model-checked.** Liveness (`PendingIsResolved`, `FlushEnds`, `EventsArrive`,
`EventsSpread`): every other property that a passing run checks is stated by a
theorem. `SyncedShowsLog` and the `NoEventLost` of `OutboundLostAnswer` are refuted.
The registry that answers `DeviceLifecycle` is not formally derived from `VaultRelay`.
Liveness (and whatever needs ENABLED), induction over data (what a fold over a log
computes for every log, as in what `replay` shows) and RECURSIVE operators are beyond
the prover and stay with TLC.

## 5. Not modelled

* Schemas, URL canonicalisation, cryptography, mnemonics: functions of bytes
  without state. The models take events that satisfy the schemas, and a URL in
  its canonical form.
* The Worker's router, CORS, logging and error envelopes; the screens; the ports
  of the host (keychain, clipboard, files); storage migrations; the `items`
  table, which is written and never read back.
* The recovery routes that a restore claims its vault through: this relay does not
  serve them, and `DeviceLifecycle` has them as the app uses them. The new
  device's half of a pairing: this app has the sponsor's only.
* `resumePendingRevocation`, which nothing calls; what `InboundScheduler.stop()`
  does to a trailing trigger.
* That a deletion scheduled on a device is carried out: the desktop sends the
  scheduling event through `POST /events`, which arms no alarm, so that there is
  nothing for a property to hold of; `DeviceLifecycle` has both halves
  (`ScheduleOrCancelDeletion`, `VaultEnds`) and does not connect them.
* The platform's own rate limiter, where it is bound instead of the isolate's
  buckets.
* `GET /events` on the relay is a read; `DeviceSync.PullAnswered` is what a
  device sees of it.

## 6. What could follow

1. `VaultSystem`: `DeviceLifecycle` with the events of `DeviceSync` instead of
   positions, over `VaultRelay`'s deletion. Events pulled for one vault and applied
   when another is open would then be seen one by one.
2. `OutboundFlush`: opening the app retries what failed. `DeviceSync` with two
   events a device. `VaultRelay`: what a control request that waited for its body
   may still do.
3. Proofs: `DeviceLifecycle.Answer` against `VaultRelay`, by an abstract registry that
   both implement, as `EventLog` is for the log; and, with faults that are not mild,
   what is still true of a synced device's rows.
