----------------------------- MODULE VaultRelay -----------------------------
(***************************************************************************)
(* The per-vault Durable Object of the relay                               *)
(* (apps/relay/src/vault-relay.ts): its storage keys, its HTTP handlers    *)
(* and the deletion alarm.                                                 *)
(*                                                                         *)
(* What may interleave.  The runtime delivers no other request while a     *)
(* handler awaits a storage operation, so consecutive storage operations   *)
(* are one action.  `await request.json()` is not a storage operation:     *)
(* a handler that reads a body is split there into an arrival and a        *)
(* commit, and what it read before the body may be stale at the commit.    *)
(* A crash can fall between two awaited storage writes; the continuation   *)
(* variable `cont` names the write that is due next, and while it is set   *)
(* no other handler runs.                                                  *)
(*                                                                         *)
(* The alarm scheduler is the runtime's: it delivers an armed alarm at or  *)
(* after its time, at least once, and redelivers it when the handler did   *)
(* not complete.                                                           *)
(*                                                                         *)
(* A definition Name_Variant just before Name is a mutated form of it, used *)
(* only by the mutant runs.                                                *)
(***************************************************************************)
EXTENDS Naturals, Sequences, FiniteSets

CONSTANTS
    Device,      \* paired devices
    Token,       \* device auth tokens
    Owner,       \* Owner[t] is the device that minted token t
    Nonce,       \* client nonces
    RelayDevice, \* RELAY_DEVICE_ID, the sentinel in the pre-signed VaultDeleted
    Slot,        \* requests whose body is being read (bounds the concurrency)
    None,        \* an absent storage key, an idle slot, no time
    MaxTime,     \* bound: the clock and scheduledFor stay in 0..MaxTime
    Skew,        \* SCHEDULE_DELETION_SKEW_MS, in ticks
    MaxBatch,    \* bound: events per POST /events
    MaxSeq,      \* bound: client events are accepted up to this seq
    CrashPoints, \* the values of cont at which the object may crash
    MaxCrashes   \* bound: number of crashes

ASSUME OwnerAssumption ==
    /\ Owner \in [Token -> Device]
    /\ \A t, u \in Token : Owner[t] = Owner[u] => t = u

ASSUME SentinelAssumption ==
    /\ RelayDevice \notin Device
    /\ None \notin Token /\ None \notin Nat
    /\ None \notin [op : STRING, token : Token, init : BOOLEAN]
    /\ None \notin [type : {"VaultDeleted"}, device : {RelayDevice},
                     nonce : Nonce, at : Nat]
    /\ None \notin [deletedAt : Nat, vaultDeletedSeq : Nat]

ASSUME BoundAssumption ==
    /\ MaxTime \in Nat /\ Skew \in Nat
    /\ MaxBatch \in Nat /\ MaxSeq \in Nat /\ MaxCrashes \in Nat

VARIABLES
    (* storage *)
    initialized,  \* meta:initialized
    tombstone,    \* meta:tombstone
    nextSeq,      \* meta:nextSeq, 1 when absent
    events,       \* event:<seq>
    nonces,       \* the (deviceId, clientNonce) keys present
    tokens,       \* the token:<t> keys present
    devices,      \* device:<d> -> its token
    pending,      \* meta:pendingVaultDeleted
    scheduledFor, \* meta:scheduledFor
    (* runtime *)
    alarm,        \* the armed alarm time
    firing,       \* an alarm was delivered and its handler has not completed
    cont,         \* the storage write a running handler performs next
    grave,        \* the tombstone record the alarm handler holds in memory
    paused,       \* per slot, the request awaiting its body
    now, crashes,
    (* history *)
    wiped         \* deleteAll() has run

storage == <<initialized, tombstone, nextSeq, events, nonces, tokens,
             devices, pending, scheduledFor>>
vars == <<storage, alarm, firing, cont, grave, paused, now, crashes, wiped>>

-----------------------------------------------------------------------------
(* Data *)

Times == 0..MaxTime
Conts == {"none", "arm", "drop", "disarm", "wipe", "bury"}

EventType == {"Item", "Scheduled", "Cancelled", "VaultDeleted"}

\* A PendingEvent: the cleartext part of the envelope.  `at` is scheduledFor
\* of a Scheduled, deletedAt of a VaultDeleted.  "Item" stands for whatever
\* POST /events carries, which the relay does not look into.
PendingEvent == [type : EventType, device : Device \cup {RelayDevice},
                 nonce : Nonce, at : Nat \cup {None}]
DeletedBlob == [type : {"VaultDeleted"}, device : {RelayDevice},
                nonce : Nonce, at : Nat]
Event == [type : EventType, device : Device \cup {RelayDevice},
          nonce : Nonce, at : Nat \cup {None}, seq : Nat]

Pending(type, d, n, at) ==
    [type |-> type, device |-> d, nonce |-> n, at |-> at]

stampSeq_FirstSeq(e, seq) == [type |-> e.type, device |-> e.device,
                              nonce |-> e.nonce, at |-> e.at, seq |-> nextSeq]
stampSeq(e, seq) == [type |-> e.type, device |-> e.device,
                     nonce |-> e.nonce, at |-> e.at, seq |-> seq]

nonceKey(e) == <<e.device, e.nonce>>

Request == [op : {"push", "register", "schedule", "cancel"},
            token : Token, init : BOOLEAN]

\* The bodies a client sends to POST /events: its own events, in queue order.
PushBodies(t) ==
    {[i \in 1..n |-> Pending("Item", Owner[t], ns[i], None)] :
        n \in 1..MaxBatch, ns \in [1..MaxBatch -> Nonce]}

-----------------------------------------------------------------------------
(* Storage writes the handlers share *)

Unused == /\ initialized = FALSE /\ tombstone = None /\ nextSeq = 1
          /\ events = <<>> /\ nonces = {} /\ tokens = {} /\ devices = <<>>
          /\ pending = None /\ scheduledFor = None

Init ==
    /\ Unused
    /\ alarm = None /\ firing = FALSE
    /\ cont = "none" /\ grave = None
    /\ paused = [s \in Slot |-> None]
    /\ now = 0 /\ crashes = 0
    /\ wiped = FALSE

\* The seqs the next n events get, and nextSeq after them.
Assigned(n) == nextSeq..(nextSeq + n - 1)

SeqAfter_OnePerPush(n) == nextSeq + 1
SeqAfter(n) == nextSeq + n

NonceKeys_FirstOnly(batch) == {nonceKey(batch[1])}
NonceKeys(batch) == {nonceKey(batch[i]) : i \in DOMAIN batch}

\* One put-many: stamp and store the events, register their nonces, advance
\* nextSeq.
AppendEvents(batch) ==
    /\ events' = [s \in DOMAIN events \cup Assigned(Len(batch)) |->
                    IF s \in Assigned(Len(batch))
                    THEN stampSeq(batch[s - nextSeq + 1], s)
                    ELSE events[s]]
    /\ nonces' = nonces \cup NonceKeys(batch)
    /\ nextSeq' = SeqAfter(Len(batch))

\* put({ token:<t>: {deviceId: d}, device:<d>: t })
AddDevice(t, d) ==
    /\ tokens' = tokens \cup {t}
    /\ devices' = [x \in DOMAIN devices \cup {d} |->
                     IF x = d THEN t ELSE devices[x]]

\* delete([token:<devices[d]>, device:<d>])
RemoveDevice_KeepToken(d) ==
    /\ tokens' = tokens
    /\ devices' = [x \in DOMAIN devices \ {d} |-> devices[x]]
RemoveDevice(d) ==
    /\ tokens' = tokens \ {devices[d]}
    /\ devices' = [x \in DOMAIN devices \ {d} |-> devices[x]]

FreshNonces_BatchOnly(batch) ==
    \A i, j \in DOMAIN batch :
        nonceKey(batch[i]) = nonceKey(batch[j]) => i = j
FreshNonces(batch) ==
    /\ \A i \in DOMAIN batch : nonceKey(batch[i]) \notin nonces
    /\ \A i, j \in DOMAIN batch :
          nonceKey(batch[i]) = nonceKey(batch[j]) => i = j

-----------------------------------------------------------------------------
(* Handlers: up to the body *)

IsTombstoned_Never == FALSE
IsTombstoned == tombstone # None

\* The input gate: no handler starts or resumes inside another's writes.
GateOpen == cont = "none"

Pause(s, op, t, init) ==
    /\ GateOpen
    /\ ~IsTombstoned
    /\ paused[s] = None
    /\ paused' = [paused EXCEPT ![s] = [op |-> op, token |-> t, init |-> init]]
    /\ UNCHANGED <<storage, alarm, firing, cont, grave, now, crashes, wiped>>

\* POST /events reads meta:initialized, then the body.
PushArrive(s, t) == Pause(s, "push", t, initialized)

\* The other handlers with a body check the vault and the token before it.
ControlArrive(s, op, t) ==
    /\ initialized
    /\ t \in tokens
    /\ Pause(s, op, t, TRUE)

-----------------------------------------------------------------------------
(* Handlers: from the body on *)

Resume(s, op) ==
    /\ GateOpen
    /\ paused[s] # None
    /\ paused[s].op = op
    /\ paused' = [paused EXCEPT ![s] = None]

\* A malformed body or a failed check below: an error response, no write.
Refuse(s) ==
    /\ \E op \in {"push", "register", "schedule", "cancel"} : Resume(s, op)
    /\ UNCHANGED <<storage, alarm, firing, cont, grave, now, crashes, wiped>>

PushCommit(s, batch) ==
    /\ Resume(s, "push")
    /\ paused[s].init => paused[s].token \in tokens
    /\ FreshNonces(batch)
    /\ nextSeq + Len(batch) - 1 <= MaxSeq
    /\ AppendEvents(batch)
    /\ IF paused[s].init
       THEN UNCHANGED <<initialized, tokens, devices>>
       ELSE /\ initialized' = TRUE
            /\ AddDevice(paused[s].token, batch[1].device)
    /\ UNCHANGED <<tombstone, pending, scheduledFor, alarm, firing, cont,
                   grave, now, crashes, wiped>>

\* A sponsor registers the token a newly paired device minted.
RegisterCommit(s, t) ==
    /\ Resume(s, "register")
    /\ Owner[t] \notin DOMAIN devices
    /\ AddDevice(t, Owner[t])
    /\ UNCHANGED <<initialized, tombstone, nextSeq, events, nonces, pending,
                   scheduledFor, alarm, firing, cont, grave, now, crashes,
                   wiped>>

\* DELETE /devices/:deviceId reads no body.
Revoke(t, d) ==
    /\ GateOpen
    /\ ~IsTombstoned
    /\ initialized
    /\ t \in tokens
    /\ d \in DOMAIN devices
    /\ RemoveDevice(d)
    /\ UNCHANGED <<initialized, tombstone, nextSeq, events, nonces, pending,
                   scheduledFor, alarm, firing, cont, grave, paused, now,
                   crashes, wiped>>

ValidSchedule_AnyDeletedAt(scheduled, deleted) ==
    /\ deleted.device = RelayDevice
    /\ scheduled.at + Skew > now
ValidSchedule_AnySender(scheduled, deleted) ==
    /\ scheduled.at = deleted.at
    /\ scheduled.at + Skew > now
ValidSchedule(scheduled, deleted) ==
    /\ scheduled.at = deleted.at
    /\ deleted.device = RelayDevice
    /\ scheduled.at + Skew > now

NothingScheduled_Unchecked == TRUE
NothingScheduled == scheduledFor = None

ScheduleCommit(s, scheduled, deleted) ==
    /\ Resume(s, "schedule")
    /\ ValidSchedule(scheduled, deleted)
    /\ NothingScheduled
    /\ FreshNonces(<<scheduled>>)
    /\ nextSeq <= MaxSeq
    /\ AppendEvents(<<scheduled>>)
    /\ pending' = deleted
    /\ scheduledFor' = scheduled.at
    /\ cont' = "arm"
    /\ UNCHANGED <<initialized, tombstone, tokens, devices, alarm, firing,
                   grave, now, crashes, wiped>>

ScheduleArm_AtOnce ==
    /\ cont = "arm"
    /\ alarm' = now
    /\ cont' = "none"
    /\ UNCHANGED <<storage, firing, grave, paused, now, crashes, wiped>>
ScheduleArm_KeepArmed ==
    /\ cont = "arm"
    /\ alarm' = IF alarm = None THEN scheduledFor ELSE alarm
    /\ cont' = "none"
    /\ UNCHANGED <<storage, firing, grave, paused, now, crashes, wiped>>
ScheduleArm_Forgotten ==
    /\ cont = "arm"
    /\ cont' = "none"
    /\ UNCHANGED <<storage, alarm, firing, grave, paused, now, crashes, wiped>>
ScheduleArm ==
    /\ cont = "arm"
    /\ alarm' = scheduledFor
    /\ cont' = "none"
    /\ UNCHANGED <<storage, firing, grave, paused, now, crashes, wiped>>

CancelCommit(s, cancelled) ==
    /\ Resume(s, "cancel")
    /\ pending # None
    /\ FreshNonces(<<cancelled>>)
    /\ nextSeq <= MaxSeq
    /\ AppendEvents(<<cancelled>>)
    /\ cont' = "drop"
    /\ UNCHANGED <<initialized, tombstone, tokens, devices, pending,
                   scheduledFor, alarm, firing, grave, now, crashes, wiped>>

CancelDrop_KeepBlob ==
    /\ cont = "drop"
    /\ scheduledFor' = None
    /\ cont' = "disarm"
    /\ UNCHANGED <<initialized, tombstone, nextSeq, events, nonces, tokens,
                   devices, pending, alarm, firing, grave, paused, now, crashes,
                   wiped>>
CancelDrop ==
    /\ cont = "drop"
    /\ pending' = None
    /\ scheduledFor' = None
    /\ cont' = "disarm"
    /\ UNCHANGED <<initialized, tombstone, nextSeq, events, nonces, tokens,
                   devices, alarm, firing, grave, paused, now, crashes, wiped>>

CancelDisarm ==
    /\ cont = "disarm"
    /\ alarm' = None
    /\ cont' = "none"
    /\ UNCHANGED <<storage, firing, grave, paused, now, crashes, wiped>>

-----------------------------------------------------------------------------
(* The alarm *)

\* The runtime takes a due alarm out of the schedule and delivers it.
FireAlarm ==
    /\ alarm # None
    /\ alarm <= now
    /\ ~firing
    /\ alarm' = None
    /\ firing' = TRUE
    /\ UNCHANGED <<storage, cont, grave, paused, now, crashes, wiped>>

\* A duplicate delivery, or a leftover of a cancelled deletion.
AlarmNoop ==
    /\ GateOpen
    /\ firing
    /\ IsTombstoned \/ pending = None
    /\ firing' = FALSE
    /\ UNCHANGED <<storage, alarm, cont, grave, paused, now, crashes, wiped>>

AlarmEmit ==
    /\ GateOpen
    /\ firing
    /\ ~IsTombstoned
    /\ pending # None
    /\ AppendEvents(<<pending>>)
    /\ grave' = [deletedAt |-> pending.at, vaultDeletedSeq |-> nextSeq]
    /\ cont' = "wipe"
    /\ UNCHANGED <<initialized, tombstone, tokens, devices, pending,
                   scheduledFor, alarm, firing, paused, now, crashes, wiped>>

\* deleteAll() clears every key and the alarm.
AlarmWipe ==
    /\ cont = "wipe"
    /\ initialized' = FALSE /\ tombstone' = None /\ nextSeq' = 1
    /\ events' = <<>> /\ nonces' = {} /\ tokens' = {} /\ devices' = <<>>
    /\ pending' = None /\ scheduledFor' = None
    /\ alarm' = None
    /\ cont' = "bury"
    /\ wiped' = TRUE
    /\ UNCHANGED <<firing, grave, paused, now, crashes>>

AlarmBury_NoTombstone ==
    /\ cont = "bury"
    /\ firing' = FALSE
    /\ cont' = "none"
    /\ UNCHANGED <<storage, alarm, grave, paused, now, crashes, wiped>>
AlarmBury ==
    /\ cont = "bury"
    /\ tombstone' = grave
    /\ grave' = None
    /\ firing' = FALSE
    /\ cont' = "none"
    /\ UNCHANGED <<initialized, nextSeq, events, nonces, tokens, devices,
                   pending, scheduledFor, alarm, paused, now, crashes, wiped>>

-----------------------------------------------------------------------------
(* Environment *)

\* The object is evicted: requests and memory are lost, storage and the
\* runtime's alarm state stay.
Crash ==
    /\ crashes < MaxCrashes
    /\ cont \in CrashPoints
    /\ cont' = "none"
    /\ grave' = None
    /\ paused' = [s \in Slot |-> None]
    /\ crashes' = crashes + 1
    /\ UNCHANGED <<storage, alarm, firing, now, wiped>>

Tick ==
    /\ now < MaxTime
    /\ now' = now + 1
    /\ UNCHANGED <<storage, alarm, firing, cont, grave, paused, crashes, wiped>>

-----------------------------------------------------------------------------

Push(s) == \/ \E t \in Token : PushArrive(s, t)
           \/ /\ paused[s] # None
              /\ \E batch \in PushBodies(paused[s].token) : PushCommit(s, batch)

Register(s) == \/ \E t \in Token : ControlArrive(s, "register", t)
               \/ \E t \in Token : RegisterCommit(s, t)

Schedule(s) ==
    \/ \E t \in Token : ControlArrive(s, "schedule", t)
    \/ /\ paused[s] # None
       /\ \E n, m \in Nonce, at, deletedAt \in Times,
            d \in {RelayDevice, Owner[paused[s].token]} :
            ScheduleCommit(s, Pending("Scheduled", Owner[paused[s].token], n, at),
                              Pending("VaultDeleted", d, m, deletedAt))

Cancel(s) ==
    \/ \E t \in Token : ControlArrive(s, "cancel", t)
    \/ /\ paused[s] # None
       /\ \E n \in Nonce :
            CancelCommit(s, Pending("Cancelled", Owner[paused[s].token], n, None))

Next ==
    \/ \E s \in Slot : Push(s) \/ Register(s) \/ Schedule(s) \/ Cancel(s) \/ Refuse(s)
    \/ \E t \in Token, d \in Device : Revoke(t, d)
    \/ ScheduleArm \/ CancelDrop \/ CancelDisarm
    \/ FireAlarm \/ AlarmNoop \/ AlarmEmit \/ AlarmWipe \/ AlarmBury
    \/ Crash \/ Tick

Spec == Init /\ [][Next]_vars

\* Time passes, the runtime delivers alarms, and a handler that has begun its
\* writes goes on with them; nothing obliges a client to send anything.
Fairness ==
    /\ WF_vars(Tick) /\ WF_vars(FireAlarm)
    /\ WF_vars(AlarmNoop) /\ WF_vars(AlarmEmit)
    /\ WF_vars(ScheduleArm \/ CancelDrop \/ CancelDisarm \/ AlarmWipe \/ AlarmBury)

FairSpec == Spec /\ Fairness
-----------------------------------------------------------------------------
(* Properties *)

TypeOK ==
    /\ initialized \in BOOLEAN /\ firing \in BOOLEAN /\ wiped \in BOOLEAN
    /\ nextSeq \in Nat \ {0} /\ now \in Nat /\ crashes \in Nat
    /\ cont \in Conts
    /\ events \in [1..(nextSeq - 1) -> Event]
    /\ nonces \subseteq (Device \cup {RelayDevice}) \X Nonce
    /\ tokens \subseteq Token
    /\ DOMAIN devices \subseteq Device
    /\ devices \in [DOMAIN devices -> Token]
    /\ pending \in DeletedBlob \cup {None}
    /\ scheduledFor \in Nat \cup {None} /\ alarm \in Nat \cup {None}
    /\ \A g \in {grave, tombstone} :
          g \in [deletedAt : Nat, vaultDeletedSeq : Nat] \cup {None}
    /\ paused \in [Slot -> Request \cup {None}]

\* The log has no gap and each event carries the seq of its key, so that a
\* page that starts after any cursor misses nothing (stampSeq, nextSeq).
SeqContiguous ==
    /\ DOMAIN events = 1..(nextSeq - 1)
    /\ \A s \in DOMAIN events : events[s].seq = s

\* The nonce keys are exactly those of the stored events: none is lost (a
\* replay would be accepted) and none is left of an event never stored (a
\* first attempt would be refused).
NonceIndexExact == nonces = {nonceKey(events[s]) : s \in DOMAIN events}

\* A client event is in the log at most once, whatever was retried, raced or
\* interrupted.  Only the alarm's own VaultDeleted, which is put without a
\* nonce check, may be there again after its handler was interrupted.
NonceUnique ==
    \A r, s \in DOMAIN events :
        nonceKey(events[r]) = nonceKey(events[s]) =>
            r = s \/ {events[r].type, events[s].type} = {"VaultDeleted"}

\* Only the alarm speaks for the relay: an event that makes clients wipe is in
\* the log under RELAY_DEVICE_ID, and nothing else is.
OnlyAlarmSpeaksForRelay ==
    \A s \in DOMAIN events :
        events[s].device = RelayDevice <=> events[s].type = "VaultDeleted"

LogInv == /\ SeqContiguous /\ NonceIndexExact
          /\ NonceUnique /\ OnlyAlarmSpeaksForRelay

\* The valid tokens and the registered devices stay in one-to-one
\* correspondence: there is no valid token that no DELETE /devices/:id can
\* revoke, and no device whose token is already invalid.
TokensMatchDevices ==
    /\ tokens = {devices[d] : d \in DOMAIN devices}
    /\ \A d \in DOMAIN devices : Owner[devices[d]] = d

\* The stored pre-signed VaultDeleted is one a device authorised: the log holds
\* a Scheduled event for the same time, also after a reschedule.
PendingWasScheduled ==
    /\ (pending = None) = (scheduledFor = None)
    /\ pending # None =>
          /\ pending.at = scheduledFor
          /\ \E s \in DOMAIN events : /\ events[s].type = "Scheduled"
                                      /\ events[s].at = scheduledFor

\* An accepted event is never moved, changed or dropped, except by the
\* deleteAll() of the whole vault.
LogAppendOnly ==
    [][AlarmWipe \/ \A s \in DOMAIN events : /\ s \in DOMAIN events'
                                           /\ events'[s] = events[s]]_vars

\* A scheduled deletion is never replaced by another one: a reschedule goes
\* through a cancel (DELETION_ALREADY_SCHEDULED), also when two schedule
\* requests were both waiting for their bodies.
OneDeletionAtATime ==
    [][pending # None /\ pending' # None => pending' = pending]_vars

\* A tombstone is final: no redelivered alarm and no request that was already
\* waiting for its body when the vault died removes or rewrites it.
TombstoneIsFinal == [][tombstone # None => tombstone' = tombstone]_vars

LastControl ==
    LET C == {s \in DOMAIN events : events[s].type \in {"Scheduled", "Cancelled"}}
    IN  IF C = {} THEN "none"
        ELSE events[CHOOSE s \in C : \A r \in C : r <= s].type

\* A vault whose last deletion control is a Cancelled event is not deleted.
CancelledIsNeverDeleted == cont = "wipe" => LastControl = "Scheduled"

\* A vault that was wiped never comes back: it is tombstoned, or the alarm
\* handler is about to write the tombstone.
DeletionIsPermanent == wiped => IsTombstoned \/ cont = "bury"

\* As long as a deletion is pending, something will carry it out: the alarm is
\* armed for its time, or about to be, or already delivered.
PendingHasAlarm ==
    pending # None /\ ~IsTombstoned =>
        alarm = scheduledFor \/ firing \/ cont = "arm"

\* The vault is wiped no earlier than the window of a deletion that its devices
\* scheduled: perhaps of one that was cancelled since, when its alarm was already
\* on the way and met the next one, because alarm() does not look at the clock.
WindowElapsed ==
    cont = "wipe" =>
        \E s \in DOMAIN events : events[s].type = "Scheduled" /\ events[s].at <= now

\* What a client can see of the vault.
Status == IF IsTombstoned \/ cont = "bury" THEN "dead"
          ELSE IF initialized THEN "live" ELSE "unborn"

Log == INSTANCE EventLog WITH
           Entry <- Event, status <- Status,
           log <- IF Status = "dead" THEN <<>> ELSE events

\* The vault behaves as the abstract event log.
ImplementsEventLog == Log!Spec

\* A pending deletion is carried out or cancelled.
PendingIsResolved == (pending # None /\ ~IsTombstoned) ~> (pending = None \/ IsTombstoned)
=============================================================================
