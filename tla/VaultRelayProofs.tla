-------------------------- MODULE VaultRelayProofs --------------------------
(***************************************************************************)
(* What holds of VaultRelay for any number of devices, tokens, requests,   *)
(* crashes and events.                                                     *)
(***************************************************************************)
EXTENDS VaultRelay, TLAPS

-----------------------------------------------------------------------------
(* The storage writes the handlers share *)

\* A put of stamped events extends the log without a gap and keeps its types.
LEMMA AppendEventsType ==
    ASSUME TypeOK, NEW batch \in Seq(PendingEvent), AppendEvents(batch)
    PROVE  /\ nextSeq' = nextSeq + Len(batch)
           /\ nextSeq' \in Nat \ {0}
           /\ events' \in [1..(nextSeq' - 1) -> Event]
           /\ nonces' \subseteq (Device \cup {RelayDevice}) \X Nonce
<1>1. /\ Len(batch) \in Nat /\ DOMAIN batch = 1..Len(batch)
      /\ \A i \in 1..Len(batch) : batch[i] \in PendingEvent
  OBVIOUS
<1>2. nextSeq' = nextSeq + Len(batch) /\ nextSeq' \in Nat \ {0}
  BY <1>1 DEF AppendEvents, SeqAfter, TypeOK
<1>3. events' \in [1..(nextSeq' - 1) -> Event]
  <2>1. DOMAIN events \cup Assigned(Len(batch)) = 1..(nextSeq' - 1)
    BY <1>1, <1>2 DEF TypeOK, Assigned
  <2>2. ASSUME NEW s \in Assigned(Len(batch))
        PROVE  stampSeq(batch[s - nextSeq + 1], s) \in Event
    <3>1. s - nextSeq + 1 \in 1..Len(batch) /\ s \in Nat
      BY <1>1 DEF Assigned, TypeOK
    <3>2. batch[s - nextSeq + 1] \in PendingEvent
      BY <1>1, <3>1
    <3>. QED BY <3>1, <3>2 DEF stampSeq, PendingEvent, Event
  <2>3. ASSUME NEW s \in DOMAIN events PROVE events[s] \in Event
    BY DEF TypeOK
  <2>. QED BY <2>1, <2>2, <2>3 DEF AppendEvents
<1>4. nonces' \subseteq (Device \cup {RelayDevice}) \X Nonce
  <2>1. ASSUME NEW i \in DOMAIN batch
        PROVE  nonceKey(batch[i]) \in (Device \cup {RelayDevice}) \X Nonce
    BY <1>1 DEF nonceKey, PendingEvent
  <2>. QED BY <2>1 DEF AppendEvents, NonceKeys, TypeOK
<1>. QED BY <1>2, <1>3, <1>4

\* The bodies of POST /events are non-empty batches of their device's events.
LEMMA PushBodiesType ==
    ASSUME NEW t \in Token, NEW batch \in PushBodies(t)
    PROVE  /\ batch \in Seq(PendingEvent) /\ Len(batch) \in Nat \ {0}
           /\ \A i \in DOMAIN batch : /\ batch[i].type = "Item"
                                      /\ batch[i].device = Owner[t]
<1>1. PICK n \in 1..MaxBatch, ns \in [1..MaxBatch -> Nonce] :
        batch = [i \in 1..n |-> Pending("Item", Owner[t], ns[i], None)]
  BY DEF PushBodies
<1>2. n \in Nat /\ n >= 1 /\ \A i \in 1..n : i \in 1..MaxBatch
  BY <1>1, BoundAssumption
<1>3. Owner[t] \in Device
  BY OwnerAssumption
<1>4. \A i \in 1..n : Pending("Item", Owner[t], ns[i], None) \in PendingEvent
  BY <1>1, <1>2, <1>3 DEF Pending, PendingEvent, EventType
<1>5. batch \in Seq(PendingEvent) /\ Len(batch) = n
  BY <1>1, <1>2, <1>4
<1>. QED BY <1>1, <1>2, <1>5 DEF Pending

-----------------------------------------------------------------------------
(* Type correctness *)

LEMMA InitType == Init => TypeOK
<1>. SUFFICES ASSUME Init PROVE TypeOK
  OBVIOUS
<1>1. <<>> \in [1..0 -> Event] /\ nextSeq - 1 = 0
  BY DEF Init, Unused
<1>2. events \in [1..(nextSeq - 1) -> Event]
  BY <1>1 DEF Init, Unused
<1>3. DOMAIN devices \subseteq Device /\ devices \in [DOMAIN devices -> Token]
  BY DEF Init, Unused
<1>4. paused \in [Slot -> Request \cup {None}]
  BY DEF Init
<1>5. /\ initialized = FALSE /\ firing = FALSE /\ wiped = FALSE
      /\ nextSeq = 1 /\ now = 0 /\ crashes = 0 /\ cont = "none"
      /\ nonces = {} /\ tokens = {} /\ pending = None /\ scheduledFor = None
      /\ alarm = None /\ grave = None /\ tombstone = None
  BY DEF Init, Unused
<1>9. initialized \in BOOLEAN /\ firing \in BOOLEAN /\ wiped \in BOOLEAN
  BY <1>5
<1>6. /\ nextSeq \in Nat \ {0} /\ now \in Nat /\ crashes \in Nat
      /\ cont \in Conts /\ pending \in DeletedBlob \cup {None}
      /\ scheduledFor \in Nat \cup {None} /\ alarm \in Nat \cup {None}
  BY <1>5 DEF Conts
<1>7. nonces \subseteq (Device \cup {RelayDevice}) \X Nonce /\ tokens \subseteq Token
  BY <1>5
<1>8. \A g \in {grave, tombstone} :
          g \in [deletedAt : Nat, vaultDeletedSeq : Nat] \cup {None}
  BY <1>5
<1>. QED BY <1>2, <1>3, <1>4, <1>9, <1>6, <1>7, <1>8 DEF TypeOK

\* Registering a device keeps the types of the token set and the device map.
LEMMA AddDeviceType ==
    ASSUME TypeOK, NEW t \in Token, NEW d \in Device, AddDevice(t, d)
    PROVE  /\ tokens' \subseteq Token
           /\ DOMAIN devices' \subseteq Device
           /\ devices' \in [DOMAIN devices' -> Token]
BY DEF TypeOK, AddDevice

\* Resuming a request frees its slot.
LEMMA ResumeType ==
    ASSUME TypeOK, NEW s \in Slot, NEW op, Resume(s, op)
    PROVE  /\ paused' \in [Slot -> Request \cup {None}]
           /\ paused[s] \in Request /\ paused[s].token \in Token
BY DEF TypeOK, Resume, Request

LEMMA PauseType ==
    ASSUME TypeOK, NEW s \in Slot, NEW t \in Token, NEW i \in BOOLEAN,
           NEW op \in {"push", "register", "schedule", "cancel"},
           Pause(s, op, t, i)
    PROVE  TypeOK'
<1>1. paused' \in [Slot -> Request \cup {None}]
  BY DEF TypeOK, Pause, Request
<1>. QED BY <1>1 DEF TypeOK, Pause, storage

LEMMA PushType ==
    ASSUME TypeOK, NEW s \in Slot, Push(s)
    PROVE  TypeOK'
<1>1. CASE \E t \in Token : PushArrive(s, t)
  BY <1>1, PauseType DEF PushArrive, TypeOK
<1>2. ASSUME paused[s] # None, NEW batch \in PushBodies(paused[s].token),
             PushCommit(s, batch)
      PROVE  TypeOK'
  <2>1. Resume(s, "push") /\ AppendEvents(batch)
    BY <1>2 DEF PushCommit
  <2>2. /\ paused' \in [Slot -> Request \cup {None}]
        /\ paused[s].token \in Token
    BY <2>1, ResumeType
  <2>3. /\ batch \in Seq(PendingEvent)
        /\ batch[1].device = Owner[paused[s].token] /\ batch[1].device \in Device
    BY <2>2, <1>2, PushBodiesType, OwnerAssumption
  <2>4. /\ nextSeq' \in Nat \ {0}
        /\ events' \in [1..(nextSeq' - 1) -> Event]
        /\ nonces' \subseteq (Device \cup {RelayDevice}) \X Nonce
    BY <2>1, <2>3, AppendEventsType
  <2>5. /\ initialized' \in BOOLEAN
        /\ tokens' \subseteq Token
        /\ DOMAIN devices' \subseteq Device
        /\ devices' \in [DOMAIN devices' -> Token]
    <3>1. CASE paused[s].init
      BY <3>1, <1>2 DEF PushCommit, TypeOK
    <3>2. CASE ~paused[s].init
      BY <3>2, <1>2, <2>2, <2>3, AddDeviceType DEF PushCommit
    <3>. QED BY <3>1, <3>2
  <2>6. UNCHANGED <<tombstone, pending, scheduledFor, alarm, firing, cont,
                    grave, now, crashes, wiped>>
    BY <1>2 DEF PushCommit
  <2>. QED BY <2>2, <2>4, <2>5, <2>6 DEF TypeOK
<1>. QED BY <1>1, <1>2 DEF Push

LEMMA RegisterType ==
    ASSUME TypeOK, NEW s \in Slot, Register(s)
    PROVE  TypeOK'
<1>1. CASE \E t \in Token : ControlArrive(s, "register", t)
  BY <1>1, PauseType DEF ControlArrive
<1>2. ASSUME NEW t \in Token, RegisterCommit(s, t)
      PROVE  TypeOK'
  <2>1. Resume(s, "register") /\ AddDevice(t, Owner[t]) /\ Owner[t] \in Device
    BY <1>2, OwnerAssumption DEF RegisterCommit
  <2>2. /\ paused' \in [Slot -> Request \cup {None}]
        /\ tokens' \subseteq Token /\ DOMAIN devices' \subseteq Device
        /\ devices' \in [DOMAIN devices' -> Token]
    BY <2>1, ResumeType, AddDeviceType
  <2>. QED BY <1>2, <2>2 DEF RegisterCommit, TypeOK
<1>. QED BY <1>1, <1>2 DEF Register

LEMMA ScheduleType ==
    ASSUME TypeOK, NEW s \in Slot, Schedule(s)
    PROVE  TypeOK'
<1>1. CASE \E t \in Token : ControlArrive(s, "schedule", t)
  BY <1>1, PauseType DEF ControlArrive
<1>2. ASSUME paused[s] # None, NEW n \in Nonce, NEW m \in Nonce,
             NEW at \in Times, NEW deletedAt \in Times,
             NEW d \in {RelayDevice, Owner[paused[s].token]},
             ScheduleCommit(s, Pending("Scheduled", Owner[paused[s].token], n, at),
                               Pending("VaultDeleted", d, m, deletedAt))
      PROVE  TypeOK'
  <2> DEFINE scheduled == Pending("Scheduled", Owner[paused[s].token], n, at)
             deleted == Pending("VaultDeleted", d, m, deletedAt)
  <2>1. /\ Resume(s, "schedule") /\ AppendEvents(<<scheduled>>)
        /\ ValidSchedule(scheduled, deleted)
    BY <1>2 DEF ScheduleCommit
  <2>2. /\ paused' \in [Slot -> Request \cup {None}]
        /\ Owner[paused[s].token] \in Device
    BY <2>1, ResumeType, OwnerAssumption
  <2>3. at \in Nat /\ deletedAt \in Nat
    BY BoundAssumption DEF Times
  <2>4. scheduled \in PendingEvent
    BY <2>2, <2>3 DEF Pending, PendingEvent, EventType
  <2>5. deleted \in DeletedBlob /\ scheduled.at \in Nat
    BY <2>1, <2>3 DEF ValidSchedule, Pending, DeletedBlob
  <2>6. <<scheduled>> \in Seq(PendingEvent)
    BY <2>4
  <2>7. /\ nextSeq' \in Nat \ {0}
        /\ events' \in [1..(nextSeq' - 1) -> Event]
        /\ nonces' \subseteq (Device \cup {RelayDevice}) \X Nonce
    BY <2>1, <2>6, AppendEventsType
  <2>8. /\ pending' = deleted /\ scheduledFor' = scheduled.at /\ cont' = "arm"
        /\ UNCHANGED <<initialized, tombstone, tokens, devices, alarm, firing,
                       grave, now, crashes, wiped>>
    BY <1>2 DEF ScheduleCommit
  <2>. HIDE DEF scheduled, deleted
  <2>. QED BY <2>2, <2>5, <2>7, <2>8 DEF TypeOK, Conts
<1>. QED BY <1>1, <1>2 DEF Schedule

LEMMA CancelType ==
    ASSUME TypeOK, NEW s \in Slot, Cancel(s)
    PROVE  TypeOK'
<1>1. CASE \E t \in Token : ControlArrive(s, "cancel", t)
  BY <1>1, PauseType DEF ControlArrive
<1>2. ASSUME paused[s] # None, NEW n \in Nonce,
             CancelCommit(s, Pending("Cancelled", Owner[paused[s].token], n, None))
      PROVE  TypeOK'
  <2> DEFINE cancelled == Pending("Cancelled", Owner[paused[s].token], n, None)
  <2>1. Resume(s, "cancel") /\ AppendEvents(<<cancelled>>)
    BY <1>2 DEF CancelCommit
  <2>2. /\ paused' \in [Slot -> Request \cup {None}]
        /\ Owner[paused[s].token] \in Device
    BY <2>1, ResumeType, OwnerAssumption
  <2>3. <<cancelled>> \in Seq(PendingEvent)
    BY <2>2 DEF Pending, PendingEvent, EventType
  <2>4. /\ nextSeq' \in Nat \ {0}
        /\ events' \in [1..(nextSeq' - 1) -> Event]
        /\ nonces' \subseteq (Device \cup {RelayDevice}) \X Nonce
    BY <2>1, <2>3, AppendEventsType
  <2>5. /\ cont' = "drop"
        /\ UNCHANGED <<initialized, tombstone, tokens, devices, pending,
                       scheduledFor, alarm, firing, grave, now, crashes, wiped>>
    BY <1>2 DEF CancelCommit
  <2>. QED BY <2>2, <2>4, <2>5 DEF TypeOK, Conts
<1>. QED BY <1>1, <1>2 DEF Cancel

LEMMA RevokeType ==
    ASSUME TypeOK, NEW t \in Token, NEW d \in Device, Revoke(t, d)
    PROVE  TypeOK'
<1>1. /\ tokens' \subseteq Token /\ DOMAIN devices' \subseteq Device
      /\ devices' \in [DOMAIN devices' -> Token]
  BY DEF TypeOK, Revoke, RemoveDevice
<1>. QED BY <1>1 DEF TypeOK, Revoke

LEMMA AlarmEmitType ==
    ASSUME TypeOK, AlarmEmit
    PROVE  TypeOK'
<1>1. pending \in DeletedBlob
  BY DEF TypeOK, AlarmEmit
<1>2. <<pending>> \in Seq(PendingEvent)
  BY <1>1 DEF DeletedBlob, PendingEvent, EventType
<1>3. /\ nextSeq' \in Nat \ {0}
      /\ events' \in [1..(nextSeq' - 1) -> Event]
      /\ nonces' \subseteq (Device \cup {RelayDevice}) \X Nonce
  BY <1>2, AppendEventsType DEF AlarmEmit
<1>4. grave' \in [deletedAt : Nat, vaultDeletedSeq : Nat]
  BY <1>1 DEF AlarmEmit, TypeOK, DeletedBlob
<1>5. /\ cont' = "wipe"
      /\ UNCHANGED <<initialized, tombstone, tokens, devices, pending,
                     scheduledFor, alarm, firing, paused, now, crashes, wiped>>
  BY DEF AlarmEmit
<1>. QED BY <1>3, <1>4, <1>5 DEF TypeOK, Conts

LEMMA AlarmWipeType ==
    ASSUME TypeOK, AlarmWipe
    PROVE  TypeOK'
<1>1. <<>> \in [1..0 -> Event] /\ nextSeq' - 1 = 0
  BY DEF AlarmWipe
<1>2. events' \in [1..(nextSeq' - 1) -> Event]
  BY <1>1 DEF AlarmWipe
<1>3. DOMAIN devices' \subseteq Device /\ devices' \in [DOMAIN devices' -> Token]
  BY DEF AlarmWipe
<1>4. /\ initialized' = FALSE /\ wiped' = TRUE /\ nextSeq' = 1
      /\ cont' = "bury" /\ nonces' = {} /\ tokens' = {} /\ pending' = None
      /\ scheduledFor' = None /\ alarm' = None /\ tombstone' = None
      /\ UNCHANGED <<firing, grave, paused, now, crashes>>
  BY DEF AlarmWipe
<1>5. initialized' \in BOOLEAN /\ wiped' \in BOOLEAN
  BY <1>4
<1>9. /\ nextSeq' \in Nat \ {0} /\ cont' \in Conts
      /\ pending' \in DeletedBlob \cup {None}
      /\ scheduledFor' \in Nat \cup {None} /\ alarm' \in Nat \cup {None}
  BY <1>4 DEF Conts
<1>6. nonces' \subseteq (Device \cup {RelayDevice}) \X Nonce /\ tokens' \subseteq Token
  BY <1>4
<1>7. \A g \in {grave', tombstone'} :
          g \in [deletedAt : Nat, vaultDeletedSeq : Nat] \cup {None}
  BY <1>4 DEF TypeOK
<1>8. /\ firing' \in BOOLEAN /\ now' \in Nat /\ crashes' \in Nat
      /\ paused' \in [Slot -> Request \cup {None}]
  BY <1>4 DEF TypeOK
<1>. QED BY <1>2, <1>3, <1>5, <1>6, <1>7, <1>8, <1>9 DEF TypeOK

\* Storage holds well-typed records and the log has the domain 1..nextSeq-1,
\* whatever requests, alarms and crashes interleave.
THEOREM TypeCorrect == Spec => []TypeOK
<1>1. TypeOK /\ [Next]_vars => TypeOK'
  <2>. SUFFICES ASSUME TypeOK, [Next]_vars PROVE TypeOK'
    OBVIOUS
  <2>1. ASSUME NEW s \in Slot,
               Push(s) \/ Register(s) \/ Schedule(s) \/ Cancel(s)
        PROVE  TypeOK'
    BY <2>1, PushType, RegisterType, ScheduleType, CancelType
  <2>2. ASSUME NEW s \in Slot, Refuse(s) PROVE TypeOK'
    <3>1. paused' \in [Slot -> Request \cup {None}]
      BY <2>2, ResumeType DEF Refuse
    <3>. QED BY <2>2, <3>1 DEF Refuse, TypeOK, storage
  <2>3. ASSUME NEW t \in Token, NEW d \in Device, Revoke(t, d) PROVE TypeOK'
    BY <2>3, RevokeType
  <2>4. CASE ScheduleArm
    BY <2>4 DEF ScheduleArm, TypeOK, storage, Conts
  <2>5. CASE CancelDrop
    BY <2>5 DEF CancelDrop, TypeOK, Conts
  <2>6. CASE CancelDisarm
    BY <2>6 DEF CancelDisarm, TypeOK, storage, Conts
  <2>7. CASE FireAlarm
    BY <2>7 DEF FireAlarm, TypeOK, storage
  <2>8. CASE AlarmNoop
    BY <2>8 DEF AlarmNoop, TypeOK, storage
  <2>9. CASE AlarmEmit
    BY <2>9, AlarmEmitType
  <2>10. CASE AlarmWipe
    BY <2>10, AlarmWipeType
  <2>11. CASE AlarmBury
    BY <2>11 DEF AlarmBury, TypeOK, Conts
  <2>12. CASE Crash
    <3>1. paused' \in [Slot -> Request \cup {None}]
      BY <2>12 DEF Crash
    <3>. QED BY <2>12, <3>1 DEF Crash, TypeOK, storage, Conts
  <2>13. CASE Tick
    BY <2>13 DEF Tick, TypeOK, storage
  <2>14. CASE UNCHANGED vars
    BY <2>14 DEF vars, storage, TypeOK
  <2>. QED
    BY <2>1, <2>2, <2>3, <2>4, <2>5, <2>6, <2>7, <2>8, <2>9, <2>10, <2>11,
       <2>12, <2>13, <2>14 DEF Next
<1>. QED BY InitType, <1>1, PTL DEF Spec

-----------------------------------------------------------------------------
(* The log: no gap, no replay, an exact nonce index *)

\* What a put of stamped events stores: the old events and the batch in order.
LEMMA AppendEventsValue ==
    ASSUME TypeOK, NEW batch \in Seq(PendingEvent), AppendEvents(batch)
    PROVE  /\ \A s \in DOMAIN events : s \in DOMAIN events' /\ events'[s] = events[s]
           /\ \A s \in DOMAIN events' \ DOMAIN events :
                 /\ s \in Nat /\ s - nextSeq + 1 \in DOMAIN batch
                 /\ events'[s] = stampSeq(batch[s - nextSeq + 1], s)
           /\ \A i \in DOMAIN batch :
                 /\ nextSeq + i - 1 \in DOMAIN events' \ DOMAIN events
                 /\ events'[nextSeq + i - 1] = stampSeq(batch[i], nextSeq + i - 1)
<1>1. /\ Len(batch) \in Nat /\ DOMAIN batch = 1..Len(batch)
      /\ nextSeq \in Nat \ {0} /\ DOMAIN events = 1..(nextSeq - 1)
  BY DEF TypeOK
<1>2. DOMAIN events' = DOMAIN events \cup Assigned(Len(batch))
  BY DEF AppendEvents
<1>3. \A s \in DOMAIN events' :
        events'[s] = IF s \in Assigned(Len(batch))
                     THEN stampSeq(batch[s - nextSeq + 1], s) ELSE events[s]
  BY DEF AppendEvents
<1>4. \A s \in DOMAIN events : s \notin Assigned(Len(batch))
  BY <1>1 DEF Assigned
<1>5. \A s \in DOMAIN events : s \in DOMAIN events' /\ events'[s] = events[s]
  BY <1>2, <1>3, <1>4
<1>6. \A s \in Assigned(Len(batch)) : s \in Nat /\ s - nextSeq + 1 \in DOMAIN batch
  BY <1>1 DEF Assigned
<1>7. \A i \in DOMAIN batch : /\ nextSeq + i - 1 \in Assigned(Len(batch))
                             /\ (nextSeq + i - 1) - nextSeq + 1 = i
  BY <1>1 DEF Assigned
<1>8. \A s \in DOMAIN events' \ DOMAIN events :
        /\ s \in Nat /\ s - nextSeq + 1 \in DOMAIN batch
        /\ events'[s] = stampSeq(batch[s - nextSeq + 1], s)
  BY <1>2, <1>3, <1>6
<1>9. ASSUME NEW i \in DOMAIN batch
      PROVE  /\ nextSeq + i - 1 \in DOMAIN events' \ DOMAIN events
             /\ events'[nextSeq + i - 1] = stampSeq(batch[i], nextSeq + i - 1)
  BY <1>2, <1>3, <1>4, <1>7
<1>. QED BY <1>5, <1>8, <1>9

\* A batch whose nonces are fresh, but for a VaultDeleted of the relay, keeps
\* the invariants of the log.
LEMMA AppendEventsLogInv ==
    ASSUME TypeOK, LogInv, NEW batch \in Seq(PendingEvent), AppendEvents(batch),
           \A i \in DOMAIN batch :
              /\ batch[i].device = RelayDevice <=> batch[i].type = "VaultDeleted"
              /\ nonceKey(batch[i]) \in nonces => batch[i].type = "VaultDeleted",
           \A i, j \in DOMAIN batch :
              nonceKey(batch[i]) = nonceKey(batch[j]) => i = j
    PROVE  LogInv'
<1> DEFINE new == DOMAIN events' \ DOMAIN events
           at(s) == batch[s - nextSeq + 1]
<1>1. \A s \in DOMAIN events : s \in DOMAIN events' /\ events'[s] = events[s]
  BY AppendEventsValue
<1>2. \A s \in new : /\ s \in Nat /\ s - nextSeq + 1 \in DOMAIN batch
                    /\ events'[s] = stampSeq(at(s), s)
  BY AppendEventsValue
<1>3. \A i \in DOMAIN batch :
        /\ nextSeq + i - 1 \in new
        /\ events'[nextSeq + i - 1] = stampSeq(batch[i], nextSeq + i - 1)
  BY AppendEventsValue
<1>4. nextSeq \in Nat \ {0} /\ DOMAIN batch \subseteq Nat
  BY DEF TypeOK
<1>5. \A e, s : /\ stampSeq(e, s).seq = s
               /\ stampSeq(e, s).type = e.type
               /\ stampSeq(e, s).device = e.device
               /\ nonceKey(stampSeq(e, s)) = nonceKey(e)
  BY DEF stampSeq, nonceKey
<1>6. SeqContiguous'
  <2>1. DOMAIN events' = 1..(nextSeq' - 1)
    BY AppendEventsType
  <2>2. ASSUME NEW s \in DOMAIN events' PROVE events'[s].seq = s
    <3>1. CASE s \in DOMAIN events
      BY <3>1, <1>1 DEF LogInv, SeqContiguous
    <3>2. CASE s \in new
      BY <3>2, <1>2, <1>5
    <3>. QED BY <3>1, <3>2
  <2>. QED BY <2>1, <2>2 DEF SeqContiguous
<1>7. NonceIndexExact'
  <2>1. nonces' = nonces \cup {nonceKey(batch[i]) : i \in DOMAIN batch}
    BY DEF AppendEvents, NonceKeys
  <2>2. ASSUME NEW s \in DOMAIN events' PROVE nonceKey(events'[s]) \in nonces'
    <3>1. CASE s \in DOMAIN events
      BY <3>1, <1>1, <2>1 DEF LogInv, NonceIndexExact
    <3>2. CASE s \in new
      BY <3>2, <1>2, <1>5, <2>1
    <3>. QED BY <3>1, <3>2
  <2>3. ASSUME NEW k \in nonces'
        PROVE  \E s \in DOMAIN events' : nonceKey(events'[s]) = k
    <3>1. CASE k \in nonces
      BY <3>1, <1>1 DEF LogInv, NonceIndexExact
    <3>2. CASE \E i \in DOMAIN batch : k = nonceKey(batch[i])
      BY <3>2, <1>3, <1>5
    <3>. QED BY <2>1, <3>1, <3>2
  <2>. QED BY <2>2, <2>3 DEF NonceIndexExact
<1>8. NonceUnique'
  <2>. SUFFICES ASSUME NEW r \in DOMAIN events', NEW s \in DOMAIN events',
                       nonceKey(events'[r]) = nonceKey(events'[s])
                PROVE  r = s \/ {events'[r].type, events'[s].type} = {"VaultDeleted"}
    BY DEF NonceUnique
  <2>1. CASE r \in DOMAIN events /\ s \in DOMAIN events
    BY <2>1, <1>1 DEF LogInv, NonceUnique
  <2>2. CASE r \in new /\ s \in new
    <3>1. r - nextSeq + 1 = s - nextSeq + 1
      BY <2>2, <1>2, <1>5
    <3>. QED BY <3>1, <2>2, <1>2, <1>4
  <2>3. ASSUME NEW x \in DOMAIN events, NEW y \in new,
               nonceKey(events'[x]) = nonceKey(events'[y])
        PROVE  events'[x].type = "VaultDeleted" /\ events'[y].type = "VaultDeleted"
    <3>1. nonceKey(at(y)) \in nonces
      BY <2>3, <1>1, <1>2, <1>5 DEF LogInv, NonceIndexExact
    <3>2. at(y).type = "VaultDeleted" /\ at(y).device = RelayDevice
      BY <3>1, <1>2
    <3>3. events[x].device = RelayDevice
      BY <2>3, <3>2, <1>1, <1>2, <1>5 DEF nonceKey
    <3>. QED BY <3>2, <3>3, <1>1, <1>2, <1>5 DEF LogInv, OnlyAlarmSpeaksForRelay
  <2>. QED BY <2>1, <2>2, <2>3
<1>9. OnlyAlarmSpeaksForRelay'
  <2>. SUFFICES ASSUME NEW s \in DOMAIN events'
                PROVE  events'[s].device = RelayDevice
                       <=> events'[s].type = "VaultDeleted"
    BY DEF OnlyAlarmSpeaksForRelay
  <2>1. CASE s \in DOMAIN events
    BY <2>1, <1>1 DEF LogInv, OnlyAlarmSpeaksForRelay
  <2>2. CASE s \in new
    BY <2>2, <1>2, <1>5
  <2>. QED BY <2>1, <2>2
<1>. QED BY <1>6, <1>7, <1>8, <1>9 DEF LogInv

LEMMA InitLogInv == Init => LogInv
BY DEF Init, Unused, LogInv, SeqContiguous, NonceIndexExact, NonceUnique,
       OnlyAlarmSpeaksForRelay

\* LogInv is a predicate of the log, its index and nextSeq alone.
LEMMA LogInvUnchanged ==
    ASSUME LogInv, UNCHANGED <<events, nonces, nextSeq>>
    PROVE  LogInv'
BY DEF LogInv, SeqContiguous, NonceIndexExact, NonceUnique, OnlyAlarmSpeaksForRelay

LEMMA PushLogInv ==
    ASSUME TypeOK, LogInv, NEW s \in Slot, paused[s] # None,
           NEW batch \in PushBodies(paused[s].token), PushCommit(s, batch)
    PROVE  LogInv'
<1>1. Resume(s, "push") /\ AppendEvents(batch) /\ FreshNonces(batch)
  BY DEF PushCommit
<1>2. paused[s].token \in Token
  BY <1>1, ResumeType
<1>3. /\ batch \in Seq(PendingEvent)
      /\ \A i \in DOMAIN batch : /\ batch[i].type = "Item"
                                 /\ batch[i].device # RelayDevice
  BY <1>2, PushBodiesType, OwnerAssumption, SentinelAssumption
<1>. QED BY <1>1, <1>3, AppendEventsLogInv DEF FreshNonces

LEMMA ScheduleLogInv ==
    ASSUME TypeOK, LogInv, NEW s \in Slot, Schedule(s)
    PROVE  LogInv'
<1>1. CASE \E t \in Token : ControlArrive(s, "schedule", t)
  BY <1>1, LogInvUnchanged DEF ControlArrive, Pause, storage
<1>2. ASSUME NEW n \in Nonce, NEW m \in Nonce, NEW at \in Times,
             NEW deleted,
             ScheduleCommit(s, Pending("Scheduled", Owner[paused[s].token], n, at),
                               deleted)
      PROVE  LogInv'
  <2> DEFINE scheduled == Pending("Scheduled", Owner[paused[s].token], n, at)
  <2>1. /\ Resume(s, "schedule") /\ AppendEvents(<<scheduled>>)
        /\ FreshNonces(<<scheduled>>)
    BY <1>2 DEF ScheduleCommit
  <2>2. Owner[paused[s].token] \in Device
    BY <2>1, ResumeType, OwnerAssumption
  <2>3. /\ <<scheduled>> \in Seq(PendingEvent) /\ scheduled.type = "Scheduled"
        /\ scheduled.device # RelayDevice
    BY <2>2, BoundAssumption, SentinelAssumption
       DEF Pending, PendingEvent, EventType, Times
  <2>4. \A i \in DOMAIN <<scheduled>> : <<scheduled>>[i] = scheduled
    OBVIOUS
  <2>. HIDE DEF scheduled
  <2>. QED BY <2>1, <2>3, <2>4, AppendEventsLogInv DEF FreshNonces
<1>. QED BY <1>1, <1>2 DEF Schedule

LEMMA CancelLogInv ==
    ASSUME TypeOK, LogInv, NEW s \in Slot, Cancel(s)
    PROVE  LogInv'
<1>1. CASE \E t \in Token : ControlArrive(s, "cancel", t)
  BY <1>1, LogInvUnchanged DEF ControlArrive, Pause, storage
<1>2. ASSUME NEW n \in Nonce,
             CancelCommit(s, Pending("Cancelled", Owner[paused[s].token], n, None))
      PROVE  LogInv'
  <2> DEFINE cancelled == Pending("Cancelled", Owner[paused[s].token], n, None)
  <2>1. /\ Resume(s, "cancel") /\ AppendEvents(<<cancelled>>)
        /\ FreshNonces(<<cancelled>>)
    BY <1>2 DEF CancelCommit
  <2>2. Owner[paused[s].token] \in Device
    BY <2>1, ResumeType, OwnerAssumption
  <2>3. /\ <<cancelled>> \in Seq(PendingEvent) /\ cancelled.type = "Cancelled"
        /\ cancelled.device # RelayDevice
    BY <2>2, SentinelAssumption DEF Pending, PendingEvent, EventType
  <2>4. \A i \in DOMAIN <<cancelled>> : <<cancelled>>[i] = cancelled
    OBVIOUS
  <2>. HIDE DEF cancelled
  <2>. QED BY <2>1, <2>3, <2>4, AppendEventsLogInv DEF FreshNonces
<1>. QED BY <1>1, <1>2 DEF Cancel

LEMMA AlarmEmitLogInv ==
    ASSUME TypeOK, LogInv, AlarmEmit
    PROVE  LogInv'
<1>1. pending \in DeletedBlob /\ AppendEvents(<<pending>>)
  BY DEF TypeOK, AlarmEmit
<1>2. <<pending>> \in Seq(PendingEvent)
  BY <1>1 DEF DeletedBlob, PendingEvent, EventType
<1>3. pending.type = "VaultDeleted" /\ pending.device = RelayDevice
  BY <1>1 DEF DeletedBlob
<1>4. DOMAIN <<pending>> = {1} /\ <<pending>>[1] = pending
  OBVIOUS
<1>. QED BY <1>1, <1>2, <1>3, <1>4, AppendEventsLogInv

\* Every step keeps the invariants of the log.
LEMMA NextLogInv ==
    ASSUME TypeOK, LogInv, [Next]_vars
    PROVE  LogInv'
<1>1. ASSUME NEW s \in Slot, Push(s) PROVE LogInv'
  BY <1>1, PushLogInv, LogInvUnchanged DEF Push, PushArrive, Pause, storage
<1>2. ASSUME NEW s \in Slot, Register(s) PROVE LogInv'
  BY <1>2, LogInvUnchanged
     DEF Register, ControlArrive, Pause, RegisterCommit, storage
<1>3. ASSUME NEW s \in Slot, Schedule(s) \/ Cancel(s) PROVE LogInv'
  BY <1>3, ScheduleLogInv, CancelLogInv
<1>4. ASSUME NEW s \in Slot, Refuse(s) PROVE LogInv'
  BY <1>4, LogInvUnchanged DEF Refuse, storage
<1>5. ASSUME NEW t \in Token, NEW d \in Device, Revoke(t, d) PROVE LogInv'
  BY <1>5, LogInvUnchanged DEF Revoke
<1>6. CASE ScheduleArm \/ CancelDrop \/ CancelDisarm
  BY <1>6, LogInvUnchanged DEF ScheduleArm, CancelDrop, CancelDisarm, storage
<1>7. CASE FireAlarm \/ AlarmNoop \/ AlarmBury
  BY <1>7, LogInvUnchanged DEF FireAlarm, AlarmNoop, AlarmBury, storage
<1>8. CASE AlarmEmit
  BY <1>8, AlarmEmitLogInv
<1>9. CASE AlarmWipe
  BY <1>9 DEF AlarmWipe, LogInv, SeqContiguous, NonceIndexExact, NonceUnique,
              OnlyAlarmSpeaksForRelay
<1>10. CASE Crash \/ Tick \/ UNCHANGED vars
  BY <1>10, LogInvUnchanged DEF Crash, Tick, vars, storage
<1>. QED BY <1>1, <1>2, <1>3, <1>4, <1>5, <1>6, <1>7, <1>8, <1>9, <1>10 DEF Next

\* The inductive invariant of the log: no gap, no replay, an exact nonce index
\* and no VaultDeleted but the alarm's.
THEOREM LogCorrect == Spec => []LogInv
<1>1. TypeOK /\ LogInv /\ [Next]_vars => LogInv'
  BY NextLogInv
<1>. QED BY InitLogInv, <1>1, TypeCorrect, PTL DEF Spec

\* The log has no gap: a pull from any cursor misses nothing.
THEOREM LogContiguous == Spec => []SeqContiguous
<1>1. LogInv => SeqContiguous
  BY DEF LogInv
<1>. QED BY <1>1, LogCorrect, PTL

\* No client event is accepted twice, whatever was retried or interrupted.
THEOREM NoReplay == Spec => []NonceUnique
<1>1. LogInv => NonceUnique
  BY DEF LogInv
<1>. QED BY <1>1, LogCorrect, PTL

\* The nonce keys are exactly those of the stored events.
THEOREM IndexExact == Spec => []NonceIndexExact
<1>1. LogInv => NonceIndexExact
  BY DEF LogInv
<1>. QED BY <1>1, LogCorrect, PTL

\* Nothing but the alarm's VaultDeleted is in the log under RELAY_DEVICE_ID.
THEOREM OnlyAlarmSpeaks == Spec => []OnlyAlarmSpeaksForRelay
<1>1. LogInv => OnlyAlarmSpeaksForRelay
  BY DEF LogInv
<1>. QED BY <1>1, LogCorrect, PTL

-----------------------------------------------------------------------------
(* The log only grows, but for deleteAll() *)

\* No handler moves, changes or drops an accepted event.
THEOREM LogGrows == Spec => LogAppendOnly
<1> DEFINE Kept == \A s \in DOMAIN events : /\ s \in DOMAIN events'
                                          /\ events'[s] = events[s]
<1>1. ASSUME TypeOK, [Next]_vars PROVE AlarmWipe \/ Kept
  <2>1. ASSUME UNCHANGED events PROVE Kept
    BY <2>1
  <2>2. ASSUME NEW batch \in Seq(PendingEvent), AppendEvents(batch) PROVE Kept
    BY <2>2, <1>1, AppendEventsValue
  <2>3. ASSUME NEW s \in Slot, Push(s) PROVE Kept
    <3>1. ASSUME NEW t \in Token, PushArrive(s, t) PROVE Kept
      BY <3>1, <2>1 DEF PushArrive, Pause, storage
    <3>2. ASSUME NEW batch \in PushBodies(paused[s].token), PushCommit(s, batch)
          PROVE  Kept
      <4>1. paused[s].token \in Token
        BY <1>1, <3>2, ResumeType DEF PushCommit
      <4>. QED BY <4>1, <3>2, <2>2, PushBodiesType DEF PushCommit
    <3>. QED BY <2>3, <3>1, <3>2 DEF Push
  <2>4. ASSUME NEW s \in Slot, Register(s) PROVE Kept
    BY <2>4, <2>1 DEF Register, ControlArrive, Pause, RegisterCommit, storage
  <2>5. ASSUME NEW s \in Slot, Schedule(s) PROVE Kept
    <3>1. ASSUME NEW t \in Token, ControlArrive(s, "schedule", t) PROVE Kept
      BY <3>1, <2>1 DEF ControlArrive, Pause, storage
    <3>2. ASSUME NEW n \in Nonce, NEW at \in Times, NEW deleted,
                 ScheduleCommit(s, Pending("Scheduled", Owner[paused[s].token], n, at),
                                   deleted)
          PROVE  Kept
      <4>1. Owner[paused[s].token] \in Device /\ at \in Nat
        BY <1>1, <3>2, ResumeType, OwnerAssumption, BoundAssumption
           DEF ScheduleCommit, Times
      <4>2. <<Pending("Scheduled", Owner[paused[s].token], n, at)>> \in Seq(PendingEvent)
        BY <4>1 DEF Pending, PendingEvent, EventType
      <4>. QED BY <4>2, <3>2, <2>2 DEF ScheduleCommit
    <3>. QED BY <2>5, <3>1, <3>2 DEF Schedule
  <2>6. ASSUME NEW s \in Slot, Cancel(s) PROVE Kept
    <3>1. ASSUME NEW t \in Token, ControlArrive(s, "cancel", t) PROVE Kept
      BY <3>1, <2>1 DEF ControlArrive, Pause, storage
    <3>2. ASSUME NEW n \in Nonce,
                 CancelCommit(s, Pending("Cancelled", Owner[paused[s].token], n, None))
          PROVE  Kept
      <4>1. Owner[paused[s].token] \in Device
        BY <1>1, <3>2, ResumeType, OwnerAssumption DEF CancelCommit
      <4>2. <<Pending("Cancelled", Owner[paused[s].token], n, None)>> \in Seq(PendingEvent)
        BY <4>1 DEF Pending, PendingEvent, EventType
      <4>. QED BY <4>2, <3>2, <2>2 DEF CancelCommit
    <3>. QED BY <2>6, <3>1, <3>2 DEF Cancel
  <2>7. CASE AlarmEmit
    <3>1. <<pending>> \in Seq(PendingEvent)
      BY <2>7, <1>1 DEF AlarmEmit, TypeOK, DeletedBlob, PendingEvent, EventType
    <3>. QED BY <3>1, <2>7, <2>2 DEF AlarmEmit
  <2>8. ASSUME NEW s \in Slot, Refuse(s) PROVE Kept
    BY <2>8, <2>1 DEF Refuse, storage
  <2>9. ASSUME NEW t \in Token, NEW d \in Device, Revoke(t, d) PROVE Kept
    BY <2>9, <2>1 DEF Revoke
  <2>10. CASE ScheduleArm \/ CancelDrop \/ CancelDisarm
    BY <2>10, <2>1 DEF ScheduleArm, CancelDrop, CancelDisarm, storage
  <2>11. CASE FireAlarm \/ AlarmNoop \/ AlarmBury
    BY <2>11, <2>1 DEF FireAlarm, AlarmNoop, AlarmBury, storage
  <2>12. CASE Crash \/ Tick \/ UNCHANGED vars
    BY <2>12, <2>1 DEF Crash, Tick, vars, storage
  <2>. QED
    BY <1>1, <2>3, <2>4, <2>5, <2>6, <2>7, <2>8, <2>9, <2>10, <2>11, <2>12
       DEF Next
<1>2. TypeOK /\ [Next]_vars => [AlarmWipe \/ Kept]_vars
  BY <1>1
<1>. QED BY <1>2, TypeCorrect, PTL DEF Spec, LogAppendOnly

-----------------------------------------------------------------------------
(* Tokens and devices *)

\* A device that is unknown, or known by this very token, may be added.
LEMMA AddDeviceMatch ==
    ASSUME TypeOK, TokensMatchDevices, NEW t \in Token, AddDevice(t, Owner[t])
    PROVE  TokensMatchDevices'
<1>1. Owner[t] \in DOMAIN devices => devices[Owner[t]] = t
  BY OwnerAssumption DEF TypeOK, TokensMatchDevices
<1>2. DOMAIN devices' = DOMAIN devices \cup {Owner[t]}
  BY DEF AddDevice
<1>3. \A x \in DOMAIN devices' :
        devices'[x] = IF x = Owner[t] THEN t ELSE devices[x]
  BY DEF AddDevice
<1>4. tokens' = {devices'[d] : d \in DOMAIN devices'}
  BY <1>1, <1>2, <1>3 DEF AddDevice, TokensMatchDevices
<1>5. \A d \in DOMAIN devices' : Owner[devices'[d]] = d
  BY <1>2, <1>3 DEF TokensMatchDevices
<1>. QED BY <1>4, <1>5 DEF TokensMatchDevices

\* Every valid token can be revoked and every registered device has a valid
\* token, also when two bootstraps or a register and a revoke race.
THEOREM TokensMatch == Spec => []TokensMatchDevices
<1>1. Init => TokensMatchDevices
  BY DEF Init, Unused, TokensMatchDevices
<1>2. ASSUME TypeOK, TokensMatchDevices, [Next]_vars PROVE TokensMatchDevices'
  <2>1. ASSUME UNCHANGED <<tokens, devices>> PROVE TokensMatchDevices'
    BY <2>1, <1>2 DEF TokensMatchDevices
  <2>2. ASSUME NEW s \in Slot, Push(s) PROVE TokensMatchDevices'
    <3>1. ASSUME NEW t \in Token, PushArrive(s, t) PROVE TokensMatchDevices'
      BY <3>1, <2>1 DEF PushArrive, Pause, storage
    <3>2. ASSUME NEW batch \in PushBodies(paused[s].token), PushCommit(s, batch)
          PROVE  TokensMatchDevices'
      <4>1. paused[s].token \in Token
        BY <1>2, <3>2, ResumeType DEF PushCommit
      <4>2. batch[1].device = Owner[paused[s].token]
        BY <4>1, <3>2, PushBodiesType
      <4>3. CASE paused[s].init
        BY <4>3, <3>2, <2>1 DEF PushCommit
      <4>4. CASE ~paused[s].init
        <5>1. AddDevice(paused[s].token, Owner[paused[s].token])
          BY <4>2, <4>4, <3>2 DEF PushCommit
        <5>. QED BY <5>1, <4>1, <1>2, AddDeviceMatch
      <4>. QED BY <4>3, <4>4
    <3>. QED BY <2>2, <3>1, <3>2 DEF Push
  <2>3. ASSUME NEW s \in Slot, Register(s) PROVE TokensMatchDevices'
    BY <2>3, <2>1, <1>2, AddDeviceMatch
       DEF Register, ControlArrive, Pause, RegisterCommit, storage
  <2>4. ASSUME NEW s \in Slot, Schedule(s) \/ Cancel(s) \/ Refuse(s)
        PROVE  TokensMatchDevices'
    BY <2>4, <2>1 DEF Schedule, Cancel, Refuse, ControlArrive, Pause,
                      ScheduleCommit, CancelCommit, storage
  <2>5. ASSUME NEW t \in Token, NEW d \in Device, Revoke(t, d)
        PROVE  TokensMatchDevices'
    <3>1. d \in DOMAIN devices /\ tokens' = tokens \ {devices[d]}
          /\ devices' = [x \in DOMAIN devices \ {d} |-> devices[x]]
      BY <2>5 DEF Revoke, RemoveDevice
    <3>2. \A x \in DOMAIN devices : devices[x] = devices[d] => x = d
      BY <3>1, <1>2 DEF TokensMatchDevices
    <3>. QED BY <3>1, <3>2, <1>2 DEF TokensMatchDevices
  <2>6. CASE ScheduleArm \/ CancelDrop \/ CancelDisarm
    BY <2>6, <2>1 DEF ScheduleArm, CancelDrop, CancelDisarm, storage
  <2>7. CASE FireAlarm \/ AlarmNoop \/ AlarmEmit \/ AlarmBury
    BY <2>7, <2>1 DEF FireAlarm, AlarmNoop, AlarmEmit, AlarmBury, storage
  <2>8. CASE AlarmWipe
    BY <2>8 DEF AlarmWipe, TokensMatchDevices
  <2>9. CASE Crash \/ Tick \/ UNCHANGED vars
    BY <2>9, <2>1 DEF Crash, Tick, vars, storage
  <2>. QED
    BY <1>2, <2>2, <2>3, <2>4, <2>5, <2>6, <2>7, <2>8, <2>9 DEF Next
<1>. QED BY <1>1, <1>2, TypeCorrect, PTL DEF Spec
-----------------------------------------------------------------------------
(* The tombstone and the pending deletion *)

\* What the alarm handler relies on between its writes: it runs on a delivered
\* alarm, holds the record it will bury, and finds no tombstone to overwrite.
WipeInv ==
    cont \in {"wipe", "bury"} => /\ tombstone = None /\ grave # None /\ firing

\* Nothing comes between the writes of the alarm handler but the clock, a
\* crash and the handler itself.
LEMMA WipeInvariant == Spec => []WipeInv
<1>1. Init => WipeInv
  BY DEF Init, WipeInv
<1>2. ASSUME TypeOK, WipeInv, [Next]_vars PROVE WipeInv'
  <2>1. ASSUME NEW s \in Slot,
               Push(s) \/ Register(s) \/ Schedule(s) \/ Cancel(s) \/ Refuse(s)
        PROVE  WipeInv'
    <3>1. GateOpen /\ (cont' = cont \/ cont' \in {"arm", "drop"})
      BY <2>1 DEF Push, PushArrive, PushCommit, Register, ControlArrive,
                  RegisterCommit, Schedule, ScheduleCommit, Cancel, CancelCommit,
                  Refuse, Pause, Resume
    <3>. QED BY <3>1 DEF GateOpen, WipeInv
  <2>2. ASSUME NEW t \in Token, NEW d \in Device, Revoke(t, d) PROVE WipeInv'
    BY <2>2 DEF Revoke, GateOpen, WipeInv
  <2>3. CASE ScheduleArm \/ CancelDrop \/ CancelDisarm \/ AlarmNoop \/ AlarmBury \/ Crash
    <3>1. cont' \in {"none", "disarm"} \/ (AlarmNoop /\ cont' = "none")
      BY <2>3 DEF ScheduleArm, CancelDrop, CancelDisarm, AlarmNoop, AlarmBury,
                  Crash, GateOpen
    <3>. QED BY <3>1 DEF WipeInv
  <2>4. CASE FireAlarm \/ Tick \/ UNCHANGED vars
    BY <2>4, <1>2 DEF FireAlarm, Tick, vars, storage, WipeInv
  <2>5. CASE AlarmEmit
    <3>1. /\ grave' \in [deletedAt : Nat, vaultDeletedSeq : Nat]
          /\ grave' = [deletedAt |-> pending.at, vaultDeletedSeq |-> nextSeq]
      BY <2>5, <1>2 DEF AlarmEmit, TypeOK, DeletedBlob
    <3>2. grave' # None
      BY <3>1, SentinelAssumption
    <3>3. tombstone' = None /\ firing'
      BY <2>5 DEF AlarmEmit, IsTombstoned
    <3>. QED BY <3>2, <3>3 DEF WipeInv
  <2>6. CASE AlarmWipe
    BY <2>6, <1>2 DEF AlarmWipe, WipeInv
  <2>. QED BY <1>2, <2>1, <2>2, <2>3, <2>4, <2>5, <2>6 DEF Next
<1>. QED BY <1>1, <1>2, TypeCorrect, PTL DEF Spec

\* No redelivered alarm, and no request that was waiting for its body when the
\* vault died, removes or rewrites a tombstone.
THEOREM TombstoneFinal == Spec => TombstoneIsFinal
<1> DEFINE Final == tombstone # None => tombstone' = tombstone
<1>1. ASSUME WipeInv, [Next]_vars PROVE Final
  <2>1. ASSUME NEW s \in Slot,
               Push(s) \/ Register(s) \/ Schedule(s) \/ Cancel(s) \/ Refuse(s)
        PROVE  Final
    BY <2>1 DEF Push, PushArrive, PushCommit, Register, ControlArrive,
                RegisterCommit, Schedule, ScheduleCommit, Cancel, CancelCommit,
                Refuse, Pause, storage
  <2>2. ASSUME NEW t \in Token, NEW d \in Device, Revoke(t, d) PROVE Final
    BY <2>2 DEF Revoke
  <2>3. CASE ScheduleArm \/ CancelDrop \/ CancelDisarm
    BY <2>3 DEF ScheduleArm, CancelDrop, CancelDisarm, storage
  <2>4. CASE FireAlarm \/ AlarmNoop \/ AlarmEmit
    BY <2>4 DEF FireAlarm, AlarmNoop, AlarmEmit, storage
  <2>5. CASE AlarmWipe \/ AlarmBury
    BY <2>5, <1>1 DEF AlarmWipe, AlarmBury, WipeInv
  <2>6. CASE Crash \/ Tick \/ UNCHANGED vars
    BY <2>6 DEF Crash, Tick, vars, storage
  <2>. QED BY <1>1, <2>1, <2>2, <2>3, <2>4, <2>5, <2>6 DEF Next
<1>2. WipeInv /\ [Next]_vars => [Final]_vars
  BY <1>1
<1>. QED BY <1>2, WipeInvariant, PTL DEF Spec, TombstoneIsFinal

\* A wiped vault never comes back, provided that the object is not evicted
\* between deleteAll() and the put of the tombstone.
THEOREM DeletionPermanent ==
    ASSUME "bury" \notin CrashPoints
    PROVE  Spec => []DeletionIsPermanent
<1> DEFINE Dead == tombstone # None \/ cont = "bury"
<1>1. Init => DeletionIsPermanent
  BY DEF Init, DeletionIsPermanent
<1>2. ASSUME WipeInv, DeletionIsPermanent, [Next]_vars PROVE DeletionIsPermanent'
  <2>1. wiped => Dead
    BY <1>2 DEF DeletionIsPermanent, IsTombstoned
  <2>2. SUFFICES wiped' => tombstone' # None \/ cont' = "bury"
    BY DEF DeletionIsPermanent, IsTombstoned
  <2>3. ASSUME NEW s \in Slot,
               Push(s) \/ Register(s) \/ Schedule(s) \/ Cancel(s) \/ Refuse(s)
        PROVE  wiped' = wiped /\ tombstone' = tombstone /\ cont = "none"
    BY <2>3 DEF Push, PushArrive, PushCommit, Register, ControlArrive,
                RegisterCommit, Schedule, ScheduleCommit, Cancel, CancelCommit,
                Refuse, Pause, Resume, storage, GateOpen
  <2>4. ASSUME NEW t \in Token, NEW d \in Device, Revoke(t, d)
        PROVE  wiped' = wiped /\ tombstone' = tombstone /\ cont = "none"
    BY <2>4 DEF Revoke, GateOpen
  <2>5. CASE ScheduleArm \/ CancelDrop \/ CancelDisarm \/ AlarmNoop \/ AlarmEmit
    BY <2>5, <2>1 DEF ScheduleArm, CancelDrop, CancelDisarm, AlarmNoop,
                      AlarmEmit, storage, GateOpen
  <2>6. CASE AlarmWipe
    BY <2>6 DEF AlarmWipe
  <2>7. CASE AlarmBury
    BY <2>7, <1>2 DEF AlarmBury, WipeInv
  <2>8. CASE Crash
    <3>1. cont # "bury" /\ wiped' = wiped /\ tombstone' = tombstone
      BY <2>8 DEF Crash, storage
    <3>. QED BY <3>1, <2>1
  <2>9. CASE FireAlarm \/ Tick \/ UNCHANGED vars
    BY <2>9, <2>1 DEF FireAlarm, Tick, vars, storage
  <2>. QED
    BY <1>2, <2>1, <2>3, <2>4, <2>5, <2>6, <2>7, <2>8, <2>9 DEF Next
<1>. QED BY <1>1, <1>2, WipeInvariant, PTL DEF Spec

\* The two keys of a pending deletion are written and removed together.
PairInv == (pending = None) = (scheduledFor = None)

LEMMA PairInvariant == Spec => []PairInv
<1>1. Init => PairInv
  BY DEF Init, Unused, PairInv
<1>2. ASSUME TypeOK, PairInv, [Next]_vars PROVE PairInv'
  <2>1. ASSUME UNCHANGED <<pending, scheduledFor>> PROVE PairInv'
    BY <2>1, <1>2 DEF PairInv
  <2>2. ASSUME NEW s \in Slot, Push(s) \/ Register(s) \/ Cancel(s) \/ Refuse(s)
        PROVE  PairInv'
    BY <2>2, <2>1 DEF Push, PushArrive, PushCommit, Register, ControlArrive,
                      RegisterCommit, Cancel, CancelCommit, Refuse, Pause, storage
  <2>3. ASSUME NEW s \in Slot, Schedule(s) PROVE PairInv'
    <3>1. ASSUME NEW t \in Token, ControlArrive(s, "schedule", t) PROVE PairInv'
      BY <3>1, <2>1 DEF ControlArrive, Pause, storage
    <3>2. ASSUME NEW scheduled, NEW n \in Nonce, NEW m \in Nonce, NEW at \in Times,
                 NEW deletedAt \in Times,
                 NEW d \in {RelayDevice, Owner[paused[s].token]},
                 scheduled.at = at,
                 ScheduleCommit(s, scheduled, Pending("VaultDeleted", d, m, deletedAt))
          PROVE  PairInv'
      <4> DEFINE deleted == Pending("VaultDeleted", d, m, deletedAt)
      <4>1. pending' = deleted /\ scheduledFor' = at /\ d = RelayDevice
        BY <3>2 DEF ScheduleCommit, ValidSchedule, Pending
      <4>2. at \in Nat /\ deletedAt \in Nat
        BY BoundAssumption DEF Times
      <4>3. deleted \in [type : {"VaultDeleted"}, device : {RelayDevice},
                         nonce : Nonce, at : Nat]
        BY <4>1, <4>2 DEF Pending
      <4>. HIDE DEF deleted
      <4>4. pending' # None /\ scheduledFor' # None
        BY <4>1, <4>2, <4>3, SentinelAssumption
      <4>. QED BY <4>4 DEF PairInv
    <3>. QED BY <2>3, <3>1, <3>2 DEF Schedule, Pending
  <2>4. ASSUME NEW t \in Token, NEW d \in Device, Revoke(t, d) PROVE PairInv'
    BY <2>4, <2>1 DEF Revoke
  <2>5. CASE CancelDrop \/ AlarmWipe
    BY <2>5 DEF CancelDrop, AlarmWipe, PairInv
  <2>6. CASE ScheduleArm \/ CancelDisarm \/ FireAlarm \/ AlarmNoop \/ AlarmEmit \/ AlarmBury
    BY <2>6, <2>1 DEF ScheduleArm, CancelDisarm, FireAlarm, AlarmNoop, AlarmEmit,
                      AlarmBury, storage
  <2>7. CASE Crash \/ Tick \/ UNCHANGED vars
    BY <2>7, <2>1 DEF Crash, Tick, vars, storage
  <2>. QED BY <1>2, <2>2, <2>3, <2>4, <2>5, <2>6, <2>7 DEF Next
<1>. QED BY <1>1, <1>2, TypeCorrect, PTL DEF Spec

\* A pending deletion is never replaced by another one, also when two schedule
\* requests were both waiting for their bodies.
THEOREM OneDeletion == Spec => OneDeletionAtATime
<1> DEFINE Same == pending # None /\ pending' # None => pending' = pending
<1>1. ASSUME PairInv, [Next]_vars PROVE Same
  <2>1. ASSUME NEW s \in Slot, Push(s) \/ Register(s) \/ Cancel(s) \/ Refuse(s)
        PROVE  Same
    BY <2>1 DEF Push, PushArrive, PushCommit, Register, ControlArrive,
                RegisterCommit, Cancel, CancelCommit, Refuse, Pause, storage
  <2>2. ASSUME NEW s \in Slot, Schedule(s) PROVE Same
    BY <2>2, <1>1 DEF Schedule, ControlArrive, Pause, storage, ScheduleCommit,
                      NothingScheduled, PairInv
  <2>3. ASSUME NEW t \in Token, NEW d \in Device, Revoke(t, d) PROVE Same
    BY <2>3 DEF Revoke
  <2>4. CASE ScheduleArm \/ CancelDrop \/ CancelDisarm
    BY <2>4 DEF ScheduleArm, CancelDrop, CancelDisarm, storage
  <2>5. CASE FireAlarm \/ AlarmNoop \/ AlarmEmit \/ AlarmWipe \/ AlarmBury
    BY <2>5 DEF FireAlarm, AlarmNoop, AlarmEmit, AlarmWipe, AlarmBury, storage
  <2>6. CASE Crash \/ Tick \/ UNCHANGED vars
    BY <2>6 DEF Crash, Tick, vars, storage
  <2>. QED BY <1>1, <2>1, <2>2, <2>3, <2>4, <2>5, <2>6 DEF Next
<1>2. PairInv /\ [Next]_vars => [Same]_vars
  BY <1>1
<1>. QED BY <1>2, PairInvariant, PTL DEF Spec, OneDeletionAtATime
=============================================================================
