------------------------ MODULE VaultDeletionProofs ------------------------
(***************************************************************************)
(* The scheduled deletion of VaultRelay, for any number of devices,        *)
(* tokens, requests and events: that it was authorised, that something     *)
(* carries it out, that it does not come too early or after a cancel, and  *)
(* that the relay as a whole behaves as the abstract EventLog.             *)
(*                                                                         *)
(* Where the code's awaited writes are not one transaction, a theorem      *)
(* assumes that the object is not evicted between them: the assumption on  *)
(* CrashPoints names the write that would be missing.                      *)
(***************************************************************************)
EXTENDS VaultRelayProofs

-----------------------------------------------------------------------------
(* The steps of the relay, as far as the log and the deletion are concerned *)

Control == {"Scheduled", "Cancelled"}

\* A put behind the log, of events of one type, by a handler of its own.
Puts(type) ==
    /\ cont = "none"
    /\ nextSeq' \in Nat /\ nextSeq' > nextSeq
    /\ DOMAIN events' = 1..(nextSeq' - 1)
    /\ \A s \in DOMAIN events : s \in DOMAIN events' /\ events'[s] = events[s]
    /\ \A s \in DOMAIN events' \ DOMAIN events : events'[s].type = type
    /\ UNCHANGED <<tombstone, alarm, now, wiped>>

PutItems == /\ Puts("Item")
            /\ \/ initialized'
               \/ \E s \in Slot : /\ paused[s] # None /\ paused[s].init
                                 /\ initialized' = initialized
            /\ UNCHANGED <<pending, scheduledFor, firing, cont, grave>>

PutSchedule == /\ Puts("Scheduled") /\ cont' = "arm"
               /\ nextSeq' = nextSeq + 1 /\ events'[nextSeq].at = scheduledFor'
               /\ scheduledFor = None /\ pending'.at = scheduledFor'
               /\ \E s \in Slot : paused[s] # None /\ paused[s].op # "push"
               /\ UNCHANGED <<initialized, firing, grave>>

PutCancel == /\ Puts("Cancelled") /\ cont' = "drop"
             /\ pending # None
             /\ UNCHANGED <<initialized, pending, scheduledFor, firing, grave>>

PutDeleted == /\ Puts("VaultDeleted") /\ AlarmEmit
              /\ nextSeq' = nextSeq + 1 /\ events'[nextSeq].at = pending.at

\* Neither the log nor the deletion moves.
Still == UNCHANGED <<initialized, tombstone, nextSeq, events, pending, scheduledFor,
                     alarm, firing, cont, grave, now, wiped>>

\* What a put of a single event stores.
LEMMA PutOne ==
    ASSUME TypeOK, NEW e \in PendingEvent, AppendEvents(<<e>>)
    PROVE  /\ nextSeq' = nextSeq + 1 /\ nextSeq' \in Nat /\ nextSeq' > nextSeq
           /\ DOMAIN events' = 1..(nextSeq' - 1)
           /\ \A s \in DOMAIN events : s \in DOMAIN events' /\ events'[s] = events[s]
           /\ \A s \in DOMAIN events' \ DOMAIN events : events'[s].type = e.type
           /\ events'[nextSeq].at = e.at
<1>1. <<e>> \in Seq(PendingEvent) /\ Len(<<e>>) = 1 /\ DOMAIN <<e>> = {1} /\ <<e>>[1] = e
  OBVIOUS
<1>2. nextSeq' = nextSeq + 1 /\ nextSeq' \in Nat \ {0} /\ DOMAIN events' = 1..(nextSeq' - 1)
  BY <1>1, AppendEventsType
<1>3. nextSeq \in Nat
  BY DEF TypeOK
<1>4. \A s \in DOMAIN events : s \in DOMAIN events' /\ events'[s] = events[s]
  BY <1>1, AppendEventsValue
<1>5. \A s \in DOMAIN events' \ DOMAIN events :
        s - nextSeq + 1 \in DOMAIN <<e>> /\ events'[s] = stampSeq(<<e>>[s - nextSeq + 1], s)
  BY <1>1, AppendEventsValue
<1>6. nextSeq + 1 - 1 \in DOMAIN events' \ DOMAIN events
      /\ events'[nextSeq + 1 - 1] = stampSeq(<<e>>[1], nextSeq + 1 - 1)
  BY <1>1, AppendEventsValue
<1>7. \A s \in DOMAIN events' \ DOMAIN events : events'[s].type = e.type
  <2>1. ASSUME NEW s \in DOMAIN events' \ DOMAIN events PROVE events'[s].type = e.type
    <3>1. s - nextSeq + 1 = 1 /\ events'[s] = stampSeq(<<e>>[s - nextSeq + 1], s)
      BY <1>1, <1>5
    <3>2. events'[s] = stampSeq(e, s)
      BY <3>1, <1>1
    <3>. QED BY <3>2 DEF stampSeq
  <2>. QED BY <2>1
<1>8. events'[nextSeq].at = e.at
  BY <1>1, <1>3, <1>6 DEF stampSeq
<1>. QED BY <1>2, <1>3, <1>4, <1>7, <1>8

\* POST /events: its batch, which is not empty, holds no control event.
LEMMA PushSteps ==
    ASSUME TypeOK, NEW s \in Slot, Push(s)
    PROVE  Still \/ PutItems
<1>1. ASSUME NEW t \in Token, PushArrive(s, t) PROVE Still
  BY <1>1 DEF PushArrive, Pause, storage, Still
<1>2. ASSUME NEW batch \in PushBodies(paused[s].token), PushCommit(s, batch)
      PROVE  PutItems
  <2>1. /\ Resume(s, "push") /\ AppendEvents(batch) /\ paused[s].token \in Token
        /\ paused[s] # None /\ cont = "none"
    BY <1>2, ResumeType DEF PushCommit, Resume, GateOpen
  <2>2. /\ batch \in Seq(PendingEvent) /\ Len(batch) \in Nat \ {0}
        /\ \A i \in DOMAIN batch : batch[i].type = "Item"
    BY <2>1, <1>2, PushBodiesType
  <2>3. nextSeq' = nextSeq + Len(batch) /\ DOMAIN events' = 1..(nextSeq' - 1)
    BY <2>1, <2>2, AppendEventsType
  <2>4. nextSeq' \in Nat /\ nextSeq' > nextSeq
    BY <2>2, <2>3 DEF TypeOK
  <2>5. \A n \in DOMAIN events : n \in DOMAIN events' /\ events'[n] = events[n]
    BY <2>1, <2>2, AppendEventsValue
  <2>6. ASSUME NEW n \in DOMAIN events' \ DOMAIN events PROVE events'[n].type = "Item"
    <3>1. /\ n - nextSeq + 1 \in DOMAIN batch
          /\ events'[n] = stampSeq(batch[n - nextSeq + 1], n)
      BY <2>1, <2>2, AppendEventsValue
    <3>. QED BY <3>1, <2>2 DEF stampSeq
  <2>7. initialized' \/ (paused[s].init /\ initialized' = initialized)
    <3>1. CASE paused[s].init
      BY <3>1, <1>2 DEF PushCommit
    <3>2. CASE ~paused[s].init
      BY <3>2, <1>2 DEF PushCommit
    <3>. QED BY <3>1, <3>2
  <2>8. UNCHANGED <<tombstone, pending, scheduledFor, alarm, firing, cont, grave, now, wiped>>
    BY <1>2 DEF PushCommit
  <2>. QED BY <2>1, <2>3, <2>4, <2>5, <2>6, <2>7, <2>8 DEF PutItems, Puts
<1>. QED BY <1>1, <1>2 DEF Push

LEMMA RegisterSteps ==
    ASSUME NEW s \in Slot, Register(s)
    PROVE  Still
BY DEF Register, ControlArrive, Pause, RegisterCommit, storage, Still

LEMMA ScheduleSteps ==
    ASSUME TypeOK, NEW s \in Slot, Schedule(s)
    PROVE  Still \/ PutSchedule
<1>1. ASSUME NEW t \in Token, ControlArrive(s, "schedule", t) PROVE Still
  BY <1>1 DEF ControlArrive, Pause, storage, Still
<1>2. ASSUME NEW n \in Nonce, NEW m \in Nonce, NEW at \in Times, NEW deletedAt \in Times,
             NEW d \in {RelayDevice, Owner[paused[s].token]},
             ScheduleCommit(s, Pending("Scheduled", Owner[paused[s].token], n, at),
                               Pending("VaultDeleted", d, m, deletedAt))
      PROVE  PutSchedule
  <2> DEFINE scheduled == Pending("Scheduled", Owner[paused[s].token], n, at)
             deleted == Pending("VaultDeleted", d, m, deletedAt)
  <2>1. /\ Resume(s, "schedule") /\ ValidSchedule(scheduled, deleted)
        /\ AppendEvents(<<scheduled>>)
        /\ scheduledFor = None /\ pending' = deleted /\ scheduledFor' = scheduled.at
        /\ cont' = "arm"
        /\ UNCHANGED <<initialized, tombstone, alarm, firing, grave, now, wiped>>
    BY <1>2 DEF ScheduleCommit, NothingScheduled
  <2>2. cont = "none" /\ paused[s] # None /\ paused[s].op = "schedule"
    BY <2>1 DEF Resume, GateOpen
  <2>3. Owner[paused[s].token] \in Device /\ at \in Nat
    BY <2>1, ResumeType, OwnerAssumption, BoundAssumption DEF Times
  <2>4. scheduled \in PendingEvent /\ scheduled.type = "Scheduled"
    BY <2>3 DEF Pending, PendingEvent, EventType
  <2>5. scheduled.at = deleted.at
    BY <2>1 DEF ValidSchedule
  <2>. HIDE DEF scheduled, deleted
  <2>6. /\ nextSeq' = nextSeq + 1 /\ nextSeq' \in Nat /\ nextSeq' > nextSeq
        /\ DOMAIN events' = 1..(nextSeq' - 1)
        /\ \A i \in DOMAIN events : i \in DOMAIN events' /\ events'[i] = events[i]
        /\ \A i \in DOMAIN events' \ DOMAIN events : events'[i].type = "Scheduled"
        /\ events'[nextSeq].at = scheduled.at
    BY <2>1, <2>4, PutOne
  <2>. QED BY <2>1, <2>2, <2>5, <2>6 DEF PutSchedule, Puts
<1>. QED BY <1>1, <1>2 DEF Schedule

LEMMA CancelSteps ==
    ASSUME TypeOK, NEW s \in Slot, Cancel(s)
    PROVE  Still \/ PutCancel
<1>1. ASSUME NEW t \in Token, ControlArrive(s, "cancel", t) PROVE Still
  BY <1>1 DEF ControlArrive, Pause, storage, Still
<1>2. ASSUME NEW n \in Nonce,
             CancelCommit(s, Pending("Cancelled", Owner[paused[s].token], n, None))
      PROVE  PutCancel
  <2> DEFINE cancelled == Pending("Cancelled", Owner[paused[s].token], n, None)
  <2>1. /\ Resume(s, "cancel") /\ pending # None /\ AppendEvents(<<cancelled>>)
        /\ cont' = "drop"
        /\ UNCHANGED <<initialized, tombstone, pending, scheduledFor, alarm, firing, grave,
                       now, wiped>>
    BY <1>2 DEF CancelCommit
  <2>2. cont = "none" /\ Owner[paused[s].token] \in Device
    BY <2>1, ResumeType, OwnerAssumption DEF Resume, GateOpen
  <2>3. cancelled \in PendingEvent /\ cancelled.type = "Cancelled"
    BY <2>2 DEF Pending, PendingEvent, EventType
  <2>. HIDE DEF cancelled
  <2>4. /\ nextSeq' = nextSeq + 1 /\ nextSeq' \in Nat /\ nextSeq' > nextSeq
        /\ DOMAIN events' = 1..(nextSeq' - 1)
        /\ \A i \in DOMAIN events : i \in DOMAIN events' /\ events'[i] = events[i]
        /\ \A i \in DOMAIN events' \ DOMAIN events : events'[i].type = "Cancelled"
    BY <2>1, <2>3, PutOne
  <2>. QED BY <2>1, <2>2, <2>4 DEF PutCancel, Puts
<1>. QED BY <1>1, <1>2 DEF Cancel

LEMMA AlarmEmitSteps ==
    ASSUME TypeOK, AlarmEmit
    PROVE  PutDeleted
<1>1. pending \in PendingEvent /\ pending.type = "VaultDeleted" /\ cont = "none"
  BY DEF TypeOK, AlarmEmit, DeletedBlob, PendingEvent, EventType, GateOpen
<1>2. /\ nextSeq' = nextSeq + 1 /\ nextSeq' \in Nat /\ nextSeq' > nextSeq
      /\ DOMAIN events' = 1..(nextSeq' - 1)
      /\ \A i \in DOMAIN events : i \in DOMAIN events' /\ events'[i] = events[i]
      /\ \A i \in DOMAIN events' \ DOMAIN events : events'[i].type = "VaultDeleted"
      /\ events'[nextSeq].at = pending.at
  BY <1>1, PutOne DEF AlarmEmit
<1>. QED BY <1>1, <1>2 DEF AlarmEmit, PutDeleted, Puts

\* What a step of the relay can be.
LEMMA Steps ==
    ASSUME TypeOK, [Next]_vars
    PROVE  \/ Still \/ PutItems \/ PutSchedule \/ PutCancel \/ PutDeleted
           \/ ScheduleArm \/ CancelDrop \/ CancelDisarm
           \/ FireAlarm \/ AlarmNoop \/ AlarmWipe \/ AlarmBury \/ Crash \/ Tick
<1>1. ASSUME NEW s \in Slot, Refuse(s) PROVE Still
  BY <1>1 DEF Refuse, storage, Still
<1>2. ASSUME NEW t \in Token, NEW d \in Device, Revoke(t, d) PROVE Still
  BY <1>2 DEF Revoke, Still
<1>3. CASE UNCHANGED vars
  BY <1>3 DEF vars, storage, Still
<1>. QED
  BY <1>1, <1>2, <1>3, PushSteps, RegisterSteps, ScheduleSteps, CancelSteps,
     AlarmEmitSteps DEF Next

-----------------------------------------------------------------------------
(* A pending deletion was scheduled *)

ScheduledIn(log, at) == \E s \in DOMAIN log : log[s].type = "Scheduled" /\ log[s].at = at

\* A put keeps what was scheduled.
LEMMA PutsKeepScheduled ==
    ASSUME NEW type, Puts(type), NEW at, ScheduledIn(events, at)
    PROVE  ScheduledIn(events', at)
BY DEF Puts, ScheduledIn

\* Every stored pre-signed VaultDeleted was authorised by a Scheduled event that
\* is still in the log, at whatever await the object was evicted.
THEOREM PendingScheduled == Spec => []PendingWasScheduled
<1> DEFINE Authorised == pending # None => /\ pending.at = scheduledFor
                                           /\ ScheduledIn(events, scheduledFor)
<1>1. Init => Authorised
  BY DEF Init, Unused
<1>2. ASSUME TypeOK, Authorised, [Next]_vars PROVE Authorised'
  <2>1. ASSUME UNCHANGED <<events, pending, scheduledFor>> PROVE Authorised'
    BY <2>1, <1>2
  <2>2. CASE PutItems \/ PutCancel \/ PutDeleted
    <3>1. UNCHANGED <<pending, scheduledFor>> /\ \E type : Puts(type)
      BY <2>2 DEF PutItems, PutCancel, PutDeleted, AlarmEmit
    <3>. QED BY <3>1, <1>2, PutsKeepScheduled
  <2>3. CASE PutSchedule
    <3>1. nextSeq \in DOMAIN events' \ DOMAIN events
      BY <2>3, <1>2 DEF PutSchedule, Puts, TypeOK
    <3>2. events'[nextSeq].type = "Scheduled" /\ events'[nextSeq].at = scheduledFor'
      BY <2>3, <3>1 DEF PutSchedule, Puts
    <3>3. pending'.at = scheduledFor'
      BY <2>3 DEF PutSchedule
    <3>. QED BY <3>1, <3>2, <3>3 DEF ScheduledIn
  <2>4. CASE CancelDrop \/ AlarmWipe
    BY <2>4 DEF CancelDrop, AlarmWipe
  <2>5. CASE Still \/ ScheduleArm \/ CancelDisarm \/ FireAlarm \/ AlarmNoop \/ AlarmBury
             \/ Crash \/ Tick
    BY <2>5, <2>1 DEF Still, ScheduleArm, CancelDisarm, FireAlarm, AlarmNoop, AlarmBury,
                      Crash, Tick, storage
  <2>. QED BY <1>2, <2>2, <2>3, <2>4, <2>5, Steps
<1>3. PairInv /\ Authorised => PendingWasScheduled
  BY DEF PairInv, PendingWasScheduled, ScheduledIn
<1>. QED BY <1>1, <1>2, <1>3, TypeCorrect, PairInvariant, PTL DEF Spec

-----------------------------------------------------------------------------
(* A pending deletion has an alarm *)

\* Between the writes of a handler: the cancel that disarms has dropped the
\* deletion, the alarm that wipes has one, and the alarm that buries none.
HandlerInv ==
    /\ cont \in {"disarm", "bury"} => pending = None
    /\ cont = "wipe" => pending # None

LEMMA HandlerInvariant == Spec => []HandlerInv
<1>1. Init => HandlerInv
  BY DEF Init, HandlerInv
<1>2. ASSUME TypeOK, HandlerInv, [Next]_vars PROVE HandlerInv'
  <2>1. CASE Still \/ FireAlarm \/ Tick
    BY <2>1, <1>2 DEF Still, FireAlarm, Tick, storage, HandlerInv
  <2>2. CASE PutItems \/ PutSchedule \/ PutCancel
    BY <2>2 DEF PutItems, PutSchedule, PutCancel, Puts, HandlerInv
  <2>3. CASE PutDeleted
    BY <2>3 DEF PutDeleted, AlarmEmit, HandlerInv
  <2>4. CASE ScheduleArm \/ CancelDisarm \/ AlarmNoop \/ AlarmBury \/ Crash
    BY <2>4 DEF ScheduleArm, CancelDisarm, AlarmNoop, AlarmBury, Crash, GateOpen, HandlerInv
  <2>5. CASE CancelDrop \/ AlarmWipe
    BY <2>5 DEF CancelDrop, AlarmWipe, HandlerInv
  <2>. QED BY <1>2, <2>1, <2>2, <2>3, <2>4, <2>5, Steps
<1>. QED BY <1>1, <1>2, TypeCorrect, PTL DEF Spec

\* Something will carry a pending deletion out, provided that the object is not
\* evicted between the put of the deletion and setAlarm().
THEOREM PendingArmed ==
    ASSUME "arm" \notin CrashPoints
    PROVE  Spec => []PendingHasAlarm
<1>1. Init => PendingHasAlarm
  BY DEF Init, Unused, PendingHasAlarm
<1>2. ASSUME TypeOK, WipeInv, HandlerInv, PendingHasAlarm, [Next]_vars
      PROVE  PendingHasAlarm'
  <2>1. pending # None /\ tombstone = None => alarm = scheduledFor \/ firing \/ cont = "arm"
    BY <1>2 DEF PendingHasAlarm, IsTombstoned
  <2>2. SUFFICES pending' # None /\ tombstone' = None
                    => alarm' = scheduledFor' \/ firing' \/ cont' = "arm"
    BY DEF PendingHasAlarm, IsTombstoned
  <2>3. CASE Still \/ Tick
    BY <2>3, <2>1 DEF Still, Tick, storage
  <2>4. CASE PutItems \/ PutCancel \/ PutDeleted
    <3>1. /\ cont = "none"
          /\ UNCHANGED <<pending, scheduledFor, tombstone, alarm, firing>>
      BY <2>4 DEF PutItems, PutCancel, PutDeleted, Puts, AlarmEmit
    <3>. QED BY <3>1, <2>1
  <2>5. CASE PutSchedule \/ ScheduleArm \/ FireAlarm
    BY <2>5 DEF PutSchedule, ScheduleArm, FireAlarm, storage
  <2>6. CASE CancelDrop \/ AlarmWipe
    BY <2>6 DEF CancelDrop, AlarmWipe
  <2>7. CASE CancelDisarm
    BY <2>7, <1>2 DEF CancelDisarm, HandlerInv, storage
  <2>8. CASE AlarmNoop
    BY <2>8 DEF AlarmNoop, IsTombstoned, storage
  <2>9. CASE AlarmBury
    BY <2>9, <1>2 DEF AlarmBury, WipeInv
  <2>10. CASE Crash
    <3>1. cont # "arm" /\ UNCHANGED <<pending, scheduledFor, tombstone, alarm, firing>>
      BY <2>10 DEF Crash, storage
    <3>. QED BY <3>1, <2>1
  <2>. QED
    BY <1>2, <2>3, <2>4, <2>5, <2>6, <2>7, <2>8, <2>9, <2>10, Steps
<1>. QED BY <1>1, <1>2, TypeCorrect, WipeInvariant, HandlerInvariant, PTL DEF Spec

-----------------------------------------------------------------------------
(* No deletion before its window *)

\* An armed alarm is that of a Scheduled event, and so was the one that was
\* delivered, unless its handler has wiped the log since.
AlarmInv ==
    /\ alarm # None => ScheduledIn(events, alarm) \/ tombstone # None
    /\ firing => \/ cont = "bury" \/ tombstone # None
                 \/ \E at \in Nat : at <= now /\ ScheduledIn(events, at)

\* The wipe happens in the window of a deletion that the devices scheduled,
\* provided that the object is not evicted between deleteAll() and the put of
\* the tombstone: the redelivered alarm would act on a new vault.
THEOREM DeletedInWindow ==
    ASSUME "bury" \notin CrashPoints
    PROVE  Spec => []WindowElapsed
<1>1. Init => AlarmInv
  BY DEF Init, AlarmInv
<1>2. ASSUME TypeOK, WipeInv, HandlerInv, PendingWasScheduled, AlarmInv, [Next]_vars
      PROVE  AlarmInv'
  <2> DEFINE Window(log, time) == \E at \in Nat : at <= time /\ ScheduledIn(log, at)
  <2>1. CASE Still
    BY <2>1, <1>2 DEF Still, AlarmInv
  <2>2. CASE PutItems \/ PutSchedule \/ PutCancel \/ PutDeleted
    <3>1. /\ cont # "bury"
          /\ UNCHANGED <<tombstone, alarm, firing, now>> /\ \E type : Puts(type)
      BY <2>2 DEF PutItems, PutSchedule, PutCancel, PutDeleted, AlarmEmit, Puts
    <3>2. alarm # None => ScheduledIn(events', alarm) \/ tombstone # None
      BY <3>1, <1>2, PutsKeepScheduled DEF AlarmInv
    <3>3. Window(events, now) => Window(events', now)
      BY <3>1, PutsKeepScheduled
    <3>4. firing => tombstone # None \/ Window(events', now)
      BY <3>1, <3>3, <1>2 DEF AlarmInv
    <3>. QED BY <3>1, <3>2, <3>4 DEF AlarmInv
  <2>3. CASE ScheduleArm
    <3>1. alarm' # None => ScheduledIn(events, alarm')
      BY <2>3, <1>2 DEF ScheduleArm, PendingWasScheduled, ScheduledIn
    <3>. QED BY <2>3, <3>1, <1>2 DEF ScheduleArm, AlarmInv, storage
  <2>4. CASE FireAlarm
    <3>1. alarm \in Nat /\ alarm <= now
      BY <2>4, <1>2 DEF FireAlarm, TypeOK
    <3>2. tombstone # None \/ Window(events, now)
      BY <2>4, <3>1, <1>2 DEF FireAlarm, AlarmInv
    <3>. QED BY <2>4, <3>2 DEF FireAlarm, AlarmInv, storage
  <2>5. CASE Tick
    <3>1. now' = now + 1 /\ now \in Nat
      BY <2>5, <1>2 DEF Tick, TypeOK
    <3>2. \A at \in Nat : at <= now => at <= now'
      BY <3>1
    <3>3. Window(events, now) => Window(events, now')
      BY <3>2
    <3>. QED BY <2>5, <3>3, <1>2 DEF Tick, AlarmInv, storage
  <2>6. CASE CancelDrop \/ CancelDisarm \/ AlarmNoop
    BY <2>6, <1>2 DEF CancelDrop, CancelDisarm, AlarmNoop, AlarmInv, GateOpen, storage
  <2>7. CASE AlarmWipe
    BY <2>7 DEF AlarmWipe, AlarmInv
  <2>8. CASE AlarmBury
    BY <2>8, <1>2 DEF AlarmBury, WipeInv, AlarmInv
  <2>9. CASE Crash
    <3>1. cont # "bury"
      BY <2>9 DEF Crash
    <3>. QED BY <2>9, <3>1, <1>2 DEF Crash, AlarmInv, storage
  <2>. QED BY <1>2, <2>1, <2>2, <2>3, <2>4, <2>5, <2>6, <2>7, <2>8, <2>9, Steps
<1>3. WipeInv /\ AlarmInv => WindowElapsed
  BY DEF WipeInv, AlarmInv, WindowElapsed, ScheduledIn
<1>. QED
  BY <1>1, <1>2, <1>3, TypeCorrect, WipeInvariant, HandlerInvariant, PendingScheduled,
     PTL DEF Spec

-----------------------------------------------------------------------------
(* No deletion after a cancel *)

\* The last control event of a log is a Scheduled for that time.
LastScheduled(log, at) ==
    \E i \in DOMAIN log : /\ log[i].type = "Scheduled" /\ log[i].at = at
                          /\ \A j \in DOMAIN log : log[j].type \in Control => j <= i

LastInv == pending # None /\ cont # "drop" => LastScheduled(events, scheduledFor)

\* What no devices scheduled or cancelled does not change the last control event.
LEMMA PutsKeepLast ==
    ASSUME TypeOK, NEW type, type \notin Control, Puts(type), NEW at,
           LastScheduled(events, at)
    PROVE  LastScheduled(events', at)
<1>1. PICK i \in DOMAIN events :
        /\ events[i].type = "Scheduled" /\ events[i].at = at
        /\ \A j \in DOMAIN events : events[j].type \in Control => j <= i
  BY DEF LastScheduled
<1>2. i \in DOMAIN events' /\ events'[i] = events[i]
  BY DEF Puts
<1>3. ASSUME NEW j \in DOMAIN events', events'[j].type \in Control
      PROVE  j <= i
  BY <1>1, <1>3 DEF Puts
<1>. QED BY <1>1, <1>2, <1>3 DEF LastScheduled

LEMMA LastInvariant ==
    ASSUME "drop" \notin CrashPoints
    PROVE  Spec => []LastInv
<1>1. Init => LastInv
  BY DEF Init, Unused, LastInv
<1>2. ASSUME TypeOK, LastInv, [Next]_vars PROVE LastInv'
  <2>1. CASE Still \/ FireAlarm \/ Tick
    BY <2>1, <1>2 DEF Still, FireAlarm, Tick, storage, LastInv
  <2>2. CASE PutItems \/ PutDeleted
    <3>1. /\ cont = "none" /\ UNCHANGED <<pending, scheduledFor>>
          /\ \E type : type \notin Control /\ Puts(type)
      BY <2>2 DEF PutItems, PutDeleted, Puts, AlarmEmit, Control
    <3>. QED BY <3>1, <1>2, PutsKeepLast DEF LastInv
  <2>3. CASE PutSchedule
    <3>1. nextSeq \in DOMAIN events' \ DOMAIN events
      BY <2>3, <1>2 DEF PutSchedule, Puts, TypeOK
    <3>2. events'[nextSeq].type = "Scheduled" /\ events'[nextSeq].at = scheduledFor'
      BY <2>3, <3>1 DEF PutSchedule, Puts
    <3>3. \A j \in DOMAIN events' : j <= nextSeq
      BY <2>3, <1>2 DEF PutSchedule, Puts, TypeOK
    <3>. QED BY <3>1, <3>2, <3>3 DEF LastInv, LastScheduled
  <2>4. CASE PutCancel
    BY <2>4 DEF PutCancel, LastInv
  <2>5. CASE ScheduleArm \/ CancelDisarm \/ AlarmNoop \/ AlarmBury \/ Crash
    <3>1. cont # "drop" /\ UNCHANGED <<pending, scheduledFor, events>>
      BY <2>5 DEF ScheduleArm, CancelDisarm, AlarmNoop, AlarmBury, Crash, GateOpen, storage
    <3>. QED BY <3>1, <1>2 DEF LastInv
  <2>6. CASE CancelDrop \/ AlarmWipe
    BY <2>6 DEF CancelDrop, AlarmWipe, LastInv
  <2>. QED BY <1>2, <2>1, <2>2, <2>3, <2>4, <2>5, <2>6, Steps
<1>. QED BY <1>1, <1>2, TypeCorrect, PTL DEF Spec

\* A vault is not deleted after a cancel, provided that the object is not evicted
\* between the put of the Cancelled event and the delete of the pending keys.
THEOREM CancelledStays ==
    ASSUME "drop" \notin CrashPoints
    PROVE  Spec => []CancelledIsNeverDeleted
<1>1. ASSUME TypeOK, HandlerInv, LastInv, cont = "wipe" PROVE LastControl = "Scheduled"
  <2> DEFINE C == {s \in DOMAIN events : events[s].type \in {"Scheduled", "Cancelled"}}
             Last(s) == s \in C /\ \A r \in C : r <= s
  <2>1. PICK i \in DOMAIN events :
          /\ events[i].type = "Scheduled"
          /\ \A j \in DOMAIN events : events[j].type \in Control => j <= i
    BY <1>1 DEF HandlerInv, LastInv, LastScheduled
  <2>2. Last(i)
    BY <2>1 DEF Control
  <2>3. ASSUME NEW s, Last(s) PROVE s = i
    <3>1. s \in Nat /\ i \in Nat
      BY <2>3, <2>1, <1>1 DEF TypeOK
    <3>. QED BY <3>1, <2>2, <2>3
  <2>4. (CHOOSE s \in C : \A r \in C : r <= s) = i
    BY <2>2, <2>3
  <2>5. LastControl = events[CHOOSE s \in C : \A r \in C : r <= s].type
    BY <2>2 DEF LastControl
  <2>. QED BY <2>1, <2>4, <2>5
<1>. QED
  BY <1>1, TypeCorrect, HandlerInvariant, LastInvariant, PTL DEF CancelledIsNeverDeleted

-----------------------------------------------------------------------------
(* The relay implements the abstract event log *)

Dead == tombstone # None \/ cont = "bury"

\* A handler that passed the check of the vault finds it still there after the
\* body, unless it died; so does a deletion that is pending.
BornInv ==
    ~Dead => /\ \A s \in Slot : /\ paused[s] # None
                                /\ paused[s].init \/ paused[s].op # "push"
                                => initialized
             /\ pending # None => initialized

\* Nobody writes behind the VaultDeleted: its handler goes on with the wipe.
EndInv ==
    ~Dead => /\ \A s \in DOMAIN events :
                   events[s].type = "VaultDeleted" => cont = "wipe" /\ s = nextSeq - 1
             /\ cont = "wipe" => /\ nextSeq - 1 \in DOMAIN events
                                 /\ events[nextSeq - 1].type = "VaultDeleted"
                                 /\ events[nextSeq - 1].at = pending.at

\* A dead vault stays dead, and only the wipe kills one.
LEMMA DeadOrAlive ==
    ASSUME "bury" \notin CrashPoints, TypeOK, WipeInv, [Next]_vars
    PROVE  /\ Dead => Dead'
           /\ ~Dead /\ ~AlarmWipe => ~Dead'
<1>1. CASE Still \/ FireAlarm \/ Tick
  BY <1>1 DEF Still, FireAlarm, Tick, storage, Dead
<1>2. CASE PutItems \/ PutSchedule \/ PutCancel \/ PutDeleted
  <2>1. tombstone' = tombstone /\ cont = "none" /\ cont' # "bury"
    BY <1>2 DEF PutItems, PutSchedule, PutCancel, PutDeleted, Puts, AlarmEmit
  <2>. QED BY <2>1 DEF Dead
<1>3. CASE ScheduleArm \/ CancelDrop \/ CancelDisarm \/ AlarmNoop \/ Crash
  <2>1. tombstone' = tombstone /\ cont # "bury" /\ cont' # "bury"
    BY <1>3 DEF ScheduleArm, CancelDrop, CancelDisarm, AlarmNoop, Crash, GateOpen, storage
  <2>. QED BY <2>1 DEF Dead
<1>4. CASE AlarmWipe
  BY <1>4 DEF AlarmWipe, Dead
<1>5. CASE AlarmBury
  BY <1>5 DEF AlarmBury, WipeInv, Dead
<1>. QED BY <1>1, <1>2, <1>3, <1>4, <1>5, Steps

\* A request begins to wait for its body only at a vault it may ask about.
LEMMA PauseSteps ==
    ASSUME TypeOK, NEW r \in Slot, NEW t \in Token, NEW op, NEW init \in BOOLEAN,
           Pause(r, op, t, init), init \/ op # "push" => initialized,
           NEW s \in Slot
    PROVE  /\ initialized' = initialized
           /\ \/ paused'[s] = paused[s]
              \/ (paused'[s].init \/ paused'[s].op # "push") => initialized'
<1>1. initialized' = initialized /\ paused' = [paused EXCEPT ![r] = [op |-> op, token |-> t, init |-> init]]
  BY DEF Pause, storage
<1>2. CASE s = r
  <2>1. paused'[s] = [op |-> op, token |-> t, init |-> init]
    BY <1>1, <1>2 DEF TypeOK
  <2>. QED BY <1>1, <2>1
<1>3. CASE s # r
  BY <1>1, <1>3 DEF TypeOK
<1>. QED BY <1>1, <1>2, <1>3

\* Only the wipe makes a vault unknown again.
LEMMA InitializedStays ==
    ASSUME TypeOK, [Next]_vars, ~AlarmWipe, initialized
    PROVE  initialized'
BY Steps DEF Still, PutItems, PutSchedule, PutCancel, PutDeleted, AlarmEmit, ScheduleArm,
             CancelDrop, CancelDisarm, FireAlarm, AlarmNoop, AlarmBury, Crash, Tick, storage

LEMMA WaitingSteps ==
    ASSUME TypeOK, [Next]_vars, NEW s \in Slot
    PROVE  \/ paused'[s] = paused[s] \/ paused'[s] = None
           \/ (paused'[s].init \/ paused'[s].op # "push") => initialized'
<1> DEFINE Fine == \/ paused'[s] = paused[s] \/ paused'[s] = None
                   \/ (paused'[s].init \/ paused'[s].op # "push") => initialized'
<1>1. ASSUME NEW r \in Slot, NEW op, Resume(r, op) PROVE Fine
  BY <1>1 DEF Resume, TypeOK
<1>2. ASSUME NEW r \in Slot, NEW t \in Token, PushArrive(r, t) PROVE Fine
  <2>1. initialized \in BOOLEAN
    BY DEF TypeOK
  <2>2. Pause(r, "push", t, initialized)
    BY <1>2 DEF PushArrive
  <2>. QED BY <2>1, <2>2, PauseSteps
<1>3. ASSUME NEW r \in Slot, NEW op, NEW t \in Token, ControlArrive(r, op, t) PROVE Fine
  BY <1>3, PauseSteps DEF ControlArrive
<1>4. ASSUME NEW r \in Slot, Push(r) \/ Register(r) \/ Schedule(r) \/ Cancel(r) \/ Refuse(r)
      PROVE  Fine
  BY <1>4, <1>1, <1>2, <1>3
     DEF Push, PushCommit, Register, RegisterCommit, Schedule, ScheduleCommit, Cancel,
         CancelCommit, Refuse
<1>5. ASSUME NEW t \in Token, NEW d \in Device, Revoke(t, d) PROVE Fine
  BY <1>5 DEF Revoke
<1>6. CASE ScheduleArm \/ CancelDrop \/ CancelDisarm \/ FireAlarm \/ AlarmNoop \/ AlarmEmit
           \/ AlarmWipe \/ AlarmBury \/ Tick \/ UNCHANGED vars
  BY <1>6 DEF ScheduleArm, CancelDrop, CancelDisarm, FireAlarm, AlarmNoop, AlarmEmit,
              AlarmWipe, AlarmBury, Tick, vars
<1>7. CASE Crash
  BY <1>7 DEF Crash
<1>. QED BY <1>4, <1>5, <1>6, <1>7 DEF Next

LEMMA BornInvariant ==
    ASSUME "bury" \notin CrashPoints
    PROVE  Spec => []BornInv
<1>1. Init => BornInv
  BY DEF Init, Unused, BornInv
<1>2. ASSUME TypeOK, WipeInv, BornInv, [Next]_vars PROVE BornInv'
  <2>1. CASE AlarmWipe
    BY <2>1 DEF AlarmWipe, BornInv, Dead
  <2>2. CASE Dead
    BY <2>2, <1>2, DeadOrAlive DEF BornInv
  <2>3. CASE ~Dead /\ ~AlarmWipe
    <3>1. ASSUME NEW s \in Slot, paused'[s] # None,
                 paused'[s].init \/ paused'[s].op # "push"
          PROVE  initialized'
      BY <3>1, <2>3, <1>2, WaitingSteps, InitializedStays DEF BornInv
    <3>2. ASSUME pending' # None PROVE initialized'
      <4>1. CASE PutSchedule
        BY <4>1, <2>3, <1>2 DEF PutSchedule, BornInv
      <4>2. CASE ~PutSchedule
        <5>1. pending # None
          BY <3>2, <4>2, <2>3, <1>2, Steps
             DEF Still, PutItems, PutCancel, PutDeleted, AlarmEmit, ScheduleArm, CancelDrop,
                 CancelDisarm, FireAlarm, AlarmNoop, AlarmBury, Crash, Tick, storage
        <5>. QED BY <5>1, <2>3, <1>2, InitializedStays DEF BornInv
      <4>. QED BY <4>1, <4>2
    <3>. QED BY <3>1, <3>2 DEF BornInv
  <2>. QED BY <2>1, <2>2, <2>3
<1>. QED BY <1>1, <1>2, TypeCorrect, WipeInvariant, PTL DEF Spec

LEMMA EndInvariant ==
    ASSUME "bury" \notin CrashPoints, "wipe" \notin CrashPoints
    PROVE  Spec => []EndInv
<1>1. Init => EndInv
  BY DEF Init, Unused, EndInv
<1>2. ASSUME TypeOK, WipeInv, EndInv, [Next]_vars PROVE EndInv'
  <2>1. CASE AlarmWipe
    BY <2>1 DEF AlarmWipe, EndInv, Dead
  <2>2. CASE Dead
    BY <2>2, <1>2, DeadOrAlive DEF EndInv
  <2>3. CASE ~Dead /\ (PutItems \/ PutSchedule \/ PutCancel)
    <3>1. cont = "none" /\ cont' # "wipe" /\ \E type : type # "VaultDeleted" /\ Puts(type)
      BY <2>3 DEF PutItems, PutSchedule, PutCancel, Puts
    <3>2. \A s \in DOMAIN events : events[s].type # "VaultDeleted"
      BY <2>3, <3>1, <1>2 DEF EndInv
    <3>3. \A s \in DOMAIN events' : events'[s].type # "VaultDeleted"
      BY <3>1, <3>2 DEF Puts
    <3>. QED BY <3>1, <3>3 DEF EndInv
  <2>4. CASE ~Dead /\ PutDeleted
    <3>1. /\ Puts("VaultDeleted") /\ cont = "none" /\ cont' = "wipe" /\ pending' = pending
          /\ nextSeq' = nextSeq + 1 /\ events'[nextSeq].at = pending.at
      BY <2>4 DEF PutDeleted, Puts, AlarmEmit
    <3>2. \A s \in DOMAIN events : events[s].type # "VaultDeleted"
      BY <2>4, <3>1, <1>2 DEF EndInv
    <3>3. nextSeq' - 1 = nextSeq /\ nextSeq \in DOMAIN events' \ DOMAIN events
      BY <3>1, <1>2 DEF Puts, TypeOK
    <3>4. \A s \in DOMAIN events' : events'[s].type = "VaultDeleted" => s = nextSeq
      BY <3>1, <3>2, <3>3, <1>2 DEF Puts, TypeOK
    <3>. QED BY <3>1, <3>3, <3>4 DEF EndInv, Puts
  <2>5. CASE ~Dead /\ (Still \/ FireAlarm \/ Tick)
    BY <2>5, <1>2 DEF Still, FireAlarm, Tick, storage, EndInv
  <2>6. CASE ~Dead /\ (ScheduleArm \/ CancelDrop \/ CancelDisarm \/ AlarmNoop \/ Crash)
    <3>1. cont # "wipe" /\ cont' # "wipe" /\ events' = events
      BY <2>6 DEF ScheduleArm, CancelDrop, CancelDisarm, AlarmNoop, Crash, GateOpen, storage
    <3>. QED BY <3>1, <2>6, <1>2 DEF EndInv
  <2>7. CASE ~Dead /\ AlarmBury
    BY <2>7 DEF AlarmBury, Dead
  <2>. QED BY <1>2, <2>1, <2>2, <2>3, <2>4, <2>5, <2>6, <2>7, Steps
<1>. QED BY <1>1, <1>2, TypeCorrect, WipeInvariant, PTL DEF Spec

\* A log with its counter is a sequence.
LEMMA EventsAreSeq ==
    ASSUME NEW n \in Nat \ {0}, NEW l \in [1..(n - 1) -> Event]
    PROVE  l \in Seq(Event) /\ Len(l) = n - 1
<1>1. PICK m \in Nat : m = n - 1
  OBVIOUS
<1>2. l \in [1..m -> Event]
  BY <1>1
<1>. QED BY <1>1, <1>2

\* A put behind the log of a vault that is not dead grows the abstract log.
LEMMA PutsGrow ==
    ASSUME TypeOK, TypeOK', LogInv', EndInv', BornInv, ~Dead, ~Dead',
           initialized' = TRUE, NEW type, Puts(type)
    PROVE  Log!Grow
<1> DEFINE view == IF Status = "dead" THEN <<>> ELSE events
<1>1. Status \in {"unborn", "live"} /\ Status' = "live"
  BY DEF Status, Dead, IsTombstoned
<1>2. view = events /\ view' = events'
  BY <1>1
<1>3. /\ nextSeq \in Nat \ {0} /\ nextSeq' \in Nat \ {0}
      /\ events \in Seq(Event) /\ events' \in Seq(Event)
      /\ Len(events) = nextSeq - 1 /\ Len(events') = nextSeq' - 1
  BY EventsAreSeq DEF TypeOK
<1>4. Log!Extends(events', events)
  BY <1>3 DEF Log!Extends, Puts
<1>5. Log!NoReplay(events')
  BY DEF Log!NoReplay, LogInv, NonceUnique, nonceKey
<1>6. Log!DeletedIsLast(events')
  BY <1>3 DEF Log!DeletedIsLast, EndInv
<1>. QED BY <1>1, <1>2, <1>3, <1>4, <1>5, <1>6 DEF Log!Grow

\* The wipe deletes the abstract log, and only one that is doomed.
LEMMA WipeDeletes ==
    ASSUME TypeOK, HandlerInv, BornInv, EndInv, LastInv, PendingWasScheduled,
           ~Dead, AlarmWipe
    PROVE  Log!Delete
<1>1. cont = "wipe" /\ pending # None /\ initialized /\ pending.at = scheduledFor
  BY DEF AlarmWipe, HandlerInv, BornInv, PendingWasScheduled
<1>2. Status = "live" /\ Status' = "dead"
  BY <1>1 DEF Status, Dead, IsTombstoned, AlarmWipe
<1>3. /\ Len(events) = nextSeq - 1 /\ Len(events) > 0
      /\ events[Len(events)].type = "VaultDeleted"
      /\ events[Len(events)].at = scheduledFor
  BY <1>1 DEF EndInv, TypeOK
<1>4. LastScheduled(events, scheduledFor)
  BY <1>1 DEF LastInv
<1>5. Log!Doomed(events)
  BY <1>3, <1>4 DEF Log!Doomed, LastScheduled, Control
<1>. QED BY <1>2, <1>5 DEF Log!Delete

\* The relay behaves as the abstract event log: an append-only log without
\* replays, deleted once, for good, by its own last event and only when the last
\* thing its devices said about it was to schedule that; provided that the object
\* is not evicted between the writes of a cancel and of a deletion.
THEOREM RelayIsEventLog ==
    ASSUME CrashPoints \cap {"drop", "wipe", "bury"} = {}
    PROVE  Spec => ImplementsEventLog
<1> DEFINE view == IF Status = "dead" THEN <<>> ELSE events
<1>0. "drop" \notin CrashPoints /\ "wipe" \notin CrashPoints /\ "bury" \notin CrashPoints
  OBVIOUS
<1>1. Init => Log!Init
  BY DEF Init, Unused, Log!Init, Status, IsTombstoned
<1>2. ASSUME TypeOK, TypeOK', LogInv', WipeInv, HandlerInv, PendingWasScheduled, LastInv,
             BornInv, BornInv', EndInv, EndInv', [Next]_vars
      PROVE  [Log!Next]_(Log!logVars)
  <2>1. CASE Dead
    <3>1. Dead'
      BY <2>1, <1>0, <1>2, DeadOrAlive
    <3>2. Status = "dead" /\ Status' = "dead"
      BY <2>1, <3>1 DEF Status, Dead, IsTombstoned
    <3>. QED BY <3>2 DEF Log!logVars
  <2>2. CASE ~Dead /\ AlarmWipe
    BY <2>2, <1>2, WipeDeletes DEF Log!Next
  <2>3. CASE ~Dead /\ ~AlarmWipe
    <3>1. ~Dead'
      BY <2>3, <1>0, <1>2, DeadOrAlive
    <3>2. CASE PutItems \/ PutSchedule \/ PutCancel \/ PutDeleted
      <4>1. \E type : Puts(type)
        BY <3>2 DEF PutItems, PutSchedule, PutCancel, PutDeleted
      <4>2. initialized' = TRUE
        BY <3>2, <2>3, <1>2, InitializedStays
           DEF PutItems, PutSchedule, PutCancel, PutDeleted, AlarmEmit, BornInv, TypeOK
      <4>. QED BY <4>1, <4>2, <3>1, <2>3, <1>2, PutsGrow DEF Log!Next
    <3>3. CASE UNCHANGED <<initialized, events>>
      <4>1. Status' = Status
        BY <3>1, <3>3, <2>3 DEF Status, Dead, IsTombstoned
      <4>. QED BY <4>1, <3>3 DEF Log!logVars
    <3>. QED
      BY <3>2, <3>3, <2>3, <3>1, <1>2, Steps
         DEF Still, ScheduleArm, CancelDrop, CancelDisarm, FireAlarm, AlarmNoop, AlarmBury,
             Crash, Tick, storage
  <2>. QED BY <2>1, <2>2, <2>3
<1>3. Spec => []LastInv /\ []BornInv /\ []EndInv
  BY <1>0, LastInvariant, BornInvariant, EndInvariant
<1>. QED
  BY <1>1, <1>2, <1>3, TypeCorrect, LogCorrect, WipeInvariant, HandlerInvariant,
     PendingScheduled, PTL DEF Spec, ImplementsEventLog, Log!Spec
=============================================================================
