---------------------------- MODULE OutboundFlush ----------------------------
(***************************************************************************)
(* How a device's events reach the relay: VaultCommands.#emit, the         *)
(* PendingEventQueue, OutboundFlush.flush() and the desktop's wiring of    *)
(* them, over a network that may lose or delay what it carries.            *)
(*                                                                         *)
(* The relay is the log of the abstract EventLog: one POST /events is      *)
(* accepted or refused as a whole.  The desktop's storage operations       *)
(* settle without returning to the event loop, so what a flush does        *)
(* between two network calls is one action; an emit is split at the point  *)
(* where the process may die with the event stored and not yet queued, and *)
(* the answer to a push at each seq that is stamped.                       *)
(*                                                                         *)
(* A definition Name_Variant just before Name is a mutated form of it, used *)
(* only by the mutant runs.                                                *)
(***************************************************************************)
EXTENDS PendingEventQueue, SequencesExt

CONSTANTS
    Device,
    Flush,        \* bound: flush() calls a device has running at once
    MaxBatch,     \* MAX_BATCH_SIZE
    MaxEmits,     \* bound: events per device
    MaxRestarts,  \* bound: restarts in all
    Faults,       \* "rejected": pushes may fail; "late": one that failed for
                  \* its sender may still arrive
    FragileAt     \* at which points of an emit or a flush a process may die

ASSUME BoundAssumption ==
    /\ MaxBatch \in Nat \ {0} /\ MaxEmits \in Nat /\ MaxRestarts \in Nat
    /\ Faults \subseteq {"rejected", "late"}

VARIABLES
    (* per device *)
    rows,      \* its events table, in row order: [event, seq], seq 0 is NULL
    queue,     \* its pending-event queue
    emitted,   \* the number of events it has emitted
    emitting,  \* events that are stored and not yet enqueued
    flush,     \* its flush() calls
    (* elsewhere *)
    log,       \* the relay's log
    late,      \* requests on the way whose sender no longer waits
    restarts

vars == <<rows, queue, emitted, emitting, flush, log, late, restarts>>

Idle == [pc |-> "idle", batch |-> <<>>, assigned |-> <<>>]
Flushing(pc, batch) == [pc |-> pc, batch |-> batch, assigned |-> <<>>]

Init ==
    /\ rows = [d \in Device |-> <<>>]
    /\ queue = [d \in Device |-> <<>>]
    /\ emitted = [d \in Device |-> 0]
    /\ emitting = [d \in Device |-> <<>>]
    /\ flush = [d \in Device |-> [f \in Flush |-> Idle]]
    /\ log = <<>>
    /\ late = {}
    /\ restarts = 0

-----------------------------------------------------------------------------
(* VaultCommands.#emit *)

\* Its (deviceId, clientNonce) identifies an event; the nonce is fresh.
NewEvent(d) == [device |-> d, nonce |-> emitted[d] + 1]

\* appendEvent: a row without a seq.
Emit(d) ==
    /\ emitted[d] < MaxEmits
    /\ emitted' = [emitted EXCEPT ![d] = @ + 1]
    /\ rows' = [rows EXCEPT ![d] = Append(@, [event |-> NewEvent(d), seq |-> 0])]
    /\ emitting' = [emitting EXCEPT ![d] = Append(@, NewEvent(d))]
    /\ UNCHANGED <<queue, flush, log, late, restarts>>

\* enqueue, and onPersisted, which starts a flush without waiting for it.
Enqueue(d, f) ==
    /\ emitting[d] # <<>>
    /\ flush[d][f].pc = "idle"
    /\ queue' = [queue EXCEPT ![d] = enqueue(@, Head(emitting[d]))]
    /\ emitting' = [emitting EXCEPT ![d] = Tail(@)]
    /\ flush' = [flush EXCEPT ![d][f] = Flushing("peek", <<>>)]
    /\ UNCHANGED <<rows, emitted, log, late, restarts>>

-----------------------------------------------------------------------------
(* OutboundFlush.flush() *)

\* Take the next batch, mark it in flight and send it; or end.
FlushSend(d, f) ==
    LET batch == [i \in DOMAIN peek(queue[d], MaxBatch) |->
                     peek(queue[d], MaxBatch)[i].event]
    IN  /\ flush[d][f].pc = "peek"
        /\ IF batch = <<>>
           THEN /\ flush' = [flush EXCEPT ![d][f] = Idle]
                /\ UNCHANGED queue
           ELSE /\ flush' = [flush EXCEPT ![d][f] = Flushing("sent", batch)]
                /\ queue' = [queue EXCEPT ![d] = markInFlight(@, ToSet(batch))]
        /\ UNCHANGED <<rows, emitted, emitting, log, late, restarts>>

\* The relay refuses a batch with an event it has, and stores any other.
IsDuplicate(batch) == \E e \in ToSet(batch) : e \in ToSet(log)

FlushAnswered(d, f) ==
    LET batch == flush[d][f].batch
    IN  /\ flush[d][f].pc = "sent"
        /\ IF IsDuplicate(batch)
           THEN /\ flush' = [flush EXCEPT ![d][f].pc = "duplicate"]
                /\ UNCHANGED log
           ELSE /\ log' = log \o batch
                /\ flush' = [flush EXCEPT ![d][f].pc = "stamp",
                                          ![d][f].assigned =
                                              [i \in DOMAIN batch |-> Len(log) + i]]
        /\ UNCHANGED <<rows, queue, emitted, emitting, late, restarts>>

\* The answer is an error, or no connection was made: the relay did nothing.
FlushRejected(d, f) ==
    /\ "rejected" \in Faults
    /\ flush[d][f].pc = "sent"
    /\ flush' = [flush EXCEPT ![d][f].pc = "failed"]
    /\ UNCHANGED <<rows, queue, emitted, emitting, log, late, restarts>>

\* The connection breaks after the request left: it may arrive or not.
FlushGivesUp(d, f) ==
    /\ "late" \in Faults
    /\ flush[d][f].pc = "sent"
    /\ flush' = [flush EXCEPT ![d][f].pc = "failed"]
    /\ late' = late \cup {flush[d][f].batch}
    /\ UNCHANGED <<rows, queue, emitted, emitting, log, restarts>>

LateArrival(batch) ==
    /\ late' = late \ {batch}
    /\ log' = IF IsDuplicate(batch) THEN log ELSE log \o batch
    /\ UNCHANGED <<rows, queue, emitted, emitting, flush, restarts>>

\* onSeqAssigned: stampEventSeq for one event after the other.
Stamped(table, event, seq) ==
    [i \in DOMAIN table |->
        IF table[i].event = event THEN [table[i] EXCEPT !.seq = seq] ELSE table[i]]

FlushStamp_NextSeq(d, f) ==
    LET i == Len(flush[d][f].batch) - Len(flush[d][f].assigned) + 1
    IN  /\ flush[d][f].pc = "stamp"
        /\ flush[d][f].assigned # <<>>
        /\ rows' = [rows EXCEPT ![d] = Stamped(@, flush[d][f].batch[i], Len(log))]
        /\ flush' = [flush EXCEPT ![d][f].assigned = Tail(@)]
        /\ UNCHANGED <<queue, emitted, emitting, log, late, restarts>>
FlushStamp(d, f) ==
    LET i == Len(flush[d][f].batch) - Len(flush[d][f].assigned) + 1
    IN  /\ flush[d][f].pc = "stamp"
        /\ flush[d][f].assigned # <<>>
        /\ rows' = [rows EXCEPT ![d] = Stamped(@, flush[d][f].batch[i],
                                               Head(flush[d][f].assigned))]
        /\ flush' = [flush EXCEPT ![d][f].assigned = Tail(@)]
        /\ UNCHANGED <<queue, emitted, emitting, log, late, restarts>>

\* markSynced, after the last stamp or on DUPLICATE_CLIENT_NONCE; the loop
\* goes on with the next batch.
FlushSynced_BeforeStamp(d, f) ==
    /\ flush[d][f].pc \in {"stamp", "duplicate"}
    /\ queue' = [queue EXCEPT ![d] = markSynced(@, ToSet(flush[d][f].batch))]
    /\ flush' = [flush EXCEPT ![d][f] = Flushing("peek", <<>>)]
    /\ UNCHANGED <<rows, emitted, emitting, log, late, restarts>>
FlushSynced_RetryDuplicate(d, f) ==
    /\ \/ flush[d][f].pc = "stamp" /\ flush[d][f].assigned = <<>>
       \/ flush[d][f].pc = "duplicate"
    /\ queue' = [queue EXCEPT ![d] =
                    IF flush[d][f].pc = "stamp"
                    THEN markSynced(@, ToSet(flush[d][f].batch))
                    ELSE markFailed(@, ToSet(flush[d][f].batch))]
    /\ flush' = [flush EXCEPT ![d][f] = Flushing("peek", <<>>)]
    /\ UNCHANGED <<rows, emitted, emitting, log, late, restarts>>
FlushSynced(d, f) ==
    /\ \/ flush[d][f].pc = "stamp" /\ flush[d][f].assigned = <<>>
       \/ flush[d][f].pc = "duplicate"
    /\ queue' = [queue EXCEPT ![d] = markSynced(@, ToSet(flush[d][f].batch))]
    /\ flush' = [flush EXCEPT ![d][f] = Flushing("peek", <<>>)]
    /\ UNCHANGED <<rows, emitted, emitting, log, late, restarts>>

\* markFailed, and flush() throws: nothing retries until the next emit.
FlushFailed(d, f) ==
    /\ flush[d][f].pc = "failed"
    /\ queue' = [queue EXCEPT ![d] = markFailed(@, ToSet(flush[d][f].batch))]
    /\ flush' = [flush EXCEPT ![d][f] = Idle]
    /\ UNCHANGED <<rows, emitted, emitting, log, late, restarts>>

-----------------------------------------------------------------------------

\* Where a device's process is: what it would leave undone if it died now.
At(d) == {flush[d][f].pc : f \in Flush} \cup (IF emitting[d] = <<>> THEN {} ELSE {"emit"})

\* The process dies and the desktop starts again on the same storage; it does
\* not flush.  A request that was sent is still on its way.
Restart(d) ==
    /\ restarts < MaxRestarts
    /\ At(d) \subseteq FragileAt
    /\ restarts' = restarts + 1
    /\ emitting' = [emitting EXCEPT ![d] = <<>>]
    /\ flush' = [flush EXCEPT ![d] = [f \in Flush |-> Idle]]
    /\ queue' = [queue EXCEPT ![d] = hydrate(@)]
    /\ late' = late \cup {flush[d][f].batch : f \in {g \in Flush : flush[d][g].pc = "sent"}}
    /\ UNCHANGED <<rows, emitted, log>>

FlushStep(d, f) ==
    \/ FlushSend(d, f) \/ FlushAnswered(d, f) \/ FlushRejected(d, f)
    \/ FlushGivesUp(d, f) \/ FlushStamp(d, f) \/ FlushSynced(d, f) \/ FlushFailed(d, f)

Next ==
    \/ \E d \in Device : Emit(d) \/ Restart(d)
    \/ \E d \in Device, f \in Flush : Enqueue(d, f) \/ FlushStep(d, f)
    \/ \E batch \in late : LateArrival(batch)

Spec == Init /\ [][Next]_vars

\* An emit that began goes on, a flush goes on, and a push is answered or
\* fails; nothing obliges the user to emit, or the network to carry anything.
Fairness ==
    \A d \in Device :
        /\ WF_vars(\E f \in Flush : Enqueue(d, f))
        /\ \A f \in Flush : WF_vars(FlushStep(d, f))

FairSpec == Spec /\ Fairness

-----------------------------------------------------------------------------
(* Properties *)

TypeOK ==
    LET Event == [device : Device, nonce : 1..MaxEmits]
    IN  /\ \A d \in Device :
             /\ rows[d] \in Seq([event : Event, seq : Nat])
             /\ queue[d] \in Seq([event : Event, status : QueueStatus])
             /\ emitting[d] \in Seq(Event)
             /\ \A f \in Flush : flush[d][f].batch \in Seq(Event)
        /\ log \in Seq(Event) /\ late \subseteq Seq(Event)

\* No event is lost: what a device has stored is on the way to its queue, in
\* its queue, or accepted by the relay.
NoEventLost ==
    \A d \in Device : \A i \in DOMAIN rows[d] :
        rows[d][i].event \in Queued(queue[d]) \cup ToSet(emitting[d]) \cup ToSet(log)

\* A stamped row carries the seq under which the relay stores that very event,
\* whatever other flushes, devices and late requests appended meanwhile.
StampsAreRight ==
    \A d \in Device : \A i \in DOMAIN rows[d] :
        LET r == rows[d][i] IN r.seq # 0 => r.seq <= Len(log) /\ log[r.seq] = r.event

\* An event that left the queue has its seq: the replay after a restart puts
\* it where the relay did, not at the tail.
SyncedIsStamped ==
    \A d \in Device : \A i \in DOMAIN rows[d] :
        rows[d][i].seq = 0 =>
            rows[d][i].event \in Queued(queue[d]) \cup ToSet(emitting[d])

\* No event is in flight of two flushes of its device, or of none: none is sent
\* twice at once, and none is hidden from every later flush.
InFlightIsOwned ==
    \A d \in Device : \A i \in DOMAIN queue[d] :
        queue[d][i].status = "in-flight" =>
            \E f \in Flush :
                /\ queue[d][i].event \in ToSet(flush[d][f].batch)
                /\ \A g \in Flush \ {f} : queue[d][i].event \notin ToSet(flush[d][g].batch)

\* Every flush() ends: a batch the relay keeps refusing cannot make it loop.
FlushEnds == \A d \in Device, f \in Flush : flush[d][f].pc # "idle" ~> flush[d][f].pc = "idle"

\* As long as no push fails and no process dies, every event that is stored
\* reaches the relay, also one that was enqueued while another flush ran.
EventsArrive ==
    [](restarts = 0 /\ \A d \in Device, f \in Flush : flush[d][f].pc # "failed") =>
    \A d \in Device, n \in 1..MaxEmits :
        emitted[d] >= n ~> [device |-> d, nonce |-> n] \in ToSet(log)
=============================================================================
