------------------------ MODULE OutboundFlushProofs ------------------------
(***************************************************************************)
(* Proofs about the outbound flush, for any number of devices and of       *)
(* flush() calls that overlap, any batch size and any faults, except where *)
(* a theorem says so.                                                      *)
(*                                                                         *)
(* TypeInv types all of the state.  On it rest, in this order:             *)
(*   OwnInv    a batch is in flight of one call, what is emitted is new;   *)
(*   StampInv  the seqs still to be stamped are those of the batch's rest; *)
(*   PlaceInv  with batches of one event, what is dropped is in the log;   *)
(*   KnownInv  with mild faults, the relay never refuses a duplicate;      *)
(*   RowInv    with mild faults, what is dropped is stamped;               *)
(*   OnceInv   under any faults, no queue, batch, late request or log has  *)
(*             an event twice.                                             *)
(* The steps are first restated as lemmas (SendStep ... CallAfter), so that *)
(* no other proof opens a record of the code's local variables.            *)
(***************************************************************************)
EXTENDS OutboundFlush, PendingEventQueueProofs

Event == [device : Device, nonce : 1..MaxEmits]
Row == [event : Event, seq : Nat]
Call == [pc : {"idle", "peek", "sent", "duplicate", "stamp", "failed"},
         batch : Seq(Event), assigned : Seq(Nat)]

CallsFit ==
    /\ flush \in [Device -> [Flush -> Call]]
    /\ \A d \in Device, f \in Flush :
          flush[d][f].pc \in {"idle", "peek"} => flush[d][f].batch = <<>>

TypeInv ==
    /\ rows \in [Device -> Seq(Row)]
    /\ queue \in [Device -> Seq(QueueEntry(Event))]
    /\ emitted \in [Device -> 0..MaxEmits]
    /\ emitting \in [Device -> Seq(Event)]
    /\ CallsFit
    /\ log \in Seq(Event)
    /\ late \subseteq Seq(Event)

-----------------------------------------------------------------------------
(* Sequences *)

LEMMA ToSetAppend ==
    ASSUME NEW S, NEW s \in Seq(S), NEW x \in S
    PROVE  ToSet(Append(s, x)) = ToSet(s) \cup {x}
<1>1. /\ Append(s, x) \in Seq(S) /\ Len(Append(s, x)) = Len(s) + 1
      /\ \A i \in 1..Len(s) : Append(s, x)[i] = s[i]
      /\ Append(s, x)[Len(s) + 1] = x
  BY AppendProperties
<1>2. Len(s) \in Nat /\ DOMAIN s = 1..Len(s) /\ DOMAIN Append(s, x) = 1..(Len(s) + 1)
  BY <1>1, LenProperties
<1>3. \A y : y \in ToSet(Append(s, x)) <=> y \in ToSet(s) \/ y = x
  BY <1>1, <1>2 DEF ToSet
<1> QED
  BY <1>3

LEMMA ToSetConcat ==
    ASSUME NEW S, NEW s \in Seq(S), NEW t \in Seq(S)
    PROVE  ToSet(s \o t) = ToSet(s) \cup ToSet(t)
<1> DEFINE u == s \o t
<1>1. /\ u \in Seq(S) /\ Len(u) = Len(s) + Len(t)
      /\ \A i \in 1..(Len(s) + Len(t)) : u[i] = IF i <= Len(s) THEN s[i] ELSE t[i - Len(s)]
  BY ConcatProperties
<1> HIDE DEF u
<1>2. /\ Len(s) \in Nat /\ Len(t) \in Nat
      /\ DOMAIN s = 1..Len(s) /\ DOMAIN t = 1..Len(t) /\ DOMAIN u = 1..(Len(s) + Len(t))
  BY <1>1, LenProperties
<1>3. \A i \in DOMAIN u : u[i] \in ToSet(s) \cup ToSet(t)
  <2> TAKE i \in DOMAIN u
  <2>1. CASE i <= Len(s)
    BY <1>1, <1>2, <2>1 DEF ToSet
  <2>2. CASE i > Len(s)
    <3>1. i - Len(s) \in DOMAIN t /\ u[i] = t[i - Len(s)]
      BY <1>1, <1>2, <2>2
    <3> QED
      BY <3>1 DEF ToSet
  <2> QED
    BY <1>2, <2>1, <2>2
<1>4. \A i \in DOMAIN s : s[i] \in ToSet(u)
  <2> TAKE i \in DOMAIN s
  <2>1. i \in DOMAIN u /\ u[i] = s[i]
    BY <1>1, <1>2
  <2> QED
    BY <2>1 DEF ToSet
<1>5. \A i \in DOMAIN t : t[i] \in ToSet(u)
  <2> TAKE i \in DOMAIN t
  <2>1. i + Len(s) \in DOMAIN u /\ i + Len(s) > Len(s) /\ (i + Len(s)) - Len(s) = i
    BY <1>2
  <2>2. u[i + Len(s)] = t[i]
    BY <1>1, <1>2, <2>1
  <2> QED
    BY <2>1, <2>2 DEF ToSet
<1> QED
  BY <1>3, <1>4, <1>5 DEF ToSet, u

LEMMA HeadTail ==
    ASSUME NEW S, NEW s \in Seq(S), s # <<>>
    PROVE  /\ Len(s) \in Nat \ {0} /\ Head(s) = s[1] /\ Head(s) \in S /\ Head(s) \in ToSet(s)
           /\ Tail(s) \in Seq(S) /\ Len(Tail(s)) = Len(s) - 1
           /\ \A i \in 1..Len(Tail(s)) : Tail(s)[i] = s[i + 1]
           /\ ToSet(Tail(s)) \subseteq ToSet(s)
           /\ \A x \in ToSet(s) : x = Head(s) \/ x \in ToSet(Tail(s))
<1>1. /\ Head(s) \in S /\ Tail(s) \in Seq(S) /\ Len(Tail(s)) = Len(s) - 1
      /\ \A i \in 1..Len(Tail(s)) : Tail(s)[i] = s[i + 1]
      /\ Len(s) \in Nat \ {0} /\ DOMAIN s = 1..Len(s)
  BY HeadTailProperties, EmptySeq, LenProperties
<1>2. Head(s) = s[1]
  OBVIOUS
<1>3. DOMAIN Tail(s) = 1..(Len(s) - 1)
  BY <1>1, LenProperties
<1>4. Head(s) \in ToSet(s)
  BY <1>1, <1>2 DEF ToSet
<1>5. ToSet(Tail(s)) \subseteq ToSet(s)
  <2> SUFFICES ASSUME NEW i \in DOMAIN Tail(s) PROVE Tail(s)[i] \in ToSet(s)
    BY DEF ToSet
  <2>1. i + 1 \in DOMAIN s /\ Tail(s)[i] = s[i + 1]
    BY <1>1, <1>3
  <2> QED
    BY <2>1 DEF ToSet
<1>6. ASSUME NEW i \in DOMAIN s PROVE s[i] = Head(s) \/ s[i] \in ToSet(Tail(s))
  <2>1. CASE i = 1
    BY <1>2, <2>1
  <2>2. CASE i # 1
    <3>1. i - 1 \in DOMAIN Tail(s) /\ (i - 1) + 1 = i
      BY <1>1, <1>3, <2>2
    <3>2. Tail(s)[i - 1] = s[i]
      BY <1>1, <1>3, <3>1
    <3> QED
      BY <3>1, <3>2 DEF ToSet
  <2> QED
    BY <2>1, <2>2
<1> QED
  BY <1>1, <1>2, <1>4, <1>5, <1>6 DEF ToSet

-----------------------------------------------------------------------------
(* What the steps of a flush do to its record *)

\* Call f of device d becomes x, and no other call changes.
To(d, f, x) ==
    /\ flush' \in [Device -> [Flush -> Call]]
    /\ \A e \in Device, g \in Flush :
          flush'[e][g] = IF e = d /\ g = f THEN x ELSE flush[e][g]

LEMMA CallChange ==
    ASSUME TypeInv, NEW d \in Device, NEW f \in Flush, NEW x \in Call,
           flush' = [flush EXCEPT ![d][f] = x]
    PROVE  To(d, f, x)
<1>1. flush \in [Device -> [Flush -> Call]]
  BY DEF TypeInv, CallsFit
<1> HIDE DEF Call
<1> QED
  BY <1>1 DEF To

LEMMA ConstantCalls ==
    ASSUME NEW pc \in {"idle", "peek", "sent", "duplicate", "stamp", "failed"},
           NEW batch \in Seq(Event)
    PROVE  Idle \in Call /\ Flushing(pc, batch) \in Call
<1>1. <<>> \in Seq(Nat) /\ <<>> \in Seq(Event)
  BY EmptySeq
<1> QED
  BY <1>1 DEF Idle, Flushing, Call

\* The batch that a flush takes.
LEMMA SendStep ==
    ASSUME TypeInv, NEW d \in Device, NEW f \in Flush, FlushSend(d, f)
    PROVE  /\ flush[d][f].pc = "peek"
           /\ \/ To(d, f, Idle) /\ queue' = queue
              \/ \E B \in Seq(Event) :
                    /\ B # <<>> /\ Len(B) <= MaxBatch
                    /\ To(d, f, Flushing("sent", B))
                    /\ queue' = [queue EXCEPT ![d] = markInFlight(queue[d], ToSet(B))]
                    /\ \A e \in ToSet(B) : \E x \in ToSet(queue[d]) :
                          x.event = e /\ x.status # "in-flight"
<1> DEFINE p == peek(queue[d], MaxBatch)
           B == [i \in DOMAIN p |-> p[i].event]
<1>1. queue[d] \in Seq(QueueEntry(Event)) /\ MaxBatch \in Nat
  BY BoundAssumption DEF TypeInv, CallsFit
<1>2. /\ p \in Seq(QueueEntry(Event)) /\ Len(p) <= MaxBatch
      /\ \A x \in ToSet(p) : x \in ToSet(queue[d]) /\ x.status # "in-flight"
  BY <1>1, PeekFacts
<1>0. /\ flush[d][f].pc = "peek"
      /\ IF B = <<>>
         THEN flush' = [flush EXCEPT ![d][f] = Idle] /\ queue' = queue
         ELSE /\ flush' = [flush EXCEPT ![d][f] = Flushing("sent", B)]
              /\ queue' = [queue EXCEPT ![d] = markInFlight(@, ToSet(B))]
  BY DEF FlushSend
<1> HIDE DEF p
<1>3. /\ Len(p) \in Nat /\ DOMAIN p = 1..Len(p)
      /\ \A i \in DOMAIN p : p[i] \in QueueEntry(Event)
  BY <1>2, LenProperties, ElementOfSeq
<1>4. B \in [1..Len(p) -> Event]
  BY <1>3 DEF QueueEntry
<1>5. B \in Seq(Event) /\ Len(B) = Len(p)
  BY <1>3, <1>4, SeqDef, LenProperties
<1>6. \A e \in ToSet(B) : \E x \in ToSet(p) : x.event = e
  BY DEF ToSet
<1>7. \A e \in ToSet(B) : \E x \in ToSet(queue[d]) : x.event = e /\ x.status # "in-flight"
  BY <1>2, <1>6
<1> HIDE DEF B
<1>8. CASE B = <<>>
  <2>1. Idle \in Call
    BY <1>5, ConstantCalls
  <2> QED
    BY <1>0, <1>8, <2>1, CallChange
<1>9. CASE B # <<>>
  <2>1. Flushing("sent", B) \in Call
    BY <1>5, ConstantCalls
  <2>2. queue' = [queue EXCEPT ![d] = markInFlight(queue[d], ToSet(B))]
    BY <1>0, <1>9
  <2>3. To(d, f, Flushing("sent", B))
    BY <1>0, <1>9, <2>1, CallChange
  <2> QED
    BY <1>0, <1>2, <1>5, <1>7, <1>9, <2>2, <2>3
<1> QED
  BY <1>8, <1>9

\* The answer: a duplicate, or one seq for each event of the batch.
LEMMA AnswerStep ==
    ASSUME TypeInv, NEW d \in Device, NEW f \in Flush, FlushAnswered(d, f)
    PROVE  /\ flush[d][f].pc = "sent"
           /\ \/ /\ IsDuplicate(flush[d][f].batch) /\ log' = log
                 /\ To(d, f, [flush[d][f] EXCEPT !.pc = "duplicate"])
              \/ /\ ~IsDuplicate(flush[d][f].batch)
                 /\ log' = log \o flush[d][f].batch
                 /\ To(d, f, [flush[d][f] EXCEPT !.pc = "stamp",
                                !.assigned = [i \in DOMAIN flush[d][f].batch |-> Len(log) + i]])
<1> DEFINE c == flush[d][f]
           seqs == [i \in DOMAIN c.batch |-> Len(log) + i]
<1>1. c \in Call /\ log \in Seq(Event) /\ flush \in [Device -> [Flush -> Call]]
  BY DEF TypeInv, CallsFit
<1>2. /\ Len(log) \in Nat /\ DOMAIN c.batch = 1..Len(c.batch) /\ Len(c.batch) \in Nat
  BY <1>1, LenProperties DEF Call
<1>3. seqs \in [1..Len(c.batch) -> Nat]
  BY <1>2
<1>4. seqs \in Seq(Nat)
  BY <1>2, <1>3, SeqDef
<1>5. CASE IsDuplicate(c.batch)
  <2>1. /\ flush' = [flush EXCEPT ![d][f].pc = "duplicate"] /\ log' = log
        /\ flush[d][f].pc = "sent"
    BY <1>5 DEF FlushAnswered
  <2>2. [c EXCEPT !.pc = "duplicate"] \in Call
    BY <1>1 DEF Call
  <2>3. flush' = [flush EXCEPT ![d][f] = [c EXCEPT !.pc = "duplicate"]]
    BY <2>1
  <2> QED
    BY <1>5, <2>1, <2>2, <2>3, CallChange
<1>6. CASE ~IsDuplicate(c.batch)
  <2>1. /\ flush' = [[flush EXCEPT ![d][f].pc = "stamp"] EXCEPT ![d][f].assigned = seqs]
        /\ log' = log \o c.batch /\ c.pc = "sent"
    BY <1>6 DEF FlushAnswered
  <2> DEFINE new == [c EXCEPT !.pc = "stamp", !.assigned = seqs]
  <2>2. new \in Call
    BY <1>1, <1>4 DEF Call
  <2>3. flush' = [flush EXCEPT ![d][f] = new]
    BY <1>1, <2>1 DEF Call
  <2>4. To(d, f, new)
    BY <2>2, <2>3, CallChange
  <2> QED
    BY <1>6, <2>1, <2>4
<1> QED
  BY <1>5, <1>6

LEMMA StampStep ==
    ASSUME TypeInv, NEW d \in Device, NEW f \in Flush, FlushStamp(d, f)
    PROVE  LET c == flush[d][f]
               i == Len(c.batch) - Len(c.assigned) + 1
           IN  /\ c.pc = "stamp" /\ c.assigned # <<>>
               /\ To(d, f, [c EXCEPT !.assigned = Tail(c.assigned)])
               /\ rows' = [rows EXCEPT ![d] = Stamped(rows[d], c.batch[i], Head(c.assigned))]
               /\ rows' \in [Device -> Seq(Row)]
<1> DEFINE c == flush[d][f]
           i == Len(c.batch) - Len(c.assigned) + 1
           new == [c EXCEPT !.assigned = Tail(c.assigned)]
           st == Stamped(rows[d], c.batch[i], Head(c.assigned))
<1>1. /\ c \in Call /\ rows[d] \in Seq(Row) /\ flush \in [Device -> [Flush -> Call]]
      /\ rows \in [Device -> Seq(Row)]
  BY DEF TypeInv, CallsFit
<1>2. c.pc = "stamp" /\ c.assigned # <<>> /\ c.assigned \in Seq(Nat)
  BY <1>1 DEF FlushStamp, Call
<1>3. Head(c.assigned) \in Nat /\ Tail(c.assigned) \in Seq(Nat)
  BY <1>2, HeadTail
<1>4. new \in Call
  BY <1>1, <1>3 DEF Call
<1>5. flush' = [flush EXCEPT ![d][f] = new] /\ rows' = [rows EXCEPT ![d] = st]
  BY <1>1 DEF FlushStamp, Call
<1>6. To(d, f, new)
  BY <1>4, <1>5, CallChange
<1>7. DOMAIN rows[d] = 1..Len(rows[d]) /\ Len(rows[d]) \in Nat
      /\ \A k \in DOMAIN rows[d] : rows[d][k] \in Row
  BY <1>1, LenProperties, ElementOfSeq
<1>8. st \in [1..Len(rows[d]) -> Row]
  <2>1. \A r \in Row : [r EXCEPT !.seq = Head(c.assigned)] \in Row
    BY <1>3 DEF Row
  <2> HIDE DEF c, i
  <2> QED
    BY <1>7, <2>1 DEF Stamped
<1> HIDE DEF st
<1>9. st \in Seq(Row)
  BY <1>7, <1>8, SeqDef
<1>10. rows' \in [Device -> Seq(Row)]
  BY <1>1, <1>5, <1>9
<1> QED
  BY <1>2, <1>5, <1>6, <1>10 DEF st

\* markSynced: the batch is done.
LEMMA SyncedStep ==
    ASSUME TypeInv, NEW d \in Device, NEW f \in Flush, FlushSynced(d, f)
    PROVE  /\ \/ flush[d][f].pc = "stamp" /\ flush[d][f].assigned = <<>>
              \/ flush[d][f].pc = "duplicate"
           /\ To(d, f, Flushing("peek", <<>>))
           /\ queue' = [queue EXCEPT ![d] = markSynced(queue[d], ToSet(flush[d][f].batch))]
<1>1. Flushing("peek", <<>>) \in Call
  BY ConstantCalls, EmptySeq
<1> QED
  BY <1>1, CallChange DEF FlushSynced

\* markFailed: the batch is given back.
LEMMA FailedStep ==
    ASSUME TypeInv, NEW d \in Device, NEW f \in Flush, FlushFailed(d, f)
    PROVE  /\ flush[d][f].pc = "failed" /\ To(d, f, Idle)
           /\ queue' = [queue EXCEPT ![d] = markFailed(queue[d], ToSet(flush[d][f].batch))]
<1>1. Idle \in Call
  BY ConstantCalls, EmptySeq
<1> QED
  BY <1>1, CallChange DEF FlushFailed

\* The push fails, as a refusal or as a broken connection.
LEMMA LostStep ==
    ASSUME TypeInv, NEW d \in Device, NEW f \in Flush,
           FlushRejected(d, f) \/ FlushGivesUp(d, f)
    PROVE  /\ flush[d][f].pc = "sent"
           /\ To(d, f, [flush[d][f] EXCEPT !.pc = "failed"])
<1> DEFINE new == [flush[d][f] EXCEPT !.pc = "failed"]
<1>1. flush[d][f] \in Call
  BY DEF TypeInv, CallsFit
<1>2. new \in Call
  BY <1>1 DEF Call
<1>3. flush[d][f].pc = "sent" /\ flush' = [flush EXCEPT ![d][f] = new]
  BY DEF FlushRejected, FlushGivesUp
<1> QED
  BY <1>2, <1>3, CallChange

\* enqueue, and a flush starts.
LEMMA EnqueueStep ==
    ASSUME TypeInv, NEW d \in Device, NEW f \in Flush, Enqueue(d, f)
    PROVE  /\ flush[d][f].pc = "idle" /\ emitting[d] # <<>>
           /\ To(d, f, Flushing("peek", <<>>))
           /\ queue' = [queue EXCEPT ![d] = enqueue(queue[d], Head(emitting[d]))]
           /\ emitting' = [emitting EXCEPT ![d] = Tail(emitting[d])]
<1>1. Flushing("peek", <<>>) \in Call
  BY ConstantCalls, EmptySeq
<1> QED
  BY <1>1, CallChange DEF Enqueue

LEMMA RestartStep ==
    ASSUME TypeInv, NEW d \in Device, Restart(d)
    PROVE  /\ flush' \in [Device -> [Flush -> Call]]
           /\ \A e \in Device, g \in Flush :
                 flush'[e][g] = IF e = d THEN Idle ELSE flush[e][g]
           /\ queue' = [queue EXCEPT ![d] = hydrate(queue[d])]
           /\ emitting' = [emitting EXCEPT ![d] = <<>>]
<1>1. Idle \in Call
  BY ConstantCalls, EmptySeq
<1>2. flush' = [flush EXCEPT ![d] = [g \in Flush |-> Idle]] /\ flush \in [Device -> [Flush -> Call]]
  BY DEF Restart, TypeInv, CallsFit
<1> HIDE DEF Call
<1> QED
  BY <1>1, <1>2 DEF Restart

-----------------------------------------------------------------------------
(* Types *)

\* After a step of one call the records are typed if that call's is.
LEMMA CallsTyped ==
    ASSUME TypeInv, NEW d \in Device, NEW f \in Flush, NEW x, To(d, f, x),
           x.pc \in {"idle", "peek"} => x.batch = <<>>
    PROVE  CallsFit'
<1>1. flush \in [Device -> [Flush -> Call]] /\ CallsFit
  BY DEF TypeInv, CallsFit
<1> HIDE DEF Call
<1> QED
  BY <1>1 DEF To, CallsFit

LEMMA QueueTyped ==
    ASSUME TypeInv, NEW d \in Device, NEW q \in Seq(QueueEntry(Event)),
           queue' = [queue EXCEPT ![d] = q]
    PROVE  queue' \in [Device -> Seq(QueueEntry(Event))]
BY DEF TypeInv

LEMMA EmitTyped == ASSUME TypeInv, NEW d \in Device, Emit(d) PROVE TypeInv' /\ NewEvent(d) \in Event
<1>1. emitted[d] \in 0..MaxEmits /\ emitted[d] < MaxEmits /\ MaxEmits \in Nat
  BY BoundAssumption DEF TypeInv, Emit
<1>2. NewEvent(d) \in Event
  BY <1>1 DEF NewEvent, Event
<1>3. [event |-> NewEvent(d), seq |-> 0] \in Row
  BY <1>2 DEF Row
<1>4. /\ Append(rows[d], [event |-> NewEvent(d), seq |-> 0]) \in Seq(Row)
      /\ Append(emitting[d], NewEvent(d)) \in Seq(Event)
  BY <1>2, <1>3, AppendProperties DEF TypeInv
<1>5. /\ rows' = [rows EXCEPT ![d] = Append(rows[d], [event |-> NewEvent(d), seq |-> 0])]
      /\ emitting' = [emitting EXCEPT ![d] = Append(emitting[d], NewEvent(d))]
      /\ emitted' = [emitted EXCEPT ![d] = emitted[d] + 1]
      /\ UNCHANGED <<queue, flush, log, late>>
  BY DEF Emit
<1>6. rows' \in [Device -> Seq(Row)] /\ emitting' \in [Device -> Seq(Event)]
  <2> HIDE DEF Row, Event
  <2> QED
    BY <1>4, <1>5 DEF TypeInv
<1>7. emitted' \in [Device -> 0..MaxEmits]
  BY <1>1, <1>5 DEF TypeInv
<1> QED
  BY <1>2, <1>5, <1>6, <1>7 DEF TypeInv, CallsFit

LEMMA EnqueueTyped ==
    ASSUME TypeInv, NEW d \in Device, NEW f \in Flush, Enqueue(d, f) PROVE TypeInv'
<1>1. /\ emitting[d] \in Seq(Event) /\ emitting[d] # <<>> /\ queue[d] \in Seq(QueueEntry(Event))
      /\ UNCHANGED <<rows, emitted, log, late>>
  BY DEF TypeInv, Enqueue
<1>2. Head(emitting[d]) \in Event /\ Tail(emitting[d]) \in Seq(Event)
  BY <1>1, HeadTail
<1>3. enqueue(queue[d], Head(emitting[d])) \in Seq(QueueEntry(Event))
  BY <1>1, <1>2, EnqueueFacts
<1>4. queue' \in [Device -> Seq(QueueEntry(Event))]
  BY <1>3, EnqueueStep, QueueTyped
<1>5. emitting' \in [Device -> Seq(Event)]
  BY <1>2, EnqueueStep DEF TypeInv
<1>6. CallsFit'
  <2>1. Flushing("peek", <<>>).batch = <<>>
    BY DEF Flushing
  <2> QED
    BY <2>1, EnqueueStep, CallsTyped
<1> QED
  BY <1>1, <1>4, <1>5, <1>6 DEF TypeInv

LEMMA FlushTyped ==
    ASSUME TypeInv, NEW d \in Device, NEW f \in Flush, FlushStep(d, f) PROVE TypeInv'
<1> DEFINE c == flush[d][f]
<1>0. /\ c \in Call /\ c.batch \in Seq(Event) /\ queue[d] \in Seq(QueueEntry(Event))
      /\ log \in Seq(Event) /\ QueueStatus = {"pending", "in-flight", "failed"}
  BY DEF TypeInv, CallsFit, Call, QueueStatus
<1>1. CASE FlushSend(d, f)
  <2>1. UNCHANGED <<rows, emitted, emitting, log, late>>
    BY <1>1 DEF FlushSend
  <2>2. CASE To(d, f, Idle) /\ queue' = queue
    <3>1. CallsFit'
      <4>1. Idle.batch = <<>>
        BY DEF Idle
      <4> QED
        BY <2>2, <4>1, CallsTyped
    <3> QED
      BY <2>1, <2>2, <3>1 DEF TypeInv
  <2>3. ASSUME NEW B \in Seq(Event), To(d, f, Flushing("sent", B)),
               queue' = [queue EXCEPT ![d] = markInFlight(queue[d], ToSet(B))]
        PROVE  TypeInv'
    <3>1. CallsFit'
      <4>1. Flushing("sent", B).pc = "sent"
        BY DEF Flushing
      <4> QED
        BY <2>3, <4>1, CallsTyped
    <3>2. markInFlight(queue[d], ToSet(B)) \in Seq(QueueEntry(Event))
      BY <1>0, MarkFacts DEF markInFlight
    <3>3. queue' \in [Device -> Seq(QueueEntry(Event))]
      BY <2>3, <3>2, QueueTyped
    <3> QED
      BY <2>1, <3>1, <3>3 DEF TypeInv
  <2> QED
    BY <1>1, <2>2, <2>3, SendStep
<1>2. CASE FlushAnswered(d, f)
  <2>1. UNCHANGED <<rows, queue, emitted, emitting, late>>
    BY <1>2 DEF FlushAnswered
  <2>2. CallsFit'
    <3> DEFINE x == [c EXCEPT !.pc = "duplicate"]
               y == [c EXCEPT !.pc = "stamp",
                              !.assigned = [i \in DOMAIN c.batch |-> Len(log) + i]]
    <3>1. x.pc = "duplicate" /\ y.pc = "stamp"
      BY <1>0 DEF Call
    <3>2. To(d, f, x) \/ To(d, f, y)
      BY <1>2, AnswerStep
    <3> HIDE DEF x, y
    <3> QED
      BY <3>1, <3>2, CallsTyped
  <2>3. log' \in Seq(Event)
    BY <1>0, <1>2, AnswerStep, ConcatProperties
  <2> QED
    BY <2>1, <2>2, <2>3 DEF TypeInv
<1>3. CASE FlushRejected(d, f) \/ FlushGivesUp(d, f)
  <2>1. UNCHANGED <<rows, queue, emitted, emitting, log>> /\ late' \subseteq Seq(Event)
    BY <1>0, <1>3 DEF FlushRejected, FlushGivesUp, TypeInv
  <2>2. To(d, f, [c EXCEPT !.pc = "failed"]) /\ [c EXCEPT !.pc = "failed"].pc = "failed"
    BY <1>0, <1>3, LostStep DEF Call
  <2>3. CallsFit'
    BY <2>2, CallsTyped
  <2> QED
    BY <2>1, <2>3 DEF TypeInv
<1>4. CASE FlushStamp(d, f)
  <2>1. UNCHANGED <<queue, emitted, emitting, log, late>>
    BY <1>4 DEF FlushStamp
  <2>2. /\ To(d, f, [c EXCEPT !.assigned = Tail(c.assigned)])
        /\ [c EXCEPT !.assigned = Tail(c.assigned)].pc = "stamp"
        /\ rows' \in [Device -> Seq(Row)]
    BY <1>0, <1>4, StampStep DEF Call
  <2>3. CallsFit'
    BY <2>2, CallsTyped
  <2> QED
    BY <2>1, <2>2, <2>3 DEF TypeInv
<1>5. CASE FlushSynced(d, f)
  <2>1. UNCHANGED <<rows, emitted, emitting, log, late>>
    BY <1>5 DEF FlushSynced
  <2>2. CallsFit'
    <3>1. Flushing("peek", <<>>).batch = <<>>
      BY DEF Flushing
    <3> QED
      BY <1>5, <3>1, SyncedStep, CallsTyped
  <2>3. markSynced(queue[d], ToSet(c.batch)) \in Seq(QueueEntry(Event))
    BY <1>0, SyncedFacts
  <2>4. queue' \in [Device -> Seq(QueueEntry(Event))]
    BY <1>5, <2>3, SyncedStep, QueueTyped
  <2> QED
    BY <2>1, <2>2, <2>4 DEF TypeInv
<1>6. CASE FlushFailed(d, f)
  <2>1. UNCHANGED <<rows, emitted, emitting, log, late>>
    BY <1>6 DEF FlushFailed
  <2>2. CallsFit'
    <3>1. Idle.batch = <<>>
      BY DEF Idle
    <3> QED
      BY <1>6, <3>1, FailedStep, CallsTyped
  <2>3. markFailed(queue[d], ToSet(c.batch)) \in Seq(QueueEntry(Event))
    BY <1>0, MarkFacts DEF markFailed
  <2>4. queue' \in [Device -> Seq(QueueEntry(Event))]
    BY <1>6, <2>3, FailedStep, QueueTyped
  <2> QED
    BY <2>1, <2>2, <2>4 DEF TypeInv
<1> QED
  BY <1>1, <1>2, <1>3, <1>4, <1>5, <1>6 DEF FlushStep

LEMMA RestartTyped == ASSUME TypeInv, NEW d \in Device, Restart(d) PROVE TypeInv'
<1>1. UNCHANGED <<rows, emitted, log>>
  BY DEF Restart
<1>2. CallsFit'
  <2>1. Idle.batch = <<>>
    BY DEF Idle
  <2> HIDE DEF Call
  <2> QED
    <3>1. /\ flush' \in [Device -> [Flush -> Call]]
          /\ \A e \in Device, g \in Flush :
                flush'[e][g] = Idle \/ flush'[e][g] = flush[e][g]
      BY RestartStep
    <3>2. CallsFit
      BY DEF TypeInv
    <3> QED
      BY <2>1, <3>1, <3>2 DEF CallsFit
<1>3. hydrate(queue[d]) \in Seq(QueueEntry(Event))
  BY HydrateFacts DEF TypeInv
<1>4. queue' \in [Device -> Seq(QueueEntry(Event))]
  BY <1>3, RestartStep, QueueTyped
<1>5. emitting' \in [Device -> Seq(Event)]
  <2>1. <<>> \in Seq(Event)
    BY EmptySeq
  <2> QED
    BY <2>1, RestartStep DEF TypeInv
<1>6. late' \subseteq Seq(Event)
  BY DEF Restart, TypeInv, CallsFit, Call
<1> QED
  BY <1>1, <1>2, <1>4, <1>5, <1>6 DEF TypeInv

LEMMA LateTyped == ASSUME TypeInv, NEW batch \in late, LateArrival(batch) PROVE TypeInv'
<1>1. batch \in Seq(Event) /\ log \o batch \in Seq(Event)
  BY ConcatProperties DEF TypeInv
<1> QED
  BY <1>1 DEF LateArrival, TypeInv, CallsFit

LEMMA InitTyped == Init => TypeInv
<1>1. <<>> \in Seq(Event) /\ <<>> \in Seq(Row) /\ <<>> \in Seq(QueueEntry(Event)) /\ Idle \in Call
  BY EmptySeq, ConstantCalls
<1>2. MaxEmits \in Nat
  BY BoundAssumption
<1> HIDE DEF Call, Event, Row
<1> QED
  BY <1>1, <1>2 DEF Init, TypeInv, CallsFit, Idle

LEMMA NextTyped == TypeInv /\ [Next]_vars => TypeInv'
<1> SUFFICES ASSUME TypeInv, [Next]_vars PROVE TypeInv'
  OBVIOUS
<1>1. CASE UNCHANGED vars
  BY <1>1 DEF vars, TypeInv, CallsFit
<1> QED
  BY <1>1, EmitTyped, RestartTyped, EnqueueTyped, FlushTyped, LateTyped DEF Next

LEMMA TypeHolds == Spec => []TypeInv
BY InitTyped, NextTyped, PTL DEF Spec


\* Every variable has its type: rows, queues, batches and the log are sequences
\* of events that were emitted within the bound.
THEOREM TypeCorrect == Spec => []TypeOK
<1>1. TypeInv => TypeOK
  BY DEF TypeInv, TypeOK, CallsFit, Call, Row, QueueEntry, Event
<1> QED
  BY <1>1, TypeHolds, PTL

-----------------------------------------------------------------------------
(* Who has an event in flight *)

Batch(d, f) == ToSet(flush[d][f].batch)

\* The events of d that have left #emit, or are about to.
Taken(d, e) == \/ e \in ToSet(emitting[d])
               \/ \E x \in ToSet(queue[d]) : x.event = e
               \/ \E f \in Flush : e \in Batch(d, f)

\* What is being emitted is new: in no queue and no batch, and there once.
FreshOf(d) ==
    /\ \A e \in Event : Taken(d, e) => e.device = d /\ e.nonce <= emitted[d]
    /\ \A i, j \in DOMAIN emitting[d] : emitting[d][i] = emitting[d][j] => i = j
    /\ \A e \in ToSet(emitting[d]) :
          /\ \A x \in ToSet(queue[d]) : x.event # e
          /\ \A f \in Flush : e \notin Batch(d, f)

OwnOf(d) ==
    /\ \A f, g \in Flush : f # g => Batch(d, f) \cap Batch(d, g) = {}
    /\ \A f \in Flush : \A x \in ToSet(queue[d]) :
          x.event \in Batch(d, f) => x.status = "in-flight"
    /\ \A x \in ToSet(queue[d]) :
          x.status = "in-flight" => \E f \in Flush : x.event \in Batch(d, f)

OwnInv == \A d \in Device : FreshOf(d) /\ OwnOf(d)

Same(d) == /\ queue'[d] = queue[d] /\ emitting'[d] = emitting[d] /\ emitted'[d] = emitted[d]
           /\ \A f \in Flush : flush'[d][f].batch = flush[d][f].batch

LEMMA SameOwned ==
    ASSUME NEW d \in Device, FreshOf(d), OwnOf(d), Same(d)
    PROVE  FreshOf(d)' /\ OwnOf(d)'
<1>1. \A f \in Flush : Batch(d, f)' = Batch(d, f)
  BY DEF Same, Batch
<1>2. \A e : Taken(d, e)' <=> Taken(d, e)
  BY <1>1 DEF Same, Taken
<1>3. FreshOf(d)'
  BY <1>1, <1>2 DEF FreshOf, Same
<1>4. OwnOf(d)'
  BY <1>1 DEF OwnOf, Same
<1> QED
  BY <1>3, <1>4

\* A call that changes gives its device a batch, and the others keep theirs.
LEMMA BatchesAfter ==
    ASSUME NEW d \in Device, NEW f \in Flush, NEW x, To(d, f, x)
    PROVE  /\ \A e \in Device : \A g \in Flush : e # d \/ g # f => Batch(e, g)' = Batch(e, g)
           /\ Batch(d, f)' = ToSet(x.batch)
BY DEF To, Batch

LEMMA EntriesTyped ==
    ASSUME TypeInv, NEW d \in Device
    PROVE  /\ queue[d] \in Seq(QueueEntry(Event))
           /\ \A x \in ToSet(queue[d]) :
                 x.event \in Event /\ x.status \in QueueStatus /\ DOMAIN x = {"event", "status"}
           /\ emitting[d] \in Seq(Event) /\ \A e \in ToSet(emitting[d]) : e \in Event
           /\ \A f \in Flush : flush[d][f] \in Call /\ flush[d][f].batch \in Seq(Event)
           /\ \A f \in Flush : Batch(d, f) \subseteq Event
<1>1. queue[d] \in Seq(QueueEntry(Event)) /\ emitting[d] \in Seq(Event)
      /\ \A f \in Flush : flush[d][f] \in Call
  BY DEF TypeInv, CallsFit
<1>2. \A f \in Flush : flush[d][f].batch \in Seq(Event)
  BY <1>1 DEF Call
<1>3. \A S : \A s \in Seq(S) : \A y \in ToSet(s) : y \in S
  <2> SUFFICES ASSUME NEW S, NEW s \in Seq(S), NEW i \in DOMAIN s PROVE s[i] \in S
    BY DEF ToSet
  <2> QED
    BY LenProperties, ElementOfSeq
<1>4. \A x \in ToSet(queue[d]) : x \in QueueEntry(Event)
  BY <1>1, <1>3
<1>5. \A e \in ToSet(emitting[d]) : e \in Event
  BY <1>1, <1>3
<1>6. \A f \in Flush : Batch(d, f) \subseteq Event
  BY <1>2, <1>3 DEF Batch
<1> QED
  BY <1>1, <1>2, <1>4, <1>5, <1>6 DEF QueueEntry

\* An event is new when it is emitted.
LEMMA EmitOwned ==
    ASSUME TypeInv, NEW d \in Device, FreshOf(d), OwnOf(d), Emit(d)
    PROVE  FreshOf(d)' /\ OwnOf(d)'
<1> DEFINE n == NewEvent(d)
<1>0. n \in Event /\ n.device = d /\ n.nonce = emitted[d] + 1 /\ emitted[d] \in Nat
      /\ emitted'[d] = emitted[d] + 1 /\ emitting'[d] = Append(emitting[d], n)
      /\ queue' = queue /\ flush' = flush
  <2>1. n \in Event
    BY EmitTyped
  <2> QED
    BY <2>1, BoundAssumption DEF NewEvent, Emit, TypeInv
<1> HIDE DEF n
<1>1. ~Taken(d, n)
  <2>1. ~(n.nonce <= emitted[d])
    BY <1>0
  <2> QED
    BY <1>0, <2>1 DEF FreshOf
<1>2. \A f \in Flush : Batch(d, f)' = Batch(d, f)
  BY <1>0 DEF Batch
<1>3. emitting[d] \in Seq(Event)
  BY EntriesTyped
<1>4. /\ ToSet(emitting'[d]) = ToSet(emitting[d]) \cup {n}
      /\ DOMAIN emitting'[d] = 1..(Len(emitting[d]) + 1) /\ Len(emitting[d]) \in Nat
      /\ DOMAIN emitting[d] = 1..Len(emitting[d])
      /\ \A i \in 1..Len(emitting[d]) : emitting'[d][i] = emitting[d][i]
      /\ emitting'[d][Len(emitting[d]) + 1] = n
  BY <1>0, <1>3, ToSetAppend, AppendProperties, LenProperties
<1>5. OwnOf(d)'
  BY <1>0, <1>2 DEF OwnOf
<1>6. \A e \in Event : Taken(d, e)' => e.device = d /\ e.nonce <= emitted'[d]
  <2> SUFFICES ASSUME NEW e \in Event, Taken(d, e)'
               PROVE  e.device = d /\ e.nonce <= emitted'[d]
    OBVIOUS
  <2>1. Taken(d, e) \/ e = n
    BY <1>0, <1>2, <1>4 DEF Taken
  <2>2. CASE e = n
    BY <1>0, <2>2
  <2>3. CASE Taken(d, e)
    <3>1. e.device = d /\ e.nonce <= emitted[d] /\ e.nonce \in Nat
      BY <2>3 DEF FreshOf, Event
    <3> QED
      BY <1>0, <3>1
  <2> QED
    BY <2>1, <2>2, <2>3
<1>7. \A i, j \in DOMAIN emitting'[d] : emitting'[d][i] = emitting'[d][j] => i = j
  <2>1. \A i \in DOMAIN emitting[d] : emitting[d][i] # n
    BY <1>1 DEF Taken, ToSet
  <2>2. \A i \in DOMAIN emitting'[d] : i \in DOMAIN emitting[d] \/ i = Len(emitting[d]) + 1
    BY <1>4
  <2>3. \A i, j \in DOMAIN emitting[d] : emitting[d][i] = emitting[d][j] => i = j
    BY DEF FreshOf
  <2> QED
    BY <1>4, <2>1, <2>2, <2>3
<1>8. \A e \in ToSet(emitting'[d]) :
          /\ \A x \in ToSet(queue'[d]) : x.event # e
          /\ \A f \in Flush : e \notin Batch(d, f)'
  BY <1>0, <1>1, <1>2, <1>4 DEF FreshOf, Taken
<1> QED
  BY <1>5, <1>6, <1>7, <1>8 DEF FreshOf

\* It leaves #emit for the queue, where no flush has it in flight.
LEMMA EnqueueOwned ==
    ASSUME TypeInv, NEW d \in Device, NEW f \in Flush, FreshOf(d), OwnOf(d), Enqueue(d, f)
    PROVE  FreshOf(d)' /\ OwnOf(d)'
<1> DEFINE h == Head(emitting[d])
           entry == [event |-> h, status |-> "pending"]
<1>0. /\ flush[d][f].pc = "idle" /\ emitting[d] # <<>> /\ emitted' = emitted
      /\ To(d, f, Flushing("peek", <<>>)) /\ emitting'[d] = Tail(emitting[d])
      /\ queue'[d] = enqueue(queue[d], h)
  BY EnqueueStep DEF TypeInv, Enqueue
<1>1. /\ emitting[d] \in Seq(Event) /\ queue[d] \in Seq(QueueEntry(Event))
      /\ flush[d][f].batch = <<>>
  BY <1>0, EntriesTyped DEF TypeInv, CallsFit
<1>2. /\ h \in Event /\ h \in ToSet(emitting[d]) /\ h = emitting[d][1]
      /\ ToSet(Tail(emitting[d])) \subseteq ToSet(emitting[d])
      /\ Len(emitting[d]) \in Nat \ {0} /\ Len(Tail(emitting[d])) = Len(emitting[d]) - 1
      /\ \A i \in 1..Len(Tail(emitting[d])) : Tail(emitting[d])[i] = emitting[d][i + 1]
      /\ Tail(emitting[d]) \in Seq(Event)
  BY <1>0, <1>1, HeadTail
<1> HIDE DEF h
<1>3. ToSet(queue'[d]) = ToSet(queue[d]) \cup {entry}
  <2>1. ToSet(enqueue(queue[d], h)) = ToSet(queue[d]) \cup {entry}
    <3>1. h \in Event /\ queue[d] \in Seq(QueueEntry(Event))
      BY <1>1, <1>2
    <3> QED
      BY <3>1, EnqueueFacts
  <2> QED
    BY <1>0, <2>1
<1>4. /\ DOMAIN emitting[d] = 1..Len(emitting[d])
      /\ DOMAIN emitting'[d] = 1..(Len(emitting[d]) - 1)
  BY <1>0, <1>1, <1>2, LenProperties
<1>5. \A g \in Flush : Batch(d, g)' = Batch(d, g)
  <2>1. ToSet(Flushing("peek", <<>>).batch) = {}
    BY DEF Flushing, ToSet
  <2>2. Batch(d, f) = {}
    BY <1>1 DEF Batch, ToSet
  <2> QED
    BY <1>0, <2>1, <2>2, BatchesAfter
<1>6. \A i, j \in DOMAIN emitting'[d] : emitting'[d][i] = emitting'[d][j] => i = j
  <2> SUFFICES ASSUME NEW i \in DOMAIN emitting'[d], NEW j \in DOMAIN emitting'[d],
                      emitting'[d][i] = emitting'[d][j]
               PROVE  i = j
    OBVIOUS
  <2>1. i + 1 \in DOMAIN emitting[d] /\ j + 1 \in DOMAIN emitting[d] /\ i \in Int /\ j \in Int
    BY <1>2, <1>4
  <2>2. emitting[d][i + 1] = emitting[d][j + 1]
    BY <1>0, <1>2, <1>4
  <2>3. i + 1 = j + 1
    BY <2>1, <2>2 DEF FreshOf
  <2> QED
    BY <2>1, <2>3
<1>7. h \notin ToSet(emitting'[d])
  <2> SUFFICES ASSUME NEW i \in DOMAIN emitting'[d], emitting'[d][i] = h PROVE FALSE
    BY DEF ToSet
  <2>1. i + 1 \in DOMAIN emitting[d] /\ 1 \in DOMAIN emitting[d] /\ i \in Int /\ i >= 1
    BY <1>2, <1>4
  <2>2. emitting[d][i + 1] = emitting[d][1]
    BY <1>0, <1>2, <1>4
  <2>3. i + 1 = 1
    BY <2>1, <2>2 DEF FreshOf
  <2> QED
    BY <2>1, <2>3
<1>8. \A e : Taken(d, e)' => Taken(d, e)
  BY <1>0, <1>2, <1>3, <1>5 DEF Taken
<1>9. FreshOf(d)'
  <2>1. \A e \in Event : Taken(d, e)' => e.device = d /\ e.nonce <= emitted'[d]
    BY <1>0, <1>8 DEF FreshOf
  <2>2. \A e \in ToSet(emitting'[d]) :
          /\ \A x \in ToSet(queue'[d]) : x.event # e
          /\ \A g \in Flush : e \notin Batch(d, g)'
    BY <1>0, <1>2, <1>3, <1>5, <1>7 DEF FreshOf
  <2> QED
    BY <1>6, <2>1, <2>2 DEF FreshOf
<1>10. OwnOf(d)'
  <2>1. \A g \in Flush : entry.event \notin Batch(d, g)
    BY <1>2 DEF FreshOf
  <2>2. entry.status = "pending"
    OBVIOUS
  <2> HIDE DEF entry
  <2> QED
    BY <1>3, <1>5, <2>1, <2>2 DEF OwnOf
<1> QED
  BY <1>9, <1>10


\* A batch is taken from entries that are not in flight, so from no other batch.
LEMMA SendOwned ==
    ASSUME TypeInv, NEW d \in Device, NEW f \in Flush, FreshOf(d), OwnOf(d), FlushSend(d, f)
    PROVE  FreshOf(d)' /\ OwnOf(d)'
<1>0. /\ queue[d] \in Seq(QueueEntry(Event)) /\ Batch(d, f) = {}
      /\ emitted' = emitted /\ emitting' = emitting /\ "in-flight" \in QueueStatus
      /\ queue \in [Device -> Seq(QueueEntry(Event))]
      /\ \A x \in ToSet(queue[d]) : x.event \in Event /\ DOMAIN x = {"event", "status"}
  <2>1. flush[d][f].batch = <<>>
    BY SendStep DEF TypeInv, CallsFit
  <2> QED
    BY <2>1, EntriesTyped DEF TypeInv, FlushSend, QueueStatus, Batch, ToSet
<1>1. CASE To(d, f, Idle) /\ queue' = queue
  <2>1. ToSet(Idle.batch) = {}
    BY DEF Idle, ToSet
  <2>2. \A g \in Flush : Batch(d, g)' = Batch(d, g)
    BY <1>0, <1>1, <2>1, BatchesAfter
  <2>3. \A e : Taken(d, e)' <=> Taken(d, e)
    BY <1>0, <1>1, <2>2 DEF Taken
  <2> QED
    BY <1>0, <1>1, <2>2, <2>3 DEF FreshOf, OwnOf
<1>2. ASSUME NEW B \in Seq(Event), To(d, f, Flushing("sent", B)),
             queue' = [queue EXCEPT ![d] = markInFlight(queue[d], ToSet(B))],
             \A e \in ToSet(B) : \E x \in ToSet(queue[d]) :
                 x.event = e /\ x.status # "in-flight"
      PROVE  FreshOf(d)' /\ OwnOf(d)'
  <2>1. Flushing("sent", B).batch = B
    BY DEF Flushing
  <2>2. /\ Batch(d, f)' = ToSet(B)
        /\ \A g \in Flush : g # f => Batch(d, g)' = Batch(d, g)
    BY <1>2, <2>1, BatchesAfter
  <2>3. queue'[d] = markInFlight(queue[d], ToSet(B))
    BY <1>0, <1>2
  <2>4. ToSet(queue'[d]) = {IF x.event \in ToSet(B) THEN [x EXCEPT !.status = "in-flight"]
                            ELSE x : x \in ToSet(queue[d])}
    BY <1>0, <2>3, MarkFacts DEF markInFlight
  <2>5. \A y \in ToSet(queue'[d]) :
          /\ \E x \in ToSet(queue[d]) : y.event = x.event
                /\ (x.event \notin ToSet(B) => y.status = x.status)
          /\ y.event \in ToSet(B) => y.status = "in-flight"
    BY <1>0, <2>4
  <2>6. \A g \in Flush : g # f => Batch(d, g) \cap ToSet(B) = {}
    BY <1>2 DEF OwnOf
  <2>7. \A e : Taken(d, e)' => Taken(d, e)
    BY <1>0, <1>2, <2>2, <2>5 DEF Taken
  <2>8. FreshOf(d)'
    <3>1. \A e \in ToSet(emitting[d]) :
            /\ e \notin ToSet(B)
            /\ \A y \in ToSet(queue'[d]) : y.event # e
            /\ \A g \in Flush : e \notin Batch(d, g)
      <4>1. \A e \in ToSet(emitting[d]) :
              /\ \A x \in ToSet(queue[d]) : x.event # e
              /\ \A g \in Flush : e \notin Batch(d, g)
        BY DEF FreshOf
      <4> QED
        BY <1>2, <2>5, <4>1
    <3>2. \A e \in ToSet(emitting[d]) : \A g \in Flush : e \notin Batch(d, g)'
      BY <2>2, <3>1
    <3> QED
      BY <1>0, <2>7, <3>1, <3>2 DEF FreshOf
  <2>9. OwnOf(d)'
    <3>1. \A g, h \in Flush : g # h => Batch(d, g)' \cap Batch(d, h)' = {}
      BY <2>2, <2>6 DEF OwnOf
    <3>2. \A g \in Flush : \A y \in ToSet(queue'[d]) :
            y.event \in Batch(d, g)' => y.status = "in-flight"
      BY <2>2, <2>5 DEF OwnOf
    <3>3. \A y \in ToSet(queue'[d]) :
            y.status = "in-flight" => \E g \in Flush : y.event \in Batch(d, g)'
      <4> SUFFICES ASSUME NEW y \in ToSet(queue'[d]), y.status = "in-flight"
                   PROVE  \E g \in Flush : y.event \in Batch(d, g)'
        OBVIOUS
      <4>1. CASE y.event \in ToSet(B)
        BY <2>2, <4>1
      <4>2. CASE y.event \notin ToSet(B)
        <5>1. PICK x \in ToSet(queue[d]) : x.event = y.event /\ x.status = "in-flight"
          BY <2>5, <4>2
        <5>2. PICK g \in Flush : y.event \in Batch(d, g)
          BY <5>1 DEF OwnOf
        <5> QED
          BY <1>0, <2>2, <5>2
      <4> QED
        BY <4>1, <4>2
    <3> QED
      BY <3>1, <3>2, <3>3 DEF OwnOf
  <2> QED
    BY <2>8, <2>9
<1> QED
  BY <1>1, <1>2, SendStep

\* A batch that is done leaves the queue, one that failed is given back.
LEMMA DoneOwned ==
    ASSUME TypeInv, NEW d \in Device, NEW f \in Flush, FreshOf(d), OwnOf(d),
           FlushSynced(d, f) \/ FlushFailed(d, f)
    PROVE  FreshOf(d)' /\ OwnOf(d)'
<1>0. /\ queue[d] \in Seq(QueueEntry(Event)) /\ emitted' = emitted /\ emitting' = emitting
      /\ "failed" \in QueueStatus /\ queue \in [Device -> Seq(QueueEntry(Event))]
      /\ \A x \in ToSet(queue[d]) : x.event \in Event /\ DOMAIN x = {"event", "status"}
  BY EntriesTyped DEF TypeInv, FlushSynced, FlushFailed, QueueStatus
<1>1. /\ Batch(d, f)' = {}
      /\ \A g \in Flush : g # f => Batch(d, g)' = Batch(d, g)
  <2>1. ToSet(Flushing("peek", <<>>).batch) = {} /\ ToSet(Idle.batch) = {}
    BY DEF Flushing, Idle, ToSet
  <2> QED
    BY <2>1, SyncedStep, FailedStep, BatchesAfter
<1>2. \A y \in ToSet(queue'[d]) :
        /\ \E x \in ToSet(queue[d]) : y.event = x.event
              /\ (x.event \notin Batch(d, f) => y.status = x.status)
        /\ y.event \in Batch(d, f) => y.status = "failed"
  <2>1. CASE FlushSynced(d, f)
    <3>1. queue'[d] = markSynced(queue[d], Batch(d, f))
      BY <1>0, <2>1, SyncedStep DEF Batch
    <3>2. ToSet(queue'[d]) = {x \in ToSet(queue[d]) : x.event \notin Batch(d, f)}
      BY <1>0, <3>1, SyncedFacts
    <3> QED
      BY <3>2
  <2>2. CASE FlushFailed(d, f)
    <3>1. queue'[d] = markFailed(queue[d], Batch(d, f))
      BY <1>0, <2>2, FailedStep DEF Batch
    <3>2. ToSet(queue'[d]) = {IF x.event \in Batch(d, f) THEN [x EXCEPT !.status = "failed"]
                              ELSE x : x \in ToSet(queue[d])}
      BY <1>0, <3>1, MarkFacts DEF markFailed
    <3> QED
      BY <1>0, <3>2
  <2> QED
    BY <2>1, <2>2
<1>3. \A e : Taken(d, e)' => Taken(d, e)
  BY <1>0, <1>1, <1>2 DEF Taken
<1>4. FreshOf(d)'
  BY <1>0, <1>1, <1>2, <1>3 DEF FreshOf
<1>5. OwnOf(d)'
  <2>1. \A g, h \in Flush : g # h => Batch(d, g)' \cap Batch(d, h)' = {}
    BY <1>1 DEF OwnOf
  <2>2. \A g \in Flush : \A y \in ToSet(queue'[d]) :
          y.event \in Batch(d, g)' => y.status = "in-flight"
    BY <1>1, <1>2 DEF OwnOf
  <2>3. \A y \in ToSet(queue'[d]) :
          y.status = "in-flight" => \E g \in Flush : y.event \in Batch(d, g)'
    <3> SUFFICES ASSUME NEW y \in ToSet(queue'[d]), y.status = "in-flight"
                 PROVE  \E g \in Flush : y.event \in Batch(d, g)'
      OBVIOUS
    <3>1. y.event \notin Batch(d, f)
      BY <1>2
    <3>2. PICK g \in Flush : y.event \in Batch(d, g)
      BY <1>2, <3>1 DEF OwnOf
    <3> QED
      BY <1>1, <3>1, <3>2
  <2> QED
    BY <2>1, <2>2, <2>3 DEF OwnOf
<1> QED
  BY <1>4, <1>5

\* hydrate() leaves nothing in flight, and there is no flush.
LEMMA RestartOwned ==
    ASSUME TypeInv, NEW d \in Device, FreshOf(d), OwnOf(d), Restart(d)
    PROVE  FreshOf(d)' /\ OwnOf(d)'
<1>0. /\ queue[d] \in Seq(QueueEntry(Event)) /\ emitted' = emitted
      /\ emitting'[d] = <<>> /\ queue'[d] = hydrate(queue[d])
      /\ \A x \in ToSet(queue[d]) : x.event \in Event /\ DOMAIN x = {"event", "status"}
  BY EntriesTyped, RestartStep DEF TypeInv, Restart
<1>1. \A g \in Flush : Batch(d, g)' = {}
  <2>1. ToSet(Idle.batch) = {}
    BY DEF Idle, ToSet
  <2>2. \A g \in Flush : flush'[d][g] = Idle
    BY RestartStep
  <2> QED
    BY <2>1, <2>2 DEF Batch
<1>2. ToSet(queue'[d]) = {IF x.status = "in-flight" THEN [x EXCEPT !.status = "pending"]
                          ELSE x : x \in ToSet(queue[d])}
  BY <1>0, HydrateFacts
<1>3. \A y \in ToSet(queue'[d]) :
        /\ \E x \in ToSet(queue[d]) : y.event = x.event
        /\ y.status # "in-flight"
  BY <1>0, <1>2
<1>4. ToSet(emitting'[d]) = {} /\ DOMAIN emitting'[d] = {}
  BY <1>0 DEF ToSet
<1>5. \A e : Taken(d, e)' => Taken(d, e)
  BY <1>1, <1>3, <1>4 DEF Taken
<1>6. FreshOf(d)'
  BY <1>0, <1>1, <1>4, <1>5 DEF FreshOf
<1> QED
  BY <1>1, <1>3, <1>6 DEF OwnOf

\* The other steps leave queues and batches alone.
LEMMA OthersSame ==
    ASSUME TypeInv, NEW d \in Device, NEW f \in Flush,
           \/ FlushAnswered(d, f) \/ FlushRejected(d, f) \/ FlushGivesUp(d, f)
           \/ FlushStamp(d, f)
    PROVE  \A e \in Device : Same(e)
<1> DEFINE c == flush[d][f]
<1>1. c \in Call
  BY DEF TypeInv, CallsFit
<1>2. queue' = queue /\ emitting' = emitting /\ emitted' = emitted
  BY DEF FlushAnswered, FlushRejected, FlushGivesUp, FlushStamp
<1>3. \E x : x.batch = c.batch /\ To(d, f, x)
  <2>1. \A pc, assigned : /\ [c EXCEPT !.pc = pc].batch = c.batch
                          /\ [c EXCEPT !.assigned = assigned].batch = c.batch
                          /\ [c EXCEPT !.pc = pc, !.assigned = assigned].batch = c.batch
    BY <1>1 DEF Call
  <2>2. CASE FlushAnswered(d, f)
    <3> DEFINE x == [c EXCEPT !.pc = "duplicate"]
               y == [c EXCEPT !.pc = "stamp",
                              !.assigned = [i \in DOMAIN c.batch |-> Len(log) + i]]
    <3>1. x.batch = c.batch /\ y.batch = c.batch
      BY <2>1
    <3>2. To(d, f, x) \/ To(d, f, y)
      BY <2>2, AnswerStep
    <3> HIDE DEF x, y
    <3> QED
      BY <3>1, <3>2
  <2>3. CASE FlushRejected(d, f) \/ FlushGivesUp(d, f)
    BY <2>1, <2>3, LostStep
  <2>4. CASE FlushStamp(d, f)
    BY <2>1, <2>4, StampStep
  <2> QED
    BY <2>2, <2>3, <2>4
<1> QED
  BY <1>2, <1>3 DEF To, Same


LEMMA StepOwned ==
    ASSUME TypeInv, OwnInv, NEW d \in Device, NEW f \in Flush,
           Enqueue(d, f) \/ FlushStep(d, f)
    PROVE  OwnInv'
<1>1. CASE \/ FlushAnswered(d, f) \/ FlushRejected(d, f) \/ FlushGivesUp(d, f)
           \/ FlushStamp(d, f)
  BY <1>1, OthersSame, SameOwned DEF OwnInv
<1>2. CASE Enqueue(d, f) \/ FlushSend(d, f) \/ FlushSynced(d, f) \/ FlushFailed(d, f)
  <2>1. FreshOf(d)' /\ OwnOf(d)'
    BY <1>2, EnqueueOwned, SendOwned, DoneOwned DEF OwnInv
  <2>2. ASSUME NEW e \in Device, e # d PROVE Same(e)
    <3>1. \E x : To(d, f, x)
      BY <1>2, EnqueueStep, SendStep, SyncedStep, FailedStep
    <3>2. \A g \in Flush : flush'[e][g] = flush[e][g]
      BY <2>2, <3>1 DEF To
    <3>3. queue'[e] = queue[e] /\ emitting'[e] = emitting[e] /\ emitted' = emitted
      BY <1>2, <2>2 DEF Enqueue, FlushSend, FlushSynced, FlushFailed, TypeInv
    <3> QED
      BY <3>2, <3>3 DEF Same
  <2> QED
    BY <2>1, <2>2, SameOwned DEF OwnInv
<1> QED
  BY <1>1, <1>2 DEF FlushStep

LEMMA NextOwned ==
    ASSUME TypeInv, OwnInv, [Next]_vars PROVE OwnInv'
<1>1. CASE UNCHANGED vars
  <2>1. \A e \in Device : Same(e)
    BY <1>1 DEF vars, Same
  <2> QED
    BY <2>1, SameOwned DEF OwnInv
<1>2. ASSUME NEW d \in Device, Emit(d) \/ Restart(d) PROVE OwnInv'
  <2>1. FreshOf(d)' /\ OwnOf(d)'
    BY <1>2, EmitOwned, RestartOwned DEF OwnInv
  <2>2. ASSUME NEW e \in Device, e # d PROVE Same(e)
    <3>1. \A g \in Flush : flush'[e][g] = flush[e][g]
      BY <1>2, <2>2, RestartStep DEF Emit
    <3>2. queue'[e] = queue[e] /\ emitting'[e] = emitting[e] /\ emitted'[e] = emitted[e]
      BY <1>2, <2>2 DEF Emit, Restart, TypeInv
    <3> QED
      BY <3>1, <3>2 DEF Same
  <2> QED
    BY <2>1, <2>2, SameOwned DEF OwnInv
<1>3. ASSUME NEW batch \in late, LateArrival(batch) PROVE OwnInv'
  <2>1. \A e \in Device : Same(e)
    BY <1>3 DEF LateArrival, Same
  <2> QED
    BY <2>1, SameOwned DEF OwnInv
<1> QED
  BY <1>1, <1>2, <1>3, StepOwned DEF Next

LEMMA InitOwned == Init => OwnInv
<1> SUFFICES ASSUME Init, NEW d \in Device PROVE FreshOf(d) /\ OwnOf(d)
  BY DEF OwnInv
<1>1. /\ ToSet(queue[d]) = {} /\ ToSet(emitting[d]) = {} /\ DOMAIN emitting[d] = {}
      /\ \A f \in Flush : Batch(d, f) = {}
  BY DEF Init, ToSet, Batch, Idle
<1> QED
  BY <1>1 DEF FreshOf, OwnOf, Taken

LEMMA OwnHolds == Spec => []OwnInv
<1>1. TypeInv /\ OwnInv /\ [Next]_vars => OwnInv'
  BY NextOwned
<1> QED
  BY <1>1, InitOwned, TypeHolds, PTL DEF Spec

LEMMA OwnShows == OwnInv => InFlightIsOwned
<1> SUFFICES ASSUME OwnInv, NEW d \in Device, NEW i \in DOMAIN queue[d],
                    queue[d][i].status = "in-flight"
             PROVE  \E f \in Flush :
                      /\ queue[d][i].event \in ToSet(flush[d][f].batch)
                      /\ \A g \in Flush \ {f} :
                            queue[d][i].event \notin ToSet(flush[d][g].batch)
  BY DEF InFlightIsOwned
<1>1. queue[d][i] \in ToSet(queue[d])
  BY DEF ToSet
<1>2. PICK f \in Flush : queue[d][i].event \in Batch(d, f)
  BY <1>1 DEF OwnInv, OwnOf
<1>3. \A g \in Flush \ {f} : queue[d][i].event \notin Batch(d, g)
  BY <1>2 DEF OwnInv, OwnOf
<1> QED
  BY <1>2, <1>3 DEF Batch

\* Overlapping flush() calls of a device never have one event in flight twice,
\* and no event stays in flight without one (PendingEventQueue.peek, markInFlight,
\* hydrate).
THEOREM InFlightOwned == Spec => []InFlightIsOwned
BY OwnShows, OwnHolds, PTL

-----------------------------------------------------------------------------
(* The stamps *)

\* The seqs a that are still to be stamped are those under which the log l has
\* the last events of the batch b.
Owes(b, a, l) ==
    /\ Len(a) <= Len(b)
    /\ \A i \in 1..Len(a) : /\ a[i] \in 1..Len(l)
                            /\ l[a[i]] = b[Len(b) - Len(a) + i]

\* A stamped row is right.
Right(r, l) == r.seq # 0 => r.seq <= Len(l) /\ l[r.seq] = r.event

StampOf(d, f) == flush[d][f].pc = "stamp" => Owes(flush[d][f].batch, flush[d][f].assigned, log)

StampInv ==
    /\ \A d \in Device : \A i \in DOMAIN rows[d] : Right(rows[d][i], log)
    /\ \A d \in Device, f \in Flush : StampOf(d, f)

LEMMA OwesAll ==
    ASSUME NEW S, NEW b \in Seq(S), NEW l \in Seq(S)
    PROVE  Owes(b, [i \in DOMAIN b |-> Len(l) + i], l \o b)
<1> DEFINE a == [i \in DOMAIN b |-> Len(l) + i]
           n == l \o b
<1>1. /\ Len(b) \in Nat /\ DOMAIN b = 1..Len(b) /\ Len(l) \in Nat
      /\ Len(n) = Len(l) + Len(b)
      /\ \A s \in 1..(Len(l) + Len(b)) : n[s] = IF s <= Len(l) THEN l[s] ELSE b[s - Len(l)]
  BY ConcatProperties, LenProperties
<1>2. a \in [1..Len(b) -> Nat] /\ \A i \in 1..Len(b) : a[i] = Len(l) + i
  BY <1>1
<1> HIDE DEF a, n
<1>3. Len(a) = Len(b)
  BY <1>1, <1>2, SeqDef, LenProperties
<1>4. ASSUME NEW i \in 1..Len(b) PROVE a[i] \in 1..Len(n) /\ n[a[i]] = b[i]
  <2>1. Len(l) + i \in 1..(Len(l) + Len(b)) /\ Len(l) + i > Len(l) /\ (Len(l) + i) - Len(l) = i
    BY <1>1
  <2>2. n[Len(l) + i] = b[i]
    BY <1>1, <2>1
  <2> QED
    BY <1>1, <1>2, <2>1, <2>2
<1>5. \A i \in 1..Len(b) : Len(b) - Len(b) + i = i
  BY <1>1
<1>6. Owes(b, a, n)
  BY <1>1, <1>3, <1>4, <1>5 DEF Owes
<1> QED
  BY <1>6 DEF a, n

LEMMA OwesTail ==
    ASSUME NEW S, NEW b \in Seq(S), NEW l \in Seq(S), NEW a \in Seq(Nat), a # <<>>,
           Owes(b, a, l)
    PROVE  /\ Len(b) - Len(a) + 1 \in DOMAIN b
           /\ Head(a) \in 1..Len(l) /\ l[Head(a)] = b[Len(b) - Len(a) + 1]
           /\ Owes(b, Tail(a), l)
           /\ Len(b) - Len(Tail(a)) = Len(b) - Len(a) + 1
<1>1. /\ Len(a) \in Nat \ {0} /\ Head(a) = a[1]
      /\ Len(Tail(a)) = Len(a) - 1
      /\ \A i \in 1..Len(Tail(a)) : Tail(a)[i] = a[i + 1]
  BY HeadTail
<1>2. Len(b) \in Nat /\ DOMAIN b = 1..Len(b)
  BY LenProperties
<1>3. Head(a) \in 1..Len(l) /\ l[Head(a)] = b[Len(b) - Len(a) + 1]
  BY <1>1 DEF Owes
<1>4. ASSUME NEW i \in 1..Len(Tail(a))
      PROVE  /\ Tail(a)[i] \in 1..Len(l)
             /\ l[Tail(a)[i]] = b[Len(b) - Len(Tail(a)) + i]
  <2>1. i + 1 \in 1..Len(a) /\ Len(b) - Len(Tail(a)) + i = Len(b) - Len(a) + (i + 1)
    BY <1>1, <1>2
  <2>2. a[i + 1] \in 1..Len(l) /\ l[a[i + 1]] = b[Len(b) - Len(a) + (i + 1)]
    BY <2>1 DEF Owes
  <2> QED
    BY <1>1, <2>1, <2>2
<1>5. Len(Tail(a)) <= Len(b) /\ Len(b) - Len(a) + 1 \in 1..Len(b)
      /\ Len(b) - Len(Tail(a)) = Len(b) - Len(a) + 1
  BY <1>1, <1>2 DEF Owes
<1> QED
  BY <1>2, <1>3, <1>4, <1>5 DEF Owes

\* A log that grows keeps what is owed, and what is right.
LEMMA OwesLonger ==
    ASSUME NEW b, NEW a, NEW S, NEW l \in Seq(S), NEW n, Len(n) \in Nat, Len(l) <= Len(n),
           \A s \in 1..Len(l) : n[s] = l[s]
    PROVE  /\ Owes(b, a, l) => Owes(b, a, n)
           /\ \A r : r.seq \in Nat /\ Right(r, l) => Right(r, n)
<1>1. Len(l) \in Nat
  BY LenProperties
<1>2. Owes(b, a, l) => Owes(b, a, n)
  BY <1>1 DEF Owes
<1>3. ASSUME NEW r, r.seq \in Nat, Right(r, l) PROVE Right(r, n)
  BY <1>1, <1>3 DEF Right
<1> QED
  BY <1>2, <1>3

\* What the relay stored keeps its seq.
LEMMA LogKeeps ==
    ASSUME TypeInv, [Next]_vars
    PROVE  /\ Len(log') \in Nat /\ Len(log) <= Len(log')
           /\ \A s \in 1..Len(log) : log'[s] = log[s]
           /\ ToSet(log) \subseteq ToSet(log')
<1>0. log \in Seq(Event) /\ Len(log) \in Nat
  BY LenProperties DEF TypeInv
<1>1. CASE log' = log
  BY <1>0, <1>1
<1>2. ASSUME NEW t \in Seq(Event), log' = log \o t
      PROVE  /\ Len(log') \in Nat /\ Len(log) <= Len(log')
             /\ \A s \in 1..Len(log) : log'[s] = log[s]
             /\ ToSet(log) \subseteq ToSet(log')
  <2>1. /\ Len(log') = Len(log) + Len(t) /\ Len(t) \in Nat
        /\ \A s \in 1..(Len(log) + Len(t)) :
              log'[s] = IF s <= Len(log) THEN log[s] ELSE t[s - Len(log)]
    BY <1>0, <1>2, ConcatProperties, LenProperties
  <2>2. ToSet(log') = ToSet(log) \cup ToSet(t)
    BY <1>0, <1>2, ToSetConcat
  <2> QED
    BY <1>0, <2>1, <2>2
<1>3. \/ log' = log
      \/ \E t \in Seq(Event) : log' = log \o t
  <2>1. ASSUME NEW d \in Device, NEW f \in Flush, FlushAnswered(d, f)
        PROVE  log' = log \/ \E t \in Seq(Event) : log' = log \o t
    <3>1. flush[d][f].batch \in Seq(Event)
      BY EntriesTyped
    <3> QED
      BY <2>1, <3>1, AnswerStep
  <2>2. ASSUME NEW batch \in late, LateArrival(batch)
        PROVE  log' = log \/ \E t \in Seq(Event) : log' = log \o t
    BY <2>2 DEF LateArrival, TypeInv
  <2>3. ASSUME NEW d \in Device, Emit(d) \/ Restart(d) PROVE log' = log
    BY <2>3 DEF Emit, Restart
  <2>4. ASSUME NEW d \in Device, NEW f \in Flush,
               Enqueue(d, f) \/ (FlushStep(d, f) /\ ~FlushAnswered(d, f))
        PROVE  log' = log
    BY <2>4 DEF Enqueue, FlushStep, FlushSend, FlushRejected, FlushGivesUp, FlushStamp,
                FlushSynced, FlushFailed
  <2> QED
    BY <2>1, <2>2, <2>3, <2>4 DEF Next, vars, FlushStep
<1> QED
  BY <1>1, <1>2, <1>3

\* A record that keeps its batch and its seqs keeps what it owes, and so does
\* a row that is not touched.
LEMMA KeepsStamp ==
    ASSUME TypeInv, StampInv, [Next]_vars
    PROVE  /\ \A d \in Device, f \in Flush :
                 (flush'[d][f].pc = "stamp" => flush'[d][f] = flush[d][f]) => StampOf(d, f)'
           /\ \A d \in Device : \A i \in DOMAIN rows[d] : Right(rows[d][i], log')
<1>1. /\ log \in Seq(Event) /\ Len(log') \in Nat /\ Len(log) <= Len(log')
      /\ \A s \in 1..Len(log) : log'[s] = log[s]
  BY LogKeeps DEF TypeInv
<1>2. /\ \A b, a : Owes(b, a, log) => Owes(b, a, log')
      /\ \A r : r.seq \in Nat /\ Right(r, log) => Right(r, log')
  BY <1>1, OwesLonger
<1>3. ASSUME NEW d \in Device, NEW f \in Flush,
             flush'[d][f].pc = "stamp" => flush'[d][f] = flush[d][f]
      PROVE  StampOf(d, f)'
  BY <1>2, <1>3 DEF StampInv, StampOf
<1>4. ASSUME NEW d \in Device, NEW i \in DOMAIN rows[d] PROVE Right(rows[d][i], log')
  <2>1. rows[d][i] \in Row
    BY ElementOfSeq, LenProperties DEF TypeInv
  <2> QED
    BY <1>2, <2>1 DEF StampInv, Row
<1> QED
  BY <1>3, <1>4

LEMMA AnswerStamps ==
    ASSUME TypeInv, NEW d \in Device, NEW f \in Flush, FlushAnswered(d, f)
    PROVE  StampOf(d, f)'
<1> DEFINE c == flush[d][f]
           seqs == [i \in DOMAIN c.batch |-> Len(log) + i]
           x == [c EXCEPT !.pc = "duplicate"]
           y == [c EXCEPT !.pc = "stamp", !.assigned = seqs]
<1>0. c \in Call /\ log \in Seq(Event) /\ c.batch \in Seq(Event)
  BY EntriesTyped DEF TypeInv
<1>1. x.pc = "duplicate" /\ y.pc = "stamp" /\ y.batch = c.batch /\ y.assigned = seqs
  BY <1>0 DEF Call
<1>2. \/ To(d, f, x)
      \/ To(d, f, y) /\ log' = log \o c.batch
  BY AnswerStep
<1> HIDE DEF x, y
<1>3. CASE To(d, f, x)
  BY <1>1, <1>3 DEF To, StampOf
<1>4. CASE To(d, f, y) /\ log' = log \o c.batch
  <2>1. flush'[d][f] = y
    BY <1>4 DEF To
  <2>2. Owes(c.batch, seqs, log \o c.batch)
    BY <1>0, OwesAll
  <2> HIDE DEF c, seqs
  <2>3. Owes(flush'[d][f].batch, flush'[d][f].assigned, log')
    BY <1>1, <1>4, <2>1, <2>2
  <2> QED
    BY <2>3 DEF StampOf
<1> QED
  BY <1>2, <1>3, <1>4

\* One stamp: the row gets the seq of its event, the rest is still owed.
LEMMA OneStamp ==
    ASSUME TypeInv, StampInv, NEW d \in Device, NEW f \in Flush, FlushStamp(d, f)
    PROVE  /\ StampOf(d, f)'
           /\ \A e \in Device : \A i \in DOMAIN rows'[e] : Right(rows'[e][i], log')
<1> DEFINE c == flush[d][f]
           y == [c EXCEPT !.assigned = Tail(c.assigned)]
           e == c.batch[Len(c.batch) - Len(c.assigned) + 1]
           s == Head(c.assigned)
<1>0. /\ c \in Call /\ c.batch \in Seq(Event) /\ c.pc = "stamp"
      /\ c.assigned \in Seq(Nat) /\ c.assigned # <<>>
      /\ log' = log /\ log \in Seq(Event) /\ rows \in [Device -> Seq(Row)]
      /\ To(d, f, y)
      /\ rows' = [rows EXCEPT ![d] = Stamped(rows[d], e, s)]
  BY EntriesTyped, StampStep DEF TypeInv, Call, FlushStamp
<1>1. /\ y.pc = "stamp" /\ y.batch = c.batch /\ y.assigned = Tail(c.assigned)
      /\ flush'[d][f] = y
  BY <1>0 DEF Call, To
<1> HIDE DEF y
<1>2. Owes(c.batch, c.assigned, log)
  BY <1>0 DEF StampInv, StampOf
<1>3. s \in 1..Len(log) /\ log[s] = e /\ Owes(c.batch, Tail(c.assigned), log)
  BY <1>0, <1>2, OwesTail
<1>4. StampOf(d, f)'
  <2> HIDE DEF c
  <2> QED
    BY <1>0, <1>1, <1>3 DEF StampOf
<1>5. ASSUME NEW g \in Device, NEW i \in DOMAIN rows'[g] PROVE Right(rows'[g][i], log')
  <2> HIDE DEF c, e, s
  <2>1. rows[g] \in Seq(Row) /\ DOMAIN rows[g] = 1..Len(rows[g])
        /\ \A k \in DOMAIN rows[g] : rows[g][k] \in Row /\ Right(rows[g][k], log)
    BY <1>0, LenProperties, ElementOfSeq DEF StampInv
  <2>2. CASE g # d
    BY <1>0, <2>1, <2>2
  <2>3. CASE g = d
    <3>1. rows'[d] = Stamped(rows[d], e, s)
      BY <1>0
    <3>2. /\ i \in DOMAIN rows[d]
          /\ rows'[d][i] = IF rows[d][i].event = e THEN [rows[d][i] EXCEPT !.seq = s]
                                                   ELSE rows[d][i]
      BY <2>3, <3>1 DEF Stamped
    <3>3. CASE rows[d][i].event = e
      <4>1. rows[d][i] \in Row
        BY <2>1, <2>3, <3>2
      <4>2. rows'[d][i].seq = s /\ rows'[d][i].event = e
        BY <3>2, <3>3, <4>1 DEF Row
      <4> QED
        BY <1>0, <1>3, <2>3, <4>2, LenProperties DEF Right
    <3>4. CASE rows[d][i].event # e
      BY <1>0, <2>1, <2>3, <3>2, <3>4
    <3> QED
      BY <3>3, <3>4
  <2> QED
    BY <2>2, <2>3
<1> QED
  BY <1>4, <1>5


\* A new row has no seq.
LEMMA EmitRows ==
    ASSUME TypeInv, NEW d \in Device, Emit(d)
    PROVE  \A e \in Device : \A i \in DOMAIN rows'[e] :
              \/ e = d /\ rows'[e][i] = [event |-> NewEvent(d), seq |-> 0]
              \/ i \in DOMAIN rows[e] /\ rows'[e][i] = rows[e][i]
<1> DEFINE r == [event |-> NewEvent(d), seq |-> 0]
<1>1. rows' = [rows EXCEPT ![d] = Append(rows[d], r)] /\ rows \in [Device -> Seq(Row)]
  BY DEF Emit, TypeInv
<1>2. r \in Row
  BY EmitTyped DEF Row
<1> HIDE DEF r
<1>3. /\ Append(rows[d], r) \in Seq(Row) /\ Len(Append(rows[d], r)) = Len(rows[d]) + 1
      /\ \A i \in 1..Len(rows[d]) : Append(rows[d], r)[i] = rows[d][i]
      /\ Append(rows[d], r)[Len(rows[d]) + 1] = r
  BY <1>1, <1>2, AppendProperties
<1>4. /\ Len(rows[d]) \in Nat /\ DOMAIN rows[d] = 1..Len(rows[d])
      /\ DOMAIN Append(rows[d], r) = 1..(Len(rows[d]) + 1)
  BY <1>1, <1>3, LenProperties
<1> QED
  BY <1>1, <1>3, <1>4 DEF r

LEMMA EmitStamps ==
    ASSUME TypeInv, StampInv, NEW d \in Device, Emit(d) PROVE StampInv'
<1>1. [Next]_vars /\ log' = log /\ flush' = flush
  BY DEF Next, Emit
<1>2. ASSUME NEW e \in Device, NEW i \in DOMAIN rows'[e] PROVE Right(rows'[e][i], log')
  <2>1. CASE e = d /\ rows'[e][i] = [event |-> NewEvent(d), seq |-> 0]
    BY <2>1 DEF Right
  <2>2. CASE i \in DOMAIN rows[e] /\ rows'[e][i] = rows[e][i]
    BY <1>1, <2>2, KeepsStamp
  <2> QED
    BY <1>2, <2>1, <2>2, EmitRows
<1>3. \A e \in Device, f \in Flush : StampOf(e, f)'
  BY <1>1, KeepsStamp
<1> QED
  BY <1>2, <1>3 DEF StampInv

\* Where a step leaves its own call.
LEMMA CallAfter ==
    ASSUME TypeInv, NEW d \in Device, NEW f \in Flush
    PROVE  LET c == flush[d][f]
               n == flush'[d][f]
           IN  /\ Enqueue(d, f) => c.pc = "idle" /\ n.pc = "peek" /\ n.batch = <<>>
               /\ FlushSend(d, f) =>
                     /\ c.pc = "peek"
                     /\ \/ n.pc = "idle" /\ n.batch = <<>>
                        \/ /\ n.pc = "sent" /\ n.batch \in Seq(Event) /\ Len(n.batch) <= MaxBatch
                           /\ \A e \in ToSet(n.batch) : \E x \in ToSet(queue[d]) :
                                 x.event = e /\ x.status # "in-flight"
               /\ FlushAnswered(d, f) =>
                     /\ c.pc = "sent" /\ n.batch = c.batch
                     /\ \/ n.pc = "duplicate" /\ IsDuplicate(c.batch) /\ log' = log
                        \/ n.pc = "stamp" /\ Len(n.assigned) = Len(n.batch) /\ log' = log \o c.batch
               /\ FlushRejected(d, f) \/ FlushGivesUp(d, f) =>
                     c.pc = "sent" /\ n.pc = "failed" /\ n.batch = c.batch
               /\ FlushStamp(d, f) =>
                     /\ c.pc = "stamp" /\ n.pc = "stamp" /\ n.batch = c.batch
                     /\ n.assigned = Tail(c.assigned)
               /\ FlushSynced(d, f) =>
                     /\ (c.pc = "stamp" /\ c.assigned = <<>>) \/ c.pc = "duplicate"
                     /\ n.pc = "peek" /\ n.batch = <<>>
               /\ FlushFailed(d, f) => c.pc = "failed" /\ n.pc = "idle" /\ n.batch = <<>>
<1> DEFINE c == flush[d][f]
           n == flush'[d][f]
<1>0. c \in Call /\ c.batch \in Seq(Event)
  BY EntriesTyped
<1>1. ASSUME Enqueue(d, f) PROVE c.pc = "idle" /\ n.pc = "peek" /\ n.batch = <<>>
  BY <1>1, EnqueueStep DEF To, Flushing
<1>2. ASSUME FlushSend(d, f)
      PROVE  /\ c.pc = "peek"
             /\ \/ n.pc = "idle" /\ n.batch = <<>>
                \/ /\ n.pc = "sent" /\ n.batch \in Seq(Event) /\ Len(n.batch) <= MaxBatch
                   /\ \A e \in ToSet(n.batch) : \E x \in ToSet(queue[d]) :
                         x.event = e /\ x.status # "in-flight"
  <2>1. CASE To(d, f, Idle)
    BY <1>2, <2>1, SendStep DEF To, Idle
  <2>2. ASSUME NEW B \in Seq(Event), Len(B) <= MaxBatch, To(d, f, Flushing("sent", B)),
               \A e \in ToSet(B) : \E x \in ToSet(queue[d]) :
                  x.event = e /\ x.status # "in-flight"
        PROVE  /\ n.pc = "sent" /\ n.batch \in Seq(Event) /\ Len(n.batch) <= MaxBatch
               /\ \A e \in ToSet(n.batch) : \E x \in ToSet(queue[d]) :
                     x.event = e /\ x.status # "in-flight"
    BY <2>2 DEF To, Flushing
  <2> QED
    BY <1>2, <2>1, <2>2, SendStep
<1>3. ASSUME FlushAnswered(d, f)
      PROVE  /\ c.pc = "sent" /\ n.batch = c.batch
             /\ \/ n.pc = "duplicate" /\ IsDuplicate(c.batch) /\ log' = log
                \/ n.pc = "stamp" /\ Len(n.assigned) = Len(n.batch) /\ log' = log \o c.batch
  <2> DEFINE seqs == [i \in DOMAIN c.batch |-> Len(log) + i]
             x == [c EXCEPT !.pc = "duplicate"]
             y == [c EXCEPT !.pc = "stamp", !.assigned = seqs]
  <2>1. /\ x.pc = "duplicate" /\ y.pc = "stamp" /\ y.assigned = seqs
        /\ x.batch = c.batch /\ y.batch = c.batch
    BY <1>0 DEF Call
  <2>2. /\ c.pc = "sent"
        /\ \/ IsDuplicate(c.batch) /\ log' = log /\ To(d, f, x)
           \/ log' = log \o c.batch /\ To(d, f, y)
    BY <1>3, AnswerStep
  <2>3. Len(seqs) = Len(c.batch)
    <3>1. DOMAIN c.batch = 1..Len(c.batch) /\ Len(c.batch) \in Nat
      BY <1>0, LenProperties
    <3>2. DOMAIN seqs = 1..Len(c.batch)
      BY <3>1
    <3> HIDE DEF seqs, c
    <3> QED
      BY <3>1, <3>2
  <2> HIDE DEF x, y, seqs
  <2>4. n = x \/ n = y
    BY <2>2 DEF To
  <2>5. \/ IsDuplicate(c.batch) /\ log' = log /\ n = x
        \/ log' = log \o c.batch /\ n = y
    BY <2>2 DEF To
  <2> QED
    BY <2>1, <2>2, <2>3, <2>5
<1>4. ASSUME FlushRejected(d, f) \/ FlushGivesUp(d, f)
      PROVE  c.pc = "sent" /\ n.pc = "failed" /\ n.batch = c.batch
  <2>1. n = [c EXCEPT !.pc = "failed"] /\ c.pc = "sent"
    BY <1>4, LostStep DEF To
  <2> QED
    BY <1>0, <2>1 DEF Call
<1>5. ASSUME FlushStamp(d, f)
      PROVE  /\ c.pc = "stamp" /\ n.pc = "stamp" /\ n.batch = c.batch
             /\ n.assigned = Tail(c.assigned)
  <2>1. n = [c EXCEPT !.assigned = Tail(c.assigned)] /\ c.pc = "stamp"
    BY <1>5, StampStep DEF To
  <2> QED
    BY <1>0, <2>1 DEF Call
<1>6. ASSUME FlushSynced(d, f)
      PROVE  /\ (c.pc = "stamp" /\ c.assigned = <<>>) \/ c.pc = "duplicate"
             /\ n.pc = "peek" /\ n.batch = <<>>
  BY <1>6, SyncedStep DEF To, Flushing
<1>7. ASSUME FlushFailed(d, f) PROVE c.pc = "failed" /\ n.pc = "idle" /\ n.batch = <<>>
  BY <1>7, FailedStep DEF To, Idle
<1> HIDE DEF c, n
<1> QED
  BY <1>1, <1>2, <1>3, <1>4, <1>5, <1>6, <1>7 DEF c, n

\* A step of a call leaves the others alone.
LEMMA OthersKept ==
    ASSUME TypeInv, NEW d \in Device, NEW f \in Flush, Enqueue(d, f) \/ FlushStep(d, f),
           NEW e \in Device, NEW g \in Flush, e # d \/ g # f
    PROVE  flush'[e][g] = flush[e][g]
<1>1. \E x : To(d, f, x)
  <2>1. CASE Enqueue(d, f) \/ FlushSynced(d, f) \/ FlushFailed(d, f)
    BY <2>1, EnqueueStep, SyncedStep, FailedStep
  <2>2. CASE FlushSend(d, f)
    BY <2>2, SendStep
  <2>3. CASE FlushAnswered(d, f)
    BY <2>3, AnswerStep
  <2>4. CASE FlushRejected(d, f) \/ FlushGivesUp(d, f)
    BY <2>4, LostStep
  <2>5. CASE FlushStamp(d, f)
    BY <2>5, StampStep
  <2> QED
    BY <2>1, <2>2, <2>3, <2>4, <2>5 DEF FlushStep
<1> QED
  BY <1>1 DEF To

\* Only an answer and a stamp leave a call with something to stamp.
LEMMA CallsKept ==
    ASSUME TypeInv, NEW d \in Device, NEW f \in Flush, Enqueue(d, f) \/ FlushStep(d, f),
           NEW e \in Device, NEW g \in Flush
    PROVE  \/ e = d /\ g = f /\ (FlushAnswered(d, f) \/ FlushStamp(d, f))
           \/ flush'[e][g].pc = "stamp" => flush'[e][g] = flush[e][g]
BY OthersKept, CallAfter DEF FlushStep

LEMMA NextStamps ==
    ASSUME TypeInv, StampInv, [Next]_vars PROVE StampInv'
<1>1. CASE UNCHANGED vars
  <2>1. flush' = flush /\ rows' = rows
    BY <1>1 DEF vars
  <2> QED
    BY <2>1, KeepsStamp DEF StampInv
<1>2. ASSUME NEW d \in Device, Emit(d) PROVE StampInv'
  BY <1>2, EmitStamps
<1>3. ASSUME NEW d \in Device, Restart(d) PROVE StampInv'
  <2>1. rows' = rows
    BY <1>3 DEF Restart
  <2>2. \A e \in Device, g \in Flush :
          flush'[e][g].pc = "stamp" => flush'[e][g] = flush[e][g]
    BY <1>3, RestartStep DEF Idle
  <2> QED
    BY <2>1, <2>2, KeepsStamp DEF StampInv
<1>4. ASSUME NEW batch \in late, LateArrival(batch) PROVE StampInv'
  <2>1. flush' = flush /\ rows' = rows
    BY <1>4 DEF LateArrival
  <2> QED
    BY <2>1, KeepsStamp DEF StampInv
<1>5. ASSUME NEW d \in Device, NEW f \in Flush, Enqueue(d, f) \/ FlushStep(d, f)
      PROVE  StampInv'
  <2>1. ASSUME NEW e \in Device, NEW g \in Flush PROVE StampOf(e, g)'
    BY <1>5, <2>1, CallsKept, KeepsStamp, AnswerStamps, OneStamp
  <2>2. CASE FlushStamp(d, f)
    BY <2>1, <2>2, OneStamp DEF StampInv
  <2>3. CASE ~FlushStamp(d, f)
    <3>1. rows' = rows
      BY <1>5, <2>3 DEF Enqueue, FlushStep, FlushSend, FlushAnswered, FlushRejected,
                        FlushGivesUp, FlushSynced, FlushFailed
    <3> QED
      BY <2>1, <3>1, KeepsStamp DEF StampInv
  <2> QED
    BY <2>2, <2>3
<1> QED
  BY <1>1, <1>2, <1>3, <1>4, <1>5 DEF Next

LEMMA InitStamps == Init => StampInv
BY DEF Init, StampInv, StampOf, Idle

LEMMA StampsHold == Spec => []StampInv
<1>1. TypeInv /\ StampInv /\ [Next]_vars => StampInv'
  BY NextStamps
<1> QED
  BY <1>1, InitStamps, TypeHolds, PTL DEF Spec

LEMMA StampShows == StampInv => StampsAreRight
BY DEF StampInv, Right, StampsAreRight

\* Whatever other flushes, devices and late requests appended meanwhile, and
\* wherever the process died, a row's seq is the one under which the relay stores
\* that event (OutboundFlush.flush, onSeqAssigned).
THEOREM StampsRight == Spec => []StampsAreRight
BY StampShows, StampsHold, PTL


-----------------------------------------------------------------------------
(* What is in the queue *)

LEMMA QueuedEntries == ASSUME NEW q PROVE Queued(q) = {x.event : x \in ToSet(q)}
BY DEF Queued, ToSet

LEMMA QueuedEnqueued ==
    ASSUME TypeInv, NEW d \in Device, NEW f \in Flush, Enqueue(d, f)
    PROVE  /\ Queued(queue'[d]) = Queued(queue[d]) \cup {Head(emitting[d])}
           /\ emitting'[d] = Tail(emitting[d])
           /\ \A e \in ToSet(emitting[d]) : e = Head(emitting[d]) \/ e \in ToSet(emitting'[d])
           /\ ToSet(emitting'[d]) \subseteq ToSet(emitting[d])
           /\ Head(emitting[d]) \in ToSet(emitting[d])
           /\ \A g \in Device : g # d => queue'[g] = queue[g] /\ emitting'[g] = emitting[g]
<1>1. /\ emitting[d] \in Seq(Event) /\ emitting[d] # <<>> /\ queue[d] \in Seq(QueueEntry(Event))
      /\ queue' = [queue EXCEPT ![d] = enqueue(queue[d], Head(emitting[d]))]
      /\ emitting' = [emitting EXCEPT ![d] = Tail(emitting[d])]
      /\ DOMAIN queue = Device /\ DOMAIN emitting = Device
  BY EnqueueStep DEF TypeInv
<1>2. /\ Head(emitting[d]) \in Event /\ Head(emitting[d]) \in ToSet(emitting[d])
      /\ ToSet(Tail(emitting[d])) \subseteq ToSet(emitting[d])
      /\ \A e \in ToSet(emitting[d]) : e = Head(emitting[d]) \/ e \in ToSet(Tail(emitting[d]))
  BY <1>1, HeadTail
<1>3. queue'[d] = enqueue(queue[d], Head(emitting[d])) /\ emitting'[d] = Tail(emitting[d])
  BY <1>1
<1>4. ToSet(queue'[d])
        = ToSet(queue[d]) \cup {[event |-> Head(emitting[d]), status |-> "pending"]}
  BY <1>1, <1>2, <1>3, EnqueueFacts
<1>5. Queued(queue'[d]) = Queued(queue[d]) \cup {Head(emitting[d])}
  <2> DEFINE new == [event |-> Head(emitting[d]), status |-> "pending"]
  <2>1. new.event = Head(emitting[d])
    OBVIOUS
  <2>2. /\ Queued(queue'[d]) = {x.event : x \in ToSet(queue'[d])}
        /\ Queued(queue[d]) = {x.event : x \in ToSet(queue[d])}
    BY QueuedEntries
  <2>3. ToSet(queue'[d]) = ToSet(queue[d]) \cup {new}
    BY <1>4
  <2> HIDE DEF new
  <2> QED
    BY <2>1, <2>2, <2>3
<1> QED
  BY <1>1, <1>2, <1>3, <1>5

LEMMA QueuedSynced ==
    ASSUME TypeInv, NEW d \in Device, NEW f \in Flush, FlushSynced(d, f)
    PROVE  /\ Queued(queue'[d]) = Queued(queue[d]) \ Batch(d, f)
           /\ \A g \in Device : g # d => queue'[g] = queue[g]
<1>1. /\ queue[d] \in Seq(QueueEntry(Event)) /\ DOMAIN queue = Device
      /\ queue' = [queue EXCEPT ![d] = markSynced(queue[d], Batch(d, f))]
  BY SyncedStep DEF TypeInv, Batch
<1>2. queue'[d] = markSynced(queue[d], Batch(d, f))
  BY <1>1
<1>3. ToSet(queue'[d]) = {x \in ToSet(queue[d]) : x.event \notin Batch(d, f)}
  BY <1>1, <1>2, SyncedFacts
<1>4. Queued(queue'[d]) = Queued(queue[d]) \ Batch(d, f)
  BY <1>3, QueuedEntries
<1> QED
  BY <1>1, <1>4

\* A change of status removes nothing.
LEMMA MarkedQueued ==
    ASSUME NEW q \in Seq(QueueEntry(Event)), NEW E, NEW s \in QueueStatus
    PROVE  Queued(mark(q, E, s)) = Queued(q)
<1>1. mark(q, E, s) =
        [i \in DOMAIN q |-> IF q[i].event \in E THEN [q[i] EXCEPT !.status = s] ELSE q[i]]
  BY DEF mark
<1>2. DOMAIN mark(q, E, s) = DOMAIN q
  BY <1>1
<1>3. ASSUME NEW i \in DOMAIN q PROVE mark(q, E, s)[i].event = q[i].event
  <2>1. q[i] \in QueueEntry(Event)
    BY ElementOfSeq, LenProperties
  <2> QED
    BY <1>1, <2>1 DEF QueueEntry
<1> QED
  BY <1>2, <1>3 DEF Queued

LEMMA HydratedQueued ==
    ASSUME NEW q \in Seq(QueueEntry(Event)) PROVE Queued(hydrate(q)) = Queued(q)
<1>1. hydrate(q) =
        [i \in DOMAIN q |->
            IF q[i].status = "in-flight" THEN [q[i] EXCEPT !.status = "pending"] ELSE q[i]]
  BY DEF hydrate
<1>2. DOMAIN hydrate(q) = DOMAIN q
  BY <1>1
<1>3. ASSUME NEW i \in DOMAIN q PROVE hydrate(q)[i].event = q[i].event
  <2>1. q[i] \in QueueEntry(Event)
    BY ElementOfSeq, LenProperties
  <2> QED
    BY <1>1, <2>1 DEF QueueEntry
<1> QED
  BY <1>2, <1>3 DEF Queued

LEMMA QueuedKept ==
    ASSUME TypeInv, NEW d \in Device, NEW f \in Flush, FlushStep(d, f), ~FlushSynced(d, f)
    PROVE  \A g \in Device : Queued(queue'[g]) = Queued(queue[g])
<1>0. queue[d] \in Seq(QueueEntry(Event)) /\ DOMAIN queue = Device
      /\ "failed" \in QueueStatus /\ "in-flight" \in QueueStatus
  BY DEF TypeInv, QueueStatus
<1>1. CASE FlushSend(d, f)
  <2>1. CASE queue' = queue
    BY <2>1
  <2>2. ASSUME NEW B \in Seq(Event),
               queue' = [queue EXCEPT ![d] = markInFlight(queue[d], ToSet(B))]
        PROVE  \A g \in Device : Queued(queue'[g]) = Queued(queue[g])
    <3>1. Queued(markInFlight(queue[d], ToSet(B))) = Queued(queue[d])
      BY <1>0, MarkedQueued DEF markInFlight
    <3> QED
      BY <1>0, <2>2, <3>1
  <2> QED
    BY <1>1, <2>1, <2>2, SendStep
<1>2. CASE FlushFailed(d, f)
  <2>1. Queued(markFailed(queue[d], ToSet(flush[d][f].batch))) = Queued(queue[d])
    BY <1>0, MarkedQueued DEF markFailed
  <2> QED
    BY <1>0, <1>2, <2>1, FailedStep
<1>3. CASE \/ FlushAnswered(d, f) \/ FlushRejected(d, f) \/ FlushGivesUp(d, f)
           \/ FlushStamp(d, f)
  BY <1>3 DEF FlushAnswered, FlushRejected, FlushGivesUp, FlushStamp
<1> QED
  BY <1>1, <1>2, <1>3 DEF FlushStep

LEMMA QueuedRestarted ==
    ASSUME TypeInv, NEW d \in Device, Restart(d)
    PROVE  \A g \in Device : Queued(queue'[g]) = Queued(queue[g])
<1>1. queue[d] \in Seq(QueueEntry(Event)) /\ DOMAIN queue = Device
      /\ queue' = [queue EXCEPT ![d] = hydrate(queue[d])]
  BY RestartStep DEF TypeInv
<1>2. Queued(hydrate(queue[d])) = Queued(queue[d])
  BY <1>1, HydratedQueued
<1> QED
  BY <1>1, <1>2

\* A process that does not die in an emit has none open when it restarts.
LEMMA NotEmitting ==
    ASSUME NEW d \in Device, Restart(d), "emit" \notin FragileAt
    PROVE  emitting[d] = <<>>
BY DEF Restart, At


\* A row keeps its event, and its seq once it has one.
LEMMA RowsAfter ==
    ASSUME TypeInv, StampInv, [Next]_vars, NEW e \in Device, NEW i \in DOMAIN rows'[e]
    PROVE  \/ /\ i \in DOMAIN rows[e] /\ rows'[e][i].event = rows[e][i].event
              /\ rows'[e][i].seq = 0 => rows[e][i].seq = 0
           \/ Emit(e) /\ rows'[e][i] = [event |-> NewEvent(e), seq |-> 0]
<1>1. CASE rows' = rows
  BY <1>1
<1>2. ASSUME NEW d \in Device, Emit(d)
      PROVE  \/ i \in DOMAIN rows[e] /\ rows'[e][i] = rows[e][i]
             \/ Emit(e) /\ rows'[e][i] = [event |-> NewEvent(e), seq |-> 0]
  BY <1>2, EmitRows
<1>3. ASSUME NEW d \in Device, NEW f \in Flush, FlushStamp(d, f)
      PROVE  /\ i \in DOMAIN rows[e] /\ rows'[e][i].event = rows[e][i].event
             /\ rows'[e][i].seq = 0 => rows[e][i].seq = 0
  <2> DEFINE c == flush[d][f]
             v == c.batch[Len(c.batch) - Len(c.assigned) + 1]
             s == Head(c.assigned)
  <2>1. /\ c.pc = "stamp" /\ c.assigned # <<>> /\ rows \in [Device -> Seq(Row)]
        /\ rows' = [rows EXCEPT ![d] = Stamped(rows[d], v, s)]
    BY <1>3, StampStep DEF TypeInv
  <2>2. s \in 1..Len(log)
    <3>1. /\ c \in Call /\ c.batch \in Seq(Event) /\ c.assigned \in Seq(Nat)
          /\ Owes(c.batch, c.assigned, log) /\ log \in Seq(Event)
      BY <2>1, EntriesTyped DEF Call, StampInv, StampOf, TypeInv
    <3> QED
      BY <2>1, <3>1, OwesTail
  <2>3. s # 0
    BY <2>2
  <2> HIDE DEF c, v, s
  <2>4. CASE e # d
    BY <2>1, <2>4
  <2>5. CASE e = d
    <3>1. rows'[d] = Stamped(rows[d], v, s)
      BY <2>1
    <3>2. /\ i \in DOMAIN rows[d]
          /\ rows'[d][i] = IF rows[d][i].event = v THEN [rows[d][i] EXCEPT !.seq = s]
                                                   ELSE rows[d][i]
      BY <2>5, <3>1 DEF Stamped
    <3>3. rows[d][i] \in Row
      BY <2>1, <3>2, ElementOfSeq, LenProperties
    <3> QED
      BY <2>3, <2>5, <3>2, <3>3 DEF Row
  <2> QED
    BY <2>4, <2>5
<1>4. \/ rows' = rows
      \/ \E d \in Device : Emit(d)
      \/ \E d \in Device, f \in Flush : FlushStamp(d, f)
  <2>1. ASSUME NEW d \in Device, NEW f \in Flush, Enqueue(d, f) \/ FlushStep(d, f)
        PROVE  rows' = rows \/ FlushStamp(d, f)
    BY <2>1 DEF Enqueue, FlushStep, FlushSend, FlushAnswered, FlushRejected, FlushGivesUp,
                FlushSynced, FlushFailed
  <2>2. ASSUME NEW d \in Device, Restart(d) PROVE rows' = rows
    BY <2>2 DEF Restart
  <2>3. ASSUME NEW batch \in late, LateArrival(batch) PROVE rows' = rows
    BY <2>3 DEF LateArrival
  <2> QED
    BY <2>1, <2>2, <2>3 DEF Next, vars
<1> QED
  BY <1>1, <1>2, <1>3, <1>4

\* The events of a device that wait: in its queue, or before it.
Waiting(d) == Queued(queue[d]) \cup ToSet(emitting[d])

\* An event waits until a flush marks its batch as synced.
LEMMA WaitsOn ==
    ASSUME TypeInv, [Next]_vars, "emit" \notin FragileAt, NEW e \in Device,
           NEW v \in Waiting(e)
    PROVE  \/ v \in Waiting(e)'
           \/ \E f \in Flush : FlushSynced(e, f) /\ v \in Batch(e, f)
<1>1. CASE UNCHANGED vars \/ \E batch \in late : LateArrival(batch)
  <2>1. queue' = queue /\ emitting' = emitting
    BY <1>1 DEF vars, LateArrival
  <2> QED
    BY <2>1 DEF Waiting
<1>2. ASSUME NEW d \in Device, Emit(d) PROVE v \in Waiting(e)'
  <2>1. /\ emitting' = [emitting EXCEPT ![d] = Append(emitting[d], NewEvent(d))]
        /\ queue' = queue /\ emitting \in [Device -> Seq(Event)]
    BY <1>2 DEF Emit, TypeInv
  <2>2. ToSet(Append(emitting[d], NewEvent(d))) = ToSet(emitting[d]) \cup {NewEvent(d)}
    BY <1>2, <2>1, EmitTyped, ToSetAppend
  <2>3. ToSet(emitting[e]) \subseteq ToSet(emitting'[e])
    BY <2>1, <2>2
  <2> QED
    BY <2>1, <2>3 DEF Waiting
<1>3. ASSUME NEW d \in Device, Restart(d) PROVE v \in Waiting(e)'
  <2>1. emitting[d] = <<>> /\ emitting' = [emitting EXCEPT ![d] = <<>>]
    BY <1>3, NotEmitting, RestartStep
  <2>2. emitting'[e] = emitting[e]
    BY <2>1 DEF TypeInv
  <2>3. Queued(queue'[e]) = Queued(queue[e])
    BY <1>3, QueuedRestarted
  <2> QED
    BY <2>2, <2>3 DEF Waiting
<1>4. ASSUME NEW d \in Device, NEW f \in Flush, Enqueue(d, f) PROVE v \in Waiting(e)'
  BY <1>4, QueuedEnqueued DEF Waiting
<1>5. ASSUME NEW d \in Device, NEW f \in Flush, FlushStep(d, f)
      PROVE  v \in Waiting(e)' \/ (FlushSynced(d, f) /\ e = d /\ v \in Batch(d, f))
  <2>1. emitting' = emitting
    BY <1>5 DEF FlushStep, FlushSend, FlushAnswered, FlushRejected, FlushGivesUp, FlushStamp,
                FlushSynced, FlushFailed
  <2>2. CASE ~FlushSynced(d, f)
    BY <1>5, <2>1, <2>2, QueuedKept DEF Waiting
  <2>3. CASE FlushSynced(d, f)
    BY <2>1, <2>3, QueuedSynced DEF Waiting
  <2> QED
    BY <2>2, <2>3
<1> QED
  BY <1>1, <1>2, <1>3, <1>4, <1>5 DEF Next

-----------------------------------------------------------------------------
(* Nothing is lost when a batch is one event *)

Place(d) == Waiting(d) \cup ToSet(log)

\* What a flush is about to drop from the queue is in the relay's log.
SingleOf(d, f) ==
    /\ Len(flush[d][f].batch) <= 1
    /\ flush[d][f].pc \in {"stamp", "duplicate"} => Batch(d, f) \subseteq ToSet(log)

PlaceInv == NoEventLost /\ \A d \in Device, f \in Flush : SingleOf(d, f)

\* The only events to leave the queue are those of a batch that the relay has.
LEMMA PlaceKept ==
    ASSUME TypeInv, [Next]_vars, \A d \in Device, f \in Flush : SingleOf(d, f),
           "emit" \notin FragileAt, NEW e \in Device
    PROVE  Place(e) \subseteq Place(e)'
<1>1. ToSet(log) \subseteq ToSet(log')
  BY LogKeeps
<1>2. ASSUME NEW f \in Flush, FlushSynced(e, f) PROVE Batch(e, f) \subseteq ToSet(log)
  BY <1>2, SyncedStep DEF SingleOf
<1> QED
  BY <1>1, <1>2, WaitsOn DEF Place

LEMMA RowsPlaced ==
    ASSUME TypeInv, StampInv, PlaceInv, [Next]_vars, "emit" \notin FragileAt
    PROVE  NoEventLost'
<1> SUFFICES ASSUME NEW e \in Device, NEW i \in DOMAIN rows'[e]
             PROVE  rows'[e][i].event \in Place(e)'
  BY DEF NoEventLost, Place, Waiting
<1>1. CASE i \in DOMAIN rows[e] /\ rows'[e][i].event = rows[e][i].event
  BY <1>1, PlaceKept DEF PlaceInv, NoEventLost, Place, Waiting
<1>2. CASE Emit(e) /\ rows'[e][i] = [event |-> NewEvent(e), seq |-> 0]
  <2>1. /\ emitting'[e] = Append(emitting[e], NewEvent(e)) /\ emitting[e] \in Seq(Event)
        /\ NewEvent(e) \in Event
    BY <1>2, EmitTyped DEF Emit, TypeInv
  <2>2. NewEvent(e) \in ToSet(emitting'[e])
    BY <2>1, ToSetAppend
  <2> QED
    BY <1>2, <2>2 DEF Place, Waiting
<1> QED
  BY <1>1, <1>2, RowsAfter


\* A batch of one event that the relay has, or has just stored, is in its log.
LEMMA SingleKept ==
    ASSUME TypeInv, NEW d \in Device, NEW f \in Flush, Enqueue(d, f) \/ FlushStep(d, f),
           ToSet(log) \subseteq ToSet(log'), SingleOf(d, f), MaxBatch = 1
    PROVE  SingleOf(d, f)'
<1> DEFINE c == flush[d][f]
           n == flush'[d][f]
<1>0. /\ c.batch \in Seq(Event) /\ Len(c.batch) \in Nat
      /\ DOMAIN c.batch = 1..Len(c.batch) /\ Len(<<>>) = 0
  BY EntriesTyped, LenProperties
<1>1. CASE n.pc \notin {"stamp", "duplicate"}
  <2>1. n.batch = <<>> \/ n.batch = c.batch \/ Len(n.batch) <= 1
    BY <1>1, CallAfter DEF FlushStep
  <2> QED
    BY <1>0, <1>1, <2>1 DEF SingleOf
<1>2. CASE n.pc = "stamp" /\ c.pc = "stamp"
  <2>1. n.batch = c.batch
    BY <1>2, CallAfter DEF FlushStep
  <2> QED
    BY <1>2, <2>1 DEF SingleOf, Batch
<1>3. CASE FlushAnswered(d, f)
  <2>1. n.batch = c.batch /\ (IsDuplicate(c.batch) \/ log' = log \o c.batch)
    BY <1>3, CallAfter
  <2>2. CASE IsDuplicate(c.batch)
    <3>1. PICK e \in ToSet(c.batch) : e \in ToSet(log)
      BY <2>2 DEF IsDuplicate
    <3>2. ToSet(c.batch) \subseteq {e}
      <4>1. \A i, j \in DOMAIN c.batch : i = j
        BY <1>0 DEF SingleOf
      <4> QED
        BY <4>1 DEF ToSet
    <3> QED
      BY <2>1, <3>1, <3>2 DEF SingleOf, Batch
  <2>3. CASE log' = log \o c.batch
    <3>1. ToSet(log') = ToSet(log) \cup ToSet(c.batch)
      BY <1>0, <2>3, ToSetConcat DEF TypeInv
    <3> QED
      BY <2>1, <3>1 DEF SingleOf, Batch
  <2> QED
    BY <2>1, <2>2, <2>3
<1>4. n.pc \notin {"stamp", "duplicate"} \/ (n.pc = "stamp" /\ c.pc = "stamp") \/ FlushAnswered(d, f)
  BY CallAfter DEF FlushStep
<1> QED
  BY <1>1, <1>2, <1>3, <1>4

LEMMA NextPlaced ==
    ASSUME TypeInv, StampInv, PlaceInv, [Next]_vars, MaxBatch = 1, "emit" \notin FragileAt
    PROVE  PlaceInv'
<1>0. ToSet(log) \subseteq ToSet(log')
  BY LogKeeps
<1>1. ASSUME NEW d \in Device, NEW f \in Flush,
             flush'[d][f] = flush[d][f] \/ flush'[d][f] = Idle
      PROVE  SingleOf(d, f)'
  <2>1. CASE flush'[d][f] = flush[d][f]
    BY <1>0, <2>1 DEF PlaceInv, SingleOf, Batch
  <2>2. CASE flush'[d][f] = Idle
    BY <2>2 DEF Idle, SingleOf
  <2> QED
    BY <1>1, <2>1, <2>2
<1>2. ASSUME NEW d \in Device, NEW f \in Flush, Enqueue(d, f) \/ FlushStep(d, f)
      PROVE  \A e \in Device, g \in Flush : SingleOf(e, g)'
  BY <1>0, <1>1, <1>2, OthersKept, SingleKept DEF PlaceInv
<1>3. ASSUME NEW d \in Device, Emit(d) \/ Restart(d)
      PROVE  \A e \in Device, g \in Flush : SingleOf(e, g)'
  <2>1. \A e \in Device, g \in Flush : flush'[e][g] = flush[e][g] \/ flush'[e][g] = Idle
    BY <1>3, RestartStep DEF Emit
  <2> QED
    BY <1>1, <2>1
<1>4. ASSUME UNCHANGED vars \/ \E batch \in late : LateArrival(batch)
      PROVE  \A e \in Device, g \in Flush : SingleOf(e, g)'
  <2>1. flush' = flush
    BY <1>4 DEF vars, LateArrival
  <2> QED
    BY <1>1, <2>1
<1>5. \A e \in Device, g \in Flush : SingleOf(e, g)'
  BY <1>2, <1>3, <1>4 DEF Next
<1> QED
  BY <1>5, RowsPlaced DEF PlaceInv

\* With pushes of one event, a push that failed for its sender and arrives late
\* loses nothing, wherever the process dies but between the row and the queue
\* entry of an event (VaultCommands.#emit, OutboundFlush.flush, PendingEventQueue).
THEOREM NoneLost ==
    ASSUME MaxBatch = 1, "emit" \notin FragileAt
    PROVE  Spec => []NoEventLost
<1>1. Init => PlaceInv
  BY DEF Init, PlaceInv, NoEventLost, SingleOf, Idle
<1>2. TypeInv /\ StampInv /\ PlaceInv /\ [Next]_vars => PlaceInv'
  BY NextPlaced
<1>3. PlaceInv => NoEventLost
  BY DEF PlaceInv
<1> QED
  BY <1>1, <1>2, <1>3, TypeHolds, StampsHold, PTL DEF Spec


-----------------------------------------------------------------------------
(* What left the queue is stamped *)

\* The faults of the theorem: pushes fail only before they leave, and no process
\* dies between a row and its queue entry, or between a push and its markSynced.
Mild == /\ "late" \notin Faults
        /\ {"emit", "sent", "stamp", "duplicate"} \cap FragileAt = {}

\* An event of the queue is in the relay's log only while its flush stamps it, so
\* the relay has no duplicate to refuse.
CallKnown(d, f) ==
    /\ flush[d][f].pc # "duplicate"
    /\ flush[d][f].pc \in {"sent", "failed"} => Batch(d, f) \cap ToSet(log) = {}

QueueKnown(d) ==
    \A e \in Queued(queue[d]) \cap ToSet(log) :
        \E f \in Flush : flush[d][f].pc = "stamp" /\ e \in Batch(d, f)

KnownInv ==
    /\ late = {}
    /\ \A e \in ToSet(log) : e.nonce <= emitted[e.device]
    /\ \A d \in Device : ToSet(emitting[d]) \cap ToSet(log) = {}
    /\ \A d \in Device : QueueKnown(d)
    /\ \A d \in Device, f \in Flush : CallKnown(d, f)

LEMMA EmitKnown ==
    ASSUME TypeInv, KnownInv, NEW d \in Device, Emit(d) PROVE KnownInv'
<1>1. /\ emitting' = [emitting EXCEPT ![d] = Append(emitting[d], NewEvent(d))]
      /\ emitted' = [emitted EXCEPT ![d] = emitted[d] + 1]
      /\ queue' = queue /\ flush' = flush /\ log' = log /\ late' = late
      /\ emitting \in [Device -> Seq(Event)] /\ emitted \in [Device -> 0..MaxEmits]
      /\ NewEvent(d) \in Event
  BY EmitTyped DEF Emit, TypeInv
<1>2. NewEvent(d).device = d /\ NewEvent(d).nonce = emitted[d] + 1
  BY DEF NewEvent
<1>3. NewEvent(d) \notin ToSet(log)
  BY <1>1, <1>2 DEF KnownInv
<1>4. ToSet(Append(emitting[d], NewEvent(d))) = ToSet(emitting[d]) \cup {NewEvent(d)}
  BY <1>1, ToSetAppend
<1>5. \A g \in Device : ToSet(emitting'[g]) \cap ToSet(log') = {}
  BY <1>1, <1>3, <1>4 DEF KnownInv
<1>6. \A e \in ToSet(log') : e.nonce <= emitted'[e.device]
  <2> SUFFICES ASSUME NEW e \in ToSet(log) PROVE e.nonce <= emitted'[e.device]
    BY <1>1
  <2>1. e \in Event
    <3>1. PICK i \in DOMAIN log : e = log[i]
      BY DEF ToSet
    <3> QED
      BY <3>1, ElementOfSeq, LenProperties DEF TypeInv
  <2>2. e.nonce <= emitted[e.device] /\ e.device \in Device /\ e.nonce \in Int
    BY <2>1 DEF KnownInv, Event
  <2> QED
    BY <1>1, <2>2
<1>7. \A g \in Device : QueueKnown(g)'
  BY <1>1 DEF KnownInv, QueueKnown, Batch
<1>8. \A g \in Device, f \in Flush : CallKnown(g, f)'
  BY <1>1 DEF KnownInv, CallKnown, Batch
<1> QED
  BY <1>1, <1>5, <1>6, <1>7, <1>8 DEF KnownInv

\* The relay accepts a batch of which it has nothing.
LEMMA AnswerKnown ==
    ASSUME TypeInv, OwnInv, KnownInv, NEW d \in Device, NEW f \in Flush, FlushAnswered(d, f)
    PROVE  KnownInv'
<1>1. /\ flush[d][f].pc = "sent" /\ flush'[d][f].batch = flush[d][f].batch
      /\ \/ IsDuplicate(flush[d][f].batch)
         \/ flush'[d][f].pc = "stamp" /\ log' = log \o flush[d][f].batch
  BY CallAfter
<1>2. /\ queue' = queue /\ emitting' = emitting /\ emitted' = emitted /\ late' = late
      /\ log \in Seq(Event) /\ flush[d][f].batch \in Seq(Event) /\ Batch(d, f) \subseteq Event
  BY EntriesTyped DEF FlushAnswered, TypeInv
<1>3. Batch(d, f) \cap ToSet(log) = {}
  BY <1>1 DEF KnownInv, CallKnown
<1>4. /\ flush'[d][f].pc = "stamp" /\ Batch(d, f)' = Batch(d, f)
      /\ log' = log \o flush[d][f].batch
  BY <1>1, <1>3 DEF IsDuplicate, Batch
<1>5. ToSet(log') = ToSet(log) \cup Batch(d, f)
  BY <1>2, <1>4, ToSetConcat DEF Batch
<1>6. \A e \in Batch(d, f) : e.device = d /\ e.nonce <= emitted[d]
  BY <1>2 DEF OwnInv, FreshOf, Taken
<1>7. \A g \in Device : ToSet(emitting[g]) \cap Batch(d, f) = {}
  <2>1. \A g \in Device : \A e \in ToSet(emitting[g]) : e.device = g
    BY EntriesTyped DEF OwnInv, FreshOf, Taken
  <2> QED
    BY <1>6, <2>1 DEF OwnInv, FreshOf
<1>8. \A g \in Device : QueueKnown(g)'
  <2> SUFFICES ASSUME NEW g \in Device, NEW e \in Queued(queue[g]) \cap ToSet(log')
               PROVE  \E h \in Flush : flush'[g][h].pc = "stamp" /\ e \in Batch(g, h)'
    BY <1>2 DEF QueueKnown
  <2>1. CASE e \in ToSet(log)
    <3>1. PICK h \in Flush : flush[g][h].pc = "stamp" /\ e \in Batch(g, h)
      BY <2>1 DEF KnownInv, QueueKnown
    <3>2. flush'[g][h] = flush[g][h]
      BY <1>1, <3>1, OthersKept DEF FlushStep
    <3> QED
      BY <3>1, <3>2 DEF Batch
  <2>2. CASE e \in Batch(d, f)
    <3>1. PICK x \in ToSet(queue[g]) : x.event = e
      BY QueuedEntries
    <3>2. e.device = g
      BY <1>2, <2>2, <3>1 DEF OwnInv, FreshOf, Taken
    <3> QED
      BY <1>4, <1>6, <2>2, <3>2
  <2> QED
    BY <1>5, <2>1, <2>2
<1>9. ASSUME NEW g \in Device, NEW h \in Flush PROVE CallKnown(g, h)'
  <2>1. CASE g = d /\ h = f
    BY <1>4, <2>1 DEF CallKnown
  <2>2. CASE g # d \/ h # f
    <3>1. flush'[g][h] = flush[g][h] /\ Batch(g, h)' = Batch(g, h)
      BY <2>2, OthersKept DEF FlushStep, Batch
    <3>2. \A e \in Batch(g, h) : e.device = g
      BY EntriesTyped DEF OwnInv, FreshOf, Taken
    <3>3. Batch(g, h) \cap Batch(d, f) = {}
      BY <1>6, <2>2, <3>2 DEF OwnInv, OwnOf
    <3> QED
      BY <1>5, <3>1, <3>3 DEF KnownInv, CallKnown
  <2> QED
    BY <2>1, <2>2
<1>10. \A e \in ToSet(log') : e.nonce <= emitted'[e.device]
  BY <1>2, <1>5, <1>6 DEF KnownInv
<1> QED
  BY <1>2, <1>3, <1>5, <1>7, <1>8, <1>9, <1>10 DEF KnownInv


\* A step of a call that does not change the log.
LEMMA CallStepKnown ==
    ASSUME TypeInv, OwnInv, KnownInv, Mild, NEW d \in Device, NEW f \in Flush,
           Enqueue(d, f) \/ FlushStep(d, f), ~FlushAnswered(d, f)
    PROVE  KnownInv'
<1>1. log' = log /\ emitted' = emitted /\ late' = late
  BY DEF Mild, Enqueue, FlushStep, FlushSend, FlushRejected, FlushGivesUp, FlushStamp,
         FlushSynced, FlushFailed
<1>2. \A g \in Device : ToSet(emitting'[g]) \subseteq ToSet(emitting[g])
  <2>1. CASE Enqueue(d, f)
    BY <2>1, QueuedEnqueued
  <2>2. CASE FlushStep(d, f)
    BY <2>2 DEF FlushStep, FlushSend, FlushAnswered, FlushRejected, FlushGivesUp,
                FlushStamp, FlushSynced, FlushFailed
  <2> QED
    BY <2>1, <2>2
<1>3. ASSUME NEW g \in Device, NEW h \in Flush PROVE CallKnown(g, h)'
  <2>1. CASE g # d \/ h # f
    <3>1. flush'[g][h] = flush[g][h]
      BY <2>1, OthersKept
    <3> QED
      BY <1>1, <3>1 DEF KnownInv, CallKnown, Batch
  <2>2. CASE FlushSend(d, f) /\ g = d /\ h = f
    <3>1. \/ flush'[d][f].pc = "idle"
          \/ /\ flush'[d][f].pc = "sent"
             /\ \A e \in Batch(d, f)' : \E x \in ToSet(queue[d]) :
                   x.event = e /\ x.status # "in-flight"
      BY <2>2, CallAfter DEF Batch
    <3>2. ASSUME NEW x \in ToSet(queue[d]), x.status # "in-flight" PROVE x.event \notin ToSet(log)
      <4>1. x.event \in Queued(queue[d])
        BY QueuedEntries
      <4>2. \A k \in Flush : x.event \notin Batch(d, k)
        BY <3>2 DEF OwnInv, OwnOf
      <4> QED
        BY <4>1, <4>2 DEF KnownInv, QueueKnown
    <3> QED
      BY <1>1, <2>2, <3>1, <3>2 DEF CallKnown
  <2>3. CASE ~FlushSend(d, f) /\ g = d /\ h = f
    <3>1. /\ flush'[d][f].pc \in {"peek", "failed", "stamp", "idle"}
          /\ flush'[d][f].pc = "failed" =>
               flush[d][f].pc = "sent" /\ flush'[d][f].batch = flush[d][f].batch
      BY <2>3, CallAfter DEF FlushStep
    <3>2. flush'[d][f].pc = "failed" => Batch(d, f)' \cap ToSet(log') = {}
      BY <1>1, <3>1 DEF KnownInv, CallKnown, Batch
    <3> QED
      BY <2>3, <3>1, <3>2 DEF CallKnown
  <2> QED
    BY <2>1, <2>2, <2>3
<1>4. ASSUME NEW g \in Device, NEW e \in Queued(queue'[g]), e \in ToSet(log)
      PROVE  \E h \in Flush : flush'[g][h].pc = "stamp" /\ e \in Batch(g, h)'
  <2>1. /\ e \in Queued(queue[g])
        /\ FlushSynced(d, f) => g # d \/ e \notin Batch(d, f)
    <3>1. CASE Enqueue(d, f)
      <4>1. e \notin ToSet(emitting[d])
        BY <1>4 DEF KnownInv
      <4>2. ~FlushSynced(d, f)
        BY <3>1 DEF Enqueue, FlushSynced
      <4> QED
        BY <3>1, <4>1, <4>2, QueuedEnqueued
    <3>2. CASE FlushSynced(d, f)
      BY <3>2, QueuedSynced
    <3>3. CASE FlushStep(d, f) /\ ~FlushSynced(d, f)
      BY <3>3, QueuedKept
    <3> QED
      BY <3>1, <3>2, <3>3
  <2>2. PICK h \in Flush : flush[g][h].pc = "stamp" /\ e \in Batch(g, h)
    BY <1>4, <2>1 DEF KnownInv, QueueKnown
  <2>3. CASE g # d \/ h # f
    BY <2>2, <2>3, OthersKept DEF Batch
  <2>4. CASE g = d /\ h = f
    <3>1. FlushStamp(d, f)
      BY <2>1, <2>2, <2>4, CallAfter DEF FlushStep
    <3> QED
      BY <2>2, <2>4, <3>1, CallAfter DEF Batch
  <2> QED
    BY <2>3, <2>4
<1> QED
  BY <1>1, <1>2, <1>3, <1>4 DEF KnownInv, QueueKnown

LEMMA RestartKnown ==
    ASSUME TypeInv, KnownInv, Mild, NEW d \in Device, Restart(d) PROVE KnownInv'
<1>1. \A f \in Flush : flush[d][f].pc \notin {"sent", "stamp", "duplicate"}
  BY DEF Restart, At, Mild
<1>2. /\ log' = log /\ emitted' = emitted
      /\ late' = late \cup {flush[d][f].batch : f \in {g \in Flush : flush[d][g].pc = "sent"}}
  BY DEF Restart
<1>3. late' = late
  BY <1>1, <1>2
<1>4. \A g \in Device : Queued(queue'[g]) = Queued(queue[g])
  BY QueuedRestarted
<1>5. \A g \in Device, h \in Flush : flush'[g][h] = IF g = d THEN Idle ELSE flush[g][h]
  BY RestartStep
<1>6. ASSUME NEW g \in Device PROVE QueueKnown(g)'
  <2>1. CASE g = d
    <3>1. Queued(queue[d]) \cap ToSet(log) = {}
      BY <1>1 DEF KnownInv, QueueKnown
    <3> QED
      BY <1>2, <1>4, <2>1, <3>1 DEF QueueKnown
  <2>2. CASE g # d
    <3>1. \A h \in Flush : flush'[g][h] = flush[g][h]
      BY <1>5, <2>2
    <3>2. \A h \in Flush : Batch(g, h)' = Batch(g, h)
      BY <3>1 DEF Batch
    <3> QED
      BY <1>2, <1>4, <3>1, <3>2 DEF KnownInv, QueueKnown
  <2> QED
    BY <2>1, <2>2
<1>7. ASSUME NEW g \in Device, NEW h \in Flush PROVE CallKnown(g, h)'
  <2>1. CASE g = d
    BY <1>5, <2>1 DEF CallKnown, Idle
  <2>2. CASE g # d
    <3>1. flush'[g][h] = flush[g][h]
      BY <1>5, <2>2
    <3> QED
      BY <1>2, <3>1 DEF KnownInv, CallKnown, Batch
  <2> QED
    BY <2>1, <2>2
<1>8. \A g \in Device : emitting'[g] = <<>> \/ emitting'[g] = emitting[g]
  BY RestartStep DEF TypeInv
<1>9. \A g \in Device : ToSet(emitting'[g]) \cap ToSet(log') = {}
  BY <1>2, <1>8 DEF KnownInv, ToSet
<1> QED
  BY <1>2, <1>3, <1>6, <1>7, <1>9 DEF KnownInv

LEMMA NextKnown ==
    ASSUME TypeInv, OwnInv, KnownInv, Mild, [Next]_vars PROVE KnownInv'
<1>1. CASE UNCHANGED vars
  BY <1>1 DEF vars, KnownInv, QueueKnown, CallKnown, Batch
<1>2. ASSUME NEW batch \in late, LateArrival(batch) PROVE KnownInv'
  BY <1>2 DEF KnownInv
<1> QED
  BY <1>1, <1>2, EmitKnown, RestartKnown, CallStepKnown, AnswerKnown DEF Next, FlushStep

LEMMA InitKnown == Init => KnownInv
<1> SUFFICES ASSUME Init PROVE KnownInv
  OBVIOUS
<1>1. ToSet(log) = {} /\ late = {} /\ \A d \in Device, f \in Flush : flush[d][f] = Idle
  BY DEF Init, ToSet
<1> QED
  BY <1>1 DEF KnownInv, QueueKnown, CallKnown, Idle

LEMMA KnownHolds == ASSUME Mild PROVE Spec => []KnownInv
<1>1. TypeInv /\ OwnInv /\ KnownInv /\ [Next]_vars => KnownInv'
  BY NextKnown
<1> QED
  BY <1>1, InitKnown, TypeHolds, OwnHolds, PTL DEF Spec


\* The events of a batch whose turn to be stamped has passed have their seq.
DoneOf(d, f) ==
    LET c == flush[d][f]
    IN  c.pc = "stamp" =>
            \A i \in 1..(Len(c.batch) - Len(c.assigned)) : \A k \in DOMAIN rows[d] :
                rows[d][k].event = c.batch[i] => rows[d][k].seq # 0

RowInv == SyncedIsStamped /\ \A d \in Device, f \in Flush : DoneOf(d, f)

\* A new row is of no batch, so what is done stays done.
LEMMA DoneStays ==
    ASSUME TypeInv, OwnInv, StampInv, [Next]_vars, NEW d \in Device, NEW f \in Flush,
           NEW v \in Batch(d, f), NEW k \in DOMAIN rows'[d], rows'[d][k].event = v,
           \A j \in DOMAIN rows[d] : rows[d][j].event = v => rows[d][j].seq # 0
    PROVE  rows'[d][k].seq # 0
<1>1. v.nonce <= emitted[d] /\ emitted[d] \in Int
  BY EntriesTyped DEF OwnInv, FreshOf, Taken, TypeInv
<1>2. CASE /\ k \in DOMAIN rows[d] /\ rows'[d][k].event = rows[d][k].event
           /\ rows'[d][k].seq = 0 => rows[d][k].seq = 0
  BY <1>2
<1>3. CASE rows'[d][k] = [event |-> NewEvent(d), seq |-> 0]
  <2>1. v = NewEvent(d)
    BY <1>3
  <2>2. v.nonce = emitted[d] + 1
    BY <2>1 DEF NewEvent
  <2> QED
    BY <1>1, <2>2
<1> QED
  BY <1>2, <1>3, RowsAfter

LEMMA DoneKept ==
    ASSUME TypeInv, OwnInv, StampInv, [Next]_vars, NEW d \in Device, NEW f \in Flush,
           DoneOf(d, f), flush'[d][f].pc = "stamp" => flush'[d][f] = flush[d][f]
    PROVE  DoneOf(d, f)'
<1> DEFINE c == flush[d][f]
<1> SUFFICES ASSUME c.pc = "stamp", flush'[d][f] = c,
                    NEW i \in 1..(Len(c.batch) - Len(c.assigned)), NEW k \in DOMAIN rows'[d],
                    rows'[d][k].event = c.batch[i]
             PROVE  rows'[d][k].seq # 0
  BY DEF DoneOf
<1>1. c.batch \in Seq(Event) /\ Len(c.assigned) \in Nat
  BY EntriesTyped, LenProperties DEF Call
<1>2. i \in DOMAIN c.batch
  BY <1>1, LenProperties
<1>3. c.batch[i] \in Batch(d, f)
  BY <1>2 DEF Batch, ToSet
<1>4. \A j \in DOMAIN rows[d] : rows[d][j].event = c.batch[i] => rows[d][j].seq # 0
  BY DEF DoneOf
<1> QED
  BY <1>3, <1>4, DoneStays

LEMMA StampDone ==
    ASSUME TypeInv, OwnInv, StampInv, NEW d \in Device, NEW f \in Flush, FlushStamp(d, f),
           DoneOf(d, f)
    PROVE  DoneOf(d, f)'
<1> DEFINE c == flush[d][f]
           n == Len(c.batch) - Len(c.assigned)
<1>0. [Next]_vars
  BY DEF Next, FlushStep
<1>1. /\ c.pc = "stamp" /\ flush'[d][f].pc = "stamp" /\ flush'[d][f].batch = c.batch
      /\ flush'[d][f].assigned = Tail(c.assigned)
  BY CallAfter
<1>2. /\ c.assigned # <<>> /\ rows \in [Device -> Seq(Row)]
      /\ rows' = [rows EXCEPT ![d] = Stamped(rows[d], c.batch[n + 1], Head(c.assigned))]
  BY StampStep DEF TypeInv
<1>3. c.batch \in Seq(Event) /\ c.assigned \in Seq(Nat) /\ log \in Seq(Event)
  BY EntriesTyped DEF Call, TypeInv
<1>4. Owes(c.batch, c.assigned, log)
  BY <1>1 DEF StampInv, StampOf
<1>5. /\ n + 1 \in DOMAIN c.batch /\ Head(c.assigned) \in 1..Len(log)
      /\ Len(c.batch) - Len(Tail(c.assigned)) = n + 1
  BY <1>2, <1>3, <1>4, OwesTail
<1>6. n \in Int /\ DOMAIN c.batch = 1..Len(c.batch) /\ Len(c.batch) \in Nat
  BY <1>3, LenProperties
<1> SUFFICES ASSUME NEW i \in 1..(n + 1), NEW k \in DOMAIN rows'[d],
                    rows'[d][k].event = c.batch[i]
             PROVE  rows'[d][k].seq # 0
  BY <1>1, <1>5 DEF DoneOf
<1>7. CASE i = n + 1
  <2> DEFINE v == c.batch[n + 1]
             s == Head(c.assigned)
  <2>1. rows'[d] = Stamped(rows[d], v, s) /\ s # 0 /\ rows'[d][k].event = v
    BY <1>2, <1>5, <1>7
  <2> HIDE DEF v, s, c, n
  <2>2. /\ k \in DOMAIN rows[d]
        /\ rows'[d][k] = IF rows[d][k].event = v THEN [rows[d][k] EXCEPT !.seq = s]
                                                 ELSE rows[d][k]
    BY <2>1 DEF Stamped
  <2>3. rows[d][k] \in Row
    BY <1>2, <2>2, ElementOfSeq, LenProperties
  <2> QED
    BY <2>1, <2>2, <2>3 DEF Row
<1>8. CASE i # n + 1
  <2>1. i \in 1..n /\ i \in DOMAIN c.batch
    <3> HIDE DEF c, n
    <3> QED
      BY <1>5, <1>6, <1>8
  <2>2. c.batch[i] \in Batch(d, f)
    BY <2>1 DEF Batch, ToSet
  <2>3. \A j \in DOMAIN rows[d] : rows[d][j].event = c.batch[i] => rows[d][j].seq # 0
    BY <1>1, <2>1 DEF DoneOf
  <2> QED
    BY <1>0, <2>2, <2>3, DoneStays
<1> QED
  BY <1>7, <1>8

LEMMA AnswerDone ==
    ASSUME TypeInv, NEW d \in Device, NEW f \in Flush, FlushAnswered(d, f) PROVE DoneOf(d, f)'
<1>1. /\ flush'[d][f].batch = flush[d][f].batch
      /\ \/ flush'[d][f].pc = "duplicate"
         \/ Len(flush'[d][f].assigned) = Len(flush'[d][f].batch)
  BY CallAfter
<1>2. Len(flush[d][f].batch) \in Nat
  BY EntriesTyped, LenProperties
<1>3. Len(flush'[d][f].batch) - Len(flush'[d][f].batch) = 0
  BY <1>1, <1>2
<1>4. 1..0 = {}
  OBVIOUS
<1>5. CASE flush'[d][f].pc = "duplicate"
  BY <1>5 DEF DoneOf
<1>6. CASE Len(flush'[d][f].assigned) = Len(flush'[d][f].batch)
  BY <1>3, <1>4, <1>6 DEF DoneOf
<1> QED
  BY <1>1, <1>5, <1>6

LEMMA NextDone ==
    ASSUME TypeInv, OwnInv, StampInv, [Next]_vars, NEW d \in Device, NEW f \in Flush,
           DoneOf(d, f)
    PROVE  DoneOf(d, f)'
<1>1. ASSUME NEW e \in Device, NEW g \in Flush, Enqueue(e, g) \/ FlushStep(e, g)
      PROVE  DoneOf(d, f)'
  BY <1>1, CallsKept, DoneKept, AnswerDone, StampDone
<1>2. ASSUME \/ UNCHANGED vars
             \/ \E batch \in late : LateArrival(batch)
             \/ \E e \in Device : Emit(e) \/ Restart(e)
      PROVE  DoneOf(d, f)'
  <2>1. flush'[d][f] = flush[d][f] \/ flush'[d][f] = Idle
    BY <1>2, RestartStep DEF vars, LateArrival, Emit
  <2>2. flush'[d][f].pc = "stamp" => flush'[d][f] = flush[d][f]
    BY <2>1 DEF Idle
  <2> QED
    BY <2>2, DoneKept
<1> QED
  BY <1>1, <1>2 DEF Next

\* An unstamped row waits: its batch is dropped only when all of it is stamped.
LEMMA RowsWait ==
    ASSUME TypeInv, StampInv, KnownInv, RowInv, Mild, [Next]_vars
    PROVE  SyncedIsStamped'
<1> SUFFICES ASSUME NEW e \in Device, NEW i \in DOMAIN rows'[e], rows'[e][i].seq = 0
             PROVE  rows'[e][i].event \in Waiting(e)'
  BY DEF SyncedIsStamped, Waiting
<1>1. CASE /\ i \in DOMAIN rows[e] /\ rows'[e][i].event = rows[e][i].event
           /\ rows[e][i].seq = 0
  <2> DEFINE v == rows[e][i].event
  <2>1. v \in Waiting(e)
    BY <1>1 DEF RowInv, SyncedIsStamped, Waiting
  <2>2. ASSUME NEW f \in Flush, FlushSynced(e, f), v \in Batch(e, f) PROVE FALSE
    <3> DEFINE c == flush[e][f]
    <3>1. c.pc = "stamp" /\ c.assigned = <<>>
      BY <2>2, SyncedStep DEF KnownInv, CallKnown
    <3>2. Len(c.batch) \in Nat /\ DOMAIN c.batch = 1..Len(c.batch) /\ Len(c.assigned) = 0
      BY <3>1, EntriesTyped, LenProperties
    <3>3. PICK j \in 1..Len(c.batch) : c.batch[j] = v
      BY <2>2, <3>2 DEF Batch, ToSet
    <3>4. j \in 1..(Len(c.batch) - Len(c.assigned))
      BY <3>2
    <3>5. rows[e][i].seq # 0
      BY <1>1, <3>1, <3>3, <3>4 DEF RowInv, DoneOf
    <3> QED
      BY <1>1, <3>5
  <2>3. "emit" \notin FragileAt
    BY DEF Mild
  <2> QED
    BY <1>1, <2>1, <2>2, <2>3, WaitsOn
<1>2. CASE Emit(e) /\ rows'[e][i] = [event |-> NewEvent(e), seq |-> 0]
  <2>1. /\ emitting'[e] = Append(emitting[e], NewEvent(e)) /\ emitting[e] \in Seq(Event)
        /\ NewEvent(e) \in Event
    BY <1>2, EmitTyped DEF Emit, TypeInv
  <2>2. NewEvent(e) \in ToSet(emitting'[e])
    BY <2>1, ToSetAppend
  <2> QED
    BY <1>2, <2>2 DEF Waiting
<1> QED
  BY <1>1, <1>2, RowsAfter

\* If pushes fail only before they leave, and no process dies between a row and
\* its queue entry or between a push and its markSynced, an event that left the
\* queue has its seq (OutboundFlush.flush, PendingEventQueue.markSynced).
THEOREM SyncedStamped ==
    ASSUME "late" \notin Faults, {"emit", "sent", "stamp", "duplicate"} \cap FragileAt = {}
    PROVE  Spec => []SyncedIsStamped
<1>1. Mild
  BY DEF Mild
<1>2. Spec => []KnownInv
  BY <1>1, KnownHolds
<1>3. Init => RowInv
  BY DEF Init, RowInv, SyncedIsStamped, DoneOf, Idle
<1>4. TypeInv /\ OwnInv /\ StampInv /\ KnownInv /\ RowInv /\ [Next]_vars => RowInv'
  BY <1>1, RowsWait, NextDone DEF RowInv
<1>5. RowInv => SyncedIsStamped
  BY DEF RowInv
<1> QED
  BY <1>2, <1>3, <1>4, <1>5, TypeHolds, OwnHolds, StampsHold, PTL DEF Spec

-----------------------------------------------------------------------------
(* No event is in the log twice *)

\* Whatever is sent again, and however late it arrives: no queue, no batch and no
\* request on its way has an event twice.
OnceInv ==
    /\ \A d \in Device : Distinct(queue[d])
    /\ \A d \in Device, f \in Flush : IsInjective(flush[d][f].batch)
    /\ \A batch \in late : IsInjective(batch)
    /\ IsInjective(log)

LEMMA ConcatInjective ==
    ASSUME NEW S, NEW s \in Seq(S), NEW t \in Seq(S), IsInjective(s), IsInjective(t),
           ToSet(s) \cap ToSet(t) = {}
    PROVE  IsInjective(s \o t)
<1> DEFINE u == s \o t
<1>1. /\ u \in Seq(S) /\ Len(u) = Len(s) + Len(t)
      /\ \A i \in 1..(Len(s) + Len(t)) : u[i] = IF i <= Len(s) THEN s[i] ELSE t[i - Len(s)]
  BY ConcatProperties
<1>2. /\ Len(s) \in Nat /\ Len(t) \in Nat /\ DOMAIN s = 1..Len(s) /\ DOMAIN t = 1..Len(t)
      /\ DOMAIN u = 1..(Len(s) + Len(t))
  BY <1>1, LenProperties
<1> HIDE DEF u
<1>3. ASSUME NEW i \in DOMAIN u
      PROVE  \/ i \in DOMAIN s /\ u[i] = s[i]
             \/ i - Len(s) \in DOMAIN t /\ u[i] = t[i - Len(s)]
  BY <1>1, <1>2
<1>4. ASSUME NEW i \in DOMAIN u, NEW j \in DOMAIN u, u[i] = u[j] PROVE i = j
  <2>1. \A k \in DOMAIN s, l \in DOMAIN t : s[k] # t[l]
    BY DEF ToSet
  <2>2. CASE i \in DOMAIN s /\ u[i] = s[i] /\ j \in DOMAIN s /\ u[j] = s[j]
    BY <1>4, <2>2 DEF IsInjective
  <2>3. CASE /\ i - Len(s) \in DOMAIN t /\ u[i] = t[i - Len(s)]
             /\ j - Len(s) \in DOMAIN t /\ u[j] = t[j - Len(s)]
    <3>1. i - Len(s) = j - Len(s)
      BY <1>4, <2>3 DEF IsInjective
    <3> QED
      BY <1>2, <3>1
  <2> QED
    BY <1>3, <1>4, <2>1, <2>2, <2>3
<1> QED
  BY <1>4 DEF IsInjective, u

\* A batch has the events of different entries.
LEMMA SentOnce ==
    ASSUME TypeInv, NEW d \in Device, NEW f \in Flush, FlushSend(d, f), Distinct(queue[d])
    PROVE  IsInjective(flush'[d][f].batch)
<1> DEFINE p == peek(queue[d], MaxBatch)
           B == [i \in DOMAIN p |-> p[i].event]
<1>1. queue[d] \in Seq(QueueEntry(Event)) /\ MaxBatch \in Nat /\ flush \in [Device -> [Flush -> Call]]
  BY BoundAssumption DEF TypeInv, CallsFit
<1>2. Distinct(p)
  BY <1>1, PeekDistinct
<1>3. flush' = [flush EXCEPT ![d][f] = Idle] \/ flush' = [flush EXCEPT ![d][f] = Flushing("sent", B)]
  BY DEF FlushSend
<1> HIDE DEF p
<1>4. IsInjective(B)
  BY <1>2 DEF Distinct, IsInjective
<1>5. IsInjective(<<>>)
  BY DEF IsInjective
<1> HIDE DEF B, Call
<1>6. flush'[d][f].batch = <<>> \/ flush'[d][f].batch = B
  BY <1>1, <1>3 DEF Idle, Flushing
<1> QED
  BY <1>4, <1>5, <1>6

\* The queues after a step.
LEMMA QueueOnce ==
    ASSUME TypeInv, OwnInv, OnceInv, [Next]_vars, NEW e \in Device
    PROVE  Distinct(queue'[e])
<1>0. queue \in [Device -> Seq(QueueEntry(Event))] /\ Distinct(queue[e])
  BY DEF TypeInv, OnceInv
<1>1. ASSUME NEW d \in Device, NEW f \in Flush, Enqueue(d, f) PROVE Distinct(queue'[e])
  <2>1. /\ emitting[d] \in Seq(Event) /\ emitting[d] # <<>>
        /\ queue' = [queue EXCEPT ![d] = enqueue(queue[d], Head(emitting[d]))]
    BY <1>1, EnqueueStep DEF TypeInv
  <2>2. Head(emitting[d]) \in Event /\ Head(emitting[d]) \in ToSet(emitting[d])
    BY <2>1, HeadTail
  <2>3. \A x \in ToSet(queue[d]) : x.event # Head(emitting[d])
    BY <2>2 DEF OwnInv, FreshOf
  <2>4. Distinct(enqueue(queue[d], Head(emitting[d])))
    BY <1>0, <2>2, <2>3, EnqueueDistinct DEF OnceInv
  <2> QED
    BY <1>0, <2>1, <2>4
<1>2. ASSUME NEW d \in Device, NEW f \in Flush, FlushStep(d, f) PROVE Distinct(queue'[e])
  <2>1. Distinct(queue[d]) /\ queue[d] \in Seq(QueueEntry(Event))
    BY DEF OnceInv, TypeInv
  <2>2. CASE FlushSynced(d, f)
    <3>1. queue' = [queue EXCEPT ![d] = markSynced(queue[d], Batch(d, f))]
      BY <2>2, SyncedStep DEF Batch
    <3>2. Distinct(markSynced(queue[d], Batch(d, f)))
      <4> DEFINE kept == {i \in DOMAIN queue[d] : queue[d][i].event \notin Batch(d, f)}
      <4>1. kept \in SUBSET (DOMAIN queue[d])
        OBVIOUS
      <4>2. Distinct(Select(queue[d], kept))
        BY <2>1, <4>1, SelectDistinct
      <4> QED
        BY <4>2 DEF markSynced
    <3> QED
      BY <1>0, <3>1, <3>2
  <2>3. CASE FlushSend(d, f) \/ FlushFailed(d, f)
    <3>1. \/ queue' = queue
          \/ \E E, s : queue' = [queue EXCEPT ![d] = mark(queue[d], E, s)]
      BY <2>3, SendStep, FailedStep DEF markInFlight, markFailed
    <3> QED
      BY <1>0, <2>1, <3>1, MarkDistinct
  <2>4. CASE FlushAnswered(d, f) \/ FlushRejected(d, f) \/ FlushGivesUp(d, f) \/ FlushStamp(d, f)
    BY <1>0, <2>4 DEF FlushAnswered, FlushRejected, FlushGivesUp, FlushStamp
  <2> QED
    BY <1>2, <2>2, <2>3, <2>4 DEF FlushStep
<1>3. ASSUME NEW d \in Device, Restart(d) PROVE Distinct(queue'[e])
  <2>1. queue' = [queue EXCEPT ![d] = hydrate(queue[d])] /\ Distinct(hydrate(queue[d]))
    BY <1>0, <1>3, RestartStep, MarkDistinct DEF OnceInv
  <2> QED
    BY <1>0, <2>1
<1>4. ASSUME UNCHANGED vars \/ (\E d \in Device : Emit(d)) \/ \E batch \in late : LateArrival(batch)
      PROVE  Distinct(queue'[e])
  <2>1. queue' = queue
    BY <1>4 DEF vars, Emit, LateArrival
  <2> QED
    BY <1>0, <2>1
<1> QED
  BY <1>1, <1>2, <1>3, <1>4 DEF Next

\* The batches after a step.
LEMMA BatchOnce ==
    ASSUME TypeInv, OnceInv, [Next]_vars, NEW e \in Device, NEW g \in Flush
    PROVE  IsInjective(flush'[e][g].batch)
<1>0. IsInjective(<<>>) /\ IsInjective(flush[e][g].batch)
  BY DEF IsInjective, OnceInv
<1>1. ASSUME NEW d \in Device, NEW f \in Flush, Enqueue(d, f) \/ FlushStep(d, f)
      PROVE  IsInjective(flush'[e][g].batch)
  <2>1. CASE e # d \/ g # f
    BY <1>0, <1>1, <2>1, OthersKept
  <2>2. CASE FlushSend(d, f) /\ e = d /\ g = f
    BY <2>2, SentOnce DEF OnceInv
  <2>3. CASE ~FlushSend(d, f) /\ e = d /\ g = f
    <3>1. flush'[d][f].batch = <<>> \/ flush'[d][f].batch = flush[d][f].batch
      BY <1>1, <2>3, CallAfter DEF FlushStep
    <3> QED
      BY <1>0, <2>3, <3>1
  <2> QED
    BY <2>1, <2>2, <2>3
<1>2. ASSUME \/ UNCHANGED vars
             \/ \E batch \in late : LateArrival(batch)
             \/ \E d \in Device : Emit(d) \/ Restart(d)
      PROVE  IsInjective(flush'[e][g].batch)
  <2>1. flush'[e][g] = flush[e][g] \/ flush'[e][g] = Idle
    BY <1>2, RestartStep DEF vars, LateArrival, Emit
  <2> QED
    BY <1>0, <2>1 DEF Idle
<1> QED
  BY <1>1, <1>2 DEF Next

\* What the relay stores, and what is on its way, after a step.
LEMMA LogOnce ==
    ASSUME TypeInv, OnceInv, [Next]_vars
    PROVE  IsInjective(log') /\ \A batch \in late' : IsInjective(batch)
<1>1. ASSUME NEW b \in Seq(Event), IsInjective(b), ~IsDuplicate(b), log' = log \o b
      PROVE  IsInjective(log')
  <2>1. ToSet(log) \cap ToSet(b) = {} /\ log \in Seq(Event) /\ IsInjective(log)
    BY <1>1 DEF IsDuplicate, TypeInv, OnceInv
  <2> QED
    BY <1>1, <2>1, ConcatInjective
<1>2. IsInjective(log')
  <2>1. ASSUME NEW d \in Device, NEW f \in Flush, FlushAnswered(d, f) PROVE IsInjective(log')
    <3>1. flush[d][f].batch \in Seq(Event) /\ IsInjective(flush[d][f].batch) /\ IsInjective(log)
      BY EntriesTyped DEF OnceInv
    <3> QED
      BY <1>1, <2>1, <3>1, AnswerStep
  <2>2. ASSUME NEW batch \in late, LateArrival(batch) PROVE IsInjective(log')
    BY <1>1, <2>2 DEF LateArrival, TypeInv, OnceInv
  <2>3. ASSUME NEW d \in Device, Emit(d) \/ Restart(d) PROVE log' = log
    BY <2>3 DEF Emit, Restart
  <2>4. ASSUME NEW d \in Device, NEW f \in Flush,
               Enqueue(d, f) \/ (FlushStep(d, f) /\ ~FlushAnswered(d, f))
        PROVE  log' = log
    BY <2>4 DEF Enqueue, FlushStep, FlushSend, FlushRejected, FlushGivesUp, FlushStamp,
                FlushSynced, FlushFailed
  <2> QED
    BY <2>1, <2>2, <2>3, <2>4 DEF Next, vars, FlushStep, OnceInv
<1>3. \A batch \in late' : batch \in late \/ \E d \in Device, f \in Flush : batch = flush[d][f].batch
  <2>1. ASSUME NEW d \in Device, Restart(d)
        PROVE  \A batch \in late' : batch \in late \/ \E f \in Flush : batch = flush[d][f].batch
    BY <2>1 DEF Restart
  <2>2. ASSUME NEW d \in Device, NEW f \in Flush, FlushGivesUp(d, f)
        PROVE  \A batch \in late' : batch \in late \/ batch = flush[d][f].batch
    BY <2>2 DEF FlushGivesUp
  <2>3. ASSUME NEW batch \in late, LateArrival(batch) PROVE late' \subseteq late
    BY <2>3 DEF LateArrival
  <2>4. ASSUME NEW d \in Device, Emit(d) PROVE late' = late
    BY <2>4 DEF Emit
  <2>5. ASSUME NEW d \in Device, NEW f \in Flush,
               Enqueue(d, f) \/ (FlushStep(d, f) /\ ~FlushGivesUp(d, f))
        PROVE  late' = late
    BY <2>5 DEF Enqueue, FlushStep, FlushSend, FlushAnswered, FlushRejected, FlushStamp,
                FlushSynced, FlushFailed
  <2>6. CASE UNCHANGED vars
    BY <2>6 DEF vars
  <2>7. CASE \E d \in Device : Emit(d) \/ Restart(d)
    BY <2>1, <2>4, <2>7
  <2>8. CASE \E d \in Device, f \in Flush : Enqueue(d, f) \/ FlushStep(d, f)
    BY <2>2, <2>5, <2>8
  <2>9. CASE \E batch \in late : LateArrival(batch)
    BY <2>3, <2>9
  <2> QED
    BY <2>6, <2>7, <2>8, <2>9 DEF Next
<1> QED
  BY <1>2, <1>3 DEF OnceInv

LEMMA OnceHolds == Spec => []OnceInv
<1>1. Init => OnceInv
  BY DEF Init, OnceInv, Distinct, IsInjective, Idle
<1>2. TypeInv /\ OwnInv /\ OnceInv /\ [Next]_vars => OnceInv'
  BY QueueOnce, BatchOnce, LogOnce DEF OnceInv
<1> QED
  BY <1>1, <1>2, TypeHolds, OwnHolds, PTL DEF Spec

-----------------------------------------------------------------------------
(* The relay of this model is the abstract event log *)

\* What the abstract log shows of an event.
LogEntry(e) == [type |-> "Event", device |-> e.device, nonce |-> e.nonce]

AsLog(l) == [i \in DOMAIN l |-> LogEntry(l[i])]
VaultStatus == IF log = <<>> THEN "unborn" ELSE "live"

Relay == INSTANCE EventLog WITH
             Entry <- {LogEntry(e) : e \in Event}, status <- VaultStatus, log <- AsLog(log)

LEMMA AsLogTyped ==
    \A l \in Seq(Event) :
        /\ AsLog(l) \in Seq({LogEntry(e) : e \in Event}) /\ Len(AsLog(l)) = Len(l)
        /\ DOMAIN AsLog(l) = 1..Len(l) /\ Len(l) \in Nat /\ DOMAIN l = 1..Len(l)
        /\ \A i \in 1..Len(l) : l[i] \in Event /\ AsLog(l)[i] = LogEntry(l[i])
<1> TAKE l \in Seq(Event)
<1> DEFINE S == {LogEntry(e) : e \in Event}
<1>1. Len(l) \in Nat /\ DOMAIN l = 1..Len(l) /\ \A i \in 1..Len(l) : l[i] \in Event
  BY LenProperties, ElementOfSeq
<1>2. AsLog(l) \in [1..Len(l) -> S] /\ \A i \in 1..Len(l) : AsLog(l)[i] = LogEntry(l[i])
  BY <1>1 DEF AsLog
<1>3. AsLog(l) \in Seq(S)
  BY <1>1, <1>2, SeqDef
<1>4. Len(AsLog(l)) = Len(l) /\ DOMAIN AsLog(l) = 1..Len(l)
  <2> HIDE DEF S
  <2> QED
    BY <1>1, <1>2, <1>3, LenProperties
<1> QED
  BY <1>1, <1>2, <1>3, <1>4

\* A log that stores no event twice has no replay.
LEMMA AsLogOnce == \A l \in Seq(Event) : IsInjective(l) => Relay!NoReplay(AsLog(l))
<1> SUFFICES ASSUME NEW l \in Seq(Event), IsInjective(l),
                    NEW i \in DOMAIN AsLog(l), NEW j \in DOMAIN AsLog(l),
                    AsLog(l)[i].device = AsLog(l)[j].device, AsLog(l)[i].nonce = AsLog(l)[j].nonce
             PROVE  i = j
  BY DEF Relay!NoReplay
<1>1. /\ i \in DOMAIN l /\ j \in DOMAIN l /\ l[i] \in Event /\ l[j] \in Event
      /\ AsLog(l)[i] = LogEntry(l[i]) /\ AsLog(l)[j] = LogEntry(l[j])
  BY AsLogTyped
<1>2. l[i].device = l[j].device /\ l[i].nonce = l[j].nonce
  BY <1>1 DEF LogEntry
<1>3. l[i] = l[j]
  BY <1>1, <1>2 DEF Event
<1> QED
  BY <1>1, <1>3 DEF IsInjective

LEMMA LogGrows ==
    ASSUME TypeInv, TypeInv', OnceInv', [Next]_vars
    PROVE  Relay!Grow \/ log' = log
<1> SUFFICES ASSUME log' # log PROVE Relay!Grow
  OBVIOUS
<1> DEFINE before == AsLog(log)
           after == AsLog(log')
<1>1. /\ DOMAIN before = 1..Len(log) /\ Len(before) = Len(log) /\ Len(log) \in Nat
      /\ \A i \in 1..Len(log) : before[i] = LogEntry(log[i])
      /\ log \in Seq(Event)
  BY AsLogTyped DEF TypeInv
<1>2. /\ after \in Seq({LogEntry(e) : e \in Event}) /\ Len(after) = Len(log')
      /\ DOMAIN after = 1..Len(log') /\ Len(log') \in Nat
      /\ \A i \in 1..Len(log') : after[i] = LogEntry(log'[i])
      /\ log' \in Seq(Event)
  BY AsLogTyped DEF TypeInv
<1>3. Relay!NoReplay(after)
  BY <1>2, AsLogOnce DEF OnceInv
<1>4. Relay!DeletedIsLast(after)
  BY <1>2 DEF Relay!DeletedIsLast, LogEntry
<1> HIDE DEF before, after
<1>5. Len(log) <= Len(log') /\ \A s \in 1..Len(log) : log'[s] = log[s]
  BY LogKeeps
<1>6. Len(log) \in Nat /\ Len(log') \in Nat
  BY <1>1, <1>2
<1>7. Len(log) < Len(log')
  <2>1. \A s, t \in Seq(Event) : Len(s) = Len(t) /\ (\A i \in 1..Len(s) : s[i] = t[i]) => s = t
    BY SeqEqual
  <2>2. Len(log) # Len(log')
    BY <1>1, <1>2, <1>5, <2>1
  <2> QED
    BY <1>5, <1>6, <2>2
<1>8. Relay!Extends(after, before)
  <2>1. \A i \in 1..Len(log) : i \in 1..Len(log')
    BY <1>6, <1>7
  <2>2. \A i \in 1..Len(log) : after[i] = before[i]
    BY <1>1, <1>2, <1>5, <2>1
  <2> QED
    BY <1>1, <1>2, <1>7, <2>2 DEF Relay!Extends
<1>9. log' # <<>>
  BY <1>6, <1>7
<1> QED
  BY <1>2, <1>3, <1>4, <1>8, <1>9 DEF Relay!Grow, VaultStatus, before, after

\* The relay of this model keeps the promise of the relay: whatever fails, is
\* late or is sent again, its log only grows and stores no event twice, so a
\* device may trust the seq of what it has seen (POST /events, which
\* VaultRelay.tla shows to implement the same EventLog).
THEOREM LogIsEventLog == Spec => Relay!Spec
<1>1. Init => Relay!Init
  BY DEF Init, Relay!Init, AsLog, VaultStatus
<1>2. TypeInv /\ TypeInv' /\ OnceInv' /\ [Next]_vars => [Relay!Next]_(Relay!logVars)
  <2> SUFFICES ASSUME TypeInv, TypeInv', OnceInv', [Next]_vars
               PROVE  Relay!Grow \/ log' = log
    BY DEF Relay!Next, Relay!logVars, AsLog, VaultStatus
  <2> QED
    BY LogGrows
<1> QED
  BY <1>1, <1>2, TypeHolds, OnceHolds, PTL DEF Spec, Relay!Spec

=============================================================================
