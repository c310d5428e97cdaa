---------------------- MODULE PendingEventQueueProofs ----------------------
(***************************************************************************)
(* What the operations of the pending-event queue do to its entries, for   *)
(* any queue: the facts that the proofs about the flush rest on.           *)
(***************************************************************************)
EXTENDS PendingEventQueue, SequencesExt, FiniteSetTheorems, FunctionTheorems,
        SequenceTheorems, TLAPS

\* Ranks number the kept positions: 1, 2, ... without a gap, so that Select
\* drops no kept entry, repeats none and makes none up.
LEMMA RankIsBijection ==
    ASSUME NEW n \in Nat, NEW kept \in SUBSET (1..n)
    PROVE  /\ IsFiniteSet(kept) /\ Cardinality(kept) \in Nat
           /\ \A i \in kept : Rank(kept, i) \in 1..Cardinality(kept)
           /\ \A i, j \in kept : Rank(kept, i) = Rank(kept, j) => i = j
           /\ \A k \in 1..Cardinality(kept) : \E i \in kept : Rank(kept, i) = k
<1>1. IsFiniteSet(kept) /\ Cardinality(kept) \in Nat
  <2>1. IsFiniteSet(1..n)
    BY FS_Interval
  <2>2. IsFiniteSet(kept)
    BY <2>1, FS_Subset
  <2> QED
    BY <2>2, FS_CardinalityType
<1>0. \A i \in kept : i \in Int
  OBVIOUS
<1> DEFINE upTo(i) == {j \in kept : j <= i}
           c == Cardinality(kept)
           r == [i \in kept |-> Rank(kept, i)]
<1>2. \A i \in kept : /\ upTo(i) \in SUBSET kept /\ i \in upTo(i)
                      /\ Rank(kept, i) = Cardinality(upTo(i))
  BY DEF Rank
<1>3. ASSUME NEW i \in kept
      PROVE  IsFiniteSet(upTo(i)) /\ Cardinality(upTo(i)) \in 1..c
  <2>1. IsFiniteSet(upTo(i)) /\ Cardinality(upTo(i)) <= c
    BY <1>1, <1>2, FS_Subset
  <2>2. Cardinality(upTo(i)) \in Nat
    BY <2>1, FS_CardinalityType
  <2>3. upTo(i) # {}
    BY <1>2
  <2>4. Cardinality(upTo(i)) # 0
    BY <2>1, <2>3, FS_EmptySet
  <2> QED
    BY <1>1, <2>1, <2>2, <2>4
<1>4. ASSUME NEW i \in kept, NEW j \in kept, i < j
      PROVE  Cardinality(upTo(i)) # Cardinality(upTo(j))
  <2>1. upTo(i) \in SUBSET upTo(j) /\ j \notin upTo(i) /\ j \in upTo(j)
    <3>1. i \in Int /\ j \in Int /\ i < j
      BY <1>0, <1>4
    <3>2. \A k \in kept : k <= i => k <= j
      BY <1>0, <3>1
    <3>3. ~(j <= i) /\ j <= j
      BY <3>1
    <3> QED
      BY <3>2, <3>3
  <2>2. IsFiniteSet(upTo(j))
    BY <1>3
  <2>3. upTo(i) # upTo(j)
    BY <2>1
  <2> HIDE DEF upTo
  <2> QED
    BY <2>1, <2>2, <2>3, FS_Subset
<1>5. \A i, j \in kept : Rank(kept, i) = Rank(kept, j) => i = j
  <2> SUFFICES ASSUME NEW i \in kept, NEW j \in kept, i # j
               PROVE  Rank(kept, i) # Rank(kept, j)
    OBVIOUS
  <2>1. i < j \/ j < i
    OBVIOUS
  <2> QED
    BY <1>2, <1>4, <2>1
<1>6. r \in Injection(kept, 1..c)
  <2>1. r \in [kept -> 1..c]
    BY <1>2, <1>3
  <2>2. \A i, j \in kept : r[i] = r[j] => i = j
    BY <1>5
  <2> HIDE DEF r, c
  <2>3. IsInjective(r)
    BY <2>1, <2>2 DEF IsInjective
  <2> QED
    BY <2>1, <2>3 DEF Injection
<1>7. IsFiniteSet(1..c) /\ Cardinality(1..c) = c
  BY <1>1, FS_Interval
<1>8. r \in Surjection(kept, 1..c)
  <2> HIDE DEF r, c
  <2> QED
    BY <1>1, <1>6, <1>7, FS_Injection DEF c
<1>9. \A k \in 1..c : \E i \in kept : r[i] = k
  BY <1>8 DEF Surjection
<1> QED
  BY <1>1, <1>2, <1>3, <1>5, <1>9

LEMMA SelectFacts ==
    ASSUME NEW S, NEW q \in Seq(S), NEW kept \in SUBSET (DOMAIN q)
    PROVE  /\ Select(q, kept) \in Seq(S)
           /\ ToSet(Select(q, kept)) = {q[i] : i \in kept}
<1> DEFINE c == Cardinality(kept)
           at(k) == CHOOSE i \in kept : Rank(kept, i) = k
<1>1. DOMAIN q = 1..Len(q) /\ Len(q) \in Nat /\ \A i \in DOMAIN q : q[i] \in S
  BY LenProperties, ElementOfSeq
<1>2. /\ c \in Nat
      /\ \A i \in kept : Rank(kept, i) \in 1..c
      /\ \A i, j \in kept : Rank(kept, i) = Rank(kept, j) => i = j
      /\ \A k \in 1..c : \E i \in kept : Rank(kept, i) = k
  BY <1>1, RankIsBijection
<1>3. \A k \in 1..c : at(k) \in kept /\ Rank(kept, at(k)) = k
  BY <1>2
<1>4. \A i \in kept : at(Rank(kept, i)) = i
  BY <1>2, <1>3
<1>5. Select(q, kept) = [k \in 1..c |-> q[at(k)]]
  BY DEF Select
<1> HIDE DEF c, at
<1>6. Select(q, kept) \in [1..c -> S]
  BY <1>1, <1>3, <1>5
<1>7. Select(q, kept) \in Seq(S)
  BY <1>2, <1>6, SeqDef
<1>8. DOMAIN Select(q, kept) = 1..c /\ \A k \in 1..c : Select(q, kept)[k] = q[at(k)]
  BY <1>5
<1>9. \A x : x \in ToSet(Select(q, kept)) <=> \E k \in 1..c : x = q[at(k)]
  BY <1>8 DEF ToSet
<1>10. \A x : (\E k \in 1..c : x = q[at(k)]) <=> \E i \in kept : x = q[i]
  <2>1. \A i \in kept : \E k \in 1..c : q[i] = q[at(k)]
    BY <1>2, <1>4
  <2> QED
    BY <1>3, <2>1
<1> QED
  BY <1>7, <1>9, <1>10

-----------------------------------------------------------------------------
(* The operations, by the entries *)

QueueEntry(Event) == [event : Event, status : QueueStatus]

LEMMA EnqueueFacts ==
    ASSUME NEW Event, NEW q \in Seq(QueueEntry(Event)), NEW e \in Event
    PROVE  /\ enqueue(q, e) \in Seq(QueueEntry(Event))
           /\ ToSet(enqueue(q, e)) = ToSet(q) \cup {[event |-> e, status |-> "pending"]}
<1> DEFINE x == [event |-> e, status |-> "pending"]
<1>1. x \in QueueEntry(Event)
  BY DEF QueueEntry, QueueStatus
<1> HIDE DEF x
<1>2. /\ Append(q, x) \in Seq(QueueEntry(Event)) /\ Len(Append(q, x)) = Len(q) + 1
      /\ \A i \in 1..Len(q) : Append(q, x)[i] = q[i]
      /\ Append(q, x)[Len(q) + 1] = x
  BY <1>1, AppendProperties
<1>3. Len(q) \in Nat /\ DOMAIN q = 1..Len(q) /\ DOMAIN Append(q, x) = 1..(Len(q) + 1)
  BY <1>2, LenProperties
<1>4. \A y : y \in ToSet(Append(q, x)) <=> y \in ToSet(q) \/ y = x
  BY <1>2, <1>3 DEF ToSet
<1> QED
  BY <1>2, <1>4 DEF enqueue, x

LEMMA MarkFacts ==
    ASSUME NEW Event, NEW q \in Seq(QueueEntry(Event)), NEW E, NEW s \in QueueStatus
    PROVE  /\ mark(q, E, s) \in Seq(QueueEntry(Event))
           /\ ToSet(mark(q, E, s)) =
                {IF x.event \in E THEN [x EXCEPT !.status = s] ELSE x : x \in ToSet(q)}
<1> DEFINE new(x) == IF x.event \in E THEN [x EXCEPT !.status = s] ELSE x
           m == mark(q, E, s)
<1>1. DOMAIN q = 1..Len(q) /\ Len(q) \in Nat /\ \A i \in DOMAIN q : q[i] \in QueueEntry(Event)
  BY LenProperties, ElementOfSeq
<1>2. m = [i \in DOMAIN q |-> new(q[i])]
  BY DEF mark
<1>3. \A x \in QueueEntry(Event) : new(x) \in QueueEntry(Event)
  BY DEF QueueEntry
<1> HIDE DEF new, m
<1>4. m \in [1..Len(q) -> QueueEntry(Event)]
  BY <1>1, <1>2, <1>3
<1>5. m \in Seq(QueueEntry(Event))
  BY <1>1, <1>4, SeqDef
<1>6. ToSet(m) = {new(x) : x \in ToSet(q)}
  BY <1>1, <1>2 DEF ToSet
<1> QED
  BY <1>5, <1>6 DEF new, m

LEMMA HydrateFacts ==
    ASSUME NEW Event, NEW q \in Seq(QueueEntry(Event))
    PROVE  /\ hydrate(q) \in Seq(QueueEntry(Event))
           /\ ToSet(hydrate(q)) =
                {IF x.status = "in-flight" THEN [x EXCEPT !.status = "pending"] ELSE x
                    : x \in ToSet(q)}
<1> DEFINE new(x) == IF x.status = "in-flight" THEN [x EXCEPT !.status = "pending"] ELSE x
           m == hydrate(q)
<1>1. DOMAIN q = 1..Len(q) /\ Len(q) \in Nat /\ \A i \in DOMAIN q : q[i] \in QueueEntry(Event)
  BY LenProperties, ElementOfSeq
<1>2. m = [i \in DOMAIN q |-> new(q[i])]
  BY DEF hydrate
<1>3. \A x \in QueueEntry(Event) : new(x) \in QueueEntry(Event)
  BY DEF QueueEntry, QueueStatus
<1> HIDE DEF new, m
<1>4. m \in [1..Len(q) -> QueueEntry(Event)]
  BY <1>1, <1>2, <1>3
<1>5. m \in Seq(QueueEntry(Event))
  BY <1>1, <1>4, SeqDef
<1>6. ToSet(m) = {new(x) : x \in ToSet(q)}
  BY <1>1, <1>2 DEF ToSet
<1> QED
  BY <1>5, <1>6 DEF new, m

LEMMA SyncedFacts ==
    ASSUME NEW Event, NEW q \in Seq(QueueEntry(Event)), NEW E
    PROVE  /\ markSynced(q, E) \in Seq(QueueEntry(Event))
           /\ ToSet(markSynced(q, E)) = {x \in ToSet(q) : x.event \notin E}
<1> DEFINE kept == {i \in DOMAIN q : q[i].event \notin E}
<1>1. kept \in SUBSET (DOMAIN q)
  OBVIOUS
<1>2. /\ Select(q, kept) \in Seq(QueueEntry(Event))
      /\ ToSet(Select(q, kept)) = {q[i] : i \in kept}
  BY <1>1, SelectFacts
<1>3. {q[i] : i \in kept} = {x \in ToSet(q) : x.event \notin E}
  BY DEF ToSet
<1> QED
  BY <1>2, <1>3 DEF markSynced

\* A batch is made of entries that no flush has in flight.
LEMMA PeekFacts ==
    ASSUME NEW Event, NEW q \in Seq(QueueEntry(Event)), NEW limit \in Nat
    PROVE  /\ peek(q, limit) \in Seq(QueueEntry(Event))
           /\ Len(peek(q, limit)) <= limit
           /\ \A x \in ToSet(peek(q, limit)) : x \in ToSet(q) /\ x.status # "in-flight"
<1> DEFINE kept == {i \in DOMAIN q : q[i].status \in {"pending", "failed"}}
           visible == Select(q, kept)
           n == IF Len(visible) < limit THEN Len(visible) ELSE limit
<1>1. kept \in SUBSET (DOMAIN q)
  OBVIOUS
<1>2. visible \in Seq(QueueEntry(Event)) /\ ToSet(visible) = {q[i] : i \in kept}
  BY <1>1, SelectFacts
<1>3. \A x \in ToSet(visible) : x \in ToSet(q) /\ x.status # "in-flight"
  BY <1>2 DEF ToSet
<1>4. peek(q, limit) = SubSeq(visible, 1, n)
  BY DEF peek
<1> HIDE DEF visible
<1>5. /\ Len(visible) \in Nat /\ DOMAIN visible = 1..Len(visible)
      /\ \A i \in DOMAIN visible : visible[i] \in QueueEntry(Event)
  BY <1>2, LenProperties, ElementOfSeq
<1>6. n \in Nat /\ n <= Len(visible) /\ n <= limit
  BY <1>5
<1> HIDE DEF n
<1>7. /\ SubSeq(visible, 1, n) \in Seq(QueueEntry(Event))
      /\ Len(SubSeq(visible, 1, n)) = n
      /\ \A i \in 1..n : SubSeq(visible, 1, n)[i] = visible[i]
  <2>1. \A i \in 1..n : visible[i] \in QueueEntry(Event)
    BY <1>5, <1>6
  <2>2. /\ SubSeq(visible, 1, n) \in Seq(QueueEntry(Event))
        /\ Len(SubSeq(visible, 1, n)) = IF 1 <= n THEN n - 1 + 1 ELSE 0
        /\ \A i \in 1..(n - 1 + 1) : SubSeq(visible, 1, n)[i] = visible[1 + i - 1]
    BY <1>6, <2>1, SubSeqProperties
  <2> QED
    BY <1>6, <2>2
<1>8. DOMAIN SubSeq(visible, 1, n) = 1..n
  BY <1>7, LenProperties
<1>9. \A x \in ToSet(SubSeq(visible, 1, n)) : x \in ToSet(visible)
  BY <1>5, <1>6, <1>7, <1>8 DEF ToSet
<1> QED
  BY <1>3, <1>4, <1>6, <1>7, <1>9

-----------------------------------------------------------------------------
(* No event twice *)

Distinct(q) == \A i, j \in DOMAIN q : q[i].event = q[j].event => i = j

\* An event that is not in the queue is enqueued once.
LEMMA EnqueueDistinct ==
    ASSUME NEW Event, NEW q \in Seq(QueueEntry(Event)), NEW e \in Event, Distinct(q),
           \A x \in ToSet(q) : x.event # e
    PROVE  Distinct(enqueue(q, e))
<1> DEFINE x == [event |-> e, status |-> "pending"]
<1>1. x \in QueueEntry(Event) /\ x.event = e
  BY DEF QueueEntry, QueueStatus
<1>2. enqueue(q, e) = Append(q, x)
  BY DEF enqueue
<1> HIDE DEF x
<1>3. /\ Append(q, x) \in Seq(QueueEntry(Event)) /\ Len(Append(q, x)) = Len(q) + 1
      /\ \A i \in 1..Len(q) : Append(q, x)[i] = q[i]
      /\ Append(q, x)[Len(q) + 1] = x
  BY <1>1, AppendProperties
<1>4. Len(q) \in Nat /\ DOMAIN q = 1..Len(q) /\ DOMAIN Append(q, x) = 1..(Len(q) + 1)
  BY <1>3, LenProperties
<1>5. \A i \in 1..Len(q) : q[i].event # e
  BY <1>4 DEF ToSet
<1>6. \A i \in 1..(Len(q) + 1) : i = Len(q) + 1 \/ i \in 1..Len(q)
  BY <1>4
<1> QED
  BY <1>1, <1>2, <1>3, <1>4, <1>5, <1>6 DEF Distinct

\* Nor does a change of status double one.
LEMMA MarkDistinct ==
    ASSUME NEW Event, NEW q \in Seq(QueueEntry(Event)), NEW E, NEW s, Distinct(q)
    PROVE  Distinct(mark(q, E, s)) /\ Distinct(hydrate(q))
<1>1. \A i \in DOMAIN q : q[i] \in QueueEntry(Event)
  BY LenProperties, ElementOfSeq
<1>2. DOMAIN mark(q, E, s) = DOMAIN q /\ DOMAIN hydrate(q) = DOMAIN q
  BY DEF mark, hydrate
<1>3. \A i \in DOMAIN q : mark(q, E, s)[i].event = q[i].event /\ hydrate(q)[i].event = q[i].event
  BY <1>1 DEF mark, hydrate, QueueEntry
<1> QED
  BY <1>2, <1>3 DEF Distinct

\* What is left out of a queue without doubles leaves none.
LEMMA SelectDistinct ==
    ASSUME NEW S, NEW q \in Seq(S), NEW kept \in SUBSET (DOMAIN q), Distinct(q)
    PROVE  Distinct(Select(q, kept))
<1> DEFINE c == Cardinality(kept)
           at(k) == CHOOSE i \in kept : Rank(kept, i) = k
<1>1. DOMAIN q = 1..Len(q) /\ Len(q) \in Nat
  BY LenProperties
<1>2. \A k \in 1..c : at(k) \in kept /\ Rank(kept, at(k)) = k
  BY <1>1, RankIsBijection
<1>3. Select(q, kept) = [k \in 1..c |-> q[at(k)]]
  BY DEF Select
<1> HIDE DEF c, at
<1>4. DOMAIN Select(q, kept) = 1..c /\ \A k \in 1..c : Select(q, kept)[k] = q[at(k)]
  BY <1>3
<1>5. ASSUME NEW k \in 1..c, NEW l \in 1..c, q[at(k)].event = q[at(l)].event PROVE k = l
  BY <1>2, <1>5 DEF Distinct
<1> QED
  BY <1>4, <1>5 DEF Distinct

LEMMA PeekDistinct ==
    ASSUME NEW Event, NEW q \in Seq(QueueEntry(Event)), NEW limit \in Nat, Distinct(q)
    PROVE  Distinct(peek(q, limit))
<1> DEFINE kept == {i \in DOMAIN q : q[i].status \in {"pending", "failed"}}
           visible == Select(q, kept)
           n == IF Len(visible) < limit THEN Len(visible) ELSE limit
<1>1. visible \in Seq(QueueEntry(Event)) /\ Distinct(visible)
  BY SelectFacts, SelectDistinct
<1>2. peek(q, limit) = SubSeq(visible, 1, n)
  BY DEF peek
<1> HIDE DEF visible
<1>3. /\ Len(visible) \in Nat /\ DOMAIN visible = 1..Len(visible)
      /\ \A i \in DOMAIN visible : visible[i] \in QueueEntry(Event)
  BY <1>1, LenProperties, ElementOfSeq
<1>4. n \in Nat /\ n <= Len(visible)
  BY <1>3
<1> HIDE DEF n
<1>5. /\ SubSeq(visible, 1, n) \in Seq(QueueEntry(Event))
      /\ Len(SubSeq(visible, 1, n)) = n
      /\ \A i \in 1..n : SubSeq(visible, 1, n)[i] = visible[i]
  <2>1. \A i \in 1..n : visible[i] \in QueueEntry(Event)
    BY <1>3, <1>4
  <2>2. /\ SubSeq(visible, 1, n) \in Seq(QueueEntry(Event))
        /\ Len(SubSeq(visible, 1, n)) = IF 1 <= n THEN n - 1 + 1 ELSE 0
        /\ \A i \in 1..(n - 1 + 1) : SubSeq(visible, 1, n)[i] = visible[1 + i - 1]
    BY <1>4, <2>1, SubSeqProperties
  <2> QED
    BY <1>4, <2>2
<1>6. DOMAIN SubSeq(visible, 1, n) = 1..n
  BY <1>5, LenProperties
<1>7. 1..n \subseteq DOMAIN visible
  BY <1>3, <1>4
<1> QED
  BY <1>1, <1>2, <1>5, <1>6, <1>7 DEF Distinct

=============================================================================
