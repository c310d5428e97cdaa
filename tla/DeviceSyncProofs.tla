-------------------------- MODULE DeviceSyncProofs --------------------------
(***************************************************************************)
(* The inbound replay, for any number of devices and any page size.        *)
(*                                                                         *)
(* CoverInv  the cursor runs behind pull.since, which runs behind the      *)
(*           rows: all events up to there are stored, wherever a process   *)
(*           dies in a page, and under any faults.                         *)
(* TableInv  a device stores an event once, and no event that was not      *)
(*           emitted: with it and the invariants of OutboundFlushProofs,   *)
(*           which the replay keeps, the rows of a synced device have the  *)
(*           seqs 1..Len(log), each once (SyncInv).                        *)
(***************************************************************************)
EXTENDS DeviceSync, OutboundFlushProofs, FiniteSetTheorems

Has(d, v) == \E i \in DOMAIN rows[d] : rows[d][i].event = v
HasThen(d, v) == \E i \in DOMAIN rows'[d] : rows'[d][i].event = v

\* All events of the log up to position n are stored on d.
Covers(d, n) == n \in 0..Len(log) /\ \A s \in 1..n : Has(d, log[s])

PullOf(d) ==
    /\ DOMAIN pull[d] = {"pc", "since", "last", "more", "trailing"}
    /\ pull[d].pc # "idle" => Covers(d, pull[d].since)
    /\ pull[d].pc = "page" => pull[d].last \in 0..Len(log)

CoverInv ==
    /\ cursor \in [Device -> Nat] /\ DOMAIN pull = Device
    /\ \A d \in Device : Covers(d, cursor[d]) /\ PullOf(d)

\* The steps of the outbound flush are steps of the composition.
LEMMA FlushOrRest ==
    ASSUME [SyncNext]_syncVars
    PROVE  [Next]_vars \/ \E d \in Device : ApplyNext(d)
BY DEF SyncNext, syncVars, Next, Give, Outbound, triggerNow, Inbound, PullAnswered, PullFailed,
       PageDone, Reopen


\* The event that is stored next is in the log: a page ends where the log did.
LEMMA NextInPage ==
    ASSUME TypeInv, CoverInv, NEW d \in Device, ApplyNext(d)
    PROVE  /\ pull[d].since + 1 \in 1..Len(log) /\ log[pull[d].since + 1] \in Event
           /\ Covers(d, pull[d].since) /\ pull[d].last \in 0..Len(log)
<1>1. /\ pull[d].pc = "page" /\ pull[d].since + 1 <= pull[d].last
      /\ log \in Seq(Event) /\ Len(log) \in Nat
  BY LenProperties DEF ApplyNext, TypeInv
<1>2. Covers(d, pull[d].since) /\ pull[d].last \in 0..Len(log) /\ pull[d].since \in 0..Len(log)
  BY <1>1 DEF CoverInv, PullOf, Covers
<1>3. pull[d].since + 1 \in 1..Len(log)
  BY <1>1, <1>2
<1> QED
  BY <1>1, <1>2, <1>3, ElementOfSeq

\* INSERT OR IGNORE: the table keeps its rows, and has the event.
LEMMA InsertedFacts ==
    ASSUME NEW table \in Seq(Row), NEW v \in Event, NEW s \in Nat
    PROVE  /\ Inserted(table, v, s) \in Seq(Row)
           /\ \A w : (\E i \in DOMAIN table : table[i].event = w)
                       => \E i \in DOMAIN Inserted(table, v, s) : Inserted(table, v, s)[i].event = w
           /\ \E i \in DOMAIN Inserted(table, v, s) : Inserted(table, v, s)[i].event = v
<1>1. CASE \E i \in DOMAIN table : table[i].event = v
  BY <1>1 DEF Inserted
<1>2. CASE ~\E i \in DOMAIN table : table[i].event = v
  <2> DEFINE r == [event |-> v, seq |-> s]
             longer == Append(table, r)
  <2>1. r \in Row /\ r.event = v
    BY DEF Row
  <2>2. Inserted(table, v, s) = longer
    BY <1>2 DEF Inserted
  <2> HIDE DEF r
  <2>3. /\ longer \in Seq(Row) /\ Len(longer) = Len(table) + 1
        /\ \A i \in 1..Len(table) : longer[i] = table[i]
        /\ longer[Len(table) + 1] = r
    BY <2>1, AppendProperties
  <2> HIDE DEF longer
  <2>4. /\ Len(table) \in Nat /\ DOMAIN table = 1..Len(table)
        /\ DOMAIN longer = 1..(Len(table) + 1)
    BY <2>3, LenProperties
  <2>5. Len(table) + 1 \in DOMAIN longer /\ DOMAIN table \subseteq DOMAIN longer
    BY <2>4
  <2> QED
    BY <2>1, <2>2, <2>3, <2>4, <2>5
<1> QED
  BY <1>1, <1>2

LEMMA ApplyRows ==
    ASSUME TypeInv, CoverInv, NEW d \in Device, ApplyNext(d)
    PROVE  /\ rows' \in [Device -> Seq(Row)]
           /\ \A e \in Device : \A v : Has(e, v) => HasThen(e, v)
           /\ HasThen(d, log[pull[d].since + 1])
<1> DEFINE s == pull[d].since + 1
           v == log[s]
<1>1. v \in Event /\ s \in Nat /\ rows \in [Device -> Seq(Row)]
  BY NextInPage DEF TypeInv
<1>2. rows' = [rows EXCEPT ![d] = Inserted(rows[d], v, s)]
  BY DEF ApplyNext
<1> HIDE DEF v, s
<1>3. rows'[d] = Inserted(rows[d], v, s) /\ rows[d] \in Seq(Row)
  BY <1>1, <1>2
<1>4. /\ rows'[d] \in Seq(Row)
      /\ \A w : Has(d, w) => HasThen(d, w)
      /\ HasThen(d, v)
  <2> DEFINE table == rows[d]
             t == Inserted(table, v, s)
  <2>1. table \in Seq(Row) /\ rows'[d] = t
    BY <1>3
  <2> HIDE DEF table
  <2>2. /\ t \in Seq(Row)
        /\ \A w : (\E i \in DOMAIN table : table[i].event = w)
                     => \E i \in DOMAIN t : t[i].event = w
        /\ \E i \in DOMAIN t : t[i].event = v
    BY <1>1, <2>1, InsertedFacts
  <2> HIDE DEF t
  <2>3. \A w : Has(d, w) => HasThen(d, w)
    BY <2>1, <2>2 DEF Has, HasThen, table
  <2>4. HasThen(d, v)
    BY <2>1, <2>2 DEF HasThen
  <2> QED
    BY <2>1, <2>2, <2>3, <2>4
<1>5. \A e \in Device : e # d => rows'[e] = rows[e]
  BY <1>1, <1>2
<1>6. rows' \in [Device -> Seq(Row)]
  BY <1>1, <1>2, <1>3, <1>4
<1>7. \A e \in Device : \A w : Has(e, w) => HasThen(e, w)
  BY <1>4, <1>5 DEF Has, HasThen
<1> QED
  BY <1>4, <1>6, <1>7 DEF v, s

LEMMA StepTyped ==
    ASSUME TypeInv, CoverInv, [SyncNext]_syncVars PROVE TypeInv'
<1>1. CASE [Next]_vars
  BY <1>1, NextTyped
<1>2. ASSUME NEW d \in Device, ApplyNext(d) PROVE TypeInv'
  <2>1. rows' \in [Device -> Seq(Row)]
    BY <1>2, ApplyRows
  <2>2. UNCHANGED <<queue, emitted, emitting, flush, log, late>>
    BY <1>2 DEF ApplyNext
  <2> QED
    BY <2>1, <2>2 DEF TypeInv, CallsFit
<1> QED
  BY <1>1, <1>2, FlushOrRest

-----------------------------------------------------------------------------
(* What is stored stays stored *)

LEMMA StampedEvents ==
    ASSUME NEW table \in Seq(Row), NEW v, NEW s, NEW i \in DOMAIN table
    PROVE  i \in DOMAIN Stamped(table, v, s) /\ Stamped(table, v, s)[i].event = table[i].event
<1>1. table[i] \in Row
  BY LenProperties, ElementOfSeq
<1> QED
  BY <1>1 DEF Stamped, Row

\* The table u is t, with other seqs.
Kept(t, u) == DOMAIN u = DOMAIN t /\ \A i \in DOMAIN t : u[i].event = t[i].event

LEMMA AppendedRow ==
    ASSUME NEW t \in Seq(Row), NEW r \in Row
    PROVE  /\ Len(t) \in Nat /\ DOMAIN t = 1..Len(t)
           /\ DOMAIN Append(t, r) = 1..(Len(t) + 1)
           /\ \A i \in 1..Len(t) : Append(t, r)[i] = t[i]
           /\ Append(t, r)[Len(t) + 1] = r
<1>1. /\ Append(t, r) \in Seq(Row) /\ Len(Append(t, r)) = Len(t) + 1
      /\ \A i \in 1..Len(t) : Append(t, r)[i] = t[i]
      /\ Append(t, r)[Len(t) + 1] = r
  BY AppendProperties
<1>2. Len(t) \in Nat /\ DOMAIN t = 1..Len(t) /\ DOMAIN Append(t, r) = 1..Len(Append(t, r))
  BY <1>1, LenProperties
<1> QED
  BY <1>1, <1>2

\* Only an emit adds a row: the flush stamps the rows there are.
LEMMA RowsChange ==
    ASSUME TypeInv, [Next]_vars, NEW d \in Device
    PROVE  \/ Kept(rows[d], rows'[d])
           \/ /\ Emit(d)
              /\ rows'[d] = Append(rows[d], [event |-> NewEvent(d), seq |-> 0])
<1>0. rows \in [Device -> Seq(Row)]
  BY DEF TypeInv
<1>1. CASE rows' = rows
  BY <1>1 DEF Kept
<1>2. ASSUME NEW e \in Device, Emit(e)
      PROVE  \/ rows'[d] = rows[d]
             \/ Emit(d) /\ rows'[d] = Append(rows[d], [event |-> NewEvent(d), seq |-> 0])
  BY <1>0, <1>2 DEF Emit
<1>3. ASSUME NEW e \in Device, NEW f \in Flush, FlushStamp(e, f) PROVE Kept(rows[d], rows'[d])
  <2> DEFINE w == flush[e][f].batch[Len(flush[e][f].batch) - Len(flush[e][f].assigned) + 1]
             s == Head(flush[e][f].assigned)
  <2>1. rows' = [rows EXCEPT ![e] = Stamped(rows[e], w, s)]
    BY <1>3, StampStep
  <2> HIDE DEF w, s
  <2>2. CASE d = e
    <3>1. rows'[d] = Stamped(rows[d], w, s) /\ rows[d] \in Seq(Row)
      BY <1>0, <2>1, <2>2
    <3>2. DOMAIN Stamped(rows[d], w, s) = DOMAIN rows[d]
      BY DEF Stamped
    <3> QED
      BY <3>1, <3>2, StampedEvents DEF Kept
  <2>3. CASE d # e
    BY <1>0, <2>1, <2>3 DEF Kept
  <2> QED
    BY <2>2, <2>3
<1>4. \/ rows' = rows
      \/ \E e \in Device : Emit(e)
      \/ \E e \in Device, f \in Flush : FlushStamp(e, f)
  <2>1. ASSUME NEW e \in Device, NEW f \in Flush, Enqueue(e, f) \/ FlushStep(e, f)
        PROVE  rows' = rows \/ FlushStamp(e, f)
    BY <2>1 DEF Enqueue, FlushStep, FlushSend, FlushAnswered, FlushRejected, FlushGivesUp,
                FlushSynced, FlushFailed
  <2>2. ASSUME NEW e \in Device, Restart(e) PROVE rows' = rows
    BY <2>2 DEF Restart
  <2>3. ASSUME NEW batch \in late, LateArrival(batch) PROVE rows' = rows
    BY <2>3 DEF LateArrival
  <2> QED
    BY <2>1, <2>2, <2>3 DEF Next, vars
<1> QED
  BY <1>1, <1>2, <1>3, <1>4 DEF Kept

LEMMA RowsStay ==
    ASSUME TypeInv, [Next]_vars, NEW d \in Device, NEW v, Has(d, v)
    PROVE  HasThen(d, v)
<1>1. CASE Kept(rows[d], rows'[d])
  BY <1>1 DEF Kept, Has, HasThen
<1>2. ASSUME NEW r \in Row, rows'[d] = Append(rows[d], r) PROVE HasThen(d, v)
  <2>1. rows[d] \in Seq(Row)
    BY DEF TypeInv
  <2>2. \A i \in DOMAIN rows[d] : i \in DOMAIN rows'[d] /\ rows'[d][i] = rows[d][i]
    BY <1>2, <2>1, AppendedRow
  <2> QED
    BY <2>2 DEF Has, HasThen
<1>3. Emit(d) => [event |-> NewEvent(d), seq |-> 0] \in Row
  BY EmitTyped DEF Row
<1> QED
  BY <1>1, <1>2, <1>3, RowsChange

LEMMA CoversStay ==
    ASSUME TypeInv, CoverInv, [SyncNext]_syncVars, NEW d \in Device, NEW n, Covers(d, n)
    PROVE  Covers(d, n)' /\ Len(log) \in Nat /\ Len(log') \in Nat /\ Len(log) <= Len(log')
<1>1. /\ Len(log') \in Nat /\ Len(log) <= Len(log') /\ Len(log) \in Nat
      /\ \A s \in 1..Len(log) : log'[s] = log[s]
      /\ \A v : Has(d, v) => HasThen(d, v)
  <2>0. Len(log) \in Nat
    BY LenProperties DEF TypeInv
  <2>1. CASE [Next]_vars
    BY <2>0, <2>1, LogKeeps, RowsStay
  <2>2. ASSUME NEW e \in Device, ApplyNext(e)
        PROVE  log' = log /\ \A v : Has(d, v) => HasThen(d, v)
    BY <2>2, ApplyRows DEF ApplyNext
  <2> QED
    BY <2>0, <2>1, <2>2, FlushOrRest
<1>2. n \in 0..Len(log) /\ \A s \in 1..n : Has(d, log[s])
  BY DEF Covers
<1>3. n \in 0..Len(log') /\ \A s \in 1..n : s \in 1..Len(log)
  BY <1>1, <1>2
<1>4. \A s \in 1..n : HasThen(d, log'[s])
  <2> SUFFICES ASSUME NEW s \in 1..n PROVE HasThen(d, log'[s])
    OBVIOUS
  <2>1. Has(d, log[s]) /\ log'[s] = log[s]
    BY <1>1, <1>2, <1>3
  <2> QED
    BY <1>1, <2>1
<1> QED
  BY <1>1, <1>3, <1>4 DEF Covers, Has, HasThen

-----------------------------------------------------------------------------
(* The steps of the replay *)

\* A pull that starts again, or does not, starts at a position that is covered.
LEMMA EndedPull ==
    ASSUME NEW d \in Device, NEW c
    PROVE  /\ Started(d, c).pc = "sent" /\ Started(d, c).since = c
           /\ DOMAIN Started(d, c) = {"pc", "since", "last", "more", "trailing"}
           /\ DOMAIN NoPull = {"pc", "since", "last", "more", "trailing"} /\ NoPull.pc = "idle"
           /\ Ended(d, c) \in {Started(d, c), NoPull}
BY DEF Started, NoPull, Ended

\* What pull[d] becomes: idle, a pull at a covered position, or a page in the log.
Fine(d, p) ==
    /\ DOMAIN p = {"pc", "since", "last", "more", "trailing"}
    /\ p.pc # "idle" => Covers(d, p.since)
    /\ p.pc = "page" => p.last \in 0..Len(log)

LEMMA FineOnes ==
    ASSUME NEW d \in Device, NEW c, Covers(d, c)
    PROVE  Fine(d, Started(d, c)) /\ Fine(d, NoPull) /\ Fine(d, Ended(d, c))
BY EndedPull DEF Fine

LEMMA PageInLog ==
    ASSUME TypeInv, NEW since \in 0..Len(log)
    PROVE  Page(since).last \in 0..Len(log)
<1> DEFINE S == {Len(log), since + MaxPageSize}
<1>1. Len(log) \in Nat /\ MaxPageSize \in Nat
  BY LenProperties, PageAssumption DEF TypeInv
<1>2. \E x \in S : \A y \in S : x <= y
  <2>1. CASE Len(log) <= since + MaxPageSize
    BY <1>1, <2>1
  <2>2. CASE since + MaxPageSize <= Len(log)
    BY <1>1, <2>2
  <2> QED
    BY <1>1, <2>1, <2>2
<1>3. Min(S) \in S /\ Min(S) <= Len(log)
  <2>1. Min(S) = CHOOSE x \in S : \A y \in S : x <= y
    BY DEF Min
  <2> HIDE DEF S
  <2>2. Min(S) \in S /\ \A y \in S : Min(S) <= y
    BY <1>2, <2>1
  <2> QED
    BY <2>2 DEF S
<1>4. Min(S) \in 0..Len(log)
  BY <1>1, <1>3
<1> QED
  BY <1>4 DEF Page

LEMMA PullSteps ==
    ASSUME TypeInv, CoverInv, NEW d \in Device,
           triggerNow(d) \/ PullAnswered(d) \/ PullFailed(d) \/ PageDone(d) \/ Reopen(d)
    PROVE  /\ \E p : pull' = [pull EXCEPT ![d] = p] /\ Fine(d, p)
           /\ \E c : cursor' = [cursor EXCEPT ![d] = c] /\ Covers(d, c)
<1>0. /\ Covers(d, cursor[d]) /\ PullOf(d) /\ DOMAIN pull = Device
      /\ cursor \in [Device -> Nat] /\ Len(log) \in Nat
  BY LenProperties DEF CoverInv, TypeInv
<1>1. cursor' = cursor => \E c : cursor' = [cursor EXCEPT ![d] = c] /\ Covers(d, c)
  BY <1>0
<1>2. CASE triggerNow(d)
  <2>1. cursor' = cursor
        /\ \/ pull' = [pull EXCEPT ![d] = Started(d, cursor[d])]
           \/ /\ pull[d].pc # "idle"
              /\ pull' = [pull EXCEPT ![d] = [pull[d] EXCEPT !.trailing = TRUE]]
    BY <1>2 DEF triggerNow
  <2>2. Fine(d, Started(d, cursor[d]))
    BY <1>0, FineOnes
  <2>3. Fine(d, [pull[d] EXCEPT !.trailing = TRUE])
    BY <1>0 DEF PullOf, Fine
  <2> QED
    BY <1>1, <2>1, <2>2, <2>3
<1>3. CASE PullAnswered(d)
  <2> DEFINE page == Page(pull[d].since)
             q == [pull[d] EXCEPT !.pc = "page", !.last = page.last, !.more = page.more]
  <2>1. /\ pull[d].pc = "sent" /\ cursor' = cursor
        /\ \/ pull' = [pull EXCEPT ![d] = Ended(d, cursor[d])]
           \/ pull' = [pull EXCEPT ![d] = q]
    BY <1>3 DEF PullAnswered
  <2>2. Covers(d, pull[d].since) /\ pull[d].since \in 0..Len(log)
    BY <1>0, <2>1 DEF PullOf, Covers
  <2>3. page.last \in 0..Len(log)
    BY <2>2, PageInLog
  <2> HIDE DEF page
  <2>4. Fine(d, q)
    BY <1>0, <2>2, <2>3 DEF PullOf, Fine
  <2>5. Fine(d, Ended(d, cursor[d]))
    BY <1>0, FineOnes
  <2> HIDE DEF q
  <2> QED
    BY <1>1, <2>1, <2>4, <2>5
<1>4. CASE PullFailed(d)
  <2>1. cursor' = cursor /\ pull' = [pull EXCEPT ![d] = Ended(d, cursor[d])]
    BY <1>4 DEF PullFailed
  <2>2. Fine(d, Ended(d, cursor[d]))
    BY <1>0, FineOnes
  <2> QED
    BY <1>1, <2>1, <2>2
<1>5. CASE PageDone(d)
  <2> DEFINE c == pull[d].last
             q == [pull[d] EXCEPT !.pc = "sent"]
  <2>1. /\ pull[d].pc = "page" /\ pull[d].since = c /\ cursor' = [cursor EXCEPT ![d] = c]
        /\ \/ pull' = [pull EXCEPT ![d] = q]
           \/ pull' = [pull EXCEPT ![d] = Ended(d, c)]
    BY <1>5 DEF PageDone
  <2>2. Covers(d, c)
    BY <1>0, <2>1 DEF PullOf
  <2>3. Fine(d, q)
    BY <1>0, <2>1, <2>2 DEF PullOf, Fine
  <2>4. Fine(d, Ended(d, c))
    BY <2>2, FineOnes
  <2> HIDE DEF c, q
  <2> QED
    BY <2>1, <2>2, <2>3, <2>4
<1>6. CASE Reopen(d)
  <2>1. cursor' = cursor /\ pull' = [pull EXCEPT ![d] = Started(d, cursor[d])]
    BY <1>6 DEF Reopen
  <2>2. Fine(d, Started(d, cursor[d]))
    BY <1>0, FineOnes
  <2> QED
    BY <1>1, <2>1, <2>2
<1> QED
  BY <1>2, <1>3, <1>4, <1>5, <1>6

\* The event that onEvent stores is the next one.
LEMMA ApplyCovers ==
    ASSUME TypeInv, CoverInv, NEW d \in Device, ApplyNext(d)
    PROVE  /\ pull' = [pull EXCEPT ![d] = [pull[d] EXCEPT !.since = pull[d].since + 1]]
           /\ cursor' = cursor /\ log' = log
           /\ \A n : n = pull[d].since + 1 => Covers(d, n)'
<1> DEFINE s == pull[d].since
<1>1. /\ pull' = [pull EXCEPT ![d] = [pull[d] EXCEPT !.since = s + 1]]
      /\ cursor' = cursor /\ log' = log /\ pull[d].pc = "page"
  BY DEF ApplyNext, CoverInv
<1>2. s + 1 \in 1..Len(log) /\ s \in 0..Len(log) /\ Len(log) \in Nat
      /\ \A k \in 1..s : Has(d, log[k])
  BY NextInPage, LenProperties DEF Covers, TypeInv
<1>3. ASSUME NEW k \in 1..(s + 1) PROVE HasThen(d, log[k])
  <2>1. CASE k = s + 1
    BY <2>1, ApplyRows
  <2>2. CASE k # s + 1
    <3>1. k \in 1..s
      BY <1>2, <2>2
    <3>2. Has(d, log[k])
      BY <1>2, <3>1
    <3> QED
      BY <3>2, ApplyRows
  <2> QED
    BY <2>1, <2>2
<1>4. s + 1 \in 0..Len(log')
  BY <1>1, <1>2
<1>5. \A k \in 1..(s + 1) : HasThen(d, log'[k])
  BY <1>1, <1>3
<1> QED
  BY <1>1, <1>4, <1>5 DEF Covers, Has, HasThen


-----------------------------------------------------------------------------
(* The invariant *)

\* What was fine stays so.
LEMMA FineStays ==
    ASSUME TypeInv, CoverInv, [SyncNext]_syncVars, NEW d \in Device, NEW p, Fine(d, p)
    PROVE  Fine(d, p)'
<1>1. Len(log) \in Nat /\ Len(log') \in Nat /\ Len(log) <= Len(log')
  BY CoversStay DEF CoverInv
<1>2. p.pc # "idle" => Covers(d, p.since)'
  <2> DEFINE n == p.since
  <2> HIDE DEF n
  <2>1. Covers(d, n) => Covers(d, n)'
    BY CoversStay
  <2> QED
    BY <2>1 DEF Fine, n
<1> QED
  BY <1>1, <1>2 DEF Fine

LEMMA FineAfter ==
    ASSUME TypeInv, CoverInv, [SyncNext]_syncVars, NEW d \in Device, NEW p, NEW c,
           pull' = [pull EXCEPT ![d] = p], cursor' = [cursor EXCEPT ![d] = c],
           Fine(d, p)', Covers(d, c)'
    PROVE  CoverInv'
<1>1. c \in Nat /\ DOMAIN pull = Device /\ cursor \in [Device -> Nat]
  BY CoversStay DEF Covers, CoverInv
<1>2. cursor' \in [Device -> Nat] /\ DOMAIN pull' = Device
  BY <1>1
<1>3. ASSUME NEW e \in Device PROVE Covers(e, cursor[e])' /\ PullOf(e)'
  <2>1. CASE e = d
    <3>1. cursor'[e] = c /\ pull'[e] = p
      BY <1>1, <2>1
    <3> QED
      BY <2>1, <3>1 DEF Covers, PullOf, Fine
  <2>2. CASE e # d
    <3>0. PICK n, q : n = cursor[e] /\ q = pull[e]
      OBVIOUS
    <3>1. cursor'[e] = n /\ pull'[e] = q
      BY <1>1, <2>2, <3>0
    <3>2. Covers(e, n) /\ Fine(e, q)
      BY <3>0 DEF CoverInv, PullOf, Fine
    <3>3. Covers(e, n)' /\ Fine(e, q)'
      BY <3>2, CoversStay, FineStays
    <3> QED
      BY <3>1, <3>3 DEF Covers, PullOf, Fine
  <2> QED
    BY <2>1, <2>2
<1> QED
  BY <1>2, <1>3 DEF CoverInv


LEMMA SameCovers ==
    ASSUME TypeInv, CoverInv, [SyncNext]_syncVars, pull' = pull, cursor' = cursor
    PROVE  CoverInv'
<1> SUFFICES ASSUME NEW d \in Device PROVE Covers(d, cursor[d])' /\ PullOf(d)'
  BY DEF CoverInv
<1>0. PICK n, q : n = cursor[d] /\ q = pull[d]
  OBVIOUS
<1>1. cursor'[d] = n /\ pull'[d] = q /\ Covers(d, n) /\ Fine(d, q)
  BY <1>0 DEF CoverInv, PullOf, Fine
<1>2. Covers(d, n)' /\ Fine(d, q)'
  BY <1>1, CoversStay, FineStays
<1> QED
  BY <1>1, <1>2 DEF Covers, PullOf, Fine

LEMMA NextCovers ==
    ASSUME TypeInv, CoverInv, [SyncNext]_syncVars PROVE CoverInv'
<1>1. ASSUME NEW d \in Device,
             triggerNow(d) \/ PullAnswered(d) \/ PullFailed(d) \/ PageDone(d) \/ Reopen(d)
      PROVE  CoverInv'
  <2>1. PICK p, c : /\ pull' = [pull EXCEPT ![d] = p] /\ Fine(d, p)
                    /\ cursor' = [cursor EXCEPT ![d] = c] /\ Covers(d, c)
    BY <1>1, PullSteps
  <2>2. Fine(d, p)' /\ Covers(d, c)'
    BY <2>1, FineStays, CoversStay
  <2> QED
    BY <2>1, <2>2, FineAfter
<1>2. ASSUME NEW d \in Device, ApplyNext(d) PROVE CoverInv'
  <2>0. PICK n, p, c : /\ n = pull[d].since + 1 /\ c = cursor[d]
                       /\ p = [pull[d] EXCEPT !.since = n]
    OBVIOUS
  <2>1. /\ pull' = [pull EXCEPT ![d] = p] /\ cursor' = cursor /\ log' = log
        /\ Covers(d, n)'
    BY <1>2, <2>0, ApplyCovers
  <2>2. cursor' = [cursor EXCEPT ![d] = c] /\ Covers(d, c) /\ PullOf(d)
    BY <2>0, <2>1 DEF CoverInv
  <2>3. pull[d].pc = "page"
    BY <1>2 DEF ApplyNext
  <2>4. /\ DOMAIN p = {"pc", "since", "last", "more", "trailing"}
        /\ p.since = n /\ p.pc = "page" /\ p.last \in 0..Len(log)
    BY <2>0, <2>2, <2>3 DEF PullOf
  <2>5. Fine(d, p)'
    BY <2>1, <2>4 DEF Fine
  <2>6. Covers(d, c)'
    BY <2>2, CoversStay
  <2> QED
    BY <2>1, <2>2, <2>5, <2>6, FineAfter
<1>3. ASSUME \/ UNCHANGED syncVars
             \/ \E d \in Device : \E e : Give(d, e)
             \/ \E d \in Device, f \in Flush : Outbound(d, f)
             \/ \E batch \in late : LateArrival(batch) /\ UNCHANGED inbound
      PROVE  CoverInv'
  <2>1. pull' = pull /\ cursor' = cursor
    BY <1>3 DEF syncVars, inbound, Give, Outbound
  <2> QED
    BY <2>1, SameCovers
<1> QED
  BY <1>1, <1>2, <1>3 DEF SyncNext, Inbound

LEMMA InitCovers == SyncInit => TypeInv /\ CoverInv
<1> SUFFICES ASSUME SyncInit PROVE CoverInv
  BY InitTyped DEF SyncInit
<1>1. /\ cursor = [d \in Device |-> 0] /\ pull = [d \in Device |-> NoPull] /\ log = <<>>
  BY DEF SyncInit, Init
<1>2. \A d \in Device : Covers(d, 0)
  BY <1>1 DEF Covers
<1> QED
  BY <1>1, <1>2 DEF CoverInv, PullOf, NoPull

\* No event is skipped by every later pull: wherever a process dies in a page and
\* whatever the network loses, the cursor is behind what is stored
\* (InboundReplay.pull, SqliteStorage.appendEvent).
THEOREM CursorCovered == SyncSpec => []CursorCovers
<1>1. TypeInv /\ CoverInv /\ [SyncNext]_syncVars => (TypeInv /\ CoverInv)'
  BY StepTyped, NextCovers
<1>2. CoverInv => CursorCovers
  BY DEF CoverInv, Covers, Has, CursorCovers
<1> QED
  BY <1>1, <1>2, InitCovers, PTL DEF SyncSpec

-----------------------------------------------------------------------------
(* The order of a replay *)

\* A table whose rows have the seqs of a log, each once, replays as that log.
LEMMA OrderedAsLog ==
    ASSUME NEW table \in Seq(Row), NEW l \in Seq(Event),
           \A i \in DOMAIN table : table[i].seq \in 1..Len(l) /\ l[table[i].seq] = table[i].event,
           \A s \in 1..Len(l) : \E i \in DOMAIN table : table[i].seq = s,
           \A i, j \in DOMAIN table : table[i].seq = table[j].seq => i = j
    PROVE  replayOrder(table) = l
<1> DEFINE n == Len(l)
           D == DOMAIN table
           seqs == [i \in D |-> table[i].seq]
<1>1. n \in Nat /\ DOMAIN l = 1..n /\ Len(table) \in Nat /\ D = 1..Len(table)
  BY LenProperties
<1>2. /\ seqs \in [D -> 1..n] /\ \A i \in D : seqs[i] = table[i].seq
      /\ \A i, j \in D : seqs[i] = seqs[j] => i = j
      /\ \A s \in 1..n : \E i \in D : seqs[i] = s
  OBVIOUS
<1>3. /\ \A i, j \in D : Before(table, j, i) <=> seqs[j] < seqs[i]
      /\ replayOrder(table) = [k \in D |-> table[CHOOSE i \in D : Position(table, i) = k].event]
  BY <1>1, <1>2 DEF Before, replayOrder
<1> HIDE DEF seqs, n
<1>4. \A i \in D : Position(table, i) = seqs[i]
  <2> SUFFICES ASSUME NEW i \in D PROVE Position(table, i) = seqs[i]
    OBVIOUS
  <2> DEFINE B == {j \in D : Before(table, j, i)}
             s == seqs[i]
             g == [j \in B |-> seqs[j]]
  <2>1. s \in 1..n /\ s - 1 \in Int /\ 1..(s - 1) \subseteq 1..n
    <3>1. seqs[i] \in 1..n
      BY <1>2
    <3>2. ASSUME NEW q \in 1..n PROVE q - 1 \in Int /\ 1..(q - 1) \subseteq 1..n
      BY <1>1
    <3> HIDE DEF B, g
    <3> QED
      BY <3>1, <3>2
  <2>2. \A j \in B : j \in D /\ g[j] = seqs[j] /\ seqs[j] \in 1..(s - 1)
    BY <1>1, <1>2, <1>3, <2>1
  <2>3. \A r \in 1..(s - 1) : \E j \in B : g[j] = r
    <3> SUFFICES ASSUME NEW r \in 1..(s - 1) PROVE \E j \in B : g[j] = r
      OBVIOUS
    <3>1. PICK j \in D : seqs[j] = r
      BY <1>2, <2>1
    <3>2. seqs[j] < seqs[i]
      BY <2>1, <3>1
    <3> QED
      BY <1>3, <3>1, <3>2
  <2>4. g \in [B -> 1..(s - 1)] /\ \A j, k \in B : g[j] = g[k] => j = k
    BY <1>2, <2>2
  <2> HIDE DEF g, s, B
  <2>5. g \in Bijection(B, 1..(s - 1))
    BY <2>3, <2>4, Fun_IsBij
  <2>6. ExistsBijection(1..(s - 1), B)
    BY <2>5, Fun_BijTransitive, Fun_ExistsBijSymmetric DEF ExistsBijection
  <2>7. IsFiniteSet(1..(s - 1)) /\ Cardinality(1..(s - 1)) = s - 1
    BY <2>1, FS_Interval
  <2>8. Cardinality(B) = s - 1
    BY <2>6, <2>7, FS_Bijection
  <2> QED
    BY <2>1, <2>8 DEF Position, B, s
<1>5. Len(table) = n
  <2>1. seqs \in Bijection(1..Len(table), 1..n)
    <3> HIDE DEF D
    <3>1. seqs \in Bijection(D, 1..n)
      BY <1>2, Fun_IsBij
    <3> QED
      BY <1>1, <3>1
  <2>2. \A m \in Nat : IsFiniteSet(1..m) /\ Cardinality(1..m) = m
    BY FS_Interval
  <2>3. Cardinality(1..n) = Cardinality(1..Len(table))
    <3>1. ExistsBijection(1..Len(table), 1..n)
      BY <2>1 DEF ExistsBijection
    <3> QED
      BY <1>1, <2>2, <3>1, FS_Bijection
  <2>4. ASSUME NEW m \in Nat, NEW k \in Nat, Cardinality(1..m) = Cardinality(1..k) PROVE m = k
    BY <2>2, <2>4
  <2> QED
    BY <1>1, <2>3, <2>4
<1>6. ASSUME NEW k \in 1..n
      PROVE  table[CHOOSE i \in D : Position(table, i) = k].event = l[k]
  <2>1. PICK i \in D : seqs[i] = k
    BY <1>2
  <2>2. (CHOOSE j \in D : Position(table, j) = k) = i
    BY <1>2, <1>4, <2>1
  <2> QED
    BY <1>2, <2>1, <2>2
<1> DEFINE o == [k \in D |-> table[CHOOSE i \in D : Position(table, i) = k].event]
<1>7. o = l
  <2>1. DOMAIN o = 1..n /\ \A k \in 1..n : o[k] = l[k]
    BY <1>1, <1>5, <1>6
  <2>2. o = [k \in 1..n |-> o[k]] /\ l = [k \in 1..n |-> l[k]]
    <3>1. D = 1..n /\ l \in [1..n -> Event]
      BY <1>1, <1>5
    <3> HIDE DEF D
    <3> QED
      BY <3>1
  <2> HIDE DEF o
  <2> QED
    BY <2>1, <2>2
<1> QED
  BY <1>3, <1>7

-----------------------------------------------------------------------------
(* What else holds of the flushes goes on holding while events come in *)

\* A table has an event once.
Once(t) == \A i, j \in DOMAIN t : t[i].event = t[j].event => i = j

\* ... and none that was not emitted.
TableInv ==
    \A d \in Device :
        /\ Once(rows[d])
        /\ \A i \in DOMAIN rows[d] :
              rows[d][i].event.nonce <= emitted[rows[d][i].event.device]

LEMMA AppendedOnce ==
    ASSUME NEW t \in Seq(Row), NEW r \in Row, Once(t), \A i \in DOMAIN t : t[i].event # r.event
    PROVE  Once(Append(t, r))
<1> SUFFICES ASSUME NEW i \in DOMAIN Append(t, r), NEW j \in DOMAIN Append(t, r),
                    Append(t, r)[i].event = Append(t, r)[j].event
             PROVE  i = j
  BY DEF Once
<1>1. \A k \in DOMAIN Append(t, r) : \/ k \in DOMAIN t /\ Append(t, r)[k] = t[k]
                                     \/ k = Len(t) + 1 /\ Append(t, r)[k] = r
  BY AppendedRow
<1> QED
  BY <1>1 DEF Once

\* The replay stores an event it does not have, at its place in the log.
LEMMA AppliedRow ==
    ASSUME TypeInv, CoverInv, NEW d \in Device, ApplyNext(d)
    PROVE  \E s \in 1..Len(log) : \E r \in Row :
              /\ r = [event |-> log[s], seq |-> s] /\ s # 0
              /\ \A e \in Device : e # d => rows'[e] = rows[e]
              /\ \/ rows'[d] = rows[d]
                 \/ /\ \A i \in DOMAIN rows[d] : rows[d][i].event # log[s]
                    /\ rows'[d] = Append(rows[d], r)
<1>1. PICK s \in 1..Len(log) : s = pull[d].since + 1 /\ log[s] \in Event
  BY NextInPage
<1>2. rows' = [rows EXCEPT ![d] = Inserted(rows[d], log[s], s)] /\ rows \in [Device -> Seq(Row)]
  BY <1>1 DEF ApplyNext, TypeInv
<1>3. s \in Nat /\ s # 0
  OBVIOUS
<1>4. [event |-> log[s], seq |-> s] \in Row
  BY <1>1, <1>3 DEF Row
<1>5. \A e \in Device : rows'[e] = IF e = d THEN Inserted(rows[d], log[s], s) ELSE rows[e]
  BY <1>2
<1> QED
  BY <1>1, <1>3, <1>4, <1>5 DEF Inserted

LEMMA AppliedRows ==
    ASSUME TypeInv, CoverInv, NEW d \in Device, ApplyNext(d),
           NEW e \in Device, NEW i \in DOMAIN rows'[e]
    PROVE  \/ i \in DOMAIN rows[e] /\ rows'[e][i] = rows[e][i]
           \/ /\ rows'[e][i].seq \in 1..Len(log) /\ rows'[e][i].seq # 0
              /\ rows'[e][i].event = log[rows'[e][i].seq]
<1>1. PICK s \in 1..Len(log), r \in Row :
              /\ r = [event |-> log[s], seq |-> s] /\ s # 0
              /\ e # d => rows'[e] = rows[e]
              /\ rows'[d] = rows[d] \/ rows'[d] = Append(rows[d], r)
  BY AppliedRow
<1>2. rows[d] \in Seq(Row)
  BY DEF TypeInv
<1>3. CASE e = d /\ rows'[d] = Append(rows[d], r)
  <2>1. (i \in DOMAIN rows[d] /\ rows'[d][i] = rows[d][i]) \/ rows'[d][i] = r
    BY <1>2, <1>3, AppendedRow
  <2> QED
    BY <1>1, <1>3, <2>1
<1> QED
  BY <1>1, <1>3

\* The replay touches no queue, no flush and no request.
LEMMA ApplyKeeps ==
    ASSUME TypeInv, CoverInv, OwnInv, StampInv, NEW d \in Device, ApplyNext(d)
    PROVE  /\ OwnInv' /\ StampInv'
           /\ OnceInv => OnceInv'
           /\ KnownInv => KnownInv'
<1>1. UNCHANGED <<queue, emitted, emitting, flush, log, late>>
  BY DEF ApplyNext
<1>2. OwnInv'
  <2>1. \A e \in Device : Same(e)
    BY <1>1 DEF Same
  <2> QED
    BY <2>1, SameOwned DEF OwnInv
<1>3. OnceInv => OnceInv'
  BY <1>1 DEF OnceInv
<1>4. KnownInv => KnownInv'
  BY <1>1 DEF KnownInv, QueueKnown, CallKnown, Batch
<1>5. StampInv'
  <2>1. \A e \in Device, f \in Flush : StampOf(e, f)'
    BY <1>1 DEF StampInv, StampOf
  <2>2. ASSUME NEW e \in Device, NEW i \in DOMAIN rows'[e] PROVE Right(rows'[e][i], log')
    <3>1. CASE i \in DOMAIN rows[e] /\ rows'[e][i] = rows[e][i]
      BY <1>1, <3>1 DEF StampInv
    <3>2. CASE /\ rows'[e][i].seq \in 1..Len(log)
               /\ rows'[e][i].event = log[rows'[e][i].seq]
      BY <1>1, <3>2 DEF Right
    <3> QED
      BY <2>2, <3>1, <3>2, AppliedRows
  <2> QED
    BY <2>1, <2>2 DEF StampInv
<1> QED
  BY <1>2, <1>3, <1>4, <1>5

LEMMA ApplyWaits ==
    ASSUME TypeInv, CoverInv, RowInv, NEW d \in Device, ApplyNext(d) PROVE RowInv'
<1>1. UNCHANGED <<queue, emitting, flush>>
  BY DEF ApplyNext
<1>2. ASSUME NEW e \in Device, NEW i \in DOMAIN rows'[e], rows'[e][i].seq = 0
      PROVE  i \in DOMAIN rows[e] /\ rows'[e][i] = rows[e][i]
  BY <1>2, AppliedRows
<1>3. SyncedIsStamped'
  BY <1>1, <1>2 DEF RowInv, SyncedIsStamped
<1>4. ASSUME NEW e \in Device, NEW f \in Flush PROVE DoneOf(e, f)'
  BY <1>1, <1>2 DEF RowInv, DoneOf
<1> QED
  BY <1>3, <1>4 DEF RowInv

LEMMA LogEvents == ASSUME TypeInv, NEW s \in 1..Len(log) PROVE log[s] \in Event /\ log[s] \in ToSet(log)
BY LenProperties, ElementOfSeq DEF TypeInv, ToSet

LEMMA ApplyTable ==
    ASSUME TypeInv, CoverInv, KnownInv, TableInv, NEW d \in Device, ApplyNext(d) PROVE TableInv'
<1>1. emitted' = emitted /\ rows[d] \in Seq(Row)
  BY DEF ApplyNext, TypeInv
<1>2. ASSUME NEW e \in Device PROVE Once(rows'[e])
  <2>1. PICK s \in 1..Len(log), r \in Row :
              /\ r.event = log[s]
              /\ e # d => rows'[e] = rows[e]
              /\ \/ rows'[d] = rows[d]
                 \/ /\ \A i \in DOMAIN rows[d] : rows[d][i].event # log[s]
                    /\ rows'[d] = Append(rows[d], r)
    BY AppliedRow
  <2>2. rows'[e] = rows[e] => Once(rows'[e])
    BY DEF TableInv
  <2>3. CASE /\ e = d /\ \A i \in DOMAIN rows[d] : rows[d][i].event # log[s]
             /\ rows'[d] = Append(rows[d], r)
    BY <1>1, <2>1, <2>3, AppendedOnce DEF TableInv
  <2> QED
    BY <2>1, <2>2, <2>3
<1>3. ASSUME NEW e \in Device, NEW i \in DOMAIN rows'[e]
      PROVE  rows'[e][i].event.nonce <= emitted'[rows'[e][i].event.device]
  BY <1>1, <1>3, AppliedRows, LogEvents DEF TableInv, KnownInv
<1> QED
  BY <1>2, <1>3 DEF TableInv

LEMMA EmittedGrows ==
    ASSUME TypeInv, [Next]_vars, NEW d \in Device PROVE emitted[d] <= emitted'[d]
<1>1. emitted \in [Device -> 0..MaxEmits] /\ emitted[d] \in Int
  BY DEF TypeInv
<1>2. emitted' = emitted \/ \E e \in Device : Emit(e)
  <2>1. ASSUME NEW e \in Device, NEW f \in Flush, Enqueue(e, f) \/ FlushStep(e, f)
        PROVE  emitted' = emitted
    BY <2>1 DEF Enqueue, FlushStep, FlushSend, FlushAnswered, FlushRejected, FlushGivesUp,
                FlushStamp, FlushSynced, FlushFailed
  <2>2. ASSUME NEW e \in Device, Restart(e) PROVE emitted' = emitted
    BY <2>2 DEF Restart
  <2>3. ASSUME NEW batch \in late, LateArrival(batch) PROVE emitted' = emitted
    BY <2>3 DEF LateArrival
  <2> QED
    BY <2>1, <2>2, <2>3 DEF Next, vars
<1>3. ASSUME NEW e \in Device, Emit(e) PROVE emitted'[d] \in {emitted[d], emitted[d] + 1}
  BY <1>1, <1>3 DEF Emit
<1> QED
  BY <1>1, <1>2, <1>3

LEMMA NextTable == ASSUME TypeInv, TableInv, [Next]_vars PROVE TableInv'
<1> SUFFICES ASSUME NEW d \in Device
             PROVE  /\ Once(rows'[d])
                    /\ \A i \in DOMAIN rows'[d] :
                          rows'[d][i].event.nonce <= emitted'[rows'[d][i].event.device]
  BY DEF TableInv
<1>0. rows[d] \in Seq(Row)
  BY DEF TypeInv
<1>1. ASSUME NEW i \in DOMAIN rows[d]
      PROVE  rows[d][i].event.nonce <= emitted'[rows[d][i].event.device]
  <2>0. rows[d][i] \in Row
    BY <1>0, LenProperties, ElementOfSeq
  <2>1. rows[d][i].event \in Event
    BY <2>0 DEF Row
  <2> DEFINE v == rows[d][i].event
  <2>2. v.device \in Device /\ v.nonce \in Int /\ v.nonce <= emitted[v.device]
    BY <2>1 DEF Event, TableInv
  <2>3. \A g \in Device : /\ emitted[g] <= emitted'[g]
                          /\ emitted[g] \in Int /\ emitted'[g] \in Int
    <3>1. emitted \in [Device -> 0..MaxEmits] /\ emitted' \in [Device -> 0..MaxEmits]
      BY NextTyped DEF TypeInv
    <3> QED
      BY <3>1, EmittedGrows
  <2> HIDE DEF v
  <2>4. v.nonce <= emitted'[v.device]
    BY <2>2, <2>3
  <2> QED
    BY <2>4 DEF v
<1>2. CASE Kept(rows[d], rows'[d])
  BY <1>1, <1>2 DEF Kept, Once, TableInv
<1>3. CASE Emit(d) /\ rows'[d] = Append(rows[d], [event |-> NewEvent(d), seq |-> 0])
  <2> DEFINE r == [event |-> NewEvent(d), seq |-> 0]
  <2>1. /\ r \in Row /\ r.event = NewEvent(d) /\ NewEvent(d) \in Event
        /\ NewEvent(d).device = d /\ NewEvent(d).nonce = emitted[d] + 1
    BY <1>3, EmitTyped DEF Row, NewEvent
  <2>2. emitted[d] \in Int /\ emitted'[d] = emitted[d] + 1
    BY <1>3 DEF Emit, TypeInv
  <2> HIDE DEF r
  <2>3. \A i \in DOMAIN rows[d] : rows[d][i].event # r.event
    BY <2>1, <2>2 DEF TableInv
  <2>4. Once(Append(rows[d], r))
    BY <1>0, <2>1, <2>3, AppendedOnce DEF TableInv
  <2>5. \A i \in DOMAIN Append(rows[d], r) :
            (i \in DOMAIN rows[d] /\ Append(rows[d], r)[i] = rows[d][i])
            \/ Append(rows[d], r)[i] = r
    BY <1>0, <2>1, AppendedRow
  <2>6. rows'[d] = Append(rows[d], r)
    BY <1>3 DEF r
  <2>7. r.event.nonce <= emitted'[r.event.device]
    BY <2>1, <2>2
  <2> QED
    BY <1>1, <2>4, <2>5, <2>6, <2>7
<1> QED
  BY <1>2, <1>3, RowsChange

-----------------------------------------------------------------------------
(* The flushes among the pulls *)

FlushInv == TypeInv /\ CoverInv /\ OwnInv /\ StampInv /\ OnceInv

LEMMA NextFlushes == ASSUME FlushInv, [SyncNext]_syncVars PROVE FlushInv'
<1>0. TypeInv /\ CoverInv /\ OwnInv /\ StampInv /\ OnceInv
  BY DEF FlushInv
<1>1. TypeInv' /\ CoverInv'
  BY <1>0, StepTyped, NextCovers
<1>2. CASE [Next]_vars
  <2>1. OwnInv' /\ StampInv'
    BY <1>0, <1>2, NextOwned, NextStamps
  <2>2. OnceInv'
    BY <1>0, <1>2, QueueOnce, BatchOnce, LogOnce DEF OnceInv
  <2> QED
    BY <1>1, <2>1, <2>2 DEF FlushInv
<1>3. ASSUME NEW d \in Device, ApplyNext(d) PROVE FlushInv'
  BY <1>0, <1>1, <1>3, ApplyKeeps DEF FlushInv
<1> QED
  BY <1>2, <1>3, FlushOrRest

LEMMA InitFlushes == SyncInit => Init /\ FlushInv
<1> SUFFICES ASSUME SyncInit PROVE Init /\ FlushInv
  OBVIOUS
<1>1. Init /\ TypeInv /\ CoverInv
  BY InitCovers DEF SyncInit
<1>2. OnceInv
  BY <1>1 DEF Init, OnceInv, Distinct, IsInjective, Idle
<1> QED
  BY <1>1, <1>2, InitOwned, InitStamps DEF FlushInv

LEMMA FlushesHold == SyncSpec => []FlushInv
BY NextFlushes, InitFlushes, PTL DEF SyncSpec

\* The replay stores rows next to those the flushes stamp, and does not disturb
\* them: with any pulls in between, an event is in flight of one flush() call, and
\* a row's seq is its place in the relay's log (SqliteStorage.appendEvent,
\* OutboundFlush.flush).
THEOREM FlushesAmongPulls == SyncSpec => [](InFlightIsOwned /\ StampsAreRight)
<1>1. FlushInv => InFlightIsOwned /\ StampsAreRight
  BY OwnShows, StampShows DEF FlushInv
<1> QED
  BY <1>1, FlushesHold, PTL

\* With pulls in between, and devices that are opened again, the relay of this
\* model keeps to the abstract EventLog as it does for the flushes alone.
THEOREM SharedLogIsEventLog == SyncSpec => Relay!Spec
<1>1. SyncInit => Relay!Init
  BY DEF SyncInit, Init, Relay!Init, AsLog, VaultStatus
<1>2. FlushInv /\ FlushInv' /\ [SyncNext]_syncVars => [Relay!Next]_(Relay!logVars)
  <2> SUFFICES ASSUME FlushInv, FlushInv', [SyncNext]_syncVars
               PROVE  Relay!Grow \/ log' = log
    BY DEF Relay!Next, Relay!logVars, AsLog, VaultStatus
  <2>1. CASE [Next]_vars
    BY <2>1, LogGrows DEF FlushInv
  <2>2. CASE \E d \in Device : ApplyNext(d)
    BY <2>2 DEF ApplyNext
  <2> QED
    BY <2>1, <2>2, FlushOrRest
<1> QED
  BY <1>1, <1>2, FlushesHold, PTL DEF SyncSpec, Relay!Spec

\* With pushes of one event nothing is lost among the pulls either: what a device
\* stored because it pulled it is in the relay's log (VaultCommands.#emit,
\* SqliteStorage.appendEvent).
THEOREM NoneLostAmongPulls ==
    ASSUME MaxBatch = 1, "emit" \notin FragileAt
    PROVE  SyncSpec => []NoEventLost
<1>1. SyncInit => PlaceInv
  BY DEF SyncInit, Init, PlaceInv, NoEventLost, SingleOf, Idle
<1>2. FlushInv /\ PlaceInv /\ [SyncNext]_syncVars => PlaceInv'
  <2> SUFFICES ASSUME FlushInv, PlaceInv, [SyncNext]_syncVars PROVE PlaceInv'
    OBVIOUS
  <2>1. CASE [Next]_vars
    BY <2>1, NextPlaced DEF FlushInv
  <2>2. ASSUME NEW d \in Device, ApplyNext(d) PROVE PlaceInv'
    <3>1. UNCHANGED <<queue, emitting, flush, log>>
      BY <2>2 DEF ApplyNext
    <3>2. \A e \in Device, f \in Flush : SingleOf(e, f)'
      BY <3>1 DEF PlaceInv, SingleOf, Batch
    <3>3. ASSUME NEW e \in Device, NEW i \in DOMAIN rows'[e]
          PROVE  rows'[e][i].event \in Queued(queue[e]) \cup ToSet(emitting[e]) \cup ToSet(log)
      <4>1. CASE i \in DOMAIN rows[e] /\ rows'[e][i] = rows[e][i]
        BY <4>1 DEF PlaceInv, NoEventLost
      <4>2. CASE /\ rows'[e][i].seq \in 1..Len(log)
                 /\ rows'[e][i].event = log[rows'[e][i].seq]
        BY <4>2, LogEvents DEF FlushInv
      <4> QED
        BY <2>2, <3>3, <4>1, <4>2, AppliedRows DEF FlushInv
    <3> QED
      BY <3>1, <3>2, <3>3 DEF PlaceInv, NoEventLost
  <2> QED
    BY <2>1, <2>2, FlushOrRest
<1>3. PlaceInv => NoEventLost
  BY DEF PlaceInv
<1> QED
  BY <1>1, <1>2, <1>3, FlushesHold, PTL DEF SyncSpec

-----------------------------------------------------------------------------
(* What a device that is opened again shows *)

SyncInv == FlushInv /\ KnownInv /\ RowInv /\ TableInv

LEMMA NextSync == ASSUME Mild, SyncInv, [SyncNext]_syncVars PROVE SyncInv'
<1>0. /\ FlushInv /\ KnownInv /\ RowInv /\ TableInv
      /\ TypeInv /\ CoverInv /\ OwnInv /\ StampInv
  BY DEF SyncInv, FlushInv
<1>1. FlushInv'
  BY <1>0, NextFlushes
<1>2. CASE [Next]_vars
  <2>1. KnownInv' /\ TableInv'
    BY <1>0, <1>2, NextKnown, NextTable
  <2>2. SyncedIsStamped'
    BY <1>0, <1>2, RowsWait
  <2>3. \A d \in Device, f \in Flush : DoneOf(d, f)'
    BY <1>0, <1>2, NextDone DEF RowInv
  <2> QED
    BY <1>1, <2>1, <2>2, <2>3 DEF SyncInv, RowInv
<1>3. ASSUME NEW d \in Device, ApplyNext(d) PROVE SyncInv'
  BY <1>0, <1>1, <1>3, ApplyKeeps, ApplyWaits, ApplyTable DEF SyncInv
<1> QED
  BY <1>2, <1>3, FlushOrRest

LEMMA InitSync == SyncInit => SyncInv
<1> SUFFICES ASSUME Init, FlushInv PROVE SyncInv
  BY InitFlushes
<1>1. KnownInv
  BY InitKnown
<1>2. RowInv
  BY DEF Init, RowInv, SyncedIsStamped, DoneOf, Idle
<1>3. TableInv
  BY DEF Init, TableInv, Once
<1> QED
  BY <1>1, <1>2, <1>3 DEF SyncInv

\* The rows of a synced device have the seqs of the log, each once.
LEMMA SyncedAsLog == ASSUME SyncInv, NEW d \in Device, Synced(d) PROVE replayOrder(rows[d]) = log
<1> DEFINE t == rows[d]
<1>1. /\ t \in Seq(Row) /\ log \in Seq(Event) /\ DOMAIN log = 1..Len(log)
  BY LenProperties DEF SyncInv, FlushInv, TypeInv
<1>2. \A i \in DOMAIN t : t[i].seq # 0 /\ t[i].seq \in Nat
  <2>1. Queued(queue[d]) = {} /\ ToSet(emitting[d]) = {}
    BY DEF Synced, Queued, ToSet
  <2>2. \A i \in DOMAIN t : t[i] \in Row
    BY <1>1, LenProperties, ElementOfSeq
  <2> QED
    BY <2>1, <2>2 DEF SyncInv, FlushInv, RowInv, SyncedIsStamped, Row
<1>3. \A i \in DOMAIN t : t[i].seq \in 1..Len(log) /\ log[t[i].seq] = t[i].event
  BY <1>1, <1>2, LenProperties DEF SyncInv, FlushInv, StampInv, Right
<1>4. ASSUME NEW s \in 1..Len(log) PROVE \E i \in DOMAIN t : t[i].seq = s
  <2>1. PICK i \in DOMAIN t : t[i].event = log[s]
    BY DEF SyncInv, FlushInv, CoverInv, Covers, Has, Synced
  <2>2. t[i].seq = s
    BY <1>1, <1>3, <2>1 DEF SyncInv, FlushInv, OnceInv, IsInjective
  <2> QED
    BY <2>2
<1>5. ASSUME NEW i \in DOMAIN t, NEW j \in DOMAIN t, t[i].seq = t[j].seq PROVE i = j
  BY <1>3, <1>5 DEF SyncInv, FlushInv, TableInv, Once
<1> HIDE DEF t
<1>6. PICK table, l : table = t /\ l = log
  OBVIOUS
<1>7. replayOrder(table) = l
  BY <1>1, <1>3, <1>4, <1>5, <1>6, OrderedAsLog
<1> QED
  BY <1>6, <1>7 DEF t

\* If pushes fail only before they leave, and no process dies between a row and
\* its queue entry or between a push and its markSynced, a synced device that is
\* opened again replays the log itself, in its order, so that it shows what the
\* log says (SqliteStorage.allEvents, VaultProjectionStore.hydrate).
THEOREM ReopenedAsLog ==
    ASSUME "late" \notin Faults, {"emit", "sent", "stamp", "duplicate"} \cap FragileAt = {}
    PROVE  SyncSpec => []ReopenedShowsLog
<1>1. SyncInv /\ [SyncNext]_syncVars => SyncInv'
  BY NextSync DEF Mild
<1>2. SyncInv => ReopenedShowsLog
  BY SyncedAsLog DEF ReopenedShowsLog
<1> QED
  BY <1>1, <1>2, InitSync, PTL DEF SyncSpec

=============================================================================
