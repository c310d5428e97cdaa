-------------------------- MODULE PendingEventQueue --------------------------
(***************************************************************************)
(* packages/core/src/pending-event-queue: the write-ahead queue, as the    *)
(* sequence of its entries.  An entry is named by its event (an event is   *)
(* enqueued once); attemptCount and lastAttemptAt are never read and left  *)
(* out.  Every mutation persists the whole queue before it returns, and    *)
(* the desktop's adapter writes it in one synchronous SQLite statement, so *)
(* the stored queue and the one in memory are one.                         *)
(*                                                                         *)
(* A definition Name_Variant just before Name is a mutated form of it, used *)
(* only by the mutant runs.                                                *)
(***************************************************************************)
EXTENDS Naturals, Sequences, FiniteSets

QueueStatus == {"pending", "in-flight", "failed"}

\* SelectSeq by position, a form that can be reasoned about: an entry that is
\* kept comes after as many others as are kept before it.
Rank(kept, i) == Cardinality({j \in kept : j <= i})
Select(q, kept) ==
    [k \in 1..Cardinality(kept) |-> q[CHOOSE i \in kept : Rank(kept, i) = k]]

\* First access after a restart: entries in flight become pending again.
hydrate_Drop(q) == SelectSeq(q, LAMBDA x : x.status # "in-flight")
hydrate(q) ==
    [i \in DOMAIN q |->
        IF q[i].status = "in-flight" THEN [q[i] EXCEPT !.status = "pending"] ELSE q[i]]

enqueue_NoStatus(q, event) == Append(q, [event |-> event])
enqueue(q, event) == Append(q, [event |-> event, status |-> "pending"])

\* The first entries, in enqueue order, that no flush has in flight.
peek_All(q, limit) ==
    SubSeq(q, 1, IF Len(q) < limit THEN Len(q) ELSE limit)
peek(q, limit) ==
    LET visible == Select(q, {i \in DOMAIN q : q[i].status \in {"pending", "failed"}})
    IN  SubSeq(visible, 1, IF Len(visible) < limit THEN Len(visible) ELSE limit)

mark(q, events, status) ==
    [i \in DOMAIN q |->
        IF q[i].event \in events THEN [q[i] EXCEPT !.status = status] ELSE q[i]]
markInFlight(q, events) == mark(q, events, "in-flight")
markFailed(q, events) == mark(q, events, "failed")

markSynced_All(q, events) == <<>>
markSynced(q, events) == Select(q, {i \in DOMAIN q : q[i].event \notin events})

Queued(q) == {q[i].event : i \in DOMAIN q}
=============================================================================
