----------------------------- MODULE DeviceSync -----------------------------
(***************************************************************************)
(* Sync participants that share a vault: the desktop's commands, its       *)
(* outbound flush (OutboundFlush), its inbound replay and scheduler, and   *)
(* the read model each of them shows (Projection).                         *)
(*                                                                         *)
(* A command is applied to the read model at once and comes back with the  *)
(* log, like the events of other devices.  The page a pull returned is     *)
(* applied without returning to the event loop: only the death of the      *)
(* process comes between its events.                                       *)
(*                                                                         *)
(* A definition Name_Variant just before Name is a mutated form of it, used *)
(* only by the mutant runs.                                                *)
(***************************************************************************)
EXTENDS OutboundFlush, Projection

CONSTANTS
    Url,        \* canonical URLs
    Tag, Title, \* what the user types there
    Command,    \* which commands users give: event types of the item events
    MaxPageSize

ASSUME PageAssumption == MaxPageSize \in Nat \ {0}

VARIABLES
    body,    \* what the events say: a Projection event for each event emitted
    state,   \* per device, the read model
    cursor,  \* per device, the setting sync.inboundCursor
    pull     \* per device, the pull in progress and the trailing trigger

inbound == <<body, state, cursor, pull>>
syncVars == <<vars, inbound>>

NoPull == [pc |-> "idle", since |-> 0, last |-> 0, more |-> FALSE, trailing |-> FALSE]

SyncInit ==
    /\ Init
    /\ body = <<>>
    /\ state = [d \in Device |-> initialVaultState]
    /\ cursor = [d \in Device |-> 0]
    /\ pull = [d \in Device |-> NoPull]

\* The event loop of d is free.
LoopFree(d) == pull[d].pc # "page"

-----------------------------------------------------------------------------
(* Commands *)

\* timestamp and savedAt: the clocks agree on the order of the commands.
Now == Cardinality(DOMAIN body) + 1

\* addTag refuses a tag the item has; a chip is shown for each that it has.
TagEditor(i, item) ==
    {TagEvent("ItemTagged", i, t) : t \in Tag \ item.tags}
    \cup {TagEvent("ItemUntagged", i, t) : t \in item.tags}

\* What the detail pane offers for an item: only what would change it.
DetailPane(i, item) ==
    {ItemEvent(IF item.state = "inbox" THEN "ItemArchived" ELSE "ItemUnarchived", i),
     ItemEvent(IF item.liked THEN "ItemUnliked" ELSE "ItemLiked", i),
     ItemDeleted(i, Now)}
    \cup {ItemTitleEdited(i, title) : title \in Title \ {item.title}}
    \cup TagEditor(i, item)

\* save() mints a fresh item id; the other commands name an item that is shown.
CommandsOf(d) ==
    LET items == state[d].items
        shown == {i \in DOMAIN items : IsLive(items, i)}
        given == {ItemSaved(NewEvent(d), url, "", Now) : url \in Url}
                 \cup UNION {DetailPane(i, items[i]) : i \in shown}
    IN  {e \in given : e.type \in Command}

Give(d, e) ==
    /\ LoopFree(d)
    /\ Emit(d)
    /\ body' = Put(body, NewEvent(d), e)
    /\ state' = [state EXCEPT ![d] = apply(@, e)]
    /\ UNCHANGED <<cursor, pull>>

-----------------------------------------------------------------------------
(* InboundScheduler and InboundReplay.pull() *)

Started(d, since) == [NoPull EXCEPT !.pc = "sent", !.since = since]

\* The interval, a refresh: start a pull, or remember to do so.
triggerNow(d) ==
    /\ LoopFree(d)
    /\ pull' = [pull EXCEPT ![d] =
                   IF @.pc = "idle" THEN Started(d, cursor[d])
                                    ELSE [@ EXCEPT !.trailing = TRUE]]
    /\ UNCHANGED <<vars, body, state, cursor>>

\* What follows a pull that ended: the trailing trigger, or nothing.
Ended_Inflight(d, c) ==
    IF pull[d].trailing THEN Started(d, c) ELSE [NoPull EXCEPT !.pc = "stuck"]
Ended(d, c) == IF pull[d].trailing THEN Started(d, c) ELSE NoPull

\* GET /events: the events after `since`, at most a page of them, and whether
\* there are more.
Page(since) ==
    LET last == Min({Len(log), since + MaxPageSize})
    IN  [last |-> last, more |-> last < Len(log)]

PullAnswered_CursorFirst(d) ==
    LET page == Page(pull[d].since)
    IN  /\ pull[d].pc = "sent"
        /\ pull' = [pull EXCEPT ![d] =
                       IF page.last = @.since THEN Ended(d, cursor[d])
                       ELSE [@ EXCEPT !.pc = "page", !.last = page.last, !.more = page.more]]
        /\ cursor' = [cursor EXCEPT ![d] = IF page.last = pull[d].since THEN @ ELSE page.last]
        /\ UNCHANGED <<vars, body, state>>
\* An empty page ends the pull.
PullAnswered(d) ==
    LET page == Page(pull[d].since)
    IN  /\ pull[d].pc = "sent"
        /\ pull' = [pull EXCEPT ![d] =
                       IF page.last = @.since THEN Ended(d, cursor[d])
                       ELSE [@ EXCEPT !.pc = "page", !.last = page.last, !.more = page.more]]
        /\ UNCHANGED <<vars, body, state, cursor>>

PullFailed(d) ==
    /\ "rejected" \in Faults
    /\ pull[d].pc = "sent"
    /\ pull' = [pull EXCEPT ![d] = Ended(d, cursor[d])]
    /\ UNCHANGED <<vars, body, state, cursor>>

\* INSERT OR IGNORE on (device_id, client_nonce): a row the device already has
\* is left alone, its NULL seq too.
Inserted(table, event, seq) ==
    IF \E i \in DOMAIN table : table[i].event = event
    THEN table
    ELSE Append(table, [event |-> event, seq |-> seq])

\* onEvent for the next event of the page.
ApplyNext(d) ==
    LET seq == pull[d].since + 1
    IN  /\ pull[d].pc = "page"
        /\ seq <= pull[d].last
        /\ rows' = [rows EXCEPT ![d] = Inserted(@, log[seq], seq)]
        /\ state' = [state EXCEPT ![d] = apply(@, body[log[seq]])]
        /\ pull' = [pull EXCEPT ![d].since = seq]
        /\ UNCHANGED <<queue, emitted, emitting, flush, log, late, restarts, body, cursor>>

\* The page is applied: writeCursor, then the next page or the end.
PageDone(d) ==
    LET c == pull[d].last
    IN  /\ pull[d].pc = "page"
        /\ pull[d].since = c
        /\ cursor' = [cursor EXCEPT ![d] = c]
        /\ pull' = [pull EXCEPT ![d] = IF @.more THEN [@ EXCEPT !.pc = "sent"] ELSE Ended(d, c)]
        /\ UNCHANGED <<vars, body, state>>

-----------------------------------------------------------------------------
(* Restart *)

\* SELECT ... ORDER BY (seq IS NULL), seq, row_id.
Before(table, i, j) ==
    \/ table[i].seq # 0 /\ (table[j].seq = 0 \/ table[i].seq < table[j].seq)
    \/ table[i].seq = table[j].seq /\ i < j

Position(table, i) == Cardinality({j \in DOMAIN table : Before(table, j, i)}) + 1

replayOrder_RowId(table) == [k \in DOMAIN table |-> table[k].event]
replayOrder(table) ==
    [k \in DOMAIN table |-> table[CHOOSE i \in DOMAIN table : Position(table, i) = k].event]

\* VaultProjectionStore.hydrate: the reducer over the stored events.
replay(evs) == FoldLeft(LAMBDA s, event : apply(s, body[event]), initialVaultState, evs)

\* The read model is rebuilt from the events table, and the scheduler starts.
Reopen(d) ==
    /\ Restart(d)
    /\ state' = [state EXCEPT ![d] = replay(replayOrder(rows[d]))]
    /\ pull' = [pull EXCEPT ![d] = Started(d, cursor[d])]
    /\ UNCHANGED <<body, cursor>>

-----------------------------------------------------------------------------

Outbound(d, f) ==
    /\ LoopFree(d)
    /\ Enqueue(d, f) \/ FlushStep(d, f)
    /\ UNCHANGED inbound

Inbound(d) == PullAnswered(d) \/ PullFailed(d) \/ ApplyNext(d) \/ PageDone(d)

SyncNext ==
    \/ \E d \in Device :
          \/ \E e \in CommandsOf(d) : Give(d, e)
          \/ (\E f \in Flush : Outbound(d, f))
          \/ triggerNow(d) \/ Inbound(d) \/ Reopen(d)
    \/ \E batch \in late : LateArrival(batch) /\ UNCHANGED inbound

SyncSpec == SyncInit /\ [][SyncNext]_syncVars

\* The desktop pulls on an interval, and what was begun goes on.
SyncFairness ==
    \A d \in Device : /\ WF_syncVars(Inbound(d))
                      /\ WF_syncVars(triggerNow(d) /\ pull[d].pc = "idle")
                      /\ \A f \in Flush : WF_syncVars(Outbound(d, f))

FairSyncSpec == SyncSpec /\ SyncFairness
-----------------------------------------------------------------------------
(* Properties *)

\* The cursor never passes an event the device has not stored, whatever died in
\* the middle of a page: no event is skipped by every later pull.
CursorCovers ==
    \A d \in Device : \A s \in 1..cursor[d] :
        \E i \in DOMAIN rows[d] : rows[d][i].event = log[s]

\* d has nothing left to send and has pulled the whole log.
Synced(d) == /\ queue[d] = <<>> /\ emitting[d] = <<>>
             /\ cursor[d] = Len(log) /\ pull[d].pc # "page"

\* What the user sees: the live items, without their ids.
Shown(s) == {s.items[i] : i \in {j \in DOMAIN s.items : IsLive(s.items, j)}}

\* "Items emerge from replaying the log in seq order": a device that is synced
\* shows what the log says.
SyncedShowsLog ==
    \A d \in Device : Synced(d) => Shown(state[d]) = Shown(replay(log))

\* A synced device that is opened again shows what the log says.
ReopenedShowsLog ==
    \A d \in Device : Synced(d) => Shown(replay(replayOrder(rows[d]))) = Shown(replay(log))

\* Every event the relay stored reaches every device.
EventsSpread ==
    \A d \in Device, n \in 1..(Cardinality(Device) * MaxEmits) :
        Len(log) >= n ~> cursor[d] >= n
=============================================================================
