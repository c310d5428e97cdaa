--------------------------- MODULE DeviceLifecycle ---------------------------
(***************************************************************************)
(* How an installation of the desktop app gets into a vault and out of it: *)
(* create, restore, launch, pair another device, sign out, and the wipe    *)
(* when the vault was deleted; with the relay's device registry and the    *)
(* pairing store at the other end of a network that loses requests and     *)
(* answers.                                                                *)
(*                                                                         *)
(* The state on disk is the settings table and the events table.  A        *)
(* setting is written at once, and the process may die between any two     *)
(* writes; other work of the device does not come in between, because      *)
(* storage settles without returning to the event loop.  A setting that    *)
(* was never written is None, and a wiped one is Blank: the code tells     *)
(* them apart.                                                             *)
(*                                                                         *)
(* Events have no identity here: a position of a vault's log stands for    *)
(* the events of one push.  OutboundFlush and DeviceSync tell them apart.  *)
(*                                                                         *)
(* A definition Name_Variant just before Name is a mutated form of it, used *)
(* only by the mutant runs.                                                *)
(***************************************************************************)
EXTENDS Naturals, Sequences, FiniteSets

CONSTANTS
    Vault,        \* vaults; a vault's id and its key determine each other
    Id,           \* what generateDeviceId and generateDeviceAuthToken return
    None,         \* undefined
    Blank,        \* the empty string
    MaxRequests,  \* bound: requests on their way at once
    MaxLog,       \* bound: pushes that a vault's log takes
    MaxCrashes    \* bound: how often the process dies

ASSUME SentinelAssumption ==
    /\ None \notin Vault \cup Id \cup Nat
    /\ Blank \notin Vault \cup Id \cup Nat \cup {None}

VARIABLES
    (* the installation *)
    settings,  \* the settings table
    table,     \* the events table: the positions of the logs that it has
    writes,    \* settings that the running handler has still to write
    writing,   \* which handler that is: what follows its last write
    screen,    \* "off" (no process), "welcome" (with create and restore), "inbox"
               \* (any screen of a vault), "leaving" (SignOutConfirm, pending),
               \* "loading" (a screen of a vault without its services)
    services,  \* what buildServices captured
    (* elsewhere *)
    net,       \* requests on their way; mine: their sender still waits
    relay,     \* per vault, the status, the device registry, the length of the log
               \* and the positions of a VaultDeleted in it
    sealed,    \* the pairing store
    (* history *)
    used,      \* ids that were generated
    known,     \* vaults that were created: the user has their mnemonics
    opened,    \* vaults that this installation opened
    left,      \* devices that signed themselves out at the relay
    torn,      \* a restore or a sign-out died between its writes
    overlaid,  \* a restore is overwriting the settings of another vault, or died
               \* while it did
    crashes

local == <<settings, table, writes, writing, screen, services>>
history == <<used, known, opened, left, torn, overlaid, crashes>>
vars == <<local, net, relay, sealed, history>>

Unset == [key |-> None, id |-> None, device |-> None, name |-> None,
          token |-> None, queue |-> None, cursor |-> None, revocation |-> None]
NoServices == [vault |-> None, device |-> None, token |-> None, ready |-> FALSE]

Init ==
    /\ settings = Unset /\ table = {}
    /\ writes = <<>> /\ writing = "none"
    /\ screen = "off" /\ services = NoServices
    /\ net = {} /\ sealed = {}
    /\ relay = [v \in Vault |-> [status |-> "unborn", devices |-> {}, gone |-> {},
                              log |-> 0, deletions |-> {}]]
    /\ used = {} /\ known = {} /\ opened = {} /\ left = {}
    /\ torn = FALSE /\ overlaid = FALSE /\ crashes = 0

\* `!value`: undefined and the empty string alike.
Falsy(value) == value \in {None, Blank}

Running == screen # "off" /\ writing = "none"

\* RestoreFlow leaves its buttons enabled while a restoration waits: the user
\* may restore once more, or go back and create a vault.
AtWelcome == Running /\ screen = "welcome"

\* PairDevice has a button to close it while a pairing waits; SignOutConfirm has
\* none that works while the sign-out does.
InVault == Running /\ screen = "inbox"

Send(requests) ==
    /\ Cardinality(net \cup requests) <= MaxRequests
    /\ net' = net \cup requests

Request(kind, vault, auth, device, token) ==
    [kind |-> kind, vault |-> vault, auth |-> auth, device |-> device,
     token |-> token, key |-> None, since |-> 0, mine |-> TRUE]

-----------------------------------------------------------------------------
(* What the handlers write, in the order in which they write it *)

persistVault_KeyLast(v, device, name) ==
    << <<"id", v>>, <<"device", device>>, <<"name", name>>, <<"key", v>> >>
persistVault(v, device, name) ==
    << <<"key", v>>, <<"id", v>>, <<"device", device>>, <<"name", name>> >>

restoredVault_NoToken(v, device, token) == persistVault(v, device, "Restored device")
restoredVault(v, device, token) ==
    persistVault(v, device, "Restored device") \o << <<"token", token>> >>

wipeLocalVault ==
    << <<"key", Blank>>, <<"token", Blank>>, <<"id", Blank>>, <<"device", Blank>>,
       <<"name", Blank>>, <<"queue", Blank>> >>

\* runPendingRevocation: the wipe, then the flag.
signedOut_FlagFirst == << <<"revocation", Blank>> >> \o wipeLocalVault
signedOut == wipeLocalVault \o << <<"revocation", Blank>> >>

Writes(handler, sequence) ==
    /\ writing' = handler
    /\ writes' = sequence

Write_DropTable ==
    /\ writes # <<>>
    /\ settings' = [settings EXCEPT ![Head(writes)[1]] = Head(writes)[2]]
    /\ table' = IF Head(writes) = <<"key", Blank>> THEN {} ELSE table
    /\ writes' = Tail(writes)
    /\ UNCHANGED <<writing, screen, services, net, relay, sealed, history>>
Write ==
    /\ writes # <<>>
    /\ settings' = [settings EXCEPT ![Head(writes)[1]] = Head(writes)[2]]
    /\ writes' = Tail(writes)
    /\ UNCHANGED <<table, writing, screen, services, net, relay, sealed, history>>

-----------------------------------------------------------------------------
(* Into a vault *)

\* The setting as it is, or an id that is minted, if it is undefined.
ensureDeviceAuthToken_Undefined == {settings.token}
\* An empty token is a token.
ensureDeviceAuthToken == IF settings.token = None THEN Id \ used ELSE {settings.token}

\* buildServices; that start() pulls at once is TriggerPull.
buildServices ==
    \E token \in ensureDeviceAuthToken :
        /\ settings' = [settings EXCEPT !.token = token]
        /\ used' = used \cup ({token} \cap Id)
        /\ services' = [vault |-> settings.id, device |-> settings.device,
                        token |-> token, ready |-> FALSE]
        /\ opened' = opened \cup ({settings.id} \cap Vault)
        /\ screen' = "inbox"

\* loadVault
HasVault == settings.id # None /\ settings.device # None /\ settings.name # None

Launch ==
    /\ screen = "off"
    /\ IF HasVault
       THEN buildServices
       ELSE screen' = "welcome" /\ UNCHANGED <<settings, services, used, opened>>
    /\ UNCHANGED <<table, writes, writing, net, relay, sealed, known, left, torn, overlaid,
                   crashes>>

\* createVault; the user has verified the mnemonic: persistVault.
Create ==
    /\ AtWelcome
    /\ \E v \in Vault \ known, device \in Id \ used :
          /\ known' = known \cup {v}
          /\ used' = used \cup {device}
          /\ Writes("create", persistVault(v, device, "Mac"))
    /\ UNCHANGED <<settings, table, screen, services, net, relay, sealed, opened, left, torn,
                   overlaid, crashes>>

\* restoreFromMnemonic up to its claim: it writes nothing before the answer.
Restore ==
    /\ AtWelcome
    /\ \E v \in known, device \in Id \ used : \E token \in Id \ (used \cup {device}) :
          /\ used' = used \cup {device, token}
          /\ Send({Request("claim", v, None, device, token)})
    /\ UNCHANGED <<local, relay, sealed, known, opened, left, torn, overlaid, crashes>>

\* persistVault is done: the vault is opened.
Open ==
    /\ writing \in {"create", "restore"} /\ writes = <<>>
    /\ buildServices
    /\ writing' = "none"
    /\ overlaid' = FALSE
    /\ UNCHANGED <<table, writes, net, relay, sealed, known, left, torn, crashes>>

-----------------------------------------------------------------------------
(* In a vault *)

\* PendingEventQueue.enqueue: the first use reads the setting, and the empty
\* string that a wipe left there is no JSON, so that enqueue throws.
CanEnqueue == services.ready \/ settings.queue # Blank
Enqueued ==
    /\ settings' = [settings EXCEPT !.queue = "[...]"]
    /\ services' = [services EXCEPT !.ready = TRUE]

Push == Request("push", services.vault, services.token, services.device, services.token)

\* Any command: onPersisted starts a flush.
Command ==
    /\ InVault /\ CanEnqueue /\ Enqueued
    /\ Send({Push})
    /\ UNCHANGED <<table, writes, writing, screen, relay, sealed, history>>

\* scheduleVaultDeletion, cancelVaultDeletion: they need the key, and the app
\* gives them no onPersisted.
ScheduleOrCancelDeletion ==
    /\ InVault /\ ~Falsy(settings.key) /\ CanEnqueue /\ Enqueued
    /\ UNCHANGED <<table, writes, writing, screen, net, relay, sealed, history>>

\* A cursor that was never written and one that was wiped both read as 0.
readCursor == IF Falsy(settings.cursor) THEN 0 ELSE settings.cursor

Pull == [Request("pull", services.vault, services.token, services.device, services.token)
            EXCEPT !.since = readCursor]

\* InboundScheduler, whatever the screen, until it is stopped with its services.
TriggerPull ==
    /\ Running /\ services # NoServices
    /\ ~\E r \in net : r.kind = "pull" /\ r.device = services.device
    /\ Send({Pull})
    /\ UNCHANGED <<local, relay, sealed, history>>

\* executePairing: register the new device first.  The key that will be sealed
\* is the one that was read here.
executePairing ==
    /\ InVault
    /\ ~Falsy(settings.key) /\ ~Falsy(settings.id)
    /\ \E device \in Id \ used : \E token \in Id \ (used \cup {device}) :
          /\ used' = used \cup {device, token}
          /\ Send({[Request("register", settings.id, settings.token, device, token)
                       EXCEPT !.key = settings.key]})
    /\ UNCHANGED <<local, relay, sealed, known, opened, left, torn, overlaid, crashes>>

Seal(r) == [r EXCEPT !.kind = "seal"]

\* signOutThisDevice up to the flag.
signOutThisDevice ==
    /\ InVault
    /\ ~Falsy(settings.id) /\ ~Falsy(settings.token)
    /\ Writes("flag", << <<"revocation", services.device>> >>)
    /\ screen' = "leaving"
    /\ UNCHANGED <<settings, table, services, net, relay, sealed, history>>

Delete == Request("delete", settings.id, settings.token, services.device, services.token)

\* revokeDevice, whose flush is not awaited, and the DELETE.
RevokeSelf ==
    /\ writing = "flag" /\ writes = <<>>
    /\ IF CanEnqueue
       THEN Enqueued /\ Send({Push, Delete}) /\ UNCHANGED screen
       ELSE screen' = "inbox" /\ UNCHANGED <<settings, services, net>>
    /\ writing' = "none"
    /\ UNCHANGED <<table, writes, relay, sealed, history>>

\* The sign-out is over: setServices(null), the welcome screen.
SignedOut ==
    /\ writing = "wipe" /\ writes = <<>>
    /\ writing' = "none" /\ screen' = "welcome" /\ services' = NoServices
    /\ overlaid' = FALSE
    /\ UNCHANGED <<settings, table, writes, net, relay, sealed, used, known, opened, left, torn,
                   crashes>>

\* A page is over, perhaps with an executeVaultWipe in it: the screen stays and
\* the services with it.
PageDone ==
    /\ writing \in {"page", "execute"} /\ writes = <<>>
    /\ writing' = "none"
    /\ UNCHANGED <<settings, table, writes, screen, services, net, relay, sealed, history>>

-----------------------------------------------------------------------------
(* The relay *)

Pair(r) == <<r.device, r.token>>
Authorised(v, token) == \E p \in relay[v].devices : p[2] = token

Initialised_NotEmptied(v) == relay[v].devices # {}
\* Removing its last device does not make a vault unknown again.
Initialised(v) == relay[v].status # "unborn"

\* What the relay says to r, if r reaches it.  The route of a claim is not part
\* of this relay: it is modelled as the app uses it.
Answer(r) ==
    IF r.kind = "seal" THEN "ok"
    ELSE IF r.vault \notin Vault THEN "SCHEMA_VIOLATION"
    ELSE IF relay[r.vault].status = "dead" THEN "VAULT_DELETED"
    ELSE IF r.auth = Blank THEN "INVALID_TOKEN"
    ELSE IF ~Initialised(r.vault) THEN IF r.kind = "push" THEN "ok" ELSE "UNKNOWN_VAULT"
    ELSE IF r.kind # "claim" /\ ~Authorised(r.vault, r.auth) THEN "INVALID_TOKEN"
    ELSE IF r.kind = "delete" /\ ~\E p \in relay[r.vault].devices : p[1] = r.device
         THEN "UNKNOWN_DEVICE"
         ELSE "ok"

AddDevice(v, p) == [relay EXCEPT ![v].devices = @ \cup {p}]
RemoveDevice(v, device) ==
    [relay EXCEPT ![v].devices = {p \in @ : p[1] # device},
                  ![v].gone = @ \cup {device}]

\* The first push of a vault registers the device that sends it.
Stored(r) ==
    LET longer == [relay EXCEPT ![r.vault].log = @ + 1]
    IN  IF Initialised(r.vault)
        THEN longer
        ELSE [longer EXCEPT ![r.vault].status = "live", ![r.vault].devices = {Pair(r)}]

\* The bound on pushes; a VaultDeleted is none.
HasRoom(v) == relay[v].log < MaxLog + Cardinality(relay[v].deletions)

\* What the relay does for a request that it accepts.
Accept(r) ==
    /\ r.kind = "push" => HasRoom(r.vault)
    /\ relay' = CASE r.kind \in {"register", "claim"} -> AddDevice(r.vault, Pair(r))
                  [] r.kind = "delete" -> RemoveDevice(r.vault, r.device)
                  [] r.kind = "push"   -> Stored(r)
                  [] OTHER             -> relay
    /\ sealed' = IF r.kind = "seal" THEN sealed \cup {r} ELSE sealed
    /\ left' = IF r.kind = "delete" THEN left \cup {r.device} ELSE left

-----------------------------------------------------------------------------
(* Answers at the device *)

Unmoved == UNCHANGED <<settings, writes, writing>>

\* markSynced, markFailed: the queue is written through, also after a wipe.
QueueWritten ==
    settings' = [settings EXCEPT !.queue = "[...]"] /\ UNCHANGED <<writes, writing>>

\* A page: what the log has after the cursor of the pull.
Page(r) == (r.since + 1)..relay[r.vault].log

\* Whether that event of a log is a VaultDeleted.  It is not the last, if the
\* alarm that stored it died there and somebody pushed behind it.
IsDeletion(v, n) == n \in relay[v].deletions

\* executeVaultWipe acts if the event is signed with the key that the device has.
SeesDeleted(r) ==
    /\ \E n \in Page(r) : IsDeletion(r.vault, n)
    /\ settings.key = r.vault

\* Once the events of a page are stored: the cursor, after the wipe if there is one.
writeCursor(r) == << <<"cursor", relay[r.vault].log>> >>
pageApplied(r) ==
    IF SeesDeleted(r)
    THEN Writes("execute", wipeLocalVault \o << <<"cursor", Blank>> >> \o writeCursor(r))
    ELSE Writes("page", writeCursor(r))

\* The DELETE's answers that a sign-out goes on with: 200 and 404.
IsGone(answer) == answer \in {"ok", "UNKNOWN_VAULT", "UNKNOWN_DEVICE"}

HasPage(r, answer) == r.kind = "pull" /\ answer = "ok" /\ Page(r) # {}

React(r, answer) ==
    CASE r.kind = "push" -> QueueWritten
      [] r.kind = "delete" /\ IsGone(answer) ->
            Writes("wipe", signedOut) /\ UNCHANGED settings
      [] r.kind = "claim" /\ answer = "ok" ->
            Writes("restore", restoredVault(r.vault, r.device, r.token)) /\ UNCHANGED settings
      [] HasPage(r, answer) -> pageApplied(r) /\ UNCHANGED settings
      [] OTHER -> Unmoved

\* The events table has what the device emitted, from then on, and what it
\* pulled, but for a VaultDeleted.
TableAfter(r, answer) ==
    table \cup
        CASE r.kind = "push" /\ Answer(r) = "ok" -> {<<r.vault, relay[r.vault].log + 1>>}
          [] HasPage(r, answer) ->
                {<<r.vault, n>> : n \in {m \in Page(r) : ~IsDeletion(r.vault, m)}}
          [] OTHER -> {}

\* A sign-out that failed can be cancelled or tried again; one whose screen was
\* left for another has nothing to say there.
Stays == IF screen = "leaving" THEN "inbox" ELSE screen

\* A pairing that is done opens the settings, whatever the screen was.
Paired == IF services = NoServices THEN "loading" ELSE "inbox"

ScreenAfter(r, answer) ==
    CASE r.kind = "delete" /\ ~IsGone(answer) -> Stays
      [] r.kind = "seal" /\ answer = "ok"     -> Paired
      [] OTHER                                -> screen

\* Pairing goes on: the sealed payload follows the registration.
NetAfter_AnyAnswer(r, answer) ==
    (net \ {r}) \cup IF r.mine /\ r.kind = "register" THEN {Seal(r)} ELSE {}
NetAfter(r, answer) ==
    (net \ {r}) \cup
        IF r.mine /\ r.kind = "register" /\ answer = "ok" THEN {Seal(r)} ELSE {}

\* r reaches the relay; heard: so does the answer its sender.
Arrive(r, heard) ==
    LET answer == IF heard THEN Answer(r) ELSE "none"
    IN  /\ r.mine => writing = "none"
        /\ IF Answer(r) = "ok" THEN Accept(r) ELSE UNCHANGED <<relay, sealed, left>>
        /\ IF r.mine THEN React(r, answer) ELSE Unmoved
        /\ screen' = IF r.mine THEN ScreenAfter(r, answer) ELSE screen
        /\ net' = NetAfter(r, answer)
        /\ table' = TableAfter(r, answer)
        /\ overlaid' = (overlaid \/ (/\ r.mine /\ writing' = "restore"
                                    /\ settings.id \in Vault \ {r.vault}))
        /\ UNCHANGED <<services, used, known, opened, torn, crashes>>

Lose(r) ==
    /\ r.mine => writing = "none"
    /\ IF r.mine THEN React(r, "none") ELSE Unmoved
    /\ screen' = IF r.mine THEN ScreenAfter(r, "none") ELSE screen
    /\ net' = net \ {r}
    /\ UNCHANGED <<table, services, relay, sealed, history>>

-----------------------------------------------------------------------------
(* The rest of the world *)

\* The process dies: the disk stays, and what it sent is still on its way,
\* save what only reads.
Crash ==
    /\ crashes < MaxCrashes /\ screen # "off"
    /\ crashes' = crashes + 1
    /\ torn' = (torn \/ (writing \in {"restore", "wipe"} /\ writes # <<>>))
    /\ screen' = "off" /\ services' = NoServices
    /\ writing' = "none" /\ writes' = <<>>
    /\ net' = {[r EXCEPT !.mine = FALSE] : r \in {q \in net : q.kind # "pull"}}
    /\ UNCHANGED <<settings, table, relay, sealed, used, known, opened, left, overlaid>>

\* Another device of the vault removes one: not the device that this is.
OtherRevokes(v) ==
    /\ \E p, by \in relay[v].devices :
          by[1] # settings.device /\ relay' = RemoveDevice(v, p[1])
    /\ UNCHANGED <<local, net, sealed, history>>

\* Another device of the vault pushes.
OtherPushes(v) ==
    /\ HasRoom(v)
    /\ \E p \in relay[v].devices : p[1] # settings.device
    /\ relay' = [relay EXCEPT ![v].log = @ + 1]
    /\ UNCHANGED <<local, net, sealed, history>>

\* The deletion alarm: VaultDeleted is stored, then everything is wiped.  Only
\* after an eviction in between does a request come between the two; the alarm
\* that is delivered again stores another VaultDeleted.
VaultEnds(v) ==
    /\ \/ /\ relay[v].status \in {"live", "ending"} /\ relay[v].log <= MaxLog
          /\ relay' = [relay EXCEPT ![v].status = "ending", ![v].log = @ + 1,
                                    ![v].deletions = @ \cup {relay[v].log + 1}]
       \/ /\ relay[v].status = "ending"
          /\ relay' = [relay EXCEPT ![v].status = "dead", ![v].devices = {}, ![v].log = 0,
                                    ![v].deletions = {}]
    /\ UNCHANGED <<local, net, sealed, history>>

\* The TTL of the pairing store.
Expire(p) ==
    /\ sealed' = sealed \ {p}
    /\ UNCHANGED <<local, net, relay, history>>

-----------------------------------------------------------------------------

Next ==
    \/ Launch \/ Create \/ Restore \/ Open \/ Write
    \/ Command \/ ScheduleOrCancelDeletion \/ TriggerPull \/ executePairing
    \/ signOutThisDevice \/ RevokeSelf \/ SignedOut \/ PageDone
    \/ \E r \in net : Arrive(r, TRUE) \/ Arrive(r, FALSE) \/ Lose(r)
    \/ Crash
    \/ \E v \in Vault : OtherRevokes(v) \/ OtherPushes(v) \/ VaultEnds(v)
    \/ \E p \in sealed : Expire(p)

Spec == Init /\ [][Next]_vars
-----------------------------------------------------------------------------
(* Properties *)

\* Every variable has its type; an open vault has a token, if only an empty one.
TypeOK ==
    /\ settings \in [key : Vault \cup {None, Blank}, id : Vault \cup {None, Blank},
                     device : Id \cup {None, Blank}, name : {None, Blank, "Mac", "Restored device"},
                     token : Id \cup {None, Blank}, queue : {None, Blank, "[...]"},
                     cursor : Nat \cup {None, Blank}, revocation : Id \cup {None, Blank}]
    /\ table \subseteq Vault \X Nat
    /\ writing \in {"none", "create", "restore", "flag", "wipe", "page", "execute"}
    /\ screen \in {"off", "welcome", "inbox", "leaving", "loading"}
    /\ services # NoServices => /\ services.vault \in Vault \cup {Blank}
                                /\ services.device \in Id \cup {Blank}
                                /\ services.token \in Id \cup {Blank}
    /\ screen \in {"inbox", "leaving"} => services # NoServices
    /\ used \subseteq Id /\ known \subseteq Vault /\ opened \subseteq known /\ left \subseteq used
    /\ \A v \in Vault : /\ relay[v].status \in {"unborn", "live", "ending", "dead"}
                        /\ relay[v].devices \subseteq used \X used
                        /\ relay[v].status \in {"unborn", "dead"} => relay[v].devices = {}
                        /\ relay[v].log \in Nat /\ relay[v].deletions \subseteq Nat

\* persistVault and the wipes: at whatever write the process dies, and whatever
\* vault was created or restored after that, a launch never opens a vault with
\* the key of another, or with none that was ever written.  Excepted is a
\* restore that is answered when the user has left it and opened another vault.
NoForeignKey ==
    settings.id \in Vault /\ HasVault /\ ~overlaid => settings.key \in {settings.id, Blank}

\* executePairing: "when the new device unseals and starts POSTing under the
\* token, the relay must already accept it", unless somebody has removed the
\* device, or the vault, in the meantime.
SealedIsRegistered ==
    \A p \in sealed :
        LET v == relay[p.vault]
        IN  Pair(p) \in v.devices \/ p.device \in v.gone \/ v.status = "dead"

\* #handleRevokeDevice: no request that was sent before, and none that arrives
\* late, gives a removed device a place in the registry again.
RevokedStaysOut ==
    \A v \in Vault : \A p \in relay[v].devices : p[1] \notin relay[v].gone

\* signOutThisDevice: while a device that removed itself at the relay still has
\* its identity, the flag that tells the next launch so is on disk, wherever the
\* process died.
SignOutIsResumable ==
    settings.device \in left => settings.revocation = settings.device

\* buildServices, restoreFromMnemonic: the relay knows the token of an open
\* vault that it has, unless the device was removed.  A restore or a sign-out
\* that died between its writes is excepted: the next launch mints another token.
OpenIsAccepted ==
    LET v == services.vault
    IN  v \in Vault /\ ~torn =>
            \/ relay[v].status # "live"
            \/ services.device \in relay[v].gone
            \/ <<services.device, services.token>> \in relay[v].devices

\* makeInboundReplay, wipeLocalVault: the events table has every event up to the
\* cursor, whichever page, sign-out or wipe was interrupted.  A wipe keeps the
\* table, and a sign-out the cursor too; so this is claimed as long as the
\* installation has opened one vault only: the cursor of the first makes it skip
\* the events of a second.
FirstVaultIsCovered ==
    LET v == services.vault
    IN  v \in Vault /\ opened = {v} =>
            \A n \in 1..relay[v].log : n <= readCursor => <<v, n>> \in table \/ IsDeletion(v, n)
=============================================================================
