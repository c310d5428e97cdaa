----------------------- MODULE DeviceLifecycleProofs -----------------------
(***************************************************************************)
(* Proofs about an installation's way into and out of vaults, for any      *)
(* vaults and ids and any number of requests on their way, pushes and      *)
(* deaths of the process.  Spec keeps these, each with those before it:    *)
(*                                                                         *)
(*   TypeInv      every variable has its type; what a setting may hold     *)
(*   SealInv      what is sealed, or about to be, is registered or gone    *)
(*   FreshInv     nobody but a pending registration knows its device       *)
(*   ScreenInv    which screens have services, and that a dead process     *)
(*                waits for nothing                                        *)
(*   PlanInv      which writes of which handler are on disk, which are not *)
(*   KeyInv       the key on disk is that of the vault that would open     *)
(*   BlankInv     an empty device id comes with an empty token only        *)
(*   RegistryInv  who is in the registry, and who has left it              *)
(*   LeaveInv     a device that leaves has its flag on disk                *)
(*   BirthInv     a vault that nobody created is unknown to the relay, and  *)
(*                only an ending one has a VaultDeleted in its log         *)
(*   HomeInv      the relay knows the device that runs, and the one that   *)
(*                the settings would start                                 *)
(*   PullInv      only vaults that were opened are pulled                  *)
(*   CursorInv    what the table has up to any cursor that is on disk, on  *)
(*                its way in a pull, or still to be written                *)
(***************************************************************************)
EXTENDS DeviceLifecycle, TLAPS

Fields == {"key", "id", "device", "name", "token", "queue", "cursor", "revocation"}
VaultValues == Vault \cup {None, Blank}
IdValues == Id \cup {None, Blank}
Values == VaultValues \cup IdValues \cup Nat \cup {"Mac", "Restored device", "[...]"}

\* What a setting may hold, if these are the vaults and ids that there are.
HeldBy(f, vaults, ids) ==
    IF f \in {"key", "id"} THEN vaults \cup {None, Blank}
    ELSE IF f \in {"device", "token", "revocation"} THEN ids \cup {None, Blank}
    ELSE IF f = "name" THEN {None, Blank, "Mac", "Restored device"}
    ELSE IF f = "queue" THEN {None, Blank, "[...]"}
    ELSE Nat \cup {None, Blank}
MayHold(f) == HeldBy(f, known, used)

Plan(vaults, ids) ==
    {s \in Seq(Fields \X Values) : \A i \in 1..Len(s) : s[i][2] \in HeldBy(s[i][1], vaults, ids)}

Message ==
    [kind : {"claim", "push", "pull", "register", "seal", "delete"},
     vault : known \cup {None, Blank}, auth : used \cup {None, Blank},
     device : used \cup {None, Blank}, token : used \cup {None, Blank},
     key : known \cup {None, Blank}, since : Nat, mine : BOOLEAN]

DiskTyped ==
    /\ settings \in [Fields -> Values]
    /\ \A f \in Fields : settings[f] \in MayHold(f)

PlanTyped == writes \in Plan(known, used)

ServicesTyped ==
    services \in [vault : known \cup {None, Blank}, device : used \cup {None, Blank},
                  token : used \cup {None, Blank}, ready : BOOLEAN]

NetTyped == net \subseteq Message /\ sealed \subseteq Message

Vaults == [status : {"unborn", "live", "ending", "dead"},
           devices : SUBSET ((used \cup {None, Blank}) \X (used \cup {None, Blank})),
           gone : SUBSET (used \cup {None, Blank}), log : Nat, deletions : SUBSET Nat]

RelayTyped == relay \in [Vault -> Vaults]

TypeInv ==
    /\ DiskTyped /\ PlanTyped /\ ServicesTyped /\ NetTyped /\ RelayTyped
    /\ table \subseteq Vault \X Nat
    /\ used \subseteq Id /\ known \subseteq Vault /\ opened \subseteq known
    /\ left \subseteq used \cup {None, Blank}

-----------------------------------------------------------------------------
(* Types *)

\* History only grows.
LEMMA Grows ==
    ASSUME Next PROVE used \subseteq used' /\ known \subseteq known'
<1>1. ASSUME buildServices PROVE used \subseteq used'
  BY <1>1 DEF buildServices
<1>2. CASE Launch
  BY <1>1, <1>2 DEF Launch
<1>3. CASE Create
  BY <1>3 DEF Create
<1>4. CASE Restore
  BY <1>4 DEF Restore
<1>5. CASE Open
  BY <1>1, <1>5 DEF Open
<1>6. CASE executePairing
  BY <1>6 DEF executePairing
<1>7. ASSUME NEW r \in net, Arrive(r, TRUE) \/ Arrive(r, FALSE) \/ Lose(r)
      PROVE used' = used /\ known' = known
  BY <1>7 DEF Arrive, Lose, history
<1>8. CASE Write \/ Command \/ ScheduleOrCancelDeletion \/ TriggerPull \/ signOutThisDevice
            \/ RevokeSelf \/ SignedOut \/ PageDone \/ Crash
  BY <1>8 DEF Write, Command, ScheduleOrCancelDeletion, TriggerPull, signOutThisDevice,
              RevokeSelf, SignedOut, PageDone, Crash, history
<1>9. CASE \E v \in Vault : OtherRevokes(v) \/ OtherPushes(v) \/ VaultEnds(v)
  BY <1>9 DEF OtherRevokes, OtherPushes, VaultEnds, history
<1>10. CASE \E p \in sealed : Expire(p)
  BY <1>10 DEF Expire, history
<1> QED
  BY <1>2, <1>3, <1>4, <1>5, <1>6, <1>7, <1>8, <1>9, <1>10 DEF Next

\* So what was typed, and stays, is still typed.
LEMMA Kept ==
    ASSUME used \subseteq used', known \subseteq known'
    PROVE  /\ \A f : MayHold(f) \subseteq MayHold(f)'
           /\ Message \subseteq Message' /\ Vaults \subseteq Vaults'
           /\ DiskTyped /\ settings' = settings => DiskTyped'
           /\ PlanTyped /\ writes' = writes => PlanTyped'
           /\ ServicesTyped /\ services' = services => ServicesTyped'
           /\ NetTyped /\ net' \subseteq net /\ sealed' \subseteq sealed => NetTyped'
           /\ RelayTyped /\ relay' = relay => RelayTyped'
<1>1. \A f : MayHold(f) \subseteq MayHold(f)'
  BY DEF MayHold, HeldBy
<1>2. Message \subseteq Message'
  BY DEF Message
<1>3. Vaults \subseteq Vaults'
  BY DEF Vaults
<1>4. DiskTyped /\ settings' = settings => DiskTyped'
  BY <1>1 DEF DiskTyped
<1>5. PlanTyped /\ writes' = writes => PlanTyped'
  <2> SUFFICES ASSUME PlanTyped, writes' = writes PROVE PlanTyped'
    OBVIOUS
  <2>1. \A i \in 1..Len(writes) : writes[i][2] \in HeldBy(writes[i][1], known', used')
    BY <1>1 DEF PlanTyped, Plan, MayHold
  <2> QED
    BY <2>1 DEF PlanTyped, Plan
<1>6. ServicesTyped /\ services' = services => ServicesTyped'
  BY DEF ServicesTyped
<1>7. NetTyped /\ net' \subseteq net /\ sealed' \subseteq sealed => NetTyped'
  BY <1>2 DEF NetTyped
<1>8. RelayTyped /\ relay' = relay => RelayTyped'
  BY <1>3 DEF RelayTyped
<1> QED
  BY <1>1, <1>2, <1>3, <1>4, <1>5, <1>6, <1>7, <1>8

LEMMA HeldIsValue ==
    ASSUME used \subseteq Id, known \subseteq Vault, NEW f \in Fields PROVE MayHold(f) \subseteq Values
BY DEF MayHold, HeldBy, Values, VaultValues, IdValues

\* Writing one setting.
LEMMA SettingWritten ==
    ASSUME TypeInv, used \subseteq used', known \subseteq known', used' \subseteq Id, known' \subseteq Vault,
           NEW f \in Fields, NEW x \in MayHold(f)',
           settings' = [settings EXCEPT ![f] = x]
    PROVE  DiskTyped'
<1>1. x \in Values
  BY DEF MayHold, HeldBy, Values, VaultValues, IdValues
<1>2. settings' \in [Fields -> Values]
  BY <1>1 DEF TypeInv, DiskTyped
<1>3. \A g \in Fields : settings[g] \in MayHold(g)'
  BY Kept DEF TypeInv, DiskTyped
<1>4. \A g \in Fields : settings'[g] = IF g = f THEN x ELSE settings[g]
  BY DEF TypeInv, DiskTyped
<1> QED
  BY <1>2, <1>3, <1>4 DEF DiskTyped

\* Each field of the settings.
LEMMA SettingsFields ==
    ASSUME TypeInv
    PROVE  /\ settings.key \in known \cup {None, Blank} /\ settings.id \in known \cup {None, Blank}
           /\ settings.device \in used \cup {None, Blank} /\ settings.token \in used \cup {None, Blank}
           /\ settings.revocation \in used \cup {None, Blank}
           /\ settings.name \in {None, Blank, "Mac", "Restored device"}
           /\ settings.queue \in {None, Blank, "[...]"}
           /\ settings.cursor \in Nat \cup {None, Blank}
<1>1. settings \in [Fields -> Values] /\ \A f \in Fields : settings[f] \in MayHold(f)
  BY DEF TypeInv, DiskTyped
<1> QED
  BY <1>1 DEF Fields, MayHold, HeldBy

LEMMA QueueTyped ==
    ASSUME TypeInv, used \subseteq used', known \subseteq known', used' \subseteq Id, known' \subseteq Vault,
           settings' = [settings EXCEPT !.queue = "[...]"]
    PROVE  DiskTyped'
<1>1. "queue" \in Fields
  BY DEF Fields
<1>2. "[...]" \in MayHold("queue")'
  BY DEF MayHold, HeldBy
<1> QED
  BY <1>1, <1>2, SettingWritten

LEMMA TokenTyped ==
    ASSUME TypeInv, used \subseteq used', known \subseteq known', used' \subseteq Id, known' \subseteq Vault,
           NEW x \in used' \cup {None, Blank},
           settings' = [settings EXCEPT !.token = x]
    PROVE  DiskTyped'
<1>1. "token" \in Fields
  BY DEF Fields
<1>2. x \in MayHold("token")'
  BY DEF MayHold, HeldBy
<1> QED
  BY <1>1, <1>2, SettingWritten

(* The handlers' writes *)

LEMMA WrittenOut ==
    ASSUME NEW v, NEW d, NEW t, NEW n, NEW m
    PROVE  /\ Len(persistVault(v, d, m)) = 4
           /\ persistVault(v, d, m)[1] = <<"key", v>> /\ persistVault(v, d, m)[2] = <<"id", v>>
           /\ persistVault(v, d, m)[3] = <<"device", d>> /\ persistVault(v, d, m)[4] = <<"name", m>>
           /\ Len(wipeLocalVault) = 6
           /\ wipeLocalVault[1] = <<"key", Blank>> /\ wipeLocalVault[2] = <<"token", Blank>>
           /\ wipeLocalVault[3] = <<"id", Blank>> /\ wipeLocalVault[4] = <<"device", Blank>>
           /\ wipeLocalVault[5] = <<"name", Blank>> /\ wipeLocalVault[6] = <<"queue", Blank>>
BY DEF persistVault, wipeLocalVault

Entries(vaults, ids) == {e \in Fields \X Values : e[2] \in HeldBy(e[1], vaults, ids)}

LEMMA PlanIsSeq ==
    ASSUME NEW V, NEW I PROVE Plan(V, I) = Seq(Entries(V, I))
<1>1. ASSUME NEW s \in Plan(V, I) PROVE s \in Seq(Entries(V, I))
  <2>1. s \in Seq(Fields \X Values) /\ \A i \in 1..Len(s) : s[i] \in Entries(V, I)
    BY <1>1 DEF Plan, Entries
  <2> QED
    BY <2>1
<1>2. ASSUME NEW s \in Seq(Entries(V, I)) PROVE s \in Plan(V, I)
  <2>1. s \in Seq(Fields \X Values) /\ \A i \in 1..Len(s) : s[i][2] \in HeldBy(s[i][1], V, I)
    BY <1>2 DEF Entries
  <2> QED
    BY <2>1 DEF Plan
<1> QED
  BY <1>1, <1>2

LEMMA EntriesTyped ==
    ASSUME NEW V, NEW I, V \subseteq Vault, I \subseteq Id,
           NEW v \in V \cup {None, Blank}, NEW d \in I \cup {None, Blank}, NEW n \in Nat \cup {None, Blank}
    PROVE  /\ <<"key", v>> \in Entries(V, I) /\ <<"id", v>> \in Entries(V, I)
           /\ <<"device", d>> \in Entries(V, I) /\ <<"token", d>> \in Entries(V, I)
           /\ <<"revocation", d>> \in Entries(V, I) /\ <<"cursor", n>> \in Entries(V, I)
           /\ \A m \in {None, Blank, "Mac", "Restored device"} : <<"name", m>> \in Entries(V, I)
           /\ <<"queue", Blank>> \in Entries(V, I)
BY DEF Entries, HeldBy, Fields, Values, VaultValues, IdValues

LEMMA PlansTyped ==
    ASSUME NEW V, NEW I, V \subseteq Vault, I \subseteq Id,
           NEW v \in V, NEW d \in I \cup {None, Blank}, NEW t \in I \cup {None, Blank},
           NEW x \in I \cup {None, Blank}, NEW n \in Nat
    PROVE  /\ persistVault(v, d, "Mac") \in Plan(V, I)
           /\ restoredVault(v, d, t) \in Plan(V, I)
           /\ signedOut \in Plan(V, I)
           /\ << <<"revocation", x>> >> \in Plan(V, I)
           /\ << <<"cursor", n>> >> \in Plan(V, I)
           /\ wipeLocalVault \o << <<"cursor", Blank>> >> \o << <<"cursor", n>> >> \in Plan(V, I)
<1> DEFINE E == Entries(V, I)
<1>1. /\ <<"key", v>> \in E /\ <<"id", v>> \in E /\ <<"device", d>> \in E /\ <<"token", t>> \in E
      /\ <<"name", "Mac">> \in E /\ <<"name", "Restored device">> \in E
      /\ <<"revocation", x>> \in E /\ <<"cursor", n>> \in E
  BY EntriesTyped
<1>2. /\ <<"key", Blank>> \in E /\ <<"id", Blank>> \in E /\ <<"device", Blank>> \in E
      /\ <<"token", Blank>> \in E /\ <<"name", Blank>> \in E /\ <<"queue", Blank>> \in E
      /\ <<"revocation", Blank>> \in E /\ <<"cursor", Blank>> \in E
  BY EntriesTyped
<1> HIDE DEF E
<1>3. \A m \in {"Mac", "Restored device"} : persistVault(v, d, m) \in Seq(E)
  <2> SUFFICES ASSUME NEW m, <<"name", m>> \in E PROVE persistVault(v, d, m) \in Seq(E)
    BY <1>1
  <2>1. \A a, b, c, e \in E : <<a, b, c, e>> \in Seq(E)
    OBVIOUS
  <2>2. << <<"key", v>>, <<"id", v>>, <<"device", d>>, <<"name", m>> >> \in Seq(E)
    BY <1>1, <2>1
  <2> QED
    BY <2>2 DEF persistVault
<1>4. wipeLocalVault \in Seq(E)
  BY <1>2 DEF wipeLocalVault
<1>5. /\ << <<"token", t>> >> \in Seq(E) /\ << <<"revocation", x>> >> \in Seq(E)
      /\ << <<"cursor", n>> >> \in Seq(E)
  <2>1. \A e \in E : <<e>> \in Seq(E)
    OBVIOUS
  <2> QED
    BY <1>1, <2>1
<1>6. << <<"revocation", Blank>> >> \in Seq(E) /\ << <<"cursor", Blank>> >> \in Seq(E)
  BY <1>2
<1>7. restoredVault(v, d, t) \in Seq(E)
  <2>1. PICK p \in Seq(E) : p = persistVault(v, d, "Restored device")
    BY <1>3
  <2>2. PICK q \in Seq(E) : q = << <<"token", t>> >>
    BY <1>5
  <2>3. p \o q \in Seq(E)
    OBVIOUS
  <2> QED
    BY <2>1, <2>2, <2>3 DEF restoredVault
<1>8. signedOut \in Seq(E)
  BY <1>4, <1>6 DEF signedOut
<1>9. wipeLocalVault \o << <<"cursor", Blank>> >> \in Seq(E)
  BY <1>4, <1>6
<1>10. wipeLocalVault \o << <<"cursor", Blank>> >> \o << <<"cursor", n>> >> \in Seq(E)
  BY <1>5, <1>9
<1>11. persistVault(v, d, "Mac") \in Seq(E)
  BY <1>3
<1>12. Plan(V, I) = Seq(E)
  BY PlanIsSeq DEF E
<1> QED
  BY <1>5, <1>7, <1>8, <1>10, <1>11, <1>12

(* What the requests look like *)

LEMMA RequestTyped ==
    ASSUME NEW kind \in {"claim", "push", "pull", "register", "seal", "delete"},
           NEW v \in known \cup {None, Blank}, NEW a \in used' \cup {None, Blank},
           NEW d \in used' \cup {None, Blank}, NEW t \in used' \cup {None, Blank},
           known' = known
    PROVE  Request(kind, v, a, d, t) \in Message'
BY DEF Request, Message

LEMMA SentTyped ==
    ASSUME NetTyped, used \subseteq used', known \subseteq known', sealed' = sealed,
           NEW S, Send(S), S \subseteq Message'
    PROVE  NetTyped'
<1>1. net \subseteq Message' /\ sealed \subseteq Message'
  BY Kept DEF NetTyped
<1> QED
  BY <1>1 DEF Send, NetTyped

LEMMA Built ==
    ASSUME TypeInv, buildServices, known' = known, used \subseteq used'
    PROVE  /\ DiskTyped' /\ ServicesTyped'
           /\ used' \subseteq Id /\ opened' \subseteq known
<1>1. PICK token \in ensureDeviceAuthToken :
          /\ settings' = [settings EXCEPT !.token = token]
          /\ used' = used \cup ({token} \cap Id)
          /\ services' = [vault |-> settings.id, device |-> settings.device,
                          token |-> token, ready |-> FALSE]
          /\ opened' = opened \cup ({settings.id} \cap Vault)
  BY DEF buildServices
<1>2. settings.token \in used \cup {None, Blank} /\ settings.id \in known \cup {None, Blank}
      /\ settings.device \in used \cup {None, Blank}
  BY SettingsFields
<1>3. used \subseteq Id /\ known \subseteq Vault /\ opened \subseteq known
  BY DEF TypeInv
<1>4. token \in used' \cup {None, Blank}
  BY <1>1, <1>2, <1>3 DEF ensureDeviceAuthToken
<1>5. used' \subseteq Id
  BY <1>1, <1>3
<1>6. DiskTyped'
  BY <1>1, <1>3, <1>4, <1>5, TokenTyped
<1>7. ServicesTyped'
  <2>1. settings.device \in used' \cup {None, Blank}
    BY <1>2
  <2> QED
    BY <1>1, <1>2, <1>4, <2>1 DEF ServicesTyped
<1>8. opened' \subseteq known
  BY <1>1, <1>2, <1>3, SentinelAssumption
<1> QED
  BY <1>5, <1>6, <1>7, <1>8

LEMMA FieldsOfServices ==
    ASSUME TypeInv
    PROVE  /\ services.vault \in known \cup {None, Blank} /\ services.device \in used \cup {None, Blank}
           /\ services.token \in used \cup {None, Blank} /\ services.ready \in BOOLEAN
BY DEF TypeInv, ServicesTyped

LEMMA EnqueuedTyped ==
    ASSUME TypeInv, Enqueued, known' = known, used' = used
    PROVE  DiskTyped' /\ ServicesTyped'
<1>1. DiskTyped'
  BY QueueTyped DEF Enqueued, TypeInv
<1>2. ServicesTyped'
  <2>1. services' = [services EXCEPT !.ready = TRUE]
    BY DEF Enqueued
  <2> QED
    BY <2>1 DEF TypeInv, ServicesTyped
<1> QED
  BY <1>1, <1>2

LEMMA PushTyped ==
    ASSUME TypeInv, known' = known, used' = used
    PROVE  Push \in Message' /\ Delete \in Message' /\ Pull \in Message'
<1>1. /\ settings.id \in known \cup {None, Blank} /\ settings.token \in used \cup {None, Blank}
      /\ settings.cursor \in Nat \cup {None, Blank}
  BY SettingsFields
<1>2. Push \in Message'
  BY FieldsOfServices, RequestTyped DEF Push
<1>3. Delete \in Message'
  <2>1. settings.token \in used' \cup {None, Blank} /\ services.device \in used' \cup {None, Blank}
        /\ services.token \in used' \cup {None, Blank}
    BY <1>1, FieldsOfServices
  <2>2. Request("delete", settings.id, settings.token, services.device, services.token) \in Message'
    BY <1>1, <2>1, RequestTyped
  <2> QED
    BY <2>2 DEF Delete
<1>4. readCursor \in Nat
  BY <1>1 DEF readCursor, Falsy
<1>5. Pull \in Message'
  <2>1. PICK r \in Message' : r = Request("pull", services.vault, services.token, services.device, services.token)
    BY FieldsOfServices, RequestTyped
  <2>2. [r EXCEPT !.since = readCursor] \in Message'
    BY <1>4 DEF Message
  <2> QED
    BY <2>1, <2>2 DEF Pull
<1> QED
  BY <1>2, <1>3, <1>5

-----------------------------------------------------------------------------
(* Steps of the installation *)

\* What the relay and the history have to keep when a step is the installation's.
LEMMA Aside ==
    ASSUME TypeInv, used \subseteq used', known \subseteq known', used' \subseteq Id, known' \subseteq Vault,
           relay' = relay, sealed' = sealed, left' = left, table' = table,
           DiskTyped', PlanTyped', ServicesTyped', NetTyped', opened' \subseteq known'
    PROVE  TypeInv'
<1>1. RelayTyped'
  BY Kept DEF TypeInv
<1> QED
  BY <1>1 DEF TypeInv

LEMMA TypeLocal ==
    ASSUME TypeInv,
           \/ Launch \/ Create \/ Restore \/ Open \/ Command \/ ScheduleOrCancelDeletion
           \/ TriggerPull \/ executePairing \/ signOutThisDevice \/ RevokeSelf \/ SignedOut
           \/ PageDone,
           used \subseteq used', known \subseteq known'
    PROVE  TypeInv'
<1> USE SentinelAssumption
<1>0. /\ used \subseteq Id /\ known \subseteq Vault /\ opened \subseteq known
      /\ DiskTyped /\ PlanTyped /\ ServicesTyped /\ NetTyped
  BY DEF TypeInv
<1>a. /\ settings' = settings => DiskTyped'
      /\ writes' = writes => PlanTyped'
      /\ services' = services => ServicesTyped'
      /\ net' = net /\ sealed' = sealed => NetTyped'
  BY <1>0, Kept
<1>b. relay' = relay /\ sealed' = sealed /\ left' = left /\ table' = table
  BY DEF Launch, Create, Restore, Open, Command, ScheduleOrCancelDeletion, TriggerPull, executePairing,
         signOutThisDevice, RevokeSelf, SignedOut, PageDone, history, local
<1>1. CASE Launch
  <2>1. known' = known /\ writes' = writes /\ net' = net
    BY <1>1 DEF Launch
  <2>2. CASE buildServices
    BY <1>0, <1>a, <1>b, <2>1, <2>2, Built, Aside
  <2>3. CASE settings' = settings /\ services' = services /\ used' = used /\ opened' = opened
    BY <1>0, <1>a, <1>b, <2>1, <2>3, Aside
  <2> QED
    BY <1>1, <2>2, <2>3 DEF Launch
<1>2. CASE Create
  <2>1. PICK v \in Vault \ known, d \in Id \ used :
            /\ known' = known \cup {v} /\ used' = used \cup {d}
            /\ writes' = persistVault(v, d, "Mac")
    BY <1>2 DEF Create, Writes
  <2>2. settings' = settings /\ services' = services /\ net' = net /\ opened' = opened
    BY <1>2 DEF Create
  <2>3. known' \subseteq Vault /\ used' \subseteq Id /\ v \in known' /\ d \in used'
    BY <1>0, <2>1
  <2>4. persistVault(v, d, "Mac") \in Plan(known', used')
    BY <2>3, PlansTyped, Zenon
  <2>5. PlanTyped'
    BY <2>1, <2>4 DEF PlanTyped
  <2> QED
    BY <1>0, <1>a, <1>b, <2>2, <2>3, <2>5, Aside
<1>3. CASE Restore
  <2>1. PICK v \in known, d \in Id \ used, t \in Id \ used :
            /\ used' = used \cup {d, t}
            /\ Send({Request("claim", v, None, d, t)})
    BY <1>3 DEF Restore
  <2>2. settings' = settings /\ services' = services /\ writes' = writes /\ known' = known
        /\ opened' = opened
    BY <1>3 DEF Restore, local
  <2>3. Request("claim", v, None, d, t) \in Message'
    BY <2>1, <2>2, RequestTyped
  <2>4. NetTyped'
    BY <1>0, <1>b, <2>1, <2>3, SentTyped
  <2> QED
    BY <1>0, <1>a, <1>b, <2>1, <2>2, <2>4, Aside
<1>4. CASE Open
  <2>1. known' = known /\ writes' = writes /\ net' = net /\ buildServices
    BY <1>4 DEF Open
  <2> QED
    BY <1>0, <1>a, <1>b, <2>1, Built, Aside
<1>5. CASE Command
  <2>1. known' = known /\ used' = used /\ opened' = opened /\ writes' = writes /\ Enqueued /\ Send({Push})
    BY <1>5 DEF Command, history
  <2>2. NetTyped'
    BY <1>0, <1>b, <2>1, PushTyped, SentTyped
  <2> QED
    BY <1>0, <1>a, <1>b, <2>1, <2>2, EnqueuedTyped, Aside
<1>6. CASE ScheduleOrCancelDeletion
  <2>1. known' = known /\ used' = used /\ opened' = opened /\ writes' = writes /\ net' = net /\ Enqueued
    BY <1>6 DEF ScheduleOrCancelDeletion, history
  <2> QED
    BY <1>0, <1>a, <1>b, <2>1, EnqueuedTyped, Aside
<1>7. CASE TriggerPull
  <2>1. known' = known /\ used' = used /\ opened' = opened /\ writes' = writes
        /\ settings' = settings /\ services' = services /\ Send({Pull})
    BY <1>7 DEF TriggerPull, history, local
  <2>2. NetTyped'
    BY <1>0, <1>b, <2>1, PushTyped, SentTyped
  <2> QED
    BY <1>0, <1>a, <1>b, <2>1, <2>2, Aside
<1>8. CASE executePairing
  <2>1. PICK d \in Id \ used, t \in Id \ used :
            /\ used' = used \cup {d, t}
            /\ Send({[Request("register", settings.id, settings.token, d, t)
                         EXCEPT !.key = settings.key]})
    BY <1>8 DEF executePairing
  <2>2. settings' = settings /\ services' = services /\ writes' = writes /\ known' = known
        /\ opened' = opened
    BY <1>8 DEF executePairing, local
  <2>3. /\ settings.id \in known \cup {None, Blank} /\ settings.token \in used' \cup {None, Blank}
        /\ settings.key \in known' \cup {None, Blank}
    BY <2>1, <2>2, SettingsFields
  <2>4. PICK r \in Message' : r = Request("register", settings.id, settings.token, d, t)
    BY <2>1, <2>2, <2>3, RequestTyped
  <2>5. [r EXCEPT !.key = settings.key] \in Message'
    BY <2>3 DEF Message
  <2>6. NetTyped'
    BY <1>0, <1>b, <2>1, <2>2, <2>4, <2>5, SentTyped
  <2> QED
    BY <1>0, <1>a, <1>b, <2>1, <2>2, <2>6, Aside
<1>9. CASE signOutThisDevice
  <2>1. known' = known /\ used' = used /\ opened' = opened /\ settings' = settings
        /\ services' = services /\ net' = net /\ writes' = << <<"revocation", services.device>> >>
    BY <1>9 DEF signOutThisDevice, history, Writes
  <2>2. services.device \in used \cup {None, Blank}
    BY FieldsOfServices
  <2>3. << <<"revocation", services.device>> >> \in Seq(Entries(known, used))
    <3>1. PICK e \in Entries(known, used) : e = <<"revocation", services.device>>
      BY <1>0, <2>2, EntriesTyped
    <3>2. <<e>> \in Seq(Entries(known, used))
      OBVIOUS
    <3> QED
      BY <3>1, <3>2
  <2>4. PlanTyped'
    BY <2>1, <2>3, PlanIsSeq DEF PlanTyped
  <2> QED
    BY <1>0, <1>a, <1>b, <2>1, <2>4, Aside
<1>10. CASE RevokeSelf
  <2>1. known' = known /\ used' = used /\ opened' = opened /\ writes' = writes
    BY <1>10 DEF RevokeSelf, history
  <2>2. CASE Enqueued /\ Send({Push, Delete})
    <3>1. NetTyped'
      BY <1>0, <1>b, <2>1, <2>2, PushTyped, SentTyped
    <3> QED
      BY <1>0, <1>a, <1>b, <2>1, <2>2, <3>1, EnqueuedTyped, Aside
  <2>3. CASE settings' = settings /\ services' = services /\ net' = net
    BY <1>0, <1>a, <1>b, <2>1, <2>3, Aside
  <2> QED
    BY <1>10, <2>2, <2>3 DEF RevokeSelf
<1>11. CASE SignedOut
  <2>1. known' = known /\ used' = used /\ opened' = opened /\ writes' = writes
        /\ settings' = settings /\ services' = NoServices /\ net' = net
    BY <1>11 DEF SignedOut, history
  <2>2. ServicesTyped'
    BY <2>1 DEF ServicesTyped, NoServices
  <2> QED
    BY <1>0, <1>a, <1>b, <2>1, <2>2, Aside
<1>12. CASE PageDone
  <2>1. known' = known /\ used' = used /\ opened' = opened /\ writes' = writes
        /\ settings' = settings /\ services' = services /\ net' = net
    BY <1>12 DEF PageDone, history
  <2> QED
    BY <1>0, <1>a, <1>b, <2>1, Aside
<1> QED
  BY <1>1, <1>2, <1>3, <1>4, <1>5, <1>6, <1>7, <1>8, <1>9, <1>10, <1>11, <1>12

LEMMA TypeWrite ==
    ASSUME TypeInv, Write PROVE TypeInv'
<1>1. /\ used' = used /\ known' = known /\ opened' = opened /\ left' = left /\ table' = table
      /\ services' = services /\ net' = net /\ relay' = relay /\ sealed' = sealed
      /\ writes # <<>> /\ writes' = Tail(writes)
      /\ settings' = [settings EXCEPT ![Head(writes)[1]] = Head(writes)[2]]
  BY DEF Write, history
<1>2. writes \in Seq(Entries(known, used))
  BY PlanIsSeq DEF TypeInv, PlanTyped
<1>3. Head(writes) \in Entries(known, used) /\ Tail(writes) \in Seq(Entries(known, used))
  BY <1>1, <1>2
<1>4. PlanTyped'
  BY <1>1, <1>3, PlanIsSeq DEF PlanTyped
<1>5. Head(writes)[1] \in Fields /\ Head(writes)[2] \in MayHold(Head(writes)[1])
  BY <1>3 DEF Entries, MayHold
<1>6. DiskTyped'
  <2>1. PICK f \in Fields : f = Head(writes)[1]
    BY <1>5
  <2>2. PICK x : x = Head(writes)[2]
    OBVIOUS
  <2>3. x \in MayHold(f)'
    BY <1>1, <1>5, <2>1, <2>2 DEF MayHold
  <2> QED
    BY <1>1, <2>1, <2>2, <2>3, SettingWritten DEF TypeInv
<1> QED
  BY <1>1, <1>4, <1>6, Aside, Kept DEF TypeInv

LEMMA TypeCrash ==
    ASSUME TypeInv, Crash PROVE TypeInv'
<1>1. /\ used' = used /\ known' = known /\ opened' = opened /\ left' = left /\ table' = table
      /\ settings' = settings /\ relay' = relay /\ sealed' = sealed
      /\ services' = NoServices /\ writes' = <<>>
      /\ net' = {[r EXCEPT !.mine = FALSE] : r \in {q \in net : q.kind # "pull"}}
  BY DEF Crash
<1>2. ServicesTyped'
  BY <1>1 DEF ServicesTyped, NoServices
<1>3. PlanTyped'
  BY <1>1 DEF PlanTyped, Plan
<1>4. NetTyped'
  <2>1. \A r \in Message : [r EXCEPT !.mine = FALSE] \in Message
    BY DEF Message
  <2>2. net' \subseteq Message
    BY <1>1, <2>1 DEF TypeInv, NetTyped
  <2> QED
    BY <1>1, <2>2, Kept DEF TypeInv, NetTyped
<1> QED
  BY <1>1, <1>2, <1>3, <1>4, Aside, Kept DEF TypeInv

-----------------------------------------------------------------------------
(* Steps of a request *)

LEMMA FieldsOfMessage ==
    ASSUME NEW r \in Message
    PROVE  /\ r.kind \in {"claim", "push", "pull", "register", "seal", "delete"}
           /\ r.vault \in known \cup {None, Blank} /\ r.auth \in used \cup {None, Blank}
           /\ r.device \in used \cup {None, Blank} /\ r.token \in used \cup {None, Blank}
           /\ r.key \in known \cup {None, Blank} /\ r.since \in Nat /\ r.mine \in BOOLEAN
BY DEF Message

LEMMA OkHasVault ==
    ASSUME NEW r, Answer(r) = "ok", r.kind # "seal"
    PROVE  /\ r.vault \in Vault /\ relay[r.vault].status # "dead" /\ r.auth # Blank
           /\ r.kind # "push" => Initialised(r.vault)
BY DEF Answer

LEMMA FieldsOfVault ==
    ASSUME TypeInv, NEW v \in Vault
    PROVE  /\ relay[v] \in Vaults /\ DOMAIN relay = Vault
           /\ relay[v].devices \subseteq (used \cup {None, Blank}) \X (used \cup {None, Blank})
           /\ relay[v].gone \subseteq used \cup {None, Blank} /\ relay[v].log \in Nat
           /\ relay[v].deletions \subseteq Nat
           /\ relay[v].status \in {"unborn", "live", "ending", "dead"}
BY DEF TypeInv, RelayTyped, Vaults

\* What the deletion alarm makes of a vault.
LEMMA EndsFields ==
    ASSUME TypeInv, NEW u \in Vault, VaultEnds(u)
    PROVE  /\ \A w \in Vault \ {u} : relay'[w] = relay[w]
           /\ relay' \in [Vault -> Vaults]
           /\ relay'[u].gone = relay[u].gone
           /\ \/ /\ relay[u].status \in {"live", "ending"} /\ relay'[u].status = "ending"
                 /\ relay'[u].devices = relay[u].devices /\ relay'[u].log = relay[u].log + 1
                 /\ relay'[u].deletions = relay[u].deletions \cup {relay[u].log + 1}
              \/ /\ relay[u].status = "ending" /\ relay'[u].status = "dead"
                 /\ relay'[u].devices = {} /\ relay'[u].log = 0 /\ relay'[u].deletions = {}
<1>1. relay \in [Vault -> Vaults] /\ relay[u] \in Vaults /\ relay[u].log + 1 \in Nat
  BY DEF TypeInv, RelayTyped, Vaults
<1>2. CASE /\ relay[u].status \in {"live", "ending"}
           /\ relay' = [relay EXCEPT ![u].status = "ending", ![u].log = @ + 1,
                                     ![u].deletions = @ \cup {relay[u].log + 1}]
  <2>1. PICK n \in Nat : n = relay[u].log + 1
    BY <1>1
  <2>2. PICK D \in SUBSET Nat : D = relay[u].deletions \cup {n}
    BY <1>1 DEF Vaults
  <2>3. PICK c \in Vaults : c = relay[u]
    BY <1>1
  <2>4. PICK b : b = [c EXCEPT !.status = "ending", !.log = n, !.deletions = D]
    OBVIOUS
  <2>5. b = [relay[u] EXCEPT !.status = "ending", !.log = @ + 1,
                             !.deletions = @ \cup {relay[u].log + 1}]
    BY <2>1, <2>2, <2>3, <2>4 DEF Vaults
  <2>6. relay' = [relay EXCEPT ![u] = b]
    BY <1>1, <1>2, <2>5
  <2>7. /\ b \in Vaults /\ b.gone = c.gone /\ b.status = "ending" /\ b.devices = c.devices
        /\ b.log = n /\ b.deletions = D
    BY <2>4 DEF Vaults
  <2>8. relay'[u] = b /\ relay' \in [Vault -> Vaults] /\ \A w \in Vault \ {u} : relay'[w] = relay[w]
    BY <1>1, <2>6, <2>7
  <2> QED
    BY <1>2, <2>1, <2>2, <2>3, <2>7, <2>8
<1>3. CASE /\ relay[u].status = "ending"
           /\ relay' = [relay EXCEPT ![u].status = "dead", ![u].devices = {}, ![u].log = 0,
                                     ![u].deletions = {}]
  <2>1. PICK c \in Vaults : c = relay[u]
    BY <1>1
  <2>2. PICK b : b = [c EXCEPT !.status = "dead", !.devices = {}, !.log = 0, !.deletions = {}]
    OBVIOUS
  <2>3. relay' = [relay EXCEPT ![u] = b]
    BY <1>1, <1>3, <2>1, <2>2
  <2>4. /\ b \in Vaults /\ b.gone = c.gone /\ b.status = "dead" /\ b.devices = {}
        /\ b.log = 0 /\ b.deletions = {}
    BY <2>2 DEF Vaults
  <2>5. relay'[u] = b /\ relay' \in [Vault -> Vaults] /\ \A w \in Vault \ {u} : relay'[w] = relay[w]
    BY <1>1, <2>3, <2>4
  <2> QED
    BY <1>3, <2>1, <2>4, <2>5
<1> QED
  BY <1>2, <1>3 DEF VaultEnds

LEMMA SealOfMessage ==
    ASSUME NEW r \in Message PROVE Seal(r) \in Message /\ Seal(r) = [r EXCEPT !.kind = "seal"]
BY DEF Message, Seal

LEMMA AcceptTyped ==
    ASSUME TypeInv, NEW r \in net, Answer(r) = "ok", Accept(r), used' = used, known' = known
    PROVE  /\ RelayTyped' /\ sealed' \subseteq Message /\ left' \subseteq used \cup {None, Blank}
<1>1. r \in Message
  BY DEF TypeInv, NetTyped
<1>2. /\ r.device \in used \cup {None, Blank} /\ r.token \in used \cup {None, Blank}
  BY <1>1, FieldsOfMessage
<1>3. sealed' \subseteq Message /\ left' \subseteq used \cup {None, Blank}
  BY <1>1, <1>2 DEF Accept, TypeInv, NetTyped
<1>4. RelayTyped'
  <2>1. CASE r.kind = "seal" \/ r.kind = "pull"
    BY <2>1, Kept DEF Accept, TypeInv
  <2>2. CASE r.kind \notin {"seal", "pull"}
    <3>1. r.vault \in Vault
      BY <2>2, OkHasVault
    <3>2. PICK v \in Vault : v = r.vault
      BY <3>1
    <3>3. relay[v] \in Vaults /\ relay \in [Vault -> Vaults]
      BY FieldsOfVault DEF TypeInv, RelayTyped
    <3>4. CASE r.kind \in {"register", "claim"}
      <4>1. relay' = AddDevice(v, Pair(r))
        BY <3>2, <3>4 DEF Accept
      <4>2. relay' = [relay EXCEPT ![v] = [relay[v] EXCEPT !.devices = @ \cup {Pair(r)}]]
        BY <4>1 DEF AddDevice
      <4>3. [relay[v] EXCEPT !.devices = @ \cup {Pair(r)}] \in Vaults
        BY <1>2, <3>3 DEF Vaults, Pair
      <4>4. relay' \in [Vault -> Vaults]
        BY <3>3, <4>2, <4>3
      <4> QED
        BY <4>4 DEF RelayTyped, Vaults
    <3>5. CASE r.kind = "delete"
      <4>1. relay' = RemoveDevice(v, r.device)
        BY <3>2, <3>5 DEF Accept
      <4>2. relay' = [relay EXCEPT ![v] = [relay[v] EXCEPT !.devices = {p \in @ : p[1] # r.device},
                                                           !.gone = @ \cup {r.device}]]
        BY <3>3, <4>1 DEF RemoveDevice
      <4>3. [relay[v] EXCEPT !.devices = {p \in @ : p[1] # r.device}, !.gone = @ \cup {r.device}] \in Vaults
        BY <1>2, <3>3 DEF Vaults
      <4>4. relay' \in [Vault -> Vaults]
        BY <3>3, <4>2, <4>3
      <4> QED
        BY <4>4 DEF RelayTyped, Vaults
    <3>6. CASE r.kind = "push"
      <4>1. relay' = Stored(r)
        BY <3>6 DEF Accept
      <4>2. relay' = [relay EXCEPT ![v] = [relay[v] EXCEPT !.log = @ + 1]]
            \/ relay' = [relay EXCEPT ![v] = [relay[v] EXCEPT !.log = @ + 1, !.status = "live",
                                                              !.devices = {Pair(r)}]]
        BY <3>2, <3>3, <4>1 DEF Stored
      <4>3. [relay[v] EXCEPT !.log = @ + 1] \in Vaults
        BY <3>3 DEF Vaults
      <4>4. [relay[v] EXCEPT !.log = @ + 1, !.status = "live", !.devices = {Pair(r)}] \in Vaults
        <5>1. Pair(r) \in (used \cup {None, Blank}) \X (used \cup {None, Blank})
          BY <1>2 DEF Pair
        <5>2. PICK D \in SUBSET ((used \cup {None, Blank}) \X (used \cup {None, Blank})) : D = {Pair(r)}
          BY <5>1
        <5>3. [relay[v] EXCEPT !.log = @ + 1, !.status = "live", !.devices = D] \in Vaults
          <6>1. PICK c \in Vaults : c = relay[v]
            BY <3>3
          <6>2. [c EXCEPT !.log = @ + 1] \in Vaults
            BY DEF Vaults
          <6>3. PICK b \in Vaults : b = [c EXCEPT !.log = @ + 1]
            BY <6>2
          <6>4. [b EXCEPT !.devices = D] \in Vaults
            BY DEF Vaults
          <6>5. PICK a \in Vaults : a = [b EXCEPT !.devices = D]
            BY <6>4
          <6>6. [a EXCEPT !.status = "live"] \in Vaults
            BY DEF Vaults
          <6>7. [a EXCEPT !.status = "live"] = [c EXCEPT !.log = @ + 1, !.status = "live", !.devices = D]
            BY <6>3, <6>5 DEF Vaults
          <6> QED
            BY <6>1, <6>6, <6>7
        <5> QED
          BY <5>2, <5>3
      <4>5. relay' \in [Vault -> Vaults]
        BY <3>3, <4>2, <4>3, <4>4
      <4> QED
        BY <4>5 DEF RelayTyped, Vaults
    <3> QED
      BY <1>1, <2>2, <3>4, <3>5, <3>6, FieldsOfMessage
  <2> QED
    BY <2>1, <2>2
<1> QED
  BY <1>3, <1>4

\* An answer at its device.
LEMMA Reaction ==
    ASSUME NEW r, NEW answer, React(r, answer), r.kind \in {"claim", "push", "pull", "register", "seal", "delete"}
    PROVE  \/ QueueWritten /\ r.kind = "push"
           \/ /\ settings' = settings /\ r.kind = "delete" /\ IsGone(answer)
              /\ Writes("wipe", signedOut)
           \/ /\ settings' = settings /\ r.kind = "claim" /\ answer = "ok"
              /\ Writes("restore", restoredVault(r.vault, r.device, r.token))
           \/ settings' = settings /\ HasPage(r, answer) /\ pageApplied(r)
           \/ Unmoved
BY DEF React, HasPage, Unmoved

LEMMA ReactionTyped ==
    ASSUME TypeInv, NEW r \in net, NEW answer, React(r, answer), answer = "ok" => Answer(r) = "ok",
           used' = used, known' = known
    PROVE  DiskTyped' /\ PlanTyped'
<1>1. r \in Message
  BY DEF TypeInv, NetTyped
<1>2. /\ r.vault \in known \cup {None, Blank} /\ r.device \in used \cup {None, Blank}
      /\ r.token \in used \cup {None, Blank}
      /\ r.kind \in {"claim", "push", "pull", "register", "seal", "delete"}
  BY <1>1, FieldsOfMessage
<1>3. used \subseteq Id /\ known \subseteq Vault
  BY DEF TypeInv
<1>4. /\ settings' = settings => DiskTyped'
      /\ writes' = writes => PlanTyped'
  BY Kept DEF TypeInv
<1>5. CASE QueueWritten
  BY <1>3, <1>4, <1>5, QueueTyped DEF QueueWritten
<1>6. CASE Unmoved
  BY <1>4, <1>6 DEF Unmoved
<1>7. CASE settings' = settings /\ Writes("wipe", signedOut)
  <2>1. signedOut \in Seq(Entries(known, used))
    <3>1. /\ <<"key", Blank>> \in Entries(known, used) /\ <<"id", Blank>> \in Entries(known, used)
          /\ <<"device", Blank>> \in Entries(known, used) /\ <<"token", Blank>> \in Entries(known, used)
          /\ <<"name", Blank>> \in Entries(known, used) /\ <<"queue", Blank>> \in Entries(known, used)
          /\ <<"revocation", Blank>> \in Entries(known, used)
      BY <1>3, EntriesTyped
    <3>2. wipeLocalVault \in Seq(Entries(known, used))
      BY <3>1 DEF wipeLocalVault
    <3>3. << <<"revocation", Blank>> >> \in Seq(Entries(known, used))
      BY <3>1
    <3> QED
      BY <3>2, <3>3 DEF signedOut
  <2>2. PlanTyped'
    BY <1>7, <2>1, PlanIsSeq DEF PlanTyped, Writes
  <2> QED
    BY <1>4, <1>7, <2>2
<1>8. CASE /\ settings' = settings /\ r.kind = "claim" /\ answer = "ok"
           /\ Writes("restore", restoredVault(r.vault, r.device, r.token))
  <2>1. r.vault \in known
    BY <1>2, <1>8, OkHasVault, SentinelAssumption
  <2>2. restoredVault(r.vault, r.device, r.token) \in Plan(known, used)
    BY <1>2, <1>3, <2>1, PlansTyped, Zenon
  <2>3. PlanTyped'
    BY <1>8, <2>2 DEF PlanTyped, Writes
  <2> QED
    BY <1>4, <1>8, <2>3
<1>9. CASE settings' = settings /\ HasPage(r, answer) /\ pageApplied(r)
  <2>1. r.vault \in Vault /\ r.vault \in known
    BY <1>2, <1>9, OkHasVault, SentinelAssumption DEF HasPage
  <2>2. relay[r.vault].log \in Nat
    BY <2>1, FieldsOfVault
  <2>3. PICK n \in Nat : n = relay[r.vault].log
    BY <2>2
  <2>4. writes' = wipeLocalVault \o << <<"cursor", Blank>> >> \o << <<"cursor", n>> >>
        \/ writes' = << <<"cursor", n>> >>
    BY <1>9, <2>3 DEF pageApplied, Writes, writeCursor
  <2>5. PlanTyped'
    <3>1. << <<"cursor", n>> >> \in Plan(known, used)
      BY <1>2, <1>3, <2>1, PlansTyped, Zenon
    <3>2. wipeLocalVault \o << <<"cursor", Blank>> >> \o << <<"cursor", n>> >> \in Plan(known, used)
      BY <1>2, <1>3, <2>1, PlansTyped, Zenon
    <3> QED
      BY <2>4, <3>1, <3>2 DEF PlanTyped
  <2> QED
    BY <1>4, <1>9, <2>5
<1> QED
  BY <1>2, <1>5, <1>6, <1>7, <1>8, <1>9, Reaction

LEMMA TableTyped ==
    ASSUME TypeInv, NEW r \in net, NEW answer, answer = "ok" => Answer(r) = "ok"
    PROVE  TableAfter(r, answer) \subseteq Vault \X Nat
<1>1. table \subseteq Vault \X Nat
  BY DEF TypeInv
<1>2. r \in Message
  BY DEF TypeInv, NetTyped
<1>3. CASE r.kind = "push" /\ Answer(r) = "ok"
  <2>1. r.vault \in Vault
    BY <1>3, OkHasVault
  <2>2. relay[r.vault].log + 1 \in Nat
    BY <2>1, FieldsOfVault
  <2>3. TableAfter(r, answer) = table \cup {<<r.vault, relay[r.vault].log + 1>>}
    BY <1>3 DEF TableAfter, HasPage
  <2> QED
    BY <1>1, <2>1, <2>2, <2>3
<1>4. CASE HasPage(r, answer)
  <2>1. r.vault \in Vault /\ r.since \in Nat /\ r.kind = "pull"
    BY <1>2, <1>4, OkHasVault, FieldsOfMessage DEF HasPage
  <2>2. relay[r.vault].log \in Nat
    BY <2>1, FieldsOfVault
  <2>3. Page(r) \subseteq Nat
    BY <2>1, <2>2 DEF Page
  <2>4. TableAfter(r, answer) = table \cup
            {<<r.vault, n>> : n \in {m \in Page(r) : ~IsDeletion(r.vault, m)}}
    BY <1>4, <2>1 DEF TableAfter
  <2> QED
    BY <1>1, <2>1, <2>3, <2>4
<1>5. CASE ~(r.kind = "push" /\ Answer(r) = "ok") /\ ~HasPage(r, answer)
  BY <1>1, <1>5 DEF TableAfter
<1> QED
  BY <1>3, <1>4, <1>5

LEMMA TypeArrive ==
    ASSUME TypeInv, NEW r \in net, NEW heard \in BOOLEAN, Arrive(r, heard)
    PROVE  TypeInv'
<1> DEFINE answer == IF heard THEN Answer(r) ELSE "none"
<1>1. /\ used' = used /\ known' = known /\ opened' = opened /\ services' = services
      /\ net' = NetAfter(r, answer) /\ table' = TableAfter(r, answer)
      /\ IF Answer(r) = "ok" THEN Accept(r) ELSE UNCHANGED <<relay, sealed, left>>
      /\ IF r.mine THEN React(r, answer) ELSE Unmoved
  BY DEF Arrive
<1>2. answer = "ok" => Answer(r) = "ok"
  OBVIOUS
<1> HIDE DEF answer
<1>3. r \in Message /\ net \subseteq Message /\ sealed \subseteq Message
  BY DEF TypeInv, NetTyped
<1>4. Message' = Message
  BY <1>1 DEF Message
<1>5. RelayTyped' /\ sealed' \subseteq Message /\ left' \subseteq used \cup {None, Blank}
  <2>1. CASE Answer(r) = "ok"
    BY <1>1, <2>1, AcceptTyped
  <2>2. CASE Answer(r) # "ok"
    BY <1>1, <1>3, <2>2, Kept DEF TypeInv
  <2> QED
    BY <2>1, <2>2
<1>6. DiskTyped' /\ PlanTyped'
  <2>1. CASE r.mine
    BY <1>1, <1>2, <2>1, ReactionTyped
  <2>2. CASE ~r.mine
    BY <1>1, <2>2, Kept DEF Unmoved, TypeInv
  <2> QED
    BY <2>1, <2>2
<1>7. ServicesTyped'
  BY <1>1, Kept DEF TypeInv
<1>8. NetTyped'
  <2>1. net' \subseteq Message
    BY <1>1, <1>3, SealOfMessage DEF NetAfter
  <2> QED
    BY <1>4, <1>5, <2>1 DEF NetTyped
<1>9. table' \subseteq Vault \X Nat
  BY <1>1, <1>2, TableTyped
<1> QED
  BY <1>1, <1>5, <1>6, <1>7, <1>8, <1>9 DEF TypeInv

LEMMA TypeLose ==
    ASSUME TypeInv, NEW r \in net, Lose(r)
    PROVE  TypeInv'
<1>1. /\ used' = used /\ known' = known /\ opened' = opened /\ services' = services
      /\ left' = left /\ table' = table /\ relay' = relay /\ sealed' = sealed
      /\ net' = net \ {r}
      /\ IF r.mine THEN React(r, "none") ELSE Unmoved
  BY DEF Lose, history
<1>2. DiskTyped' /\ PlanTyped'
  <2>1. CASE r.mine
    BY <1>1, <2>1, ReactionTyped
  <2>2. CASE ~r.mine
    BY <1>1, <2>2, Kept DEF Unmoved, TypeInv
  <2> QED
    BY <2>1, <2>2
<1>3. NetTyped' /\ ServicesTyped'
  BY <1>1, Kept DEF TypeInv
<1> QED
  BY <1>1, <1>2, <1>3, Aside DEF TypeInv

LEMMA TypeElsewhere ==
    ASSUME TypeInv,
           \/ \E v \in Vault : OtherRevokes(v) \/ OtherPushes(v) \/ VaultEnds(v)
           \/ \E p \in sealed : Expire(p)
    PROVE  TypeInv'
<1>1. local' = local /\ history' = history /\ net' = net /\ sealed' \subseteq sealed
  BY DEF OtherRevokes, OtherPushes, VaultEnds, Expire
<1>2. DiskTyped' /\ PlanTyped' /\ ServicesTyped' /\ NetTyped'
  BY <1>1, Kept DEF local, history, TypeInv
<1>3. RelayTyped'
  <2> SUFFICES relay' \in [Vault -> Vaults]
    BY <1>1 DEF RelayTyped, Vaults, history
  <2>1. relay \in [Vault -> Vaults]
    BY DEF TypeInv, RelayTyped
  <2>2. ASSUME NEW v \in Vault, OtherRevokes(v) PROVE relay' \in [Vault -> Vaults]
    <3>1. PICK p \in relay[v].devices : relay' = RemoveDevice(v, p[1])
      BY <2>2 DEF OtherRevokes
    <3>2. PICK d \in used \cup {None, Blank} : d = p[1]
      BY <3>1, FieldsOfVault
    <3>3. relay' = [relay EXCEPT ![v] = [relay[v] EXCEPT !.devices = {q \in @ : q[1] # d},
                                                         !.gone = @ \cup {d}]]
      BY <2>1, <3>1, <3>2 DEF RemoveDevice
    <3>4. [relay[v] EXCEPT !.devices = {q \in @ : q[1] # d}, !.gone = @ \cup {d}] \in Vaults
      BY <2>1 DEF Vaults
    <3> QED
      BY <2>1, <3>3, <3>4
  <2>3. ASSUME NEW v \in Vault, OtherPushes(v) PROVE relay' \in [Vault -> Vaults]
    <3>1. relay' = [relay EXCEPT ![v] = [relay[v] EXCEPT !.log = @ + 1]]
      BY <2>1, <2>3 DEF OtherPushes
    <3>2. [relay[v] EXCEPT !.log = @ + 1] \in Vaults
      BY <2>1 DEF Vaults
    <3> QED
      BY <2>1, <3>1, <3>2
  <2>4. ASSUME NEW v \in Vault, VaultEnds(v) PROVE relay' \in [Vault -> Vaults]
    BY <2>4, EndsFields
  <2>5. CASE \E p \in sealed : Expire(p)
    BY <2>1, <2>5 DEF Expire
  <2> QED
    BY <2>2, <2>3, <2>4, <2>5
<1> QED
  BY <1>1, <1>2, <1>3 DEF TypeInv, local, history

LEMMA TypeNext ==
    ASSUME TypeInv, [Next]_vars PROVE TypeInv'
<1>1. CASE Next
  <2>1. used \subseteq used' /\ known \subseteq known'
    BY <1>1, Grows
  <2>2. ASSUME NEW r \in net, Arrive(r, TRUE) \/ Arrive(r, FALSE) \/ Lose(r) PROVE TypeInv'
    BY <2>2, TypeArrive, TypeLose
  <2> QED
    BY <1>1, <2>1, <2>2, TypeLocal, TypeWrite, TypeCrash, TypeElsewhere DEF Next
<1>2. CASE vars' = vars
  <2>1. local' = local /\ history' = history /\ net' = net /\ sealed' = sealed /\ relay' = relay
    BY <1>2 DEF vars
  <2>2. DiskTyped' /\ PlanTyped' /\ ServicesTyped' /\ NetTyped'
    BY <2>1, Kept DEF local, history, TypeInv
  <2>3. RelayTyped'
    BY <2>1, Kept DEF history, TypeInv
  <2> QED
    BY <2>1, <2>2, <2>3 DEF TypeInv, local, history
<1> QED
  BY <1>1, <1>2

LEMMA TypeInit ==
    ASSUME Init PROVE TypeInv
<1>1. DiskTyped
  <2>1. Unset = [f \in Fields |-> None]
    BY DEF Unset, Fields
  <2>2. \A f \in Fields : None \in MayHold(f) /\ None \in Values
    BY DEF MayHold, HeldBy, Fields, Values, VaultValues, IdValues
  <2> QED
    BY <2>1, <2>2 DEF Init, DiskTyped
<1>2. PlanTyped /\ ServicesTyped /\ NetTyped /\ RelayTyped
  BY DEF Init, NoServices, PlanTyped, Plan, ServicesTyped, NetTyped, RelayTyped, Vaults
<1> QED
  BY <1>1, <1>2 DEF Init, TypeInv

LEMMA Typed == Spec => []TypeInv
<1> QED
  BY TypeInit, TypeNext, PTL DEF Spec

-----------------------------------------------------------------------------
(* What becomes of a vault at the relay *)

NobodyBeforeBirth ==
    \A v \in Vault : relay[v].status = "unborn" => relay[v].devices = {} /\ relay[v].gone = {}

\* A device that was registered is registered, removed or its vault is dead.
Survives(a, b) ==
    /\ b.status = "unborn" => b.devices = {} /\ b.gone = {}
    /\ a.gone \subseteq b.gone
    /\ a.status = "dead" => b.status = "dead"
    /\ \A p \in a.devices : p \in b.devices \/ p[1] \in b.gone \/ b.status = "dead"

LEMMA AcceptSurvives ==
    ASSUME TypeInv, NobodyBeforeBirth, NEW r \in net, Answer(r) = "ok", Accept(r)
    PROVE  /\ \A v \in Vault : Survives(relay[v], relay'[v])
           /\ r.kind \in {"register", "claim"} => Pair(r) \in relay'[r.vault].devices
<1>1. \A v \in Vault : Survives(relay[v], relay[v])
  BY DEF Survives, NobodyBeforeBirth
<1>2. relay \in [Vault -> Vaults]
  BY DEF TypeInv, RelayTyped
<1>3. r.kind \in {"claim", "push", "pull", "register", "seal", "delete"}
  BY FieldsOfMessage DEF TypeInv, NetTyped
<1>4. CASE r.kind \in {"seal", "pull"}
  BY <1>1, <1>4 DEF Accept
<1>5. CASE r.kind \notin {"seal", "pull"}
  <2>1. PICK v \in Vault : v = r.vault /\ relay[v].status # "dead"
        /\ (r.kind # "push" => relay[v].status # "unborn")
    BY <1>5, OkHasVault DEF Initialised
  <2>2. relay[v] \in Vaults
    BY <1>2
  <2>3. ASSUME r.kind \in {"register", "claim"}
        PROVE  /\ Survives(relay[v], relay'[v]) /\ Pair(r) \in relay'[v].devices
               /\ \A w \in Vault \ {v} : relay'[w] = relay[w]
    <3>1. relay' = [relay EXCEPT ![v] = [relay[v] EXCEPT !.devices = @ \cup {Pair(r)}]]
      BY <2>1, <2>3 DEF Accept, AddDevice
    <3>2. relay'[v] = [relay[v] EXCEPT !.devices = @ \cup {Pair(r)}]
      BY <1>2, <3>1
    <3>3. relay'[v].status = relay[v].status /\ relay'[v].gone = relay[v].gone
          /\ relay'[v].devices = relay[v].devices \cup {Pair(r)}
      BY <2>2, <3>2 DEF Vaults
    <3>4. \A w \in Vault \ {v} : relay'[w] = relay[w]
      BY <1>2, <3>1
    <3> QED
      BY <2>1, <2>3, <3>3, <3>4 DEF Survives
  <2>4. ASSUME r.kind = "delete"
        PROVE  /\ Survives(relay[v], relay'[v])
               /\ \A w \in Vault \ {v} : relay'[w] = relay[w]
    <3>1. relay' = [relay EXCEPT ![v] = [relay[v] EXCEPT !.devices = {p \in @ : p[1] # r.device},
                                                         !.gone = @ \cup {r.device}]]
      BY <1>2, <2>1, <2>4 DEF Accept, RemoveDevice
    <3>2. relay'[v] = [relay[v] EXCEPT !.devices = {p \in @ : p[1] # r.device}, !.gone = @ \cup {r.device}]
      BY <1>2, <3>1
    <3>3. relay'[v].status = relay[v].status /\ relay'[v].gone = relay[v].gone \cup {r.device}
          /\ relay'[v].devices = {p \in relay[v].devices : p[1] # r.device}
      BY <2>2, <3>2 DEF Vaults
    <3>4. \A w \in Vault \ {v} : relay'[w] = relay[w]
      BY <1>2, <3>1
    <3> QED
      BY <2>1, <2>4, <3>3, <3>4 DEF Survives
  <2>5. ASSUME r.kind = "push"
        PROVE  /\ Survives(relay[v], relay'[v])
               /\ \A w \in Vault \ {v} : relay'[w] = relay[w]
    <3>1. \/ /\ relay' = [relay EXCEPT ![v] = [relay[v] EXCEPT !.log = @ + 1]]
             /\ relay[v].status # "unborn"
          \/ /\ relay' = [relay EXCEPT ![v] = [relay[v] EXCEPT !.log = @ + 1, !.status = "live",
                                                               !.devices = {Pair(r)}]]
             /\ relay[v].status = "unborn"
      BY <1>2, <2>1, <2>5 DEF Accept, Stored, Initialised
    <3>2. \A w \in Vault \ {v} : relay'[w] = relay[w]
      BY <1>2, <3>1
    <3>3. CASE relay[v].status # "unborn"
      <4>1. relay'[v] = [relay[v] EXCEPT !.log = @ + 1]
        BY <1>2, <3>1, <3>3
      <4>2. relay'[v].status = relay[v].status /\ relay'[v].gone = relay[v].gone
            /\ relay'[v].devices = relay[v].devices
        BY <2>2, <4>1 DEF Vaults
      <4> QED
        BY <3>2, <3>3, <4>2 DEF Survives
    <3>4. CASE relay[v].status = "unborn"
      <4>1. relay'[v] = [relay[v] EXCEPT !.log = @ + 1, !.status = "live", !.devices = {Pair(r)}]
        BY <1>2, <3>1, <3>4
      <4>2. relay'[v].status = "live" /\ relay'[v].gone = relay[v].gone
        BY <2>2, <4>1 DEF Vaults
      <4>3. relay[v].devices = {}
        BY <3>4 DEF NobodyBeforeBirth
      <4> QED
        BY <3>2, <3>4, <4>2, <4>3 DEF Survives
    <3> QED
      BY <3>3, <3>4
  <2> QED
    BY <1>1, <1>3, <1>5, <2>1, <2>3, <2>4, <2>5
<1> QED
  BY <1>4, <1>5

LEMMA ElsewhereSurvives ==
    ASSUME TypeInv, NobodyBeforeBirth,
           NEW u \in Vault, OtherRevokes(u) \/ OtherPushes(u) \/ VaultEnds(u)
    PROVE  \A v \in Vault : Survives(relay[v], relay'[v])
<1>1. \A v \in Vault : Survives(relay[v], relay[v])
  BY DEF Survives, NobodyBeforeBirth
<1>2. relay \in [Vault -> Vaults] /\ relay[u] \in Vaults
  BY DEF TypeInv, RelayTyped
<1>3. CASE OtherRevokes(u)
  <2>1. PICK p \in relay[u].devices : relay' = RemoveDevice(u, p[1])
    BY <1>3 DEF OtherRevokes
  <2>2. PICK d : d = p[1]
    OBVIOUS
  <2>3. relay' = [relay EXCEPT ![u] = [relay[u] EXCEPT !.devices = {q \in @ : q[1] # d},
                                                       !.gone = @ \cup {d}]]
    BY <1>2, <2>1, <2>2 DEF RemoveDevice
  <2>4. relay'[u] = [relay[u] EXCEPT !.devices = {q \in @ : q[1] # d}, !.gone = @ \cup {d}]
    BY <1>2, <2>3
  <2>5. relay'[u].status = relay[u].status /\ relay'[u].gone = relay[u].gone \cup {d}
        /\ relay'[u].devices = {q \in relay[u].devices : q[1] # d}
    BY <1>2, <2>4 DEF Vaults
  <2>6. relay[u].status # "unborn"
    BY <2>1 DEF NobodyBeforeBirth
  <2>7. Survives(relay[u], relay'[u])
    BY <2>5, <2>6 DEF Survives
  <2>8. \A v \in Vault \ {u} : relay'[v] = relay[v]
    BY <1>2, <2>3
  <2> QED
    BY <1>1, <2>7, <2>8
<1>4. CASE OtherPushes(u)
  <2>1. relay' = [relay EXCEPT ![u] = [relay[u] EXCEPT !.log = @ + 1]] /\ relay[u].status # "unborn"
    BY <1>2, <1>4 DEF OtherPushes, NobodyBeforeBirth
  <2>2. relay'[u] = [relay[u] EXCEPT !.log = @ + 1]
    BY <1>2, <2>1
  <2>3. relay'[u].status = relay[u].status /\ relay'[u].gone = relay[u].gone
        /\ relay'[u].devices = relay[u].devices
    BY <1>2, <2>2 DEF Vaults
  <2>4. Survives(relay[u], relay'[u])
    BY <2>1, <2>3 DEF Survives
  <2>5. \A v \in Vault \ {u} : relay'[v] = relay[v]
    BY <1>2, <2>1
  <2> QED
    BY <1>1, <2>4, <2>5
<1>5. CASE VaultEnds(u)
  <2>1. Survives(relay[u], relay'[u]) /\ \A v \in Vault \ {u} : relay'[v] = relay[v]
    BY <1>5, EndsFields DEF Survives
  <2> QED
    BY <1>1, <2>1
<1> QED
  BY <1>3, <1>4, <1>5

-----------------------------------------------------------------------------
(* SealedIsRegistered *)

Registered(p) ==
    LET v == relay[p.vault]
    IN  Pair(p) \in v.devices \/ p.device \in v.gone \/ v.status = "dead"

Seals == sealed \cup {q \in net : q.kind = "seal"}

SealInv ==
    /\ NobodyBeforeBirth
    /\ \A p \in Seals : p.vault \in Vault /\ Registered(p)

LEMMA Kinds ==
    /\ Push.kind = "push" /\ Pull.kind = "pull" /\ Delete.kind = "delete"
    /\ \A v, a, d, t : Request("claim", v, a, d, t).kind = "claim"
    /\ \A v, a, d, t, k : [Request("register", v, a, d, t) EXCEPT !.key = k].kind = "register"
BY DEF Push, Pull, Delete, Request

\* Who sends what: none of the installation's own steps sends a seal.
LEMMA SentKinds ==
    ASSUME \/ Launch \/ Create \/ Restore \/ Open \/ Write \/ Command \/ ScheduleOrCancelDeletion
           \/ TriggerPull \/ executePairing \/ signOutThisDevice \/ RevokeSelf \/ SignedOut
           \/ PageDone
    PROVE  /\ relay' = relay /\ sealed' = sealed /\ left' = left
           /\ \A q \in net' : q \in net \/ q.kind \in {"claim", "push", "pull", "register", "delete"}
<1>1. relay' = relay /\ sealed' = sealed /\ left' = left
  BY DEF Launch, Create, Restore, Open, Write, Command, ScheduleOrCancelDeletion, TriggerPull,
         executePairing, signOutThisDevice, RevokeSelf, SignedOut, PageDone, history, local
<1>2. CASE Launch \/ Create \/ Open \/ Write \/ ScheduleOrCancelDeletion \/ signOutThisDevice
           \/ SignedOut \/ PageDone
  <2>1. net' = net
    BY <1>2 DEF Launch, Create, Open, Write, ScheduleOrCancelDeletion, signOutThisDevice, SignedOut,
                PageDone
  <2> QED
    BY <1>1, <2>1
<1>3. CASE Command \/ TriggerPull \/ RevokeSelf
  <2>1. net' \subseteq net \cup {Push, Pull, Delete}
    BY <1>3 DEF Command, TriggerPull, RevokeSelf, Send
  <2> QED
    BY <1>1, <2>1, Kinds
<1>4. CASE Restore
  <2>1. PICK v, d, t : net' = net \cup {Request("claim", v, None, d, t)}
    BY <1>4 DEF Restore, Send
  <2> QED
    BY <1>1, <2>1, Kinds
<1>5. CASE executePairing
  <2>1. PICK d, t : net' = net \cup {[Request("register", settings.id, settings.token, d, t)
                                         EXCEPT !.key = settings.key]}
    BY <1>5 DEF executePairing, Send
  <2>2. PICK q : q = [Request("register", settings.id, settings.token, d, t) EXCEPT !.key = settings.key]
    OBVIOUS
  <2>3. q.kind = "register"
    BY <2>2, Kinds
  <2> QED
    BY <1>1, <2>1, <2>2, <2>3
<1> QED
  BY <1>2, <1>3, <1>4, <1>5

LEMMA StaysRegistered ==
    ASSUME NEW p, p.vault \in Vault, Registered(p), Survives(relay[p.vault], relay'[p.vault])
    PROVE  Registered(p)'
BY DEF Registered, Survives, Pair

LEMMA SealNext ==
    ASSUME TypeInv, SealInv, [Next]_vars PROVE SealInv'
<1>0. ASSUME relay' = relay PROVE \A v \in Vault : Survives(relay[v], relay'[v])
  BY <1>0 DEF Survives, SealInv, NobodyBeforeBirth
<1>a. ASSUME \A v \in Vault : Survives(relay[v], relay'[v])
      PROVE  NobodyBeforeBirth'
  BY <1>a DEF NobodyBeforeBirth, Survives
<1>b. ASSUME \A v \in Vault : Survives(relay[v], relay'[v]), NEW p \in Seals
      PROVE  p.vault \in Vault /\ Registered(p)'
  BY <1>b, StaysRegistered DEF SealInv
<1>c. ASSUME \A v \in Vault : Survives(relay[v], relay'[v]), Seals' \subseteq Seals
      PROVE  SealInv'
  BY <1>a, <1>b, <1>c DEF SealInv
<1>1. CASE \/ Launch \/ Create \/ Restore \/ Open \/ Write \/ Command \/ ScheduleOrCancelDeletion
           \/ TriggerPull \/ executePairing \/ signOutThisDevice \/ RevokeSelf \/ SignedOut
           \/ PageDone
  <2>1. Seals' \subseteq Seals
    BY <1>1, SentKinds DEF Seals
  <2> QED
    BY <1>0, <1>1, <1>c, <2>1, SentKinds
<1>2. ASSUME NEW r \in net, NEW heard \in BOOLEAN, Arrive(r, heard) PROVE SealInv'
  <2> DEFINE answer == IF heard THEN Answer(r) ELSE "none"
  <2>1. /\ net' = NetAfter(r, answer)
        /\ IF Answer(r) = "ok" THEN Accept(r) ELSE UNCHANGED <<relay, sealed, left>>
    BY <1>2 DEF Arrive
  <2>2. answer = "ok" => Answer(r) = "ok"
    OBVIOUS
  <2> HIDE DEF answer
  <2>3. \A v \in Vault : Survives(relay[v], relay'[v])
    BY <1>0, <2>1, AcceptSurvives DEF SealInv
  <2>4. r \in Message
    BY DEF TypeInv, NetTyped
  <2>5. sealed' \subseteq Seals
    BY <2>1 DEF Accept, Seals
  <2>6. ASSUME NEW q \in net', q.kind = "seal", q \notin net
        PROVE  q.vault \in Vault /\ Registered(q)'
    <3>1. q = Seal(r) /\ r.kind = "register" /\ answer = "ok"
      BY <2>1, <2>6 DEF NetAfter
    <3>2. q.vault = r.vault /\ q.device = r.device /\ q.token = r.token
      BY <2>4, <3>1, SealOfMessage DEF Message
    <3>3. Pair(q) \in relay'[q.vault].devices
      BY <2>1, <2>2, <3>1, <3>2, AcceptSurvives DEF SealInv, Pair
    <3>4. q.vault \in Vault
      BY <2>2, <3>1, <3>2, OkHasVault
    <3> QED
      BY <3>3, <3>4 DEF Registered, Pair
  <2>7. ASSUME NEW q \in Seals' PROVE q.vault \in Vault /\ Registered(q)'
    <3>1. q \in sealed' \/ (q \in net' /\ q.kind = "seal")
      BY <2>7 DEF Seals
    <3>2. CASE q \in Seals
      BY <1>b, <2>3, <3>2
    <3>3. CASE q \notin Seals
      BY <2>5, <2>6, <3>1, <3>3 DEF Seals
    <3> QED
      BY <3>2, <3>3
  <2> QED
    BY <1>a, <2>3, <2>7 DEF SealInv
<1>3. ASSUME NEW r \in net, Lose(r) PROVE SealInv'
  <2>1. Seals' \subseteq Seals /\ relay' = relay
    BY <1>3 DEF Lose, Seals
  <2> QED
    BY <1>0, <1>c, <2>1
<1>4. CASE Crash
  <2>1. relay' = relay /\ sealed' = sealed
        /\ net' = {[q EXCEPT !.mine = FALSE] : q \in {q \in net : q.kind # "pull"}}
    BY <1>4 DEF Crash
  <2>2. ASSUME NEW p \in net', p.kind = "seal" PROVE p.vault \in Vault /\ Registered(p)'
    <3>1. PICK q \in net : p = [q EXCEPT !.mine = FALSE]
      BY <2>1
    <3>2. q \in Message
      BY DEF TypeInv, NetTyped
    <3>3. p.kind = q.kind /\ p.vault = q.vault /\ p.device = q.device /\ p.token = q.token
      BY <3>1, <3>2 DEF Message
    <3>4. q \in Seals
      BY <2>2, <3>3 DEF Seals
    <3>5. q.vault \in Vault /\ Registered(q)'
      BY <1>0, <1>b, <2>1, <3>4
    <3> QED
      BY <3>3, <3>5 DEF Registered, Pair
  <2>3. ASSUME NEW p \in Seals' PROVE p.vault \in Vault /\ Registered(p)'
    <3>1. p \in sealed => p \in Seals
      BY DEF Seals
    <3>2. p \in sealed \/ (p \in net' /\ p.kind = "seal")
      BY <2>1, <2>3 DEF Seals
    <3> QED
      BY <1>0, <1>b, <2>1, <2>2, <3>1, <3>2
  <2>4. NobodyBeforeBirth'
    BY <1>0, <1>a, <2>1
  <2> QED
    BY <2>3, <2>4 DEF SealInv
<1>5. CASE \E v \in Vault : OtherRevokes(v) \/ OtherPushes(v) \/ VaultEnds(v)
  <2>1. net' = net /\ sealed' = sealed
    BY <1>5 DEF OtherRevokes, OtherPushes, VaultEnds
  <2>2. \A v \in Vault : Survives(relay[v], relay'[v])
    BY <1>5, ElsewhereSurvives DEF SealInv
  <2>3. Seals' \subseteq Seals
    BY <2>1 DEF Seals
  <2> QED
    BY <1>c, <2>2, <2>3
<1>6. CASE \E p \in sealed : Expire(p)
  <2>1. Seals' \subseteq Seals /\ relay' = relay
    BY <1>6 DEF Expire, Seals
  <2> QED
    BY <1>0, <1>c, <2>1
<1>7. CASE vars' = vars
  <2>1. Seals' \subseteq Seals /\ relay' = relay
    BY <1>7 DEF vars, Seals
  <2> QED
    BY <1>0, <1>c, <2>1
<1> QED
  BY <1>1, <1>2, <1>3, <1>4, <1>5, <1>6, <1>7 DEF Next

\* executePairing registers the new device before it seals its payload, and a
\* payload that was sealed waits for a device that the relay knows, until somebody
\* removes that device or the vault: for any number of pairings that overlap.
THEOREM SealedRegistered == Spec => []SealedIsRegistered
<1>1. Init => SealInv
  BY DEF Init, SealInv, NobodyBeforeBirth, Seals
<1>2. SealInv => SealedIsRegistered
  BY DEF SealInv, SealedIsRegistered, Seals, Registered
<1> QED
  BY <1>1, <1>2, Typed, SealNext, PTL DEF Spec

-----------------------------------------------------------------------------
(* RevokedStaysOut *)

IsPending(r) == r.kind \in {"register", "claim"}

\* Whether a plan writes this device id.
Names(s, d) == \E i \in 1..Len(s) : s[i] = <<"device", d>>

\* A device that somebody knows.
Taken(d) ==
    \/ d = settings.device \/ d = services.device \/ d \in left
    \/ Names(writes, d)
    \/ \E v \in Vault : d \in relay[v].gone \/ \E p \in relay[v].devices : p[1] = d

\* Nobody but its own request knows a device that is still to be registered.
FreshInv ==
    \A r \in net : IsPending(r) =>
        /\ r.device \in used /\ r.token \in used /\ ~Taken(r.device)
        /\ \A q \in net \ {r} : q.device # r.device

LEMMA AcceptEffect ==
    ASSUME TypeInv, NEW r \in net, Answer(r) = "ok", Accept(r), NEW w \in Vault
    PROVE  /\ relay'[w].gone \subseteq relay[w].gone \cup {r.device}
           /\ r.kind # "delete" \/ w # r.vault => relay'[w].gone = relay[w].gone
           /\ r.kind = "delete" /\ w = r.vault => \A p \in relay'[w].devices : p[1] # r.device
           /\ \A p \in relay'[w].devices :
                 \/ p \in relay[w].devices
                 \/ p = Pair(r) /\ (IsPending(r) \/ (r.kind = "push" /\ relay[w].status = "unborn"))
<1>1. relay \in [Vault -> Vaults] /\ relay[w] \in Vaults
  BY DEF TypeInv, RelayTyped
<1>2. r.kind \in {"claim", "push", "pull", "register", "seal", "delete"}
  BY FieldsOfMessage DEF TypeInv, NetTyped
<1>3. CASE r.kind \in {"seal", "pull"}
  BY <1>3 DEF Accept
<1>4. CASE r.kind \notin {"seal", "pull"}
  <2>1. PICK v \in Vault : v = r.vault
    BY <1>4, OkHasVault
  <2>2. CASE r.kind \in {"register", "claim"}
    <3>1. relay' = [relay EXCEPT ![v] = [relay[v] EXCEPT !.devices = @ \cup {Pair(r)}]]
      BY <2>1, <2>2 DEF Accept, AddDevice
    <3>2. relay'[w] = IF w = v THEN [relay[w] EXCEPT !.devices = @ \cup {Pair(r)}] ELSE relay[w]
      BY <1>1, <3>1
    <3>3. /\ relay'[w].gone = relay[w].gone
          /\ relay'[w].devices \subseteq relay[w].devices \cup {Pair(r)}
      BY <1>1, <3>2 DEF Vaults
    <3>4. IsPending(r) /\ r.kind # "delete"
      BY <2>2 DEF IsPending
    <3> QED
      BY <3>3, <3>4
  <2>3. CASE r.kind = "delete"
    <3>1. relay' = [relay EXCEPT ![v] = [relay[v] EXCEPT !.devices = {p \in @ : p[1] # r.device},
                                                         !.gone = @ \cup {r.device}]]
      BY <1>1, <2>1, <2>3 DEF Accept, RemoveDevice
    <3>2. relay'[w] = IF w = v THEN [relay[w] EXCEPT !.devices = {p \in @ : p[1] # r.device},
                                                     !.gone = @ \cup {r.device}]
                               ELSE relay[w]
      BY <1>1, <3>1
    <3>3. IF w = v THEN /\ relay'[w].gone = relay[w].gone \cup {r.device}
                        /\ relay'[w].devices = {p \in relay[w].devices : p[1] # r.device}
                   ELSE relay'[w] = relay[w]
      BY <1>1, <3>2 DEF Vaults
    <3> QED
      BY <2>1, <2>3, <3>3
  <2>4. CASE r.kind = "push"
    <3>1. \/ relay' = [relay EXCEPT ![v] = [relay[v] EXCEPT !.log = @ + 1]]
          \/ /\ relay' = [relay EXCEPT ![v] = [relay[v] EXCEPT !.log = @ + 1, !.status = "live",
                                                               !.devices = {Pair(r)}]]
             /\ relay[v].status = "unborn"
      BY <1>1, <2>1, <2>4 DEF Accept, Stored, Initialised
    <3>2. \/ relay'[w] = relay[w]
          \/ w = v /\ relay'[w] = [relay[w] EXCEPT !.log = @ + 1]
          \/ /\ w = v /\ relay'[w] = [relay[w] EXCEPT !.log = @ + 1, !.status = "live",
                                                      !.devices = {Pair(r)}]
             /\ relay[w].status = "unborn"
      BY <1>1, <3>1
    <3>3. /\ relay'[w].gone = relay[w].gone
          /\ \/ relay'[w].devices = relay[w].devices
             \/ relay'[w].devices = {Pair(r)} /\ relay[w].status = "unborn"
      BY <1>1, <3>2 DEF Vaults
    <3> QED
      BY <2>4, <3>3
  <2> QED
    BY <1>2, <1>4, <2>2, <2>3, <2>4
<1> QED
  BY <1>3, <1>4

LEMMA ElsewhereEffect ==
    ASSUME TypeInv, NEW u \in Vault, OtherRevokes(u) \/ OtherPushes(u) \/ VaultEnds(u), NEW w \in Vault
    PROVE  /\ relay'[w].devices \subseteq relay[w].devices
           /\ \A d \in relay'[w].gone : \/ d \in relay[w].gone
                                        \/ /\ \E p \in relay[w].devices : p[1] = d
                                           /\ \A p \in relay'[w].devices : p[1] # d
<1>2. relay \in [Vault -> Vaults] /\ relay[w] \in Vaults
  BY DEF TypeInv, RelayTyped
<1>3. CASE OtherRevokes(u)
  <2>1. PICK p \in relay[u].devices : relay' = RemoveDevice(u, p[1])
    BY <1>3 DEF OtherRevokes
  <2>2. PICK d : d = p[1]
    OBVIOUS
  <2>3. relay' = [relay EXCEPT ![u] = [relay[u] EXCEPT !.devices = {q \in @ : q[1] # d},
                                                       !.gone = @ \cup {d}]]
    BY <1>2, <2>1, <2>2 DEF RemoveDevice
  <2>4. relay'[w] = IF w = u THEN [relay[w] EXCEPT !.devices = {q \in @ : q[1] # d}, !.gone = @ \cup {d}]
                             ELSE relay[w]
    BY <1>2, <2>3
  <2>5. IF w = u THEN /\ relay'[w].gone = relay[w].gone \cup {d}
                      /\ relay'[w].devices = {q \in relay[w].devices : q[1] # d}
                 ELSE relay'[w] = relay[w]
    BY <1>2, <2>4 DEF Vaults
  <2> QED
    BY <2>1, <2>2, <2>5
<1>4. CASE OtherPushes(u)
  <2>1. relay' = [relay EXCEPT ![u] = [relay[u] EXCEPT !.log = @ + 1]]
    BY <1>2, <1>4 DEF OtherPushes
  <2>2. relay'[w] = relay[w] \/ relay'[w] = [relay[w] EXCEPT !.log = @ + 1]
    BY <1>2, <2>1
  <2>3. relay'[w].gone = relay[w].gone /\ relay'[w].devices = relay[w].devices
    BY <1>2, <2>2 DEF Vaults
  <2> QED
    BY <2>3
<1>5. CASE VaultEnds(u)
  <2>1. relay'[w].gone = relay[w].gone /\ relay'[w].devices \subseteq relay[w].devices
    BY <1>5, EndsFields
  <2> QED
    BY <2>1
<1> QED
  BY <1>3, <1>4, <1>5

LEMMA OutNext ==
    ASSUME TypeInv, SealInv, FreshInv, RevokedStaysOut, [Next]_vars
    PROVE  RevokedStaysOut'
<1>1. ASSUME relay' = relay PROVE RevokedStaysOut'
  BY <1>1 DEF RevokedStaysOut
<1>2. ASSUME NEW r \in net, Answer(r) = "ok", Accept(r) PROVE RevokedStaysOut'
  <2> SUFFICES ASSUME NEW w \in Vault, NEW p \in relay'[w].devices, p[1] \in relay'[w].gone
               PROVE  FALSE
    BY DEF RevokedStaysOut
  <2>1. Pair(r)[1] = r.device
    BY DEF Pair
  <2>2. CASE r.kind = "delete" /\ w = r.vault
    <3>1. p[1] # r.device /\ p \in relay[w].devices
      BY <1>2, <2>2, SealInv, AcceptEffect DEF IsPending, SealInv, NobodyBeforeBirth
    <3> QED
      BY <1>2, <3>1, AcceptEffect DEF RevokedStaysOut
  <2>3. CASE ~(r.kind = "delete" /\ w = r.vault)
    <3>1. relay'[w].gone = relay[w].gone
      BY <1>2, <2>3, AcceptEffect
    <3>2. CASE p \in relay[w].devices
      BY <3>1, <3>2 DEF RevokedStaysOut
    <3>3. CASE p = Pair(r) /\ IsPending(r)
      <4>1. r.device \notin relay[w].gone
        BY <3>3 DEF FreshInv, Taken
      <4> QED
        BY <2>1, <3>1, <3>3, <4>1
    <3>4. CASE relay[w].status = "unborn"
      BY <3>1, <3>4 DEF SealInv, NobodyBeforeBirth
    <3> QED
      BY <1>2, <3>2, <3>3, <3>4, AcceptEffect
  <2> QED
    BY <2>2, <2>3
<1>3. ASSUME NEW r \in net, NEW heard \in BOOLEAN, Arrive(r, heard) PROVE RevokedStaysOut'
  BY <1>1, <1>2, <1>3 DEF Arrive
<1>4. ASSUME NEW u \in Vault, OtherRevokes(u) \/ OtherPushes(u) \/ VaultEnds(u) PROVE RevokedStaysOut'
  <2> SUFFICES ASSUME NEW w \in Vault, NEW p \in relay'[w].devices, p[1] \in relay'[w].gone
               PROVE  FALSE
    BY DEF RevokedStaysOut
  <2>1. p \in relay[w].devices /\ p[1] \in relay[w].gone
    BY <1>4, ElsewhereEffect
  <2> QED
    BY <2>1 DEF RevokedStaysOut
<1>5. CASE \/ Launch \/ Create \/ Restore \/ Open \/ Write \/ Command \/ ScheduleOrCancelDeletion
           \/ TriggerPull \/ executePairing \/ signOutThisDevice \/ RevokeSelf \/ SignedOut
           \/ PageDone
  BY <1>1, <1>5, SentKinds
<1>6. CASE Crash \/ (\E r \in net : Lose(r)) \/ (\E p \in sealed : Expire(p)) \/ vars' = vars
  BY <1>1, <1>6 DEF Crash, Lose, Expire, vars
<1> QED
  BY <1>3, <1>4, <1>5, <1>6 DEF Next

LEMMA TakenIsUsed ==
    ASSUME TypeInv, NEW d, Taken(d) PROVE d \in used \cup {None, Blank}
<1>1. CASE d = settings.device \/ d = services.device \/ d \in left
  BY <1>1, SettingsFields, FieldsOfServices DEF TypeInv
<1>2. CASE Names(writes, d)
  <2>1. PICK i \in 1..Len(writes) : writes[i] = <<"device", d>>
    BY <1>2 DEF Names
  <2>2. writes[i][2] \in HeldBy(writes[i][1], known, used)
    BY DEF TypeInv, PlanTyped, Plan
  <2>3. writes[i][1] = "device" /\ writes[i][2] = d
    BY <2>1
  <2> QED
    BY <2>2, <2>3 DEF HeldBy
<1>3. CASE \E v \in Vault : d \in relay[v].gone \/ \E p \in relay[v].devices : p[1] = d
  BY <1>3, FieldsOfVault
<1> QED
  BY <1>1, <1>2, <1>3 DEF Taken

LEMMA NamesCat ==
    ASSUME NEW S, NEW s \in Seq(S), NEW q \in Seq(S), NEW d, Names(s \o q, d)
    PROVE  Names(s, d) \/ Names(q, d)
<1>1. PICK i \in 1..Len(s \o q) : (s \o q)[i] = <<"device", d>>
  BY DEF Names
<1>2. CASE i <= Len(s)
  <2>1. i \in 1..Len(s) /\ (s \o q)[i] = s[i]
    BY <1>1, <1>2
  <2> QED
    BY <1>1, <2>1 DEF Names
<1>3. CASE ~(i <= Len(s))
  <2>1. i - Len(s) \in 1..Len(q) /\ (s \o q)[i] = q[i - Len(s)]
    BY <1>1, <1>3
  <2> QED
    BY <1>1, <2>1 DEF Names
<1> QED
  BY <1>2, <1>3

LEMMA NamesOne ==
    ASSUME NEW e, NEW d, e[1] # "device" \/ e[2] # d
    PROVE  ~Names(<<e>>, d)
<1> SUFFICES ASSUME Names(<<e>>, d) PROVE FALSE
  OBVIOUS
<1>1. PICK i \in 1..1 : <<e>>[i] = <<"device", d>>
  BY DEF Names
<1>2. e = <<"device", d>>
  BY <1>1
<1> QED
  BY <1>2

LEMMA PlanNames ==
    ASSUME NEW d, d # Blank, NEW v, NEW e, NEW t, NEW n, NEW x
    PROVE  /\ Names(persistVault(v, e, "Mac"), d) => d = e
           /\ Names(restoredVault(v, e, t), d) => d = e
           /\ ~Names(signedOut, d)
           /\ ~Names(<< <<"revocation", x>> >>, d) /\ ~Names(<< <<"cursor", n>> >>, d)
           /\ ~Names(wipeLocalVault \o << <<"cursor", Blank>> >> \o << <<"cursor", n>> >>, d)
           /\ ~Names(<<>>, d)
<1>1. ASSUME NEW m, Names(persistVault(v, e, m), d) PROVE d = e
  BY <1>1 DEF Names, persistVault
<1>2. ~Names(wipeLocalVault, d)
  BY DEF Names, wipeLocalVault
<1>3. /\ ~Names(<< <<"revocation", x>> >>, d) /\ ~Names(<< <<"cursor", n>> >>, d)
      /\ ~Names(<< <<"revocation", Blank>> >>, d) /\ ~Names(<< <<"cursor", Blank>> >>, d)
      /\ ~Names(<< <<"token", t>> >>, d)
  BY NamesOne
<1>4. ~Names(<<>>, d)
  BY DEF Names
<1> DEFINE S == {<<"key", v>>, <<"id", v>>, <<"device", e>>, <<"name", "Restored device">>, <<"token", t>>,
                 <<"key", Blank>>, <<"token", Blank>>, <<"id", Blank>>, <<"device", Blank>>,
                 <<"name", Blank>>, <<"queue", Blank>>, <<"revocation", Blank>>, <<"cursor", Blank>>,
                 <<"cursor", n>>}
<1>5. /\ <<"key", v>> \in S /\ <<"id", v>> \in S /\ <<"device", e>> \in S
      /\ <<"name", "Restored device">> \in S /\ <<"token", t>> \in S
  OBVIOUS
<1>6. /\ <<"key", Blank>> \in S /\ <<"token", Blank>> \in S /\ <<"id", Blank>> \in S
      /\ <<"device", Blank>> \in S /\ <<"name", Blank>> \in S /\ <<"queue", Blank>> \in S
  OBVIOUS
<1>7. <<"revocation", Blank>> \in S /\ <<"cursor", Blank>> \in S /\ <<"cursor", n>> \in S
  OBVIOUS
<1> HIDE DEF S
<1>8. \A a \in S : <<a>> \in Seq(S)
  OBVIOUS
<1>9. wipeLocalVault \in Seq(S)
  BY <1>6 DEF wipeLocalVault
<1>10. persistVault(v, e, "Restored device") \in Seq(S)
  <2>1. \A a, b, c, f \in S : <<a, b, c, f>> \in Seq(S)
    OBVIOUS
  <2> QED
    BY <1>5, <2>1, Zenon DEF persistVault
<1>11. ~Names(signedOut, d)
  BY <1>2, <1>3, <1>7, <1>8, <1>9, NamesCat DEF signedOut
<1>12. Names(restoredVault(v, e, t), d) => d = e
  <2>1. << <<"token", t>> >> \in Seq(S)
    BY <1>5, <1>8
  <2>2. Names(restoredVault(v, e, t), d) => Names(persistVault(v, e, "Restored device"), d)
    BY <1>3, <1>10, <2>1, NamesCat, Zenon DEF restoredVault
  <2> QED
    BY <1>1, <2>2
<1>13. ~Names(wipeLocalVault \o << <<"cursor", Blank>> >> \o << <<"cursor", n>> >>, d)
  <2>1. PICK a \in Seq(S) : a = << <<"cursor", Blank>> >>
    BY <1>7, <1>8
  <2>2. PICK b \in Seq(S) : b = << <<"cursor", n>> >>
    BY <1>7, <1>8
  <2>3. PICK w \in Seq(S) : w = wipeLocalVault
    BY <1>9
  <2>4. w \o a \in Seq(S)
    OBVIOUS
  <2>5. ~Names(w, d) /\ ~Names(a, d) /\ ~Names(b, d)
    BY <1>2, <1>3, <2>1, <2>2, <2>3
  <2>6. ~Names(w \o a, d)
    BY <2>5, NamesCat
  <2>7. ~Names((w \o a) \o b, d)
    BY <2>4, <2>5, <2>6, NamesCat
  <2> QED
    BY <2>1, <2>2, <2>3, <2>7
<1> QED
  BY <1>1, <1>3, <1>4, <1>11, <1>12, <1>13

\* A step of the installation, or the death of its process, makes no device known
\* that was generated before.
LEMMA TakenLocal ==
    ASSUME TypeInv,
           \/ Launch \/ Create \/ Restore \/ Open \/ Write \/ Command \/ ScheduleOrCancelDeletion
           \/ TriggerPull \/ executePairing \/ signOutThisDevice \/ RevokeSelf \/ SignedOut
           \/ PageDone \/ Crash,
           NEW d \in used, Taken(d)'
    PROVE  Taken(d)
<1>0. d # None /\ d # Blank /\ used \subseteq Id
  BY SentinelAssumption DEF TypeInv
<1>1. relay' = relay /\ left' = left
  BY SentKinds DEF Crash
<1>2. CASE d \in left' \/ \E v \in Vault : d \in relay'[v].gone \/ \E p \in relay'[v].devices : p[1] = d
  BY <1>1, <1>2 DEF Taken
<1>3. settings \in [Fields -> Values] /\ "device" \in Fields
  BY DEF TypeInv, DiskTyped, Fields
<1>4. CASE d = settings'.device
  <2>1. CASE Write
    <3>1. writes # <<>> /\ settings' = [settings EXCEPT ![Head(writes)[1]] = Head(writes)[2]]
      BY <2>1 DEF Write
    <3>2. writes \in Seq(Entries(known, used))
      BY PlanIsSeq DEF TypeInv, PlanTyped
    <3>3. CASE Head(writes)[1] = "device"
      <4>1. settings'.device = Head(writes)[2]
        BY <1>3, <3>1, <3>3
      <4>2. Head(writes) = writes[1] /\ 1 \in 1..Len(writes) /\ writes[1] \in Entries(known, used)
        BY <3>1, <3>2
      <4>3. writes[1] = <<"device", d>>
        BY <1>4, <3>3, <4>1, <4>2 DEF Entries
      <4> QED
        BY <4>2, <4>3 DEF Taken, Names
    <3>4. CASE Head(writes)[1] # "device"
      <4>1. settings'.device = settings.device
        BY <1>3, <3>1, <3>4
      <4> QED
        BY <1>4, <4>1 DEF Taken
    <3> QED
      BY <3>3, <3>4
  <2>2. CASE ~Write
    <3>1. \/ settings' = settings
          \/ settings' = [settings EXCEPT !.queue = "[...]"]
          \/ \E x : settings' = [settings EXCEPT !.token = x]
      BY <2>2 DEF Launch, Create, Restore, Open, Command, ScheduleOrCancelDeletion, TriggerPull,
                  executePairing, signOutThisDevice, RevokeSelf, SignedOut, PageDone, Crash, local,
                  buildServices, Enqueued
    <3>2. settings'.device = settings.device
      BY <1>3, <3>1
    <3> QED
      BY <1>4, <3>2 DEF Taken
  <2> QED
    BY <2>1, <2>2
<1>5. CASE d = services'.device
  <2>1. \/ services' = services \/ services' = [services EXCEPT !.ready = TRUE]
        \/ services' = NoServices
        \/ \E x : services' = [vault |-> settings.id, device |-> settings.device,
                               token |-> x, ready |-> FALSE]
    BY DEF Launch, Create, Restore, Open, Write, Command, ScheduleOrCancelDeletion, TriggerPull,
           executePairing, signOutThisDevice, RevokeSelf, SignedOut, PageDone, Crash, local,
           buildServices, Enqueued
  <2>2. services'.device \in {services.device, settings.device, None}
    <3>1. services \in [vault : known \cup {None, Blank}, device : used \cup {None, Blank},
                        token : used \cup {None, Blank}, ready : BOOLEAN]
      BY DEF TypeInv, ServicesTyped
    <3> QED
      BY <2>1, <3>1 DEF NoServices
  <2> QED
    BY <1>0, <1>5, <2>2 DEF Taken
<1>6. CASE Names(writes', d)
  <2>1. CASE Create
    <3>1. PICK v, e : e \notin used /\ writes' = persistVault(v, e, "Mac")
      BY <2>1 DEF Create, Writes
    <3> QED
      BY <1>0, <1>6, <3>1, PlanNames
  <2>2. CASE signOutThisDevice
    <3>1. writes' = << <<"revocation", services.device>> >>
      BY <2>2 DEF signOutThisDevice, Writes
    <3> QED
      BY <1>0, <1>6, <3>1, PlanNames
  <2>3. CASE Write
    <3>1. writes # <<>> /\ writes' = Tail(writes)
      BY <2>3 DEF Write
    <3>2. writes \in Seq(Entries(known, used))
      BY PlanIsSeq DEF TypeInv, PlanTyped
    <3>3. PICK i \in 1..Len(writes') : writes'[i] = <<"device", d>>
      BY <1>6 DEF Names
    <3>4. i + 1 \in 1..Len(writes) /\ writes[i + 1] = writes'[i]
      BY <3>1, <3>2, <3>3
    <3>5. Names(writes, d)
      BY <3>3, <3>4 DEF Names
    <3> QED
      BY <3>5 DEF Taken
  <2>4. CASE Crash
    <3>1. writes' = <<>>
      BY <2>4 DEF Crash
    <3> QED
      BY <1>0, <1>6, <3>1, PlanNames
  <2>5. CASE ~(Create \/ signOutThisDevice \/ Write \/ Crash)
    <3>1. writes' = writes
      BY <2>5 DEF Launch, Restore, Open, Command, ScheduleOrCancelDeletion, TriggerPull,
                  executePairing, RevokeSelf, SignedOut, PageDone, local
    <3>2. Names(writes, d)
      BY <1>6, <3>1 DEF Names
    <3> QED
      BY <3>2 DEF Taken
  <2> QED
    BY <2>1, <2>2, <2>3, <2>4, <2>5
<1> QED
  BY <1>2, <1>4, <1>5, <1>6 DEF Taken

\* What a request that arrives, or is lost, makes known is its own device.
LEMMA TakenByRequest ==
    ASSUME TypeInv, NEW r \in net, NEW heard \in BOOLEAN, Arrive(r, heard) \/ Lose(r),
           NEW d \in used, d # r.device, Taken(d)'
    PROVE  Taken(d)
<1>0. d # None /\ d # Blank
  BY SentinelAssumption DEF TypeInv
<1>1. services' = services
  BY DEF Arrive, Lose
<1>2. /\ settings' = settings \/ settings' = [settings EXCEPT !.queue = "[...]"]
      /\ Names(writes', d) => Names(writes, d)
  <2>1. PICK answer : IF r.mine THEN React(r, answer) ELSE Unmoved
    BY DEF Arrive, Lose
  <2>2. r.kind \in {"claim", "push", "pull", "register", "seal", "delete"}
    BY FieldsOfMessage DEF TypeInv, NetTyped
  <2>3. CASE Unmoved
    BY <2>3 DEF Unmoved
  <2>4. CASE QueueWritten
    BY <2>4 DEF QueueWritten
  <2>5. CASE settings' = settings /\ writes' = signedOut
    BY <1>0, <2>5, PlanNames
  <2>6. CASE settings' = settings /\ writes' = restoredVault(r.vault, r.device, r.token)
    BY <1>0, <2>6, PlanNames
  <2>7. CASE settings' = settings /\ pageApplied(r)
    <3>1. PICK n : \/ writes' = << <<"cursor", n>> >>
                   \/ writes' = wipeLocalVault \o << <<"cursor", Blank>> >> \o << <<"cursor", n>> >>
      BY <2>7 DEF pageApplied, writeCursor, Writes
    <3> QED
      BY <1>0, <2>7, <3>1, PlanNames
  <2> QED
    BY <2>1, <2>2, <2>3, <2>4, <2>5, <2>6, <2>7, Reaction DEF Writes
<1>3. settings'.device = settings.device
  BY <1>2 DEF TypeInv, DiskTyped, Fields
<1>4. /\ d \in left' => d \in left
      /\ \A v \in Vault : /\ d \in relay'[v].gone => d \in relay[v].gone
                          /\ \A p \in relay'[v].devices : p[1] = d => p \in relay[v].devices
  <2>1. CASE relay' = relay /\ left' = left
    BY <2>1
  <2>2. CASE Answer(r) = "ok" /\ Accept(r)
    <3>1. d \in left' => d \in left
      BY <2>2 DEF Accept
    <3>2. Pair(r)[1] = r.device
      BY DEF Pair
    <3> QED
      BY <2>2, <3>1, <3>2, AcceptEffect
  <2> QED
    BY <2>1, <2>2 DEF Arrive, Lose, history
<1> QED
  BY <1>1, <1>2, <1>3, <1>4 DEF Taken

LEMMA RequestDevice ==
    /\ Push.device = services.device /\ Pull.device = services.device /\ Delete.device = services.device
    /\ \A v, d, t : /\ Request("claim", v, None, d, t).device = d
                    /\ Request("claim", v, None, d, t).token = t
                    /\ Request("claim", v, None, d, t).kind = "claim"
BY DEF Push, Pull, Delete, Request

LEMMA RegisterDevice ==
    ASSUME NEW v, NEW a, NEW d, NEW t, NEW k
    PROVE  /\ [Request("register", v, a, d, t) EXCEPT !.key = k].device = d
           /\ [Request("register", v, a, d, t) EXCEPT !.key = k].token = t
           /\ [Request("register", v, a, d, t) EXCEPT !.key = k].kind = "register"
BY DEF Request

\* One more pending request, for a device that was not generated before.
LEMMA FreshRequest ==
    ASSUME TypeInv, FreshInv, NEW q, NEW d \in Id \ used, q.device = d, q.token \in used', IsPending(q),
           net' = net \cup {q}, d \in used', used \subseteq used',
           \A e : Taken(e)' <=> Taken(e)
    PROVE  FreshInv'
<1>1. \A r \in net : r.device # d /\ r.device \in used \cup {None, Blank}
  BY FieldsOfMessage, SentinelAssumption DEF TypeInv, NetTyped
<1>2. ~Taken(d)
  BY TakenIsUsed, SentinelAssumption
<1> QED
  BY <1>1, <1>2 DEF FreshInv, IsPending

LEMMA FreshNext ==
    ASSUME TypeInv, FreshInv, [Next]_vars
    PROVE  FreshInv'
<1>1. used \subseteq used'
  BY Grows DEF vars, history
<1>2. CASE Restore
  <2>1. PICK v \in known, d \in Id \ used, t \in Id \ used :
            used' = used \cup {d, t} /\ net' = net \cup {Request("claim", v, None, d, t)}
    BY <1>2 DEF Restore, Send
  <2>2. \A e : Taken(e)' <=> Taken(e)
    BY <1>2 DEF Restore, local, Taken, Names
  <2>3. PICK q : q = Request("claim", v, None, d, t)
    OBVIOUS
  <2>4. q.device = d /\ q.token \in used' /\ IsPending(q)
    BY <2>1, <2>3, RequestDevice DEF IsPending
  <2> QED
    BY <1>1, <2>1, <2>2, <2>3, <2>4, FreshRequest
<1>3. CASE executePairing
  <2>1. PICK d \in Id \ used, t \in Id \ used :
            /\ used' = used \cup {d, t}
            /\ net' = net \cup {[Request("register", settings.id, settings.token, d, t)
                                    EXCEPT !.key = settings.key]}
    BY <1>3 DEF executePairing, Send
  <2>2. \A e : Taken(e)' <=> Taken(e)
    BY <1>3 DEF executePairing, local, Taken, Names
  <2>3. PICK q : q = [Request("register", settings.id, settings.token, d, t) EXCEPT !.key = settings.key]
    OBVIOUS
  <2>4. q.device = d /\ q.token \in used' /\ IsPending(q)
    BY <2>1, <2>3, RegisterDevice DEF IsPending
  <2> QED
    BY <1>1, <2>1, <2>2, <2>3, <2>4, FreshRequest
<1>4. CASE \/ Launch \/ Create \/ Open \/ Write \/ Command \/ ScheduleOrCancelDeletion
           \/ TriggerPull \/ signOutThisDevice \/ RevokeSelf \/ SignedOut \/ PageDone
  <2>1. net' \subseteq net \cup {Push, Pull, Delete}
    BY <1>4 DEF Launch, Create, Open, Write, Command, ScheduleOrCancelDeletion, TriggerPull,
                signOutThisDevice, RevokeSelf, SignedOut, PageDone, Send
  <2>2. \A r \in net' : IsPending(r) => r \in net
    BY <2>1, Kinds DEF IsPending
  <2>3. \A r \in net' : IsPending(r) => ~Taken(r.device)'
    BY <1>4, <2>2, TakenLocal DEF FreshInv
  <2>4. \A r \in net' : IsPending(r) => \A q \in net' \ {r} : q.device # r.device
    BY <2>1, <2>2, RequestDevice DEF FreshInv, Taken
  <2> QED
    BY <1>1, <2>2, <2>3, <2>4 DEF FreshInv
<1>5. ASSUME NEW r \in net, NEW heard \in BOOLEAN, Arrive(r, heard) \/ Lose(r) PROVE FreshInv'
  <2>1. net' = net \ {r} \/ net' = (net \ {r}) \cup {Seal(r)}
    BY <1>5 DEF Arrive, Lose, NetAfter
  <2>2. r \in Message
    BY DEF TypeInv, NetTyped
  <2>3. Seal(r).kind = "seal" /\ Seal(r).device = r.device
    BY <2>2, SealOfMessage DEF Message
  <2>4. \A q \in net' : IsPending(q) => q \in net \ {r}
    BY <2>1, <2>3 DEF IsPending
  <2>5. \A q \in net' : IsPending(q) => ~Taken(q.device)'
    BY <1>5, <2>4, TakenByRequest DEF FreshInv
  <2>6. \A q \in net' : IsPending(q) => \A p \in net' \ {q} : p.device # q.device
    BY <2>1, <2>3, <2>4 DEF FreshInv
  <2> QED
    BY <1>1, <2>4, <2>5, <2>6 DEF FreshInv
<1>6. CASE Crash
  <2>1. net' = {[q EXCEPT !.mine = FALSE] : q \in {q \in net : q.kind # "pull"}}
    BY <1>6 DEF Crash
  <2>2. \A q \in net : [q EXCEPT !.mine = FALSE].kind = q.kind
                       /\ [q EXCEPT !.mine = FALSE].device = q.device
                       /\ [q EXCEPT !.mine = FALSE].token = q.token
    BY DEF TypeInv, NetTyped, Message
  <2> SUFFICES ASSUME NEW p \in net', IsPending(p)
               PROVE  /\ p.device \in used' /\ p.token \in used' /\ ~Taken(p.device)'
                      /\ \A s \in net' \ {p} : s.device # p.device
    BY DEF FreshInv
  <2>3. PICK q \in net : p = [q EXCEPT !.mine = FALSE]
    BY <2>1
  <2>4. IsPending(q) /\ p.device = q.device /\ p.token = q.token
    BY <2>2, <2>3 DEF IsPending
  <2>5. p.device \in used' /\ p.token \in used' /\ ~Taken(p.device)'
    BY <1>1, <1>6, <2>4, TakenLocal DEF FreshInv
  <2>6. ASSUME NEW s \in net' \ {p} PROVE s.device # p.device
    <3>1. PICK u \in net : s = [u EXCEPT !.mine = FALSE]
      BY <2>1
    <3>2. u # q
      BY <2>3, <3>1
    <3> QED
      BY <2>2, <2>4, <3>1, <3>2 DEF FreshInv
  <2> QED
    BY <2>5, <2>6
<1>7. CASE \E u \in Vault : OtherRevokes(u) \/ OtherPushes(u) \/ VaultEnds(u)
  <2>1. local' = local /\ net' = net /\ history' = history
    BY <1>7 DEF OtherRevokes, OtherPushes, VaultEnds
  <2>2. ASSUME NEW d, Taken(d)' PROVE Taken(d)
    <3>1. settings' = settings /\ services' = services /\ left' = left /\ writes' = writes
      BY <2>1 DEF local, history
    <3>2. ASSUME NEW v \in Vault, d \in relay'[v].gone \/ \E p \in relay'[v].devices : p[1] = d
          PROVE  Taken(d)
      BY <1>7, <3>2, ElsewhereEffect DEF Taken
    <3> QED
      BY <2>2, <3>1, <3>2 DEF Taken, Names
  <2> QED
    BY <1>1, <2>1, <2>2 DEF FreshInv
<1>8. CASE (\E p \in sealed : Expire(p)) \/ vars' = vars
  <2>1. local' = local /\ net' = net /\ history' = history /\ relay' = relay
    BY <1>8 DEF Expire, vars
  <2>2. \A d : Taken(d)' => Taken(d)
    BY <2>1 DEF local, history, Taken, Names
  <2> QED
    BY <1>1, <2>1, <2>2 DEF FreshInv
<1>9. ASSUME NEW r \in net, Arrive(r, TRUE) \/ Arrive(r, FALSE) \/ Lose(r) PROVE FreshInv'
  BY <1>5, <1>9
<1> QED
  BY <1>2, <1>3, <1>4, <1>6, <1>7, <1>8, <1>9 DEF Next

\* A device that was removed is never in the registry again: whatever requests
\* overlap, are repeated by a new process, arrive late or get lost.
THEOREM RevokedOut == Spec => []RevokedStaysOut
<1>1. Init => SealInv /\ FreshInv /\ RevokedStaysOut
  BY DEF Init, SealInv, NobodyBeforeBirth, Seals, FreshInv, RevokedStaysOut
<1> QED
  BY <1>1, Typed, SealNext, FreshNext, OutNext, PTL DEF Spec

-----------------------------------------------------------------------------
(* How far a handler's writes have come *)

\* What is still to be written is the end of this plan, and the rest is on disk;
\* the cursor excepted, which an executeVaultWipe writes twice.
Progress(plan) ==
    /\ Len(writes) <= Len(plan)
    /\ \A i \in 1..Len(writes) : writes[i] = plan[Len(plan) - Len(writes) + i]
    /\ \A j \in 1..(Len(plan) - Len(writes)) :
          plan[j][1] # "cursor" => settings[plan[j][1]] = plan[j][2]

\* No setting twice but the cursor.
Once(plan) ==
    \A i, j \in 1..Len(plan) : i # j /\ plan[i][1] = plan[j][1] => plan[i][1] = "cursor"

executed(n) == wipeLocalVault \o << <<"cursor", Blank>> >> \o << <<"cursor", n>> >>

PlanInv ==
    \/ writing = "none" /\ writes = <<>>
    \/ writing = "create" /\ \E v \in known, d \in used : Progress(persistVault(v, d, "Mac"))
    \/ writing = "restore" /\ \E v \in known, d, t \in used : Progress(restoredVault(v, d, t))
    \/ /\ writing = "flag" /\ services # NoServices
       /\ Progress(<< <<"revocation", services.device>> >>)
    \/ writing = "wipe" /\ Progress(signedOut)
    \/ writing = "page" /\ \E n \in Nat : Progress(<< <<"cursor", n>> >>)
    \/ writing = "execute" /\ \E n \in Nat : Progress(executed(n))

LEMMA Begun ==
    ASSUME NEW plan, Len(plan) \in Nat, writes' = plan
    PROVE  Progress(plan)'
<1>1. Len(writes') = Len(plan)
  OBVIOUS
<1>2. Len(writes') <= Len(plan)
  BY <1>1
<1>3. \A i \in 1..Len(writes') : writes'[i] = plan[Len(plan) - Len(writes') + i]
  <2> SUFFICES ASSUME NEW i \in 1..Len(plan) PROVE plan[i] = plan[Len(plan) - Len(plan) + i]
    OBVIOUS
  <2>1. Len(plan) - Len(plan) + i = i
    OBVIOUS
  <2> QED
    BY <2>1
<1>4. 1..(Len(plan) - Len(writes')) = {}
  BY <1>1
<1> QED
  BY <1>2, <1>3, <1>4 DEF Progress

LEMMA Waits ==
    ASSUME NEW plan, Progress(plan), writes' = writes, settings' = settings
    PROVE  Progress(plan)'
BY DEF Progress

LEMMA Goes ==
    ASSUME TypeInv, NEW plan, Len(plan) \in Nat, Once(plan), Progress(plan), Write,
           \A i \in 1..Len(plan) : plan[i][1] \in Fields
    PROVE  Progress(plan)'
<1>1. writes # <<>> /\ writes' = Tail(writes)
      /\ settings' = [settings EXCEPT ![Head(writes)[1]] = Head(writes)[2]]
  BY DEF Write
<1>2. writes \in Seq(Fields \X Values) /\ settings \in [Fields -> Values]
  BY DEF TypeInv, PlanTyped, Plan, DiskTyped
<1>3. /\ Len(writes') = Len(writes) - 1 /\ Len(writes) \in Nat /\ Len(writes) >= 1
      /\ \A i \in 1..Len(writes') : writes'[i] = writes[i + 1]
      /\ Head(writes) = writes[1]
  BY <1>1, <1>2
<1> DEFINE k == Len(plan) - Len(writes)
           e == writes[1]
<1>4. /\ Len(writes) <= Len(plan)
      /\ \A i \in 1..Len(writes) : writes[i] = plan[k + i]
      /\ \A j \in 1..k : plan[j][1] # "cursor" => settings[plan[j][1]] = plan[j][2]
  BY DEF Progress
<1>5. e = plan[k + 1] /\ k + 1 \in 1..Len(plan) /\ Len(plan) - Len(writes') = k + 1 /\ k \in Nat
  BY <1>3, <1>4
<1>6. settings' = [settings EXCEPT ![e[1]] = e[2]]
  BY <1>1, <1>3
<1> HIDE DEF k, e
<1>7. \A i \in 1..Len(writes') : writes'[i] = plan[(k + 1) + i]
  <2> SUFFICES ASSUME NEW i \in 1..Len(writes') PROVE writes'[i] = plan[(k + 1) + i]
    OBVIOUS
  <2>1. i + 1 \in 1..Len(writes) /\ k + (i + 1) = (k + 1) + i
    BY <1>3, <1>5
  <2>2. writes[i + 1] = plan[k + (i + 1)]
    BY <1>4, <2>1
  <2> QED
    BY <1>3, <2>1, <2>2
<1>8. ASSUME NEW j \in 1..(k + 1), plan[j][1] # "cursor" PROVE settings'[plan[j][1]] = plan[j][2]
  <2>1. plan[j][1] \in Fields /\ j \in 1..Len(plan)
    BY <1>5
  <2>2. CASE j = k + 1
    BY <1>2, <1>5, <1>6, <2>1, <2>2
  <2>3. CASE j # k + 1
    <3>1. j \in 1..k
      BY <1>5, <2>3
    <3>2. plan[j][1] # e[1]
      BY <1>5, <1>8, <2>1, <2>3 DEF Once
    <3> QED
      BY <1>2, <1>4, <1>6, <1>8, <2>1, <3>1, <3>2
  <2> QED
    BY <2>2, <2>3
<1>9. Len(writes') <= Len(plan)
  BY <1>3, <1>4
<1> QED
  BY <1>5, <1>7, <1>8, <1>9 DEF Progress

(* What is in the plans *)

LEMMA RestoredShape ==
    ASSUME NEW v, NEW d, NEW t
    PROVE  LET p == restoredVault(v, d, t)
           IN  /\ Len(p) = 5 /\ p[1] = <<"key", v>> /\ p[2] = <<"id", v>> /\ p[3] = <<"device", d>>
               /\ p[4][1] = "name" /\ p[5] = <<"token", t>>
<1>0. PICK m : m = "Restored device"
  OBVIOUS
<1>1. PICK p : p = persistVault(v, d, m) \o << <<"token", t>> >>
  OBVIOUS
<1>2. Len(p) = 5
  BY <1>1 DEF persistVault
<1>3. p[1] = <<"key", v>>
  BY <1>1 DEF persistVault
<1>4. p[2] = <<"id", v>>
  BY <1>1 DEF persistVault
<1>5. p[3] = <<"device", d>>
  BY <1>1 DEF persistVault
<1>6. p[4] = <<"name", m>>
  BY <1>1 DEF persistVault
<1>7. p[5] = <<"token", t>>
  BY <1>1 DEF persistVault
<1>8. restoredVault(v, d, t) = p
  BY <1>0, <1>1 DEF restoredVault
<1>9. p[4][1] = "name"
  BY <1>6
<1> QED
  BY <1>2, <1>3, <1>4, <1>5, <1>7, <1>8, <1>9

LEMMA WipeShape ==
    LET p == signedOut
    IN  /\ Len(p) = 7 /\ p[1] = <<"key", Blank>> /\ p[2] = <<"token", Blank>> /\ p[3] = <<"id", Blank>>
        /\ p[4] = <<"device", Blank>> /\ p[5] = <<"name", Blank>> /\ p[6] = <<"queue", Blank>>
        /\ p[7] = <<"revocation", Blank>>
<1>1. Len(signedOut) = 7
  BY DEF signedOut, wipeLocalVault
<1>2. signedOut[1] = <<"key", Blank>>
  BY DEF signedOut, wipeLocalVault
<1>3. signedOut[2] = <<"token", Blank>>
  BY DEF signedOut, wipeLocalVault
<1>4. signedOut[3] = <<"id", Blank>>
  BY DEF signedOut, wipeLocalVault
<1>5. signedOut[4] = <<"device", Blank>>
  BY DEF signedOut, wipeLocalVault
<1>6. signedOut[5] = <<"name", Blank>>
  BY DEF signedOut, wipeLocalVault
<1>7. signedOut[6] = <<"queue", Blank>>
  BY DEF signedOut, wipeLocalVault
<1>8. signedOut[7] = <<"revocation", Blank>>
  BY DEF signedOut, wipeLocalVault
<1> QED
  BY <1>1, <1>2, <1>3, <1>4, <1>5, <1>6, <1>7, <1>8

LEMMA ExecutedShape ==
    ASSUME NEW n
    PROVE  LET p == executed(n)
           IN  /\ Len(p) = 8 /\ p[1] = <<"key", Blank>> /\ p[2] = <<"token", Blank>>
               /\ p[3] = <<"id", Blank>> /\ p[4] = <<"device", Blank>> /\ p[5] = <<"name", Blank>>
               /\ p[6] = <<"queue", Blank>> /\ p[7] = <<"cursor", Blank>> /\ p[8] = <<"cursor", n>>
<1>1. Len(executed(n)) = 8
  BY DEF executed, wipeLocalVault
<1>2. executed(n)[1] = <<"key", Blank>>
  BY DEF executed, wipeLocalVault
<1>3. executed(n)[2] = <<"token", Blank>>
  BY DEF executed, wipeLocalVault
<1>4. executed(n)[3] = <<"id", Blank>>
  BY DEF executed, wipeLocalVault
<1>5. executed(n)[4] = <<"device", Blank>>
  BY DEF executed, wipeLocalVault
<1>6. executed(n)[5] = <<"name", Blank>>
  BY DEF executed, wipeLocalVault
<1>7. executed(n)[6] = <<"queue", Blank>>
  BY DEF executed, wipeLocalVault
<1>8. executed(n)[7] = <<"cursor", Blank>>
  BY DEF executed, wipeLocalVault
<1>9. executed(n)[8] = <<"cursor", n>>
  BY DEF executed, wipeLocalVault
<1> QED
  BY <1>1, <1>2, <1>3, <1>4, <1>5, <1>6, <1>7, <1>8, <1>9

WellFormed(plan) ==
    Len(plan) \in Nat /\ Once(plan) /\ \A i \in 1..Len(plan) : plan[i][1] \in Fields

LEMMA PlansWellFormed ==
    ASSUME NEW v, NEW d, NEW t, NEW x, NEW n
    PROVE  /\ WellFormed(persistVault(v, d, "Mac")) /\ WellFormed(restoredVault(v, d, t))
           /\ WellFormed(signedOut) /\ WellFormed(executed(n))
           /\ WellFormed(<< <<"revocation", x>> >>) /\ WellFormed(<< <<"cursor", n>> >>)
<1>1. WellFormed(persistVault(v, d, "Mac"))
  <2>1. PICK p : p = persistVault(v, d, "Mac")
    OBVIOUS
  <2>2. Len(p) = 4 /\ p[1][1] = "key" /\ p[2][1] = "id" /\ p[3][1] = "device" /\ p[4][1] = "name"
    BY <2>1, WrittenOut
  <2>3. WellFormed(p)
    BY <2>2 DEF WellFormed, Once, Fields
  <2> QED
    BY <2>1, <2>3
<1>2. WellFormed(restoredVault(v, d, t))
  <2>1. PICK p : p = restoredVault(v, d, t)
    OBVIOUS
  <2>2. Len(p) = 5 /\ p[1][1] = "key" /\ p[2][1] = "id" /\ p[3][1] = "device" /\ p[4][1] = "name"
        /\ p[5][1] = "token"
    BY <2>1, RestoredShape
  <2>3. WellFormed(p)
    BY <2>2 DEF WellFormed, Once, Fields
  <2> QED
    BY <2>1, <2>3
<1>3. WellFormed(signedOut)
  <2>1. PICK p : p = signedOut
    OBVIOUS
  <2>2. Len(p) = 7 /\ p[1][1] = "key" /\ p[2][1] = "token" /\ p[3][1] = "id" /\ p[4][1] = "device"
        /\ p[5][1] = "name" /\ p[6][1] = "queue" /\ p[7][1] = "revocation"
    BY <2>1, WipeShape
  <2>3. WellFormed(p)
    BY <2>2 DEF WellFormed, Once, Fields
  <2> QED
    BY <2>1, <2>3
<1>4. WellFormed(executed(n))
  <2>1. PICK p : p = executed(n)
    OBVIOUS
  <2>2. Len(p) = 8 /\ p[1][1] = "key" /\ p[2][1] = "token" /\ p[3][1] = "id" /\ p[4][1] = "device"
        /\ p[5][1] = "name" /\ p[6][1] = "queue" /\ p[7][1] = "cursor" /\ p[8][1] = "cursor"
    BY <2>1, ExecutedShape
  <2>3. WellFormed(p)
    BY <2>2 DEF WellFormed, Once, Fields
  <2> QED
    BY <2>1, <2>3
<1>5. WellFormed(<< <<"revocation", x>> >>)
  BY DEF WellFormed, Once, Fields
<1>6. WellFormed(<< <<"cursor", n>> >>)
  BY DEF WellFormed, Once, Fields
<1> QED
  BY <1>1, <1>2, <1>3, <1>4, <1>5, <1>6

\* A plan of which nothing is left is on disk.
LEMMA Finished ==
    ASSUME TypeInv, PlanInv, writes = <<>>
    PROVE  /\ writing \in {"create", "restore"} =>
                 /\ settings.id \in known /\ settings.key = settings.id /\ settings.device \in used
           /\ writing = "wipe" => settings.id = Blank
           /\ writing = "flag" => services # NoServices /\ settings.revocation = services.device
<1>0. Len(writes) = 0
  OBVIOUS
<1>1. ASSUME NEW p, Progress(p), NEW j, Len(p) \in Nat, j \in 1..Len(p), p[j][1] # "cursor"
      PROVE  settings[p[j][1]] = p[j][2]
  BY <1>0, <1>1 DEF Progress
<1>2. ASSUME NEW v \in known, NEW d \in used, Progress(persistVault(v, d, "Mac"))
      PROVE  settings.id \in known /\ settings.key = settings.id /\ settings.device \in used
  <2>1. PICK p : p = persistVault(v, d, "Mac")
    OBVIOUS
  <2>2. Len(p) = 4 /\ p[1] = <<"key", v>> /\ p[2] = <<"id", v>> /\ p[3] = <<"device", d>>
    BY <2>1, WrittenOut
  <2>3. settings["key"] = v /\ settings["id"] = v /\ settings["device"] = d
    BY <1>1, <1>2, <2>1, <2>2
  <2> QED
    BY <2>3
<1>3. ASSUME NEW v \in known, NEW d \in used, NEW t \in used, Progress(restoredVault(v, d, t))
      PROVE  settings.id \in known /\ settings.key = settings.id /\ settings.device \in used
  <2>1. PICK p : p = restoredVault(v, d, t)
    OBVIOUS
  <2>2. Len(p) = 5 /\ p[1] = <<"key", v>> /\ p[2] = <<"id", v>> /\ p[3] = <<"device", d>>
    BY <2>1, RestoredShape
  <2>3. Progress(p) /\ 1 \in 1..Len(p) /\ 2 \in 1..Len(p) /\ 3 \in 1..Len(p)
    BY <1>3, <2>1, <2>2
  <2>4. settings["key"] = v /\ settings["id"] = v /\ settings["device"] = d
    BY <1>1, <2>2, <2>3
  <2> QED
    BY <2>4
<1>4. ASSUME Progress(signedOut) PROVE settings.id = Blank
  <2>1. Len(signedOut) = 7 /\ signedOut[3] = <<"id", Blank>>
    BY WipeShape
  <2> QED
    BY <1>1, <1>4, <2>1
<1>5. ASSUME NEW x, Progress(<< <<"revocation", x>> >>) PROVE settings.revocation = x
  BY <1>0, <1>5 DEF Progress
<1> QED
  BY <1>2, <1>3, <1>4, <1>5 DEF PlanInv

ScreenInv ==
    /\ screen \in {"off", "welcome", "inbox", "leaving", "loading"}
    /\ screen \in {"inbox", "leaving"} => services # NoServices
    /\ screen = "off" => writing = "none" /\ \A r \in net : ~r.mine

LEMMA BuiltServices ==
    ASSUME buildServices, settings.id # None PROVE services' # NoServices
<1>1. PICK token : services' = [vault |-> settings.id, device |-> settings.device,
                                token |-> token, ready |-> FALSE]
  BY DEF buildServices
<1> QED
  BY <1>1 DEF NoServices

LEMMA EnqueuedServices ==
    ASSUME TypeInv, Enqueued, services # NoServices PROVE services' # NoServices
<1>1. services \in [vault : known \cup {None, Blank}, device : used \cup {None, Blank},
                    token : used \cup {None, Blank}, ready : BOOLEAN]
  BY DEF TypeInv, ServicesTyped
<1>2. services' = [services EXCEPT !.ready = TRUE]
  BY DEF Enqueued
<1> QED
  BY <1>1, <1>2 DEF NoServices

LEMMA ScreenNext ==
    ASSUME TypeInv, PlanInv, ScreenInv, [Next]_vars PROVE ScreenInv'
<1>1. CASE Launch
  <2>1. CASE HasVault
    <3>1. buildServices /\ screen' = "inbox"
      BY <1>1, <2>1 DEF Launch, buildServices
    <3>2. services' # NoServices
      BY <2>1, <3>1, BuiltServices DEF HasVault
    <3> QED
      BY <3>1, <3>2 DEF ScreenInv
  <2>2. CASE ~HasVault
    <3>1. screen' = "welcome"
      BY <1>1, <2>2 DEF Launch
    <3> QED
      BY <3>1 DEF ScreenInv
  <2> QED
    BY <2>1, <2>2
<1>2. CASE Open
  <2>1. buildServices /\ screen' = "inbox" /\ settings.id \in known
    BY <1>2, Finished DEF Open, buildServices
  <2>2. settings.id # None
    BY <2>1, SentinelAssumption DEF TypeInv
  <2> QED
    BY <2>1, <2>2, BuiltServices DEF ScreenInv
<1>3. CASE Command \/ ScheduleOrCancelDeletion
  <2>1. screen = "inbox" /\ screen' = screen /\ Enqueued
    BY <1>3 DEF Command, ScheduleOrCancelDeletion, InVault
  <2> QED
    BY <2>1, EnqueuedServices DEF ScreenInv
<1>4. CASE RevokeSelf
  <2>1. services # NoServices
    BY <1>4, Finished DEF RevokeSelf
  <2>2. services' # NoServices
    BY <1>4, <2>1, EnqueuedServices DEF RevokeSelf
  <2>3. screen # "off" /\ screen' \in {screen, "inbox"}
    BY <1>4 DEF RevokeSelf, ScreenInv
  <2> QED
    BY <2>2, <2>3 DEF ScreenInv
<1>5. ASSUME NEW r \in net, NEW heard \in BOOLEAN, Arrive(r, heard) \/ Lose(r) PROVE ScreenInv'
  <2>1. services' = services
    BY <1>5 DEF Arrive, Lose
  <2>2. /\ screen' \in {screen, Stays, Paired}
        /\ ~r.mine => screen' = screen /\ writing' = writing /\ net' = net \ {r}
    BY <1>5 DEF Arrive, Lose, ScreenAfter, NetAfter, Unmoved
  <2>3. CASE screen = "off"
    <3>1. ~r.mine
      BY <2>3 DEF ScreenInv
    <3> QED
      BY <2>1, <2>2, <2>3, <3>1 DEF ScreenInv
  <2>4. CASE screen # "off"
    BY <2>1, <2>2, <2>4 DEF Stays, Paired, ScreenInv
  <2> QED
    BY <2>3, <2>4
<1>6. CASE signOutThisDevice \/ SignedOut
  BY <1>6 DEF signOutThisDevice, SignedOut, InVault, ScreenInv
<1>9. CASE Crash
  <2>1. /\ screen' = "off" /\ writing' = "none"
        /\ net' = {[r EXCEPT !.mine = FALSE] : r \in {q \in net : q.kind # "pull"}}
    BY <1>9 DEF Crash
  <2>2. \A r \in net : [r EXCEPT !.mine = FALSE].mine = FALSE
    BY DEF TypeInv, NetTyped, Message
  <2> QED
    BY <2>1, <2>2 DEF ScreenInv
<1>10. CASE Create \/ Restore \/ TriggerPull \/ executePairing
  <2>1. screen' = screen /\ services' = services /\ screen # "off"
    BY <1>10 DEF Create, Restore, TriggerPull, executePairing, local, AtWelcome, InVault, Running
  <2> QED
    BY <2>1 DEF ScreenInv
<1>7. CASE \/ Write \/ PageDone \/ vars' = vars
           \/ (\E v \in Vault : OtherRevokes(v) \/ OtherPushes(v) \/ VaultEnds(v))
           \/ (\E p \in sealed : Expire(p))
  <2>1. screen' = screen /\ services' = services /\ net' = net /\ writing' \in {writing, "none"}
    BY <1>7 DEF Write, PageDone, vars, OtherRevokes, OtherPushes, VaultEnds, Expire, local
  <2> QED
    BY <2>1 DEF ScreenInv
<1>8. ASSUME NEW r \in net, Arrive(r, TRUE) \/ Arrive(r, FALSE) \/ Lose(r) PROVE ScreenInv'
  BY <1>5, <1>8
<1> QED
  BY <1>1, <1>2, <1>3, <1>4, <1>6, <1>7, <1>8, <1>9, <1>10 DEF Next

LEMMA PlanNext ==
    ASSUME TypeInv, PlanInv, ScreenInv, FreshInv, [Next]_vars PROVE PlanInv'
<1>0. used \subseteq used' /\ known \subseteq known'
  BY Grows DEF vars, history
\* Nothing moves the plan.
<1>1. ASSUME writing' = writing, writes' = writes, services' = services, settings' = settings PROVE PlanInv'
  <2>1. \A p : Progress(p) => Progress(p)'
    BY <1>1, Waits
  <2> QED
    BY <1>0, <1>1, <2>1 DEF PlanInv
\* There is none.
<1>2. ASSUME writing' = "none", writes' = <<>> PROVE PlanInv'
  BY <1>2 DEF PlanInv
<1>3. CASE Write
  <2>1. writing' = writing /\ services' = services /\ writes # <<>>
    BY <1>3 DEF Write
  <2>2. \A p : WellFormed(p) /\ Progress(p) => Progress(p)'
    BY <1>3, Goes DEF WellFormed
  <2>3. ASSUME NEW v, NEW d, NEW t, NEW x, NEW n
        PROVE  /\ Progress(persistVault(v, d, "Mac")) => Progress(persistVault(v, d, "Mac"))'
               /\ Progress(restoredVault(v, d, t)) => Progress(restoredVault(v, d, t))'
               /\ Progress(signedOut) => Progress(signedOut)'
               /\ Progress(executed(n)) => Progress(executed(n))'
               /\ Progress(<< <<"revocation", x>> >>) => Progress(<< <<"revocation", x>> >>)'
               /\ Progress(<< <<"cursor", n>> >>) => Progress(<< <<"cursor", n>> >>)'
    BY <2>2, PlansWellFormed
  <2>4. PICK x : x = services.device
    OBVIOUS
  <2>5. services'.device = x
    BY <2>1, <2>4
  <2>6. Progress(<< <<"revocation", services.device>> >>) => Progress(<< <<"revocation", services.device>> >>)'
    BY <2>3, <2>4, <2>5
  <2> QED
    BY <1>0, <2>1, <2>3, <2>6 DEF PlanInv
<1>4. CASE Create
  <2>1. PICK v \in Vault \ known, d \in Id \ used :
            /\ known' = known \cup {v} /\ used' = used \cup {d} /\ writing' = "create"
            /\ writes' = persistVault(v, d, "Mac")
    BY <1>4 DEF Create, Writes
  <2>2. Progress(persistVault(v, d, "Mac"))'
    BY <2>1, WrittenOut, Begun
  <2> QED
    BY <2>1, <2>2 DEF PlanInv
<1>5. CASE signOutThisDevice
  <2>1. PICK x : x = services.device
    OBVIOUS
  <2>2. writing' = "flag" /\ writes' = << <<"revocation", x>> >> /\ services' = services
    BY <1>5, <2>1 DEF signOutThisDevice, Writes
  <2>3. services # NoServices
    BY <1>5 DEF signOutThisDevice, InVault, ScreenInv
  <2>4. Progress(<< <<"revocation", x>> >>)'
    BY <2>2, Begun
  <2>5. services'.device = x
    BY <2>1, <2>2
  <2>6. Progress(<< <<"revocation", services.device>> >>)'
    BY <2>4, <2>5
  <2> QED
    BY <2>2, <2>3, <2>6 DEF PlanInv
<1>6. ASSUME writing = "none", writing' = writing, writes' = writes PROVE PlanInv'
  BY <1>2, <1>6 DEF PlanInv
<1>7. CASE Command \/ ScheduleOrCancelDeletion \/ Launch \/ Restore \/ TriggerPull \/ executePairing
  <2>1. writing' = writing /\ writes' = writes
    BY <1>7 DEF Command, ScheduleOrCancelDeletion, Launch, Restore, TriggerPull, executePairing, local
  <2>2. writing = "none"
    BY <1>7 DEF Command, ScheduleOrCancelDeletion, Launch, Restore, TriggerPull, executePairing,
                InVault, AtWelcome, Running, ScreenInv
  <2> QED
    BY <1>6, <2>1, <2>2
<1>8. CASE Open \/ RevokeSelf \/ SignedOut \/ PageDone \/ Crash
  <2>1. writing' = "none" /\ writes' = <<>>
    BY <1>8 DEF Open, RevokeSelf, SignedOut, PageDone, Crash
  <2> QED
    BY <1>2, <2>1
<1>9. ASSUME NEW r \in net, NEW heard \in BOOLEAN, Arrive(r, heard) \/ Lose(r) PROVE PlanInv'
  <2>1. PICK answer : /\ IF r.mine THEN React(r, answer) ELSE Unmoved
                      /\ answer = "ok" => Answer(r) = "ok"
    BY <1>9 DEF Arrive, Lose
  <2>2. services' = services /\ (r.mine => writing = "none")
    BY <1>9 DEF Arrive, Lose
  <2>3. r \in Message
    BY DEF TypeInv, NetTyped
  <2>4. CASE ~r.mine
    BY <1>1, <2>1, <2>2, <2>4 DEF Unmoved
  <2>5. CASE r.mine /\ QueueWritten
    BY <1>6, <2>2, <2>5 DEF QueueWritten
  <2>6. CASE Writes("wipe", signedOut)
    BY <2>6, WipeShape, Begun DEF Writes, PlanInv
  <2>7. CASE r.kind = "claim" /\ answer = "ok" /\ Writes("restore", restoredVault(r.vault, r.device, r.token))
    <3>1. PICK v : v = r.vault
      OBVIOUS
    <3>2. PICK d : d = r.device
      OBVIOUS
    <3>3. PICK t : t = r.token
      OBVIOUS
    <3>4. v \in known'
      BY <1>0, <2>1, <2>3, <2>7, <3>1, OkHasVault, FieldsOfMessage, SentinelAssumption
    <3>5. d \in used' /\ t \in used'
      BY <1>0, <2>7, <3>2, <3>3 DEF FreshInv, IsPending
    <3>6. writing' = "restore" /\ writes' = restoredVault(v, d, t)
      BY <2>7, <3>1, <3>2, <3>3 DEF Writes
    <3>7. Progress(restoredVault(v, d, t))'
      BY <3>6, RestoredShape, Begun
    <3> QED
      BY <3>4, <3>5, <3>6, <3>7 DEF PlanInv
  <2>8. CASE HasPage(r, answer) /\ pageApplied(r)
    <3>1. r.vault \in Vault
      BY <2>1, <2>8, OkHasVault DEF HasPage
    <3>2. PICK n \in Nat : n = relay[r.vault].log
      BY <3>1, FieldsOfVault
    <3>3. \/ writing' = "execute" /\ writes' = executed(n)
          \/ writing' = "page" /\ writes' = << <<"cursor", n>> >>
      BY <2>8, <3>2 DEF pageApplied, writeCursor, Writes, executed
    <3>4. CASE writing' = "execute" /\ writes' = executed(n)
      <4>1. Progress(executed(n))'
        BY <3>4, ExecutedShape, Begun
      <4> QED
        BY <3>4, <4>1 DEF PlanInv
    <3>5. CASE writing' = "page" /\ writes' = << <<"cursor", n>> >>
      <4>1. Progress(<< <<"cursor", n>> >>)'
        BY <3>5, Begun
      <4> QED
        BY <3>5, <4>1 DEF PlanInv
    <3> QED
      BY <3>3, <3>4, <3>5
  <2>9. CASE r.mine /\ Unmoved
    BY <1>6, <2>2, <2>9 DEF Unmoved
  <2> QED
    BY <2>1, <2>3, <2>4, <2>5, <2>6, <2>7, <2>8, <2>9, Reaction, FieldsOfMessage
<1>10. ASSUME NEW r \in net, Arrive(r, TRUE) \/ Arrive(r, FALSE) \/ Lose(r) PROVE PlanInv'
  BY <1>9, <1>10
<1>11. CASE \/ \E v \in Vault : OtherRevokes(v) \/ OtherPushes(v) \/ VaultEnds(v)
            \/ \E p \in sealed : Expire(p)
            \/ vars' = vars
  <2>1. local' = local
    BY <1>11 DEF OtherRevokes, OtherPushes, VaultEnds, Expire, vars
  <2> QED
    BY <1>1, <2>1 DEF local
<1> QED
  BY <1>3, <1>4, <1>5, <1>7, <1>8, <1>10, <1>11 DEF Next


-----------------------------------------------------------------------------
(* NoForeignKey *)

Opens == settings.id \in Vault /\ HasVault

KeyInv ==
    /\ NoForeignKey
    /\ screen = "welcome" /\ writing \notin {"create", "restore"} => ~Opens
    /\ writing = "create" /\ Len(writes) >= 3 => ~Opens
    /\ writing = "restore" /\ ~overlaid =>
          \A i \in 1..Len(writes) : writes[i][1] = "id" => settings.id \notin Vault \ {writes[i][2]}

\* One write of a plan: k of them are on disk, and this is the next.
NextIs(plan, k) ==
    /\ k < Len(plan) /\ Len(writes) = Len(plan) - k /\ Len(writes') = Len(plan) - k - 1
    /\ plan[k + 1][1] \in Fields
    /\ settings' = [settings EXCEPT ![plan[k + 1][1]] = plan[k + 1][2]]
    /\ \A j \in 1..k : plan[j][1] # "cursor" => settings[plan[j][1]] = plan[j][2]
    /\ \A i \in 1..Len(writes) : writes[i] = plan[k + i]
    /\ \A i \in 1..Len(writes') : writes'[i] = plan[k + 1 + i]

LEMMA NextWrite ==
    ASSUME TypeInv, NEW plan, WellFormed(plan), Progress(plan), Write
    PROVE  \E k \in Nat : NextIs(plan, k)
<1>1. writes # <<>> /\ writes' = Tail(writes)
      /\ settings' = [settings EXCEPT ![Head(writes)[1]] = Head(writes)[2]]
  BY DEF Write
<1>2. writes \in Seq(Fields \X Values)
  BY DEF TypeInv, PlanTyped, Plan
<1>3. /\ Len(writes') = Len(writes) - 1 /\ Len(writes) \in Nat /\ Len(writes) >= 1
      /\ \A i \in 1..Len(writes') : writes'[i] = writes[i + 1]
      /\ Head(writes) = writes[1]
  BY <1>1, <1>2
<1> DEFINE k == Len(plan) - Len(writes)
<1>4. /\ Len(writes) <= Len(plan) /\ Len(plan) \in Nat
      /\ \A i \in 1..Len(writes) : writes[i] = plan[k + i]
      /\ \A j \in 1..k : plan[j][1] # "cursor" => settings[plan[j][1]] = plan[j][2]
  BY DEF Progress, WellFormed
<1>5. k \in Nat /\ k < Len(plan) /\ Len(writes) = Len(plan) - k /\ Len(writes') = Len(plan) - k - 1
  BY <1>3, <1>4
<1>6. writes[1] = plan[k + 1] /\ plan[k + 1][1] \in Fields
  BY <1>3, <1>4, <1>5 DEF WellFormed
<1> HIDE DEF k
<1>7. \A i \in 1..Len(writes') : writes'[i] = plan[k + 1 + i]
  <2> SUFFICES ASSUME NEW i \in 1..Len(writes') PROVE writes'[i] = plan[k + 1 + i]
    OBVIOUS
  <2>1. i + 1 \in 1..Len(writes) /\ k + (i + 1) = k + 1 + i
    BY <1>3, <1>5
  <2> QED
    BY <1>3, <1>4, <2>1
<1>8. NextIs(plan, k)
  BY <1>1, <1>3, <1>4, <1>5, <1>6, <1>7 DEF NextIs
<1> QED
  BY <1>5, <1>8

LEMMA KeyKept ==
    ASSUME KeyInv, settings'.key = settings.key, settings'.id = settings.id,
           settings'.device = settings.device, settings'.name = settings.name
    PROVE  /\ Opens' = Opens
           /\ ~overlaid \/ overlaid' => NoForeignKey'
BY DEF KeyInv, Opens, NoForeignKey, HasVault

\* The order of both wipes: the key first, the id before the device and the name.
WipesFirst(p) ==
    /\ Len(p) \in {7, 8}
    /\ p[1] = <<"key", Blank>> /\ p[2][1] = "token" /\ p[3] = <<"id", Blank>>
    /\ \A i \in 4..Len(p) : p[i][1] \notin {"key", "id"}

\* One write of a wipe.
LEMMA WipeWrite ==
    ASSUME TypeInv, NEW p, WellFormed(p), Progress(p), WipesFirst(p), Write
    PROVE  /\ settings'.key = Blank
           /\ Opens' => Opens /\ settings'.id = settings.id /\ writes' # <<>>
<1>0. settings \in [Fields -> Values] /\ Blank # None /\ Blank \notin Vault
  BY SentinelAssumption DEF TypeInv, DiskTyped
<1>1. PICK k \in Nat : NextIs(p, k)
  BY NextWrite
<1>2. /\ k < Len(p) /\ Len(writes') = Len(p) - k - 1
      /\ settings' = [settings EXCEPT ![p[k + 1][1]] = p[k + 1][2]]
      /\ \A j \in 1..k : p[j][1] # "cursor" => settings[p[j][1]] = p[j][2]
  BY <1>1 DEF NextIs
<1>3. PICK n \in {7, 8} : n = Len(p)
  BY DEF WipesFirst
<1>7. k < n /\ (k <= 1 => writes' # <<>>)
  <2>1. k < n /\ Len(writes') = n - k - 1
    BY <1>2, <1>3
  <2>2. PICK m : m = Len(writes')
    OBVIOUS
  <2>3. k <= 1 => m # 0
    <3>1. m = n - k - 1
      BY <2>1, <2>2
    <3> QED
      BY <3>1
  <2> QED
    BY <2>1, <2>2, <2>3
<1>4. CASE k = 0
  <2>1. p[k + 1][1] = "key" /\ p[k + 1][2] = Blank
    BY <1>4 DEF WipesFirst
  <2>2. settings'.key = Blank /\ Opens' = Opens /\ settings'.id = settings.id
    BY <1>0, <1>2, <2>1 DEF Fields, Opens, HasVault
  <2>3. writes' # <<>>
    BY <1>4, <1>7
  <2> QED
    BY <2>2, <2>3
<1>5. CASE k = 1
  <2>1. p[k + 1][1] = "token" /\ settings["key"] = Blank
    BY <1>2, <1>5 DEF WipesFirst
  <2>2. settings'.key = Blank /\ Opens' = Opens /\ settings'.id = settings.id
    BY <1>0, <1>2, <2>1 DEF Fields, Opens, HasVault
  <2>3. writes' # <<>>
    BY <1>5, <1>7
  <2> QED
    BY <2>2, <2>3
<1>6. CASE k >= 2
  <2>1. settings["key"] = Blank /\ (k >= 3 => settings["id"] = Blank)
    BY <1>2, <1>6 DEF WipesFirst
  <2>2. p[k + 1][1] # "key" /\ (k = 2 => p[k + 1] = <<"id", Blank>>) /\ (k >= 3 => p[k + 1][1] # "id")
    <3>1. k \in {2, 3, 4, 5, 6, 7} /\ (k = 7 => Len(p) = 8)
      <4>1. CASE n = 7
        <5>1. k \in {2, 3, 4, 5, 6}
          BY <1>6, <1>7, <4>1
        <5> QED
          BY <5>1
      <4>2. CASE n = 8
        <5>1. k \in {2, 3, 4, 5, 6, 7}
          BY <1>6, <1>7, <4>2
        <5> QED
          BY <1>3, <4>2, <5>1
      <4> QED
        BY <4>1, <4>2
    <3> QED
      BY <3>1 DEF WipesFirst
  <2>3. settings'["key"] = Blank
    BY <1>0, <1>2, <2>1, <2>2 DEF Fields
  <2>4. settings'["id"] = Blank
    BY <1>0, <1>2, <1>6, <2>1, <2>2 DEF Fields
  <2> QED
    BY <1>0, <2>3, <2>4 DEF Opens
<1> QED
  BY <1>4, <1>5, <1>6

\* The only write of a plan.
LEMMA OneWrite ==
    ASSUME TypeInv, NEW f \in {"revocation", "cursor"}, NEW x, Progress(<< <<f, x>> >>), Write
    PROVE  settings' = [settings EXCEPT ![f] = x]
<1>1. PICK p : p = << <<f, x>> >>
  OBVIOUS
<1>2. WellFormed(p)
  BY <1>1, PlansWellFormed
<1>3. PICK k \in Nat : NextIs(p, k)
  BY <1>1, <1>2, NextWrite
<1>4. k < Len(p) /\ settings' = [settings EXCEPT ![p[k + 1][1]] = p[k + 1][2]]
  BY <1>3 DEF NextIs
<1>5. p[k + 1][1] = f /\ p[k + 1][2] = x
  BY <1>1, <1>4
<1> QED
  BY <1>4, <1>5

LEMMA KeyWrite ==
    ASSUME TypeInv, PlanInv, KeyInv, Write PROVE KeyInv'
<1>0. settings \in [Fields -> Values] /\ writes # <<>> /\ writing' = writing /\ overlaid' = overlaid
      /\ screen' = screen
  BY DEF TypeInv, DiskTyped, Write, history
<1>1. CASE writing = "create"
  <2>0. PICK v \in known, d \in used : Progress(persistVault(v, d, "Mac"))
    BY <1>1 DEF PlanInv
  <2>1. PICK p : p = persistVault(v, d, "Mac") /\ Progress(p)
    BY <2>0
  <2>2. Len(p) = 4 /\ p[1] = <<"key", v>> /\ p[2] = <<"id", v>> /\ p[3] = <<"device", d>> /\ p[4][1] = "name"
    BY <2>1, WrittenOut
  <2>6. WellFormed(p)
    BY <2>1, PlansWellFormed
  <2>7. PICK k \in Nat : NextIs(p, k)
    BY <2>1, <2>6, NextWrite
  <2>3. /\ k < 4 /\ Len(writes) = 4 - k /\ Len(writes') = 4 - k - 1
        /\ settings' = [settings EXCEPT ![p[k + 1][1]] = p[k + 1][2]]
        /\ \A j \in 1..k : p[j][1] # "cursor" => settings[p[j][1]] = p[j][2]
    BY <2>2, <2>7 DEF NextIs
  <2>4. CASE k = 0
    <3>0. p[k + 1][1] = "key" /\ p[k + 1][2] = v
      BY <2>2, <2>4
    <3>1. settings' = [settings EXCEPT !["key"] = v]
      BY <2>3, <3>0
    <3>2. ~Opens
      BY <1>1, <2>3, <2>4 DEF KeyInv
    <3>3. ~Opens'
      BY <1>0, <3>1, <3>2 DEF Opens, HasVault, Fields
    <3> QED
      BY <1>0, <1>1, <3>3 DEF KeyInv, NoForeignKey, Opens
  <2>5. CASE k >= 1
    <3>1. settings["key"] = v /\ (k >= 2 => settings["id"] = v)
      BY <2>2, <2>3, <2>5
    <3>2. settings'["key"] = v /\ settings'["id"] = v
      <4>1. CASE k = 1
        BY <1>0, <2>2, <2>3, <3>1, <4>1 DEF Fields
      <4>2. CASE k = 2
        BY <1>0, <2>2, <2>3, <3>1, <4>2 DEF Fields
      <4>3. CASE k = 3
        BY <1>0, <2>2, <2>3, <3>1, <4>3 DEF Fields
      <4> QED
        BY <2>3, <2>5, <4>1, <4>2, <4>3
    <3> QED
      BY <1>0, <1>1, <2>3, <2>5, <3>2 DEF KeyInv, NoForeignKey
  <2> QED
    BY <2>3, <2>4, <2>5
<1>2. CASE writing = "restore"
  <2>0. PICK v \in known, d \in used, t \in used : Progress(restoredVault(v, d, t))
    BY <1>2 DEF PlanInv
  <2>1. PICK p : p = restoredVault(v, d, t) /\ Progress(p)
    BY <2>0
  <2>2. Len(p) = 5 /\ p[1] = <<"key", v>> /\ p[2] = <<"id", v>> /\ p[3] = <<"device", d>> /\ p[4][1] = "name"
        /\ p[5] = <<"token", t>>
    BY <2>1, RestoredShape
  <2>6. WellFormed(p)
    BY <2>1, PlansWellFormed
  <2>7. PICK k \in Nat : NextIs(p, k)
    BY <2>1, <2>6, NextWrite
  <2>3. /\ k < 5 /\ Len(writes) = 5 - k /\ Len(writes') = 5 - k - 1
        /\ settings' = [settings EXCEPT ![p[k + 1][1]] = p[k + 1][2]]
        /\ \A j \in 1..k : p[j][1] # "cursor" => settings[p[j][1]] = p[j][2]
        /\ \A i \in 1..Len(writes) : writes[i] = p[k + i]
        /\ \A i \in 1..Len(writes') : writes'[i] = p[k + 1 + i]
    BY <2>2, <2>7 DEF NextIs
  <2>4. CASE k = 0
    <3>0. p[k + 1][1] = "key" /\ p[k + 1][2] = v
      BY <2>2, <2>4
    <3>1. settings' = [settings EXCEPT !["key"] = v]
      BY <2>3, <3>0
    <3>2. ~overlaid => settings.id \notin Vault \ {v}
      <4>1. 2 \in 1..Len(writes) /\ writes[2] = <<"id", v>>
        BY <2>2, <2>3, <2>4
      <4> QED
        BY <1>2, <4>1 DEF KeyInv
    <3>3. settings'.key = v /\ settings'.id = settings.id
      BY <1>0, <3>1 DEF Fields
    <3>4. NoForeignKey'
      BY <1>0, <3>2, <3>3 DEF NoForeignKey
    <3>5. \A i \in 1..Len(writes') : writes'[i][1] = "id" => writes'[i][2] = v
      <4>1. \A i \in 1..Len(writes') : writes'[i] \in {p[2], p[3], p[4], p[5]}
        BY <2>3, <2>4
      <4> QED
        BY <2>2, <4>1
    <3> QED
      BY <1>0, <1>2, <3>2, <3>3, <3>4, <3>5 DEF KeyInv
  <2>5. CASE k >= 1
    <3>1. settings["key"] = v /\ (k >= 2 => settings["id"] = v)
      BY <2>2, <2>3, <2>5
    <3>2. settings'["key"] = v /\ settings'["id"] = v
      <4>1. CASE k = 1
        BY <1>0, <2>2, <2>3, <3>1, <4>1 DEF Fields
      <4>2. CASE k = 2
        BY <1>0, <2>2, <2>3, <3>1, <4>2 DEF Fields
      <4>3. CASE k = 3
        BY <1>0, <2>2, <2>3, <3>1, <4>3 DEF Fields
      <4>4. CASE k = 4
        BY <1>0, <2>2, <2>3, <3>1, <4>4 DEF Fields
      <4> QED
        BY <2>3, <2>5, <4>1, <4>2, <4>3, <4>4
    <3>3. \A i \in 1..Len(writes') : writes'[i] \in {p[3], p[4], p[5]}
      BY <2>3, <2>5
    <3>4. \A i \in 1..Len(writes') : writes'[i][1] # "id"
      BY <2>2, <3>3
    <3> QED
      BY <1>0, <1>2, <3>2, <3>4 DEF KeyInv, NoForeignKey
  <2> QED
    BY <2>3, <2>4, <2>5
<1>3. ASSUME writing \in {"wipe", "execute"}, NEW p, WellFormed(p), Progress(p), WipesFirst(p)
      PROVE  KeyInv'
  <2>1. settings'.key = Blank /\ (Opens' => Opens)
    BY <1>3, WipeWrite
  <2> QED
    BY <1>0, <1>3, <2>1 DEF KeyInv, NoForeignKey
<1>4. CASE writing = "wipe"
  <2>1. PICK p : p = signedOut
    OBVIOUS
  <2>2. WellFormed(p) /\ Progress(p)
    BY <1>4, <2>1, PlansWellFormed DEF PlanInv
  <2>3. WipesFirst(p)
    BY <2>1, WipeShape DEF WipesFirst
  <2> QED
    BY <1>3, <1>4, <2>2, <2>3
<1>5. CASE writing = "execute"
  <2>0. PICK n \in Nat : Progress(executed(n))
    BY <1>5 DEF PlanInv
  <2>1. PICK p : p = executed(n) /\ Progress(p)
    BY <2>0
  <2>2. WellFormed(p)
    BY <2>1, PlansWellFormed
  <2>3. WipesFirst(p)
    BY <2>1, ExecutedShape DEF WipesFirst
  <2> QED
    BY <1>3, <1>5, <2>1, <2>2, <2>3
<1>6. CASE writing \in {"flag", "page"}
  <2>1. PICK x, f : f \in {"revocation", "cursor"} /\ Progress(<< <<f, x>> >>)
    BY <1>6 DEF PlanInv
  <2>2. settings' = [settings EXCEPT ![f] = x]
    BY <2>1, OneWrite
  <2>3. settings'.key = settings.key /\ settings'.id = settings.id /\ settings'.device = settings.device
        /\ settings'.name = settings.name
    BY <1>0, <2>1, <2>2 DEF Fields
  <2> QED
    BY <1>0, <1>6, <2>3, KeyKept DEF KeyInv
<1> QED
  BY <1>0, <1>1, <1>2, <1>4, <1>5, <1>6 DEF PlanInv

LEMMA KeyNext ==
    ASSUME TypeInv, PlanInv, ScreenInv, KeyInv, [Next]_vars PROVE KeyInv'
<1>0. settings \in [Fields -> Values] /\ Blank # None /\ Blank \notin Vault
  BY SentinelAssumption DEF TypeInv, DiskTyped
\* Another setting than these four, or none.
<1>1. ASSUME NEW f \in {"token", "queue"}, NEW x, settings' = [settings EXCEPT ![f] = x]
      PROVE  /\ settings'.key = settings.key /\ settings'.id = settings.id
             /\ settings'.device = settings.device /\ settings'.name = settings.name
  BY <1>0, <1>1 DEF Fields
<1>2. ASSUME buildServices
      PROVE  /\ settings'.key = settings.key /\ settings'.id = settings.id
             /\ settings'.device = settings.device /\ settings'.name = settings.name
  <2>1. PICK x : settings' = [settings EXCEPT !["token"] = x]
    BY <1>2 DEF buildServices
  <2> QED
    BY <1>1, <2>1
<1>3. ASSUME settings' = [settings EXCEPT !.queue = "[...]"] \/ settings' = settings
      PROVE  /\ settings'.key = settings.key /\ settings'.id = settings.id
             /\ settings'.device = settings.device /\ settings'.name = settings.name
  BY <1>1, <1>3
<1>4. CASE Launch
  <2>1. writing = "none" /\ writing' = "none" /\ overlaid' = overlaid
    BY <1>4 DEF Launch, ScreenInv
  <2>2. CASE HasVault
    <3>1. buildServices /\ screen' = "inbox"
      BY <1>4, <2>2 DEF Launch, buildServices
    <3> QED
      BY <1>2, <2>1, <3>1, KeyKept DEF KeyInv
  <2>3. CASE ~HasVault
    <3>1. settings' = settings /\ ~Opens
      BY <1>4, <2>3 DEF Launch, Opens
    <3> QED
      BY <2>1, <3>1, KeyKept DEF KeyInv
  <2> QED
    BY <2>2, <2>3
<1>5. CASE Create
  <2>1. settings' = settings /\ writing' = "create" /\ overlaid' = overlaid
    BY <1>5 DEF Create, Writes
  <2>2. ~Opens
    BY <1>5 DEF Create, AtWelcome, Running, KeyInv
  <2> QED
    BY <2>1, <2>2, KeyKept DEF KeyInv
<1>6. CASE Open
  <2>1. /\ writing \in {"create", "restore"} /\ writes = <<>> /\ buildServices /\ writing' = "none"
        /\ screen' = "inbox"
    BY <1>6 DEF Open, buildServices
  <2>2. settings.key = settings.id
    BY <2>1, Finished
  <2>3. settings'.key = settings'.id
    BY <1>2, <2>1, <2>2
  <2> QED
    BY <2>1, <2>3 DEF KeyInv, NoForeignKey
<1>7. CASE Command \/ ScheduleOrCancelDeletion \/ RevokeSelf
  <2>1. /\ settings' = [settings EXCEPT !.queue = "[...]"] \/ settings' = settings
        /\ screen' \in {screen, "inbox"} /\ writing' = "none" /\ overlaid' = overlaid
        /\ writing \in {"none", "flag"}
    BY <1>7 DEF Command, ScheduleOrCancelDeletion, RevokeSelf, Enqueued, InVault, Running, history
  <2>2. Opens' = Opens /\ NoForeignKey'
    BY <1>3, <2>1, KeyKept
  <2> QED
    BY <2>1, <2>2 DEF KeyInv
<1>8. CASE SignedOut
  <2>1. settings.id = Blank /\ settings' = settings /\ writing' = "none"
    BY <1>8, Finished DEF SignedOut
  <2> QED
    BY <1>0, <2>1 DEF KeyInv, NoForeignKey, Opens
<1>9. CASE PageDone \/ signOutThisDevice \/ Crash
  <2>1. /\ settings' = settings /\ overlaid' = overlaid /\ writing' \in {"none", "flag"}
        /\ screen' \in {screen, "leaving", "off"}
        /\ writing \notin {"create", "restore"} \/ screen' = "off"
    BY <1>9 DEF PageDone, signOutThisDevice, Crash, InVault, Running, Writes, history
  <2>2. Opens' = Opens /\ NoForeignKey'
    BY <2>1, KeyKept
  <2> QED
    BY <2>1, <2>2 DEF KeyInv
<1>10. CASE \/ Restore \/ TriggerPull \/ executePairing
            \/ \E v \in Vault : OtherRevokes(v) \/ OtherPushes(v) \/ VaultEnds(v)
            \/ \E p \in sealed : Expire(p)
            \/ vars' = vars
  <2>1. local' = local /\ overlaid' = overlaid
    BY <1>10 DEF Restore, TriggerPull, executePairing, OtherRevokes, OtherPushes, VaultEnds, Expire,
                 vars, history
  <2>2. settings' = settings /\ writes' = writes /\ writing' = writing /\ screen' = screen
    BY <2>1 DEF local
  <2>3. Opens' = Opens /\ NoForeignKey'
    BY <2>1, <2>2, KeyKept
  <2> QED
    BY <2>1, <2>2, <2>3 DEF KeyInv
<1>11. ASSUME NEW r \in net, NEW heard \in BOOLEAN, Arrive(r, heard) \/ Lose(r) PROVE KeyInv'
  <2>1. PICK answer : /\ IF r.mine THEN React(r, answer) ELSE Unmoved
                      /\ answer = "ok" => Answer(r) = "ok"
    BY <1>11 DEF Arrive, Lose
  <2>2. /\ r.mine => writing = "none"
        /\ screen' \in {screen, "inbox", "loading"}
        /\ ~overlaid' => ~overlaid
        /\ Arrive(r, heard) /\ ~overlaid' /\ r.mine /\ writing' = "restore" =>
               settings.id \notin Vault \ {r.vault}
    <3>1. r.mine => writing = "none"
      BY <1>11 DEF Arrive, Lose
    <3>2. screen' \in {screen, "inbox", "loading"}
      BY <1>11 DEF Arrive, Lose, ScreenAfter, Stays, Paired
    <3>3. CASE Arrive(r, heard)
      <4>1. overlaid' = (overlaid \/ (/\ r.mine /\ writing' = "restore"
                                     /\ settings.id \in Vault \ {r.vault}))
        BY <3>3, Zenon DEF Arrive
      <4> QED
        BY <3>1, <3>2, <4>1, Zenon
    <3>4. CASE Lose(r)
      <4>1. overlaid' = overlaid
        BY <3>4 DEF Lose, history
      <4>2. Arrive(r, heard) /\ r.mine => overlaid' = (overlaid \/ (/\ r.mine /\ writing' = "restore"
                                     /\ settings.id \in Vault \ {r.vault}))
        BY Zenon DEF Arrive
      <4> QED
        BY <3>1, <3>2, <4>1, <4>2, Zenon
    <3> QED
      BY <1>11, <3>3, <3>4
  <2>3. r \in Message
    BY DEF TypeInv, NetTyped
  <2>4. CASE ~r.mine
    <3>1. settings' = settings /\ writes' = writes /\ writing' = writing
      BY <2>1, <2>4 DEF Unmoved
    <3>2. Opens' = Opens /\ NoForeignKey'
      BY <2>2, <3>1, KeyKept
    <3> QED
      BY <2>2, <3>1, <3>2 DEF KeyInv
  <2>5. CASE r.mine /\ (QueueWritten \/ Unmoved)
    <3>1. /\ settings' = [settings EXCEPT !.queue = "[...]"] \/ settings' = settings
          /\ writing' = "none"
      BY <2>2, <2>5 DEF QueueWritten, Unmoved
    <3>2. Opens' = Opens /\ NoForeignKey'
      BY <1>3, <2>2, <3>1, KeyKept
    <3> QED
      BY <2>2, <2>5, <3>1, <3>2 DEF KeyInv
  <2>6. CASE r.mine /\ settings' = settings /\ writing' \in {"wipe", "execute", "page"}
    <3>1. Opens' = Opens /\ NoForeignKey'
      BY <2>2, <2>6, KeyKept
    <3> QED
      BY <2>2, <2>6, <3>1 DEF KeyInv
  <2>7. CASE r.mine /\ settings' = settings /\ r.kind = "claim" /\ answer = "ok"
             /\ Writes("restore", restoredVault(r.vault, r.device, r.token))
    <3>1. Opens' = Opens /\ NoForeignKey'
      BY <2>2, <2>7, KeyKept
    <3>2. PICK v, d, t, p : v = r.vault /\ d = r.device /\ t = r.token /\ p = restoredVault(v, d, t)
      OBVIOUS
    <3>3. writing' = "restore" /\ writes' = p
      BY <2>7, <3>2 DEF Writes
    <3>4. Len(p) = 5 /\ p[1][1] = "key" /\ p[2] = <<"id", v>> /\ p[3][1] = "device" /\ p[4][1] = "name"
          /\ p[5][1] = "token"
      BY <3>2, RestoredShape
    <3>5. \A i \in 1..Len(p) : p[i][1] = "id" => p[i][2] = v
      BY <3>4
    <3>6. Arrive(r, heard)
      <4>1. ASSUME Lose(r) PROVE FALSE
        <5>1. React(r, "none")
          BY <2>7, <4>1 DEF Lose
        <5>2. writing' = writing
          BY <2>7, <5>1 DEF React, Unmoved, HasPage
        <5> QED
          BY <2>2, <2>7, <3>3, <5>2
      <4> QED
        BY <1>11, <4>1
    <3>7. ~overlaid' => settings'.id \notin Vault \ {v}
      BY <2>2, <2>7, <3>2, <3>3, <3>6
    <3> QED
      BY <3>1, <3>3, <3>5, <3>7 DEF KeyInv
  <2>8. CASE r.mine
    <3>1. React(r, answer) /\ r.kind \in {"claim", "push", "pull", "register", "seal", "delete"}
      BY <2>1, <2>3, <2>8, FieldsOfMessage
    <3>2. CASE settings' = settings /\ Writes("wipe", signedOut)
      BY <2>6, <2>8, <3>2 DEF Writes
    <3>3. CASE settings' = settings /\ pageApplied(r)
      BY <2>6, <2>8, <3>3 DEF Writes, pageApplied
    <3> QED
      BY <2>5, <2>7, <2>8, <3>1, <3>2, <3>3, Reaction
  <2> QED
    BY <2>4, <2>8
<1>12. ASSUME NEW r \in net, Arrive(r, TRUE) \/ Arrive(r, FALSE) \/ Lose(r) PROVE KeyInv'
  BY <1>11, <1>12
<1> QED
  BY <1>4, <1>5, <1>6, <1>7, <1>8, <1>9, <1>10, <1>12, KeyWrite DEF Next

\* A vault is never opened with the key of another: at whatever write a create, a
\* restore, a sign-out or an executeVaultWipe dies, whatever is lost or late and
\* whatever is created or restored after that; a restore that is answered when the
\* user has opened another vault excepted.
THEOREM KeyOfItsVault == Spec => []NoForeignKey
<1>1. Init => SealInv /\ FreshInv /\ RevokedStaysOut
  BY DEF Init, SealInv, NobodyBeforeBirth, Seals, FreshInv, RevokedStaysOut
<1>2. Init => PlanInv /\ ScreenInv /\ KeyInv
  <2> SUFFICES ASSUME Init PROVE PlanInv /\ ScreenInv /\ KeyInv
    OBVIOUS
  <2>1. settings.id = None /\ writing = "none" /\ writes = <<>> /\ screen = "off" /\ net = {}
    BY DEF Init, Unset
  <2> QED
    BY <2>1, SentinelAssumption DEF PlanInv, ScreenInv, KeyInv, NoForeignKey, Opens
<1>3. KeyInv => NoForeignKey
  BY DEF KeyInv
<1> QED
  BY <1>1, <1>2, <1>3, Typed, FreshNext, PlanNext, ScreenNext, KeyNext, PTL DEF Spec


-----------------------------------------------------------------------------
(* TypeOK *)

WithoutBlank(device, token) == device = Blank => token = Blank

\* Only a wiped installation has an empty device id, and it has an empty token
\* then, which the relay refuses.
BlankInv ==
    /\ WithoutBlank(settings.device, settings.token)
    /\ services # NoServices =>
          /\ services.vault \in known \cup {Blank}
          /\ services.device \in used \cup {Blank} /\ services.token \in used \cup {Blank}
          /\ WithoutBlank(services.device, services.token)
    /\ \A r \in net : r.kind = "push" =>
          /\ r.token = r.auth /\ r.auth # None
          /\ r.device # None /\ WithoutBlank(r.device, r.auth)

\* Who is in the registry, and who has left it.
RegistryInv ==
    /\ \A v \in Vault : /\ relay[v].devices \subseteq used \X used
                        /\ relay[v].status = "dead" => relay[v].devices = {}
    /\ left \subseteq used

\* The order of a create and of a restore.
Settles(p, d) ==
    /\ Len(p) \in {4, 5}
    /\ p[1][1] = "key" /\ p[2][1] = "id" /\ p[3] = <<"device", d>> /\ p[4][1] = "name"
    /\ Len(p) = 5 => p[5][1] = "token"

LEMMA BlankWrite ==
    ASSUME TypeInv, PlanInv, BlankInv, Write
    PROVE  WithoutBlank(settings'.device, settings'.token)
<1>0. settings \in [Fields -> Values]
  BY DEF TypeInv, DiskTyped
<1>1. ASSUME NEW p, WellFormed(p), Progress(p), NEW k \in Nat, NextIs(p, k),
             p[k + 1][1] \notin {"device", "token"}
      PROVE  WithoutBlank(settings'.device, settings'.token)
  <2>1. settings' = [settings EXCEPT ![p[k + 1][1]] = p[k + 1][2]]
    BY <1>1 DEF NextIs
  <2>2. settings'.device = settings.device /\ settings'.token = settings.token
    BY <1>0, <1>1, <2>1 DEF Fields
  <2> QED
    BY <2>2 DEF BlankInv
<1>2. ASSUME NEW d \in used, NEW p, WellFormed(p), Progress(p), Settles(p, d)
      PROVE  WithoutBlank(settings'.device, settings'.token)
  <2>2. /\ Len(p) \in {4, 5} /\ p[1][1] = "key" /\ p[2][1] = "id" /\ p[3] = <<"device", d>>
        /\ p[4][1] = "name" /\ (Len(p) = 5 => p[5][1] = "token")
    BY <1>2 DEF Settles
  <2>4. PICK k \in Nat : NextIs(p, k)
    BY <1>2, NextWrite
  <2>5. /\ k < Len(p) /\ settings' = [settings EXCEPT ![p[k + 1][1]] = p[k + 1][2]]
        /\ \A j \in 1..k : p[j][1] # "cursor" => settings[p[j][1]] = p[j][2]
    BY <2>4 DEF NextIs
  <2>6. d # Blank
    BY SentinelAssumption DEF TypeInv
  <2>7. CASE k = 2
    <3>1. p[k + 1][1] = "device" /\ p[k + 1][2] = d
      BY <2>2, <2>7
    <3>2. settings'.device = d
      BY <1>0, <2>5, <3>1 DEF Fields
    <3> QED
      BY <2>6, <3>2 DEF WithoutBlank
  <2>8. CASE k = 4
    <3>1. p[k + 1][1] = "token" /\ settings["device"] = d
      BY <2>2, <2>5, <2>8
    <3>2. settings'["device"] = d
      BY <1>0, <2>5, <3>1 DEF Fields
    <3> QED
      BY <2>6, <3>2 DEF WithoutBlank
  <2>9. CASE k \notin {2, 4}
    <3>1. k \in {0, 1, 3}
      BY <2>2, <2>5, <2>9
    <3>2. p[k + 1][1] \notin {"device", "token"}
      BY <2>2, <3>1
    <3> QED
      BY <1>1, <1>2, <2>4, <3>2
  <2> QED
    BY <2>7, <2>8, <2>9
<1>6. CASE writing = "create"
  <2>0. PICK v \in known, d \in used : Progress(persistVault(v, d, "Mac"))
    BY <1>6 DEF PlanInv
  <2>1. PICK p : p = persistVault(v, d, "Mac") /\ Progress(p)
    BY <2>0
  <2>2. WellFormed(p)
    BY <2>1, PlansWellFormed
  <2>3. /\ Len(p) = 4 /\ p[1] = <<"key", v>> /\ p[2] = <<"id", v>>
        /\ p[3] = <<"device", d>> /\ p[4][1] = "name"
    BY <2>1, WrittenOut
  <2>4. Settles(p, d)
    BY <2>3 DEF Settles
  <2> QED
    BY <1>2, <2>1, <2>2, <2>4
<1>7. CASE writing = "restore"
  <2>0. PICK v \in known, d \in used, t \in used : Progress(restoredVault(v, d, t))
    BY <1>7 DEF PlanInv
  <2>1. PICK p : p = restoredVault(v, d, t) /\ Progress(p)
    BY <2>0
  <2>2. WellFormed(p)
    BY <2>1, PlansWellFormed
  <2>3. /\ Len(p) = 5 /\ p[5][1] = "token" /\ p[1] = <<"key", v>> /\ p[2] = <<"id", v>>
        /\ p[3] = <<"device", d>> /\ p[4][1] = "name"
    BY <2>1, RestoredShape
  <2>4. Settles(p, d)
    BY <2>3 DEF Settles
  <2> QED
    BY <1>2, <2>1, <2>2, <2>4
<1>3. CASE writing \in {"wipe", "execute"}
  <2>1. PICK n, p : p \in {signedOut, executed(n)} /\ Progress(p)
    BY <1>3 DEF PlanInv
  <2>2. /\ Len(p) \in {7, 8} /\ p[1][1] = "key" /\ p[2] = <<"token", Blank>> /\ p[3][1] = "id"
        /\ p[4] = <<"device", Blank>> /\ p[5][1] = "name" /\ p[6][1] = "queue"
        /\ p[7][1] \in {"revocation", "cursor"} /\ (Len(p) = 8 => p[8][1] = "cursor")
    BY <2>1, WipeShape, ExecutedShape
  <2>3. WellFormed(p)
    BY <2>1, PlansWellFormed
  <2>4. PICK k \in Nat : NextIs(p, k)
    BY <2>1, <2>3, NextWrite
  <2>5. /\ k < Len(p) /\ settings' = [settings EXCEPT ![p[k + 1][1]] = p[k + 1][2]]
        /\ \A j \in 1..k : p[j][1] # "cursor" => settings[p[j][1]] = p[j][2]
    BY <2>4 DEF NextIs
  <2>6. CASE k = 1
    <3>1. p[k + 1][1] = "token" /\ p[k + 1][2] = Blank
      BY <2>2, <2>6
    <3>2. settings'.token = Blank
      BY <1>0, <2>5, <3>1 DEF Fields
    <3> QED
      BY <3>2 DEF WithoutBlank
  <2>7. CASE k = 3
    <3>1. p[k + 1][1] = "device" /\ settings["token"] = Blank
      BY <2>2, <2>5, <2>7
    <3>2. settings'["token"] = Blank
      BY <1>0, <2>5, <3>1 DEF Fields
    <3> QED
      BY <3>2 DEF WithoutBlank
  <2>8. CASE k \notin {1, 3}
    <3>1. k \in {0, 2, 4, 5, 6, 7} /\ (k = 7 => Len(p) = 8)
      BY <2>2, <2>5, <2>8
    <3>2. p[k + 1][1] \notin {"device", "token"}
      BY <2>2, <3>1
    <3> QED
      BY <1>1, <2>1, <2>3, <2>4, <3>2
  <2> QED
    BY <2>6, <2>7, <2>8
<1>4. CASE writing \in {"flag", "page"}
  <2>1. PICK x, f, p : f \in {"revocation", "cursor"} /\ p = << <<f, x>> >> /\ Progress(p)
    BY <1>4 DEF PlanInv
  <2>2. WellFormed(p)
    BY <2>1, PlansWellFormed
  <2>3. PICK k \in Nat : NextIs(p, k)
    BY <2>1, <2>2, NextWrite
  <2>4. p[k + 1][1] = f
    BY <2>1, <2>3 DEF NextIs
  <2> QED
    BY <1>1, <2>1, <2>2, <2>3, <2>4
<1>5. writes # <<>>
  BY DEF Write
<1> QED
  BY <1>3, <1>4, <1>5, <1>6, <1>7 DEF PlanInv

LEMMA BlankNext ==
    ASSUME TypeInv, PlanInv, ScreenInv, BlankInv, [Next]_vars PROVE BlankInv'
<1>0. /\ settings \in [Fields -> Values] /\ used \subseteq used' /\ known \subseteq known'
      /\ Blank # None /\ Blank \notin Id /\ None \notin Id /\ used \subseteq Id
  BY Grows, SentinelAssumption DEF TypeInv, DiskTyped, vars, history
<1>1. settings' = [settings EXCEPT !.queue = "[...]"] =>
          settings'.device = settings.device /\ settings'.token = settings.token
  BY <1>0 DEF Fields
\* The three parts, when nothing happens to them.
<1>2. ASSUME settings'.device = settings.device, settings'.token = settings.token
      PROVE  WithoutBlank(settings'.device, settings'.token)
  BY <1>2 DEF BlankInv
<1>3. ASSUME \/ services' = services \/ services' = NoServices
             \/ services # NoServices /\ services' = [services EXCEPT !.ready = TRUE]
      PROVE  services' # NoServices =>
                /\ services'.vault \in known' \cup {Blank}
                /\ services'.device \in used' \cup {Blank} /\ services'.token \in used' \cup {Blank}
                /\ WithoutBlank(services'.device, services'.token)
  <2>1. services' # NoServices => services'.vault = services.vault /\ services'.device = services.device
                                  /\ services'.token = services.token /\ services # NoServices
    BY <1>3 DEF TypeInv, ServicesTyped
  <2> QED
    BY <1>0, <2>1 DEF BlankInv
<1>4. ASSUME \A r \in net' : r.kind = "push" =>
                \/ r \in net
                \/ r = Push /\ services # NoServices
                \/ \E q \in net : q.kind = "push" /\ r.token = q.token /\ r.auth = q.auth
                                  /\ r.device = q.device
      PROVE  \A r \in net' : r.kind = "push" =>
                /\ r.token = r.auth /\ r.auth # None
                /\ r.device # None /\ WithoutBlank(r.device, r.auth)
  <2>1. Push.token = services.token /\ Push.auth = services.token /\ Push.device = services.device
    BY DEF Push, Request
  <2> QED
    BY <1>0, <1>4, <2>1 DEF BlankInv
<1>5. ASSUME buildServices, settings.id # None, settings.device # None
      PROVE  /\ WithoutBlank(settings'.device, settings'.token)
             /\ services'.vault \in known' \cup {Blank}
             /\ services'.device \in used' \cup {Blank} /\ services'.token \in used' \cup {Blank}
             /\ WithoutBlank(services'.device, services'.token)
  <2>1. PICK token \in ensureDeviceAuthToken :
          /\ settings' = [settings EXCEPT !.token = token]
          /\ used' = used \cup ({token} \cap Id)
          /\ services' = [vault |-> settings.id, device |-> settings.device,
                          token |-> token, ready |-> FALSE]
    BY <1>5 DEF buildServices
  <2>2. /\ settings'.token = token /\ settings'.device = settings.device
        /\ services'.vault = settings.id /\ services'.device = settings.device /\ services'.token = token
    BY <1>0, <2>1 DEF Fields
  <2>3. token \in used' \cup {Blank}
    BY <1>0, <2>1, SettingsFields DEF ensureDeviceAuthToken
  <2>4. WithoutBlank(settings.device, token)
    BY <1>0, <2>1 DEF BlankInv, WithoutBlank, ensureDeviceAuthToken
  <2> QED
    BY <1>0, <1>5, <2>2, <2>3, <2>4, SettingsFields DEF HasVault
<1>6. CASE Launch
  <2>1. net' = net
    BY <1>6 DEF Launch
  <2>2. CASE HasVault
    <3>1. buildServices /\ settings.id # None /\ settings.device # None
      BY <1>6, <2>2 DEF Launch, HasVault
    <3> QED
      BY <1>4, <1>5, <2>1, <3>1 DEF BlankInv
  <2>3. CASE ~HasVault
    <3>1. settings' = settings /\ services' = services
      BY <1>6, <2>3 DEF Launch
    <3> QED
      BY <1>2, <1>3, <1>4, <2>1, <3>1 DEF BlankInv
  <2> QED
    BY <2>2, <2>3
<1>7. CASE Open
  <2>1. net' = net /\ buildServices
    BY <1>7 DEF Open
  <2>2. settings.id # None /\ settings.device # None
    <3>1. settings.id \in known /\ settings.device \in used
      BY <1>7, Finished DEF Open
    <3> QED
      BY <1>0, <3>1, SentinelAssumption DEF TypeInv
  <2> QED
    BY <1>4, <1>5, <2>1, <2>2 DEF BlankInv
<1>8. CASE Command \/ ScheduleOrCancelDeletion \/ RevokeSelf
  <2>1. services # NoServices
    BY <1>8, Finished DEF Command, ScheduleOrCancelDeletion, RevokeSelf, InVault, ScreenInv
  <2>2. /\ settings' = [settings EXCEPT !.queue = "[...]"] \/ settings' = settings
        /\ services' = services \/ services' = [services EXCEPT !.ready = TRUE]
        /\ net' \subseteq net \cup {Push, Delete}
    BY <1>8 DEF Command, ScheduleOrCancelDeletion, RevokeSelf, Enqueued, Send
  <2>3. Delete.kind # "push"
    BY Kinds
  <2> QED
    BY <1>1, <1>2, <1>3, <1>4, <2>1, <2>2, <2>3 DEF BlankInv
<1>9. CASE Create \/ Restore \/ TriggerPull \/ executePairing \/ signOutThisDevice \/ SignedOut
           \/ PageDone
  <2>1. settings' = settings /\ (services' = services \/ services' = NoServices)
    BY <1>9 DEF Create, Restore, TriggerPull, executePairing, signOutThisDevice, SignedOut, PageDone,
                local
  <2>2. \A r \in net' : r.kind = "push" => r \in net
    <3>1. CASE Restore
      BY <3>1, Kinds DEF Restore, Send
    <3>2. CASE TriggerPull
      BY <3>2, Kinds DEF TriggerPull, Send
    <3>3. CASE executePairing
      <4>1. PICK d, t : net' = net \cup {[Request("register", settings.id, settings.token, d, t)
                                            EXCEPT !.key = settings.key]}
        BY <3>3 DEF executePairing, Send
      <4>2. [Request("register", settings.id, settings.token, d, t)
                EXCEPT !.key = settings.key].kind = "register"
        BY Kinds
      <4> QED
        BY <4>1, <4>2
    <3>4. CASE Create \/ signOutThisDevice \/ SignedOut \/ PageDone
      BY <3>4 DEF Create, signOutThisDevice, SignedOut, PageDone
    <3> QED
      BY <1>9, <3>1, <3>2, <3>3, <3>4
  <2> QED
    BY <1>2, <1>3, <1>4, <2>1, <2>2 DEF BlankInv
<1>10. CASE Write
  <2>1. net' = net /\ services' = services
    BY <1>10 DEF Write
  <2> QED
    BY <1>3, <1>4, <1>10, <2>1, BlankWrite DEF BlankInv
<1>11. ASSUME NEW r \in net, Arrive(r, TRUE) \/ Arrive(r, FALSE) \/ Lose(r) PROVE BlankInv'
  <2>1. PICK answer : IF r.mine THEN React(r, answer) ELSE Unmoved
    BY <1>11 DEF Arrive, Lose
  <2>2. r \in Message /\ services' = services
    BY <1>11 DEF TypeInv, NetTyped, Arrive, Lose
  <2>3. settings' = settings \/ settings' = [settings EXCEPT !.queue = "[...]"]
    BY <2>1, <2>2, Reaction, FieldsOfMessage DEF Unmoved, QueueWritten
  <2>4. net' = net \ {r} \/ net' = (net \ {r}) \cup {Seal(r)}
    BY <1>11 DEF Arrive, Lose, NetAfter
  <2>5. Seal(r).kind = "seal"
    BY <2>2, SealOfMessage DEF Message
  <2>6. \A q \in net' : q.kind = "push" => q \in net
    BY <2>4, <2>5
  <2> QED
    BY <1>1, <1>2, <1>3, <1>4, <2>2, <2>3, <2>6 DEF BlankInv
<1>12. CASE Crash
  <2>1. /\ settings' = settings /\ services' = NoServices
        /\ net' = {[q EXCEPT !.mine = FALSE] : q \in {q \in net : q.kind # "pull"}}
    BY <1>12 DEF Crash
  <2>2. \A q \in net : /\ [q EXCEPT !.mine = FALSE].kind = q.kind
                       /\ [q EXCEPT !.mine = FALSE].device = q.device
                       /\ [q EXCEPT !.mine = FALSE].token = q.token
                       /\ [q EXCEPT !.mine = FALSE].auth = q.auth
    BY DEF TypeInv, NetTyped, Message
  <2>3. \A p \in net' : p.kind = "push" =>
            \E q \in net : q.kind = "push" /\ p.token = q.token /\ p.auth = q.auth /\ p.device = q.device
    <3> SUFFICES ASSUME NEW p \in net', p.kind = "push"
                 PROVE  \E q \in net : /\ q.kind = "push" /\ p.token = q.token
                                       /\ p.auth = q.auth /\ p.device = q.device
      OBVIOUS
    <3>1. PICK q \in net : p = [q EXCEPT !.mine = FALSE]
      BY <2>1
    <3>2. p.kind = q.kind /\ p.device = q.device /\ p.token = q.token /\ p.auth = q.auth
      BY <2>2, <3>1
    <3> QED
      BY <3>2
  <2> QED
    BY <1>2, <1>3, <1>4, <2>1, <2>3 DEF BlankInv
<1>13. CASE \/ \E u \in Vault : OtherRevokes(u) \/ OtherPushes(u) \/ VaultEnds(u)
            \/ \E p \in sealed : Expire(p)
            \/ vars' = vars
  <2>1. local' = local /\ net' = net
    BY <1>13 DEF OtherRevokes, OtherPushes, VaultEnds, Expire, vars
  <2>2. settings' = settings /\ services' = services
    BY <2>1 DEF local
  <2> QED
    BY <1>2, <1>3, <1>4, <2>1, <2>2 DEF BlankInv
<1> QED
  BY <1>6, <1>7, <1>8, <1>9, <1>10, <1>11, <1>12, <1>13 DEF Next


\* What a step does to the status of a vault.
LEMMA StatusKept ==
    ASSUME TypeInv, NEW r \in net, Answer(r) = "ok", Accept(r), NEW w \in Vault,
           relay'[w].status = "dead"
    PROVE  relay'[w] = relay[w]
<1>1. relay \in [Vault -> Vaults] /\ relay[w] \in Vaults
  BY DEF TypeInv, RelayTyped
<1>2. CASE r.kind \in {"seal", "pull"}
  BY <1>2 DEF Accept
<1>3. CASE r.kind \notin {"seal", "pull"}
  <2>1. PICK v \in Vault : v = r.vault /\ relay[v].status # "dead"
    BY <1>3, OkHasVault
  <2>2. PICK x : relay' = [relay EXCEPT ![v] = x] /\ x.status \in {relay[v].status, "live"}
    <3>0. relay[v] \in Vaults /\ r \in Message
      BY <1>1 DEF TypeInv, NetTyped
    <3>1. CASE r.kind \in {"register", "claim"}
      <4>1. relay' = [relay EXCEPT ![v] = [relay[v] EXCEPT !.devices = @ \cup {Pair(r)}]]
        BY <2>1, <3>1 DEF Accept, AddDevice
      <4>2. [relay[v] EXCEPT !.devices = @ \cup {Pair(r)}].status = relay[v].status
        BY <3>0 DEF Vaults
      <4> QED
        BY <4>1, <4>2
    <3>2. CASE r.kind = "delete"
      <4>1. relay' = [relay EXCEPT ![v] = [relay[v] EXCEPT !.devices = {p \in @ : p[1] # r.device},
                                                           !.gone = @ \cup {r.device}]]
        BY <1>1, <2>1, <3>2 DEF Accept, RemoveDevice
      <4>2. [relay[v] EXCEPT !.devices = {p \in @ : p[1] # r.device},
                             !.gone = @ \cup {r.device}].status = relay[v].status
        BY <3>0 DEF Vaults
      <4> QED
        BY <4>1, <4>2
    <3>3. CASE r.kind = "push"
      <4>1. \/ relay' = [relay EXCEPT ![v] = [relay[v] EXCEPT !.log = @ + 1]]
            \/ relay' = [relay EXCEPT ![v] = [relay[v] EXCEPT !.log = @ + 1, !.status = "live",
                                                              !.devices = {Pair(r)}]]
        BY <1>1, <2>1, <3>3 DEF Accept, Stored, Initialised
      <4>2. [relay[v] EXCEPT !.log = @ + 1].status = relay[v].status
        BY <3>0 DEF Vaults
      <4>3. [relay[v] EXCEPT !.log = @ + 1, !.status = "live", !.devices = {Pair(r)}].status = "live"
        BY <3>0 DEF Vaults
      <4> QED
        BY <4>1, <4>2, <4>3
    <3> QED
      BY <1>3, <3>0, <3>1, <3>2, <3>3, FieldsOfMessage
  <2>3. relay'[w] = IF w = v THEN x ELSE relay[w]
    BY <1>1, <2>2
  <2> QED
    BY <2>1, <2>2, <2>3
<1> QED
  BY <1>2, <1>3

LEMMA DeadIsEmpty ==
    ASSUME TypeInv, RegistryInv, NEW u \in Vault, OtherRevokes(u) \/ OtherPushes(u) \/ VaultEnds(u),
           NEW w \in Vault, relay'[w].status = "dead"
    PROVE  relay'[w].devices = {}
<1>1. relay \in [Vault -> Vaults] /\ relay[w] \in Vaults
  BY DEF TypeInv, RelayTyped
<1>2. CASE relay[w].status = "dead"
  BY <1>2, ElsewhereEffect DEF RegistryInv
<1>3. CASE relay[w].status # "dead"
  <2>1. CASE OtherRevokes(u)
    <3>1. PICK d : relay' = [relay EXCEPT ![u] = [relay[u] EXCEPT !.devices = {q \in @ : q[1] # d},
                                                                  !.gone = @ \cup {d}]]
      <4>1. PICK p \in relay[u].devices : relay' = RemoveDevice(u, p[1])
        BY <2>1 DEF OtherRevokes
      <4> QED
        BY <1>1, <4>1 DEF RemoveDevice
    <3>2. \/ relay'[w] = relay[w]
          \/ relay'[w] = [relay[w] EXCEPT !.devices = {q \in @ : q[1] # d}, !.gone = @ \cup {d}]
      BY <1>1, <3>1
    <3> QED
      BY <1>1, <1>3, <3>2 DEF Vaults
  <2>2. CASE OtherPushes(u)
    <3>1. relay' = [relay EXCEPT ![u] = [relay[u] EXCEPT !.log = @ + 1]]
      BY <1>1, <2>2 DEF OtherPushes
    <3>2. relay'[w] = relay[w] \/ relay'[w] = [relay[w] EXCEPT !.log = @ + 1]
      BY <1>1, <3>1
    <3> QED
      BY <1>1, <1>3, <3>2 DEF Vaults
  <2>3. CASE VaultEnds(u)
    BY <1>3, <2>3, EndsFields
  <2> QED
    BY <2>1, <2>2, <2>3
<1> QED
  BY <1>2, <1>3

LEMMA RegistryNext ==
    ASSUME TypeInv, SealInv, FreshInv, BlankInv, RegistryInv, [Next]_vars PROVE RegistryInv'
<1>0. used \subseteq used' /\ used \subseteq Id /\ None \notin Id /\ Blank \notin Id /\ Blank # None
  BY Grows, SentinelAssumption DEF TypeInv, vars, history
<1>1. ASSUME relay' = relay, left' = left PROVE RegistryInv'
  BY <1>0, <1>1 DEF RegistryInv
<1>2. ASSUME NEW r \in net, Answer(r) = "ok", Accept(r), used' = used PROVE RegistryInv'
  <2>1. r \in Message
    BY DEF TypeInv, NetTyped
  <2>2. ASSUME NEW w \in Vault, NEW p \in relay'[w].devices PROVE p \in used \X used
    <3>1. CASE p \in relay[w].devices
      BY <3>1 DEF RegistryInv
    <3>2. CASE p = Pair(r) /\ IsPending(r)
      <4>1. r.device \in used /\ r.token \in used
        BY <3>2 DEF FreshInv
      <4> QED
        BY <3>2, <4>1 DEF Pair
    <3>3. CASE r.kind = "push" /\ p = Pair(r)
      <4>1. r.kind = "push"
        BY <3>3
      <4>2. r.auth # Blank
        BY <1>2, <4>1, OkHasVault
      <4>3. r.token \in used /\ r.device \in used
        BY <1>0, <2>1, <4>1, <4>2, FieldsOfMessage DEF BlankInv, WithoutBlank
      <4> QED
        BY <3>3, <4>3 DEF Pair
    <3> QED
      BY <1>2, <3>1, <3>2, <3>3, AcceptEffect
  <2>3. ASSUME NEW w \in Vault, relay'[w].status = "dead" PROVE relay'[w].devices = {}
    BY <1>2, <2>3, StatusKept DEF RegistryInv
  <2>4. left' \subseteq used
    <3>1. CASE r.kind = "delete"
      <4>1. r.vault \in Vault /\ \E p \in relay[r.vault].devices : p[1] = r.device
        BY <1>2, <3>1 DEF Answer
      <4>2. r.device \in used
        BY <4>1 DEF RegistryInv
      <4> QED
        BY <1>2, <4>2 DEF Accept, RegistryInv
    <3>2. CASE r.kind # "delete"
      BY <1>2, <3>2 DEF Accept, RegistryInv
    <3> QED
      BY <3>1, <3>2
  <2> QED
    BY <1>2, <2>2, <2>3, <2>4 DEF RegistryInv
<1>3. ASSUME NEW r \in net, NEW heard \in BOOLEAN, Arrive(r, heard) PROVE RegistryInv'
  <2>1. used' = used
    BY <1>3 DEF Arrive
  <2>2. CASE Answer(r) = "ok"
    BY <1>2, <1>3, <2>1, <2>2 DEF Arrive
  <2>3. CASE Answer(r) # "ok"
    BY <1>1, <1>3, <2>3 DEF Arrive
  <2> QED
    BY <2>2, <2>3
<1>4. ASSUME NEW u \in Vault, OtherRevokes(u) \/ OtherPushes(u) \/ VaultEnds(u) PROVE RegistryInv'
  <2>1. left' = left /\ used' = used
    BY <1>4 DEF OtherRevokes, OtherPushes, VaultEnds, history
  <2>2. \A w \in Vault : relay'[w].devices \subseteq used \X used
    BY <1>4, ElsewhereEffect DEF RegistryInv
  <2>3. \A w \in Vault : relay'[w].status = "dead" => relay'[w].devices = {}
    BY <1>4, DeadIsEmpty
  <2> QED
    BY <2>1, <2>2, <2>3 DEF RegistryInv
<1>5. CASE \/ Launch \/ Create \/ Restore \/ Open \/ Write \/ Command \/ ScheduleOrCancelDeletion
           \/ TriggerPull \/ executePairing \/ signOutThisDevice \/ RevokeSelf \/ SignedOut
           \/ PageDone
  BY <1>1, <1>5, SentKinds
<1>6. CASE Crash \/ (\E r \in net : Lose(r)) \/ (\E p \in sealed : Expire(p)) \/ vars' = vars
  BY <1>1, <1>6 DEF Crash, Lose, Expire, vars, history
<1> QED
  BY <1>3, <1>4, <1>5, <1>6 DEF Next

\* Every variable has its type, and an open vault a token: for any vaults and ids.
THEOREM TypeCorrect == Spec => []TypeOK
<1>1. Init => SealInv /\ FreshInv /\ RevokedStaysOut
  BY DEF Init, SealInv, NobodyBeforeBirth, Seals, FreshInv, RevokedStaysOut
<1>2. Init => PlanInv /\ ScreenInv /\ BlankInv /\ RegistryInv
  <2> SUFFICES ASSUME Init PROVE PlanInv /\ ScreenInv /\ BlankInv /\ RegistryInv
    OBVIOUS
  <2>1. /\ settings.device = None /\ writing = "none" /\ writes = <<>> /\ screen = "off" /\ net = {}
        /\ services = NoServices /\ left = {} /\ \A v \in Vault : relay[v].devices = {}
    BY DEF Init, Unset
  <2> QED
    BY <2>1, SentinelAssumption DEF PlanInv, ScreenInv, BlankInv, RegistryInv, WithoutBlank
<1>3. TypeInv /\ SealInv /\ PlanInv /\ ScreenInv /\ BlankInv /\ RegistryInv => TypeOK
  <2> SUFFICES ASSUME TypeInv, SealInv, PlanInv, ScreenInv, BlankInv, RegistryInv PROVE TypeOK
    OBVIOUS
  <2>1. settings \in [key : Vault \cup {None, Blank}, id : Vault \cup {None, Blank},
                      device : Id \cup {None, Blank}, name : {None, Blank, "Mac", "Restored device"},
                      token : Id \cup {None, Blank}, queue : {None, Blank, "[...]"},
                      cursor : Nat \cup {None, Blank}, revocation : Id \cup {None, Blank}]
    <3>1. settings \in [Fields -> Values]
      BY DEF TypeInv, DiskTyped
    <3> QED
      BY <3>1, SettingsFields DEF Fields, TypeInv
  <2>2. writing \in {"none", "create", "restore", "flag", "wipe", "page", "execute"}
    BY DEF PlanInv
  <2>3. \A v \in Vault : /\ relay[v].status \in {"unborn", "live", "ending", "dead"}
                         /\ relay[v].devices \subseteq used \X used
                         /\ relay[v].status \in {"unborn", "dead"} => relay[v].devices = {}
                         /\ relay[v].log \in Nat /\ relay[v].deletions \subseteq Nat
    BY FieldsOfVault DEF RegistryInv, SealInv, NobodyBeforeBirth
  <2> QED
    BY <2>1, <2>2, <2>3 DEF TypeOK, TypeInv, ScreenInv, BlankInv, RegistryInv
<1> QED
  BY <1>1, <1>2, <1>3, Typed, SealNext, FreshNext, PlanNext, ScreenNext, BlankNext, RegistryNext, PTL
     DEF Spec


-----------------------------------------------------------------------------
(* SignOutIsResumable *)

\* A device that has left, or whose request to leave is on its way.
Leaving(d) == d \in left \/ \E r \in net : r.kind = "delete" /\ r.device = d

LeaveInv ==
    /\ settings.device \in Id /\ Leaving(settings.device) => settings.revocation = settings.device
    /\ services # NoServices /\ settings.device # services.device =>
          ~(settings.device \in Id /\ Leaving(settings.device))
    /\ \A d \in Id : Names(writes, d) => ~Leaving(d)

LEMMA LeaveWrite ==
    ASSUME TypeInv, PlanInv, LeaveInv, Write PROVE LeaveInv'
<1>0. /\ settings \in [Fields -> Values] /\ left' = left /\ net' = net /\ services' = services
      /\ Blank \notin Id
  BY SentinelAssumption DEF TypeInv, DiskTyped, Write, history
<1>1. writes # <<>> /\ writes' = Tail(writes)
      /\ settings' = [settings EXCEPT ![Head(writes)[1]] = Head(writes)[2]]
  BY DEF Write
<1>2. writes \in Seq(Entries(known, used))
  BY PlanIsSeq DEF TypeInv, PlanTyped
<1>3. Head(writes) = writes[1] /\ 1 \in 1..Len(writes) /\ writes[1] \in Entries(known, used)
  BY <1>1, <1>2
<1>4. \A d : Leaving(d)' <=> Leaving(d)
  BY <1>0 DEF Leaving
<1>5. \A d : Names(writes', d) => Names(writes, d)
  <2> SUFFICES ASSUME NEW d, NEW i \in 1..Len(writes'), writes'[i] = <<"device", d>> PROVE Names(writes, d)
    BY DEF Names
  <2>1. i + 1 \in 1..Len(writes) /\ writes[i + 1] = writes'[i]
    BY <1>1, <1>2
  <2> QED
    BY <2>1 DEF Names
<1>6. \A d \in Id : Names(writes', d) => ~Leaving(d)'
  BY <1>4, <1>5 DEF LeaveInv
<1>7. CASE writes[1][1] = "device"
  <2>1. PICK d : d = writes[1][2]
    OBVIOUS
  <2>2. settings'.device = d
    BY <1>0, <1>1, <1>3, <1>7, <2>1 DEF Fields
  <2>3. writes[1] = <<"device", d>>
    BY <1>3, <1>7, <2>1 DEF Entries
  <2>4. d \in Id => ~Leaving(d)
    BY <1>3, <2>3 DEF LeaveInv, Names
  <2> QED
    BY <1>4, <1>6, <2>2, <2>4 DEF LeaveInv
<1>8. CASE writes[1][1] = "revocation"
  <2>1. PICK x : x = writes[1][2]
    OBVIOUS
  <2>2. settings'.revocation = x /\ settings'.device = settings.device
    BY <1>0, <1>1, <1>3, <1>8, <2>1 DEF Fields
  <2>3. (services # NoServices /\ x = services.device) \/ settings.device = Blank
    <3>1. CASE writing = "flag"
      <4>1. PICK p : p = << <<"revocation", services.device>> >> /\ Progress(p) /\ services # NoServices
        BY <3>1 DEF PlanInv
      <4>2. Len(p) = 1 /\ p[1][2] = services.device
        BY <4>1
      <4>3. writes[1] = p[1]
        <5>1. Len(writes) \in Nat /\ Len(writes) >= 1 /\ Len(writes) <= 1
          BY <1>2, <1>3, <4>1, <4>2 DEF Progress
        <5>2. writes[1] = p[Len(p) - Len(writes) + 1] /\ Len(p) - Len(writes) + 1 = 1
          BY <1>3, <4>1, <4>2, <5>1 DEF Progress
        <5> QED
          BY <5>2
      <4> QED
        BY <2>1, <4>1, <4>2, <4>3
    <3>2. CASE writing = "wipe"
      <4>1. PICK p : p = signedOut /\ Progress(p)
        BY <3>2 DEF PlanInv
      <4>2. WellFormed(p)
        BY <4>1, PlansWellFormed
      <4>3. /\ Len(p) = 7 /\ p[1][1] = "key" /\ p[2][1] = "token" /\ p[3][1] = "id"
            /\ p[4] = <<"device", Blank>> /\ p[5][1] = "name" /\ p[6][1] = "queue"
        BY <4>1, WipeShape
      <4>4. PICK k \in Nat : NextIs(p, k)
        BY <4>1, <4>2, NextWrite
      <4>5. /\ k < 7 /\ writes[1] = p[k + 1]
            /\ \A j \in 1..k : p[j][1] # "cursor" => settings[p[j][1]] = p[j][2]
        BY <1>3, <4>3, <4>4 DEF NextIs
      <4>6. k = 6
        <5>1. k \in {0, 1, 2, 3, 4, 5, 6}
          BY <4>5
        <5> QED
          BY <1>8, <4>3, <4>5, <5>1
      <4>7. settings["device"] = Blank
        BY <4>3, <4>5, <4>6
      <4> QED
        BY <4>7
    <3>3. ASSUME NEW p, WellFormed(p), Progress(p), \A i \in 1..Len(p) : p[i][1] # "revocation" PROVE FALSE
      <4>1. PICK k \in Nat : NextIs(p, k)
        BY <3>3, NextWrite
      <4>2. writes[1] = p[k + 1] /\ k + 1 \in 1..Len(p)
        BY <1>3, <3>3, <4>1 DEF NextIs, WellFormed
      <4> QED
        BY <1>8, <3>3, <4>2
    <3>4. CASE writing = "create"
      <4>0. PICK v \in known, d \in used : Progress(persistVault(v, d, "Mac"))
        BY <3>4 DEF PlanInv
      <4>1. PICK p : p = persistVault(v, d, "Mac") /\ Progress(p)
        BY <4>0
      <4>2. WellFormed(p)
        BY <4>1, PlansWellFormed
      <4>3. Len(p) = 4 /\ p[1][1] = "key" /\ p[2][1] = "id" /\ p[3][1] = "device" /\ p[4][1] = "name"
        BY <4>1, WrittenOut
      <4>4. \A i \in 1..Len(p) : p[i][1] # "revocation"
        BY <4>3
      <4> QED
        BY <3>3, <4>1, <4>2, <4>4
    <3>5. CASE writing = "restore"
      <4>0. PICK v \in known, d, t \in used : Progress(restoredVault(v, d, t))
        BY <3>5 DEF PlanInv
      <4>1. PICK p : p = restoredVault(v, d, t) /\ Progress(p)
        BY <4>0
      <4>2. WellFormed(p)
        BY <4>1, PlansWellFormed
      <4>3. /\ Len(p) = 5 /\ p[1][1] = "key" /\ p[2][1] = "id" /\ p[3][1] = "device" /\ p[4][1] = "name"
            /\ p[5][1] = "token"
        BY <4>1, RestoredShape
      <4>4. \A i \in 1..Len(p) : p[i][1] # "revocation"
        BY <4>3
      <4> QED
        BY <3>3, <4>1, <4>2, <4>4
    <3>6. CASE writing \in {"page", "execute"}
      <4>1. PICK n, p : (p = executed(n) \/ p = << <<"cursor", n>> >>) /\ Progress(p)
        BY <3>6 DEF PlanInv
      <4>2. WellFormed(p)
        BY <4>1, PlansWellFormed
      <4>3. \A i \in 1..Len(p) : p[i][1] # "revocation"
        <5>1. CASE p = executed(n)
          <6>1. /\ Len(p) = 8 /\ p[1][1] = "key" /\ p[2][1] = "token" /\ p[3][1] = "id"
                /\ p[4][1] = "device" /\ p[5][1] = "name" /\ p[6][1] = "queue" /\ p[7][1] = "cursor"
                /\ p[8][1] = "cursor"
            BY <5>1, ExecutedShape
          <6> QED
            BY <6>1
        <5>2. CASE p = << <<"cursor", n>> >>
          BY <5>2
        <5> QED
          BY <4>1, <5>1, <5>2
      <4> QED
        BY <3>3, <4>1, <4>2, <4>3
    <3> QED
      BY <1>1, <3>1, <3>2, <3>4, <3>5, <3>6 DEF PlanInv
  <2> QED
    BY <1>0, <1>4, <1>6, <2>2, <2>3 DEF LeaveInv
<1>9. CASE writes[1][1] \notin {"device", "revocation"}
  <2>1. settings'.revocation = settings.revocation /\ settings'.device = settings.device
    BY <1>0, <1>1, <1>3, <1>9 DEF Fields
  <2> QED
    BY <1>0, <1>4, <1>6, <2>1 DEF LeaveInv
<1> QED
  BY <1>7, <1>8, <1>9

LEMMA LeaveNext ==
    ASSUME TypeInv, PlanInv, ScreenInv, FreshInv, LeaveInv, [Next]_vars PROVE LeaveInv'
<1>0. /\ settings \in [Fields -> Values] /\ Blank \notin Id /\ None \notin Id /\ used \subseteq Id
  BY SentinelAssumption DEF TypeInv, DiskTyped
\* Who leaves is somebody.
<1>1. \A d \in Id : Leaving(d) => d \in used
  BY <1>0, FieldsOfMessage DEF Leaving, TypeInv, NetTyped
<1>2. ASSUME NEW x, settings' = settings \/ settings' = [settings EXCEPT !.queue = "[...]"]
             \/ settings' = [settings EXCEPT !.token = x]
      PROVE  settings'.device = settings.device /\ settings'.revocation = settings.revocation
  BY <1>0, <1>2 DEF Fields
\* Nobody new leaves.
<1>3. ASSUME settings'.device = settings.device, settings'.revocation = settings.revocation,
             \A d : Leaving(d)' => Leaving(d),
             \/ services' = services \/ services' = NoServices \/ services'.device = settings.device
             \/ services # NoServices /\ services' = [services EXCEPT !.ready = TRUE],
             \A d \in Id : Names(writes', d) => Names(writes, d) \/ ~Leaving(d)
      PROVE  LeaveInv'
  <2>1. services' # NoServices => \/ services'.device = settings.device
                                  \/ services # NoServices /\ services'.device = services.device
    BY <1>3 DEF TypeInv, ServicesTyped
  <2> QED
    BY <1>3, <2>1 DEF LeaveInv
<1>4. ASSUME NEW q, net' = net \cup {q} \/ net' = net, left' = left, q.kind # "delete"
      PROVE  \A d : Leaving(d)' => Leaving(d)
  BY <1>4 DEF Leaving
<1>5. CASE Launch \/ Open
  <2>1. /\ settings' = settings \/ \E x : settings' = [settings EXCEPT !.token = x]
        /\ services' = services \/ services'.device = settings.device
        /\ net' = net /\ left' = left /\ writes' = writes
    BY <1>5 DEF Launch, Open, buildServices
  <2>2. \A d : Leaving(d)' => Leaving(d)
    BY <2>1 DEF Leaving
  <2>3. settings'.device = settings.device /\ settings'.revocation = settings.revocation
    BY <1>2, <2>1
  <2> QED
    BY <1>3, <2>1, <2>2, <2>3
<1>6. CASE Create
  <2>1. PICK v \in Vault \ known, e \in Id \ used : writes' = persistVault(v, e, "Mac")
    BY <1>6 DEF Create, Writes
  <2>2. settings' = settings /\ services' = services /\ net' = net /\ left' = left
    BY <1>6 DEF Create
  <2>3. \A d \in Id : Names(writes', d) => ~Leaving(d)
    <3> SUFFICES ASSUME NEW d \in Id, Names(writes', d) PROVE ~Leaving(d)
      OBVIOUS
    <3>1. d = e
      BY <1>0, <2>1, PlanNames
    <3> QED
      BY <1>1, <3>1
  <2>4. \A d : Leaving(d)' => Leaving(d)
    BY <2>2 DEF Leaving
  <2> QED
    BY <1>3, <2>2, <2>3, <2>4
<1>7. CASE Restore \/ TriggerPull \/ executePairing
  <2>1. settings' = settings /\ services' = services /\ writes' = writes /\ left' = left
    BY <1>7 DEF Restore, TriggerPull, executePairing, local, history
  <2>2. PICK q : net' = net \cup {q} /\ q.kind # "delete"
    <3>1. CASE Restore
      <4>1. PICK v, d, t : net' = net \cup {Request("claim", v, None, d, t)}
        BY <3>1 DEF Restore, Send
      <4> QED
        BY <4>1, Kinds
    <3>2. CASE TriggerPull
      BY <3>2, Kinds DEF TriggerPull, Send
    <3>3. CASE executePairing
      <4>1. PICK d, t : net' = net \cup {[Request("register", settings.id, settings.token, d, t)
                                            EXCEPT !.key = settings.key]}
        BY <3>3 DEF executePairing, Send
      <4>2. [Request("register", settings.id, settings.token, d, t)
                EXCEPT !.key = settings.key].kind = "register"
        BY Kinds
      <4> QED
        BY <4>1, <4>2
    <3> QED
      BY <1>7, <3>1, <3>2, <3>3
  <2>3. \A d : Leaving(d)' => Leaving(d)
    BY <1>4, <2>1, <2>2
  <2> QED
    BY <1>3, <2>1, <2>3
<1>8. CASE Command \/ ScheduleOrCancelDeletion
  <2>1. services # NoServices
    BY <1>8 DEF Command, ScheduleOrCancelDeletion, InVault, ScreenInv
  <2>2. /\ settings' = [settings EXCEPT !.queue = "[...]"] /\ services' = [services EXCEPT !.ready = TRUE]
        /\ writes' = writes /\ left' = left /\ (net' = net \cup {Push} \/ net' = net)
    BY <1>8 DEF Command, ScheduleOrCancelDeletion, Enqueued, Send, history
  <2>3. \A d : Leaving(d)' => Leaving(d)
    <3>1. PICK q : q = Push
      OBVIOUS
    <3>2. q.kind # "delete" /\ (net' = net \cup {q} \/ net' = net)
      BY <2>2, <3>1, Kinds
    <3> QED
      BY <1>4, <2>2, <3>2
  <2>4. settings'.device = settings.device /\ settings'.revocation = settings.revocation
    BY <1>2, <2>2
  <2> QED
    BY <1>3, <2>1, <2>2, <2>3, <2>4
\* The flag is on disk.
<1>9. CASE RevokeSelf
  <2>1. services # NoServices /\ settings.revocation = services.device
    BY <1>9, Finished DEF RevokeSelf
  <2>2. /\ settings' = [settings EXCEPT !.queue = "[...]"] \/ settings' = settings
        /\ services' = services \/ services' = [services EXCEPT !.ready = TRUE]
        /\ writes' = writes /\ writes = <<>> /\ left' = left /\ net' \subseteq net \cup {Push, Delete}
    BY <1>9 DEF RevokeSelf, Enqueued, Send, history
  <2>3. \A d : Leaving(d)' => Leaving(d) \/ d = services.device
    BY <2>2, Kinds, RequestDevice DEF Leaving
  <2>4. settings'.device = settings.device /\ settings'.revocation = settings.revocation
    BY <1>2, <2>2
  <2>5. services'.device = services.device
    BY <2>2 DEF TypeInv, ServicesTyped
  <2>6. \A d : ~Names(writes', d)
    BY <2>2 DEF Names
  <2> QED
    BY <2>1, <2>3, <2>4, <2>5, <2>6 DEF LeaveInv
<1>10. CASE signOutThisDevice \/ SignedOut \/ PageDone
  <2>1. settings' = settings /\ (services' = services \/ services' = NoServices) /\ net' = net /\ left' = left
    BY <1>10 DEF signOutThisDevice, SignedOut, PageDone, history
  <2>2. \A d \in Id : Names(writes', d) => Names(writes, d)
    <3>1. CASE signOutThisDevice
      <4>1. writes' = << <<"revocation", services.device>> >>
        BY <3>1 DEF signOutThisDevice, Writes
      <4> QED
        BY <1>0, <4>1, PlanNames
    <3>2. CASE SignedOut \/ PageDone
      BY <3>2 DEF SignedOut, PageDone
    <3> QED
      BY <1>10, <3>1, <3>2
  <2>3. \A d : Leaving(d)' => Leaving(d)
    BY <2>1 DEF Leaving
  <2> QED
    BY <1>3, <2>1, <2>2, <2>3
<1>11. ASSUME NEW r \in net, NEW heard \in BOOLEAN, Arrive(r, heard) \/ Lose(r) PROVE LeaveInv'
  <2>1. PICK answer : IF r.mine THEN React(r, answer) ELSE Unmoved
    BY <1>11 DEF Arrive, Lose
  <2>2. r \in Message /\ services' = services
    BY <1>11 DEF TypeInv, NetTyped, Arrive, Lose
  <2>3. settings' = settings \/ settings' = [settings EXCEPT !.queue = "[...]"]
    BY <2>1, <2>2, Reaction, FieldsOfMessage DEF Unmoved, QueueWritten
  <2>4. \A d : Leaving(d)' => Leaving(d)
    <3>1. net' = net \ {r} \/ net' = (net \ {r}) \cup {Seal(r)}
      BY <1>11 DEF Arrive, Lose, NetAfter
    <3>2. Seal(r).kind = "seal"
      BY <2>2, SealOfMessage DEF Message
    <3>3. left' = left \/ (r.kind = "delete" /\ left' = left \cup {r.device})
      BY <1>11 DEF Arrive, Lose, Accept, history
    <3> QED
      BY <3>1, <3>2, <3>3 DEF Leaving
  <2>5. \A d \in Id : Names(writes', d) => Names(writes, d) \/ ~Leaving(d)
    <3> SUFFICES ASSUME NEW d \in Id, Names(writes', d), ~Names(writes, d) PROVE ~Leaving(d)
      OBVIOUS
    <3>1. d # Blank
      BY <1>0
    <3>2. CASE Unmoved \/ QueueWritten
      BY <3>2 DEF Unmoved, QueueWritten
    <3>3. CASE writes' = signedOut
      BY <3>1, <3>3, PlanNames
    <3>4. CASE r.kind = "claim" /\ writes' = restoredVault(r.vault, r.device, r.token)
      <4>1. d = r.device
        BY <3>1, <3>4, PlanNames
      <4>2. ~Taken(d) /\ \A q \in net \ {r} : q.device # d
        BY <3>4, <4>1 DEF FreshInv, IsPending
      <4> QED
        BY <3>4, <4>2 DEF Leaving, Taken
    <3>5. CASE pageApplied(r)
      <4>1. PICK n : \/ writes' = << <<"cursor", n>> >>
                     \/ writes' = wipeLocalVault \o << <<"cursor", Blank>> >> \o << <<"cursor", n>> >>
        BY <3>5 DEF pageApplied, writeCursor, Writes
      <4> QED
        BY <3>1, <4>1, PlanNames
    <3> QED
      BY <2>1, <2>2, <3>2, <3>3, <3>4, <3>5, Reaction, FieldsOfMessage DEF Writes
  <2>6. settings'.device = settings.device /\ settings'.revocation = settings.revocation
    BY <1>2, <2>3
  <2> QED
    BY <1>3, <2>2, <2>4, <2>5, <2>6
<1>12. CASE Crash
  <2>1. /\ settings' = settings /\ services' = NoServices /\ writes' = <<>> /\ left' = left
        /\ net' = {[q EXCEPT !.mine = FALSE] : q \in {q \in net : q.kind # "pull"}}
    BY <1>12 DEF Crash
  <2>2. \A q \in net : /\ [q EXCEPT !.mine = FALSE].kind = q.kind
                       /\ [q EXCEPT !.mine = FALSE].device = q.device
    BY DEF TypeInv, NetTyped, Message
  <2>3. \A d : Leaving(d)' => Leaving(d)
    <3> SUFFICES ASSUME NEW d, NEW p \in net', p.kind = "delete", p.device = d PROVE Leaving(d)
      BY <2>1 DEF Leaving
    <3>1. PICK q \in net : p = [q EXCEPT !.mine = FALSE]
      BY <2>1
    <3>2. q.kind = "delete" /\ q.device = d
      BY <2>2, <3>1
    <3> QED
      BY <3>2 DEF Leaving
  <2>4. \A d : ~Names(writes', d)
    BY <2>1 DEF Names
  <2> QED
    BY <1>3, <2>1, <2>3, <2>4
<1>13. CASE \/ \E u \in Vault : OtherRevokes(u) \/ OtherPushes(u) \/ VaultEnds(u)
            \/ \E p \in sealed : Expire(p)
            \/ vars' = vars
  <2>1. local' = local /\ net' = net /\ left' = left
    BY <1>13 DEF OtherRevokes, OtherPushes, VaultEnds, Expire, vars, history
  <2>2. settings' = settings /\ services' = services /\ writes' = writes
    BY <2>1 DEF local
  <2>3. \A d : Leaving(d)' => Leaving(d)
    BY <2>1 DEF Leaving
  <2> QED
    BY <1>3, <2>2, <2>3
<1>14. ASSUME NEW r \in net, Arrive(r, TRUE) \/ Arrive(r, FALSE) \/ Lose(r) PROVE LeaveInv'
  BY <1>11, <1>14
<1> QED
  BY <1>5, <1>6, <1>7, <1>8, <1>9, <1>10, <1>12, <1>13, <1>14, LeaveWrite DEF Next

\* While a device that removed itself at the relay still has its identity, the flag
\* that tells the next launch so is on disk: wherever the process died, and
\* whatever the answers of the requests became.
THEOREM Resumable == Spec => []SignOutIsResumable
<1>1. Init => SealInv /\ FreshInv /\ RevokedStaysOut
  BY DEF Init, SealInv, NobodyBeforeBirth, Seals, FreshInv, RevokedStaysOut
<1>2. Init => PlanInv /\ ScreenInv /\ BlankInv /\ RegistryInv /\ LeaveInv
  <2> SUFFICES ASSUME Init PROVE PlanInv /\ ScreenInv /\ BlankInv /\ RegistryInv /\ LeaveInv
    OBVIOUS
  <2>1. /\ settings.device = None /\ writing = "none" /\ writes = <<>> /\ screen = "off" /\ net = {}
        /\ services = NoServices /\ left = {} /\ \A v \in Vault : relay[v].devices = {}
    BY DEF Init, Unset
  <2>2. \A d : ~Names(writes, d)
    BY <2>1 DEF Names
  <2> QED
    BY <2>1, <2>2, SentinelAssumption
       DEF PlanInv, ScreenInv, BlankInv, RegistryInv, WithoutBlank, LeaveInv, Leaving
<1>3. TypeInv /\ RegistryInv /\ LeaveInv => SignOutIsResumable
  BY DEF TypeInv, RegistryInv, LeaveInv, Leaving, SignOutIsResumable
<1> QED
  BY <1>1, <1>2, <1>3, Typed, SealNext, FreshNext, PlanNext, ScreenNext, BlankNext, RegistryNext,
     LeaveNext, PTL DEF Spec

-----------------------------------------------------------------------------
(* What a step makes of a vault at the relay *)

\* The first push: the vault is there, and its device is the one that sent it.
Born(a, b, r) ==
    /\ a.status = "unborn" /\ b.status = "live" /\ b.devices = {Pair(r)}
    /\ b.gone = a.gone /\ b.log = a.log + 1 /\ b.deletions = a.deletions

\* A registration, a removal, a push.
Lives(a, b) ==
    /\ a.status \notin {"unborn", "dead"} /\ b.status = a.status
    /\ b.log \in {a.log, a.log + 1} /\ b.deletions = a.deletions

\* The deletion alarm.
Ending(a, b) ==
    /\ a.status \in {"live", "ending"} /\ b.status = "ending" /\ b.log = a.log + 1
    /\ b.deletions = a.deletions \cup {a.log + 1}
Died(a, b) ==
    /\ a.status = "ending" /\ b.status = "dead" /\ b.log = 0 /\ b.deletions = {}

LEMMA AcceptFields ==
    ASSUME TypeInv, NEW r \in net, Answer(r) = "ok", Accept(r), NEW w \in Vault
    PROVE  \/ relay'[w] = relay[w]
           \/ Lives(relay[w], relay'[w])
           \/ Born(relay[w], relay'[w], r) /\ r.kind = "push" /\ r.vault = w /\ r.auth # Blank
<1>1. relay \in [Vault -> Vaults] /\ relay[w] \in Vaults
  BY DEF TypeInv, RelayTyped
<1>2. r.kind \in {"claim", "push", "pull", "register", "seal", "delete"}
  BY FieldsOfMessage DEF TypeInv, NetTyped
<1>3. CASE r.kind \in {"seal", "pull"}
  BY <1>3 DEF Accept
<1>4. CASE r.kind \notin {"seal", "pull"}
  <2>1. PICK v \in Vault : v = r.vault /\ relay[v].status # "dead" /\ r.auth # Blank
        /\ (r.kind # "push" => relay[v].status # "unborn")
    BY <1>4, OkHasVault DEF Initialised
  <2>2. CASE r.kind \in {"register", "claim"}
    <3>1. relay' = [relay EXCEPT ![v] = [relay[v] EXCEPT !.devices = @ \cup {Pair(r)}]]
      BY <2>1, <2>2 DEF Accept, AddDevice
    <3>2. relay'[w] = IF w = v THEN [relay[w] EXCEPT !.devices = @ \cup {Pair(r)}] ELSE relay[w]
      BY <1>1, <3>1
    <3> QED
      BY <1>1, <2>1, <2>2, <3>2 DEF Vaults, Lives
  <2>3. CASE r.kind = "delete"
    <3>1. relay' = [relay EXCEPT ![v] = [relay[v] EXCEPT !.devices = {p \in @ : p[1] # r.device},
                                                         !.gone = @ \cup {r.device}]]
      BY <1>1, <2>1, <2>3 DEF Accept, RemoveDevice
    <3>2. relay'[w] = IF w = v THEN [relay[w] EXCEPT !.devices = {p \in @ : p[1] # r.device},
                                                     !.gone = @ \cup {r.device}]
                               ELSE relay[w]
      BY <1>1, <3>1
    <3> QED
      BY <1>1, <2>1, <2>3, <3>2 DEF Vaults, Lives
  <2>4. CASE r.kind = "push"
    <3>1. \/ /\ relay' = [relay EXCEPT ![v] = [relay[v] EXCEPT !.log = @ + 1]]
             /\ relay[v].status # "unborn"
          \/ /\ relay' = [relay EXCEPT ![v] = [relay[v] EXCEPT !.log = @ + 1, !.status = "live",
                                                               !.devices = {Pair(r)}]]
             /\ relay[v].status = "unborn"
      BY <1>1, <2>1, <2>4 DEF Accept, Stored, Initialised
    <3>2. \/ relay'[w] = relay[w]
          \/ /\ w = v /\ relay[w].status # "unborn"
             /\ relay'[w] = [relay[w] EXCEPT !.log = @ + 1]
          \/ /\ w = v /\ relay[w].status = "unborn"
             /\ relay'[w] = [relay[w] EXCEPT !.log = @ + 1, !.status = "live",
                                             !.devices = {Pair(r)}]
      BY <1>1, <3>1
    <3>3. CASE w = v /\ relay[w].status # "unborn" /\ relay'[w] = [relay[w] EXCEPT !.log = @ + 1]
      BY <1>1, <2>1, <3>3 DEF Vaults, Lives
    <3>4. CASE /\ w = v /\ relay[w].status = "unborn"
               /\ relay'[w] = [relay[w] EXCEPT !.log = @ + 1, !.status = "live",
                                               !.devices = {Pair(r)}]
      <4>1. PICK D : D = {Pair(r)}
        OBVIOUS
      <4>2. relay'[w] = [relay[w] EXCEPT !.log = @ + 1, !.status = "live", !.devices = D]
        BY <3>4, <4>1
      <4>3. /\ relay'[w].status = "live" /\ relay'[w].devices = D /\ relay'[w].gone = relay[w].gone
            /\ relay'[w].log = relay[w].log + 1 /\ relay'[w].deletions = relay[w].deletions
        BY <1>1, <4>2 DEF Vaults
      <4> QED
        BY <2>1, <2>4, <3>4, <4>1, <4>3 DEF Born
    <3> QED
      BY <3>2, <3>3, <3>4
  <2> QED
    BY <1>2, <1>4, <2>2, <2>3, <2>4
<1> QED
  BY <1>3, <1>4

LEMMA ElsewhereFields ==
    ASSUME TypeInv, NobodyBeforeBirth, RegistryInv,
           NEW u \in Vault, OtherRevokes(u) \/ OtherPushes(u) \/ VaultEnds(u), NEW w \in Vault
    PROVE  \/ relay'[w] = relay[w]
           \/ Lives(relay[w], relay'[w])
           \/ Ending(relay[w], relay'[w])
           \/ Died(relay[w], relay'[w])
<1>1. relay \in [Vault -> Vaults] /\ relay[w] \in Vaults
  BY DEF TypeInv, RelayTyped
<1>2. relay[u].devices # {} => relay[u].status \notin {"unborn", "dead"}
  BY DEF NobodyBeforeBirth, RegistryInv
<1>3. CASE OtherRevokes(u)
  <2>1. PICK p \in relay[u].devices : relay' = RemoveDevice(u, p[1])
    BY <1>3 DEF OtherRevokes
  <2>2. PICK d : d = p[1]
    OBVIOUS
  <2>3. relay' = [relay EXCEPT ![u] = [relay[u] EXCEPT !.devices = {q \in @ : q[1] # d},
                                                       !.gone = @ \cup {d}]]
    BY <1>1, <2>1, <2>2 DEF RemoveDevice
  <2>4. relay'[w] = IF w = u THEN [relay[w] EXCEPT !.devices = {q \in @ : q[1] # d}, !.gone = @ \cup {d}]
                             ELSE relay[w]
    BY <1>1, <2>3
  <2> QED
    BY <1>1, <1>2, <2>1, <2>4 DEF Vaults, Lives
<1>4. CASE OtherPushes(u)
  <2>1. relay' = [relay EXCEPT ![u] = [relay[u] EXCEPT !.log = @ + 1]] /\ relay[u].devices # {}
    BY <1>1, <1>4 DEF OtherPushes
  <2>2. relay'[w] = IF w = u THEN [relay[w] EXCEPT !.log = @ + 1] ELSE relay[w]
    BY <1>1, <2>1
  <2> QED
    BY <1>1, <1>2, <2>1, <2>2 DEF Vaults, Lives
<1>5. CASE VaultEnds(u)
  BY <1>5, EndsFields DEF Ending, Died
<1> QED
  BY <1>3, <1>4, <1>5

\* Every step: whose request it is that brings a vault to life, is in the network.
LEMMA VaultStep ==
    ASSUME TypeInv, NobodyBeforeBirth, RegistryInv, [Next]_vars, NEW w \in Vault
    PROVE  \/ relay'[w] = relay[w]
           \/ Lives(relay[w], relay'[w])
           \/ \E r \in net : /\ Born(relay[w], relay'[w], r)
                             /\ r.kind = "push" /\ r.vault = w /\ r.auth # Blank
           \/ Ending(relay[w], relay'[w])
           \/ Died(relay[w], relay'[w])
<1>1. CASE \/ Launch \/ Create \/ Restore \/ Open \/ Write \/ Command \/ ScheduleOrCancelDeletion
           \/ TriggerPull \/ executePairing \/ signOutThisDevice \/ RevokeSelf \/ SignedOut
           \/ PageDone \/ Crash \/ vars' = vars
  BY <1>1 DEF Launch, Create, Restore, Open, Write, Command, ScheduleOrCancelDeletion, TriggerPull,
              executePairing, signOutThisDevice, RevokeSelf, SignedOut, PageDone, Crash, vars
<1>2. ASSUME NEW r \in net, NEW heard \in BOOLEAN, Arrive(r, heard)
      PROVE  \/ relay'[w] = relay[w]
             \/ Lives(relay[w], relay'[w])
             \/ Born(relay[w], relay'[w], r) /\ r.kind = "push" /\ r.vault = w /\ r.auth # Blank
  <2>1. IF Answer(r) = "ok" THEN Accept(r) ELSE UNCHANGED <<relay, sealed, left>>
    BY <1>2 DEF Arrive
  <2>2. CASE Answer(r) = "ok"
    BY <2>1, <2>2, AcceptFields
  <2> QED
    BY <2>1, <2>2
<1>3. ASSUME NEW r \in net, Lose(r) PROVE relay'[w] = relay[w]
  BY <1>3 DEF Lose
<1>4. CASE \E p \in sealed : Expire(p)
  BY <1>4 DEF Expire
<1> QED
  BY <1>1, <1>2, <1>3, <1>4, ElsewhereFields DEF Next

-----------------------------------------------------------------------------
(* OpenIsAccepted *)

BirthInv ==
    /\ \A v \in Vault \ known : relay[v].status = "unborn"
    /\ \A v \in Vault : relay[v].status # "ending" => relay[v].deletions = {}
    /\ screen \in {"off", "welcome"} \/ writing = "create" => services = NoServices

LEMMA BirthNext ==
    ASSUME TypeInv, PlanInv, ScreenInv, SealInv, RegistryInv, BirthInv, [Next]_vars PROVE BirthInv'
<1>0. known \subseteq known' /\ NobodyBeforeBirth
  BY Grows DEF vars, history, SealInv
<1>1. \A v \in Vault \ known' : relay'[v].status = "unborn"
  <2> SUFFICES ASSUME NEW v \in Vault \ known' PROVE relay'[v].status = "unborn"
    OBVIOUS
  <2>1. relay[v].status = "unborn"
    BY <1>0 DEF BirthInv
  <2>2. \A r \in net : r.vault # v
    BY <1>0, FieldsOfMessage, SentinelAssumption DEF TypeInv, NetTyped
  <2> QED
    BY <1>0, <2>1, <2>2, VaultStep DEF Lives, Ending, Died
<1>2. \A v \in Vault : relay'[v].status # "ending" => relay'[v].deletions = {}
  <2> SUFFICES ASSUME NEW v \in Vault, relay'[v].status # "ending" PROVE relay'[v].deletions = {}
    OBVIOUS
  <2> QED
    BY <1>0, VaultStep DEF Lives, Born, Ending, Died, BirthInv
<1>3. screen' \in {"off", "welcome"} \/ writing' = "create" => services' = NoServices
  <2>1. CASE Launch
    <3>1. CASE HasVault
      BY <2>1, <3>1 DEF Launch, buildServices, ScreenInv
    <3>2. CASE ~HasVault
      BY <2>1, <3>2 DEF Launch, BirthInv
    <3> QED
      BY <3>1, <3>2
  <2>2. CASE Open
    BY <2>2 DEF Open, buildServices
  <2>3. CASE Create
    BY <2>3 DEF Create, AtWelcome, Running, BirthInv
  <2>4. CASE Command \/ ScheduleOrCancelDeletion
    BY <2>4 DEF Command, ScheduleOrCancelDeletion, InVault, Running
  <2>5. CASE RevokeSelf
    <3>1. services # NoServices /\ screen' \in {screen, "inbox"} /\ writing' = "none"
      BY <2>5, Finished DEF RevokeSelf
    <3>2. screen \notin {"off", "welcome"}
      BY <3>1 DEF BirthInv
    <3> QED
      BY <3>1, <3>2
  <2>6. CASE SignedOut \/ Crash
    BY <2>6 DEF SignedOut, Crash
  <2>7. CASE signOutThisDevice \/ PageDone
    BY <2>7 DEF signOutThisDevice, PageDone, Writes, BirthInv
  <2>8. CASE \/ Restore \/ TriggerPull \/ executePairing \/ Write
             \/ \E u \in Vault : OtherRevokes(u) \/ OtherPushes(u) \/ VaultEnds(u)
             \/ \E p \in sealed : Expire(p)
             \/ vars' = vars
    BY <2>8 DEF Restore, TriggerPull, executePairing, Write, OtherRevokes, OtherPushes, VaultEnds,
                Expire, vars, local, BirthInv
  <2>9. ASSUME NEW r \in net, Arrive(r, TRUE) \/ Arrive(r, FALSE) \/ Lose(r)
        PROVE  screen' \in {"off", "welcome"} \/ writing' = "create" => services' = NoServices
    <3>1. PICK answer : IF r.mine THEN React(r, answer) ELSE Unmoved
      BY <2>9 DEF Arrive, Lose
    <3>2. services' = services /\ screen' \in {screen, "inbox", "loading"}
      BY <2>9 DEF Arrive, Lose, ScreenAfter, Stays, Paired
    <3>3. r.kind \in {"claim", "push", "pull", "register", "seal", "delete"}
      BY FieldsOfMessage DEF TypeInv, NetTyped
    <3>4. writing' = "create" => writing = "create"
      BY <3>1, <3>3, Reaction DEF Unmoved, QueueWritten, Writes, pageApplied
    <3> QED
      BY <3>2, <3>4 DEF BirthInv
  <2> QED
    BY <2>1, <2>2, <2>3, <2>4, <2>5, <2>6, <2>7, <2>8, <2>9 DEF Next
<1> QED
  BY <1>1, <1>2, <1>3 DEF BirthInv

\* v is over for good.
Over(v) == relay[v].status \in {"ending", "dead"}

\* Nobody has a token for v yet, and no push that could register one is on its way.
Clear(v) ==
    /\ relay[v].status = "unborn"
    /\ \A r \in net : r.kind = "push" /\ r.vault = v => r.auth = Blank

\* v knows this identity, or has removed it, or it will be the first that v knows.
Home(v, d, t) ==
    \/ Over(v) \/ d \in relay[v].gone \/ <<d, t>> \in relay[v].devices
    \/ /\ relay[v].status = "unborn"
       /\ \A r \in net : r.kind = "push" /\ r.vault = v /\ r.auth # Blank => Pair(r) = <<d, t>>

\* A push that is on its way was, or a command or a sign-out has just sent it.
Sends == (Command \/ RevokeSelf) /\ Push \in net' /\ writing \in {"none", "flag"}

LEMMA PushesFrom ==
    ASSUME TypeInv, [Next]_vars, NEW q \in net', q.kind = "push"
    PROVE  \/ Sends /\ q = Push
           \/ \E r \in net : /\ r.kind = "push" /\ r.vault = q.vault /\ r.auth = q.auth
                             /\ r.device = q.device /\ r.token = q.token
<1>1. CASE Command \/ RevokeSelf
  <2>1. net' \subseteq net \cup {Push, Delete} /\ writing \in {"none", "flag"}
    BY <1>1 DEF Command, RevokeSelf, Send, InVault, Running
  <2>2. Delete.kind # "push"
    BY Kinds
  <2> QED
    BY <1>1, <2>1, <2>2 DEF Sends
<1>2. CASE Restore
  BY <1>2, Kinds DEF Restore, Send
<1>3. CASE TriggerPull
  BY <1>3, Kinds DEF TriggerPull, Send
<1>4. CASE executePairing
  <2>1. PICK d, t : net' = net \cup {[Request("register", settings.id, settings.token, d, t)
                                        EXCEPT !.key = settings.key]}
    BY <1>4 DEF executePairing, Send
  <2>2. [Request("register", settings.id, settings.token, d, t)
            EXCEPT !.key = settings.key].kind = "register"
    BY Kinds
  <2> QED
    BY <2>1, <2>2
<1>5. ASSUME NEW r \in net, Arrive(r, TRUE) \/ Arrive(r, FALSE) \/ Lose(r) PROVE q \in net
  <2>1. net' = net \ {r} \/ net' = (net \ {r}) \cup {Seal(r)}
    BY <1>5 DEF Arrive, Lose, NetAfter
  <2>2. Seal(r).kind = "seal"
    BY SealOfMessage DEF Message, TypeInv, NetTyped
  <2> QED
    BY <2>1, <2>2
<1>6. CASE Crash
  <2>1. PICK r \in net : q = [r EXCEPT !.mine = FALSE]
    BY <1>6 DEF Crash
  <2>2. /\ q.kind = r.kind /\ q.vault = r.vault /\ q.auth = r.auth /\ q.device = r.device
        /\ q.token = r.token
    BY <2>1 DEF TypeInv, NetTyped, Message
  <2> QED
    BY <2>2
<1>7. CASE \/ Launch \/ Create \/ Open \/ Write \/ ScheduleOrCancelDeletion \/ signOutThisDevice
           \/ SignedOut \/ PageDone
           \/ \E u \in Vault : OtherRevokes(u) \/ OtherPushes(u) \/ VaultEnds(u)
           \/ \E p \in sealed : Expire(p)
           \/ vars' = vars
  BY <1>7 DEF Launch, Create, Open, Write, ScheduleOrCancelDeletion, signOutThisDevice, SignedOut,
              PageDone, OtherRevokes, OtherPushes, VaultEnds, Expire, vars
<1> QED
  BY <1>1, <1>2, <1>3, <1>4, <1>5, <1>6, <1>7 DEF Next

LEMMA OverKept ==
    ASSUME TypeInv, SealInv, RegistryInv, [Next]_vars, NEW v \in Vault, Over(v)
    PROVE  Over(v)'
BY VaultStep DEF SealInv, Over, Lives, Born, Ending, Died

LEMMA ClearKept ==
    ASSUME TypeInv, SealInv, RegistryInv, [Next]_vars, NEW v \in Vault, Clear(v),
           Sends => services.vault # v
    PROVE  Clear(v)'
<1>1. relay'[v].status = "unborn"
  BY VaultStep DEF SealInv, Clear, Lives, Ending, Died
<1>2. ASSUME NEW q \in net', q.kind = "push", q.vault = v PROVE q.auth = Blank
  <2>1. Push.vault = services.vault
    BY DEF Push, Request
  <2> QED
    BY <1>2, <2>1, PushesFrom DEF Clear
<1> QED
  BY <1>1, <1>2 DEF Clear

\* Whoever was registered stays registered, or is removed.
LEMMA SurvivesNext ==
    ASSUME TypeInv, SealInv, [Next]_vars, NEW v \in Vault
    PROVE  Survives(relay[v], relay'[v])
<1>0. NobodyBeforeBirth
  BY DEF SealInv
<1>1. ASSUME relay' = relay PROVE Survives(relay[v], relay'[v])
  BY <1>0, <1>1 DEF Survives, NobodyBeforeBirth
<1>2. CASE \/ Launch \/ Create \/ Restore \/ Open \/ Write \/ Command \/ ScheduleOrCancelDeletion
           \/ TriggerPull \/ executePairing \/ signOutThisDevice \/ RevokeSelf \/ SignedOut
           \/ PageDone \/ Crash \/ vars' = vars \/ \E p \in sealed : Expire(p)
  BY <1>1, <1>2 DEF Launch, Create, Restore, Open, Write, Command, ScheduleOrCancelDeletion,
                    TriggerPull, executePairing, signOutThisDevice, RevokeSelf, SignedOut, PageDone,
                    Crash, vars, Expire
<1>3. ASSUME NEW r \in net, Arrive(r, TRUE) \/ Arrive(r, FALSE) \/ Lose(r)
      PROVE  Survives(relay[v], relay'[v])
  <2>1. CASE Answer(r) = "ok" /\ Accept(r)
    BY <1>0, <2>1, AcceptSurvives
  <2>2. CASE relay' = relay
    BY <1>1, <2>2
  <2> QED
    BY <1>3, <2>1, <2>2 DEF Arrive, Lose
<1>4. ASSUME NEW u \in Vault, OtherRevokes(u) \/ OtherPushes(u) \/ VaultEnds(u)
      PROVE  Survives(relay[v], relay'[v])
  BY <1>0, <1>4, ElsewhereSurvives
<1> QED
  BY <1>2, <1>3, <1>4 DEF Next

\* As long as no push under another identity is sent to it, v stays a home.
LEMMA HomeKept ==
    ASSUME TypeInv, SealInv, RegistryInv, [Next]_vars, NEW v \in Vault, NEW d, NEW t, Home(v, d, t),
           Sends /\ services.vault = v /\ relay[v].status = "unborn" =>
                services.device = d /\ services.token = t
    PROVE  Home(v, d, t)'
<1>1. CASE Over(v)
  BY <1>1, OverKept DEF Home
<1>2. CASE d \in relay[v].gone \/ <<d, t>> \in relay[v].devices
  BY <1>2, SurvivesNext DEF Survives, Home, Over
<1>3. CASE /\ relay[v].status = "unborn"
           /\ \A r \in net : r.kind = "push" /\ r.vault = v /\ r.auth # Blank => Pair(r) = <<d, t>>
  <2>1. CASE relay'[v].status = "unborn"
    <3>1. ASSUME NEW q \in net', q.kind = "push", q.vault = v, q.auth # Blank PROVE Pair(q) = <<d, t>>
      <4>1. /\ Push.vault = services.vault /\ Push.device = services.device
            /\ Push.token = services.token
        BY DEF Push, Request
      <4> QED
        BY <1>3, <3>1, <4>1, PushesFrom DEF Pair
    <3> QED
      BY <2>1, <3>1 DEF Home
  <2>2. CASE relay'[v].status # "unborn"
    <3>1. PICK r \in net : /\ Born(relay[v], relay'[v], r)
                           /\ r.kind = "push" /\ r.vault = v /\ r.auth # Blank
      BY <1>3, <2>2, VaultStep DEF SealInv, Lives, Ending, Died
    <3>2. <<d, t>> \in relay'[v].devices
      BY <1>3, <3>1 DEF Born
    <3> QED
      BY <3>2 DEF Home
  <2> QED
    BY <2>1, <2>2
<1> QED
  BY <1>1, <1>2, <1>3 DEF Home

\* One more setting of a plan.
LEMMA CreateWrite ==
    ASSUME TypeInv, NEW v, NEW d, Progress(persistVault(v, d, "Mac")), Write,
           Len(writes) >= 3 => ~Opens
    PROVE  /\ Progress(persistVault(v, d, "Mac"))'
           /\ Opens' => settings'.id = v /\ settings'.key = v
<1>0. settings \in [Fields -> Values]
  BY DEF TypeInv, DiskTyped
<1>1. PICK p : p = persistVault(v, d, "Mac") /\ Progress(p)
  OBVIOUS
<1>2. Len(p) = 4 /\ p[1] = <<"key", v>> /\ p[2] = <<"id", v>> /\ p[3] = <<"device", d>> /\ p[4][1] = "name"
  BY <1>1, WrittenOut
<1>3. WellFormed(p)
  BY <1>1, PlansWellFormed
<1>4. PICK k \in Nat : NextIs(p, k)
  BY <1>1, <1>3, NextWrite
<1>5. /\ k < 4 /\ Len(writes) = 4 - k
      /\ settings' = [settings EXCEPT ![p[k + 1][1]] = p[k + 1][2]]
      /\ \A j \in 1..k : p[j][1] # "cursor" => settings[p[j][1]] = p[j][2]
  BY <1>2, <1>4 DEF NextIs
<1>6. CASE k = 0
  <2>1. p[k + 1][1] = "key" /\ ~Opens
    BY <1>2, <1>5, <1>6
  <2>2. ~Opens'
    BY <1>0, <1>5, <2>1 DEF Opens, HasVault, Fields
  <2> QED
    BY <1>1, <1>3, <2>2, Goes DEF WellFormed
<1>7. CASE k >= 1
  <2>1. settings["key"] = v /\ (k >= 2 => settings["id"] = v)
    BY <1>2, <1>5, <1>7
  <2>2. settings'["key"] = v /\ settings'["id"] = v
    <3>1. CASE k = 1
      BY <1>0, <1>2, <1>5, <2>1, <3>1 DEF Fields
    <3>2. CASE k = 2
      BY <1>0, <1>2, <1>5, <2>1, <3>2 DEF Fields
    <3>3. CASE k = 3
      BY <1>0, <1>2, <1>5, <2>1, <3>3 DEF Fields
    <3> QED
      BY <1>5, <1>7, <3>1, <3>2, <3>3
  <2> QED
    BY <1>1, <1>3, <2>2, Goes DEF WellFormed
<1> QED
  BY <1>5, <1>6, <1>7

LEMMA RestoreWrite ==
    ASSUME TypeInv, NEW v, NEW d, NEW t, Progress(restoredVault(v, d, t)), Write
    PROVE  /\ Progress(restoredVault(v, d, t))'
           /\ writes' = <<>> => settings'.id = v /\ settings'.device = d /\ settings'.token = t
<1>1. PICK p : p = restoredVault(v, d, t) /\ Progress(p)
  OBVIOUS
<1>2. /\ Len(p) = 5 /\ p[2] = <<"id", v>> /\ p[3] = <<"device", d>> /\ p[5] = <<"token", t>>
  BY <1>1, RestoredShape
<1>3. WellFormed(p)
  BY <1>1, PlansWellFormed
<1>4. Progress(p)'
  BY <1>1, <1>3, Goes DEF WellFormed
<1>5. ASSUME writes' = <<>> PROVE settings'.id = v /\ settings'.device = d /\ settings'.token = t
  <2>1. \A j \in 1..5 : p[j][1] # "cursor" => settings'[p[j][1]] = p[j][2]
    BY <1>2, <1>4, <1>5 DEF Progress
  <2>2. settings'["id"] = v /\ settings'["device"] = d /\ settings'["token"] = t
    BY <1>2, <2>1
  <2> QED
    BY <2>2
<1> QED
  BY <1>1, <1>4, <1>5

Settled == writing \in {"restore", "wipe"} => writes = <<>>

\* The relay knows what runs, and what a launch would run.
ServicesHome ==
    services.vault \in Vault => Home(services.vault, services.device, services.token)
DiskHome ==
    Settled /\ Opens =>
        IF settings.token = None THEN Over(settings.id) \/ Clear(settings.id)
        ELSE Home(settings.id, settings.device, settings.token)
RestoreHome ==
    writing = "restore" =>
        \E v \in known, d \in used, t \in used :
            Progress(restoredVault(v, d, t)) /\ Home(v, d, t) /\ relay[v].status # "unborn"
CreateClear ==
    writing = "create" =>
        \E v \in known, d \in used : Progress(persistVault(v, d, "Mac")) /\ Clear(v)
ExecuteOver == writing = "execute" /\ Opens => Over(settings.id)
\* The services run what is on disk.
SameIdentity ==
    /\ writing \notin {"restore", "wipe"} /\ Opens
    /\ services.vault = settings.id /\ ~Over(settings.id)
    => services.device = settings.device /\ services.token = settings.token
OwnKey == writing # "restore" /\ Opens => settings.key \in {settings.id, Blank}

HomeInv ==
    ~torn => /\ ServicesHome /\ DiskHome /\ RestoreHome /\ CreateClear /\ ExecuteOver
             /\ SameIdentity /\ OwnKey

LEMMA SendsServices ==
    ASSUME TypeInv, PlanInv, ScreenInv, BlankInv, Sends
    PROVE  /\ services # NoServices /\ services.token # None
           /\ writing \in {"none", "flag"}
<1>1. services # NoServices
  BY Finished DEF Sends, Command, RevokeSelf, InVault, ScreenInv
<1>2. services.token # None
  BY <1>1, SentinelAssumption DEF BlankInv, TypeInv
<1> QED
  BY <1>1, <1>2 DEF Sends

LEMMA TornStays ==
    ASSUME [Next]_vars, ~torn' PROVE ~torn
<1>1. \/ torn' = torn \/ torn' = (torn \/ (writing \in {"restore", "wipe"} /\ writes # <<>>))
  BY DEF Next, Launch, Create, Restore, Open, Write, Command, ScheduleOrCancelDeletion, TriggerPull,
         executePairing, signOutThisDevice, RevokeSelf, SignedOut, PageDone, Crash, Arrive, Lose,
         OtherRevokes, OtherPushes, VaultEnds, Expire, vars, history
<1> QED
  BY <1>1

\* What the services run stays at home.
LEMMA ServicesStay ==
    ASSUME TypeInv, SealInv, RegistryInv, [Next]_vars, ServicesHome,
           services'.vault = services.vault, services'.device = services.device,
           services'.token = services.token
    PROVE  ServicesHome'
<1> SUFFICES ASSUME services'.vault \in Vault
             PROVE  Home(services.vault, services.device, services.token)'
  BY DEF ServicesHome
<1>1. PICK v, d, t : v \in Vault /\ v = services.vault /\ d = services.device /\ t = services.token
  OBVIOUS
<1>2. Home(v, d, t)
  BY <1>1 DEF ServicesHome
<1>3. Home(v, d, t)'
  BY <1>1, <1>2, HomeKept
<1> QED
  BY <1>1, <1>3 DEF Home, Over

\* What is on disk stays at home.
LEMMA DiskStays ==
    ASSUME TypeInv, PlanInv, ScreenInv, BlankInv, SealInv, RegistryInv, [Next]_vars,
           DiskHome, SameIdentity, Settled,
           settings'.id = settings.id, settings'.device = settings.device,
           settings'.name = settings.name, settings'.token = settings.token
    PROVE  DiskHome'
<1> SUFFICES ASSUME Opens
             PROVE  (IF settings.token = None THEN Over(settings.id) \/ Clear(settings.id)
                     ELSE Home(settings.id, settings.device, settings.token))'
  BY DEF DiskHome, Opens, HasVault
<1>1. PICK v, d, t : v \in Vault /\ v = settings.id /\ d = settings.device /\ t = settings.token
  BY DEF Opens
<1>2. Sends /\ services.vault = v /\ ~Over(v) => services.device = d /\ services.token = t
  BY <1>1, SendsServices DEF SameIdentity
<1>3. CASE t = None
  <2>1. CASE Over(v)
    <3>1. Over(v)'
      BY <1>1, <2>1, OverKept
    <3> QED
      BY <1>1, <1>3, <3>1 DEF Over
  <2>2. CASE Clear(v)
    <3>1. Sends => services.vault # v
      BY <1>2, <1>3, <2>2, SendsServices DEF Clear, Over
    <3>2. Clear(v)'
      BY <1>1, <2>2, <3>1, ClearKept
    <3> QED
      BY <1>1, <1>3, <3>2 DEF Clear
  <2> QED
    BY <1>1, <1>3, <2>1, <2>2 DEF DiskHome
<1>4. CASE t # None
  <2>1. Home(v, d, t)
    BY <1>1, <1>4 DEF DiskHome
  <2>2. relay[v].status = "unborn" => ~Over(v)
    BY DEF Over
  <2>3. Home(v, d, t)'
    BY <1>1, <1>2, <2>1, <2>2, HomeKept
  <2> QED
    BY <1>1, <1>4, <2>3 DEF Home, Over
<1> QED
  BY <1>3, <1>4

\* So does what a handler is writing.
LEMMA PlansStay ==
    ASSUME TypeInv, SealInv, RegistryInv, [Next]_vars, NEW v \in known, ~Sends
    PROVE  /\ \A d, t : Home(v, d, t) => Home(v, d, t)'
           /\ relay[v].status # "unborn" => relay'[v].status # "unborn"
           /\ Clear(v) => Clear(v)'
<1>1. v \in Vault
  BY DEF TypeInv
<1>2. relay[v].status # "unborn" => relay'[v].status # "unborn"
  BY <1>1, VaultStep DEF SealInv, Lives, Born, Ending, Died
<1>3. \A d, t : Home(v, d, t) => Home(v, d, t)'
  BY <1>1, HomeKept
<1> QED
  BY <1>1, <1>2, <1>3, ClearKept

LEMMA OwnKeyKept ==
    ASSUME OwnKey, writing # "restore", settings'.id = settings.id, settings'.device = settings.device,
           settings'.name = settings.name, settings'.key = settings.key
    PROVE  OwnKey'
BY DEF OwnKey, Opens, HasVault

\* What has to be kept when the identities on disk and in the services are.
LEMMA Quiet ==
    ASSUME TypeInv, PlanInv, ScreenInv, BlankInv, SealInv, RegistryInv, [Next]_vars, ~torn, HomeInv,
           settings'.id = settings.id, settings'.device = settings.device, settings'.key = settings.key,
           settings'.name = settings.name, settings'.token = settings.token,
           services'.vault = services.vault, services'.device = services.device,
           services'.token = services.token,
           writing \notin {"restore", "wipe"}
    PROVE  ServicesHome' /\ DiskHome' /\ SameIdentity' /\ OwnKey'
<1>1. ServicesHome' /\ OwnKey'
  BY ServicesStay, OwnKeyKept DEF HomeInv
<1>2. DiskHome'
  BY DiskStays DEF HomeInv, Settled
<1>3. SameIdentity'
  <2>1. \A v \in Vault : Over(v) => Over(v)'
    BY OverKept
  <2> QED
    BY <2>1 DEF HomeInv, SameIdentity, Opens, HasVault
<1> QED
  BY <1>1, <1>2, <1>3

\* Nothing of the installation moves.
LEMMA Still ==
    ASSUME TypeInv, PlanInv, ScreenInv, BlankInv, SealInv, RegistryInv, [Next]_vars, ~torn,
           HomeInv, settings' = settings, services' = services, writing' = writing, writes' = writes
    PROVE  HomeInv'
<1>0. used \subseteq used' /\ known \subseteq known'
  BY Grows DEF vars, history
<1>1. \A p : Progress(p) => Progress(p)'
  BY Waits
<1>2. RestoreHome'
  <2> SUFFICES ASSUME writing = "restore" PROVE RestoreHome'
    BY DEF RestoreHome
  <2>1. PICK v \in known, d \in used, t \in used :
            Progress(restoredVault(v, d, t)) /\ Home(v, d, t) /\ relay[v].status # "unborn"
    BY DEF HomeInv, RestoreHome
  <2>2. Home(v, d, t)' /\ relay'[v].status # "unborn"
    BY <2>1, PlansStay DEF Sends
  <2>3. Progress(restoredVault(v, d, t))'
    BY <1>1, <2>1
  <2> QED
    BY <1>0, <2>2, <2>3 DEF RestoreHome
<1>3. CreateClear'
  <2> SUFFICES ASSUME writing = "create" PROVE CreateClear'
    BY DEF CreateClear
  <2>1. PICK v \in known, d \in used : Progress(persistVault(v, d, "Mac")) /\ Clear(v)
    BY DEF HomeInv, CreateClear
  <2>2. Clear(v)' /\ Progress(persistVault(v, d, "Mac"))'
    BY <1>1, <2>1, PlansStay DEF Sends
  <2> QED
    BY <1>0, <2>2 DEF CreateClear
<1>4. ExecuteOver'
  BY OverKept DEF HomeInv, ExecuteOver, Opens, HasVault
<1>5. ServicesHome'
  BY ServicesStay DEF HomeInv
<1>6. DiskHome'
  <2>1. CASE Settled
    BY <2>1, DiskStays DEF HomeInv
  <2>2. CASE ~Settled
    BY <2>2 DEF DiskHome, Settled
  <2> QED
    BY <2>1, <2>2
<1>7. SameIdentity'
  <2>1. \A v \in Vault : Over(v) => Over(v)'
    BY OverKept
  <2> QED
    BY <2>1 DEF HomeInv, SameIdentity, Opens, HasVault
<1>8. OwnKey'
  BY DEF HomeInv, OwnKey, Opens, HasVault
<1> QED
  BY <1>2, <1>3, <1>4, <1>5, <1>6, <1>7, <1>8 DEF HomeInv

LEMMA HomeWrite ==
    ASSUME TypeInv, PlanInv, ScreenInv, BlankInv, SealInv, RegistryInv, BirthInv, KeyInv, HomeInv, Write,
           ~torn
    PROVE  HomeInv'
<1>0. /\ settings \in [Fields -> Values] /\ used' = used /\ known' = known /\ torn' = torn
      /\ relay' = relay /\ net' = net /\ services' = services /\ writing' = writing /\ writes # <<>>
      /\ Blank # None /\ Blank \notin Vault /\ None \notin Vault /\ None \notin Id
      /\ used \subseteq Id /\ known \subseteq Vault
  BY SentinelAssumption DEF TypeInv, DiskTyped, Write, history
\* The relay and the network do not move.
<1>1. ASSUME NEW v, NEW d, NEW t
      PROVE  (Over(v)' <=> Over(v)) /\ (Clear(v)' <=> Clear(v)) /\ (Home(v, d, t)' <=> Home(v, d, t))
  BY <1>0 DEF Over, Clear, Home, Pair
<1>2. ServicesHome'
  BY <1>0, <1>1 DEF HomeInv, ServicesHome, Home, Over, Pair
<1>3. CASE writing = "create"
  <2>1. PICK v \in known, d \in used : Progress(persistVault(v, d, "Mac")) /\ Clear(v)
    BY <1>3 DEF HomeInv, CreateClear
  <2>2. Progress(persistVault(v, d, "Mac"))' /\ (Opens' => settings'.id = v /\ settings'.key = v)
    BY <1>3, <2>1, CreateWrite DEF KeyInv
  <2>3. CreateClear'
    BY <1>0, <1>1, <2>1, <2>2 DEF CreateClear
  <2>4. DiskHome'
    <3>1. Clear(v)' /\ \A d1, t1 : Home(v, d1, t1)'
      BY <1>0, <1>1, <2>1 DEF Clear, Home
    <3>2. ASSUME Opens' PROVE Clear(settings.id)' /\ Home(settings.id, settings.device, settings.token)'
      BY <2>2, <3>1, <3>2 DEF Clear, Home, Over
    <3> QED
      BY <3>2 DEF DiskHome
  <2>5. services.vault = None
    BY <1>3 DEF BirthInv, NoServices
  <2>6. SameIdentity' /\ OwnKey'
    BY <1>0, <2>2, <2>5 DEF SameIdentity, OwnKey, Opens
  <2> QED
    BY <1>0, <1>2, <1>3, <2>3, <2>4, <2>6 DEF HomeInv, RestoreHome, ExecuteOver
<1>4. CASE writing = "restore"
  <2>1. PICK v \in known, d \in used, t \in used :
            Progress(restoredVault(v, d, t)) /\ Home(v, d, t) /\ relay[v].status # "unborn"
    BY <1>4 DEF HomeInv, RestoreHome
  <2>2. /\ Progress(restoredVault(v, d, t))'
        /\ writes' = <<>> => settings'.id = v /\ settings'.device = d /\ settings'.token = t
    BY <2>1, RestoreWrite
  <2>3. RestoreHome'
    BY <1>0, <1>1, <2>1, <2>2 DEF RestoreHome
  <2>4. DiskHome'
    <3>1. Home(v, d, t)' /\ t # None
      BY <1>0, <1>1, <2>1
    <3>2. ASSUME Settled' PROVE settings'.token # None /\ Home(settings.id, settings.device, settings.token)'
      <4>1. settings'.id = v /\ settings'.device = d /\ settings'.token = t
        BY <1>0, <1>4, <2>2, <3>2 DEF Settled
      <4> QED
        BY <3>1, <4>1 DEF Home, Over
    <3> QED
      BY <3>2 DEF DiskHome
  <2> QED
    BY <1>0, <1>2, <1>4, <2>3, <2>4 DEF HomeInv, CreateClear, ExecuteOver, SameIdentity, OwnKey
<1>5. ASSUME NEW p, WellFormed(p), Progress(p), WipesFirst(p), writing \in {"wipe", "execute"}
      PROVE  HomeInv'
  <2>1. settings'.key = Blank /\ (Opens' => Opens /\ settings'.id = settings.id /\ writes' # <<>>)
    BY <1>5, WipeWrite
  <2>2. OwnKey'
    BY <2>1 DEF OwnKey
  <2>3. ExecuteOver'
    <3> SUFFICES ASSUME writing = "execute", Opens' PROVE Over(settings.id)'
      BY <1>0 DEF ExecuteOver
    <3>1. Over(settings.id) /\ settings'.id = settings.id
      BY <2>1 DEF HomeInv, ExecuteOver
    <3> QED
      BY <1>0, <3>1 DEF Over
  <2>4. DiskHome'
    <3>1. CASE writing = "wipe"
      BY <1>0, <2>1, <3>1 DEF DiskHome, Settled
    <3>2. CASE writing = "execute"
      <4>1. Opens' => Over(settings.id)'
        BY <1>0, <2>3, <3>2 DEF ExecuteOver
      <4> QED
        BY <4>1 DEF DiskHome, Home
    <3> QED
      BY <1>5, <3>1, <3>2
  <2>5. SameIdentity'
    BY <1>0, <1>5, <2>3 DEF SameIdentity, ExecuteOver
  <2> QED
    BY <1>0, <1>2, <1>5, <2>2, <2>3, <2>4, <2>5 DEF HomeInv, RestoreHome, CreateClear
<1>6. CASE writing = "wipe"
  <2>1. PICK p : p = signedOut
    OBVIOUS
  <2>2. WellFormed(p) /\ Progress(p)
    BY <1>6, <2>1, PlansWellFormed DEF PlanInv
  <2>3. WipesFirst(p)
    BY <2>1, WipeShape DEF WipesFirst
  <2> QED
    BY <1>5, <1>6, <2>2, <2>3
<1>7. CASE writing = "execute"
  <2>1. PICK n \in Nat : Progress(executed(n))
    BY <1>7 DEF PlanInv
  <2>2. PICK p : p = executed(n) /\ Progress(p)
    BY <2>1
  <2>3. WellFormed(p)
    BY <2>2, PlansWellFormed
  <2>4. WipesFirst(p)
    BY <2>2, ExecutedShape DEF WipesFirst
  <2> QED
    BY <1>5, <1>7, <2>2, <2>3, <2>4
<1>8. CASE writing \in {"flag", "page"}
  <2>0. PICK f \in {"revocation", "cursor"} : \E x : Progress(<< <<f, x>> >>)
    BY <1>8 DEF PlanInv
  <2>1. PICK x : Progress(<< <<f, x>> >>)
    BY <2>0
  <2>2. settings' = [settings EXCEPT ![f] = x]
    BY <2>0, <2>1, OneWrite
  <2>3. /\ settings'.id = settings.id /\ settings'.device = settings.device
        /\ settings'.key = settings.key /\ settings'.name = settings.name
        /\ settings'.token = settings.token
    BY <1>0, <2>0, <2>2 DEF Fields
  <2>4. [Next]_vars
    BY DEF Next
  <2>5. services'.vault = services.vault /\ services'.device = services.device
        /\ services'.token = services.token /\ writing \notin {"restore", "wipe"}
    BY <1>0, <1>8
  <2>6. ServicesHome' /\ DiskHome' /\ SameIdentity' /\ OwnKey'
    BY <2>3, <2>4, <2>5, Quiet
  <2> QED
    BY <1>0, <1>8, <2>6 DEF HomeInv, RestoreHome, CreateClear, ExecuteOver
<1> QED
  BY <1>0, <1>3, <1>4, <1>6, <1>7, <1>8 DEF PlanInv

LEMMA Opening ==
    ASSUME TypeInv, buildServices, ~torn, writing' = "none", relay' = relay, net' = net,
           settings.id \in Vault =>
               /\ settings.key \in {settings.id, Blank}
               /\ IF settings.token = None THEN Over(settings.id) \/ Clear(settings.id)
                  ELSE Home(settings.id, settings.device, settings.token)
    PROVE  HomeInv'
<1>1. PICK token \in ensureDeviceAuthToken :
          /\ settings' = [settings EXCEPT !.token = token]
          /\ services' = [vault |-> settings.id, device |-> settings.device,
                          token |-> token, ready |-> FALSE]
  BY DEF buildServices
<1>2. /\ settings'.id = settings.id /\ settings'.device = settings.device /\ settings'.token = token
      /\ settings'.name = settings.name /\ settings'.key = settings.key
  BY <1>1 DEF TypeInv, DiskTyped, Fields
<1>3. services'.vault = settings.id /\ services'.device = settings.device /\ services'.token = token
  BY <1>1
<1>4. token # None
  BY <1>1, SentinelAssumption DEF ensureDeviceAuthToken
<1>5. ASSUME settings.id \in Vault PROVE Home(settings.id, settings.device, token)
  BY <1>1, <1>5 DEF ensureDeviceAuthToken, Home, Clear
<1>6. PICK v, d : v = settings.id /\ d = settings.device
  OBVIOUS
<1>7. Home(v, d, token)' <=> Home(v, d, token)
  BY DEF Home, Over, Pair
<1>8. DiskHome'
  <2>1. ASSUME settings.id \in Vault PROVE Home(settings.id, settings.device, settings.token)'
    BY <1>2, <1>5, <1>6, <1>7, <2>1 DEF Home, Over
  <2> QED
    BY <1>2, <1>4, <2>1 DEF DiskHome, Opens, HasVault
<1>9. SameIdentity' /\ OwnKey'
  BY <1>2, <1>3 DEF SameIdentity, OwnKey, Opens, HasVault
<1>10. ServicesHome'
  BY <1>3, <1>5, <1>6, <1>7 DEF ServicesHome, Home, Over
<1> QED
  BY <1>8, <1>9, <1>10 DEF HomeInv, RestoreHome, CreateClear, ExecuteOver

LEMMA HomeArrive ==
    ASSUME TypeInv, PlanInv, ScreenInv, BlankInv, SealInv, RegistryInv, BirthInv, FreshInv, HomeInv,
           NEW r \in net, Arrive(r, TRUE) \/ Arrive(r, FALSE) \/ Lose(r), ~torn
    PROVE  HomeInv'
<1>0. [Next]_vars /\ settings \in [Fields -> Values] /\ Blank # None /\ Blank \notin Vault
  BY SentinelAssumption DEF Next, TypeInv, DiskTyped
<1>1. PICK answer : /\ IF r.mine THEN React(r, answer) ELSE Unmoved
                    /\ answer = "ok" => Answer(r) = "ok" /\ Accept(r)
  <2>1. CASE Arrive(r, TRUE) \/ Arrive(r, FALSE)
    BY <2>1 DEF Arrive
  <2>2. CASE Lose(r)
    BY <2>2 DEF Lose
  <2> QED
    BY <2>1, <2>2
<1>2. /\ services' = services /\ used' = used /\ known' = known /\ torn' = torn
      /\ r.mine => writing = "none"
  BY DEF Arrive, Lose, history
<1>3. r \in Message /\ r.kind \in {"claim", "push", "pull", "register", "seal", "delete"}
  BY FieldsOfMessage DEF TypeInv, NetTyped
<1>4. CASE ~r.mine
  BY <1>0, <1>1, <1>2, <1>4, Still DEF Unmoved
<1>5. CASE r.mine
  <2>1. settings' = settings \/ settings' = [settings EXCEPT !.queue = "[...]"]
    BY <1>1, <1>3, <1>5, Reaction DEF Unmoved, QueueWritten
  <2>2. /\ settings'.id = settings.id /\ settings'.device = settings.device
        /\ settings'.key = settings.key /\ settings'.name = settings.name
        /\ settings'.token = settings.token
    BY <1>0, <2>1 DEF Fields
  <2>3. ServicesHome' /\ DiskHome' /\ SameIdentity' /\ OwnKey'
    BY <1>0, <1>2, <1>5, <2>2, Quiet
  <2>4. CASE writing' \in {"none", "wipe", "page"}
    BY <1>2, <2>3, <2>4 DEF HomeInv, RestoreHome, CreateClear, ExecuteOver
  <2>5. CASE r.kind = "claim" /\ answer = "ok" /\ Writes("restore", restoredVault(r.vault, r.device, r.token))
    <3>1. PICK v, d, t : v = r.vault /\ d = r.device /\ t = r.token
      OBVIOUS
    <3>2. v \in known' /\ v \in Vault
      BY <1>1, <1>2, <1>3, <2>5, <3>1, OkHasVault, FieldsOfMessage, SentinelAssumption
    <3>3. d \in used' /\ t \in used'
      BY <1>2, <2>5, <3>1 DEF FreshInv, IsPending
    <3>4. writing' = "restore" /\ writes' = restoredVault(v, d, t)
      BY <2>5, <3>1 DEF Writes
    <3>5. Progress(restoredVault(v, d, t))'
      BY <3>4, RestoredShape, Begun
    <3>6. <<d, t>> \in relay'[v].devices /\ Survives(relay[v], relay'[v])
      BY <1>1, <2>5, <3>1, <3>2, AcceptSurvives DEF SealInv, Pair
    <3>7. Home(v, d, t)' /\ relay'[v].status # "unborn"
      BY <3>6 DEF Home, Survives
    <3>8. RestoreHome'
      BY <3>2, <3>3, <3>5, <3>7 DEF RestoreHome
    <3> QED
      BY <2>3, <3>4, <3>8 DEF HomeInv, CreateClear, ExecuteOver
  <2>6. CASE settings' = settings /\ HasPage(r, answer) /\ pageApplied(r) /\ writing' = "execute"
    <3>1. SeesDeleted(r)
      BY <2>6 DEF pageApplied, Writes
    <3>2. PICK v \in Vault : v = r.vault
      BY <1>1, <2>6, OkHasVault DEF HasPage
    <3>3. relay[v].deletions # {} /\ settings.key = v
      BY <3>1, <3>2 DEF SeesDeleted, IsDeletion
    <3>4. Over(v)
      BY <3>3 DEF BirthInv, Over
    <3>5. Opens => settings.id = v
      BY <1>0, <1>2, <1>5, <3>2, <3>3 DEF HomeInv, OwnKey
    <3>6. Over(v)'
      BY <1>0, <3>4, OverKept
    <3>7. ExecuteOver'
      BY <2>6, <3>5, <3>6 DEF ExecuteOver, Opens, HasVault, Over
    <3> QED
      BY <2>3, <2>6, <3>7 DEF HomeInv, RestoreHome, CreateClear
  <2>7. \/ writing' \in {"none", "wipe", "page"}
        \/ r.kind = "claim" /\ answer = "ok" /\ Writes("restore", restoredVault(r.vault, r.device, r.token))
        \/ settings' = settings /\ HasPage(r, answer) /\ pageApplied(r) /\ writing' = "execute"
    BY <1>1, <1>2, <1>3, <1>5, Reaction DEF Unmoved, QueueWritten, Writes, pageApplied
  <2> QED
    BY <2>4, <2>5, <2>6, <2>7
<1> QED
  BY <1>4, <1>5

LEMMA HomeNext ==
    ASSUME TypeInv, PlanInv, ScreenInv, BlankInv, SealInv, RegistryInv, BirthInv, FreshInv, KeyInv,
           HomeInv, [Next]_vars
    PROVE  HomeInv'
<1> SUFFICES ASSUME ~torn' PROVE HomeInv'
  BY DEF HomeInv
<1>0. ~torn /\ settings \in [Fields -> Values] /\ Blank # None /\ Blank \notin Vault /\ None \notin Vault
  BY TornStays, SentinelAssumption DEF TypeInv, DiskTyped
<1>1. CASE Launch
  <2>1. writing = "none" /\ writing' = "none" /\ relay' = relay /\ net' = net /\ writes' = writes
    BY <1>1 DEF Launch, ScreenInv
  <2>2. CASE HasVault
    <3>1. buildServices
      BY <1>1, <2>2 DEF Launch
    <3>2. settings.id \in Vault =>
               /\ settings.key \in {settings.id, Blank}
               /\ IF settings.token = None THEN Over(settings.id) \/ Clear(settings.id)
                  ELSE Home(settings.id, settings.device, settings.token)
      BY <1>0, <2>1, <2>2 DEF HomeInv, DiskHome, OwnKey, Settled, Opens
    <3> QED
      BY <1>0, <2>1, <3>1, <3>2, Opening
  <2>3. CASE ~HasVault
    <3>1. settings' = settings /\ services' = services
      BY <1>1, <2>3 DEF Launch
    <3> QED
      BY <1>0, <2>1, <3>1, Still
  <2> QED
    BY <2>2, <2>3
<1>2. CASE Create
  <2>1. PICK v \in Vault \ known, d \in Id \ used :
            /\ known' = known \cup {v} /\ used' = used \cup {d} /\ writing' = "create"
            /\ writes' = persistVault(v, d, "Mac")
    BY <1>2 DEF Create, Writes
  <2>2. settings' = settings /\ services' = services /\ relay' = relay /\ net' = net
    BY <1>2 DEF Create
  <2>3. ~Opens /\ services = NoServices
    BY <1>2 DEF Create, AtWelcome, Running, KeyInv, BirthInv
  <2>4. Progress(persistVault(v, d, "Mac"))'
    BY <2>1, WrittenOut, Begun
  <2>5. Clear(v)'
    <3>1. relay[v].status = "unborn"
      BY DEF BirthInv
    <3>2. \A q \in net : q.vault # v
      BY <1>0, <2>1, FieldsOfMessage, SentinelAssumption DEF TypeInv, NetTyped
    <3> QED
      BY <2>2, <3>1, <3>2 DEF Clear
  <2>6. CreateClear'
    BY <2>1, <2>4, <2>5 DEF CreateClear
  <2>7. ~Opens' /\ services'.vault \notin Vault
    BY <1>0, <2>2, <2>3 DEF Opens, HasVault, NoServices
  <2> QED
    BY <2>1, <2>6, <2>7 DEF HomeInv, ServicesHome, DiskHome, RestoreHome, ExecuteOver, SameIdentity, OwnKey
<1>3. CASE Open
  <2>1. /\ writing \in {"create", "restore"} /\ writes = <<>> /\ buildServices /\ writing' = "none"
        /\ relay' = relay /\ net' = net
    BY <1>3 DEF Open
  <2>2. settings.key = settings.id
    BY <2>1, Finished
  <2>3. CASE writing = "create"
    <3>1. PICK v \in known, d \in used : Progress(persistVault(v, d, "Mac")) /\ Clear(v)
      BY <1>0, <2>3 DEF HomeInv, CreateClear
    <3>2. settings.id = v
      <4>1. PICK p : p = persistVault(v, d, "Mac") /\ Progress(p)
        BY <3>1
      <4>2. Len(p) = 4 /\ p[2] = <<"id", v>>
        BY <4>1, WrittenOut
      <4>3. settings["id"] = v
        BY <2>1, <4>1, <4>2 DEF Progress
      <4> QED
        BY <4>3
    <3>3. Clear(settings.id) /\ Home(settings.id, settings.device, settings.token)
      BY <3>1, <3>2 DEF Clear, Home
    <3> QED
      BY <1>0, <2>1, <2>2, <3>3, Opening
  <2>4. CASE writing = "restore"
    <3>1. PICK v \in known, d \in used, t \in used :
              Progress(restoredVault(v, d, t)) /\ Home(v, d, t)
      BY <1>0, <2>4 DEF HomeInv, RestoreHome
    <3>2. settings.id = v /\ settings.device = d /\ settings.token = t
      <4>1. PICK p : p = restoredVault(v, d, t) /\ Progress(p)
        BY <3>1
      <4>2. Len(p) = 5 /\ p[2] = <<"id", v>> /\ p[3] = <<"device", d>> /\ p[5] = <<"token", t>>
        BY <4>1, RestoredShape
      <4>3. \A j \in 1..5 : p[j][1] # "cursor" => settings[p[j][1]] = p[j][2]
        BY <2>1, <4>1, <4>2 DEF Progress
      <4>4. settings["id"] = v /\ settings["device"] = d /\ settings["token"] = t
        BY <4>2, <4>3
      <4> QED
        BY <4>4
    <3>3. settings.token # None /\ Home(settings.id, settings.device, settings.token)
      BY <3>1, <3>2, SentinelAssumption DEF TypeInv
    <3> QED
      BY <1>0, <2>1, <2>2, <3>3, Opening
  <2> QED
    BY <2>1, <2>3, <2>4
<1>4. CASE Command \/ ScheduleOrCancelDeletion \/ RevokeSelf \/ signOutThisDevice \/ PageDone
  <2>1. /\ settings' = [settings EXCEPT !.queue = "[...]"] \/ settings' = settings
        /\ services' = services \/ services' = [services EXCEPT !.ready = TRUE]
        /\ writing \in {"none", "flag", "page", "execute"} /\ writing' \in {"none", "flag"}
    BY <1>4 DEF Command, ScheduleOrCancelDeletion, RevokeSelf, signOutThisDevice, PageDone, Enqueued,
                InVault, Running, Writes
  <2>2. /\ settings'.id = settings.id /\ settings'.device = settings.device
        /\ settings'.key = settings.key /\ settings'.name = settings.name
        /\ settings'.token = settings.token
    BY <1>0, <2>1 DEF Fields
  <2>3. services'.vault = services.vault /\ services'.device = services.device
        /\ services'.token = services.token
    BY <2>1 DEF TypeInv, ServicesTyped
  <2>4. ServicesHome' /\ DiskHome' /\ SameIdentity' /\ OwnKey'
    BY <1>0, <2>1, <2>2, <2>3, Quiet
  <2> QED
    BY <2>1, <2>4 DEF HomeInv, RestoreHome, CreateClear, ExecuteOver
<1>5. CASE SignedOut
  <2>1. settings.id = Blank /\ settings' = settings /\ writing' = "none" /\ services' = NoServices
    BY <1>5, Finished DEF SignedOut
  <2>2. ~Opens' /\ services'.vault \notin Vault
    BY <1>0, <2>1 DEF Opens, NoServices
  <2> QED
    BY <2>1, <2>2 DEF HomeInv, ServicesHome, DiskHome, RestoreHome, CreateClear, ExecuteOver,
                      SameIdentity, OwnKey
<1>6. CASE Crash
  <2>1. /\ settings' = settings /\ services' = NoServices /\ writing' = "none"
        /\ torn' = (torn \/ (writing \in {"restore", "wipe"} /\ writes # <<>>))
    BY <1>6 DEF Crash
  <2>2. Settled
    BY <2>1 DEF Settled
  <2>3. DiskHome'
    BY <1>0, <2>1, <2>2, DiskStays DEF HomeInv
  <2>4. OwnKey'
    <3>1. CASE writing = "restore"
      BY <2>1, <2>2, <3>1, Finished DEF Settled, OwnKey
    <3>2. CASE writing # "restore"
      BY <1>0, <2>1, <3>2, OwnKeyKept DEF HomeInv
    <3> QED
      BY <3>1, <3>2
  <2>5. services'.vault \notin Vault
    BY <1>0, <2>1 DEF NoServices
  <2> QED
    BY <2>1, <2>3, <2>4, <2>5 DEF HomeInv, ServicesHome, RestoreHome, CreateClear, ExecuteOver,
                                  SameIdentity, Opens
<1>7. CASE \/ Restore \/ TriggerPull \/ executePairing
           \/ \E u \in Vault : OtherRevokes(u) \/ OtherPushes(u) \/ VaultEnds(u)
           \/ \E p \in sealed : Expire(p)
           \/ vars' = vars
  <2>1. local' = local
    BY <1>7 DEF Restore, TriggerPull, executePairing, OtherRevokes, OtherPushes, VaultEnds, Expire, vars
  <2> QED
    BY <1>0, <2>1, Still DEF local
<1>8. ASSUME NEW r \in net, Arrive(r, TRUE) \/ Arrive(r, FALSE) \/ Lose(r) PROVE HomeInv'
  BY <1>0, <1>8, HomeArrive
<1> QED
  BY <1>0, <1>1, <1>2, <1>3, <1>4, <1>5, <1>6, <1>7, <1>8, HomeWrite DEF Next

\* The relay knows the token of an open vault that it has, unless the device was
\* removed: whatever was created, restored, signed out or paired before, whichever
\* answers were lost, and wherever the process died but between the writes of a
\* restore or of a sign-out.
THEOREM AcceptedWhenOpen == Spec => []OpenIsAccepted
<1>1. Init => SealInv /\ FreshInv /\ RevokedStaysOut
  BY DEF Init, SealInv, NobodyBeforeBirth, Seals, FreshInv, RevokedStaysOut
<1>2. Init => PlanInv /\ ScreenInv /\ BlankInv /\ RegistryInv /\ KeyInv /\ BirthInv /\ HomeInv
  <2> SUFFICES ASSUME Init
               PROVE  PlanInv /\ ScreenInv /\ BlankInv /\ RegistryInv /\ KeyInv /\ BirthInv /\ HomeInv
    OBVIOUS
  <2>1. /\ settings.device = None /\ settings.id = None /\ writing = "none" /\ writes = <<>>
        /\ screen = "off" /\ net = {} /\ services = NoServices /\ left = {}
        /\ \A v \in Vault : relay[v].devices = {} /\ relay[v].status = "unborn" /\ relay[v].deletions = {}
    BY DEF Init, Unset
  <2>2. PlanInv /\ ScreenInv /\ BlankInv /\ RegistryInv /\ KeyInv /\ BirthInv
    BY <2>1, SentinelAssumption
       DEF PlanInv, ScreenInv, BlankInv, RegistryInv, WithoutBlank, KeyInv, NoForeignKey, Opens, BirthInv
  <2>3. ~Opens /\ services.vault \notin Vault
    BY <2>1, SentinelAssumption DEF Opens, NoServices
  <2> QED
    BY <2>1, <2>2, <2>3 DEF HomeInv, ServicesHome, DiskHome, RestoreHome, CreateClear, ExecuteOver,
                            SameIdentity, OwnKey
<1>3. HomeInv => OpenIsAccepted
  BY DEF HomeInv, ServicesHome, Home, Over, OpenIsAccepted
<1> QED
  BY <1>1, <1>2, <1>3, Typed, SealNext, FreshNext, PlanNext, ScreenNext, KeyNext, BlankNext,
     RegistryNext, BirthNext, HomeNext, PTL DEF Spec

-----------------------------------------------------------------------------
(* FirstVaultIsCovered *)

\* The table has what v's log has up to c, or v is over.
Covered(v, c) ==
    \/ relay[v].status = "dead"
    \/ c <= relay[v].log /\ \A n \in 1..c : <<v, n>> \in table \/ IsDeletion(v, n)

\* Only vaults that were opened are pulled.
PullInv ==
    /\ \A v \in Vault : relay[v].status = "dead" => relay[v].log = 0
    /\ services.vault \in opened \cup {None, Blank}
    /\ \A r \in net : r.kind = "pull" => r.vault \in opened \cup {None, Blank}

\* As long as no other vault was opened: the cursor on disk, the cursors of the
\* pulls that are on their way, and the cursor that is about to be written.
CursorInv ==
    \A v \in Vault : opened \subseteq {v} =>
        /\ Covered(v, readCursor)
        /\ \A r \in net : r.kind = "pull" => Covered(v, r.since)
        /\ \A i \in 1..Len(writes) :
              writes[i][1] = "cursor" /\ writes[i][2] # Blank => Covered(v, writes[i][2])

LEMMA HistoryGrows ==
    ASSUME TypeInv, [Next]_vars PROVE table \subseteq table' /\ opened \subseteq opened'
<1>1. ASSUME NEW r, NEW answer PROVE table \subseteq TableAfter(r, answer)
  BY DEF TableAfter
<1>2. table \subseteq table'
  <2>1. ASSUME NEW r \in net, Arrive(r, TRUE) \/ Arrive(r, FALSE) \/ Lose(r) PROVE table \subseteq table'
    BY <1>1, <2>1 DEF Arrive, Lose
  <2> QED
    BY <2>1 DEF Next, Launch, Create, Restore, Open, Write, Command, ScheduleOrCancelDeletion,
         TriggerPull, executePairing, signOutThisDevice, RevokeSelf, SignedOut, PageDone, Crash,
         OtherRevokes, OtherPushes, VaultEnds, Expire, vars, local
<1>3. opened \subseteq opened'
  BY DEF Next, Launch, Create, Restore, Open, Write, Command, ScheduleOrCancelDeletion,
         TriggerPull, executePairing, signOutThisDevice, RevokeSelf, SignedOut, PageDone, Crash,
         Arrive, Lose, OtherRevokes, OtherPushes, VaultEnds, Expire, vars, history, buildServices
<1> QED
  BY <1>2, <1>3

\* What is covered stays covered.
LEMMA CoveredKept ==
    ASSUME TypeInv, SealInv, RegistryInv, [Next]_vars, NEW v \in Vault, NEW c \in Nat, Covered(v, c)
    PROVE  Covered(v, c)'
<1>1. relay[v].log \in Nat /\ table \subseteq table'
  BY FieldsOfVault, HistoryGrows
<1>2. \/ relay'[v].status = "dead"
      \/ /\ relay[v].status # "dead" /\ relay[v].log <= relay'[v].log
         /\ relay[v].deletions \subseteq relay'[v].deletions
      \/ relay'[v] = relay[v]
  BY <1>1, VaultStep DEF SealInv, Lives, Born, Ending, Died
<1>3. relay'[v].log \in Nat
  BY FieldsOfVault, TypeNext DEF TypeInv, RelayTyped, Vaults
<1>4. CASE relay'[v].status = "dead"
  BY <1>4 DEF Covered
<1>5. CASE /\ relay[v].status # "dead" /\ relay[v].log <= relay'[v].log
           /\ relay[v].deletions \subseteq relay'[v].deletions
  <2>1. c <= relay'[v].log
    BY <1>1, <1>3, <1>5 DEF Covered
  <2> QED
    BY <1>1, <1>5, <2>1 DEF Covered, IsDeletion
<1>6. CASE relay'[v] = relay[v]
  BY <1>1, <1>6 DEF Covered, IsDeletion
<1> QED
  BY <1>2, <1>4, <1>5, <1>6

LEMMA NothingIsCovered ==
    ASSUME TypeInv, NEW v \in Vault PROVE Covered(v, 0)
BY FieldsOfVault DEF Covered

\* A pull that is on its way was, or has just been sent.
LEMMA PullsFrom ==
    ASSUME TypeInv, [Next]_vars, NEW q \in net', q.kind = "pull"
    PROVE  q \in net \/ q = Pull
<1>1. CASE Command \/ RevokeSelf
  <2>1. net' \subseteq net \cup {Push, Delete}
    BY <1>1 DEF Command, RevokeSelf, Send
  <2> QED
    BY <2>1, Kinds
<1>2. CASE Restore
  BY <1>2, Kinds DEF Restore, Send
<1>3. CASE TriggerPull
  BY <1>3, Kinds DEF TriggerPull, Send
<1>4. CASE executePairing
  <2>1. PICK d, t : net' = net \cup {[Request("register", settings.id, settings.token, d, t)
                                        EXCEPT !.key = settings.key]}
    BY <1>4 DEF executePairing, Send
  <2>2. [Request("register", settings.id, settings.token, d, t)
            EXCEPT !.key = settings.key].kind = "register"
    BY Kinds
  <2> QED
    BY <2>1, <2>2
<1>5. ASSUME NEW r \in net, Arrive(r, TRUE) \/ Arrive(r, FALSE) \/ Lose(r) PROVE q \in net
  <2>1. net' = net \ {r} \/ net' = (net \ {r}) \cup {Seal(r)}
    BY <1>5 DEF Arrive, Lose, NetAfter
  <2>2. Seal(r).kind = "seal"
    BY SealOfMessage DEF Message, TypeInv, NetTyped
  <2> QED
    BY <2>1, <2>2
<1>6. CASE Crash
  <2>1. PICK r \in net : q = [r EXCEPT !.mine = FALSE] /\ r.kind # "pull"
    BY <1>6 DEF Crash
  <2>2. q.kind = r.kind
    BY <2>1 DEF TypeInv, NetTyped, Message
  <2> QED
    BY <2>1, <2>2
<1>7. CASE \/ Launch \/ Create \/ Open \/ Write \/ ScheduleOrCancelDeletion \/ signOutThisDevice
           \/ SignedOut \/ PageDone
           \/ \E u \in Vault : OtherRevokes(u) \/ OtherPushes(u) \/ VaultEnds(u)
           \/ \E p \in sealed : Expire(p)
           \/ vars' = vars
  BY <1>7 DEF Launch, Create, Open, Write, ScheduleOrCancelDeletion, signOutThisDevice, SignedOut,
              PageDone, OtherRevokes, OtherPushes, VaultEnds, Expire, vars
<1> QED
  BY <1>1, <1>2, <1>3, <1>4, <1>5, <1>6, <1>7 DEF Next

LEMMA PullNext ==
    ASSUME TypeInv, PlanInv, SealInv, RegistryInv, PullInv, [Next]_vars PROVE PullInv'
<1>1. \A v \in Vault : relay'[v].status = "dead" => relay'[v].log = 0
  <2> SUFFICES ASSUME NEW v \in Vault, relay'[v].status = "dead" PROVE relay'[v].log = 0
    OBVIOUS
  <2> QED
    BY VaultStep DEF SealInv, PullInv, Lives, Born, Ending, Died
<1>2. opened \subseteq opened'
  BY HistoryGrows
<1>3. \A q \in net' : q.kind = "pull" => q.vault \in opened' \cup {None, Blank}
  <2>1. Pull.vault = services.vault
    BY DEF Pull, Request
  <2> QED
    BY <1>2, <2>1, PullsFrom DEF PullInv
<1>4. services'.vault \in opened' \cup {None, Blank}
  <2>1. CASE buildServices
    <3>1. services'.vault = settings.id /\ opened' = opened \cup ({settings.id} \cap Vault)
      BY <2>1 DEF buildServices
    <3> QED
      BY <3>1, SettingsFields DEF TypeInv
  <2>2. CASE services' = services
    BY <1>2, <2>2 DEF PullInv
  <2>3. CASE services' = NoServices
    BY <2>3 DEF NoServices
  <2>4. CASE services' = [services EXCEPT !.ready = TRUE]
    BY <1>2, <2>4 DEF PullInv, TypeInv, ServicesTyped
  <2> QED
    BY <2>1, <2>2, <2>3, <2>4
       DEF Next, Launch, Create, Restore, Open, Write, Command, ScheduleOrCancelDeletion, TriggerPull,
           executePairing, signOutThisDevice, RevokeSelf, SignedOut, PageDone, Crash, Arrive, Lose,
           OtherRevokes, OtherPushes, VaultEnds, Expire, vars, local, Enqueued
<1> QED
  BY <1>1, <1>3, <1>4 DEF PullInv

\* The cursor on disk changes when a handler writes one.
LEMMA CursorFrom ==
    ASSUME TypeInv, [Next]_vars
    PROVE  \/ settings'.cursor = settings.cursor
           \/ /\ 1 \in 1..Len(writes) /\ writes[1][1] = "cursor" /\ settings'.cursor = writes[1][2]
<1>0. settings \in [Fields -> Values] /\ writes \in Seq(Fields \X Values)
  BY DEF TypeInv, DiskTyped, PlanTyped, Plan
<1>1. CASE Write
  <2>1. writes # <<>> /\ settings' = [settings EXCEPT ![Head(writes)[1]] = Head(writes)[2]]
    BY <1>1 DEF Write
  <2>2. Head(writes) = writes[1] /\ 1 \in 1..Len(writes)
    BY <1>0, <2>1
  <2> QED
    BY <1>0, <2>1, <2>2 DEF Fields
<1>2. CASE buildServices \/ Enqueued \/ QueueWritten
  BY <1>0, <1>2 DEF buildServices, Enqueued, QueueWritten, Fields
<1>3. ASSUME NEW r \in net, Arrive(r, TRUE) \/ Arrive(r, FALSE) \/ Lose(r)
      PROVE  QueueWritten \/ settings' = settings
  <2>1. ASSUME NEW answer, React(r, answer) PROVE QueueWritten \/ settings' = settings
    BY <2>1 DEF React, Unmoved
  <2> QED
    BY <1>3, <2>1 DEF Arrive, Lose, Unmoved
<1> QED
  BY <1>1, <1>2, <1>3
     DEF Next, Launch, Create, Restore, Open, Command, ScheduleOrCancelDeletion, TriggerPull,
         executePairing, signOutThisDevice, RevokeSelf, SignedOut, PageDone, Crash,
         OtherRevokes, OtherPushes, VaultEnds, Expire, vars, local

\* The only cursor that a plan writes, but for the empty one of the wipe.
OnlyCursor(plan, c) ==
    /\ Len(plan) \in Nat
    /\ \A k \in 1..Len(plan) : plan[k][1] = "cursor" /\ plan[k][2] # Blank => plan[k][2] = c

LEMMA PlanCursors ==
    ASSUME NEW v, NEW d, NEW t, NEW x, NEW m, NEW c
    PROVE  /\ OnlyCursor(persistVault(v, d, m), c) /\ OnlyCursor(restoredVault(v, d, t), c)
           /\ OnlyCursor(signedOut, c) /\ OnlyCursor(executed(c), c)
           /\ OnlyCursor(<< <<"revocation", x>> >>, c) /\ OnlyCursor(<< <<"cursor", c>> >>, c)
<1>1. OnlyCursor(persistVault(v, d, m), c)
  <2>1. PICK p : p = persistVault(v, d, m)
    OBVIOUS
  <2>2. Len(p) = 4 /\ p[1][1] = "key" /\ p[2][1] = "id" /\ p[3][1] = "device" /\ p[4][1] = "name"
    BY <2>1, WrittenOut
  <2>3. OnlyCursor(p, c)
    BY <2>2 DEF OnlyCursor
  <2> QED
    BY <2>1, <2>3
<1>2. OnlyCursor(restoredVault(v, d, t), c)
  <2>1. PICK p : p = restoredVault(v, d, t)
    OBVIOUS
  <2>2. Len(p) = 5 /\ p[1][1] = "key" /\ p[2][1] = "id" /\ p[3][1] = "device" /\ p[4][1] = "name"
        /\ p[5][1] = "token"
    BY <2>1, RestoredShape
  <2>3. OnlyCursor(p, c)
    BY <2>2 DEF OnlyCursor
  <2> QED
    BY <2>1, <2>3
<1>3. OnlyCursor(signedOut, c)
  <2>1. PICK p : p = signedOut
    OBVIOUS
  <2>2. Len(p) = 7 /\ p[1][1] = "key" /\ p[2][1] = "token" /\ p[3][1] = "id" /\ p[4][1] = "device"
        /\ p[5][1] = "name" /\ p[6][1] = "queue" /\ p[7][1] = "revocation"
    BY <2>1, WipeShape
  <2>3. OnlyCursor(p, c)
    BY <2>2 DEF OnlyCursor
  <2> QED
    BY <2>1, <2>3
<1>4. OnlyCursor(executed(c), c)
  <2>1. PICK p : p = executed(c)
    OBVIOUS
  <2>2. Len(p) = 8 /\ p[1][1] = "key" /\ p[2][1] = "token" /\ p[3][1] = "id" /\ p[4][1] = "device"
        /\ p[5][1] = "name" /\ p[6][1] = "queue" /\ p[7][2] = Blank /\ p[8][2] = c
    BY <2>1, ExecutedShape
  <2>3. OnlyCursor(p, c)
    BY <2>2 DEF OnlyCursor
  <2> QED
    BY <2>1, <2>3
<1>5. OnlyCursor(<< <<"revocation", x>> >>, c)
  BY DEF OnlyCursor
<1>6. OnlyCursor(<< <<"cursor", c>> >>, c)
  BY DEF OnlyCursor
<1> QED
  BY <1>1, <1>2, <1>3, <1>4, <1>5, <1>6

LEMMA CursorsAreNumbers ==
    ASSUME TypeInv, PlanInv, NEW i \in 1..Len(writes), writes[i][1] = "cursor", writes[i][2] # Blank
    PROVE  writes[i][2] \in Nat
<1>1. ASSUME NEW plan, NEW n \in Nat, OnlyCursor(plan, n), Progress(plan) PROVE writes[i][2] \in Nat
  <2>0. Len(writes) \in Nat
    BY DEF TypeInv, PlanTyped, Plan
  <2>1. /\ Len(writes) <= Len(plan) /\ Len(plan) \in Nat
        /\ writes[i] = plan[Len(plan) - Len(writes) + i]
    BY <1>1 DEF Progress, OnlyCursor
  <2>2. Len(plan) - Len(writes) + i \in 1..Len(plan)
    BY <2>0, <2>1
  <2> QED
    BY <1>1, <2>1, <2>2 DEF OnlyCursor
<1>2. writes # <<>>
  OBVIOUS
<1> QED
  BY <1>1, <1>2, PlanCursors DEF PlanInv

\* A cursor that will be written was going to be, or a page was pulled.
Pulled(c) ==
    \E r \in net :
        /\ r.kind = "pull" /\ r.vault \in Vault /\ relay[r.vault].status # "dead"
        /\ c = relay[r.vault].log /\ relay' = relay
        /\ \A n \in Page(r) : <<r.vault, n>> \in table' \/ IsDeletion(r.vault, n)

LEMMA PageOf ==
    ASSUME NEW r \in net, Arrive(r, TRUE), r.mine, HasPage(r, Answer(r))
    PROVE  Pulled(relay[r.vault].log)
<1>1. r.kind = "pull" /\ Answer(r) = "ok"
  BY DEF HasPage
<1>2. r.vault \in Vault /\ relay[r.vault].status # "dead"
  BY <1>1 DEF Answer
<1>3. relay' = relay
  BY <1>1 DEF Arrive, Accept
<1>4. table' = TableAfter(r, "ok")
  BY <1>1 DEF Arrive
<1>5. ASSUME NEW n \in Page(r), ~IsDeletion(r.vault, n) PROVE <<r.vault, n>> \in table'
  BY <1>1, <1>4, <1>5 DEF TableAfter, HasPage
<1> QED
  BY <1>1, <1>2, <1>3, <1>5 DEF Pulled

LEMMA CursorsFrom ==
    ASSUME TypeInv, PlanInv, [Next]_vars,
           NEW i \in 1..Len(writes'), writes'[i][1] = "cursor", writes'[i][2] # Blank
    PROVE  \/ \E j \in 1..Len(writes) : writes[j] = writes'[i]
           \/ Pulled(writes'[i][2])
<1>0. writes \in Seq(Fields \X Values)
  BY DEF TypeInv, PlanTyped, Plan
<1>1. CASE Write
  <2>1. writes # <<>> /\ writes' = Tail(writes)
    BY <1>1 DEF Write
  <2>2. i + 1 \in 1..Len(writes) /\ writes'[i] = writes[i + 1]
    BY <1>0, <2>1
  <2> QED
    BY <2>2
<1>2. CASE Create
  <2>1. PICK v, d : writes' = persistVault(v, d, "Mac")
    BY <1>2 DEF Create, Writes
  <2>2. OnlyCursor(writes', 0) /\ OnlyCursor(writes', 1)
    BY <2>1, PlanCursors
  <2> QED
    BY <2>2 DEF OnlyCursor
<1>3. CASE signOutThisDevice
  <2>1. writes' = << <<"revocation", services.device>> >>
    BY <1>3 DEF signOutThisDevice, Writes
  <2>2. OnlyCursor(writes', 0) /\ OnlyCursor(writes', 1)
    BY <2>1, PlanCursors
  <2> QED
    BY <2>2 DEF OnlyCursor
<1>4. ASSUME NEW r \in net, NEW answer, React(r, answer)
      PROVE  \/ writes' = writes \/ writes' = signedOut
             \/ writes' = restoredVault(r.vault, r.device, r.token)
             \/ HasPage(r, answer) /\ OnlyCursor(writes', relay[r.vault].log)
  <2>1. CASE HasPage(r, answer) /\ pageApplied(r)
    <3>1. \/ writes' = << <<"cursor", relay[r.vault].log>> >>
          \/ writes' = executed(relay[r.vault].log)
      BY <2>1 DEF pageApplied, writeCursor, executed, Writes
    <3> QED
      BY <2>1, <3>1, PlanCursors
  <2> QED
    BY <1>4, <2>1 DEF React, QueueWritten, Writes, Unmoved
<1>5. ASSUME writes' = signedOut \/ \E v, d, t : writes' = restoredVault(v, d, t) PROVE FALSE
  <2>1. OnlyCursor(writes', 0) /\ OnlyCursor(writes', 1)
    BY <1>5, PlanCursors
  <2> QED
    BY <2>1 DEF OnlyCursor
<1>6. ASSUME NEW r \in net, Arrive(r, TRUE) \/ Arrive(r, FALSE) \/ Lose(r)
      PROVE  writes' = writes \/ Pulled(writes'[i][2])
  <2>1. \/ writes' = writes
        \/ r.mine /\ React(r, "none")
        \/ Arrive(r, TRUE) /\ r.mine /\ React(r, Answer(r))
    BY <1>6 DEF Arrive, Lose, Unmoved
  <2>2. ~HasPage(r, "none")
    BY DEF HasPage
  <2>3. CASE Arrive(r, TRUE) /\ r.mine /\ HasPage(r, Answer(r))
             /\ OnlyCursor(writes', relay[r.vault].log)
    BY <2>3, PageOf DEF OnlyCursor
  <2> QED
    BY <1>4, <1>5, <2>1, <2>2, <2>3
<1>7. CASE Crash
  BY <1>7 DEF Crash
<1>8. CASE writes' = writes
  BY <1>8
<1> QED
  BY <1>1, <1>2, <1>3, <1>6, <1>7, <1>8
     DEF Next, Launch, Restore, Open, Command, ScheduleOrCancelDeletion, TriggerPull,
         executePairing, RevokeSelf, SignedOut, PageDone,
         OtherRevokes, OtherPushes, VaultEnds, Expire, vars, local

\* With a page, what its pull had before it, and what it brings.
LEMMA PageCovers ==
    ASSUME TypeInv, PullInv, NEW v \in Vault, opened \subseteq {v}, NEW c, Pulled(c),
           [Next]_vars, \A r \in net : r.kind = "pull" => Covered(v, r.since)
    PROVE  c \in Nat /\ Covered(v, c)'
<1>1. PICK r \in net :
          /\ r.kind = "pull" /\ r.vault \in Vault /\ relay[r.vault].status # "dead"
          /\ c = relay[r.vault].log /\ relay' = relay
          /\ \A n \in Page(r) : <<r.vault, n>> \in table' \/ IsDeletion(r.vault, n)
  BY DEF Pulled
<1>2. r.vault = v
  BY <1>1, SentinelAssumption DEF PullInv
<1>3. c \in Nat /\ r.since \in Nat /\ table \subseteq table'
  BY <1>1, FieldsOfVault, HistoryGrows DEF TypeInv, NetTyped, Message
<1>4. r.since <= c /\ \A n \in 1..r.since : <<v, n>> \in table \/ IsDeletion(v, n)
  BY <1>1, <1>2 DEF Covered
<1>5. ASSUME NEW n \in 1..c PROVE <<v, n>> \in table' \/ IsDeletion(v, n)
  <2>1. n \in 1..r.since \/ n \in Page(r)
    BY <1>1, <1>2, <1>3 DEF Page
  <2> QED
    BY <1>1, <1>2, <1>3, <1>4, <2>1
<1> QED
  BY <1>1, <1>2, <1>3, <1>5 DEF Covered, IsDeletion

LEMMA CursorNext ==
    ASSUME TypeInv, PlanInv, SealInv, RegistryInv, PullInv, CursorInv, [Next]_vars PROVE CursorInv'
<1> SUFFICES ASSUME NEW v \in Vault, opened' \subseteq {v}
             PROVE  /\ \A c : c = readCursor' => Covered(v, c)'
                    /\ \A r \in net' : r.kind = "pull" => Covered(v, r.since)'
                    /\ \A i \in 1..Len(writes') : writes'[i][1] = "cursor" /\ writes'[i][2] # Blank
                          => \A c : c = writes'[i][2] => Covered(v, c)'
  BY DEF CursorInv, Covered, IsDeletion
<1>1. opened \subseteq {v}
  BY HistoryGrows
<1>2. /\ \A c : c = readCursor => Covered(v, c)
      /\ \A r \in net : r.kind = "pull" => Covered(v, r.since)
      /\ \A i \in 1..Len(writes) : writes[i][1] = "cursor" /\ writes[i][2] # Blank
            => \A c : c = writes[i][2] => Covered(v, c)
  BY <1>1 DEF CursorInv
<1>3. readCursor \in Nat
  BY DEF readCursor, Falsy, TypeInv, DiskTyped, MayHold, HeldBy, Fields
<1>4. \A c : c = readCursor => Covered(v, c)'
  BY <1>2, <1>3, CoveredKept
<1>5. Covered(v, 0)'
  BY NothingIsCovered, CoveredKept
<1>6. \A i \in 1..Len(writes) : writes[i][1] = "cursor" /\ writes[i][2] # Blank
         => \A c : c = writes[i][2] => Covered(v, c)'
  BY <1>2, CursorsAreNumbers, CoveredKept
<1>7. \A c : c = readCursor' => Covered(v, c)'
  <2>1. CASE settings'.cursor = settings.cursor
    BY <1>4, <2>1 DEF readCursor, Falsy
  <2>2. CASE 1 \in 1..Len(writes) /\ writes[1][1] = "cursor" /\ settings'.cursor = writes[1][2]
    <3>1. CASE settings'.cursor = Blank
      BY <1>5, <3>1 DEF readCursor, Falsy
    <3>2. CASE settings'.cursor # Blank
      <4>1. settings'.cursor \in Nat
        BY <2>2, <3>2, CursorsAreNumbers
      <4>2. readCursor' = settings'.cursor
        BY <4>1, SentinelAssumption DEF readCursor, Falsy
      <4> QED
        BY <1>6, <2>2, <3>2, <4>2
    <3> QED
      BY <3>1, <3>2
  <2> QED
    BY <2>1, <2>2, CursorFrom
<1>8. ASSUME NEW r \in net', r.kind = "pull" PROVE Covered(v, r.since)'
  <2>1. CASE r \in net
    BY <1>2, <1>8, <2>1, CoveredKept DEF TypeInv, NetTyped, Message
  <2>2. CASE r = Pull
    <3>1. r.since = readCursor
      BY <2>2 DEF Pull, Request
    <3> QED
      BY <1>4, <3>1
  <2> QED
    BY <1>8, <2>1, <2>2, PullsFrom
<1>9. ASSUME NEW i \in 1..Len(writes'), writes'[i][1] = "cursor", writes'[i][2] # Blank,
             NEW c, c = writes'[i][2]
      PROVE  Covered(v, c)'
  <2>1. CASE \E j \in 1..Len(writes) : writes[j] = writes'[i]
    BY <1>6, <1>9, <2>1
  <2>2. CASE Pulled(c)
    BY <1>1, <1>2, <2>2, PageCovers
  <2> QED
    BY <1>9, <2>1, <2>2, CursorsFrom
<1> QED
  BY <1>7, <1>8, <1>9

\* The events table has every event up to the cursor, as long as the installation
\* has opened one vault only: however many pulls were on their way at once, lost
\* or repeated, and at whatever write a page, a sign-out or a wipe was torn.
THEOREM FirstVaultCovered == Spec => []FirstVaultIsCovered
<1>1. Init => SealInv /\ FreshInv /\ RevokedStaysOut
  BY DEF Init, SealInv, NobodyBeforeBirth, Seals, FreshInv, RevokedStaysOut
<1>2. Init => PlanInv /\ ScreenInv /\ BlankInv /\ RegistryInv /\ PullInv /\ CursorInv
  <2> SUFFICES ASSUME Init
               PROVE  PlanInv /\ ScreenInv /\ BlankInv /\ RegistryInv /\ PullInv /\ CursorInv
    OBVIOUS
  <2>1. /\ settings.device = None /\ settings.id = None /\ settings.cursor = None
        /\ writing = "none" /\ writes = <<>>
        /\ screen = "off" /\ net = {} /\ services = NoServices /\ left = {}
        /\ \A v \in Vault : /\ relay[v].devices = {} /\ relay[v].status = "unborn"
                            /\ relay[v].deletions = {} /\ relay[v].log = 0
    BY DEF Init, Unset
  <2>2. PlanInv /\ ScreenInv /\ BlankInv /\ RegistryInv /\ PullInv
    BY <2>1, SentinelAssumption
       DEF PlanInv, ScreenInv, BlankInv, RegistryInv, WithoutBlank, PullInv, NoServices
  <2>3. readCursor = 0
    BY <2>1 DEF readCursor, Falsy
  <2>4. CursorInv
    BY <2>1, <2>3 DEF CursorInv, Covered
  <2> QED
    BY <2>2, <2>4
<1>3. TypeInv /\ PullInv /\ CursorInv => FirstVaultIsCovered
  <2> SUFFICES ASSUME TypeInv, PullInv, CursorInv, NEW n \in 1..relay[services.vault].log,
                      services.vault \in Vault, opened = {services.vault}, n <= readCursor
               PROVE  <<services.vault, n>> \in table \/ IsDeletion(services.vault, n)
    BY DEF FirstVaultIsCovered
  <2>1. readCursor \in Nat
    BY DEF readCursor, Falsy, TypeInv, DiskTyped, MayHold, HeldBy, Fields
  <2>2. Covered(services.vault, readCursor)
    BY DEF CursorInv
  <2>3. relay[services.vault].status # "dead"
    BY DEF PullInv
  <2> QED
    BY <2>1, <2>2, <2>3 DEF Covered
<1> QED
  BY <1>1, <1>2, <1>3, Typed, SealNext, FreshNext, PlanNext, ScreenNext, BlankNext,
     RegistryNext, PullNext, CursorNext, PTL DEF Spec

=============================================================================
