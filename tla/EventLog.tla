------------------------------ MODULE EventLog ------------------------------
(***************************************************************************)
(* What the relay promises of one vault, without requests, tokens, alarms  *)
(* or crashes: an append-only log in which no client event occurs twice,   *)
(* which is deleted once, for good, by its own last event, and only when   *)
(* the last thing its devices said about deletion was to schedule it.      *)
(***************************************************************************)
EXTENDS Naturals, Sequences

CONSTANT Entry   \* [type, device, nonce, at] with further fields allowed

VARIABLES status, log

logVars == <<status, log>>

Init == status = "unborn" /\ log = <<>>

NoReplay(l) ==
    \A i, j \in DOMAIN l :
        /\ l[i].type # "VaultDeleted"
        /\ l[i].device = l[j].device /\ l[i].nonce = l[j].nonce
        => i = j

\* Nobody goes on writing behind the event that says the vault is deleted.
DeletedIsLast(l) == \A i \in DOMAIN l : l[i].type = "VaultDeleted" => i = Len(l)

Extends(longer, shorter) ==
    /\ Len(shorter) < Len(longer)
    /\ \A i \in DOMAIN shorter : longer[i] = shorter[i]

\* The first write creates the vault.
Grow ==
    /\ status \in {"unborn", "live"}
    /\ status' = "live"
    /\ log' \in Seq(Entry)
    /\ Extends(log', log)
    /\ NoReplay(log') /\ DeletedIsLast(log')

\* The last entry is the VaultDeleted that the last control entry scheduled.
Doomed(l) ==
    /\ Len(l) > 0
    /\ l[Len(l)].type = "VaultDeleted"
    /\ \E i \in DOMAIN l :
          /\ l[i].type = "Scheduled"
          /\ l[i].at = l[Len(l)].at
          /\ \A j \in DOMAIN l : l[j].type \in {"Scheduled", "Cancelled"} => j <= i

Delete ==
    /\ status = "live"
    /\ Doomed(log)
    /\ status' = "dead"
    /\ log' = <<>>

Next == Grow \/ Delete

Spec == Init /\ [][Next]_logVars
=============================================================================
