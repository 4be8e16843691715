---------------------------- MODULE Rendezvous -----------------------------
(***************************************************************************)
(* What the relay promises its clients, with no task, table or timer: a    *)
(* device is claimed once and for all by a token; a viewer asks for a      *)
(* device; a carrier that proved the token of a device offers itself; a    *)
(* viewer and a carrier of the same device may be paired, each at most     *)
(* once, and part together.  No viewer asks forever.                       *)
(***************************************************************************)
CONSTANTS Clients, Devices, Tokens, None

VARIABLES
    claim,   \* the token a device was claimed with
    stage,   \* what each client is doing
    wanted,  \* the device it asks for, or offers itself for
    shown,   \* the token a carrier offered itself with
    partner  \* the carrier a viewer was paired with

vars == <<claim, stage, wanted, shown, partner>>

Stages == {"idle", "asking", "offering", "paired", "over"}

TypeOK ==
    /\ claim \in [Devices -> Tokens \cup {None}]
    /\ stage \in [Clients -> Stages]
    /\ wanted \in [Clients -> Devices \cup {None}]
    /\ shown \in [Clients -> Tokens \cup {None}]
    /\ partner \in [Clients -> Clients \cup {None}]

Init ==
    /\ claim = [d \in Devices |-> None]
    /\ stage = [c \in Clients |-> "idle"]
    /\ wanted = [c \in Clients |-> None]
    /\ shown = [c \in Clients |-> None]
    /\ partner = [c \in Clients |-> None]

Claim(d, t) ==
    /\ claim[d] = None
    /\ claim' = [claim EXCEPT ![d] = t]
    /\ UNCHANGED <<stage, wanted, shown, partner>>

Ask(v, d) ==
    /\ stage[v] = "idle"
    /\ stage' = [stage EXCEPT ![v] = "asking"]
    /\ wanted' = [wanted EXCEPT ![v] = d]
    /\ UNCHANGED <<claim, shown, partner>>

Offer(h, d, t) ==
    /\ stage[h] = "idle"
    /\ claim[d] = t
    /\ stage' = [stage EXCEPT ![h] = "offering"]
    /\ wanted' = [wanted EXCEPT ![h] = d]
    /\ shown' = [shown EXCEPT ![h] = t]
    /\ UNCHANGED <<claim, partner>>

Pair(v, h) ==
    /\ stage[v] = "asking"
    /\ stage[h] = "offering"
    /\ wanted[v] = wanted[h]
    /\ stage' = [stage EXCEPT ![v] = "paired", ![h] = "paired"]
    /\ partner' = [partner EXCEPT ![v] = h]
    /\ UNCHANGED <<claim, wanted, shown>>

GiveUp(c) ==
    /\ stage[c] \in {"asking", "offering"}
    /\ stage' = [stage EXCEPT ![c] = "over"]
    /\ UNCHANGED <<claim, wanted, shown, partner>>

Part(v, h) ==
    /\ stage[v] = "paired"
    /\ partner[v] = h
    /\ stage' = [stage EXCEPT ![v] = "over", ![h] = "over"]
    /\ UNCHANGED <<claim, wanted, shown, partner>>

Next ==
    \/ \E d \in Devices, t \in Tokens : Claim(d, t)
    \/ \E c \in Clients :
        \/ GiveUp(c)
        \/ \E d \in Devices : Ask(c, d)
        \/ \E d \in Devices, t \in Tokens : Offer(c, d, t)
        \/ \E h \in Clients : Pair(c, h) \/ Part(c, h)

\* Asking and offering end by themselves; how long a pair stays is up to them.
Settle(c) == GiveUp(c) \/ \E h \in Clients : Pair(c, h)

Spec == Init /\ [][Next]_vars /\ \A c \in Clients : WF_vars(Settle(c))

SafeSpec == Init /\ [][Next]_vars
=============================================================================
