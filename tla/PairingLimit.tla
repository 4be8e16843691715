---------------------------- MODULE PairingLimit ----------------------------
(***************************************************************************)
(* The budget of pairing attempts of a device                              *)
(* (crates/lattice-remote/src/pairing_limit.rs): one file beside the       *)
(* identity, shared by every agent process of the device.                  *)
(*                                                                         *)
(* An attempt is charged before the password is tried and refunded after   *)
(* it succeeded.  A process changes the file under a lock that its end     *)
(* gives back, so a change is one step; it may fail before the staged file *)
(* replaced the old one, or after it, when the change is visible but its   *)
(* folder is not synced.  The clock is read before the lock is taken, and  *)
(* may be set to anything.                                                 *)
(*                                                                         *)
(* A ticket is 64 random bits drawn for one attempt and stands for it.     *)
(* This is the Unix build: on Windows the folder is not synced.            *)
(***************************************************************************)
EXTENDS Integers, FiniteSets

CONSTANTS
    Tickets,
    MaxAttempts,
    Window,      \* WINDOW_SECONDS
    Horizon,     \* bound of the clock
    MaxReplaced  \* bound of the contents a power loss may bring back

ASSUME PairingConstants ==
    /\ IsFiniteSet(Tickets)
    /\ MaxAttempts \in Nat
    /\ Window \in Nat \ {0}
    /\ Horizon \in Nat
    /\ MaxReplaced \in Nat

VARIABLES
    clock,     \* the clock of the system
    attempts,  \* the tickets in the file
    replaced,  \* contents of the file that a power loss may bring back
    date,      \* what an attempt read from the clock
    granted,   \* attempts that may try the password
    proved,    \* attempts whose password was right
    freed      \* attempts a later reservation found to be a window in the past

limitVars == <<clock, attempts, replaced, date, granted, proved, freed>>

LimitTypeOK ==
    /\ clock \in 0..Horizon
    /\ attempts \subseteq Tickets
    /\ replaced \subseteq SUBSET Tickets
    /\ date \in [Tickets -> 0..Horizon]
    /\ granted \subseteq Tickets
    /\ proved \subseteq granted
    /\ freed \subseteq Tickets

LimitInit ==
    /\ clock \in 0..Horizon
    /\ attempts = {} /\ replaced = {}
    /\ date = [t \in Tickets |-> 0]
    /\ granted = {} /\ proved = {} /\ freed = {}

\* The change is on disk, or visible only.
Save(new) == attempts' = new /\ replaced' = {}
SaveUnsynced(new) ==
    /\ attempts' = new
    /\ replaced' = replaced \cup {attempts}
    /\ Cardinality(replaced') <= MaxReplaced

\* Mutant of Retained: a clock set back frees attempts.
RetainedPastOnly(now) == {a \in attempts : now - date[a] \in 0..(Window - 1)}

\* What a reservation at that time leaves in the file, and what it forgets.  An attempt
\* in the future stays charged.
Retained(now) == {a \in attempts : now - date[a] < Window}
Past(now)     == {a \in granted : now - date[a] >= Window}

\* The process reads the clock.
ReadClock(t) ==
    /\ date' = [date EXCEPT ![t] = clock]
    /\ UNCHANGED <<clock, attempts, replaced, granted, proved, freed>>

\* It charges the attempt.
MayCharge(t) == Cardinality(Retained(date[t])) < MaxAttempts
Charged(t)   == Retained(date[t]) \cup {t}

Reserve(t) ==
    /\ MayCharge(t)
    /\ Save(Charged(t))
    /\ granted' = granted \cup {t}
    /\ freed' = freed \cup Past(date[t])
    /\ UNCHANGED <<clock, date, proved>>

\* The budget is used up, the file cannot be read or written, or its folder not synced.
ReserveFails(t) ==
    /\ \/ UNCHANGED <<attempts, replaced, freed>>
       \/ /\ MayCharge(t)
          /\ SaveUnsynced(Charged(t))
          /\ freed' = freed \cup Past(date[t])
    /\ UNCHANGED <<clock, date, granted, proved>>

\* Mutant of Uncharged: a success clears the file.
UnchargedAll(t) == {}

\* The password was right: the attempt takes back its own charge, or fails to.
Uncharged(t) == attempts \ {t}

Authenticated(t) ==
    /\ proved' = proved \cup {t}
    /\ Save(Uncharged(t))
    /\ UNCHANGED <<clock, date, granted, freed>>

AuthenticatedFails(t) ==
    /\ proved' = proved \cup {t}
    /\ \/ UNCHANGED <<attempts, replaced>>
       \/ SaveUnsynced(Uncharged(t))
    /\ UNCHANGED <<clock, date, granted, freed>>

SetClock ==
    /\ clock' \in 0..Horizon
    /\ UNCHANGED <<attempts, replaced, date, granted, proved, freed>>

LosePower ==
    /\ attempts' \in {attempts} \cup replaced
    /\ replaced' = {}
    /\ UNCHANGED <<clock, date, granted, proved, freed>>

\* docs/PAIRING_PASSWORD.zh-TW.md, point 3: at most MaxAttempts attempts that failed, were
\* given up or ended with their process count at a time.  A failed attempt is forgotten by
\* nothing but a reservation whose clock is a window past it: no success of another
\* viewer, no restart, no crash or power loss, no clock that was set back.
AttemptsBounded == Cardinality(granted \ (proved \cup freed)) <= MaxAttempts
=============================================================================
