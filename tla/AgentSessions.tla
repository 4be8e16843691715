--------------------------- MODULE AgentSessions ---------------------------
(***************************************************************************)
(* The sharing agents of a device and the sessions they let in             *)
(* (crates/lattice-remote/src/bin/lattice-agent.rs).  An agent is reached  *)
(* through the relay, where it reconnects and its sessions go on, or       *)
(* directly, where it pairs one viewer after the other while its code      *)
(* lasts and then waits for the sessions it has.                           *)
(*                                                                         *)
(* A session is used once and stands for its ticket.  All tasks of an      *)
(* agent share one thread, which waits for the lock of the budget: while   *)
(* one of them reserves, the others stand still.                           *)
(***************************************************************************)
EXTENDS PairingLimit

CONSTANTS
    Agents,
    Relayed,                \* agents started with --relay
    Multi,                  \* direct agents started with --multi
    MaxConcurrentSessions,
    MaxPairingFailures,
    NoAgent

ASSUME AgentConstants ==
    /\ Relayed \subseteq Agents /\ Multi \subseteq Agents \ Relayed
    /\ MaxConcurrentSessions \in Nat
    /\ MaxPairingFailures \in Nat \ {0}
    /\ NoAgent \notin Agents

VARIABLES
    mode,      \* what the loop of an agent does
    failures,  \* its failed_pairings
    stage,     \* where a session is
    agentOf    \* who serves it

sharingVars == <<mode, failures, stage, agentOf>>
agentVars   == <<limitVars, sharingVars>>

Modes  == {"stopped", "connecting", "open", "lost", "draining"}
Concluded == {"rejected", "failed", "ended"}  \* a SessionOutcome nobody collected yet
SessionStages == {"idle", "joining", "dated", "pairing", "serving", "gone"} \cup Concluded

\* The sessions an agent has, also those whose end its loop has not seen.
SessionsOf(p) == {t \in Tickets : agentOf[t] = p}
Blocked(p) == \E t \in SessionsOf(p) : stage[t] = "dated"
Pairing(p) == \E t \in SessionsOf(p) : stage[t] \in {"dated", "pairing"}

AgentsTypeOK ==
    /\ LimitTypeOK
    /\ mode \in [Agents -> Modes]
    /\ failures \in [Agents -> 0..(MaxPairingFailures - 1)]
    /\ stage \in [Tickets -> SessionStages]
    /\ agentOf \in [Tickets -> Agents \cup {NoAgent}]
    \* An agent that is not running has no session, and no agent more than it may have.
    /\ \A t \in Tickets : stage[t] \in {"idle", "gone"} <=> agentOf[t] = NoAgent
    /\ \A t \in Tickets : agentOf[t] # NoAgent => mode[agentOf[t]] # "stopped"
    /\ \A p \in Agents : Cardinality(SessionsOf(p)) <= MaxConcurrentSessions

AgentsInit ==
    /\ LimitInit
    /\ mode = [p \in Agents |-> "stopped"]
    /\ failures = [p \in Agents |-> 0]
    /\ stage = [t \in Tickets |-> "idle"]
    /\ agentOf = [t \in Tickets |-> NoAgent]

SetMode(p, m)  == mode' = [mode EXCEPT ![p] = m]
SetStage(t, s) == stage' = [stage EXCEPT ![t] = s]

\* A session nobody has to hear of any more.
Leave(t) ==
    /\ SetStage(t, "gone")
    /\ agentOf' = [agentOf EXCEPT ![t] = NoAgent]

\* The processes P end, and with each of them its sessions.
End(P) ==
    LET over == {t \in Tickets : agentOf[t] \in P} IN
    /\ mode' = [p \in Agents |-> IF p \in P THEN "stopped" ELSE mode[p]]
    /\ failures' = [p \in Agents |-> IF p \in P THEN 0 ELSE failures[p]]
    /\ stage' = [t \in Tickets |-> IF t \in over THEN "gone" ELSE stage[t]]
    /\ agentOf' = [t \in Tickets |-> IF t \in over THEN NoAgent ELSE agentOf[t]]

(***************************************************************************)
(* The loop of an agent.                                                   *)
(***************************************************************************)

AgentStarts(p) ==
    /\ mode[p] = "stopped"
    /\ SetMode(p, IF p \in Relayed THEN "connecting" ELSE "open")
    /\ UNCHANGED <<limitVars, failures, stage, agentOf>>

\* The relay registered the device; the loop was waiting to try again, or for the answer.
RelayAnswers(p) ==
    /\ mode[p] \in {"connecting", "lost"}
    /\ ~Blocked(p)
    /\ SetMode(p, "open")
    /\ UNCHANGED <<limitVars, failures, stage, agentOf>>

\* It refused the device, or could not be reached at the first try: the agent returns, and
\* the sessions it kept while the relay was away are dropped.
RelayRefuses(p) ==
    /\ mode[p] \in {"connecting", "lost"}
    /\ ~Blocked(p)
    /\ End({p})
    /\ UNCHANGED limitVars

RelayLost(p) ==
    /\ p \in Relayed
    /\ mode[p] = "open"
    /\ ~Blocked(p)
    /\ SetMode(p, "lost")
    /\ UNCHANGED <<limitVars, failures, stage, agentOf>>

HasRoom(p) == Cardinality(SessionsOf(p)) < MaxConcurrentSessions

\* An invite from the relay; without room it is declined.
Invited(p, t) ==
    /\ p \in Relayed
    /\ mode[p] = "open"
    /\ ~Blocked(p)
    /\ stage[t] = "idle"
    /\ HasRoom(p)
    /\ SetStage(t, "joining")
    /\ agentOf' = [agentOf EXCEPT ![t] = p]
    /\ UNCHANGED <<limitVars, mode, failures>>

\* A viewer connects to a direct agent, which pairs one at a time.
Accepted(p, t) ==
    /\ p \in Agents \ Relayed
    /\ mode[p] = "open"
    /\ ~Pairing(p)
    /\ stage[t] = "idle"
    /\ HasRoom(p)
    /\ ReadClock(t)
    /\ SetStage(t, "dated")
    /\ agentOf' = [agentOf EXCEPT ![t] = p]
    /\ UNCHANGED <<mode, failures>>

\* The code of a direct agent expires, also while it waits for room.
CodeExpires(p) ==
    /\ p \in Agents \ Relayed
    /\ mode[p] = "open"
    /\ ~Pairing(p)
    /\ SetMode(p, "draining")
    /\ UNCHANGED <<limitVars, failures, stage, agentOf>>

\* The last session of a direct agent that accepts no more has ended.
Drained(p) ==
    /\ mode[p] = "draining"
    /\ SessionsOf(p) = {}
    /\ End({p})
    /\ UNCHANGED limitVars

\* A failed pairing counts; the loop ends with the last one it allows.
LastFailure(p) == failures[p] + 1 >= MaxPairingFailures

\* The relay loop hears how a session concluded, unless it is reconnecting.
Collect(p, t) ==
    /\ p \in Relayed
    /\ mode[p] = "open"
    /\ ~Blocked(p)
    /\ agentOf[t] = p
    /\ stage[t] \in Concluded
    /\ IF stage[t] = "rejected" /\ LastFailure(p)
       THEN End({p})
       ELSE /\ failures' = [failures EXCEPT ![p] = CASE stage[t] = "rejected" -> @ + 1
                                                     [] stage[t] = "ended" -> 0
                                                     [] OTHER -> @]
            /\ Leave(t)
            /\ UNCHANGED mode
    /\ UNCHANGED limitVars

(***************************************************************************)
(* A session.                                                              *)
(***************************************************************************)

\* It reaches the relay, which links it, or does not.
JoinFails(t) ==
    /\ stage[t] = "joining"
    /\ ~Blocked(agentOf[t])
    /\ SetStage(t, "failed")
    /\ UNCHANGED <<limitVars, mode, failures, agentOf>>

Joined(t) ==
    /\ stage[t] = "joining"
    /\ ~Blocked(agentOf[t])
    /\ ReadClock(t)
    /\ SetStage(t, "dated")
    /\ UNCHANGED <<mode, failures, agentOf>>

\* No more is asked of the viewer: a relayed session is rejected, a direct agent
\* accepts no one else.
TurnAway(t) ==
    IF agentOf[t] \in Relayed
    THEN /\ SetStage(t, "rejected")
         /\ UNCHANGED <<mode, failures, agentOf>>
    ELSE /\ SetMode(agentOf[t], "draining")
         /\ Leave(t)
         /\ UNCHANGED failures

Granted(t) ==
    /\ stage[t] = "dated"
    /\ Reserve(t)
    /\ SetStage(t, "pairing")
    /\ UNCHANGED <<mode, failures, agentOf>>

Denied(t) ==
    /\ stage[t] = "dated"
    /\ ReserveFails(t)
    /\ TurnAway(t)

\* The password was wrong, or the handshake took too long.
HandshakeFails(t) ==
    LET p == agentOf[t] IN
    /\ stage[t] = "pairing"
    /\ ~Blocked(p)
    /\ CASE p \in Relayed -> TurnAway(t)
         [] p \notin Relayed /\ LastFailure(p) -> TurnAway(t)
         [] OTHER -> /\ failures' = [failures EXCEPT ![p] = @ + 1]
                     /\ Leave(t)
                     /\ UNCHANGED mode
    /\ UNCHANGED limitVars

\* It was right.  A direct agent without --multi lets nobody else in.
Paired(t) ==
    LET p == agentOf[t] IN
    /\ stage[t] = "pairing"
    /\ ~Blocked(p)
    /\ Authenticated(t)
    /\ SetStage(t, "serving")
    /\ IF p \in Relayed \cup Multi THEN UNCHANGED mode ELSE SetMode(p, "draining")
    /\ UNCHANGED <<failures, agentOf>>

PairedUnrefunded(t) ==
    /\ stage[t] = "pairing"
    /\ ~Blocked(agentOf[t])
    /\ AuthenticatedFails(t)
    /\ TurnAway(t)

SessionEnds(t) ==
    LET p == agentOf[t] IN
    /\ stage[t] = "serving"
    /\ ~Blocked(p)
    /\ IF p \in Relayed
       THEN SetStage(t, "ended") /\ UNCHANGED agentOf
       ELSE Leave(t)
    /\ UNCHANGED <<limitVars, mode, failures>>

(***************************************************************************)
(* The machine.                                                            *)
(***************************************************************************)

\* A process ends: stopped by the person, killed or crashed.
AgentCrashes(p) ==
    /\ mode[p] # "stopped"
    /\ End({p})
    /\ UNCHANGED limitVars

PowerFails ==
    /\ LosePower
    /\ End(Agents)

TimeSet ==
    /\ SetClock
    /\ UNCHANGED sharingVars

AgentLoop(p) ==
    \/ AgentStarts(p) \/ RelayAnswers(p) \/ RelayRefuses(p) \/ RelayLost(p)
    \/ CodeExpires(p) \/ Drained(p) \/ AgentCrashes(p)
    \/ \E t \in Tickets : Invited(p, t) \/ Accepted(p, t) \/ Collect(p, t)

Session(t) ==
    \/ JoinFails(t) \/ Joined(t) \/ Granted(t) \/ Denied(t) \/ HandshakeFails(t)
    \/ Paired(t) \/ PairedUnrefunded(t) \/ SessionEnds(t)

AgentsNext ==
    \/ \E p \in Agents : AgentLoop(p)
    \/ \E t \in Tickets : Session(t)
    \/ PowerFails \/ TimeSet

AgentsSpec == AgentsInit /\ [][AgentsNext]_agentVars
=============================================================================
