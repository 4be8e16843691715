--------------------------- MODULE MCHostPassword ---------------------------
(***************************************************************************)
(* Instances of HostPassword and of AgentSessions for TLC: the password of *)
(* a host, and the budget of those who try it.  Neither reads the state of *)
(* the other (an agent keeps the password it was started with), so a case  *)
(* says which of them moves and the other stands still.                    *)
(***************************************************************************)
EXTENDS HostPassword, AgentSessions, TLC

CONSTANTS
    Cases,  \* a subset of {"saving", "sharing"}
    p1, p2, relay, direct

VARIABLE case

MCInit ==
    /\ Init /\ AgentsInit
    /\ case \in Cases
    /\ clock = 0

\* Bound: one session at a time is between the relay and its agent's loop, on its way in
\* or out.
OneOnItsWay == Cardinality({t \in Tickets : stage'[t] \in {"joining"} \cup Concluded}) <= 1

MCNext ==
    \/ case = "saving" /\ Next /\ UNCHANGED <<agentVars, case>>
    \/ case = "sharing" /\ AgentsNext /\ OneOnItsWay /\ UNCHANGED <<vars, case>>

MCSpec == MCInit /\ [][MCNext]_<<vars, agentVars, case>>

\* The passwords are interchangeable.
AnyPassword == Permutations({p1, p2})

\* Nor does anything tell sessions apart: how many of them are at one place is enough.  The
\* date of an attempt is read while it counts or is in a file.
Place(t) ==
    LET counts  == t \in granted \ (proved \cup freed)
        written == t \in attempts
        older   == t \in UNION replaced
    IN <<stage[t], agentOf[t], counts, written, older,
         IF counts \/ written \/ older \/ stage[t] = "dated" THEN date[t] ELSE 0>>

Crowd ==
    LET place == [t \in Tickets |-> Place(t)]
    IN [x \in {place[t] : t \in Tickets} |-> Cardinality({t \in Tickets : place[t] = x})]

Observed == <<case, vars, clock, Cardinality(replaced), mode, failures, Crowd>>
=============================================================================
