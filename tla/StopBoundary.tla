---------------------------- MODULE StopBoundary ----------------------------
(***************************************************************************)
(* What a stop of a tunnel promises, with no registry, worker, transport   *)
(* or permit: a run that was told to stop opens nothing more, it is over   *)
(* only when nothing of it is left, and only then may its tunnel run       *)
(* again.  The exit of the application stops every run and lets none       *)
(* begin, and no run has anything while a backup is restored.              *)
(***************************************************************************)
EXTENDS Naturals, FiniteSets

CONSTANTS Runs, tunnel, Conns, runOf, MaxConnectionsPerTunnel, MaxGlobalConnections

VARIABLES
    life,       \* of a run
    used,       \* the runs that have a listener or a session with the host
    links,      \* the connections that are served
    stop,       \* the runs that were told to stop
    exit,       \* how far the exit of the application got
    restoring

vars == <<life, used, links, stop, exit, restoring>>

Live == {r \in Runs : life[r] \in {"starting", "up"}}

Init ==
    /\ life = [r \in Runs |-> "idle"]
    /\ used = {} /\ links = {} /\ stop = {}
    /\ exit = "no" /\ restoring = FALSE

Moves(r, from, to) == life[r] = from /\ life' = [life EXCEPT ![r] = to]

Begin(r) ==
    /\ exit = "no" /\ ~restoring
    /\ Moves(r, "idle", "starting")
    /\ \A q \in Live : tunnel[q] # tunnel[r]
    /\ UNCHANGED <<used, links, stop, exit, restoring>>

Acquire(r) ==
    /\ r \notin used /\ used' = used \cup {r}
    /\ life[r] = "starting"
    /\ UNCHANGED <<life, links, stop, exit, restoring>>

Publish(r) ==
    /\ exit = "no" /\ r \notin stop
    /\ Moves(r, "starting", "up")
    /\ UNCHANGED <<used, links, stop, exit, restoring>>

Open(c) ==
    /\ c \notin links /\ links' = links \cup {c}
    /\ life[runOf[c]] = "up" /\ runOf[c] \notin stop
    /\ Cardinality({d \in links : runOf[d] = runOf[c]}) < MaxConnectionsPerTunnel
    /\ Cardinality(links) < MaxGlobalConnections
    /\ UNCHANGED <<life, used, stop, exit, restoring>>

Stops(S) == stop' = stop \cup S /\ S \subseteq Live

Tell(r) == Stops({r}) /\ UNCHANGED <<life, used, links, exit, restoring>>

\* A connection ends, or fails in a way that takes its tunnel down.
Close(c) ==
    /\ c \in links /\ links' = links \ {c}
    /\ Stops({}) \/ Stops({runOf[c]})
    /\ UNCHANGED <<life, used, exit, restoring>>

Release(r) ==
    /\ r \in used /\ used' = used \ {r}
    /\ Stops({}) \/ Stops({r})
    /\ UNCHANGED <<life, links, exit, restoring>>

\* Whoever waits for the stop hears of it now.
End(r) ==
    /\ r \in stop \ used /\ \A c \in links : runOf[c] # r
    /\ Moves(r, "starting", "over") \/ Moves(r, "up", "over")
    /\ UNCHANGED <<used, links, stop, exit, restoring>>

SealExit == exit = "no" /\ exit' = "sealed" /\ UNCHANGED <<life, used, links, stop, restoring>>

StopAll ==
    /\ exit = "sealed" /\ exit' = "stopped"
    /\ Stops(Live)
    /\ UNCHANGED <<life, used, links, restoring>>

Restore ==
    /\ restoring' = ~restoring
    /\ restoring' => Live = {}
    /\ UNCHANGED <<life, used, links, stop, exit>>

Next ==
    \/ \E r \in Runs :
        Begin(r) \/ Acquire(r) \/ Publish(r) \/ Tell(r) \/ Release(r) \/ End(r)
    \/ \E c \in Conns : Open(c) \/ Close(c)
    \/ SealExit \/ StopAll \/ Restore

Spec == Init /\ [][Next]_vars
=============================================================================
