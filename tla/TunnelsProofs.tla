---------------------------- MODULE TunnelsProofs ----------------------------
(***************************************************************************)
(* The safety of Tunnels, for any runs, tunnels, connections and limits.   *)
(* The inductive invariant follows a run from its reservation to its end:  *)
(* what it is listed as, and what it owns in each phase.  At the end, the  *)
(* tunnels are shown to implement StopBoundary.                            *)
(***************************************************************************)
EXTENDS Tunnels, FiniteSetTheorems, TLAPS

\* A run between its reservation and the end of its future or worker.
UnderWay(r) == phase[r] \notin {"idle", "reading", "over"}

\* A run under way is the one its tunnel is listed with, and nobody else is listed.
Placed(r) ==
    /\ UnderWay(r) => row[tunnel[r]] = r
    /\ UnderWay(r) <=> status[r] \in Owned
    /\ status[r] = "active" =>
           phase[r] \in {"serving", "closing", "draining", "reaping", "finishing"}
    /\ phase[r] \in {"serving", "finishing"} => status[r] = "active"

Listing == \A r \in Runs : Placed(r)

\* A listener goes before its run says anything: with the locals of a failed start,
\* or when the worker is sealed.
Listeners ==
    \A r \in listeners :
        /\ phase[r] \in {"connecting", "handshake", "unshaken", "setup", "serving",
                         "closing", "draining", "reaping", "dropping"}
        /\ phase[r] \in {"draining", "reaping"} => status[r] = "starting"

Transports ==
    \A r \in Runs :
        /\ phase[r] \in {"idle", "reading", "credential", "binding", "connecting"} =>
               transport[r] = "none"
        /\ phase[r] \in {"dropping", "cancelling", "finishing", "over"} =>
               transport[r] \notin {"alive", "closing"}

\* The way of an admission: the job, the reservation, the session, and back.
Permits ==
    \A r \in Runs :
        /\ phase[r] \in {"idle", "reading", "finishing"} => permit[r] = "none"
        /\ phase[r] = "credential" => permit[r] = "job"
        /\ phase[r] = "binding" => permit[r] = "reservation"
        /\ phase[r] \in {"connecting", "handshake", "unshaken", "setup", "serving",
                         "closing", "draining", "reaping"} => permit[r] = "session"
        /\ phase[r] \in {"cancelling", "over"} =>
               \/ permit[r] \in {"none", "job"}
               \/ permit[r] = "session" /\ transport[r] = "marked"

\* A connection that was let in before the drain is over is gone after it; one that
\* comes through the SSH host keeps the transport busy until it is.
Connections ==
    \A c \in Conns :
        /\ conn[c] = "open" => phase[runOf[c]] \in {"serving", "closing", "draining"}
        /\ conn[c] \in {"checked", "admitted"} =>
               /\ phase[runOf[c]] \in {"serving", "closing", "draining", "reaping"}
               /\ phase[runOf[c]] # "serving" => Remote(runOf[c])
               /\ Remote(runOf[c]) => transport[runOf[c]] \in {"alive", "closing"}

\* The drain begins with the stop, and the exit stops whoever is listed.
Stops ==
    /\ \A r \in Runs : phase[r] \in {"draining", "reaping"} => r \in stop
    /\ SealedStops

\* While the stores are replaced, no start has read them.
Restores == restoring => \A r \in Runs : phase[r] \in {"idle", "over"}

Completions == \A r \in Runs, s \in Owned : <<r, s>> \in completed => phase[r] = "over"

IInv == TunnelsTypeOK /\ Listing /\ Listeners /\ Transports /\ Permits /\ Connections /\ Stops
        /\ Restores /\ Completions

(***************************************************************************)
(* Types.                                                                  *)
(***************************************************************************)
LEMMA TypeInit == TunnelsInit => TunnelsTypeOK
<1> SUFFICES ASSUME TunnelsInit PROVE TunnelsTypeOK
  OBVIOUS
<1>1. asked \subseteq Channels /\ completed \subseteq Channels /\ restoring \in BOOLEAN
  BY DEF TunnelsInit
<1> QED
  BY <1>1, TunnelConstants DEF TunnelsInit, TunnelsTypeOK, Owned, Phases

LEMMA TypeStep == TunnelsTypeOK /\ [TunnelsNext]_tunnelVars => TunnelsTypeOK'
<1> SUFFICES ASSUME TunnelsTypeOK, [TunnelsNext]_tunnelVars PROVE TunnelsTypeOK'
  OBVIOUS
<1>1. CASE UNCHANGED <<row, previous, status, stop, asked, completed, phase, permit, listeners, transport, conn, sealed, restoring>>
  BY <1>1 DEF Channels, Owned, Phases, TunnelsTypeOK
<1>2. ASSUME NEW r \in Runs, Prepare(r) PROVE TunnelsTypeOK'
  BY <1>2, TunnelConstants
   DEF Channels, Goto, Owned, Phases, Prepare, TunnelsTypeOK, exitVars,
         registryVars, sessionVars
<1>3. ASSUME NEW r \in Runs, Refuse(r) PROVE TunnelsTypeOK'
  BY <1>3, TunnelConstants
   DEF Channels, Goto, Owned, Phases, Refuse, TunnelsTypeOK, exitVars,
         registryVars, sessionVars
<1>4. ASSUME NEW r \in Runs, ReserveStart(r) PROVE TunnelsTypeOK'
  BY <1>4, TunnelConstants
   DEF Channels, Goto, Owned, Permit, Phases, ReserveStart, TunnelsTypeOK,
         exitVars, registryVars, sessionVars
<1>5. ASSUME NEW r \in Runs, CredentialLoaded(r) PROVE TunnelsTypeOK'
  BY <1>5, TunnelConstants
   DEF Channels, CredentialLoaded, Goto, Owned, Permit, Phases, TunnelsTypeOK,
         exitVars, registryVars, sessionVars
<1>6. ASSUME NEW r \in Runs, CredentialFails(r) PROVE TunnelsTypeOK'
  BY <1>6, TunnelConstants
   DEF Channels, CredentialFails, Goto, Owned, Permit, Phases, TunnelsTypeOK,
         exitVars, registryVars, sessionVars
<1>7. ASSUME NEW r \in Runs, CredentialCancelled(r) PROVE TunnelsTypeOK'
  BY <1>7, TunnelConstants
   DEF Channels, CredentialCancelled, Goto, Owned, Phases, TunnelsTypeOK,
         exitVars, registryVars, sessionVars
<1>8. ASSUME NEW r \in Runs, JobReturns(r) PROVE TunnelsTypeOK'
  BY <1>8, TunnelConstants
   DEF Channels, JobReturns, Owned, Permit, Phases, TunnelsTypeOK, exitVars,
         registryVars, sessionVars
<1>9. ASSUME NEW r \in Runs, Bind(r) PROVE TunnelsTypeOK'
  BY <1>9, TunnelConstants
   DEF Bind, Channels, Goto, Owned, Permit, Phases, TunnelsTypeOK, exitVars,
         registryVars, sessionVars
<1>10. ASSUME NEW r \in Runs, Connect(r) PROVE TunnelsTypeOK'
  BY <1>10, TunnelConstants
   DEF Channels, Connect, Goto, Owned, Phases, TunnelsTypeOK, exitVars,
         registryVars, sessionVars
<1>11. ASSUME NEW r \in Runs, Handshake(r) PROVE TunnelsTypeOK'
  BY <1>11, TunnelConstants
   DEF Channels, Goto, Handshake, Owned, Phases, TunnelsTypeOK, exitVars,
         registryVars, sessionVars
<1>12. ASSUME NEW r \in Runs, StageFails(r) PROVE TunnelsTypeOK'
  BY <1>12, TunnelConstants
   DEF Channels, Goto, Owned, Phases, StageFails, TunnelsTypeOK, exitVars,
         registryVars, sessionVars
<1>13. ASSUME NEW r \in Runs, HandshakeFails(r) PROVE TunnelsTypeOK'
  BY <1>13, TunnelConstants
   DEF Channels, Goto, HandshakeFails, Owned, Phases, Shut, TunnelsTypeOK,
         exitVars, registryVars, sessionVars
<1>14. ASSUME NEW r \in Runs, HandshakeReaped(r) PROVE TunnelsTypeOK'
  BY <1>14, TunnelConstants
   DEF Channels, Goto, HandshakeReaped, Owned, Phases, TunnelsTypeOK, exitVars,
         registryVars, sessionVars
<1>15. ASSUME NEW r \in Runs, SetupFails(r) PROVE TunnelsTypeOK'
  BY <1>15, TunnelConstants
   DEF Channels, Goto, Owned, Phases, SetupFails, TunnelsTypeOK, exitVars,
         registryVars, sessionVars
<1>16. ASSUME NEW r \in Runs, CommitStart(r) PROVE TunnelsTypeOK'
  BY <1>16, TunnelConstants
   DEF Channels, CommitStart, Goto, Owned, Phases, TunnelsTypeOK, exitVars,
         registryVars, sessionVars
<1>17. ASSUME NEW r \in Runs, DropLocals(r) PROVE TunnelsTypeOK'
  BY <1>17, TunnelConstants
   DEF Channels, DropLocals, Goto, Owned, Permit, Phases, TunnelsTypeOK, exitVars,
         registryVars, sessionVars
<1>18. ASSUME NEW r \in Runs, CancelStart(r) PROVE TunnelsTypeOK'
  BY <1>18, TunnelConstants
   DEF CancelStart, Channels, Goto, Owned, Phases, TunnelsTypeOK, exitVars,
         registryVars, sessionVars
<1>19. ASSUME NEW r \in Runs, ServeEnds(r) PROVE TunnelsTypeOK'
  BY <1>19, TunnelConstants
   DEF Channels, Goto, Owned, Phases, ServeEnds, TunnelsTypeOK, exitVars,
         registryVars, sessionVars
<1>20. ASSUME NEW r \in Runs, ListenerFails(r) PROVE TunnelsTypeOK'
  BY <1>20, TunnelConstants
   DEF Channels, Goto, ListenerFails, Owned, Phases, TunnelsTypeOK, exitVars,
         registryVars, sessionVars
<1>21. ASSUME NEW r \in Runs, Seal(r) PROVE TunnelsTypeOK'
  BY <1>21, TunnelConstants
   DEF Channels, Goto, Owned, Phases, Seal, TunnelsTypeOK, exitVars, registryVars,
         sessionVars
<1>22. ASSUME NEW r \in Runs, Drained(r) PROVE TunnelsTypeOK'
  BY <1>22, TunnelConstants
   DEF Channels, Drained, Goto, Owned, Phases, Shut, TunnelsTypeOK, exitVars,
         registryVars, sessionVars
<1>23. ASSUME NEW r \in Runs, Reaped(r) PROVE TunnelsTypeOK'
  BY <1>23, TunnelConstants
   DEF Channels, Goto, Owned, Permit, Phases, Reaped, TunnelsTypeOK, exitVars,
         registryVars, sessionVars
<1>24. ASSUME NEW r \in Runs, Finish(r) PROVE TunnelsTypeOK'
  BY <1>24, TunnelConstants
   DEF Channels, Finish, Goto, Owned, Phases, TunnelsTypeOK, exitVars,
         registryVars, sessionVars
<1>25. ASSUME NEW r \in Runs, TransportEnds(r) PROVE TunnelsTypeOK'
  BY <1>25, TunnelConstants
   DEF Channels, Owned, Phases, TransportEnds, TunnelsTypeOK, exitVars,
         registryVars, sessionVars
<1>26. ASSUME NEW r \in Runs, HandlerDropped(r) PROVE TunnelsTypeOK'
  BY <1>26, TunnelConstants
   DEF Channels, HandlerDropped, Owned, Permit, Phases, TunnelsTypeOK, exitVars,
         registryVars, sessionVars
<1>27. ASSUME NEW c \in Conns, Arrive(c) PROVE TunnelsTypeOK'
  BY <1>27, TunnelConstants
   DEF Arrive, Channels, Owned, Phases, TunnelsTypeOK, exitVars, registryVars,
         sessionVars
<1>28. ASSUME NEW c \in Conns, TakePermits(c) PROVE TunnelsTypeOK'
  BY <1>28, TunnelConstants
   DEF Channels, Owned, Phases, TakePermits, TunnelsTypeOK, exitVars,
         registryVars, sessionVars
<1>29. ASSUME NEW c \in Conns, Recheck(c) PROVE TunnelsTypeOK'
  BY <1>29, TunnelConstants
   DEF Channels, Owned, Phases, Recheck, TunnelsTypeOK, exitVars, registryVars,
         sessionVars
<1>30. ASSUME NEW c \in Conns, EndLease(c) PROVE TunnelsTypeOK'
  BY <1>30, TunnelConstants
   DEF Channels, EndLease, Owned, Phases, TunnelsTypeOK, exitVars, registryVars,
         sessionVars
<1>31. ASSUME NEW c \in Conns, FailTunnel(c) PROVE TunnelsTypeOK'
  BY <1>31, TunnelConstants
   DEF Channels, FailTunnel, Owned, Phases, TunnelsTypeOK, exitVars, registryVars,
         sessionVars
<1>32. ASSUME NEW i \in Ids, Stop(i) PROVE TunnelsTypeOK'
  BY <1>32, TunnelConstants
   DEF Channels, Owned, Phases, Stop, TunnelsTypeOK, exitVars, registryVars,
         sessionVars
<1>33. ASSUME SealRegistry PROVE TunnelsTypeOK'
  BY <1>33, TunnelConstants
   DEF Channels, Owned, Phases, SealRegistry, TunnelsTypeOK, exitVars,
         registryVars, sessionVars
<1>34. ASSUME StopRows PROVE TunnelsTypeOK'
  BY <1>34, TunnelConstants
   DEF Channels, Owned, Phases, StopRows, TunnelsTypeOK, exitVars, registryVars,
         sessionVars
<1>35. ASSUME RestoreBegins PROVE TunnelsTypeOK'
  BY <1>35, TunnelConstants
   DEF Channels, Owned, Phases, RestoreBegins, TunnelsTypeOK, exitVars,
         registryVars, sessionVars
<1>36. ASSUME RestoreEnds PROVE TunnelsTypeOK'
  BY <1>36, TunnelConstants
   DEF Channels, Owned, Phases, RestoreEnds, TunnelsTypeOK, exitVars,
         registryVars, sessionVars
<1>37. CASE UNCHANGED tunnelVars
  BY <1>1, <1>37 DEF exitVars, registryVars, sessionVars, tunnelVars
<1> QED
  BY <1>1, <1>2, <1>3, <1>4, <1>5, <1>6, <1>7, <1>8, <1>9, <1>10, <1>11, <1>12,
     <1>13, <1>14, <1>15, <1>16, <1>17, <1>18, <1>19, <1>20, <1>21, <1>22, <1>23,
     <1>24, <1>25, <1>26, <1>27, <1>28, <1>29, <1>30, <1>31, <1>32, <1>33, <1>34,
     <1>35, <1>36, <1>37
   DEF TunnelsNext, Advance, Elsewhere, Connection

(***************************************************************************)
(* Who is listed, and who listens.                                         *)
(***************************************************************************)
LEMMA ListingInit == TunnelsInit => Listing /\ Listeners
BY DEF TunnelsInit, Listing, Placed, Listeners, UnderWay, Owned

LEMMA ListingStep == TunnelsTypeOK /\ Listing /\ [TunnelsNext]_tunnelVars => Listing'
<1> SUFFICES ASSUME TunnelsTypeOK, Listing, [TunnelsNext]_tunnelVars PROVE Listing'
  OBVIOUS
<1>1. CASE UNCHANGED <<row, status, phase>>
  BY <1>1 DEF Listing, Owned, Placed, TunnelsTypeOK, UnderWay
<1>2. ASSUME NEW r \in Runs, Prepare(r) PROVE Listing'
  BY <1>2, TunnelConstants
   DEF Goto, Listing, Owned, Placed, Prepare, TunnelsTypeOK, UnderWay, exitVars,
         registryVars, sessionVars
<1>3. ASSUME NEW r \in Runs, Refuse(r) PROVE Listing'
  BY <1>3, TunnelConstants
   DEF Goto, Listing, Owned, Placed, Refuse, TunnelsTypeOK, UnderWay, exitVars,
         registryVars, sessionVars
<1>4. ASSUME NEW r \in Runs, ReserveStart(r) PROVE Listing'
  <2> SUFFICES ASSUME NEW q \in Runs PROVE Placed(q)'
    BY DEF Listing
  <2>1. CASE q = r
    BY <1>4, <2>1, TunnelConstants
       DEF ReserveStart, Goto, Permit, Placed, UnderWay, Owned, TunnelsTypeOK
  <2>2. CASE q # r /\ tunnel[q] = tunnel[r]
    <3>1. ~UnderWay(q)
      BY <1>4, <2>2, TunnelConstants DEF ReserveStart, Listing, Placed
    <3> QED
      BY <1>4, <2>2, <3>1 DEF ReserveStart, Goto, Listing, Placed, UnderWay, TunnelsTypeOK
  <2>3. CASE q # r /\ tunnel[q] # tunnel[r]
    BY <1>4, <2>3, TunnelConstants
       DEF ReserveStart, Goto, Listing, Placed, UnderWay, TunnelsTypeOK
  <2> QED
    BY <2>1, <2>2, <2>3
<1>5. ASSUME NEW r \in Runs, CredentialLoaded(r) PROVE Listing'
  BY <1>5, TunnelConstants
   DEF CredentialLoaded, Goto, Listing, Owned, Permit, Placed, TunnelsTypeOK,
         UnderWay, exitVars, registryVars, sessionVars
<1>6. ASSUME NEW r \in Runs, CredentialFails(r) PROVE Listing'
  BY <1>6, TunnelConstants
   DEF CredentialFails, Goto, Listing, Owned, Permit, Placed, TunnelsTypeOK,
         UnderWay, exitVars, registryVars, sessionVars
<1>7. ASSUME NEW r \in Runs, CredentialCancelled(r) PROVE Listing'
  BY <1>7, TunnelConstants
   DEF CredentialCancelled, Goto, Listing, Owned, Placed, TunnelsTypeOK, UnderWay,
         exitVars, registryVars, sessionVars
<1>8. ASSUME NEW r \in Runs, JobReturns(r) PROVE Listing'
  BY <1>1, <1>8 DEF JobReturns, exitVars, registryVars, sessionVars
<1>9. ASSUME NEW r \in Runs, Bind(r) PROVE Listing'
  BY <1>9, TunnelConstants
   DEF Bind, Goto, Listing, Owned, Permit, Placed, TunnelsTypeOK, UnderWay,
         exitVars, registryVars, sessionVars
<1>10. ASSUME NEW r \in Runs, Connect(r) PROVE Listing'
  BY <1>10, TunnelConstants
   DEF Connect, Goto, Listing, Owned, Placed, TunnelsTypeOK, UnderWay, exitVars,
         registryVars, sessionVars
<1>11. ASSUME NEW r \in Runs, Handshake(r) PROVE Listing'
  BY <1>11, TunnelConstants
   DEF Goto, Handshake, Listing, Owned, Placed, TunnelsTypeOK, UnderWay, exitVars,
         registryVars, sessionVars
<1>12. ASSUME NEW r \in Runs, StageFails(r) PROVE Listing'
  BY <1>12, TunnelConstants
   DEF Goto, Listing, Owned, Placed, StageFails, TunnelsTypeOK, UnderWay,
         exitVars, registryVars, sessionVars
<1>13. ASSUME NEW r \in Runs, HandshakeFails(r) PROVE Listing'
  BY <1>13, TunnelConstants
   DEF Goto, HandshakeFails, Listing, Owned, Placed, Shut, TunnelsTypeOK,
         UnderWay, exitVars, registryVars, sessionVars
<1>14. ASSUME NEW r \in Runs, HandshakeReaped(r) PROVE Listing'
  BY <1>14, TunnelConstants
   DEF Goto, HandshakeReaped, Listing, Owned, Placed, TunnelsTypeOK, UnderWay,
         exitVars, registryVars, sessionVars
<1>15. ASSUME NEW r \in Runs, SetupFails(r) PROVE Listing'
  BY <1>15, TunnelConstants
   DEF Goto, Listing, Owned, Placed, SetupFails, TunnelsTypeOK, UnderWay,
         exitVars, registryVars, sessionVars
<1>16. ASSUME NEW r \in Runs, CommitStart(r) PROVE Listing'
  BY <1>16, TunnelConstants
   DEF CommitStart, Goto, Listing, Owned, Placed, TunnelsTypeOK, UnderWay,
         exitVars, registryVars, sessionVars
<1>17. ASSUME NEW r \in Runs, DropLocals(r) PROVE Listing'
  BY <1>17, TunnelConstants
   DEF DropLocals, Goto, Listing, Owned, Permit, Placed, TunnelsTypeOK, UnderWay,
         exitVars, registryVars, sessionVars
<1>18. ASSUME NEW r \in Runs, CancelStart(r) PROVE Listing'
  <2> SUFFICES ASSUME NEW q \in Runs PROVE Placed(q)'
    BY DEF Listing
  <2>1. UnderWay(r) /\ row[tunnel[r]] = r /\ status[r] = "starting"
    BY <1>18 DEF CancelStart, Listing, Placed, UnderWay, Owned
  <2>2. /\ row' = [row EXCEPT ![tunnel[r]] = previous[r]]
        /\ status' = [status EXCEPT ![r] = "none"]
        /\ phase' = [phase EXCEPT ![r] = "over"]
    BY <1>18, <2>1 DEF CancelStart, Goto
  <2>3. CASE q = r
    BY <2>2, <2>3 DEF Placed, UnderWay, Owned, TunnelsTypeOK
  <2>4. CASE q # r
    BY <2>1, <2>2, <2>4, TunnelConstants DEF Listing, Placed, UnderWay, TunnelsTypeOK
  <2> QED
    BY <2>3, <2>4
<1>19. ASSUME NEW r \in Runs, ServeEnds(r) PROVE Listing'
  BY <1>19, TunnelConstants
   DEF Goto, Listing, Owned, Placed, ServeEnds, TunnelsTypeOK, UnderWay, exitVars,
         registryVars, sessionVars
<1>20. ASSUME NEW r \in Runs, ListenerFails(r) PROVE Listing'
  BY <1>20, TunnelConstants
   DEF Goto, ListenerFails, Listing, Owned, Placed, TunnelsTypeOK, UnderWay,
         exitVars, registryVars, sessionVars
<1>21. ASSUME NEW r \in Runs, Seal(r) PROVE Listing'
  BY <1>21, TunnelConstants
   DEF Goto, Listing, Owned, Placed, Seal, TunnelsTypeOK, UnderWay, exitVars,
         registryVars, sessionVars
<1>22. ASSUME NEW r \in Runs, Drained(r) PROVE Listing'
  BY <1>22, TunnelConstants
   DEF Drained, Goto, Listing, Owned, Placed, Shut, TunnelsTypeOK, UnderWay,
         exitVars, registryVars, sessionVars
<1>23. ASSUME NEW r \in Runs, Reaped(r) PROVE Listing'
  BY <1>23, TunnelConstants
   DEF Goto, Listing, Owned, Permit, Placed, Reaped, TunnelsTypeOK, UnderWay,
         exitVars, registryVars, sessionVars
<1>24. ASSUME NEW r \in Runs, Finish(r) PROVE Listing'
  BY <1>24, TunnelConstants
   DEF Finish, Goto, Listing, Owned, Placed, TunnelsTypeOK, UnderWay, exitVars,
         registryVars, sessionVars
<1>25. ASSUME NEW r \in Runs, TransportEnds(r) PROVE Listing'
  BY <1>1, <1>25 DEF TransportEnds, exitVars, registryVars, sessionVars
<1>26. ASSUME NEW r \in Runs, HandlerDropped(r) PROVE Listing'
  BY <1>1, <1>26 DEF HandlerDropped, exitVars, registryVars, sessionVars
<1>27. ASSUME NEW c \in Conns, Arrive(c) PROVE Listing'
  BY <1>1, <1>27 DEF Arrive, exitVars, registryVars, sessionVars
<1>28. ASSUME NEW c \in Conns, TakePermits(c) PROVE Listing'
  BY <1>1, <1>28 DEF TakePermits, exitVars, registryVars, sessionVars
<1>29. ASSUME NEW c \in Conns, Recheck(c) PROVE Listing'
  BY <1>1, <1>29 DEF Recheck, exitVars, registryVars, sessionVars
<1>30. ASSUME NEW c \in Conns, EndLease(c) PROVE Listing'
  BY <1>1, <1>30 DEF EndLease, exitVars, registryVars, sessionVars
<1>31. ASSUME NEW c \in Conns, FailTunnel(c) PROVE Listing'
  BY <1>1, <1>31 DEF FailTunnel, exitVars, registryVars, sessionVars
<1>32. ASSUME NEW i \in Ids, Stop(i) PROVE Listing'
  BY <1>1, <1>32 DEF Stop, exitVars, registryVars, sessionVars
<1>33. ASSUME SealRegistry PROVE Listing'
  BY <1>1, <1>33 DEF SealRegistry, exitVars, registryVars, sessionVars
<1>34. ASSUME StopRows PROVE Listing'
  BY <1>1, <1>34 DEF StopRows, exitVars, registryVars, sessionVars
<1>35. ASSUME RestoreBegins PROVE Listing'
  BY <1>1, <1>35 DEF RestoreBegins, exitVars, registryVars, sessionVars
<1>36. ASSUME RestoreEnds PROVE Listing'
  BY <1>1, <1>36 DEF RestoreEnds, exitVars, registryVars, sessionVars
<1>37. CASE UNCHANGED tunnelVars
  BY <1>1, <1>37 DEF exitVars, registryVars, sessionVars, tunnelVars
<1> QED
  BY <1>1, <1>2, <1>3, <1>4, <1>5, <1>6, <1>7, <1>8, <1>9, <1>10, <1>11, <1>12,
     <1>13, <1>14, <1>15, <1>16, <1>17, <1>18, <1>19, <1>20, <1>21, <1>22, <1>23,
     <1>24, <1>25, <1>26, <1>27, <1>28, <1>29, <1>30, <1>31, <1>32, <1>33, <1>34,
     <1>35, <1>36, <1>37
   DEF TunnelsNext, Advance, Elsewhere, Connection

LEMMA ListenersStep == TunnelsTypeOK /\ Listing /\ Listeners /\ [TunnelsNext]_tunnelVars => Listeners'
<1> SUFFICES ASSUME TunnelsTypeOK, Listing, Listeners, [TunnelsNext]_tunnelVars PROVE Listeners'
  OBVIOUS
<1>1. CASE UNCHANGED <<listeners, status, phase>>
  BY <1>1 DEF Listeners, Listing, Owned, Placed, TunnelsTypeOK
<1>2. ASSUME NEW r \in Runs, Prepare(r) PROVE Listeners'
  BY <1>2, TunnelConstants
   DEF Goto, Listeners, Listing, Owned, Placed, Prepare, TunnelsTypeOK, exitVars,
         registryVars, sessionVars
<1>3. ASSUME NEW r \in Runs, Refuse(r) PROVE Listeners'
  BY <1>3, TunnelConstants
   DEF Goto, Listeners, Listing, Owned, Placed, Refuse, TunnelsTypeOK, exitVars,
         registryVars, sessionVars
<1>4. ASSUME NEW r \in Runs, ReserveStart(r) PROVE Listeners'
  BY <1>4, TunnelConstants
   DEF Goto, Listeners, Listing, Owned, Permit, Placed, ReserveStart,
         TunnelsTypeOK, exitVars, registryVars, sessionVars
<1>5. ASSUME NEW r \in Runs, CredentialLoaded(r) PROVE Listeners'
  BY <1>5, TunnelConstants
   DEF CredentialLoaded, Goto, Listeners, Listing, Owned, Permit, Placed,
         TunnelsTypeOK, exitVars, registryVars, sessionVars
<1>6. ASSUME NEW r \in Runs, CredentialFails(r) PROVE Listeners'
  BY <1>6, TunnelConstants
   DEF CredentialFails, Goto, Listeners, Listing, Owned, Permit, Placed,
         TunnelsTypeOK, exitVars, registryVars, sessionVars
<1>7. ASSUME NEW r \in Runs, CredentialCancelled(r) PROVE Listeners'
  BY <1>7, TunnelConstants
   DEF CredentialCancelled, Goto, Listeners, Listing, Owned, Placed,
         TunnelsTypeOK, exitVars, registryVars, sessionVars
<1>8. ASSUME NEW r \in Runs, JobReturns(r) PROVE Listeners'
  BY <1>1, <1>8 DEF JobReturns, exitVars, registryVars, sessionVars
<1>9. ASSUME NEW r \in Runs, Bind(r) PROVE Listeners'
  BY <1>9, TunnelConstants
   DEF Bind, Goto, Listeners, Listing, Owned, Permit, Placed, TunnelsTypeOK,
         exitVars, registryVars, sessionVars
<1>10. ASSUME NEW r \in Runs, Connect(r) PROVE Listeners'
  BY <1>10, TunnelConstants
   DEF Connect, Goto, Listeners, Listing, Owned, Placed, TunnelsTypeOK, exitVars,
         registryVars, sessionVars
<1>11. ASSUME NEW r \in Runs, Handshake(r) PROVE Listeners'
  BY <1>11, TunnelConstants
   DEF Goto, Handshake, Listeners, Listing, Owned, Placed, TunnelsTypeOK,
         exitVars, registryVars, sessionVars
<1>12. ASSUME NEW r \in Runs, StageFails(r) PROVE Listeners'
  BY <1>12, TunnelConstants
   DEF Goto, Listeners, Listing, Owned, Placed, StageFails, TunnelsTypeOK,
         exitVars, registryVars, sessionVars
<1>13. ASSUME NEW r \in Runs, HandshakeFails(r) PROVE Listeners'
  BY <1>13, TunnelConstants
   DEF Goto, HandshakeFails, Listeners, Listing, Owned, Placed, Shut,
         TunnelsTypeOK, exitVars, registryVars, sessionVars
<1>14. ASSUME NEW r \in Runs, HandshakeReaped(r) PROVE Listeners'
  BY <1>14, TunnelConstants
   DEF Goto, HandshakeReaped, Listeners, Listing, Owned, Placed, TunnelsTypeOK,
         exitVars, registryVars, sessionVars
<1>15. ASSUME NEW r \in Runs, SetupFails(r) PROVE Listeners'
  BY <1>15, TunnelConstants
   DEF Goto, Listeners, Listing, Owned, Placed, SetupFails, TunnelsTypeOK,
         exitVars, registryVars, sessionVars
<1>16. ASSUME NEW r \in Runs, CommitStart(r) PROVE Listeners'
  BY <1>16, TunnelConstants
   DEF CommitStart, Goto, Listeners, Listing, Owned, Placed, TunnelsTypeOK,
         exitVars, registryVars, sessionVars
<1>17. ASSUME NEW r \in Runs, DropLocals(r) PROVE Listeners'
  BY <1>17, TunnelConstants
   DEF DropLocals, Goto, Listeners, Listing, Owned, Permit, Placed, TunnelsTypeOK,
         exitVars, registryVars, sessionVars
<1>18. ASSUME NEW r \in Runs, CancelStart(r) PROVE Listeners'
  BY <1>18, TunnelConstants
   DEF CancelStart, Goto, Listeners, Listing, Owned, Placed, TunnelsTypeOK,
         exitVars, registryVars, sessionVars
<1>19. ASSUME NEW r \in Runs, ServeEnds(r) PROVE Listeners'
  BY <1>19, TunnelConstants
   DEF Goto, Listeners, Listing, Owned, Placed, ServeEnds, TunnelsTypeOK,
         exitVars, registryVars, sessionVars
<1>20. ASSUME NEW r \in Runs, ListenerFails(r) PROVE Listeners'
  BY <1>20, TunnelConstants
   DEF Goto, ListenerFails, Listeners, Listing, Owned, Placed, TunnelsTypeOK,
         exitVars, registryVars, sessionVars
<1>21. ASSUME NEW r \in Runs, Seal(r) PROVE Listeners'
  <2> SUFFICES ASSUME NEW q \in listeners'
               PROVE  /\ phase'[q] \in {"connecting", "handshake", "unshaken", "setup",
                                       "serving", "closing", "draining", "reaping", "dropping"}
                      /\ phase'[q] \in {"draining", "reaping"} => status'[q] = "starting"
    BY DEF Listeners
  <2>1. q \in listeners /\ status' = status /\ phase' = [phase EXCEPT ![r] = "draining"]
    BY <1>21 DEF Seal, Goto, registryVars
  <2>2. CASE q = r
    <3>1. status[r] # "active"
      BY <1>21, <2>2 DEF Seal
    <3>2. status[r] = "starting"
      BY <1>21, <3>1 DEF Seal, Listing, Placed, UnderWay, Owned
    <3> QED
      BY <2>1, <2>2, <3>2 DEF TunnelsTypeOK
  <2>3. CASE q # r
    BY <2>1, <2>3 DEF Listeners, TunnelsTypeOK
  <2> QED
    BY <2>2, <2>3
<1>22. ASSUME NEW r \in Runs, Drained(r) PROVE Listeners'
  BY <1>22, TunnelConstants
   DEF Drained, Goto, Listeners, Listing, Owned, Placed, Shut, TunnelsTypeOK,
         exitVars, registryVars, sessionVars
<1>23. ASSUME NEW r \in Runs, Reaped(r) PROVE Listeners'
  BY <1>23, TunnelConstants
   DEF Goto, Listeners, Listing, Owned, Permit, Placed, Reaped, TunnelsTypeOK,
         exitVars, registryVars, sessionVars
<1>24. ASSUME NEW r \in Runs, Finish(r) PROVE Listeners'
  BY <1>24, TunnelConstants
   DEF Finish, Goto, Listeners, Listing, Owned, Placed, TunnelsTypeOK, exitVars,
         registryVars, sessionVars
<1>25. ASSUME NEW r \in Runs, TransportEnds(r) PROVE Listeners'
  BY <1>1, <1>25 DEF TransportEnds, exitVars, registryVars, sessionVars
<1>26. ASSUME NEW r \in Runs, HandlerDropped(r) PROVE Listeners'
  BY <1>1, <1>26 DEF HandlerDropped, exitVars, registryVars, sessionVars
<1>27. ASSUME NEW c \in Conns, Arrive(c) PROVE Listeners'
  BY <1>1, <1>27 DEF Arrive, exitVars, registryVars, sessionVars
<1>28. ASSUME NEW c \in Conns, TakePermits(c) PROVE Listeners'
  BY <1>1, <1>28 DEF TakePermits, exitVars, registryVars, sessionVars
<1>29. ASSUME NEW c \in Conns, Recheck(c) PROVE Listeners'
  BY <1>1, <1>29 DEF Recheck, exitVars, registryVars, sessionVars
<1>30. ASSUME NEW c \in Conns, EndLease(c) PROVE Listeners'
  BY <1>1, <1>30 DEF EndLease, exitVars, registryVars, sessionVars
<1>31. ASSUME NEW c \in Conns, FailTunnel(c) PROVE Listeners'
  BY <1>1, <1>31 DEF FailTunnel, exitVars, registryVars, sessionVars
<1>32. ASSUME NEW i \in Ids, Stop(i) PROVE Listeners'
  BY <1>1, <1>32 DEF Stop, exitVars, registryVars, sessionVars
<1>33. ASSUME SealRegistry PROVE Listeners'
  BY <1>1, <1>33 DEF SealRegistry, exitVars, registryVars, sessionVars
<1>34. ASSUME StopRows PROVE Listeners'
  BY <1>1, <1>34 DEF StopRows, exitVars, registryVars, sessionVars
<1>35. ASSUME RestoreBegins PROVE Listeners'
  BY <1>1, <1>35 DEF RestoreBegins, exitVars, registryVars, sessionVars
<1>36. ASSUME RestoreEnds PROVE Listeners'
  BY <1>1, <1>36 DEF RestoreEnds, exitVars, registryVars, sessionVars
<1>37. CASE UNCHANGED tunnelVars
  BY <1>1, <1>37 DEF exitVars, registryVars, sessionVars, tunnelVars
<1> QED
  BY <1>1, <1>2, <1>3, <1>4, <1>5, <1>6, <1>7, <1>8, <1>9, <1>10, <1>11, <1>12,
     <1>13, <1>14, <1>15, <1>16, <1>17, <1>18, <1>19, <1>20, <1>21, <1>22, <1>23,
     <1>24, <1>25, <1>26, <1>27, <1>28, <1>29, <1>30, <1>31, <1>32, <1>33, <1>34,
     <1>35, <1>36, <1>37
   DEF TunnelsNext, Advance, Elsewhere, Connection

(***************************************************************************)
(* Transports, admissions and connections.                                 *)
(***************************************************************************)
LEMMA TransportsInit == TunnelsInit => Transports /\ Permits /\ Connections
BY TunnelConstants DEF TunnelsInit, Transports, Permits, Connections

LEMMA TransportsStep == TunnelsTypeOK /\ Transports /\ [TunnelsNext]_tunnelVars => Transports'
<1> SUFFICES ASSUME TunnelsTypeOK, Transports, [TunnelsNext]_tunnelVars PROVE Transports'
  OBVIOUS
<1>1. CASE UNCHANGED <<transport, phase>>
  BY <1>1 DEF Transports, TunnelsTypeOK
<1>2. ASSUME NEW r \in Runs, Prepare(r) PROVE Transports'
  BY <1>2, TunnelConstants
   DEF Goto, Prepare, Transports, TunnelsTypeOK, exitVars, registryVars,
         sessionVars
<1>3. ASSUME NEW r \in Runs, Refuse(r) PROVE Transports'
  BY <1>3, TunnelConstants
   DEF Goto, Refuse, Transports, TunnelsTypeOK, exitVars, registryVars,
         sessionVars
<1>4. ASSUME NEW r \in Runs, ReserveStart(r) PROVE Transports'
  BY <1>4, TunnelConstants
   DEF Goto, Permit, ReserveStart, Transports, TunnelsTypeOK, exitVars,
         registryVars, sessionVars
<1>5. ASSUME NEW r \in Runs, CredentialLoaded(r) PROVE Transports'
  BY <1>5, TunnelConstants
   DEF CredentialLoaded, Goto, Permit, Transports, TunnelsTypeOK, exitVars,
         registryVars, sessionVars
<1>6. ASSUME NEW r \in Runs, CredentialFails(r) PROVE Transports'
  BY <1>6, TunnelConstants
   DEF CredentialFails, Goto, Permit, Transports, TunnelsTypeOK, exitVars,
         registryVars, sessionVars
<1>7. ASSUME NEW r \in Runs, CredentialCancelled(r) PROVE Transports'
  BY <1>7, TunnelConstants
   DEF CredentialCancelled, Goto, Transports, TunnelsTypeOK, exitVars,
         registryVars, sessionVars
<1>8. ASSUME NEW r \in Runs, JobReturns(r) PROVE Transports'
  BY <1>1, <1>8 DEF JobReturns, exitVars, registryVars, sessionVars
<1>9. ASSUME NEW r \in Runs, Bind(r) PROVE Transports'
  BY <1>9, TunnelConstants
   DEF Bind, Goto, Permit, Transports, TunnelsTypeOK, exitVars, registryVars,
         sessionVars
<1>10. ASSUME NEW r \in Runs, Connect(r) PROVE Transports'
  BY <1>10, TunnelConstants
   DEF Connect, Goto, Transports, TunnelsTypeOK, exitVars, registryVars,
         sessionVars
<1>11. ASSUME NEW r \in Runs, Handshake(r) PROVE Transports'
  BY <1>11, TunnelConstants
   DEF Goto, Handshake, Transports, TunnelsTypeOK, exitVars, registryVars,
         sessionVars
<1>12. ASSUME NEW r \in Runs, StageFails(r) PROVE Transports'
  BY <1>12, TunnelConstants
   DEF Goto, StageFails, Transports, TunnelsTypeOK, exitVars, registryVars,
         sessionVars
<1>13. ASSUME NEW r \in Runs, HandshakeFails(r) PROVE Transports'
  BY <1>13, TunnelConstants
   DEF Goto, HandshakeFails, Shut, Transports, TunnelsTypeOK, exitVars,
         registryVars, sessionVars
<1>14. ASSUME NEW r \in Runs, HandshakeReaped(r) PROVE Transports'
  BY <1>14, TunnelConstants
   DEF Goto, HandshakeReaped, Transports, TunnelsTypeOK, exitVars, registryVars,
         sessionVars
<1>15. ASSUME NEW r \in Runs, SetupFails(r) PROVE Transports'
  BY <1>15, TunnelConstants
   DEF Goto, SetupFails, Transports, TunnelsTypeOK, exitVars, registryVars,
         sessionVars
<1>16. ASSUME NEW r \in Runs, CommitStart(r) PROVE Transports'
  BY <1>16, TunnelConstants
   DEF CommitStart, Goto, Transports, TunnelsTypeOK, exitVars, registryVars,
         sessionVars
<1>17. ASSUME NEW r \in Runs, DropLocals(r) PROVE Transports'
  BY <1>17, TunnelConstants
   DEF DropLocals, Goto, Permit, Transports, TunnelsTypeOK, exitVars,
         registryVars, sessionVars
<1>18. ASSUME NEW r \in Runs, CancelStart(r) PROVE Transports'
  BY <1>18, TunnelConstants
   DEF CancelStart, Goto, Transports, TunnelsTypeOK, exitVars, registryVars,
         sessionVars
<1>19. ASSUME NEW r \in Runs, ServeEnds(r) PROVE Transports'
  BY <1>19, TunnelConstants
   DEF Goto, ServeEnds, Transports, TunnelsTypeOK, exitVars, registryVars,
         sessionVars
<1>20. ASSUME NEW r \in Runs, ListenerFails(r) PROVE Transports'
  BY <1>20, TunnelConstants
   DEF Goto, ListenerFails, Transports, TunnelsTypeOK, exitVars, registryVars,
         sessionVars
<1>21. ASSUME NEW r \in Runs, Seal(r) PROVE Transports'
  BY <1>21, TunnelConstants
   DEF Goto, Seal, Transports, TunnelsTypeOK, exitVars, registryVars, sessionVars
<1>22. ASSUME NEW r \in Runs, Drained(r) PROVE Transports'
  BY <1>22, TunnelConstants
   DEF Drained, Goto, Shut, Transports, TunnelsTypeOK, exitVars, registryVars,
         sessionVars
<1>23. ASSUME NEW r \in Runs, Reaped(r) PROVE Transports'
  BY <1>23, TunnelConstants
   DEF Goto, Permit, Reaped, Transports, TunnelsTypeOK, exitVars, registryVars,
         sessionVars
<1>24. ASSUME NEW r \in Runs, Finish(r) PROVE Transports'
  BY <1>24, TunnelConstants
   DEF Finish, Goto, Transports, TunnelsTypeOK, exitVars, registryVars,
         sessionVars
<1>25. ASSUME NEW r \in Runs, TransportEnds(r) PROVE Transports'
  BY <1>25, TunnelConstants
   DEF TransportEnds, Transports, TunnelsTypeOK, exitVars, registryVars,
         sessionVars
<1>26. ASSUME NEW r \in Runs, HandlerDropped(r) PROVE Transports'
  BY <1>26, TunnelConstants
   DEF HandlerDropped, Permit, Transports, TunnelsTypeOK, exitVars, registryVars,
         sessionVars
<1>27. ASSUME NEW c \in Conns, Arrive(c) PROVE Transports'
  BY <1>1, <1>27 DEF Arrive, exitVars, registryVars, sessionVars
<1>28. ASSUME NEW c \in Conns, TakePermits(c) PROVE Transports'
  BY <1>1, <1>28 DEF TakePermits, exitVars, registryVars, sessionVars
<1>29. ASSUME NEW c \in Conns, Recheck(c) PROVE Transports'
  BY <1>1, <1>29 DEF Recheck, exitVars, registryVars, sessionVars
<1>30. ASSUME NEW c \in Conns, EndLease(c) PROVE Transports'
  BY <1>1, <1>30 DEF EndLease, exitVars, registryVars, sessionVars
<1>31. ASSUME NEW c \in Conns, FailTunnel(c) PROVE Transports'
  BY <1>1, <1>31 DEF FailTunnel, exitVars, registryVars, sessionVars
<1>32. ASSUME NEW i \in Ids, Stop(i) PROVE Transports'
  BY <1>1, <1>32 DEF Stop, exitVars, registryVars, sessionVars
<1>33. ASSUME SealRegistry PROVE Transports'
  BY <1>1, <1>33 DEF SealRegistry, exitVars, registryVars, sessionVars
<1>34. ASSUME StopRows PROVE Transports'
  BY <1>1, <1>34 DEF StopRows, exitVars, registryVars, sessionVars
<1>35. ASSUME RestoreBegins PROVE Transports'
  BY <1>1, <1>35 DEF RestoreBegins, exitVars, registryVars, sessionVars
<1>36. ASSUME RestoreEnds PROVE Transports'
  BY <1>1, <1>36 DEF RestoreEnds, exitVars, registryVars, sessionVars
<1>37. CASE UNCHANGED tunnelVars
  BY <1>1, <1>37 DEF exitVars, registryVars, sessionVars, tunnelVars
<1> QED
  BY <1>1, <1>2, <1>3, <1>4, <1>5, <1>6, <1>7, <1>8, <1>9, <1>10, <1>11, <1>12,
     <1>13, <1>14, <1>15, <1>16, <1>17, <1>18, <1>19, <1>20, <1>21, <1>22, <1>23,
     <1>24, <1>25, <1>26, <1>27, <1>28, <1>29, <1>30, <1>31, <1>32, <1>33, <1>34,
     <1>35, <1>36, <1>37
   DEF TunnelsNext, Advance, Elsewhere, Connection

LEMMA PermitsStep == TunnelsTypeOK /\ Transports /\ Permits /\ [TunnelsNext]_tunnelVars => Permits'
<1> SUFFICES ASSUME TunnelsTypeOK, Transports, Permits, [TunnelsNext]_tunnelVars PROVE Permits'
  OBVIOUS
<1>1. CASE UNCHANGED <<transport, phase, permit>>
  BY <1>1 DEF Permits, Remote, TunnelsTypeOK
<1>2. ASSUME NEW r \in Runs, Prepare(r) PROVE Permits'
  BY <1>2, TunnelConstants
   DEF Goto, Permits, Prepare, Remote, TunnelsTypeOK, exitVars, registryVars,
         sessionVars
<1>3. ASSUME NEW r \in Runs, Refuse(r) PROVE Permits'
  BY <1>3, TunnelConstants
   DEF Goto, Permits, Refuse, Remote, TunnelsTypeOK, exitVars, registryVars,
         sessionVars
<1>4. ASSUME NEW r \in Runs, ReserveStart(r) PROVE Permits'
  BY <1>4, TunnelConstants
   DEF Goto, Permit, Permits, Remote, ReserveStart, TunnelsTypeOK, exitVars,
         registryVars, sessionVars
<1>5. ASSUME NEW r \in Runs, CredentialLoaded(r) PROVE Permits'
  BY <1>5, TunnelConstants
   DEF CredentialLoaded, Goto, Permit, Permits, Remote, TunnelsTypeOK, exitVars,
         registryVars, sessionVars
<1>6. ASSUME NEW r \in Runs, CredentialFails(r) PROVE Permits'
  BY <1>6, TunnelConstants
   DEF CredentialFails, Goto, Permit, Permits, Remote, TunnelsTypeOK, exitVars,
         registryVars, sessionVars
<1>7. ASSUME NEW r \in Runs, CredentialCancelled(r) PROVE Permits'
  BY <1>7, TunnelConstants
   DEF CredentialCancelled, Goto, Permits, Remote, TunnelsTypeOK, exitVars,
         registryVars, sessionVars
<1>8. ASSUME NEW r \in Runs, JobReturns(r) PROVE Permits'
  BY <1>8, TunnelConstants
   DEF JobReturns, Permit, Permits, Remote, TunnelsTypeOK, exitVars, registryVars,
         sessionVars
<1>9. ASSUME NEW r \in Runs, Bind(r) PROVE Permits'
  BY <1>9, TunnelConstants
   DEF Bind, Goto, Permit, Permits, Remote, TunnelsTypeOK, exitVars, registryVars,
         sessionVars
<1>10. ASSUME NEW r \in Runs, Connect(r) PROVE Permits'
  BY <1>10, TunnelConstants
   DEF Connect, Goto, Permits, Remote, TunnelsTypeOK, exitVars, registryVars,
         sessionVars
<1>11. ASSUME NEW r \in Runs, Handshake(r) PROVE Permits'
  BY <1>11, TunnelConstants
   DEF Goto, Handshake, Permits, Remote, TunnelsTypeOK, exitVars, registryVars,
         sessionVars
<1>12. ASSUME NEW r \in Runs, StageFails(r) PROVE Permits'
  BY <1>12, TunnelConstants
   DEF Goto, Permits, Remote, StageFails, TunnelsTypeOK, exitVars, registryVars,
         sessionVars
<1>13. ASSUME NEW r \in Runs, HandshakeFails(r) PROVE Permits'
  BY <1>13, TunnelConstants
   DEF Goto, HandshakeFails, Permits, Remote, Shut, TunnelsTypeOK, exitVars,
         registryVars, sessionVars
<1>14. ASSUME NEW r \in Runs, HandshakeReaped(r) PROVE Permits'
  BY <1>14, TunnelConstants
   DEF Goto, HandshakeReaped, Permits, Remote, TunnelsTypeOK, exitVars,
         registryVars, sessionVars
<1>15. ASSUME NEW r \in Runs, SetupFails(r) PROVE Permits'
  BY <1>15, TunnelConstants
   DEF Goto, Permits, Remote, SetupFails, TunnelsTypeOK, exitVars, registryVars,
         sessionVars
<1>16. ASSUME NEW r \in Runs, CommitStart(r) PROVE Permits'
  BY <1>16, TunnelConstants
   DEF CommitStart, Goto, Permits, Remote, TunnelsTypeOK, exitVars, registryVars,
         sessionVars
<1>17. ASSUME NEW r \in Runs, DropLocals(r) PROVE Permits'
  <2>1. transport[r] \in {"none", "marked", "gone"}
    BY <1>17 DEF DropLocals, Transports, TunnelsTypeOK
  <2>2. transport' = transport /\ phase' = [phase EXCEPT ![r] = "cancelling"]
    BY <1>17 DEF DropLocals, Goto
  <2>3. CASE \/ permit[r] = "reservation"
             \/ permit[r] = "session" /\ transport[r] \in {"none", "gone"}
    BY <1>17, <2>2, <2>3 DEF DropLocals, Permit, Permits, TunnelsTypeOK
  <2>4. CASE ~(\/ permit[r] = "reservation"
               \/ permit[r] = "session" /\ transport[r] \in {"none", "gone"})
    BY <1>17, <2>1, <2>2, <2>4 DEF DropLocals, Permit, Permits, TunnelsTypeOK
  <2> QED
    BY <2>3, <2>4
<1>18. ASSUME NEW r \in Runs, CancelStart(r) PROVE Permits'
  BY <1>18, TunnelConstants
   DEF CancelStart, Goto, Permits, Remote, TunnelsTypeOK, exitVars, registryVars,
         sessionVars
<1>19. ASSUME NEW r \in Runs, ServeEnds(r) PROVE Permits'
  BY <1>19, TunnelConstants
   DEF Goto, Permits, Remote, ServeEnds, TunnelsTypeOK, exitVars, registryVars,
         sessionVars
<1>20. ASSUME NEW r \in Runs, ListenerFails(r) PROVE Permits'
  BY <1>20, TunnelConstants
   DEF Goto, ListenerFails, Permits, Remote, TunnelsTypeOK, exitVars,
         registryVars, sessionVars
<1>21. ASSUME NEW r \in Runs, Seal(r) PROVE Permits'
  BY <1>21, TunnelConstants
   DEF Goto, Permits, Remote, Seal, TunnelsTypeOK, exitVars, registryVars,
         sessionVars
<1>22. ASSUME NEW r \in Runs, Drained(r) PROVE Permits'
  BY <1>22, TunnelConstants
   DEF Drained, Goto, Permits, Remote, Shut, TunnelsTypeOK, exitVars,
         registryVars, sessionVars
<1>23. ASSUME NEW r \in Runs, Reaped(r) PROVE Permits'
  BY <1>23, TunnelConstants
   DEF Goto, Permit, Permits, Reaped, Remote, TunnelsTypeOK, exitVars,
         registryVars, sessionVars
<1>24. ASSUME NEW r \in Runs, Finish(r) PROVE Permits'
  BY <1>24, TunnelConstants
   DEF Finish, Goto, Permits, Remote, TunnelsTypeOK, exitVars, registryVars,
         sessionVars
<1>25. ASSUME NEW r \in Runs, TransportEnds(r) PROVE Permits'
  BY <1>25, TunnelConstants
   DEF Permits, Remote, TransportEnds, TunnelsTypeOK, exitVars, registryVars,
         sessionVars
<1>26. ASSUME NEW r \in Runs, HandlerDropped(r) PROVE Permits'
  BY <1>26, TunnelConstants
   DEF HandlerDropped, Permit, Permits, Remote, TunnelsTypeOK, exitVars,
         registryVars, sessionVars
<1>27. ASSUME NEW c \in Conns, Arrive(c) PROVE Permits'
  BY <1>1, <1>27 DEF Arrive, exitVars, registryVars, sessionVars
<1>28. ASSUME NEW c \in Conns, TakePermits(c) PROVE Permits'
  BY <1>1, <1>28 DEF TakePermits, exitVars, registryVars, sessionVars
<1>29. ASSUME NEW c \in Conns, Recheck(c) PROVE Permits'
  BY <1>1, <1>29 DEF Recheck, exitVars, registryVars, sessionVars
<1>30. ASSUME NEW c \in Conns, EndLease(c) PROVE Permits'
  BY <1>1, <1>30 DEF EndLease, exitVars, registryVars, sessionVars
<1>31. ASSUME NEW c \in Conns, FailTunnel(c) PROVE Permits'
  BY <1>1, <1>31 DEF FailTunnel, exitVars, registryVars, sessionVars
<1>32. ASSUME NEW i \in Ids, Stop(i) PROVE Permits'
  BY <1>1, <1>32 DEF Stop, exitVars, registryVars, sessionVars
<1>33. ASSUME SealRegistry PROVE Permits'
  BY <1>1, <1>33 DEF SealRegistry, exitVars, registryVars, sessionVars
<1>34. ASSUME StopRows PROVE Permits'
  BY <1>1, <1>34 DEF StopRows, exitVars, registryVars, sessionVars
<1>35. ASSUME RestoreBegins PROVE Permits'
  BY <1>1, <1>35 DEF RestoreBegins, exitVars, registryVars, sessionVars
<1>36. ASSUME RestoreEnds PROVE Permits'
  BY <1>1, <1>36 DEF RestoreEnds, exitVars, registryVars, sessionVars
<1>37. CASE UNCHANGED tunnelVars
  BY <1>1, <1>37 DEF exitVars, registryVars, sessionVars, tunnelVars
<1> QED
  BY <1>1, <1>2, <1>3, <1>4, <1>5, <1>6, <1>7, <1>8, <1>9, <1>10, <1>11, <1>12,
     <1>13, <1>14, <1>15, <1>16, <1>17, <1>18, <1>19, <1>20, <1>21, <1>22, <1>23,
     <1>24, <1>25, <1>26, <1>27, <1>28, <1>29, <1>30, <1>31, <1>32, <1>33, <1>34,
     <1>35, <1>36, <1>37
   DEF TunnelsNext, Advance, Elsewhere, Connection

LEMMA ConnectionsStep == TunnelsTypeOK /\ Stops /\ Connections /\ [TunnelsNext]_tunnelVars => Connections'
<1> SUFFICES ASSUME TunnelsTypeOK, Stops, Connections, [TunnelsNext]_tunnelVars PROVE Connections'
  OBVIOUS
<1>1. CASE UNCHANGED <<transport, phase, conn>>
  BY <1>1 DEF Busy, Connections, Leased, Of, Remote, TunnelsTypeOK
<1>2. ASSUME NEW r \in Runs, Prepare(r) PROVE Connections'
  BY <1>2, TunnelConstants
   DEF Busy, Connections, Goto, Leased, Of, Prepare, Remote, TunnelsTypeOK,
         exitVars, registryVars, sessionVars
<1>3. ASSUME NEW r \in Runs, Refuse(r) PROVE Connections'
  BY <1>3, TunnelConstants
   DEF Busy, Connections, Goto, Leased, Of, Refuse, Remote, TunnelsTypeOK,
         exitVars, registryVars, sessionVars
<1>4. ASSUME NEW r \in Runs, ReserveStart(r) PROVE Connections'
  BY <1>4, TunnelConstants
   DEF Busy, Connections, Goto, Leased, Of, Permit, Remote, ReserveStart,
         TunnelsTypeOK, exitVars, registryVars, sessionVars
<1>5. ASSUME NEW r \in Runs, CredentialLoaded(r) PROVE Connections'
  BY <1>5, TunnelConstants
   DEF Busy, Connections, CredentialLoaded, Goto, Leased, Of, Permit, Remote,
         TunnelsTypeOK, exitVars, registryVars, sessionVars
<1>6. ASSUME NEW r \in Runs, CredentialFails(r) PROVE Connections'
  BY <1>6, TunnelConstants
   DEF Busy, Connections, CredentialFails, Goto, Leased, Of, Permit, Remote,
         TunnelsTypeOK, exitVars, registryVars, sessionVars
<1>7. ASSUME NEW r \in Runs, CredentialCancelled(r) PROVE Connections'
  BY <1>7, TunnelConstants
   DEF Busy, Connections, CredentialCancelled, Goto, Leased, Of, Remote,
         TunnelsTypeOK, exitVars, registryVars, sessionVars
<1>8. ASSUME NEW r \in Runs, JobReturns(r) PROVE Connections'
  BY <1>1, <1>8 DEF JobReturns, exitVars, registryVars, sessionVars
<1>9. ASSUME NEW r \in Runs, Bind(r) PROVE Connections'
  BY <1>9, TunnelConstants
   DEF Bind, Busy, Connections, Goto, Leased, Of, Permit, Remote, TunnelsTypeOK,
         exitVars, registryVars, sessionVars
<1>10. ASSUME NEW r \in Runs, Connect(r) PROVE Connections'
  BY <1>10, TunnelConstants
   DEF Busy, Connect, Connections, Goto, Leased, Of, Remote, TunnelsTypeOK,
         exitVars, registryVars, sessionVars
<1>11. ASSUME NEW r \in Runs, Handshake(r) PROVE Connections'
  BY <1>11, TunnelConstants
   DEF Busy, Connections, Goto, Handshake, Leased, Of, Remote, TunnelsTypeOK,
         exitVars, registryVars, sessionVars
<1>12. ASSUME NEW r \in Runs, StageFails(r) PROVE Connections'
  BY <1>12, TunnelConstants
   DEF Busy, Connections, Goto, Leased, Of, Remote, StageFails, TunnelsTypeOK,
         exitVars, registryVars, sessionVars
<1>13. ASSUME NEW r \in Runs, HandshakeFails(r) PROVE Connections'
  BY <1>13, TunnelConstants
   DEF Busy, Connections, Goto, HandshakeFails, Leased, Of, Remote, Shut,
         TunnelsTypeOK, exitVars, registryVars, sessionVars
<1>14. ASSUME NEW r \in Runs, HandshakeReaped(r) PROVE Connections'
  BY <1>14, TunnelConstants
   DEF Busy, Connections, Goto, HandshakeReaped, Leased, Of, Remote,
         TunnelsTypeOK, exitVars, registryVars, sessionVars
<1>15. ASSUME NEW r \in Runs, SetupFails(r) PROVE Connections'
  BY <1>15, TunnelConstants
   DEF Busy, Connections, Goto, Leased, Of, Remote, SetupFails, TunnelsTypeOK,
         exitVars, registryVars, sessionVars
<1>16. ASSUME NEW r \in Runs, CommitStart(r) PROVE Connections'
  BY <1>16, TunnelConstants
   DEF Busy, CommitStart, Connections, Goto, Leased, Of, Remote, TunnelsTypeOK,
         exitVars, registryVars, sessionVars
<1>17. ASSUME NEW r \in Runs, DropLocals(r) PROVE Connections'
  BY <1>17, TunnelConstants
   DEF Busy, Connections, DropLocals, Goto, Leased, Of, Permit, Remote,
         TunnelsTypeOK, exitVars, registryVars, sessionVars
<1>18. ASSUME NEW r \in Runs, CancelStart(r) PROVE Connections'
  BY <1>18, TunnelConstants
   DEF Busy, CancelStart, Connections, Goto, Leased, Of, Remote, TunnelsTypeOK,
         exitVars, registryVars, sessionVars
<1>19. ASSUME NEW r \in Runs, ServeEnds(r) PROVE Connections'
  BY <1>19, TunnelConstants
   DEF Busy, Connections, Goto, Leased, Of, Remote, ServeEnds, TunnelsTypeOK,
         exitVars, registryVars, sessionVars
<1>20. ASSUME NEW r \in Runs, ListenerFails(r) PROVE Connections'
  BY <1>20, TunnelConstants
   DEF Busy, Connections, Goto, Leased, ListenerFails, Of, Remote, TunnelsTypeOK,
         exitVars, registryVars, sessionVars
<1>21. ASSUME NEW r \in Runs, Seal(r) PROVE Connections'
  BY <1>21, TunnelConstants
   DEF Busy, Connections, Goto, Leased, Of, Remote, Seal, TunnelsTypeOK, exitVars,
         registryVars, sessionVars
<1>22. ASSUME NEW r \in Runs, Drained(r) PROVE Connections'
  BY <1>22, TunnelConstants
   DEF Busy, Connections, Drained, Goto, Leased, Of, Remote, Shut, TunnelsTypeOK,
         exitVars, registryVars, sessionVars
<1>23. ASSUME NEW r \in Runs, Reaped(r) PROVE Connections'
  BY <1>23, TunnelConstants
   DEF Busy, Connections, Goto, Leased, Of, Permit, Reaped, Remote, TunnelsTypeOK,
         exitVars, registryVars, sessionVars
<1>24. ASSUME NEW r \in Runs, Finish(r) PROVE Connections'
  BY <1>24, TunnelConstants
   DEF Busy, Connections, Finish, Goto, Leased, Of, Remote, TunnelsTypeOK,
         exitVars, registryVars, sessionVars
<1>25. ASSUME NEW r \in Runs, TransportEnds(r) PROVE Connections'
  BY <1>25, TunnelConstants
   DEF Busy, Connections, Leased, Of, Remote, TransportEnds, TunnelsTypeOK,
         exitVars, registryVars, sessionVars
<1>26. ASSUME NEW r \in Runs, HandlerDropped(r) PROVE Connections'
  BY <1>26, TunnelConstants
   DEF Busy, Connections, HandlerDropped, Leased, Of, Permit, Remote,
         TunnelsTypeOK, exitVars, registryVars, sessionVars
<1>27. ASSUME NEW c \in Conns, Arrive(c) PROVE Connections'
  BY <1>27, TunnelConstants
   DEF Arrive, Busy, Connections, Leased, Of, Remote, TunnelsTypeOK, exitVars,
         registryVars, sessionVars
<1>28. ASSUME NEW c \in Conns, TakePermits(c) PROVE Connections'
  BY <1>28, TunnelConstants
   DEF Busy, Connections, Leased, Of, Remote, TakePermits, TunnelsTypeOK,
         exitVars, registryVars, sessionVars
<1>29. ASSUME NEW c \in Conns, Recheck(c) PROVE Connections'
  <2>1. runOf[c] \notin stop => phase[runOf[c]] \notin {"draining", "reaping"}
    BY TunnelConstants DEF Stops
  <2> QED
    BY <1>29, <2>1, TunnelConstants
       DEF Recheck, Connections, Remote, TunnelsTypeOK, exitVars, registryVars
<1>30. ASSUME NEW c \in Conns, EndLease(c) PROVE Connections'
  BY <1>30, TunnelConstants
   DEF Busy, Connections, EndLease, Leased, Of, Remote, TunnelsTypeOK, exitVars,
         registryVars, sessionVars
<1>31. ASSUME NEW c \in Conns, FailTunnel(c) PROVE Connections'
  BY <1>31, TunnelConstants
   DEF Busy, Connections, FailTunnel, Leased, Of, Remote, TunnelsTypeOK, exitVars,
         registryVars, sessionVars
<1>32. ASSUME NEW i \in Ids, Stop(i) PROVE Connections'
  BY <1>1, <1>32 DEF Stop, exitVars, registryVars, sessionVars
<1>33. ASSUME SealRegistry PROVE Connections'
  BY <1>1, <1>33 DEF SealRegistry, exitVars, registryVars, sessionVars
<1>34. ASSUME StopRows PROVE Connections'
  BY <1>1, <1>34 DEF StopRows, exitVars, registryVars, sessionVars
<1>35. ASSUME RestoreBegins PROVE Connections'
  BY <1>1, <1>35 DEF RestoreBegins, exitVars, registryVars, sessionVars
<1>36. ASSUME RestoreEnds PROVE Connections'
  BY <1>1, <1>36 DEF RestoreEnds, exitVars, registryVars, sessionVars
<1>37. CASE UNCHANGED tunnelVars
  BY <1>1, <1>37 DEF exitVars, registryVars, sessionVars, tunnelVars
<1> QED
  BY <1>1, <1>2, <1>3, <1>4, <1>5, <1>6, <1>7, <1>8, <1>9, <1>10, <1>11, <1>12,
     <1>13, <1>14, <1>15, <1>16, <1>17, <1>18, <1>19, <1>20, <1>21, <1>22, <1>23,
     <1>24, <1>25, <1>26, <1>27, <1>28, <1>29, <1>30, <1>31, <1>32, <1>33, <1>34,
     <1>35, <1>36, <1>37
   DEF TunnelsNext, Advance, Elsewhere, Connection

(***************************************************************************)
(* Stops, restores and completions.                                        *)
(***************************************************************************)
LEMMA StopsInit == TunnelsInit => Stops /\ Restores /\ Completions
BY DEF TunnelsInit, Stops, SealedStops, Restores, Completions

LEMMA StopsStep == TunnelsTypeOK /\ Listing /\ Stops /\ [TunnelsNext]_tunnelVars => Stops'
<1> SUFFICES ASSUME TunnelsTypeOK, Listing, Stops, [TunnelsNext]_tunnelVars PROVE Stops'
  OBVIOUS
<1>1. CASE UNCHANGED <<stop, phase, sealed, row, status>>
  BY <1>1 DEF Listed, Owned, SealedStops, Stops, TunnelsTypeOK
<1>2. ASSUME NEW r \in Runs, Prepare(r) PROVE Stops'
  BY <1>2, TunnelConstants
   DEF Goto, Listed, Owned, Prepare, SealedStops, Stops, TunnelsTypeOK, exitVars,
         registryVars, sessionVars
<1>3. ASSUME NEW r \in Runs, Refuse(r) PROVE Stops'
  BY <1>3, TunnelConstants
   DEF Goto, Listed, Owned, Refuse, SealedStops, Stops, TunnelsTypeOK, exitVars,
         registryVars, sessionVars
<1>4. ASSUME NEW r \in Runs, ReserveStart(r) PROVE Stops'
  BY <1>4, TunnelConstants
   DEF Goto, Listed, Owned, Permit, ReserveStart, SealedStops, Stops,
         TunnelsTypeOK, exitVars, registryVars, sessionVars
<1>5. ASSUME NEW r \in Runs, CredentialLoaded(r) PROVE Stops'
  BY <1>5, TunnelConstants
   DEF CredentialLoaded, Goto, Listed, Owned, Permit, SealedStops, Stops,
         TunnelsTypeOK, exitVars, registryVars, sessionVars
<1>6. ASSUME NEW r \in Runs, CredentialFails(r) PROVE Stops'
  BY <1>6, TunnelConstants
   DEF CredentialFails, Goto, Listed, Owned, Permit, SealedStops, Stops,
         TunnelsTypeOK, exitVars, registryVars, sessionVars
<1>7. ASSUME NEW r \in Runs, CredentialCancelled(r) PROVE Stops'
  BY <1>7, TunnelConstants
   DEF CredentialCancelled, Goto, Listed, Owned, SealedStops, Stops,
         TunnelsTypeOK, exitVars, registryVars, sessionVars
<1>8. ASSUME NEW r \in Runs, JobReturns(r) PROVE Stops'
  BY <1>1, <1>8 DEF JobReturns, exitVars, registryVars, sessionVars
<1>9. ASSUME NEW r \in Runs, Bind(r) PROVE Stops'
  BY <1>9, TunnelConstants
   DEF Bind, Goto, Listed, Owned, Permit, SealedStops, Stops, TunnelsTypeOK,
         exitVars, registryVars, sessionVars
<1>10. ASSUME NEW r \in Runs, Connect(r) PROVE Stops'
  BY <1>10, TunnelConstants
   DEF Connect, Goto, Listed, Owned, SealedStops, Stops, TunnelsTypeOK, exitVars,
         registryVars, sessionVars
<1>11. ASSUME NEW r \in Runs, Handshake(r) PROVE Stops'
  BY <1>11, TunnelConstants
   DEF Goto, Handshake, Listed, Owned, SealedStops, Stops, TunnelsTypeOK,
         exitVars, registryVars, sessionVars
<1>12. ASSUME NEW r \in Runs, StageFails(r) PROVE Stops'
  BY <1>12, TunnelConstants
   DEF Goto, Listed, Owned, SealedStops, StageFails, Stops, TunnelsTypeOK,
         exitVars, registryVars, sessionVars
<1>13. ASSUME NEW r \in Runs, HandshakeFails(r) PROVE Stops'
  BY <1>13, TunnelConstants
   DEF Goto, HandshakeFails, Listed, Owned, SealedStops, Shut, Stops,
         TunnelsTypeOK, exitVars, registryVars, sessionVars
<1>14. ASSUME NEW r \in Runs, HandshakeReaped(r) PROVE Stops'
  BY <1>14, TunnelConstants
   DEF Goto, HandshakeReaped, Listed, Owned, SealedStops, Stops, TunnelsTypeOK,
         exitVars, registryVars, sessionVars
<1>15. ASSUME NEW r \in Runs, SetupFails(r) PROVE Stops'
  BY <1>15, TunnelConstants
   DEF Goto, Listed, Owned, SealedStops, SetupFails, Stops, TunnelsTypeOK,
         exitVars, registryVars, sessionVars
<1>16. ASSUME NEW r \in Runs, CommitStart(r) PROVE Stops'
  BY <1>16, TunnelConstants
   DEF CommitStart, Goto, Listed, Owned, SealedStops, Stops, TunnelsTypeOK,
         exitVars, registryVars, sessionVars
<1>17. ASSUME NEW r \in Runs, DropLocals(r) PROVE Stops'
  BY <1>17, TunnelConstants
   DEF DropLocals, Goto, Listed, Owned, Permit, SealedStops, Stops, TunnelsTypeOK,
         exitVars, registryVars, sessionVars
<1>18. ASSUME NEW r \in Runs, CancelStart(r) PROVE Stops'
  <2>1. UnderWay(r) /\ row[tunnel[r]] = r /\ status[r] = "starting"
    BY <1>18 DEF CancelStart, Listing, Placed, UnderWay, Owned
  <2>2. /\ row' = [row EXCEPT ![tunnel[r]] = previous[r]]
        /\ status' = [status EXCEPT ![r] = "none"]
        /\ phase' = [phase EXCEPT ![r] = "over"]
        /\ UNCHANGED <<stop, sealed>>
    BY <1>18, <2>1 DEF CancelStart, Goto, exitVars
  <2>3. \A q \in Runs : Listed(q)' => Listed(q)
    BY <2>1, <2>2, TunnelConstants DEF Listed, Listing, Placed, Owned, TunnelsTypeOK
  <2> QED
    BY <2>2, <2>3 DEF Stops, SealedStops, TunnelsTypeOK
<1>19. ASSUME NEW r \in Runs, ServeEnds(r) PROVE Stops'
  BY <1>19, TunnelConstants
   DEF Goto, Listed, Owned, SealedStops, ServeEnds, Stops, TunnelsTypeOK,
         exitVars, registryVars, sessionVars
<1>20. ASSUME NEW r \in Runs, ListenerFails(r) PROVE Stops'
  BY <1>20, TunnelConstants
   DEF Goto, Listed, ListenerFails, Owned, SealedStops, Stops, TunnelsTypeOK,
         exitVars, registryVars, sessionVars
<1>21. ASSUME NEW r \in Runs, Seal(r) PROVE Stops'
  BY <1>21, TunnelConstants
   DEF Goto, Listed, Owned, Seal, SealedStops, Stops, TunnelsTypeOK, exitVars,
         registryVars, sessionVars
<1>22. ASSUME NEW r \in Runs, Drained(r) PROVE Stops'
  BY <1>22, TunnelConstants
   DEF Drained, Goto, Listed, Owned, SealedStops, Shut, Stops, TunnelsTypeOK,
         exitVars, registryVars, sessionVars
<1>23. ASSUME NEW r \in Runs, Reaped(r) PROVE Stops'
  BY <1>23, TunnelConstants
   DEF Goto, Listed, Owned, Permit, Reaped, SealedStops, Stops, TunnelsTypeOK,
         exitVars, registryVars, sessionVars
<1>24. ASSUME NEW r \in Runs, Finish(r) PROVE Stops'
  BY <1>24, TunnelConstants
   DEF Finish, Goto, Listed, Owned, SealedStops, Stops, TunnelsTypeOK, exitVars,
         registryVars, sessionVars
<1>25. ASSUME NEW r \in Runs, TransportEnds(r) PROVE Stops'
  BY <1>1, <1>25 DEF TransportEnds, exitVars, registryVars, sessionVars
<1>26. ASSUME NEW r \in Runs, HandlerDropped(r) PROVE Stops'
  BY <1>1, <1>26 DEF HandlerDropped, exitVars, registryVars, sessionVars
<1>27. ASSUME NEW c \in Conns, Arrive(c) PROVE Stops'
  BY <1>1, <1>27 DEF Arrive, exitVars, registryVars, sessionVars
<1>28. ASSUME NEW c \in Conns, TakePermits(c) PROVE Stops'
  BY <1>1, <1>28 DEF TakePermits, exitVars, registryVars, sessionVars
<1>29. ASSUME NEW c \in Conns, Recheck(c) PROVE Stops'
  BY <1>1, <1>29 DEF Recheck, exitVars, registryVars, sessionVars
<1>30. ASSUME NEW c \in Conns, EndLease(c) PROVE Stops'
  BY <1>1, <1>30 DEF EndLease, exitVars, registryVars, sessionVars
<1>31. ASSUME NEW c \in Conns, FailTunnel(c) PROVE Stops'
  BY <1>31, TunnelConstants
   DEF FailTunnel, Listed, Owned, SealedStops, Stops, TunnelsTypeOK, exitVars,
         registryVars, sessionVars
<1>32. ASSUME NEW i \in Ids, Stop(i) PROVE Stops'
  BY <1>32, TunnelConstants
   DEF Listed, Owned, SealedStops, Stop, Stops, TunnelsTypeOK, exitVars,
         registryVars, sessionVars
<1>33. ASSUME SealRegistry PROVE Stops'
  BY <1>33, TunnelConstants
   DEF Listed, Owned, SealRegistry, SealedStops, Stops, TunnelsTypeOK, exitVars,
         registryVars, sessionVars
<1>34. ASSUME StopRows PROVE Stops'
  BY <1>34, TunnelConstants
   DEF Listed, Owned, SealedStops, StopRows, Stops, TunnelsTypeOK, exitVars,
         registryVars, sessionVars
<1>35. ASSUME RestoreBegins PROVE Stops'
  BY <1>1, <1>35 DEF RestoreBegins, exitVars, registryVars, sessionVars
<1>36. ASSUME RestoreEnds PROVE Stops'
  BY <1>1, <1>36 DEF RestoreEnds, exitVars, registryVars, sessionVars
<1>37. CASE UNCHANGED tunnelVars
  BY <1>1, <1>37 DEF exitVars, registryVars, sessionVars, tunnelVars
<1> QED
  BY <1>1, <1>2, <1>3, <1>4, <1>5, <1>6, <1>7, <1>8, <1>9, <1>10, <1>11, <1>12,
     <1>13, <1>14, <1>15, <1>16, <1>17, <1>18, <1>19, <1>20, <1>21, <1>22, <1>23,
     <1>24, <1>25, <1>26, <1>27, <1>28, <1>29, <1>30, <1>31, <1>32, <1>33, <1>34,
     <1>35, <1>36, <1>37
   DEF TunnelsNext, Advance, Elsewhere, Connection

LEMMA RestoresStep == TunnelsTypeOK /\ Listing /\ Restores /\ [TunnelsNext]_tunnelVars => Restores'
<1> SUFFICES ASSUME TunnelsTypeOK, Listing, Restores, [TunnelsNext]_tunnelVars PROVE Restores'
  OBVIOUS
<1>1. CASE UNCHANGED <<restoring, phase>>
  BY <1>1 DEF Restores, TunnelsTypeOK
<1>2. ASSUME NEW r \in Runs, Prepare(r) PROVE Restores'
  BY <1>2, TunnelConstants
   DEF Goto, Prepare, Restores, TunnelsTypeOK, exitVars, registryVars, sessionVars
<1>3. ASSUME NEW r \in Runs, Refuse(r) PROVE Restores'
  BY <1>3, TunnelConstants
   DEF Goto, Refuse, Restores, TunnelsTypeOK, exitVars, registryVars, sessionVars
<1>4. ASSUME NEW r \in Runs, ReserveStart(r) PROVE Restores'
  BY <1>4, TunnelConstants
   DEF Goto, Permit, ReserveStart, Restores, TunnelsTypeOK, exitVars,
         registryVars, sessionVars
<1>5. ASSUME NEW r \in Runs, CredentialLoaded(r) PROVE Restores'
  BY <1>5, TunnelConstants
   DEF CredentialLoaded, Goto, Permit, Restores, TunnelsTypeOK, exitVars,
         registryVars, sessionVars
<1>6. ASSUME NEW r \in Runs, CredentialFails(r) PROVE Restores'
  BY <1>6, TunnelConstants
   DEF CredentialFails, Goto, Permit, Restores, TunnelsTypeOK, exitVars,
         registryVars, sessionVars
<1>7. ASSUME NEW r \in Runs, CredentialCancelled(r) PROVE Restores'
  BY <1>7, TunnelConstants
   DEF CredentialCancelled, Goto, Restores, TunnelsTypeOK, exitVars, registryVars,
         sessionVars
<1>8. ASSUME NEW r \in Runs, JobReturns(r) PROVE Restores'
  BY <1>1, <1>8 DEF JobReturns, exitVars, registryVars, sessionVars
<1>9. ASSUME NEW r \in Runs, Bind(r) PROVE Restores'
  BY <1>9, TunnelConstants
   DEF Bind, Goto, Permit, Restores, TunnelsTypeOK, exitVars, registryVars,
         sessionVars
<1>10. ASSUME NEW r \in Runs, Connect(r) PROVE Restores'
  BY <1>10, TunnelConstants
   DEF Connect, Goto, Restores, TunnelsTypeOK, exitVars, registryVars, sessionVars
<1>11. ASSUME NEW r \in Runs, Handshake(r) PROVE Restores'
  BY <1>11, TunnelConstants
   DEF Goto, Handshake, Restores, TunnelsTypeOK, exitVars, registryVars,
         sessionVars
<1>12. ASSUME NEW r \in Runs, StageFails(r) PROVE Restores'
  BY <1>12, TunnelConstants
   DEF Goto, Restores, StageFails, TunnelsTypeOK, exitVars, registryVars,
         sessionVars
<1>13. ASSUME NEW r \in Runs, HandshakeFails(r) PROVE Restores'
  BY <1>13, TunnelConstants
   DEF Goto, HandshakeFails, Restores, Shut, TunnelsTypeOK, exitVars,
         registryVars, sessionVars
<1>14. ASSUME NEW r \in Runs, HandshakeReaped(r) PROVE Restores'
  BY <1>14, TunnelConstants
   DEF Goto, HandshakeReaped, Restores, TunnelsTypeOK, exitVars, registryVars,
         sessionVars
<1>15. ASSUME NEW r \in Runs, SetupFails(r) PROVE Restores'
  BY <1>15, TunnelConstants
   DEF Goto, Restores, SetupFails, TunnelsTypeOK, exitVars, registryVars,
         sessionVars
<1>16. ASSUME NEW r \in Runs, CommitStart(r) PROVE Restores'
  BY <1>16, TunnelConstants
   DEF CommitStart, Goto, Restores, TunnelsTypeOK, exitVars, registryVars,
         sessionVars
<1>17. ASSUME NEW r \in Runs, DropLocals(r) PROVE Restores'
  BY <1>17, TunnelConstants
   DEF DropLocals, Goto, Permit, Restores, TunnelsTypeOK, exitVars, registryVars,
         sessionVars
<1>18. ASSUME NEW r \in Runs, CancelStart(r) PROVE Restores'
  BY <1>18, TunnelConstants
   DEF CancelStart, Goto, Restores, TunnelsTypeOK, exitVars, registryVars,
         sessionVars
<1>19. ASSUME NEW r \in Runs, ServeEnds(r) PROVE Restores'
  BY <1>19, TunnelConstants
   DEF Goto, Restores, ServeEnds, TunnelsTypeOK, exitVars, registryVars,
         sessionVars
<1>20. ASSUME NEW r \in Runs, ListenerFails(r) PROVE Restores'
  BY <1>20, TunnelConstants
   DEF Goto, ListenerFails, Restores, TunnelsTypeOK, exitVars, registryVars,
         sessionVars
<1>21. ASSUME NEW r \in Runs, Seal(r) PROVE Restores'
  BY <1>21, TunnelConstants
   DEF Goto, Restores, Seal, TunnelsTypeOK, exitVars, registryVars, sessionVars
<1>22. ASSUME NEW r \in Runs, Drained(r) PROVE Restores'
  BY <1>22, TunnelConstants
   DEF Drained, Goto, Restores, Shut, TunnelsTypeOK, exitVars, registryVars,
         sessionVars
<1>23. ASSUME NEW r \in Runs, Reaped(r) PROVE Restores'
  BY <1>23, TunnelConstants
   DEF Goto, Permit, Reaped, Restores, TunnelsTypeOK, exitVars, registryVars,
         sessionVars
<1>24. ASSUME NEW r \in Runs, Finish(r) PROVE Restores'
  BY <1>24, TunnelConstants
   DEF Finish, Goto, Restores, TunnelsTypeOK, exitVars, registryVars, sessionVars
<1>25. ASSUME NEW r \in Runs, TransportEnds(r) PROVE Restores'
  BY <1>1, <1>25 DEF TransportEnds, exitVars, registryVars, sessionVars
<1>26. ASSUME NEW r \in Runs, HandlerDropped(r) PROVE Restores'
  BY <1>1, <1>26 DEF HandlerDropped, exitVars, registryVars, sessionVars
<1>27. ASSUME NEW c \in Conns, Arrive(c) PROVE Restores'
  BY <1>1, <1>27 DEF Arrive, exitVars, registryVars, sessionVars
<1>28. ASSUME NEW c \in Conns, TakePermits(c) PROVE Restores'
  BY <1>1, <1>28 DEF TakePermits, exitVars, registryVars, sessionVars
<1>29. ASSUME NEW c \in Conns, Recheck(c) PROVE Restores'
  BY <1>1, <1>29 DEF Recheck, exitVars, registryVars, sessionVars
<1>30. ASSUME NEW c \in Conns, EndLease(c) PROVE Restores'
  BY <1>1, <1>30 DEF EndLease, exitVars, registryVars, sessionVars
<1>31. ASSUME NEW c \in Conns, FailTunnel(c) PROVE Restores'
  BY <1>1, <1>31 DEF FailTunnel, exitVars, registryVars, sessionVars
<1>32. ASSUME NEW i \in Ids, Stop(i) PROVE Restores'
  BY <1>1, <1>32 DEF Stop, exitVars, registryVars, sessionVars
<1>33. ASSUME SealRegistry PROVE Restores'
  BY <1>1, <1>33 DEF SealRegistry, exitVars, registryVars, sessionVars
<1>34. ASSUME StopRows PROVE Restores'
  BY <1>1, <1>34 DEF StopRows, exitVars, registryVars, sessionVars
<1>35. ASSUME RestoreBegins PROVE Restores'
  <2>1. \A r \in Runs : ~UnderWay(r)
    BY <1>35 DEF RestoreBegins, Listing, Placed, Listed
  <2>2. \A r \in Runs : phase[r] \in {"idle", "over"}
    BY <1>35, <2>1 DEF RestoreBegins, UnderWay
  <2> QED
    BY <1>35, <2>2 DEF RestoreBegins, Restores
<1>36. ASSUME RestoreEnds PROVE Restores'
  BY <1>36, TunnelConstants
   DEF RestoreEnds, Restores, TunnelsTypeOK, exitVars, registryVars, sessionVars
<1>37. CASE UNCHANGED tunnelVars
  BY <1>1, <1>37 DEF exitVars, registryVars, sessionVars, tunnelVars
<1> QED
  BY <1>1, <1>2, <1>3, <1>4, <1>5, <1>6, <1>7, <1>8, <1>9, <1>10, <1>11, <1>12,
     <1>13, <1>14, <1>15, <1>16, <1>17, <1>18, <1>19, <1>20, <1>21, <1>22, <1>23,
     <1>24, <1>25, <1>26, <1>27, <1>28, <1>29, <1>30, <1>31, <1>32, <1>33, <1>34,
     <1>35, <1>36, <1>37
   DEF TunnelsNext, Advance, Elsewhere, Connection

LEMMA CompletionsStep == TunnelsTypeOK /\ Completions /\ [TunnelsNext]_tunnelVars => Completions'
<1> SUFFICES ASSUME TunnelsTypeOK, Completions, [TunnelsNext]_tunnelVars PROVE Completions'
  OBVIOUS
<1>1. CASE UNCHANGED <<completed, phase>>
  BY <1>1 DEF Completions, Owned, TunnelsTypeOK
<1>2. ASSUME NEW r \in Runs, Prepare(r) PROVE Completions'
  BY <1>2, TunnelConstants
   DEF Completions, Goto, Owned, Prepare, TunnelsTypeOK, exitVars, registryVars,
         sessionVars
<1>3. ASSUME NEW r \in Runs, Refuse(r) PROVE Completions'
  BY <1>3, TunnelConstants
   DEF Completions, Goto, Owned, Refuse, TunnelsTypeOK, exitVars, registryVars,
         sessionVars
<1>4. ASSUME NEW r \in Runs, ReserveStart(r) PROVE Completions'
  BY <1>4, TunnelConstants
   DEF Completions, Goto, Owned, Permit, ReserveStart, TunnelsTypeOK, exitVars,
         registryVars, sessionVars
<1>5. ASSUME NEW r \in Runs, CredentialLoaded(r) PROVE Completions'
  BY <1>5, TunnelConstants
   DEF Completions, CredentialLoaded, Goto, Owned, Permit, TunnelsTypeOK,
         exitVars, registryVars, sessionVars
<1>6. ASSUME NEW r \in Runs, CredentialFails(r) PROVE Completions'
  BY <1>6, TunnelConstants
   DEF Completions, CredentialFails, Goto, Owned, Permit, TunnelsTypeOK, exitVars,
         registryVars, sessionVars
<1>7. ASSUME NEW r \in Runs, CredentialCancelled(r) PROVE Completions'
  BY <1>7, TunnelConstants
   DEF Completions, CredentialCancelled, Goto, Owned, TunnelsTypeOK, exitVars,
         registryVars, sessionVars
<1>8. ASSUME NEW r \in Runs, JobReturns(r) PROVE Completions'
  BY <1>1, <1>8 DEF JobReturns, exitVars, registryVars, sessionVars
<1>9. ASSUME NEW r \in Runs, Bind(r) PROVE Completions'
  BY <1>9, TunnelConstants
   DEF Bind, Completions, Goto, Owned, Permit, TunnelsTypeOK, exitVars,
         registryVars, sessionVars
<1>10. ASSUME NEW r \in Runs, Connect(r) PROVE Completions'
  BY <1>10, TunnelConstants
   DEF Completions, Connect, Goto, Owned, TunnelsTypeOK, exitVars, registryVars,
         sessionVars
<1>11. ASSUME NEW r \in Runs, Handshake(r) PROVE Completions'
  BY <1>11, TunnelConstants
   DEF Completions, Goto, Handshake, Owned, TunnelsTypeOK, exitVars, registryVars,
         sessionVars
<1>12. ASSUME NEW r \in Runs, StageFails(r) PROVE Completions'
  BY <1>12, TunnelConstants
   DEF Completions, Goto, Owned, StageFails, TunnelsTypeOK, exitVars,
         registryVars, sessionVars
<1>13. ASSUME NEW r \in Runs, HandshakeFails(r) PROVE Completions'
  BY <1>13, TunnelConstants
   DEF Completions, Goto, HandshakeFails, Owned, Shut, TunnelsTypeOK, exitVars,
         registryVars, sessionVars
<1>14. ASSUME NEW r \in Runs, HandshakeReaped(r) PROVE Completions'
  BY <1>14, TunnelConstants
   DEF Completions, Goto, HandshakeReaped, Owned, TunnelsTypeOK, exitVars,
         registryVars, sessionVars
<1>15. ASSUME NEW r \in Runs, SetupFails(r) PROVE Completions'
  BY <1>15, TunnelConstants
   DEF Completions, Goto, Owned, SetupFails, TunnelsTypeOK, exitVars,
         registryVars, sessionVars
<1>16. ASSUME NEW r \in Runs, CommitStart(r) PROVE Completions'
  BY <1>16, TunnelConstants
   DEF CommitStart, Completions, Goto, Owned, TunnelsTypeOK, exitVars,
         registryVars, sessionVars
<1>17. ASSUME NEW r \in Runs, DropLocals(r) PROVE Completions'
  BY <1>17, TunnelConstants
   DEF Completions, DropLocals, Goto, Owned, Permit, TunnelsTypeOK, exitVars,
         registryVars, sessionVars
<1>18. ASSUME NEW r \in Runs, CancelStart(r) PROVE Completions'
  <2> SUFFICES ASSUME NEW q \in Runs, NEW s \in Owned, <<q, s>> \in completed'
               PROVE  phase'[q] = "over"
    BY DEF Completions
  <2>1. phase' = [phase EXCEPT ![r] = "over"]
    BY <1>18 DEF CancelStart, Goto
  <2>2. completed' \subseteq completed \cup {<<r, "starting">>}
    BY <1>18 DEF CancelStart
  <2>3. q = r \/ <<q, s>> \in completed
    BY <2>2
  <2> QED
    BY <2>1, <2>3 DEF Completions, TunnelsTypeOK
<1>19. ASSUME NEW r \in Runs, ServeEnds(r) PROVE Completions'
  BY <1>19, TunnelConstants
   DEF Completions, Goto, Owned, ServeEnds, TunnelsTypeOK, exitVars, registryVars,
         sessionVars
<1>20. ASSUME NEW r \in Runs, ListenerFails(r) PROVE Completions'
  BY <1>20, TunnelConstants
   DEF Completions, Goto, ListenerFails, Owned, TunnelsTypeOK, exitVars,
         registryVars, sessionVars
<1>21. ASSUME NEW r \in Runs, Seal(r) PROVE Completions'
  BY <1>21, TunnelConstants
   DEF Completions, Goto, Owned, Seal, TunnelsTypeOK, exitVars, registryVars,
         sessionVars
<1>22. ASSUME NEW r \in Runs, Drained(r) PROVE Completions'
  BY <1>22, TunnelConstants
   DEF Completions, Drained, Goto, Owned, Shut, TunnelsTypeOK, exitVars,
         registryVars, sessionVars
<1>23. ASSUME NEW r \in Runs, Reaped(r) PROVE Completions'
  BY <1>23, TunnelConstants
   DEF Completions, Goto, Owned, Permit, Reaped, TunnelsTypeOK, exitVars,
         registryVars, sessionVars
<1>24. ASSUME NEW r \in Runs, Finish(r) PROVE Completions'
  <2> SUFFICES ASSUME NEW q \in Runs, NEW s \in Owned, <<q, s>> \in completed'
               PROVE  phase'[q] = "over"
    BY DEF Completions
  <2>1. phase' = [phase EXCEPT ![r] = "over"]
    BY <1>24 DEF Finish, Goto
  <2>2. completed' \subseteq completed \cup {<<r, "active">>}
    BY <1>24 DEF Finish
  <2>3. q = r \/ <<q, s>> \in completed
    BY <2>2
  <2> QED
    BY <2>1, <2>3 DEF Completions, TunnelsTypeOK
<1>25. ASSUME NEW r \in Runs, TransportEnds(r) PROVE Completions'
  BY <1>1, <1>25 DEF TransportEnds, exitVars, registryVars, sessionVars
<1>26. ASSUME NEW r \in Runs, HandlerDropped(r) PROVE Completions'
  BY <1>1, <1>26 DEF HandlerDropped, exitVars, registryVars, sessionVars
<1>27. ASSUME NEW c \in Conns, Arrive(c) PROVE Completions'
  BY <1>1, <1>27 DEF Arrive, exitVars, registryVars, sessionVars
<1>28. ASSUME NEW c \in Conns, TakePermits(c) PROVE Completions'
  BY <1>1, <1>28 DEF TakePermits, exitVars, registryVars, sessionVars
<1>29. ASSUME NEW c \in Conns, Recheck(c) PROVE Completions'
  BY <1>1, <1>29 DEF Recheck, exitVars, registryVars, sessionVars
<1>30. ASSUME NEW c \in Conns, EndLease(c) PROVE Completions'
  BY <1>1, <1>30 DEF EndLease, exitVars, registryVars, sessionVars
<1>31. ASSUME NEW c \in Conns, FailTunnel(c) PROVE Completions'
  BY <1>1, <1>31 DEF FailTunnel, exitVars, registryVars, sessionVars
<1>32. ASSUME NEW i \in Ids, Stop(i) PROVE Completions'
  BY <1>1, <1>32 DEF Stop, exitVars, registryVars, sessionVars
<1>33. ASSUME SealRegistry PROVE Completions'
  BY <1>1, <1>33 DEF SealRegistry, exitVars, registryVars, sessionVars
<1>34. ASSUME StopRows PROVE Completions'
  BY <1>1, <1>34 DEF StopRows, exitVars, registryVars, sessionVars
<1>35. ASSUME RestoreBegins PROVE Completions'
  BY <1>1, <1>35 DEF RestoreBegins, exitVars, registryVars, sessionVars
<1>36. ASSUME RestoreEnds PROVE Completions'
  BY <1>1, <1>36 DEF RestoreEnds, exitVars, registryVars, sessionVars
<1>37. CASE UNCHANGED tunnelVars
  BY <1>1, <1>37 DEF exitVars, registryVars, sessionVars, tunnelVars
<1> QED
  BY <1>1, <1>2, <1>3, <1>4, <1>5, <1>6, <1>7, <1>8, <1>9, <1>10, <1>11, <1>12,
     <1>13, <1>14, <1>15, <1>16, <1>17, <1>18, <1>19, <1>20, <1>21, <1>22, <1>23,
     <1>24, <1>25, <1>26, <1>27, <1>28, <1>29, <1>30, <1>31, <1>32, <1>33, <1>34,
     <1>35, <1>36, <1>37
   DEF TunnelsNext, Advance, Elsewhere, Connection

(***************************************************************************)
(* Theorems.                                                               *)
(***************************************************************************)
LEMMA IInvInvariant == TunnelsSpec => []IInv
<1>1. TunnelsInit => IInv
  BY TypeInit, ListingInit, TransportsInit, StopsInit DEF IInv
<1>2. IInv /\ [TunnelsNext]_tunnelVars => IInv'
  BY TypeStep, ListingStep, ListenersStep, TransportsStep, PermitsStep, ConnectionsStep,
     StopsStep, RestoresStep, CompletionsStep DEF IInv
<1> QED
  BY <1>1, <1>2, PTL DEF TunnelsSpec

\* Every variable of Tunnels keeps its type.
THEOREM TunnelsTypeCorrect == TunnelsSpec => []TunnelsTypeOK
<1>1. IInv => TunnelsTypeOK
  BY DEF IInv
<1> QED
  BY <1>1, IInvInvariant, PTL

LEMMA Idle ==
    ASSUME IInv, NEW r \in Runs, phase[r] \in {"idle", "reading", "over"}
    PROVE  r \notin listeners /\ ~Connected(r)
<1>1. r \notin listeners
  BY DEF IInv, Listeners
<1>2. transport[r] \notin {"alive", "closing"}
  BY DEF IInv, Transports
<1>3. \A c \in Of(r) : ~Leased(c)
  BY DEF IInv, Connections, Leased, Of
<1> QED
  BY <1>1, <1>2, <1>3 DEF Connected

\* Whoever was told that a run stopped can start the tunnel again: its listener is
\* closed, its session is cleaned up, its connections are gone, its place is free or
\* about to be (cancel_start and finish publish the completion last).
THEOREM StopCorrect == TunnelsSpec => []StopIsBoundary
<1>1. IInv => StopIsBoundary
  <2> SUFFICES ASSUME IInv, NEW r \in Runs, NEW s \in Owned, <<r, s>> \in completed
               PROVE  /\ r \notin listeners
                      /\ ~Connected(r)
                      /\ permit[r] = "session" => transport[r] = "marked"
                      /\ permit[r] # "reservation"
    BY DEF StopIsBoundary
  <2>1. phase[r] = "over"
    BY DEF IInv, Completions
  <2> QED
    BY <2>1, Idle DEF IInv, Permits
<1> QED
  BY <1>1, IInvInvariant, PTL

\* A run that owns a listener, a session or a connection is the one its tunnel is
\* listed with, and no restore replaces the stores it was started from.
THEOREM OwnerCorrect == TunnelsSpec => []OneOwner
<1>1. IInv => OneOwner
  <2> SUFFICES ASSUME IInv, NEW r \in Runs, InUse(r) PROVE Listed(r) /\ ~restoring
    BY DEF OneOwner
  <2>1. UnderWay(r)
    BY Idle DEF InUse, UnderWay
  <2> QED
    BY <2>1 DEF IInv, Listing, Placed, Listed, Restores, UnderWay
<1> QED
  BY <1>1, IInvInvariant, PTL

\* No session or connection runs without the admission of its run, and a run that is
\* over keeps one only for a keyring call or a handler that has not ended yet.
THEOREM SlotsCorrect == TunnelsSpec => []SlotsCovered
<1>1. IInv => SlotsCovered
  <2> SUFFICES ASSUME IInv, NEW r \in Runs
               PROVE  /\ Connected(r) => permit[r] = "session"
                      /\ phase[r] = "over" =>
                             permit[r] \in {"none", "job"} \/ transport[r] = "marked"
    BY DEF SlotsCovered
  <2>1. ASSUME transport[r] \in {"alive", "closing"} PROVE permit[r] = "session"
    BY <2>1 DEF IInv, TunnelsTypeOK, Phases, Transports, Permits
  <2>2. ASSUME NEW c \in Of(r), Leased(c) PROVE permit[r] = "session"
    BY <2>2 DEF IInv, Connections, Permits, Leased, Of
  <2> QED
    BY <2>1, <2>2 DEF Connected, IInv, Permits
<1> QED
  BY <1>1, IInvInvariant, PTL

\* stop_all leaves no run behind that was not told to stop: a reservation after the
\* seal is refused, and one before it is listed when the rows are stopped.
THEOREM SealCorrect == TunnelsSpec => []SealedStops
<1>1. IInv => SealedStops
  BY DEF IInv, Stops
<1> QED
  BY <1>1, IInvInvariant, PTL

(***************************************************************************)
(* What a stop and an end settle.                                          *)
(***************************************************************************)

\* A run that is over gains nothing: it only loses what a keyring call or a transport
\* handler still held for it.
Finished(r) ==
    /\ phase'[r] = "over"
    /\ r \in listeners' => r \in listeners
    /\ permit'[r] \in {permit[r], "none"}
    /\ transport[r] \in {"none", "gone"} => transport'[r] = transport[r]
    /\ \A c \in Conns : runOf[c] = r /\ conn[c] \in {"none", "gone"} => conn'[c] = conn[c]

\* A stop is never taken back, nor is the answer to one.  A run that was told to stop is not
\* published and opens no connection any more.
StopSticks ==
    /\ stop \subseteq stop' /\ asked \subseteq asked' /\ completed \subseteq completed'
    /\ \A r \in stop : phase'[r] = "serving" => phase[r] = "serving"
    /\ \A c \in Conns : runOf[c] \in stop =>
           /\ conn[c] = "none" => conn'[c] = "none"
           /\ conn'[c] = "open" => conn[c] = "open"
    /\ \A r \in Runs : phase[r] = "over" => Finished(r)

LEMMA StopSticksStep == TunnelsTypeOK /\ [TunnelsNext]_tunnelVars => StopSticks
<1> SUFFICES ASSUME TunnelsTypeOK, [TunnelsNext]_tunnelVars PROVE StopSticks
  OBVIOUS
<1>1. ASSUME NEW r \in Runs, Prepare(r) PROVE StopSticks
  BY <1>1, TunnelConstants
   DEF Finished, Goto, Prepare, StopSticks, TunnelsTypeOK, exitVars, registryVars,
       sessionVars
<1>2. ASSUME NEW r \in Runs, Refuse(r) PROVE StopSticks
  BY <1>2, TunnelConstants
   DEF Finished, Goto, Refuse, StopSticks, TunnelsTypeOK, exitVars, registryVars,
       sessionVars
<1>3. ASSUME NEW r \in Runs, ReserveStart(r) PROVE StopSticks
  BY <1>3, TunnelConstants
   DEF Finished, Goto, Permit, ReserveStart, StopSticks, TunnelsTypeOK, exitVars,
       registryVars, sessionVars
<1>4. ASSUME NEW r \in Runs, CredentialLoaded(r) PROVE StopSticks
  BY <1>4, TunnelConstants
   DEF CredentialLoaded, Finished, Goto, Permit, StopSticks, TunnelsTypeOK,
       exitVars, registryVars, sessionVars
<1>5. ASSUME NEW r \in Runs, CredentialFails(r) PROVE StopSticks
  BY <1>5, TunnelConstants
   DEF CredentialFails, Finished, Goto, Permit, StopSticks, TunnelsTypeOK, exitVars,
       registryVars, sessionVars
<1>6. ASSUME NEW r \in Runs, CredentialCancelled(r) PROVE StopSticks
  BY <1>6, TunnelConstants
   DEF CredentialCancelled, Finished, Goto, StopSticks, TunnelsTypeOK, exitVars,
       registryVars, sessionVars
<1>7. ASSUME NEW r \in Runs, JobReturns(r) PROVE StopSticks
  BY <1>7, TunnelConstants
   DEF Finished, JobReturns, Permit, StopSticks, TunnelsTypeOK, exitVars, registryVars,
       sessionVars
<1>8. ASSUME NEW r \in Runs, Bind(r) PROVE StopSticks
  BY <1>8, TunnelConstants
   DEF Bind, Finished, Goto, Permit, StopSticks, TunnelsTypeOK, exitVars,
       registryVars, sessionVars
<1>9. ASSUME NEW r \in Runs, Connect(r) PROVE StopSticks
  BY <1>9, TunnelConstants
   DEF Connect, Finished, Goto, StopSticks, TunnelsTypeOK, exitVars, registryVars,
       sessionVars
<1>10. ASSUME NEW r \in Runs, Handshake(r) PROVE StopSticks
  BY <1>10, TunnelConstants
   DEF Finished, Goto, Handshake, StopSticks, TunnelsTypeOK, exitVars, registryVars,
       sessionVars
<1>11. ASSUME NEW r \in Runs, StageFails(r) PROVE StopSticks
  BY <1>11, TunnelConstants
   DEF Finished, Goto, StageFails, StopSticks, TunnelsTypeOK, exitVars,
       registryVars, sessionVars
<1>12. ASSUME NEW r \in Runs, HandshakeFails(r) PROVE StopSticks
  BY <1>12, TunnelConstants
   DEF Finished, Goto, HandshakeFails, Shut, StopSticks, TunnelsTypeOK, exitVars,
       registryVars, sessionVars
<1>13. ASSUME NEW r \in Runs, HandshakeReaped(r) PROVE StopSticks
  BY <1>13, TunnelConstants
   DEF Finished, Goto, HandshakeReaped, StopSticks, TunnelsTypeOK, exitVars,
       registryVars, sessionVars
<1>14. ASSUME NEW r \in Runs, SetupFails(r) PROVE StopSticks
  BY <1>14, TunnelConstants
   DEF Finished, Goto, SetupFails, StopSticks, TunnelsTypeOK, exitVars,
       registryVars, sessionVars
<1>15. ASSUME NEW r \in Runs, CommitStart(r) PROVE StopSticks
  BY <1>15, TunnelConstants
   DEF CommitStart, Finished, Goto, StopSticks, TunnelsTypeOK, exitVars,
       registryVars, sessionVars
<1>16. ASSUME NEW r \in Runs, DropLocals(r) PROVE StopSticks
  BY <1>16, TunnelConstants
   DEF DropLocals, Finished, Goto, Permit, StopSticks, TunnelsTypeOK, exitVars,
       registryVars, sessionVars
<1>17. ASSUME NEW r \in Runs, CancelStart(r) PROVE StopSticks
  BY <1>17, TunnelConstants
   DEF CancelStart, Finished, Goto, StopSticks, TunnelsTypeOK, exitVars,
       registryVars, sessionVars
<1>18. ASSUME NEW r \in Runs, ServeEnds(r) PROVE StopSticks
  BY <1>18, TunnelConstants
   DEF Finished, Goto, ServeEnds, StopSticks, TunnelsTypeOK, exitVars, registryVars,
       sessionVars
<1>19. ASSUME NEW r \in Runs, ListenerFails(r) PROVE StopSticks
  BY <1>19, TunnelConstants
   DEF Finished, Goto, ListenerFails, StopSticks, TunnelsTypeOK, exitVars,
       registryVars, sessionVars
<1>20. ASSUME NEW r \in Runs, Seal(r) PROVE StopSticks
  BY <1>20, TunnelConstants
   DEF Finished, Goto, Seal, StopSticks, TunnelsTypeOK, exitVars, registryVars,
       sessionVars
<1>21. ASSUME NEW r \in Runs, Drained(r) PROVE StopSticks
  BY <1>21, TunnelConstants
   DEF Drained, Finished, Goto, Shut, StopSticks, TunnelsTypeOK, exitVars,
       registryVars, sessionVars
<1>22. ASSUME NEW r \in Runs, Reaped(r) PROVE StopSticks
  BY <1>22, TunnelConstants
   DEF Finished, Goto, Permit, Reaped, StopSticks, TunnelsTypeOK, exitVars,
       registryVars, sessionVars
<1>23. ASSUME NEW r \in Runs, Finish(r) PROVE StopSticks
  BY <1>23, TunnelConstants
   DEF Finish, Finished, Goto, StopSticks, TunnelsTypeOK, exitVars, registryVars,
       sessionVars
<1>24. ASSUME NEW r \in Runs, TransportEnds(r) PROVE StopSticks
  BY <1>24, TunnelConstants
   DEF Finished, StopSticks, TransportEnds, TunnelsTypeOK, exitVars, registryVars,
       sessionVars
<1>25. ASSUME NEW r \in Runs, HandlerDropped(r) PROVE StopSticks
  BY <1>25, TunnelConstants
   DEF Finished, HandlerDropped, Permit, StopSticks, TunnelsTypeOK, exitVars,
       registryVars, sessionVars
<1>26. ASSUME NEW c \in Conns, Arrive(c) PROVE StopSticks
  BY <1>26, TunnelConstants
   DEF Arrive, Finished, StopSticks, TunnelsTypeOK, exitVars, registryVars,
       sessionVars
<1>27. ASSUME NEW c \in Conns, TakePermits(c) PROVE StopSticks
  BY <1>27, TunnelConstants
   DEF Finished, StopSticks, TakePermits, TunnelsTypeOK, exitVars, registryVars,
       sessionVars
<1>28. ASSUME NEW c \in Conns, Recheck(c) PROVE StopSticks
  BY <1>28, TunnelConstants
   DEF Finished, Recheck, StopSticks, TunnelsTypeOK, exitVars, registryVars,
       sessionVars
<1>29. ASSUME NEW c \in Conns, EndLease(c) PROVE StopSticks
  BY <1>29, TunnelConstants
   DEF EndLease, Finished, StopSticks, TunnelsTypeOK, exitVars, registryVars,
       sessionVars
<1>30. ASSUME NEW c \in Conns, FailTunnel(c) PROVE StopSticks
  BY <1>30, TunnelConstants
   DEF FailTunnel, Finished, StopSticks, TunnelsTypeOK, exitVars, registryVars,
       sessionVars
<1>31. ASSUME NEW i \in Ids, Stop(i) PROVE StopSticks
  BY <1>31, TunnelConstants
   DEF Finished, Stop, StopSticks, TunnelsTypeOK, exitVars, registryVars,
       sessionVars
<1>32. ASSUME SealRegistry PROVE StopSticks
  BY <1>32, TunnelConstants
   DEF Finished, SealRegistry, StopSticks, TunnelsTypeOK, exitVars, registryVars,
       sessionVars
<1>33. ASSUME StopRows PROVE StopSticks
  BY <1>33, TunnelConstants
   DEF Finished, StopRows, StopSticks, TunnelsTypeOK, exitVars, registryVars,
       sessionVars
<1>34. ASSUME RestoreBegins PROVE StopSticks
  BY <1>34, TunnelConstants
   DEF Finished, RestoreBegins, StopSticks, TunnelsTypeOK, exitVars, registryVars,
       sessionVars
<1>35. ASSUME RestoreEnds PROVE StopSticks
  BY <1>35, TunnelConstants
   DEF Finished, RestoreEnds, StopSticks, TunnelsTypeOK, exitVars, registryVars,
       sessionVars
<1>36. CASE UNCHANGED tunnelVars
  BY <1>36, TunnelConstants
   DEF Finished, StopSticks, TunnelsTypeOK, exitVars, registryVars, sessionVars,
       tunnelVars
<1> QED
  BY <1>1, <1>2, <1>3, <1>4, <1>5, <1>6, <1>7, <1>8, <1>9, <1>10, <1>11,
     <1>12, <1>13, <1>14, <1>15, <1>16, <1>17, <1>18, <1>19, <1>20, <1>21, <1>22,
     <1>23, <1>24, <1>25, <1>26, <1>27, <1>28, <1>29, <1>30, <1>31, <1>32, <1>33,
     <1>34, <1>35, <1>36
   DEF TunnelsNext, Advance, Elsewhere, Connection

\* Whatever a stop meets, a reservation, a commit, a connection between its two looks at
\* the stop watch, an exit: it is sticky, and what is over stays over (tunnel.rs,
\* commit_start and try_open_connection).  Both sets of EveryStopAnswered only grow.
THEOREM StopFinal == TunnelsSpec => [][StopSticks]_tunnelVars
<1>1. IInv /\ [TunnelsNext]_tunnelVars => StopSticks
  BY StopSticksStep DEF IInv
<1> QED
  BY <1>1, IInvInvariant, PTL DEF TunnelsSpec

(***************************************************************************)
(* The promise of StopBoundary.                                            *)
(***************************************************************************)

\* Whoever is about to say that a run is over has told it to stop.
Settling == \A r \in Runs : phase[r] \in {"finishing", "cancelling"} => r \in stop

\* A connection that is not yet let in came to a run that was published.
Arrived == \A c \in Conns : conn[c] \in {"checked", "admitted"} => status[runOf[c]] = "active"

LeasesOf(r) == {c \in Of(r) : Leased(c)}
Leases      == {c \in Conns : Leased(c)}

Capped ==
    /\ \A r \in Runs : Cardinality(LeasesOf(r)) <= MaxConnectionsPerTunnel
    /\ Cardinality(Leases) <= MaxGlobalConnections

LEMMA SettlingStep == TunnelsTypeOK /\ Stops /\ Settling /\ [TunnelsNext]_tunnelVars => Settling'
<1> SUFFICES ASSUME TunnelsTypeOK, Stops, Settling, [TunnelsNext]_tunnelVars,
                    NEW r \in Runs, phase'[r] \in {"finishing", "cancelling"}
             PROVE  r \in stop'
  BY DEF Settling
<1>1. stop \subseteq stop'
  BY StopSticksStep DEF StopSticks
<1>2. CASE phase'[r] = phase[r]
  BY <1>1, <1>2 DEF Settling
<1>3. ASSUME NEW q \in Runs, Advance(q) PROVE r \in stop'
  <2>1. CASE DropLocals(q)
    BY <1>2, <2>1 DEF DropLocals, Goto, TunnelsTypeOK
  <2>2. CASE Reaped(q)
    BY <1>1, <1>2, <2>2 DEF Reaped, Goto, Stops, TunnelsTypeOK
  <2>3. CASE \/ Refuse(q) \/ ReserveStart(q) \/ CredentialCancelled(q)
             \/ Bind(q) \/ Connect(q) \/ Handshake(q) \/ StageFails(q)
    BY <1>2, <2>3
     DEF Refuse, ReserveStart, CredentialCancelled, Bind, Connect, Handshake, StageFails,
         Goto, TunnelsTypeOK
  <2>4. CASE \/ HandshakeFails(q) \/ HandshakeReaped(q) \/ SetupFails(q) \/ CommitStart(q)
             \/ CancelStart(q) \/ ServeEnds(q) \/ Seal(q) \/ Drained(q) \/ Finish(q)
    BY <1>2, <2>4
     DEF HandshakeFails, HandshakeReaped, SetupFails, CommitStart, CancelStart, ServeEnds,
         Seal, Drained, Finish, Goto, TunnelsTypeOK
  <2> QED
    BY <1>3, <2>1, <2>2, <2>3, <2>4 DEF Advance
<1>4. ASSUME NEW q \in Runs, Elsewhere(q) PROVE r \in stop'
  BY <1>2, <1>4
   DEF Elsewhere, Prepare, CredentialLoaded, CredentialFails, JobReturns, ListenerFails,
       TransportEnds, HandlerDropped, Goto, TunnelsTypeOK
<1>5. ASSUME NEW c \in Conns, Connection(c) PROVE r \in stop'
  BY <1>2, <1>5 DEF Connection, Arrive, TakePermits, Recheck, EndLease, FailTunnel
<1>6. ASSUME NEW i \in Ids, Stop(i) PROVE r \in stop'
  BY <1>2, <1>6 DEF Stop
<1>7. CASE SealRegistry \/ StopRows \/ RestoreBegins \/ RestoreEnds \/ UNCHANGED tunnelVars
  BY <1>2, <1>7 DEF SealRegistry, StopRows, RestoreBegins, RestoreEnds, tunnelVars
<1> QED
  BY <1>3, <1>4, <1>5, <1>6, <1>7 DEF TunnelsNext

\* Only a reservation, a commit, a failed start and a worker's end change a status.
LEMMA StatusMoves ==
    ASSUME [TunnelsNext]_tunnelVars
    PROVE  \/ UNCHANGED status
           \/ \E r \in Runs : ReserveStart(r) \/ CommitStart(r) \/ CancelStart(r) \/ Finish(r)
<1>1. ASSUME NEW r \in Runs, Advance(r)
      PROVE  UNCHANGED status \/ ReserveStart(r) \/ CommitStart(r) \/ CancelStart(r) \/ Finish(r)
  BY <1>1
   DEF Advance, Refuse, CredentialCancelled, Bind, Connect, Handshake, StageFails,
       HandshakeFails, HandshakeReaped, SetupFails, DropLocals, ServeEnds, Seal, Drained,
       Reaped, registryVars
<1>2. ASSUME NEW r \in Runs, Elsewhere(r) PROVE UNCHANGED status
  BY <1>2
   DEF Elsewhere, Prepare, CredentialLoaded, CredentialFails, JobReturns, ListenerFails,
       TransportEnds, HandlerDropped, registryVars
<1>3. ASSUME NEW c \in Conns, Connection(c) PROVE UNCHANGED status
  BY <1>3 DEF Connection, Arrive, TakePermits, Recheck, EndLease, FailTunnel, registryVars
<1>4. ASSUME NEW i \in Ids, Stop(i) PROVE UNCHANGED status
  BY <1>4 DEF Stop, registryVars
<1>5. CASE SealRegistry \/ StopRows \/ RestoreBegins \/ RestoreEnds \/ UNCHANGED tunnelVars
  BY <1>5 DEF SealRegistry, StopRows, RestoreBegins, RestoreEnds, tunnelVars, registryVars
<1> QED
  BY <1>1, <1>2, <1>3, <1>4, <1>5 DEF TunnelsNext

LEMMA ConnMoves ==
    ASSUME [TunnelsNext]_tunnelVars
    PROVE  UNCHANGED conn \/ \E c \in Conns : Connection(c)
<1>1. ASSUME NEW r \in Runs, Advance(r) PROVE UNCHANGED conn
  BY <1>1
   DEF Advance, Refuse, ReserveStart, CredentialCancelled, Bind, Connect, Handshake,
       StageFails, HandshakeFails, HandshakeReaped, SetupFails, CommitStart, DropLocals,
       CancelStart, ServeEnds, Seal, Drained, Reaped, Finish, sessionVars
<1>2. ASSUME NEW r \in Runs, Elsewhere(r) PROVE UNCHANGED conn
  BY <1>2
   DEF Elsewhere, Prepare, CredentialLoaded, CredentialFails, JobReturns, ListenerFails,
       TransportEnds, HandlerDropped, sessionVars
<1>3. ASSUME NEW i \in Ids, Stop(i) PROVE UNCHANGED conn
  BY <1>3 DEF Stop, sessionVars
<1>4. CASE SealRegistry \/ StopRows \/ RestoreBegins \/ RestoreEnds \/ UNCHANGED tunnelVars
  BY <1>4 DEF SealRegistry, StopRows, RestoreBegins, RestoreEnds, tunnelVars, sessionVars
<1> QED
  BY <1>1, <1>2, <1>3, <1>4 DEF TunnelsNext

LEMMA ArrivedStep ==
    TunnelsTypeOK /\ Listing /\ Connections /\ Arrived /\ [TunnelsNext]_tunnelVars => Arrived'
<1> SUFFICES ASSUME TunnelsTypeOK, Listing, Connections, Arrived, [TunnelsNext]_tunnelVars,
                    NEW c \in Conns, conn'[c] \in {"checked", "admitted"}
             PROVE  status'[runOf[c]] = "active"
  BY DEF Arrived
<1>1. runOf[c] \in Runs
  BY TunnelConstants
<1>2. ASSUME NEW d \in Conns, Connection(d) PROVE status'[runOf[c]] = "active"
  <2>1. UNCHANGED status
    BY <1>2 DEF Connection, Arrive, TakePermits, Recheck, EndLease, FailTunnel, registryVars
  <2>2. conn[c] \in {"checked", "admitted"} \/ (d = c /\ Arrive(c))
    <3>1. \E what : conn' = [conn EXCEPT ![d] = what]
      BY <1>2 DEF Connection, Arrive, TakePermits, Recheck, EndLease, FailTunnel
    <3>2. CASE d # c
      BY <3>1, <3>2 DEF TunnelsTypeOK
    <3>3. CASE d = c /\ (EndLease(c) \/ FailTunnel(c))
      <4>1. conn'[c] = "gone"
        BY <3>3 DEF EndLease, FailTunnel, TunnelsTypeOK
      <4> QED
        BY <4>1
    <3>4. CASE d = c /\ Arrive(c)
      BY <3>4
    <3>5. CASE TakePermits(c) \/ Recheck(c)
      BY <3>5 DEF TakePermits, Recheck
    <3> QED
      BY <1>2, <3>2, <3>3, <3>4, <3>5 DEF Connection
  <2> QED
    BY <1>1, <2>1, <2>2 DEF Arrived, Arrive, Listing, Placed
<1>3. ASSUME UNCHANGED conn, NEW r \in Runs,
             ReserveStart(r) \/ CommitStart(r) \/ CancelStart(r) \/ Finish(r)
      PROVE  status'[runOf[c]] = "active"
  <2>1. phase[runOf[c]] \in {"serving", "closing", "draining", "reaping"}
    BY <1>3 DEF Connections
  <2>2. status[runOf[c]] = "active"
    BY <1>3 DEF Arrived
  <2> QED
    BY <1>1, <1>3, <2>1, <2>2
     DEF ReserveStart, CommitStart, CancelStart, Finish, TunnelsTypeOK
<1>4. CASE UNCHANGED conn /\ UNCHANGED status
  BY <1>4 DEF Arrived
<1> QED
  BY <1>2, <1>3, <1>4, StatusMoves, ConnMoves

LEMMA FewerLeases ==
    ASSUME Capped, \A c \in Conns : Leased(c)' => Leased(c)
    PROVE  Capped'
<1>1. \A r \in Runs : LeasesOf(r)' \subseteq LeasesOf(r) /\ LeasesOf(r) \subseteq Conns
  BY DEF LeasesOf, Of
<1>2. Leases' \subseteq Leases /\ Leases \subseteq Conns
  BY DEF Leases
<1>3. IsFiniteSet(Leases) /\ \A r \in Runs : IsFiniteSet(LeasesOf(r))
  BY <1>1, <1>2, TunnelConstants, FS_Subset
<1>4. /\ Cardinality(Leases') <= Cardinality(Leases) /\ Cardinality(Leases) \in Nat
      /\ IsFiniteSet(Leases') /\ Cardinality(Leases') \in Nat
  BY <1>2, <1>3, FS_Subset, FS_CardinalityType
<1>5. ASSUME NEW r \in Runs
      PROVE  Cardinality(LeasesOf(r)') <= MaxConnectionsPerTunnel
  <2>1. /\ Cardinality(LeasesOf(r)') <= Cardinality(LeasesOf(r))
        /\ Cardinality(LeasesOf(r)) \in Nat /\ Cardinality(LeasesOf(r)') \in Nat
    BY <1>1, <1>3, FS_Subset, FS_CardinalityType
  <2> QED
    BY <2>1, TunnelConstants DEF Capped
<1> QED
  BY <1>4, <1>5, TunnelConstants DEF Capped

LEMMA CappedStep == TunnelsTypeOK /\ Capped /\ [TunnelsNext]_tunnelVars => Capped'
<1> SUFFICES ASSUME TunnelsTypeOK, Capped, [TunnelsNext]_tunnelVars PROVE Capped'
  OBVIOUS
<1>1. CASE UNCHANGED conn
  BY <1>1, FewerLeases DEF Leased
<1>2. ASSUME NEW c \in Conns, Arrive(c) \/ Recheck(c) \/ EndLease(c) \/ FailTunnel(c)
      PROVE  Capped'
  BY <1>2, FewerLeases DEF Arrive, Recheck, EndLease, FailTunnel, Leased, TunnelsTypeOK
<1>3. ASSUME NEW c \in Conns, TakePermits(c) PROVE Capped'
  <2>1. CASE conn'[c] # "admitted"
    BY <1>3, <2>1, FewerLeases DEF TakePermits, Leased, TunnelsTypeOK
  <2>2. CASE conn'[c] = "admitted"
    <3>1. /\ conn' = [conn EXCEPT ![c] = "admitted"] /\ ~Leased(c)
          /\ Cardinality(LeasesOf(runOf[c])) < MaxConnectionsPerTunnel
          /\ Cardinality(Leases) < MaxGlobalConnections
      BY <1>3, <2>2 DEF TakePermits, Leased, LeasesOf, Leases, TunnelsTypeOK
    <3>2. Leases' = Leases \cup {c} /\ c \notin Leases /\ IsFiniteSet(Leases)
      <4>1. Leases \subseteq Conns
        BY DEF Leases
      <4> QED
        BY <3>1, <4>1, TunnelConstants, FS_Subset DEF Leases, Leased, TunnelsTypeOK
    <3>3. Cardinality(Leases') <= MaxGlobalConnections
      <4>1. Cardinality(Leases') = Cardinality(Leases) + 1 /\ Cardinality(Leases) \in Nat
        BY <3>2, FS_AddElement, FS_CardinalityType
      <4> QED
        BY <3>1, <4>1, TunnelConstants
    <3>4. ASSUME NEW r \in Runs PROVE Cardinality(LeasesOf(r)') <= MaxConnectionsPerTunnel
      <4>1. IsFiniteSet(LeasesOf(r))
        <5>1. LeasesOf(r) \subseteq Conns
          BY DEF LeasesOf, Of
        <5> QED
          BY <5>1, TunnelConstants, FS_Subset
      <4>2. CASE r = runOf[c]
        <5>1. LeasesOf(r)' = LeasesOf(r) \cup {c} /\ c \notin LeasesOf(r)
          BY <3>1, <4>2 DEF LeasesOf, Of, Leased, TunnelsTypeOK
        <5>2. /\ Cardinality(LeasesOf(r)') = Cardinality(LeasesOf(r)) + 1
              /\ Cardinality(LeasesOf(r)) \in Nat
          BY <4>1, <5>1, FS_AddElement, FS_CardinalityType
        <5> QED
          BY <3>1, <4>2, <5>2, TunnelConstants
      <4>3. CASE r # runOf[c]
        <5>1. LeasesOf(r)' = LeasesOf(r)
          BY <3>1, <4>3 DEF LeasesOf, Of, Leased, TunnelsTypeOK
        <5> QED
          BY <5>1 DEF Capped
      <4> QED
        BY <4>2, <4>3
    <3> QED
      BY <3>3, <3>4 DEF Capped
  <2> QED
    BY <2>1, <2>2
<1> QED
  BY <1>1, <1>2, <1>3, ConnMoves DEF Connection

\* What StopBoundary sees of a run.
LEMMA LifeIs ==
    ASSUME TunnelsTypeOK, Completions, Listing, NEW r \in Runs
    PROVE  /\ Life[r] = LifeOf(r)
           /\ status[r] \in Owned <=> r \in Boundary!Live
           /\ status[r] = "starting" => Life[r] = "starting"
           /\ status[r] = "active" => Life[r] = "up"
           /\ phase[r] = "reading" => Life[r] = "idle"
<1>1. Life[r] = LifeOf(r)
  BY DEF Life
<1>2. LifeOf(r) \in {"starting", "up"} <=> status[r] \in Owned
  BY DEF LifeOf, Owned
<1>3. phase[r] = "reading" => LifeOf(r) = "idle"
  <2>1. phase[r] = "reading" => status[r] \notin Owned
    BY DEF Listing, Placed, UnderWay
  <2>2. phase[r] = "reading" => ~ \E s \in Owned : <<r, s>> \in completed
    BY DEF Completions
  <2> QED
    BY <2>1, <2>2 DEF LifeOf, Owned
<1> QED
  BY <1>1, <1>2, <1>3 DEF LifeOf, Boundary!Live

LEMMA Unseen ==
    ASSUME UNCHANGED <<status, completed, stop, sealed, restoring>>,
           Used' = Used, Links' = Links
    PROVE  UNCHANGED Boundary!vars
<1>1. Life' = Life
  BY DEF Life, LifeOf
<1> QED
  BY <1>1 DEF Boundary!vars

LEMMA SameLife ==
    ASSUME UNCHANGED <<status, completed>>
    PROVE  Life' = Life
BY DEF Life, LifeOf

\* One run changes its life.
LEMMA OneMoves ==
    ASSUME NEW r \in Runs, NEW from, NEW to, LifeOf(r) = from, LifeOf(r)' = to,
           \A q \in Runs \ {r} : LifeOf(q)' = LifeOf(q)
    PROVE  Boundary!Moves(r, from, to)
BY DEF Boundary!Moves, Life

\* A run leaves nothing when it is no longer under way.
LEMMA NothingLeft ==
    ASSUME IInv, NEW r \in Runs, phase[r] \in {"finishing", "cancelling"}
    PROVE  r \notin Used /\ \A c \in Links : runOf[c] # r
<1>1. r \notin listeners
  BY DEF IInv, Listeners
<1>2. transport[r] \notin {"alive", "closing"}
  BY DEF IInv, Transports
<1>3. \A c \in Links : runOf[c] # r
  BY DEF IInv, Connections, Links
<1> QED
  BY <1>1, <1>2, <1>3 DEF Used

\* A stop that closes what the run has at that moment, or finds nothing to close.
LEMMA ReleaseMaps ==
    ASSUME IInv, NEW r \in Runs, UNCHANGED <<status, completed, conn, sealed, restoring>>,
           Used' = Used \/ (Used' = Used \ {r} /\ r \in Used),
           stop' = stop \/ (stop' = stop \cup {r} /\ status[r] \in Owned)
    PROVE  [Boundary!Next]_(Boundary!vars)
<1>1. Life' = Life /\ Links' = Links
  BY SameLife DEF Links
<1>2. status[r] \in Owned => r \in Boundary!Live
  BY LifeIs DEF IInv
<1>3. CASE Used' = Used /\ stop' = stop
  BY <1>1, <1>3 DEF Boundary!vars
<1>4. CASE Used' = Used /\ stop' = stop \cup {r} /\ status[r] \in Owned
  <2>1. Boundary!Tell(r)
    BY <1>1, <1>2, <1>4 DEF Boundary!Tell, Boundary!Stops
  <2> QED
    BY <2>1 DEF Boundary!Next
<1>5. CASE Used' = Used \ {r} /\ r \in Used
  <2>1. Boundary!Stops({}) \/ Boundary!Stops({r})
    BY <1>2 DEF Boundary!Stops
  <2>2. Boundary!Release(r)
    BY <1>1, <1>5, <2>1 DEF Boundary!Release
  <2> QED
    BY <2>2 DEF Boundary!Next
<1> QED
  BY <1>3, <1>4, <1>5

\* A listener is bound, or a transport is started.
LEMMA AcquireMaps ==
    ASSUME IInv, NEW r \in Runs, UNCHANGED <<status, completed, conn, sealed, restoring, stop>>,
           Used' = Used \cup {r}, status[r] = "starting"
    PROVE  [Boundary!Next]_(Boundary!vars)
<1>1. Life' = Life /\ Links' = Links
  BY SameLife DEF Links
<1>2. CASE r \in Used
  <2>1. Used' = Used
    BY <1>2
  <2> QED
    BY <1>1, <2>1 DEF Boundary!vars
<1>3. CASE r \notin Used
  <2>1. Life[r] = "starting"
    BY LifeIs DEF IInv
  <2>2. Boundary!Acquire(r)
    BY <1>1, <1>3, <2>1 DEF Boundary!Acquire
  <2> QED
    BY <2>2 DEF Boundary!Next
<1> QED
  BY <1>2, <1>3

\* A completion is published: a failed start, or the end of a worker.
LEMMA EndMaps ==
    ASSUME IInv, Settling, NEW r \in Runs, phase[r] \in {"finishing", "cancelling"},
           status[r] \in Owned, NEW s \in Owned, completed' = completed \cup {<<r, s>>},
           NEW what \in {"none", "ended"}, status' = [status EXCEPT ![r] = what],
           UNCHANGED <<listeners, transport, conn, stop, sealed, restoring>>
    PROVE  Boundary!Next
<1>1. Used' = Used /\ Links' = Links
  BY DEF Used, Links
<1>2. \A q \in Runs \ {r} : LifeOf(q)' = LifeOf(q)
  <2> SUFFICES ASSUME NEW q \in Runs \ {r} PROVE LifeOf(q)' = LifeOf(q)
    OBVIOUS
  <2>1. status'[q] = status[q]
    BY DEF IInv, TunnelsTypeOK
  <2>2. \A w \in Owned : <<q, w>> \in completed' <=> <<q, w>> \in completed
    OBVIOUS
  <2> QED
    BY <2>1, <2>2 DEF LifeOf
<1>3. LifeOf(r)' = "over"
  <2>1. status'[r] = what
    BY DEF IInv, TunnelsTypeOK
  <2> QED
    BY <2>1 DEF LifeOf
<1>4. Boundary!Moves(r, "starting", "over") \/ Boundary!Moves(r, "up", "over")
  <2>1. LifeOf(r) = "starting" \/ LifeOf(r) = "up"
    BY DEF LifeOf, Owned
  <2> QED
    BY <1>2, <1>3, <2>1, OneMoves
<1>5. r \in stop \ Used /\ \A c \in Links : runOf[c] # r
  BY NothingLeft DEF Settling
<1>6. Boundary!End(r)
  BY <1>1, <1>4, <1>5 DEF Boundary!End
<1> QED
  BY <1>6 DEF Boundary!Next

LEMMA CloseMaps ==
    ASSUME IInv, NEW c \in Conns, conn[c] = "open", conn' = [conn EXCEPT ![c] = "gone"],
           stop' = stop \/ stop' = stop \cup {runOf[c]},
           UNCHANGED <<status, completed, listeners, transport, sealed, restoring>>
    PROVE  Boundary!Next
<1>1. Life' = Life /\ Used' = Used
  BY SameLife DEF Used
<1>2. c \in Links /\ Links' = Links \ {c}
  BY DEF Links, IInv, TunnelsTypeOK
<1>3. runOf[c] \in Boundary!Live
  <2>1. runOf[c] \in Runs /\ UnderWay(runOf[c])
    BY TunnelConstants DEF IInv, Connections, UnderWay
  <2> QED
    BY <2>1, LifeIs DEF IInv, Listing, Placed
<1>4. Boundary!Stops({}) \/ Boundary!Stops({runOf[c]})
  BY <1>3 DEF Boundary!Stops
<1>5. Boundary!Close(c)
  BY <1>1, <1>2, <1>4 DEF Boundary!Close
<1> QED
  BY <1>5 DEF Boundary!Next

\* The second look at the stop watch is what lets a connection in.
LEMMA OpenMaps ==
    ASSUME IInv, Arrived, Capped, NEW c \in Conns, Recheck(c)
    PROVE  [Boundary!Next]_(Boundary!vars)
<1> DEFINE r == runOf[c]
<1>1. /\ conn[c] = "admitted"
      /\ conn' = [conn EXCEPT ![c] = IF r \in stop THEN "gone" ELSE "open"]
      /\ UNCHANGED <<status, completed, listeners, transport, stop, sealed, restoring>>
  BY DEF Recheck, registryVars, exitVars
<1>2. r \in Runs
  BY TunnelConstants
<1>3. Life' = Life /\ Used' = Used
  BY <1>1, SameLife DEF Used
<1>4. CASE r \in stop
  <2>1. Links' = Links
    BY <1>1, <1>4 DEF Links, IInv, TunnelsTypeOK
  <2> QED
    BY <1>1, <1>3, <2>1 DEF Boundary!vars
<1>5. CASE r \notin stop
  <2>1. c \notin Links /\ Links' = Links \cup {c}
    BY <1>1, <1>5 DEF Links, IInv, TunnelsTypeOK
  <2>2. Life[r] = "up"
    BY <1>1, <1>2, LifeIs DEF IInv, Arrived
  <2>3. Cardinality(Links) < MaxGlobalConnections
    <3>1. IsFiniteSet(Leases) /\ Links \cup {c} \subseteq Leases
      <4>1. Leases \subseteq Conns
        BY DEF Leases
      <4> QED
        BY <1>1, <4>1, TunnelConstants, FS_Subset DEF Leases, Links, Leased
    <3>2. IsFiniteSet(Links) /\ Cardinality(Links \cup {c}) = Cardinality(Links) + 1
      BY <2>1, <3>1, FS_Subset, FS_AddElement
    <3>3. Cardinality(Links \cup {c}) <= Cardinality(Leases)
      BY <3>1, FS_Subset
    <3>4. Cardinality(Links) \in Nat /\ Cardinality(Leases) \in Nat
      BY <3>1, <3>2, FS_CardinalityType
    <3> QED
      BY <3>2, <3>3, <3>4, TunnelConstants DEF Capped
  <2>4. Cardinality({d \in Links : runOf[d] = r}) < MaxConnectionsPerTunnel
    <3> DEFINE here == {d \in Links : runOf[d] = r}
    <3>1. IsFiniteSet(LeasesOf(r)) /\ here \cup {c} \subseteq LeasesOf(r)
      <4>1. LeasesOf(r) \subseteq Conns
        BY DEF LeasesOf, Of
      <4> QED
        BY <1>1, <4>1, TunnelConstants, FS_Subset DEF LeasesOf, Of, Links, Leased
    <3>2. IsFiniteSet(here) /\ Cardinality(here \cup {c}) = Cardinality(here) + 1
      BY <2>1, <3>1, FS_Subset, FS_AddElement
    <3>3. Cardinality(here \cup {c}) <= Cardinality(LeasesOf(r))
      BY <3>1, FS_Subset
    <3>4. Cardinality(here) \in Nat /\ Cardinality(LeasesOf(r)) \in Nat
      BY <3>1, <3>2, FS_CardinalityType
    <3> QED
      BY <1>2, <3>2, <3>3, <3>4, TunnelConstants DEF Capped
  <2>5. /\ Cardinality(Links) = Boundary!Cardinality(Links)
        /\ Cardinality({d \in Links : runOf[d] = r})
           = Boundary!Cardinality({d \in Links : runOf[d] = r})
    BY DEF Cardinality, Boundary!Cardinality
  <2>6. Boundary!Open(c)
    BY <1>1, <1>3, <1>5, <2>1, <2>2, <2>3, <2>4, <2>5 DEF Boundary!Open
  <2> QED
    BY <2>6 DEF Boundary!Next
<1> QED
  BY <1>4, <1>5

LEMMA BeginMaps ==
    ASSUME IInv, NEW r \in Runs, ReserveStart(r)
    PROVE  Boundary!Next
<1>1. /\ phase[r] = "reading" /\ sealed = "no"
      /\ row[tunnel[r]] # NoRun => status[row[tunnel[r]]] \notin Owned
      /\ status' = [status EXCEPT ![r] = "starting"]
      /\ UNCHANGED <<completed, listeners, transport, conn, stop, sealed, restoring>>
  BY DEF ReserveStart, sessionVars, exitVars
<1>2. ~restoring
  BY <1>1 DEF IInv, Restores
<1>3. LifeOf(r) = "idle"
  BY <1>1, LifeIs DEF IInv
<1>4. LifeOf(r)' = "starting" /\ \A q \in Runs \ {r} : LifeOf(q)' = LifeOf(q)
  BY <1>1 DEF LifeOf, IInv, TunnelsTypeOK
<1>5. \A q \in Boundary!Live : tunnel[q] # tunnel[r]
  <2> SUFFICES ASSUME NEW q \in Boundary!Live, tunnel[q] = tunnel[r] PROVE FALSE
    OBVIOUS
  <2>1. q \in Runs /\ status[q] \in Owned
    BY LifeIs DEF IInv, Boundary!Live
  <2>2. row[tunnel[q]] = q
    BY <2>1 DEF IInv, Listing, Placed
  <2> QED
    BY <1>1, <2>1, <2>2, TunnelConstants
<1>6. Used' = Used /\ Links' = Links
  BY <1>1 DEF Used, Links
<1>7. Boundary!Begin(r)
  BY <1>1, <1>2, <1>3, <1>4, <1>5, <1>6, OneMoves DEF Boundary!Begin
<1> QED
  BY <1>7 DEF Boundary!Next

LEMMA PublishMaps ==
    ASSUME IInv, NEW r \in Runs, CommitStart(r)
    PROVE  [Boundary!Next]_(Boundary!vars)
<1>1. /\ phase[r] = "setup"
      /\ UNCHANGED <<completed, listeners, transport, conn, stop, sealed, restoring>>
  BY DEF CommitStart, sessionVars, exitVars
<1>2. Used' = Used /\ Links' = Links
  BY <1>1 DEF Used, Links
<1>3. CASE UNCHANGED status
  BY <1>1, <1>2, <1>3, Unseen
<1>4. CASE /\ sealed = "no" /\ status[r] = "starting" /\ r \notin stop
           /\ status' = [status EXCEPT ![r] = "active"]
  <2>1. LifeOf(r) = "starting"
    BY <1>4 DEF LifeOf
  <2>2. LifeOf(r)' = "up" /\ \A q \in Runs \ {r} : LifeOf(q)' = LifeOf(q)
    BY <1>1, <1>4 DEF LifeOf, IInv, TunnelsTypeOK
  <2>3. Boundary!Publish(r)
    BY <1>1, <1>2, <1>4, <2>1, <2>2, OneMoves DEF Boundary!Publish
  <2> QED
    BY <2>3 DEF Boundary!Next
<1> QED
  BY <1>3, <1>4 DEF CommitStart

\* Every step of the tunnels is one of StopBoundary, or changes nothing it sees.
LEMMA StepKeeps ==
    IInv /\ Settling /\ Arrived /\ Capped /\ [TunnelsNext]_tunnelVars
    => [Boundary!Next]_(Boundary!vars)
<1> SUFFICES ASSUME IInv, Settling, Arrived, Capped, [TunnelsNext]_tunnelVars
             PROVE  [Boundary!Next]_(Boundary!vars)
  OBVIOUS
<1>1. ASSUME NEW r \in Runs,
             \/ Prepare(r) \/ Refuse(r) \/ CredentialLoaded(r) \/ CredentialFails(r)
             \/ CredentialCancelled(r) \/ JobReturns(r) \/ Handshake(r) \/ StageFails(r)
             \/ HandshakeReaped(r) \/ SetupFails(r) \/ ServeEnds(r) \/ ListenerFails(r)
             \/ Reaped(r)
      PROVE  [Boundary!Next]_(Boundary!vars)
  <2>1. UNCHANGED <<registryVars, sessionVars, exitVars, stop>>
    BY <1>1
     DEF Prepare, Refuse, CredentialLoaded, CredentialFails, CredentialCancelled,
         JobReturns, Handshake, StageFails, HandshakeReaped, SetupFails, ServeEnds,
         ListenerFails, Reaped
  <2>2. Used' = Used /\ Links' = Links
    BY <2>1 DEF Used, Links, sessionVars
  <2> QED
    BY <2>1, <2>2, Unseen DEF registryVars, exitVars
<1>2. ASSUME NEW r \in Runs, ReserveStart(r) PROVE [Boundary!Next]_(Boundary!vars)
  BY <1>2, BeginMaps
<1>3. ASSUME NEW r \in Runs, Bind(r) PROVE [Boundary!Next]_(Boundary!vars)
  <2>1. /\ phase[r] = "binding" /\ listeners' = listeners \cup {r}
        /\ UNCHANGED <<status, completed, transport, conn, sealed, restoring, stop>>
    BY <1>3 DEF Bind, registryVars, exitVars
  <2>2. Used' = Used \cup {r}
    BY <2>1 DEF Used
  <2>3. status[r] = "starting"
    BY <2>1 DEF IInv, Listing, Placed, UnderWay, Owned
  <2> QED
    BY <2>1, <2>2, <2>3, AcquireMaps
<1>4. ASSUME NEW r \in Runs, Connect(r) PROVE [Boundary!Next]_(Boundary!vars)
  <2>1. /\ phase[r] = "connecting" /\ transport' = [transport EXCEPT ![r] = "alive"]
        /\ UNCHANGED <<status, completed, listeners, conn, sealed, restoring, stop>>
    BY <1>4 DEF Connect, registryVars, exitVars
  <2>2. Used' = Used \cup {r}
    BY <2>1 DEF Used, IInv, TunnelsTypeOK
  <2>3. status[r] = "starting"
    BY <2>1 DEF IInv, Listing, Placed, UnderWay, Owned
  <2> QED
    BY <2>1, <2>2, <2>3, AcquireMaps
<1>5. ASSUME NEW r \in Runs, HandshakeFails(r) \/ Drained(r)
      PROVE  [Boundary!Next]_(Boundary!vars)
  <2>1. UNCHANGED <<registryVars, listeners, conn, exitVars, stop>> /\ Shut(r)
    BY <1>5 DEF HandshakeFails, Drained
  <2>2. Used' = Used /\ Links' = Links
    BY <2>1 DEF Used, Links, Shut, IInv, TunnelsTypeOK
  <2> QED
    BY <2>1, <2>2, Unseen DEF registryVars, exitVars
<1>6. ASSUME NEW r \in Runs, CommitStart(r) PROVE [Boundary!Next]_(Boundary!vars)
  BY <1>6, PublishMaps
<1>7. ASSUME NEW r \in Runs, DropLocals(r) \/ Seal(r) PROVE [Boundary!Next]_(Boundary!vars)
  <2>1. /\ phase[r] \in {"dropping", "closing"} /\ stop' = stop \cup {r}
        /\ listeners' \in {listeners, listeners \ {r}}
        /\ UNCHANGED <<status, completed, transport, conn, sealed, restoring>>
    BY <1>7 DEF DropLocals, Seal, registryVars, exitVars
  <2>2. status[r] \in Owned
    BY <2>1 DEF IInv, Listing, Placed, UnderWay
  <2>3. Used' = Used \/ (Used' = Used \ {r} /\ r \in Used)
    BY <2>1 DEF Used
  <2> QED
    BY <2>1, <2>2, <2>3, ReleaseMaps
<1>8. ASSUME NEW r \in Runs, CancelStart(r) PROVE [Boundary!Next]_(Boundary!vars)
  <2>1. phase[r] = "cancelling" /\ row[tunnel[r]] = r /\ status[r] = "starting"
    BY <1>8 DEF CancelStart, IInv, Listing, Placed, UnderWay, Owned
  <2>2. /\ completed' = completed \cup {<<r, "starting">>}
        /\ status' = [status EXCEPT ![r] = "none"]
        /\ UNCHANGED <<listeners, transport, conn, stop, sealed, restoring>>
    BY <1>8, <2>1 DEF CancelStart, sessionVars, exitVars
  <2> QED
    BY <2>1, <2>2, EndMaps DEF Owned
<1>9. ASSUME NEW r \in Runs, Finish(r) PROVE [Boundary!Next]_(Boundary!vars)
  <2>1. phase[r] = "finishing" /\ row[tunnel[r]] = r /\ status[r] = "active"
    BY <1>9 DEF Finish, IInv, Listing, Placed, UnderWay
  <2>2. /\ completed' = completed \cup {<<r, "active">>}
        /\ status' = [status EXCEPT ![r] = "ended"]
        /\ UNCHANGED <<listeners, transport, conn, stop, sealed, restoring>>
    BY <1>9, <2>1 DEF Finish, sessionVars, exitVars
  <2> QED
    BY <2>1, <2>2, EndMaps DEF Owned
<1>10. ASSUME NEW r \in Runs, TransportEnds(r) \/ HandlerDropped(r)
       PROVE  [Boundary!Next]_(Boundary!vars)
  <2>1. \/ transport' = [transport EXCEPT ![r] = "marked"]
        \/ transport[r] = "marked" /\ transport' = [transport EXCEPT ![r] = "gone"]
    BY <1>10 DEF TransportEnds, HandlerDropped
  <2>2. UNCHANGED <<status, completed, listeners, conn, stop, sealed, restoring>>
    BY <1>10 DEF TransportEnds, HandlerDropped, registryVars, exitVars
  <2>3. Used' = Used \/ (Used' = Used \ {r} /\ r \in Used)
    BY <2>1, <2>2 DEF Used, IInv, TunnelsTypeOK
  <2> QED
    BY <2>2, <2>3, ReleaseMaps
<1>11. ASSUME NEW c \in Conns, Arrive(c) \/ TakePermits(c)
       PROVE  [Boundary!Next]_(Boundary!vars)
  <2>1. UNCHANGED <<status, completed, listeners, transport, stop, sealed, restoring>>
    BY <1>11 DEF Arrive, TakePermits, registryVars, exitVars
  <2>2. \E what \in {"checked", "admitted", "gone"} : conn' = [conn EXCEPT ![c] = what]
    BY <1>11 DEF Arrive, TakePermits
  <2>3. conn[c] # "open"
    BY <1>11 DEF Arrive, TakePermits
  <2>4. Used' = Used /\ Links' = Links
    BY <2>1, <2>2, <2>3 DEF Used, Links, IInv, TunnelsTypeOK
  <2> QED
    BY <2>1, <2>4, Unseen
<1>12. ASSUME NEW c \in Conns, Recheck(c) PROVE [Boundary!Next]_(Boundary!vars)
  BY <1>12, OpenMaps
<1>13. ASSUME NEW c \in Conns, EndLease(c) \/ FailTunnel(c)
       PROVE  [Boundary!Next]_(Boundary!vars)
  <2>1. /\ conn[c] = "open" /\ conn' = [conn EXCEPT ![c] = "gone"]
        /\ stop' = stop \/ stop' = stop \cup {runOf[c]}
        /\ UNCHANGED <<status, completed, listeners, transport, sealed, restoring>>
    BY <1>13 DEF EndLease, FailTunnel, registryVars, exitVars
  <2> QED
    BY <2>1, CloseMaps
<1>14. ASSUME NEW i \in Ids, Stop(i) PROVE [Boundary!Next]_(Boundary!vars)
  <2>1. /\ row[i] \in Runs /\ status[row[i]] \in Owned /\ stop' = stop \cup {row[i]}
        /\ UNCHANGED <<registryVars, sessionVars, exitVars>>
    BY <1>14 DEF Stop, IInv, TunnelsTypeOK
  <2>2. Used' = Used
    BY <2>1 DEF Used, sessionVars
  <2> QED
    BY <2>1, <2>2, ReleaseMaps DEF registryVars, sessionVars, exitVars
<1>15. CASE SealRegistry
  <2>1. /\ sealed = "no" /\ sealed' = "sealed"
        /\ UNCHANGED <<status, completed, listeners, transport, conn, stop, restoring>>
    BY <1>15 DEF SealRegistry, registryVars, sessionVars
  <2>2. Life' = Life /\ Used' = Used /\ Links' = Links
    BY <2>1, SameLife DEF Used, Links
  <2> QED
    BY <2>1, <2>2 DEF Boundary!SealExit, Boundary!Next
<1>16. CASE StopRows
  <2>1. /\ sealed = "sealed" /\ sealed' = "stopped"
        /\ stop' = stop \cup {r \in Runs : Listed(r)}
        /\ UNCHANGED <<status, completed, listeners, transport, conn, restoring>>
    BY <1>16 DEF StopRows, registryVars, sessionVars
  <2>2. Life' = Life /\ Used' = Used /\ Links' = Links
    BY <2>1, SameLife DEF Used, Links
  <2>3. {r \in Runs : Listed(r)} = Boundary!Live
    <3>1. \A r \in Runs : Listed(r) <=> r \in Boundary!Live
      BY LifeIs DEF IInv, Listing, Placed, Listed
    <3> QED
      BY <3>1 DEF Boundary!Live
  <2>4. Boundary!StopAll
    BY <2>1, <2>2, <2>3 DEF Boundary!StopAll, Boundary!Stops
  <2> QED
    BY <2>4 DEF Boundary!Next
<1>17. CASE RestoreBegins \/ RestoreEnds
  <2>1. /\ restoring' = ~restoring
        /\ UNCHANGED <<status, completed, listeners, transport, conn, stop, sealed>>
    BY <1>17 DEF RestoreBegins, RestoreEnds, registryVars, sessionVars, IInv, TunnelsTypeOK
  <2>2. Life' = Life /\ Used' = Used /\ Links' = Links
    BY <2>1, SameLife DEF Used, Links
  <2>3. restoring' => Boundary!Live = {}
    <3> SUFFICES ASSUME restoring', NEW r \in Boundary!Live PROVE FALSE
      OBVIOUS
    <3>1. r \in Runs /\ Listed(r)
      BY LifeIs DEF IInv, Listing, Placed, Listed, Boundary!Live
    <3> QED
      BY <1>17, <2>1, <3>1 DEF RestoreBegins, RestoreEnds
  <2>4. Boundary!Restore
    BY <2>1, <2>2, <2>3 DEF Boundary!Restore
  <2> QED
    BY <2>4 DEF Boundary!Next
<1>18. CASE UNCHANGED tunnelVars
  <2>1. Used' = Used /\ Links' = Links
    BY <1>18 DEF Used, Links, tunnelVars, sessionVars
  <2> QED
    BY <1>18, <2>1, Unseen DEF tunnelVars, registryVars, exitVars
<1> QED
  BY <1>1, <1>2, <1>3, <1>4, <1>5, <1>6, <1>7, <1>8, <1>9, <1>10, <1>11, <1>12, <1>13,
     <1>14, <1>15, <1>16, <1>17, <1>18
   DEF TunnelsNext, Advance, Elsewhere, Connection

\* The tunnels implement StopBoundary: whatever start, commit, connection, exit and restore
\* do to each other (tunnel.rs, reserve_start, commit_start, try_open_connection and
\* stop_all), a run that was told to stop is not published and lets no connection in, it is
\* over only with nothing left, its tunnel runs again only then, and the limits of
\* connections hold.
THEOREM BoundaryKept == TunnelsSpec => StopsAsPromised
<1>1. TunnelsInit => Boundary!Init /\ Settling /\ Arrived /\ Capped
  <2> SUFFICES ASSUME TunnelsInit PROVE Boundary!Init /\ Settling /\ Arrived /\ Capped
    OBVIOUS
  <2>1. Settling /\ Arrived
    BY TunnelConstants DEF TunnelsInit, Settling, Arrived
  <2>2. Capped
    <3>1. Leases = {} /\ \A r \in Runs : LeasesOf(r) = {}
      BY DEF TunnelsInit, Leases, LeasesOf, Of, Leased
    <3> QED
      BY <3>1, FS_EmptySet, TunnelConstants DEF Capped
  <2>3. Life = [r \in Runs |-> "idle"] /\ Used = {} /\ Links = {}
    BY DEF TunnelsInit, Life, LifeOf, Used, Links
  <2> QED
    BY <2>1, <2>2, <2>3 DEF TunnelsInit, Boundary!Init
<1>2. IInv /\ Settling /\ Arrived /\ Capped /\ [TunnelsNext]_tunnelVars
      => Settling' /\ Arrived' /\ Capped' /\ [Boundary!Next]_(Boundary!vars)
  BY SettlingStep, ArrivedStep, CappedStep, StepKeeps DEF IInv
<1> QED
  BY <1>1, <1>2, IInvInvariant, PTL DEF TunnelsSpec, StopsAsPromised, Boundary!Spec

=============================================================================
