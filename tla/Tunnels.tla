------------------------------ MODULE Tunnels ------------------------------
(***************************************************************************)
(* The SSH tunnels of the desktop (src-tauri/src/tunnel.rs, with the       *)
(* commands tunnel_start and tunnel_stop, the exit of the application and  *)
(* the restore of a backup in lib.rs).                                     *)
(*                                                                         *)
(* A run is one start of a tunnel: a future that reserves the row of the   *)
(* tunnel, sets up a listener and an SSH session and publishes them, and   *)
(* then a worker that serves until it is told to stop.  The registry tells *)
(* runs of one tunnel apart by a generation; here a run is its generation. *)
(* Tauri never drops the future of a command that runs.                    *)
(***************************************************************************)
EXTENDS Naturals, FiniteSets

CONSTANTS
    Runs, Ids,
    tunnel,            \* the tunnel a run starts
    RemoteIds,         \* tunnels forwarded from the SSH host: no local listener
    Conns,
    runOf,             \* the run a connection arrives at
    MaxActiveTunnels, MaxConnectionsPerTunnel, MaxGlobalConnections,
    NoRun

ASSUME TunnelConstants ==
    /\ IsFiniteSet(Runs) /\ IsFiniteSet(Conns)
    /\ tunnel \in [Runs -> Ids]
    /\ RemoteIds \subseteq Ids
    /\ runOf \in [Conns -> Runs]
    /\ MaxActiveTunnels \in Nat
    /\ MaxConnectionsPerTunnel \in Nat /\ MaxGlobalConnections \in Nat
    /\ NoRun \notin Runs

VARIABLES
    row,         \* the run a tunnel is listed with
    previous,    \* the run whose entry a reservation keeps
    status,      \* of the entry of a run; Owned while it has its stop sender
    stop,        \* runs whose stop watch is set
    asked,       \* the completion channels a stop command waited for
    completed,   \* the completion channels that were set
    phase,       \* where the start future, then the worker of a run is
    permit,      \* who holds its tunnel admission
    listeners,   \* runs with a bound listener
    transport,   \* its SSH transport task
    conn,        \* where a connection is
    sealed,      \* how far stop_all got
    restoring    \* a backup restore replaces the stores

registryVars == <<row, previous, status, completed>>
sessionVars  == <<listeners, transport, conn>>
exitVars     == <<sealed, restoring>>
tunnelVars == <<registryVars, sessionVars, exitVars, stop, asked, phase, permit>>

Owned    == {"starting", "active"}
Phases   == {"idle", "reading", "credential", "binding", "connecting", "handshake",
             "unshaken", "setup", "serving", "closing", "draining", "reaping",
             "finishing", "dropping", "cancelling", "over"}
Channels == Runs \X Owned  \* a reservation and a published run have one each

Held      == {r \in Runs : permit[r] # "none"}
Of(r)     == {c \in Conns : runOf[c] = r}
Remote(r) == tunnel[r] \in RemoteIds
Listed(r) == row[tunnel[r]] = r /\ status[r] \in Owned

\* A connection between the two looks at the stop watch keeps the task busy that
\* admits it: the worker, or the transport of a remote tunnel.
Leased(c) == conn[c] \in {"admitted", "open"}
Busy(r)   == \E c \in Of(r) : conn[c] \in {"checked", "admitted"}

TunnelsTypeOK ==
    /\ row \in [Ids -> Runs \cup {NoRun}]
    /\ previous \in [Runs -> Runs \cup {NoRun}]
    /\ status \in [Runs -> Owned \cup {"none", "ended"}]
    /\ stop \subseteq Runs
    /\ asked \subseteq Channels
    /\ completed \subseteq Channels
    /\ phase \in [Runs -> Phases]
    /\ permit \in [Runs -> {"none", "job", "reservation", "session"}]
    /\ listeners \subseteq Runs
    /\ transport \in [Runs -> {"none", "alive", "closing", "marked", "gone"}]
    /\ conn \in [Conns -> {"none", "checked", "admitted", "open", "gone"}]
    /\ sealed \in {"no", "sealed", "stopped"}
    /\ restoring \in BOOLEAN

TunnelsInit ==
    /\ row = [i \in Ids |-> NoRun]
    /\ previous = [r \in Runs |-> NoRun]
    /\ status = [r \in Runs |-> "none"]
    /\ stop = {} /\ asked = {} /\ completed = {}
    /\ phase = [r \in Runs |-> "idle"]
    /\ permit = [r \in Runs |-> "none"]
    /\ listeners = {}
    /\ transport = [r \in Runs |-> "none"]
    /\ conn = [c \in Conns |-> "none"]
    /\ sealed = "no" /\ restoring = FALSE

Goto(r, p)   == phase' = [phase EXCEPT ![r] = p]
Permit(r, p) == permit' = [permit EXCEPT ![r] = p]

(***************************************************************************)
(* The start command.                                                      *)
(***************************************************************************)

\* lock_tunnel_start, then a snapshot of the profile and of the trusted key.
Prepare(r) ==
    /\ phase[r] = "idle"
    /\ ~restoring
    /\ Goto(r, "reading")
    /\ UNCHANGED <<registryVars, sessionVars, exitVars, stop, asked, permit>>

\* No such profile, an unknown host, or no reservation.
Refuse(r) ==
    /\ phase[r] = "reading"
    /\ Goto(r, "over")
    /\ UNCHANGED <<registryVars, sessionVars, exitVars, stop, asked, permit>>

\* Mutant of ReserveStart: the seal of the registry is not looked at.
ReserveUnsealed(r) ==
    /\ phase[r] = "reading"
    /\ row[tunnel[r]] # NoRun => status[row[tunnel[r]]] \notin Owned
    /\ Cardinality(Held) < MaxActiveTunnels
    /\ row' = [row EXCEPT ![tunnel[r]] = r]
    /\ previous' = [previous EXCEPT ![r] = row[tunnel[r]]]
    /\ status' = [status EXCEPT ![r] = "starting"]
    /\ Permit(r, "job")
    /\ Goto(r, "credential")
    /\ UNCHANGED <<completed, sessionVars, exitVars, stop, asked>>

\* reserve_start, then the admission goes with the credential job.
ReserveStart(r) ==
    /\ phase[r] = "reading"
    /\ sealed = "no"
    /\ row[tunnel[r]] # NoRun => status[row[tunnel[r]]] \notin Owned
    /\ Cardinality(Held) < MaxActiveTunnels
    /\ row' = [row EXCEPT ![tunnel[r]] = r]
    /\ previous' = [previous EXCEPT ![r] = row[tunnel[r]]]
    /\ status' = [status EXCEPT ![r] = "starting"]
    /\ Permit(r, "job")
    /\ Goto(r, "credential")
    /\ UNCHANGED <<completed, sessionVars, exitVars, stop, asked>>

\* The job returns the password and the admission: bind first, or connect.
CredentialLoaded(r) ==
    /\ phase[r] = "credential"
    /\ Permit(r, IF Remote(r) THEN "session" ELSE "reservation")
    /\ Goto(r, IF Remote(r) THEN "connecting" ELSE "binding")
    /\ UNCHANGED <<registryVars, sessionVars, exitVars, stop, asked>>

CredentialFails(r) ==
    /\ phase[r] = "credential"
    /\ Permit(r, "reservation")
    /\ Goto(r, "dropping")
    /\ UNCHANGED <<registryVars, sessionVars, exitVars, stop, asked>>

\* The job is detached and keeps the admission until the keyring answers.
CredentialCancelled(r) ==
    /\ phase[r] = "credential"
    /\ r \in stop
    /\ Goto(r, "dropping")
    /\ UNCHANGED <<registryVars, sessionVars, exitVars, stop, asked, permit>>

JobReturns(r) ==
    /\ permit[r] = "job" /\ phase[r] # "credential"
    /\ Permit(r, "none")
    /\ UNCHANGED <<registryVars, sessionVars, exitVars, stop, asked, phase>>

\* The listener is bound before any network work; the session takes the admission.
Bind(r) ==
    /\ phase[r] = "binding"
    /\ listeners' = listeners \cup {r}
    /\ Permit(r, "session")
    /\ Goto(r, "connecting")
    /\ UNCHANGED <<registryVars, transport, conn, exitVars, stop, asked>>

\* connect_stream starts the transport task before the handshake is over.
Connect(r) ==
    /\ phase[r] = "connecting"
    /\ transport' = [transport EXCEPT ![r] = "alive"]
    /\ Goto(r, "handshake")
    /\ UNCHANGED <<registryVars, listeners, conn, exitVars, stop, asked, permit>>

Handshake(r) ==
    /\ phase[r] = "handshake"
    /\ Goto(r, "setup")
    /\ UNCHANGED <<registryVars, sessionVars, exitVars, stop, asked, permit>>

\* run_start_stage before there is a transport: a stop, a timeout or an error.
StageFails(r) ==
    /\ phase[r] \in {"binding", "connecting"}
    /\ Goto(r, "dropping")
    /\ UNCHANGED <<registryVars, sessionVars, exitVars, stop, asked, permit>>

\* shutdown_now: the socket is shut, whatever the transport is busy with.
Shut(r) == transport' = IF transport[r] = "alive" THEN [transport EXCEPT ![r] = "closing"]
                                                  ELSE transport

HandshakeFails(r) ==
    /\ phase[r] = "handshake"
    /\ Shut(r)
    /\ Goto(r, "unshaken")
    /\ UNCHANGED <<registryVars, listeners, conn, exitVars, stop, asked, permit>>

\* Mutant of HandshakeReaped: the failure is reported without the cleanup signal.
HandshakeLeft(r) ==
    /\ phase[r] = "unshaken"
    /\ Goto(r, "dropping")
    /\ UNCHANGED <<registryVars, sessionVars, exitVars, stop, asked, permit>>

\* wait_for_session_cleanup; the handler may still be about to drop.
HandshakeReaped(r) ==
    /\ phase[r] = "unshaken"
    /\ transport[r] \in {"marked", "gone"}
    /\ Goto(r, "dropping")
    /\ UNCHANGED <<registryVars, sessionVars, exitVars, stop, asked, permit>>

\* Authentication or the remote forward fails, times out or is stopped.
SetupFails(r) ==
    /\ phase[r] = "setup"
    /\ Goto(r, "closing")
    /\ UNCHANGED <<registryVars, sessionVars, exitVars, stop, asked, permit>>

\* Mutant of CommitStart: a stop that was accepted in the meantime is overlooked.
CommitStopped(r) ==
    /\ phase[r] = "setup"
    /\ IF sealed = "no" /\ row[tunnel[r]] = r /\ status[r] = "starting"
       THEN /\ status' = [status EXCEPT ![r] = "active"]
            /\ previous' = [previous EXCEPT ![r] = NoRun]
            /\ Goto(r, "serving")
       ELSE /\ Goto(r, "closing")
            /\ UNCHANGED <<status, previous>>
    /\ UNCHANGED <<row, completed, sessionVars, exitVars, stop, asked, permit>>

\* commit_start: the published entry brings a completion channel of its own.
CommitStart(r) ==
    /\ phase[r] = "setup"
    /\ IF sealed = "no" /\ row[tunnel[r]] = r /\ status[r] = "starting" /\ r \notin stop
       THEN /\ status' = [status EXCEPT ![r] = "active"]
            /\ previous' = [previous EXCEPT ![r] = NoRun]
            /\ Goto(r, "serving")
       ELSE /\ Goto(r, "closing")
            /\ UNCHANGED <<status, previous>>
    /\ UNCHANGED <<row, completed, sessionVars, exitVars, stop, asked, permit>>

\* The locals of a failed start go first, the listener among them; then the
\* reservation makes the stop sticky and gives its admission back.
DropLocals(r) ==
    /\ phase[r] = "dropping"
    /\ listeners' = listeners \ {r}
    /\ stop' = stop \cup {r}
    /\ Permit(r, IF \/ permit[r] = "reservation"
                    \/ permit[r] = "session" /\ transport[r] \in {"none", "gone"}
                 THEN "none" ELSE permit[r])
    /\ Goto(r, "cancelling")
    /\ UNCHANGED <<registryVars, transport, conn, exitVars, asked>>

\* cancel_start: the completion is published, and the previous entry is back.
CancelStart(r) ==
    /\ phase[r] = "cancelling"
    /\ IF row[tunnel[r]] = r /\ status[r] = "starting"
       THEN /\ completed' = completed \cup {<<r, "starting">>}
            /\ row' = [row EXCEPT ![tunnel[r]] = previous[r]]
            /\ status' = [status EXCEPT ![r] = "none"]
       ELSE UNCHANGED <<completed, row, status>>
    /\ previous' = [previous EXCEPT ![r] = NoRun]
    /\ Goto(r, "over")
    /\ UNCHANGED <<sessionVars, exitVars, stop, asked, permit>>

(***************************************************************************)
(* The worker, and the shutdown of a session that was never published.     *)
(***************************************************************************)

\* A stop, or the health check finds the transport closed.
ServeEnds(r) ==
    /\ phase[r] = "serving" /\ (Remote(r) \/ ~Busy(r))
    /\ r \in stop \/ transport[r] # "alive"
    /\ Goto(r, "closing")
    /\ UNCHANGED <<registryVars, sessionVars, exitVars, stop, asked, permit>>

ListenerFails(r) ==
    /\ phase[r] = "serving" /\ r \in listeners /\ ~Busy(r)
    /\ Goto(r, "closing")
    /\ UNCHANGED <<registryVars, sessionVars, exitVars, stop, asked, permit>>

\* seal_connections; the worker drops its listener before it publishes anything.
Seal(r) ==
    /\ phase[r] = "closing"
    /\ stop' = stop \cup {r}
    /\ listeners' = IF status[r] = "active" THEN listeners \ {r} ELSE listeners
    /\ Goto(r, "draining")
    /\ UNCHANGED <<registryVars, transport, conn, exitVars, asked, permit>>

\* wait_for_connections took every permit of the run; then the session is
\* disconnected and its socket shut.
Drained(r) ==
    /\ phase[r] = "draining"
    /\ \A c \in Of(r) : ~Leased(c)
    /\ Shut(r)
    /\ Goto(r, "reaping")
    /\ UNCHANGED <<registryVars, listeners, conn, exitVars, stop, asked, permit>>

\* The transport task was joined: the admission is free before anybody is told.
Reaped(r) ==
    /\ phase[r] = "reaping"
    /\ transport[r] = "gone"
    /\ Permit(r, "none")
    /\ Goto(r, IF status[r] = "active" THEN "finishing" ELSE "dropping")
    /\ UNCHANGED <<registryVars, sessionVars, exitVars, stop, asked>>

\* finish: only the entry of this run is marked.
Finish(r) ==
    /\ phase[r] = "finishing"
    /\ IF row[tunnel[r]] = r
       THEN /\ status' = [status EXCEPT ![r] = "ended"]
            /\ completed' = completed \cup {<<r, "active">>}
       ELSE UNCHANGED <<status, completed>>
    /\ Goto(r, "over")
    /\ UNCHANGED <<row, previous, sessionVars, exitVars, stop, asked, permit>>

(***************************************************************************)
(* The transport task and the connections.                                 *)
(***************************************************************************)

\* The peer closes, or the socket was shut.
TransportEnds(r) ==
    /\ transport[r] \in {"alive", "closing"}
    /\ Remote(r) => ~Busy(r)
    /\ transport' = [transport EXCEPT ![r] = "marked"]
    /\ UNCHANGED <<registryVars, listeners, conn, exitVars, stop, asked, phase, permit>>

\* Mutant of HandlerDropped: the share of the admission is never given back.
HandlerLeaks(r) ==
    /\ transport[r] = "marked"
    /\ transport' = [transport EXCEPT ![r] = "gone"]
    /\ UNCHANGED <<registryVars, listeners, conn, exitVars, stop, asked, phase, permit>>

\* The handler goes, and with it its share of the admission.
HandlerDropped(r) ==
    /\ transport[r] = "marked"
    /\ transport' = [transport EXCEPT ![r] = "gone"]
    /\ Permit(r, IF permit[r] = "session" /\ phase[r] \in {"cancelling", "over"}
                 THEN "none" ELSE permit[r])
    /\ UNCHANGED <<registryVars, listeners, conn, exitVars, stop, asked, phase>>

\* try_open_connection: look at the stop watch, take both permits, look again.
Arrive(c) ==
    /\ conn[c] = "none"
    /\ phase[runOf[c]] = "serving" /\ transport[runOf[c]] = "alive"
    /\ ~Busy(runOf[c]) /\ runOf[c] \notin stop
    /\ conn' = [conn EXCEPT ![c] = "checked"]
    /\ UNCHANGED <<registryVars, listeners, transport, exitVars, stop, asked, phase, permit>>

TakePermits(c) ==
    /\ conn[c] = "checked"
    /\ conn' = [conn EXCEPT ![c] =
           IF /\ Cardinality({d \in Of(runOf[c]) : Leased(d)}) < MaxConnectionsPerTunnel
              /\ Cardinality({d \in Conns : Leased(d)}) < MaxGlobalConnections
              /\ phase[runOf[c]] # "draining"
           THEN "admitted" ELSE "gone"]
    /\ UNCHANGED <<registryVars, listeners, transport, exitVars, stop, asked, phase, permit>>

\* Mutant of Recheck: a stop between the first look and the permits is overlooked.
LetIn(c) ==
    /\ conn[c] = "admitted"
    /\ conn' = [conn EXCEPT ![c] = "open"]
    /\ UNCHANGED <<registryVars, listeners, transport, exitVars, stop, asked, phase, permit>>

Recheck(c) ==
    /\ conn[c] = "admitted"
    /\ conn' = [conn EXCEPT ![c] = IF runOf[c] \in stop THEN "gone" ELSE "open"]
    /\ UNCHANGED <<registryVars, listeners, transport, exitVars, stop, asked, phase, permit>>

\* The lease ends with its connection, or at once when the run is stopped.
EndLease(c) ==
    /\ conn[c] = "open"
    /\ conn' = [conn EXCEPT ![c] = "gone"]
    /\ UNCHANGED <<registryVars, listeners, transport, exitVars, stop, asked, phase, permit>>

\* close_channel_or_fail: a channel the host does not close takes the tunnel down.
FailTunnel(c) ==
    /\ conn[c] = "open"
    /\ stop' = stop \cup {runOf[c]}
    /\ conn' = [conn EXCEPT ![c] = "gone"]
    /\ UNCHANGED <<registryVars, listeners, transport, exitVars, asked, phase, permit>>

(***************************************************************************)
(* Stop, exit and restore.                                                 *)
(***************************************************************************)

\* stop subscribes to the completion of the entry under the lock, and waits.
Stop(i) ==
    /\ row[i] # NoRun /\ status[row[i]] \in Owned
    /\ stop' = stop \cup {row[i]}
    /\ asked' = asked \cup {<<row[i], status[row[i]]>>}
    /\ UNCHANGED <<registryVars, sessionVars, exitVars, phase, permit>>

\* stop_all stores shutting_down, then takes the lock to stop every row.
SealRegistry ==
    /\ sealed = "no"
    /\ sealed' = "sealed"
    /\ UNCHANGED <<registryVars, sessionVars, restoring, stop, asked, phase, permit>>

StopRows ==
    /\ sealed = "sealed"
    /\ sealed' = "stopped"
    /\ stop' = stop \cup {r \in Runs : Listed(r)}
    /\ UNCHANGED <<registryVars, sessionVars, restoring, asked, phase, permit>>

\* Mutant of RestoreBegins: the idle check is made without the barrier.
RestoreAnyway ==
    /\ ~restoring
    /\ \A r \in Runs : ~Listed(r)
    /\ restoring' = TRUE
    /\ UNCHANGED <<registryVars, sessionVars, sealed, stop, asked, phase, permit>>

\* The writer side of the barrier waits for every snapshot, then nothing may run.
RestoreBegins ==
    /\ ~restoring
    /\ \A r \in Runs : phase[r] # "reading"
    /\ \A r \in Runs : ~Listed(r)
    /\ restoring' = TRUE
    /\ UNCHANGED <<registryVars, sessionVars, sealed, stop, asked, phase, permit>>

RestoreEnds ==
    /\ restoring
    /\ restoring' = FALSE
    /\ UNCHANGED <<registryVars, sessionVars, sealed, stop, asked, phase, permit>>

\* What a run does within bounded time: every stage has a deadline.
Advance(r) ==
    \/ Refuse(r) \/ ReserveStart(r) \/ CredentialCancelled(r)
    \/ Bind(r) \/ Connect(r) \/ Handshake(r) \/ StageFails(r)
    \/ HandshakeFails(r) \/ HandshakeReaped(r) \/ SetupFails(r) \/ CommitStart(r)
    \/ DropLocals(r) \/ CancelStart(r)
    \/ ServeEnds(r) \/ Seal(r) \/ Drained(r) \/ Reaped(r) \/ Finish(r)

Elsewhere(r) ==
    \/ Prepare(r) \/ CredentialLoaded(r) \/ CredentialFails(r) \/ JobReturns(r)
    \/ ListenerFails(r) \/ TransportEnds(r) \/ HandlerDropped(r)

Connection(c) ==
    \/ Arrive(c) \/ TakePermits(c) \/ Recheck(c) \/ EndLease(c) \/ FailTunnel(c)

TunnelsNext ==
    \/ \E r \in Runs : Advance(r) \/ Elsewhere(r)
    \/ \E c \in Conns : Connection(c)
    \/ \E i \in Ids : Stop(i)
    \/ SealRegistry \/ StopRows \/ RestoreBegins \/ RestoreEnds

\* The deadlines of the stages, a transport whose socket was shut, and the biased
\* select of a lease.  Nothing is assumed of the keyring, the peers or the person.
TunnelsFairness ==
    /\ \A r \in Runs :
        /\ WF_tunnelVars(Advance(r))
        /\ WF_tunnelVars(transport[r] = "closing" /\ TransportEnds(r))
        /\ WF_tunnelVars(HandlerDropped(r))
    /\ \A c \in Conns :
        WF_tunnelVars(TakePermits(c) \/ Recheck(c) \/ (runOf[c] \in stop /\ EndLease(c)))

TunnelsSpec == TunnelsInit /\ [][TunnelsNext]_tunnelVars /\ TunnelsFairness

(***************************************************************************)
(* Properties.                                                             *)
(***************************************************************************)

\* A run that is under way, or still owns anything.
Connected(r) == transport[r] \in {"alive", "closing"} \/ \E c \in Of(r) : Leased(c)
InUse(r) ==
    Connected(r) \/ r \in listeners \/ phase[r] \notin {"idle", "reading", "over"}

\* A completion is a restart boundary: whoever was told that a run stopped finds
\* its listener closed, its session cleaned up and its connections gone, and its
\* place taken only by a keyring call or a handler about to drop.
StopIsBoundary ==
    \A r \in Runs : (\E s \in Owned : <<r, s>> \in completed) =>
        /\ r \notin listeners
        /\ ~Connected(r)
        /\ permit[r] = "session" => transport[r] = "marked"
        /\ permit[r] # "reservation"

\* A run that owns a listener, a session or a connection is the one its tunnel is
\* listed with, so there is one for each tunnel, and no restore replaces the stores
\* its credential and its trusted key came from.
OneOwner == \A r \in Runs : InUse(r) => Listed(r) /\ ~restoring

\* What is connected is counted, and what is over is counted only as long as a
\* keyring call or a transport handler has not ended.
SlotsCovered ==
    \A r \in Runs :
        /\ Connected(r) => permit[r] = "session"
        /\ phase[r] = "over" => permit[r] \in {"none", "job"} \/ transport[r] = "marked"

\* Once the exit of the application has been through the rows, no run is left that
\* was not told to stop, whatever was being started or published meanwhile.
SealedStops == sealed = "stopped" => \A r \in Runs : Listed(r) => r \in stop

\* Every stop is answered: the channel it waits for is never replaced under it.
\* (Both sets only grow.)
EveryStopAnswered == []<>(asked \subseteq completed)

(***************************************************************************)
(* The abstract specification.                                             *)
(***************************************************************************)

\* A run that was reserved lives until its completion is set.
LifeOf(r) ==
    IF status[r] = "starting"    THEN "starting"
    ELSE IF status[r] = "active" THEN "up"
    ELSE IF \E s \in Owned : <<r, s>> \in completed THEN "over" ELSE "idle"

Life  == [r \in Runs |-> LifeOf(r)]
Used  == {r \in Runs : r \in listeners \/ transport[r] \in {"alive", "closing"}}
Links == {c \in Conns : conn[c] = "open"}

Boundary == INSTANCE StopBoundary WITH
    life <- Life, used <- Used, links <- Links, exit <- sealed

\* The tunnels keep the promise of StopBoundary: every step of a start, a worker, a
\* transport or a connection, and every stop, exit and restore, is a step of it or
\* invisible to it.
StopsAsPromised == Boundary!Spec
=============================================================================
