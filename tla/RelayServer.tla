---------------------------- MODULE RelayServer ----------------------------
(***************************************************************************)
(* The rendezvous relay of crates/lattice-remote/src/relay_server.rs.      *)
(*                                                                         *)
(* A sharing host ("agent") keeps a control connection on which it         *)
(* registered its device.  A viewer dials that device on a connection of   *)
(* its own; the relay invites the agent over the control connection, the   *)
(* agent joins the channel on a third connection, and the relay copies     *)
(* bytes between the two.  Every connection is served by its own task, and *)
(* the tasks meet only in four locked tables: the permits, the agents, the *)
(* pending dials and the device claims.                                    *)
(*                                                                         *)
(* Every connection of this module is used once.  A channel id is 256      *)
(* random bits drawn for one dial, so the dialing connection stands for    *)
(* its own channel.                                                        *)
(***************************************************************************)
EXTENDS Naturals, Sequences, FiniteSets

CONSTANTS
    Conns,          \* the connections clients ever open
    Devices,        \* device identifiers
    Tokens,         \* authentication tokens
    MaxConnections, \* permits of the process-wide carrier cap
    MaxPending,     \* dials that may wait for an agent at once
    MaxClaims,      \* devices the claim registry accepts
    InviteCapacity, \* invites queued for one control connection
    None,           \* "no connection", "no device", "no token"
    Declined        \* what a waiting dial sees when its sender is dropped

ASSUME RelayConstants ==
    /\ IsFiniteSet(Conns)
    /\ MaxConnections \in Nat \ {0}
    /\ MaxPending \in Nat \ {0}
    /\ MaxClaims \in Nat
    /\ InviteCapacity \in Nat \ {0}
    /\ None \notin Conns \cup Devices \cup Tokens
    /\ Declined \notin Conns \cup {None}

VARIABLES
    phase,       \* where the task that serves a connection is
    device,      \* the device a connection named in its accepted first message
    token,       \* the token it presented there
    slots,       \* free permits of the connection semaphore
    tokens,      \* the claimed token of each device
    generations, \* last generation handed out
    generation,  \* the generation of a control connection
    agents,      \* the control connection listed for a device
    cancelled,   \* control connections told to leave by a newer registration
    invites,     \* invites queued for a control connection
    forwarding,  \* its forwarder task still owns the invite receiver
    told,        \* channels an agent has been invited to
    target,      \* the control a dial looked up; the channel a join took
    joins,       \* pending channels: the device each one waits for
    answer       \* what a dial's one-shot receiver holds

claimVars   == <<tokens>>
controlVars == <<generations, generation, agents, cancelled, invites, forwarding>>
dialVars    == <<told, target, joins, answer>>
vars == <<phase, device, token, slots, claimVars, controlVars, dialVars>>

(***************************************************************************)
(* Phases.  "opening" is a connection whose first message has not been     *)
(* understood; "refusing" is a task that writes its last error message and *)
(* then returns.                                                           *)
(***************************************************************************)
ControlPhases == {"registering", "numbered", "serving", "leaving"}
DialPhases    == {"reserving", "inviting", "waiting", "linking", "linked"}
Phases == {"unopened", "opening", "refusing", "closed", "joining", "handed"}
              \cup ControlPhases \cup DialPhases

\* Connections whose task, or whose dial, still owns a permit.
Holders == {c \in Conns : phase[c] \notin {"unopened", "closed"}}

\* Mutant of Listening: the receiver outlives the timeout.
ListeningWhilePending(ch) == phase[ch] \in {"inviting", "waiting", "refusing"}

\* A dial whose receiver still exists: nothing has been read from it yet.
Listening(ch) == phase[ch] \in {"inviting", "waiting"}

Pending == {ch \in Conns : joins[ch] # None}

TypeOK ==
    /\ phase \in [Conns -> Phases]
    /\ device \in [Conns -> Devices \cup {None}]
    /\ token \in [Conns -> Tokens \cup {None}]
    /\ slots \in 0..MaxConnections
    /\ tokens \in [Devices -> Tokens \cup {None}]
    /\ generations \in Nat
    /\ generation \in [Conns -> Nat]
    /\ agents \in [Devices -> Conns \cup {None}]
    /\ cancelled \subseteq Conns
    /\ invites \in [Conns -> Seq(Conns)]
    /\ forwarding \in [Conns -> BOOLEAN]
    /\ told \subseteq Conns
    /\ target \in [Conns -> Conns \cup {None}]
    /\ joins \in [Conns -> Devices \cup {None}]
    /\ answer \in [Conns -> Conns \cup {None, Declined}]

Init ==
    /\ phase = [c \in Conns |-> "unopened"]
    /\ device = [c \in Conns |-> None]
    /\ token = [c \in Conns |-> None]
    /\ slots = MaxConnections
    /\ tokens = [d \in Devices |-> None]
    /\ generations = 0
    /\ generation = [c \in Conns |-> 0]
    /\ agents = [d \in Devices |-> None]
    /\ cancelled = {}
    /\ invites = [c \in Conns |-> <<>>]
    /\ forwarding = [c \in Conns |-> FALSE]
    /\ told = {}
    /\ target = [c \in Conns |-> None]
    /\ joins = [c \in Conns |-> None]
    /\ answer = [c \in Conns |-> None]

Goto(c, p) == phase' = [phase EXCEPT ![c] = p]

(***************************************************************************)
(* Accepting, and the end of a task.                                       *)
(***************************************************************************)

\* The accept loop takes a permit before it spawns the task.
Accept(c) ==
    /\ phase[c] = "unopened"
    /\ slots > 0
    /\ slots' = slots - 1
    /\ Goto(c, "opening")
    /\ UNCHANGED <<device, token, claimVars, controlVars, dialVars>>

\* Without a free permit the socket is dropped on the spot.
AcceptRefused(c) ==
    /\ phase[c] = "unopened"
    /\ slots = 0
    /\ Goto(c, "closed")
    /\ UNCHANGED <<device, token, slots, claimVars, controlVars, dialVars>>

\* The task returns: its permit comes back.
Return(c) ==
    /\ Goto(c, "closed")
    /\ slots' = slots + 1

\* The rate limiter refuses the peer, the handshake fails, or no first message
\* is read in FIRST_MESSAGE_LIMIT; a lone Ping is answered and ends the same way.
OpeningEnds(c) ==
    /\ phase[c] = "opening"
    /\ Return(c)
    /\ UNCHANGED <<device, token, claimVars, controlVars, dialVars>>

\* A malformed request, or a Decline on a connection that never registered.
BadRequest(c) ==
    /\ phase[c] = "opening"
    /\ Goto(c, "refusing")
    /\ UNCHANGED <<device, token, slots, claimVars, controlVars, dialVars>>

\* Mutant of ReleaseDial: the reservation is forgotten.
KeepDial(c) == joins' = joins

\* release_dial, run by the reservation's destructor when run_dial returns.
ReleaseDial(c) == joins' = [joins EXCEPT ![c] = None]

\* Mutant of DropDial: the joined carrier is not dropped with the dial.
DropDialAlone(c) == Return(c)

\* What returning from run_dial drops with the dial: its receiver and with it
\* a joined carrier that was handed over, whose permit comes back as well.
DropDial(c) ==
    LET p == answer[c] IN
    IF p \in Conns
    THEN /\ phase' = [phase EXCEPT ![c] = "closed", ![p] = "closed"]
         /\ slots' = slots + 2
    ELSE Return(c)

\* The error message is written, or its write fails; then the task returns.
Refused(c) ==
    /\ phase[c] = "refusing"
    /\ DropDial(c)
    /\ ReleaseDial(c)
    /\ UNCHANGED <<device, token, claimVars, controlVars, told, target, answer>>

(***************************************************************************)
(* Register, and the control connection.                                   *)
(***************************************************************************)

\* verify_or_claim: the claim the registry holds, or a first claim.
MayClaim(d, t) ==
    \/ tokens[d] = t
    \/ /\ tokens[d] = None
       /\ Cardinality({e \in Devices : tokens[e] # None}) < MaxClaims

Register(c, d, t) ==
    /\ phase[c] = "opening"
    /\ MayClaim(d, t)
    /\ tokens' = [tokens EXCEPT ![d] = t]
    /\ device' = [device EXCEPT ![c] = d]
    /\ token' = [token EXCEPT ![c] = t]
    /\ Goto(c, "registering")
    /\ UNCHANGED <<slots, controlVars, dialVars>>

\* AlreadyClaimed, Capacity, or Unavailable (a first claim that cannot be saved).
RegisterRefused(c, d, t) ==
    /\ phase[c] = "opening"
    /\ tokens[d] # t
    /\ Goto(c, "refusing")
    /\ UNCHANGED <<device, token, slots, claimVars, controlVars, dialVars>>

\* Registered could not be written: the task returns and the claim stays.
RegisteredUnwritten(c) ==
    /\ phase[c] = "registering"
    /\ Return(c)
    /\ UNCHANGED <<device, token, claimVars, controlVars, dialVars>>

\* Registered is written; next_generation runs under a lock of its own.
Number(c) ==
    /\ phase[c] = "registering"
    /\ generations' = generations + 1
    /\ generation' = [generation EXCEPT ![c] = generations + 1]
    /\ Goto(c, "numbered")
    /\ UNCHANGED <<device, token, slots, claimVars, agents, cancelled, invites,
                   forwarding, dialVars>>

\* The entry is inserted and whoever it replaced is told to leave.
List(c) ==
    LET d == device[c] IN
    /\ phase[c] = "numbered"
    /\ cancelled' = cancelled \cup ({agents[d]} \ {None})
    /\ agents' = [agents EXCEPT ![d] = c]
    /\ forwarding' = [forwarding EXCEPT ![c] = TRUE]
    /\ Goto(c, "serving")
    /\ UNCHANGED <<device, token, slots, claimVars, generations, generation,
                   invites, dialVars>>

\* The forwarder writes the next invite to the agent.
Forward(c) ==
    /\ forwarding[c]
    /\ invites[c] # <<>>
    /\ told' = told \cup {Head(invites[c])}
    /\ invites' = [invites EXCEPT ![c] = Tail(@)]
    /\ UNCHANGED <<phase, device, token, slots, claimVars, generations, generation,
                   agents, cancelled, forwarding, target, joins, answer>>

\* The write fails or takes longer than CONTROL_WRITE_LIMIT: the forwarder
\* ends, and the receiver it owned goes with it.
ForwardFails(c) ==
    /\ forwarding[c]
    /\ invites[c] # <<>>
    /\ forwarding' = [forwarding EXCEPT ![c] = FALSE]
    /\ invites' = [invites EXCEPT ![c] = <<>>]
    /\ UNCHANGED <<phase, device, token, slots, claimVars, generations, generation,
                   agents, cancelled, dialVars>>

\* Mutant of MayTake: any device may take a pending channel.
MayTakeAny(ch, d) == joins[ch] # None

\* take_pending_join: the sender of a channel that waits for this device ...
MayTake(ch, d) == joins[ch] = d

\* Mutant of Take: the entry is read and left in the table.
Peek(ch) == joins' = joins

\* ... leaves the table as it is taken.
Take(ch) == joins' = [joins EXCEPT ![ch] = None]

\* Taking the entry to drop it answers a dial that still listens.
Decline(c, ch) ==
    /\ phase[c] = "serving"
    /\ ch \in told
    /\ MayTake(ch, device[c])
    /\ Take(ch)
    /\ answer' = IF Listening(ch) THEN [answer EXCEPT ![ch] = Declined] ELSE answer
    /\ UNCHANGED <<phase, device, token, slots, claimVars, controlVars, told, target>>

\* The receive loop ends and the forwarder is aborted, its receiver dropped.
LeaveLoop(c) ==
    /\ phase[c] = "serving"
    /\ Goto(c, "leaving")
    /\ forwarding' = [forwarding EXCEPT ![c] = FALSE]
    /\ invites' = [invites EXCEPT ![c] = <<>>]
    /\ UNCHANGED <<device, token, slots, claimVars, generations, generation,
                   agents, cancelled, dialVars>>

\* Closed by the agent, silent for CONTROL_IDLE_LIMIT, an unexpected message,
\* or a Pong that could not be written.
ControlLost(c) == LeaveLoop(c)

\* Mutant of ControlStopped: the cancel signal is not listened to.
ControlStoppedByForwarder(c) ==
    /\ ~forwarding[c]
    /\ LeaveLoop(c)

\* Another registration of its device was listed, or its forwarder has ended.
ControlStopped(c) ==
    /\ c \in cancelled \/ ~forwarding[c]
    /\ LeaveLoop(c)

\* Mutant of IsListed: whatever entry the device has is removed.
HasEntry(c) == agents[device[c]] # None

\* Only the entry this task inserted may be removed.
IsListed(c) == agents[device[c]] # None /\ generation[agents[device[c]]] = generation[c]

Unlist(c) ==
    /\ phase[c] = "leaving"
    /\ agents' = IF IsListed(c) THEN [agents EXCEPT ![device[c]] = None] ELSE agents
    /\ Return(c)
    /\ UNCHANGED <<device, token, claimVars, generations, generation, cancelled,
                   invites, forwarding, dialVars>>

(***************************************************************************)
(* Dial.                                                                   *)
(***************************************************************************)

\* The viewer names a device and the task copies its invite sender.  The copy
\* outlives the agents lock: the control may be gone when it is used.
Dial(c, d) ==
    /\ phase[c] = "opening"
    /\ agents[d] # None
    /\ device' = [device EXCEPT ![c] = d]
    /\ target' = [target EXCEPT ![c] = agents[d]]
    /\ Goto(c, "reserving")
    /\ UNCHANGED <<token, slots, claimVars, controlVars, told, joins, answer>>

DialOffline(c, d) ==
    /\ phase[c] = "opening"
    /\ agents[d] = None
    /\ Goto(c, "refusing")
    /\ UNCHANGED <<device, token, slots, claimVars, controlVars, dialVars>>

ReserveDial(c) ==
    /\ phase[c] = "reserving"
    /\ Cardinality(Pending) < MaxPending
    /\ joins' = [joins EXCEPT ![c] = device[c]]
    /\ Goto(c, "inviting")
    /\ UNCHANGED <<device, token, slots, claimVars, controlVars, told, target, answer>>

ReserveBusy(c) ==
    /\ phase[c] = "reserving"
    /\ Cardinality(Pending) >= MaxPending
    /\ Goto(c, "refusing")
    /\ UNCHANGED <<device, token, slots, claimVars, controlVars, dialVars>>

\* invite.try_send on the copied sender.
Invite(c) ==
    LET a == target[c] IN
    /\ phase[c] = "inviting"
    /\ forwarding[a]
    /\ Len(invites[a]) < InviteCapacity
    /\ invites' = [invites EXCEPT ![a] = Append(@, c)]
    /\ Goto(c, "waiting")
    /\ UNCHANGED <<device, token, slots, claimVars, generations, generation,
                   agents, cancelled, forwarding, dialVars>>

\* Closed or Full: "offline" or "busy".
InviteFails(c) ==
    LET a == target[c] IN
    /\ phase[c] = "inviting"
    /\ ~forwarding[a] \/ Len(invites[a]) >= InviteCapacity
    /\ Goto(c, "refusing")
    /\ UNCHANGED <<device, token, slots, claimVars, controlVars, dialVars>>

\* Mutant of DialTimesOut: the clock starts when the invite is delivered.
DialTimesOutOnceTold(c) ==
    /\ phase[c] = "waiting"
    /\ answer[c] = None
    /\ c \in told
    /\ Goto(c, "refusing")
    /\ UNCHANGED <<device, token, slots, claimVars, controlVars, dialVars>>

\* Nothing arrived in JOIN_WAIT_LIMIT.  The receiver goes, the entry in the
\* pending table stays until the error has been written.
DialTimesOut(c) ==
    /\ phase[c] = "waiting"
    /\ answer[c] = None
    /\ Goto(c, "refusing")
    /\ UNCHANGED <<device, token, slots, claimVars, controlVars, dialVars>>

DialDeclined(c) ==
    /\ phase[c] = "waiting"
    /\ answer[c] = Declined
    /\ Goto(c, "refusing")
    /\ UNCHANGED <<device, token, slots, claimVars, controlVars, dialVars>>

\* The joined carrier arrives; Linked has yet to be written to both ends.
DialJoined(c) ==
    /\ phase[c] = "waiting"
    /\ answer[c] \in Conns
    /\ Goto(c, "linking")
    /\ UNCHANGED <<device, token, slots, claimVars, controlVars, dialVars>>

Link(c) ==
    /\ phase[c] = "linking"
    /\ Goto(c, "linked")
    /\ UNCHANGED <<device, token, slots, claimVars, controlVars, dialVars>>

\* Linked could not be written to the agent: the viewer is told "busy".
LinkAgentLost(c) ==
    /\ phase[c] = "linking"
    /\ Goto(c, "refusing")
    /\ UNCHANGED <<device, token, slots, claimVars, controlVars, dialVars>>

\* Linked could not be written to the viewer, or the linked channel ended:
\* both ends go, and the reservation, whose entry the join had already taken.
DialEnds(c) ==
    /\ phase[c] \in {"linking", "linked"}
    /\ DropDial(c)
    /\ ReleaseDial(c)
    /\ UNCHANGED <<device, token, claimVars, controlVars, told, target, answer>>

(***************************************************************************)
(* Join.                                                                   *)
(***************************************************************************)

\* Mutant of Authorized: any token will do for a claimed device.
IsClaimed(d, t) == tokens[d] # None

\* verify_only.
Authorized(d, t) == tokens[d] = t

\* The token is checked, then the sender of the pending channel is taken.
Join(c, ch, d, t) ==
    /\ phase[c] = "opening"
    /\ Authorized(d, t)
    /\ MayTake(ch, d)
    /\ Take(ch)
    /\ device' = [device EXCEPT ![c] = d]
    /\ token' = [token EXCEPT ![c] = t]
    /\ target' = [target EXCEPT ![c] = ch]
    /\ Goto(c, "joining")
    /\ UNCHANGED <<slots, claimVars, controlVars, told, answer>>

\* "unauthorized", or "expired".
JoinRefused(c, ch, d, t) ==
    /\ phase[c] = "opening"
    /\ ~Authorized(d, t) \/ ~MayTake(ch, d)
    /\ Goto(c, "refusing")
    /\ UNCHANGED <<device, token, slots, claimVars, controlVars, dialVars>>

\* Mutant of HandOver: the permit goes back when the join's own task returns.
HandOverUncounted(c) ==
    /\ phase[c] = "joining"
    /\ Listening(target[c])
    /\ answer' = [answer EXCEPT ![target[c]] = c]
    /\ Goto(c, "handed")
    /\ slots' = slots + 1
    /\ UNCHANGED <<device, token, claimVars, controlVars, told, target, joins>>

\* The dial still listens: socket and permit are its own from here.
HandOver(c) ==
    /\ phase[c] = "joining"
    /\ Listening(target[c])
    /\ answer' = [answer EXCEPT ![target[c]] = c]
    /\ Goto(c, "handed")
    /\ UNCHANGED <<device, token, slots, claimVars, controlVars, told, target, joins>>

\* The dial gave up in the meantime: send fails and drops socket and permit.
HandOverLate(c) ==
    /\ phase[c] = "joining"
    /\ ~Listening(target[c])
    /\ Return(c)
    /\ UNCHANGED <<device, token, claimVars, controlVars, dialVars>>

(***************************************************************************)
(* The specification.                                                      *)
(***************************************************************************)
Opening(c) ==
    \/ Accept(c) \/ AcceptRefused(c) \/ OpeningEnds(c) \/ BadRequest(c)
    \/ \E d \in Devices, t \in Tokens : Register(c, d, t) \/ RegisterRefused(c, d, t)
    \/ \E d \in Devices : Dial(c, d) \/ DialOffline(c, d)
    \/ \E ch \in told, d \in Devices, t \in Tokens :
           Join(c, ch, d, t) \/ JoinRefused(c, ch, d, t)

\* What the peers and the network decide; a write may fail at any time.
Lost(c) ==
    \/ RegisteredUnwritten(c) \/ ForwardFails(c) \/ ControlLost(c)
    \/ LinkAgentLost(c) \/ DialEnds(c)
    \/ \E ch \in Conns : Decline(c, ch)

\* What the relay does by itself: a task that can go on, a timer that runs out.
Serve(c) ==
    \/ Refused(c)
    \/ Number(c) \/ List(c) \/ Forward(c) \/ ControlStopped(c) \/ Unlist(c)
    \/ ReserveDial(c) \/ ReserveBusy(c) \/ Invite(c) \/ InviteFails(c)
    \/ DialTimesOut(c) \/ DialDeclined(c) \/ DialJoined(c) \/ Link(c)
    \/ HandOver(c) \/ HandOverLate(c)

Next == \E c \in Conns : Opening(c) \/ Lost(c) \/ Serve(c)

\* Tokio runs every ready task and every timer in the end.  A connection that
\* said nothing is timed out, so it leaves "opening" one way or another; what
\* clients send, when they vanish and how long a link lasts is never promised.
Fairness == \A c \in Conns : WF_vars(Serve(c)) /\ WF_vars(OpeningEnds(c))

Spec == Init /\ [][Next]_vars
FairSpec == Spec /\ Fairness

(***************************************************************************)
(* Properties.                                                             *)
(***************************************************************************)

\* The agents table and the control tasks agree (run_agent_control): whoever is
\* listed for a device serves that device and has not returned, and a control
\* nobody superseded can be dialled, however registrations and departures of
\* the same device interleave.
ListingIsExact ==
    /\ \A d \in Devices : agents[d] # None =>
           /\ phase[agents[d]] \in {"serving", "leaving"}
           /\ device[agents[d]] = d
    /\ \A c \in Conns : phase[c] = "serving" /\ c \notin cancelled => agents[device[c]] = c

\* A dial is only ever answered by a carrier that presented the token its
\* device was claimed with (Join in run_connection, run_dial), and no carrier
\* is handed to two dials.
LinkedWithOwner ==
    \A ch \in Conns : answer[ch] \in Conns =>
        LET p == answer[ch] IN
        /\ device[p] = device[ch]
        /\ token[p] = tokens[device[ch]]
        /\ \A other \in Conns \ {ch} : answer[other] # p

\* A sender is taken at most once: a channel one carrier has joined is neither
\* pending nor being joined by another (take_pending_join removes what it finds).
OneJoinPerDial ==
    \A c \in Conns : phase[c] = "joining" =>
        /\ joins[target[c]] = None
        /\ answer[target[c]] = None
        /\ \A e \in Conns \ {c} : phase[e] = "joining" => target[e] # target[c]

\* An entry of the pending table belongs to a dial whose task has not returned
\* (DialReservation): abandoned dials never use up MAX_PENDING_DIALS.
PendingHasDial ==
    \A ch \in Pending :
        phase[ch] \in {"inviting", "waiting", "refusing"} /\ device[ch] = joins[ch]

\* A dial is pending while its task runs and no longer, and is joined once.
DialsAccounted == PendingHasDial /\ OneJoinPerDial

\* Free permits and live carriers always make up the cap: a carrier that was
\* handed to a dial stays counted until that dial ends (JoinedTransport).
PermitsAccounted == slots + Cardinality(Holders) = MaxConnections

\* A carrier handed over is always in the hands of one dial that still runs,
\* so no socket and no permit outlives both of the tasks that knew it.
NoOrphanCarrier ==
    \A p \in Conns : phase[p] = "handed" =>
        \E ch \in Conns : answer[ch] = p
                          /\ phase[ch] \in {"inviting", "waiting", "linking", "linked", "refusing"}

\* Every permit is free or held by a carrier in somebody's hands.
CarriersAccounted == PermitsAccounted /\ NoOrphanCarrier

\* A dial that reached its device's agent table is told the outcome of this
\* very dial: once it has given up, nothing that arrives late turns it into a
\* link (the receiver is dropped before the error is written).
NoLateLink ==
    [][\A c \in Conns : phase[c] = "refusing" => answer'[c] = answer[c]]_vars

\* Whatever the peers do, a task settles: it ends, serves a device or carries a
\* link.  In particular every viewer that dials is linked or answered, with no
\* agent left, a full invite queue or a vanished forwarder.
EveryTaskSettles ==
    \A c \in Conns : phase[c] \in Phases \ {"unopened"} ~>
        phase[c] \in {"closed", "serving", "linked", "handed"}

\* A control a newer registration replaced, or one whose forwarder has ended and that can
\* no longer be dialled though it is listed, does not stay: its permit comes back.
SupersededLeaves ==
    \A c \in Conns :
        c \in cancelled \/ (phase[c] = "serving" /\ ~forwarding[c]) ~> phase[c] = "closed"
=============================================================================
