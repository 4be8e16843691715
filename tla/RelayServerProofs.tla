------------------------- MODULE RelayServerProofs -------------------------
(***************************************************************************)
(* The safety of RelayServer, for every number of connections and devices  *)
(* and every limit.  The inductive invariant has four layers, each proved  *)
(* from the ones before it: what the variables hold (Shape), the agents    *)
(* table (Listing), the channels (Channels) and the permits (Permits).     *)
(***************************************************************************)
EXTENDS RelayRendezvous, FiniteSetTheorems, TLAPS

\* TypeOK, except that nothing bounds the free permits yet.
Shape ==
    /\ phase \in [Conns -> Phases]
    /\ device \in [Conns -> Devices \cup {None}]
    /\ token \in [Conns -> Tokens \cup {None}]
    /\ slots \in Int
    /\ tokens \in [Devices -> Tokens \cup {None}]
    /\ generations \in Nat
    /\ generation \in [Conns -> Nat]
    /\ agents \in [Devices -> Conns \cup {None}]
    /\ cancelled \subseteq Conns
    /\ invites \in [Conns -> Seq(Conns)]
    /\ forwarding \in [Conns -> BOOLEAN]
    /\ told \subseteq Conns
    /\ target \in [Conns -> Conns \cup {None}]
    /\ joins \in [Conns -> Devices \cup {None}]
    /\ answer \in [Conns -> Conns \cup {None, Declined}]
    /\ \A c \in Conns : phase[c] \in ControlPhases => device[c] \in Devices
    /\ \A c \in Conns : phase[c] \in {"reserving", "inviting"} =>
           target[c] \in Conns /\ device[c] \in Devices

\* A generation is handed out once, and a listed control has one.
Numbered ==
    /\ \A c \in Conns : generation[c] <= generations
    /\ \A c \in Conns : generation[c] # 0 =>
           \A e \in Conns : generation[e] = generation[c] => e = c
    /\ \A c \in Conns : phase[c] \in {"numbered", "serving", "leaving"} => generation[c] # 0

Listing == Numbered /\ ListingIsExact

\* A channel with an answer is no longer pending, and its dial has got as far
\* as inviting; the answer lives and ends with the dial.
Answered ==
    \A ch \in Conns : answer[ch] # None =>
        /\ joins[ch] = None
        /\ phase[ch] \in {"inviting", "waiting", "linking", "linked", "refusing", "closed"}
        /\ answer[ch] \in Conns =>
               IF phase[ch] = "closed" THEN phase[answer[ch]] = "closed"
                                       ELSE phase[answer[ch]] = "handed"

\* A join that took a sender is the only one that did, and owns its device.
Joining ==
    \A c \in Conns : phase[c] = "joining" =>
        /\ target[c] \in Conns
        /\ phase[target[c]] \in {"inviting", "waiting", "refusing", "closed"}
        /\ device[c] = device[target[c]]
        /\ device[c] \in Devices
        /\ token[c] = tokens[device[c]]
        /\ token[c] # None

Owned ==
    \A ch \in Conns : answer[ch] \in Conns =>
        device[answer[ch]] \in Devices /\ token[answer[ch]] # None

Channels ==
    /\ Answered
    /\ Joining
    /\ Owned
    /\ OneJoinPerDial
    /\ LinkedWithOwner
    /\ PendingHasDial
    /\ NoOrphanCarrier

Permits == PermitsAccounted /\ slots >= 0

IInv == Shape /\ Listing /\ Channels /\ Permits

\* Returning from run_dial closes the dial and the carrier it was handed, and
\* gives back one permit for each.
LEMMA DropDialEffect ==
    ASSUME Shape, NEW c \in Conns, DropDial(c)
    PROVE  /\ phase' \in [Conns -> Phases]
           /\ \A e \in Conns : phase'[e] = IF e \in {c, answer[c]} THEN "closed" ELSE phase[e]
           /\ slots' \in Int
           /\ answer[c] \in Conns => slots' = slots + 2
           /\ answer[c] \notin Conns => slots' = slots + 1
<1> USE DEF Shape, Phases
<1>1. CASE answer[c] \in Conns
  <2>1. slots' = slots + 2
    BY <1>1 DEF DropDial
  <2>2. \A e \in Conns : phase'[e] = IF e \in {c, answer[c]} THEN "closed" ELSE phase[e]
    BY <1>1 DEF DropDial
  <2>3. phase' \in [Conns -> Phases]
    BY <1>1 DEF DropDial
  <2> QED
    BY <1>1, <2>1, <2>2, <2>3
<1>2. CASE answer[c] \notin Conns
  <2>1. phase' = [phase EXCEPT ![c] = "closed"] /\ slots' = slots + 1
    BY <1>2 DEF DropDial, Return, Goto
  <2> QED
    BY <1>2, <2>1
<1> QED
  BY <1>1, <1>2

\* The type invariant, but for the bound on the permits, holds initially ...
LEMMA ShapeInit == Init => Shape
BY RelayConstants DEF Init, Shape, Phases, ControlPhases, DialPhases, RelayConstants

\* ... and after every step of every task.
LEMMA ShapeStep == Shape /\ [Next]_vars => Shape'
<1> SUFFICES ASSUME Shape, [Next]_vars PROVE Shape'
  OBVIOUS
<1> USE RelayConstants DEF Shape, Phases, ControlPhases, DialPhases, Goto, claimVars, controlVars, dialVars
<1>1. CASE UNCHANGED vars
  BY <1>1 DEF vars
<1>2. ASSUME NEW c \in Conns, Opening(c) \/ Lost(c) \/ Serve(c) PROVE Shape'
  <2>1. CASE Accept(c)
    BY <2>1 DEF Accept
  <2>2. CASE AcceptRefused(c)
    BY <2>2 DEF AcceptRefused
  <2>3. CASE OpeningEnds(c)
    BY <2>3 DEF OpeningEnds, Return
  <2>4. CASE BadRequest(c)
    BY <2>4 DEF BadRequest
  <2>5. CASE Refused(c)
    <3>1. DropDial(c) /\ joins' = [joins EXCEPT ![c] = None]
      BY <2>5 DEF Refused, ReleaseDial
    <3>2. UNCHANGED <<device, token, tokens, generations, generation, agents, cancelled,
                      invites, forwarding, told, target, answer>>
      BY <2>5 DEF Refused
    <3>3. /\ phase' \in [Conns -> Phases]
          /\ \A e \in Conns : phase'[e] = IF e \in {c, answer[c]} THEN "closed" ELSE phase[e]
          /\ slots' \in Int
      BY <3>1, DropDialEffect
    <3> QED
      BY <3>1, <3>2, <3>3
  <2>6. CASE RegisteredUnwritten(c)
    BY <2>6 DEF RegisteredUnwritten, Return
  <2>7. CASE Number(c)
    BY <2>7 DEF Number
  <2>8. CASE List(c)
    BY <2>8 DEF List
  <2>9. CASE Forward(c)
    BY <2>9 DEF Forward
  <2>10. CASE ForwardFails(c)
    BY <2>10 DEF ForwardFails
  <2>11. CASE ControlLost(c)
    BY <2>11 DEF ControlLost, LeaveLoop
  <2>12. CASE ControlStopped(c)
    BY <2>12 DEF ControlStopped, LeaveLoop
  <2>13. CASE Unlist(c)
    BY <2>13 DEF Unlist, Return, IsListed
  <2>14. CASE ReserveDial(c)
    BY <2>14 DEF ReserveDial
  <2>15. CASE ReserveBusy(c)
    BY <2>15 DEF ReserveBusy
  <2>16. CASE Invite(c)
    BY SMTT(40), <2>16 DEF Invite
  <2>17. CASE InviteFails(c)
    BY <2>17 DEF InviteFails
  <2>18. CASE DialTimesOut(c)
    BY <2>18 DEF DialTimesOut
  <2>19. CASE DialDeclined(c)
    BY <2>19 DEF DialDeclined
  <2>20. CASE DialJoined(c)
    BY <2>20 DEF DialJoined
  <2>21. CASE Link(c)
    BY <2>21 DEF Link
  <2>22. CASE LinkAgentLost(c)
    BY <2>22 DEF LinkAgentLost
  <2>23. CASE DialEnds(c)
    <3>1. DropDial(c) /\ joins' = [joins EXCEPT ![c] = None]
      BY <2>23 DEF DialEnds, ReleaseDial
    <3>2. UNCHANGED <<device, token, tokens, generations, generation, agents, cancelled,
                      invites, forwarding, told, target, answer>>
      BY <2>23 DEF DialEnds
    <3>3. /\ phase' \in [Conns -> Phases]
          /\ \A e \in Conns : phase'[e] = IF e \in {c, answer[c]} THEN "closed" ELSE phase[e]
          /\ slots' \in Int
      BY <3>1, DropDialEffect
    <3> QED
      BY <3>1, <3>2, <3>3
  <2>24. CASE HandOver(c)
    BY <2>24 DEF HandOver, Listening
  <2>25. CASE HandOverLate(c)
    BY <2>25 DEF HandOverLate, Return
  <2>26. ASSUME NEW d \in Devices, NEW t \in Tokens, Register(c, d, t) PROVE Shape'
    BY <2>26 DEF Register
  <2>27. ASSUME NEW d \in Devices, NEW t \in Tokens, RegisterRefused(c, d, t) PROVE Shape'
    BY <2>27 DEF RegisterRefused
  <2>28. ASSUME NEW d \in Devices, Dial(c, d) PROVE Shape'
    BY <2>28 DEF Dial
  <2>29. ASSUME NEW d \in Devices, DialOffline(c, d) PROVE Shape'
    BY <2>29 DEF DialOffline
  <2>30. ASSUME NEW ch \in told, NEW d \in Devices, NEW t \in Tokens, Join(c, ch, d, t) PROVE Shape'
    BY <2>30 DEF Join, Take
  <2>31. ASSUME NEW ch \in told, NEW d \in Devices, NEW t \in Tokens, JoinRefused(c, ch, d, t) PROVE Shape'
    BY <2>31 DEF JoinRefused
  <2>32. ASSUME NEW ch \in Conns, Decline(c, ch) PROVE Shape'
    BY <2>32 DEF Decline, Take
  <2> QED
    BY <1>2, <2>1, <2>2, <2>3, <2>4, <2>5, <2>6, <2>7, <2>8, <2>9, <2>10, <2>11, <2>12, <2>13, <2>14, <2>15, <2>16, <2>17, <2>18, <2>19, <2>20, <2>21, <2>22, <2>23, <2>24, <2>25, <2>26, <2>27, <2>28, <2>29, <2>30, <2>31, <2>32 DEF Opening, Lost, Serve
<1> QED
  BY SMTT(40), <1>1, <1>2 DEF Next

LEMMA ChannelsInit == Init => Channels
BY RelayConstants DEF Init, Channels, Answered, Joining, Owned, OneJoinPerDial, LinkedWithOwner,
   PendingHasDial, NoOrphanCarrier, Pending

\* Phases of the connections that some channel may refer to.
Involved == {"inviting", "waiting", "linking", "linked", "refusing", "closed",
             "joining", "handed"}

\* No channel refers to a connection that is in none of them.
LEMMA Uninvolved ==
    ASSUME Shape, Channels, NEW c \in Conns, phase[c] \notin Involved
    PROVE  /\ answer[c] = None
           /\ joins[c] = None
           /\ \A e \in Conns : answer[e] # c
           /\ \A e \in Conns : phase[e] = "joining" => target[e] # c
<1> USE DEF Involved, Channels
<1>1. answer[c] = None
  BY DEF Answered
<1>2. joins[c] = None
  BY DEF PendingHasDial, Pending
<1>3. \A e \in Conns : answer[e] # c
  BY RelayConstants DEF Answered
<1>4. \A e \in Conns : phase[e] = "joining" => target[e] # c
  BY DEF Joining
<1> QED
  BY <1>1, <1>2, <1>3, <1>4

\* Such a connection may go anywhere but into a join: no channel notices.
LEMMA ChannelsIgnore ==
    ASSUME Shape, Channels, NEW c \in Conns, phase[c] \notin Involved,
           NEW p \in Phases \ {"joining", "handed"},
           phase' = [phase EXCEPT ![c] = p],
           \A e \in Conns \ {c} : device'[e] = device[e] /\ token'[e] = token[e]
                                  /\ target'[e] = target[e],
           \A d \in Devices : tokens[d] # None => tokens'[d] = tokens[d],
           UNCHANGED <<joins, answer>>
    PROVE  Channels'
<1>1. /\ answer[c] = None
      /\ joins[c] = None
      /\ \A e \in Conns : answer[e] # c
      /\ \A e \in Conns : phase[e] = "joining" => target[e] # c
  BY Uninvolved
<1>2. /\ phase'[c] = p
      /\ \A e \in Conns \ {c} : phase'[e] = phase[e]
  BY DEF Shape
<1> USE RelayConstants
<1>3. Answered'
  BY <1>1, <1>2 DEF Shape, Channels, Answered
<1>4. Joining'
  <2> SUFFICES ASSUME NEW e \in Conns, phase'[e] = "joining"
               PROVE  /\ target'[e] \in Conns
                      /\ phase'[target'[e]] \in {"inviting", "waiting", "refusing", "closed"}
                      /\ device'[e] = device'[target'[e]]
                      /\ device'[e] \in Devices
                      /\ token'[e] = tokens'[device'[e]]
                      /\ token'[e] # None
    BY DEF Joining
  <2>1. e # c /\ phase[e] = "joining" /\ target[e] # c
    BY <1>1, <1>2
  <2> QED
    BY <1>2, <2>1 DEF Channels, Joining
<1>5. Owned' /\ LinkedWithOwner'
  <2> SUFFICES ASSUME NEW ch \in Conns, answer[ch] \in Conns
               PROVE  /\ device'[answer[ch]] \in Devices
                      /\ token'[answer[ch]] # None
                      /\ device'[answer[ch]] = device'[ch]
                      /\ token'[answer[ch]] = tokens'[device'[ch]]
                      /\ \A other \in Conns \ {ch} : answer[other] # answer[ch]
    BY DEF Owned, LinkedWithOwner
  <2>1. ch # c /\ answer[ch] # c
    BY <1>1
  <2> QED
    BY <2>1 DEF Channels, Owned, LinkedWithOwner
<1>6. OneJoinPerDial'
  BY <1>1, <1>2 DEF Channels, OneJoinPerDial
<1>7. PendingHasDial'
  BY <1>1, <1>2 DEF Channels, PendingHasDial, Pending
<1>8. NoOrphanCarrier'
  BY <1>1, <1>2 DEF Channels, NoOrphanCarrier
<1> QED
  BY <1>3, <1>4, <1>5, <1>6, <1>7, <1>8 DEF Channels

LEMMA ChannelsStep == Shape /\ Channels /\ [Next]_vars => Channels'
<1> SUFFICES ASSUME Shape, Channels, [Next]_vars PROVE Channels'
  OBVIOUS
<1> USE RelayConstants DEF Goto, claimVars, controlVars, dialVars
<1>1. CASE UNCHANGED vars
  BY <1>1 DEF vars, Channels, Answered, Joining, Owned, OneJoinPerDial, LinkedWithOwner,
              PendingHasDial, NoOrphanCarrier, Pending
<1>2. ASSUME NEW c \in Conns, Opening(c) \/ Lost(c) \/ Serve(c) PROVE Channels'
  \* Steps of a connection no channel refers to.
  <2>1. CASE Accept(c)
    BY <2>1, ChannelsIgnore DEF Accept, Involved, Phases, ControlPhases, DialPhases
  <2>2. CASE AcceptRefused(c)
    BY <2>2, ChannelsIgnore DEF AcceptRefused, Involved, Phases, ControlPhases, DialPhases
  <2>3. CASE OpeningEnds(c)
    BY <2>3, ChannelsIgnore DEF OpeningEnds, Return, Involved, Phases, ControlPhases, DialPhases
  <2>4. CASE BadRequest(c)
    BY <2>4, ChannelsIgnore DEF BadRequest, Involved, Phases, ControlPhases, DialPhases
  <2>5. CASE RegisteredUnwritten(c)
    BY <2>5, ChannelsIgnore DEF RegisteredUnwritten, Return, Involved, Phases, ControlPhases, DialPhases
  <2>6. CASE Number(c)
    BY <2>6, ChannelsIgnore DEF Number, Involved, Phases, ControlPhases, DialPhases
  <2>7. CASE List(c)
    BY <2>7, ChannelsIgnore DEF List, Involved, Phases, ControlPhases, DialPhases
  <2>8. CASE ControlLost(c)
    BY <2>8, ChannelsIgnore DEF ControlLost, LeaveLoop, Involved, Phases, ControlPhases, DialPhases
  <2>9. CASE ControlStopped(c)
    BY <2>9, ChannelsIgnore DEF ControlStopped, LeaveLoop, Involved, Phases, ControlPhases, DialPhases
  <2>10. CASE Unlist(c)
    BY <2>10, ChannelsIgnore DEF Unlist, Return, Involved, Phases, ControlPhases, DialPhases
  <2>11. CASE ReserveBusy(c)
    BY <2>11, ChannelsIgnore DEF ReserveBusy, Involved, Phases, ControlPhases, DialPhases
  <2>12. ASSUME NEW d \in Devices, NEW t \in Tokens, Register(c, d, t) PROVE Channels'
    BY ZenonT(60), <2>12, ChannelsIgnore DEF Register, MayClaim, Shape, Involved, Phases, ControlPhases, DialPhases
  <2>13. ASSUME NEW d \in Devices, NEW t \in Tokens, RegisterRefused(c, d, t) PROVE Channels'
    BY <2>13, ChannelsIgnore DEF RegisterRefused, Involved, Phases, ControlPhases, DialPhases
  <2>14. ASSUME NEW d \in Devices, Dial(c, d) PROVE Channels'
    BY <2>14, ChannelsIgnore DEF Dial, Shape, Involved, Phases, ControlPhases, DialPhases
  <2>15. ASSUME NEW d \in Devices, DialOffline(c, d) PROVE Channels'
    BY <2>15, ChannelsIgnore DEF DialOffline, Involved, Phases, ControlPhases, DialPhases
  <2>16. ASSUME NEW ch \in told, NEW d \in Devices, NEW t \in Tokens, JoinRefused(c, ch, d, t) PROVE Channels'
    BY <2>16, ChannelsIgnore DEF JoinRefused, Involved, Phases, ControlPhases, DialPhases
  \* The forwarder touches no channel.
  <2>f. CASE Forward(c) \/ ForwardFails(c)
    BY <2>f DEF Forward, ForwardFails, Channels, Answered, Joining, Owned, OneJoinPerDial,
                LinkedWithOwner, PendingHasDial, NoOrphanCarrier, Pending
  \* A dial that goes on or gives up: only its phase changes.
  <2>17. CASE Invite(c)
    BY <2>17 DEF Invite, Shape, Phases, ControlPhases, DialPhases, Channels, Answered, Joining, Owned,
       OneJoinPerDial, LinkedWithOwner, PendingHasDial, NoOrphanCarrier, Pending
  <2>18. CASE InviteFails(c)
    BY <2>18 DEF InviteFails, Shape, Phases, ControlPhases, DialPhases, Channels, Answered, Joining, Owned,
       OneJoinPerDial, LinkedWithOwner, PendingHasDial, NoOrphanCarrier, Pending
  <2>19. CASE DialTimesOut(c)
    BY <2>19 DEF DialTimesOut, Shape, Phases, ControlPhases, DialPhases, Channels, Answered, Joining, Owned,
       OneJoinPerDial, LinkedWithOwner, PendingHasDial, NoOrphanCarrier, Pending
  <2>20. CASE DialDeclined(c)
    BY <2>20 DEF DialDeclined, Shape, Phases, ControlPhases, DialPhases, Channels, Answered, Joining, Owned,
       OneJoinPerDial, LinkedWithOwner, PendingHasDial, NoOrphanCarrier, Pending
  <2>21. CASE DialJoined(c)
    BY <2>21 DEF DialJoined, Shape, Phases, ControlPhases, DialPhases, Channels, Answered, Joining, Owned,
       OneJoinPerDial, LinkedWithOwner, PendingHasDial, NoOrphanCarrier, Pending
  <2>22. CASE Link(c)
    BY <2>22 DEF Link, Shape, Phases, ControlPhases, DialPhases, Channels, Answered, Joining, Owned,
       OneJoinPerDial, LinkedWithOwner, PendingHasDial, NoOrphanCarrier, Pending
  <2>23. CASE LinkAgentLost(c)
    BY <2>23 DEF LinkAgentLost, Shape, Phases, ControlPhases, DialPhases, Channels, Answered, Joining, Owned,
       OneJoinPerDial, LinkedWithOwner, PendingHasDial, NoOrphanCarrier, Pending
  <2>d. ASSUME NEW ch \in Conns, Decline(c, ch) PROVE Channels'
    <3>1. /\ device[c] \in Devices /\ joins[ch] = device[c]
          /\ joins' = [joins EXCEPT ![ch] = None]
          /\ answer' = IF Listening(ch) THEN [answer EXCEPT ![ch] = Declined] ELSE answer
          /\ UNCHANGED <<phase, device, token, tokens, target>>
      BY <2>d DEF Decline, Take, MayTake, Shape, ControlPhases
    <3>2. /\ answer[ch] = None
          /\ \A e \in Conns : phase[e] = "joining" => target[e] # ch
      BY <3>1, RelayConstants DEF Channels, Answered, OneJoinPerDial
    <3>3. /\ \A e \in Conns : joins'[e] = IF e = ch THEN None ELSE joins[e]
          /\ \A e \in Conns \ {ch} : answer'[e] = answer[e]
          /\ answer'[ch] # None => phase[ch] \in {"inviting", "waiting"} /\ answer'[ch] = Declined
          /\ answer'[ch] \notin Conns
      BY <3>1, <3>2 DEF Shape, Listening
    <3>p0. Answered'
      BY <3>1, <3>2, <3>3 DEF Channels, Answered
    <3>p1. Joining'
      BY <3>1, <3>2, <3>3 DEF Channels, Joining
    <3>p2. Owned'
      BY <3>1, <3>2, <3>3 DEF Channels, Owned
    <3>p3. OneJoinPerDial'
      BY <3>1, <3>2, <3>3 DEF Channels, OneJoinPerDial, Joining
    <3>p4. LinkedWithOwner'
      BY <3>1, <3>2, <3>3 DEF Channels, LinkedWithOwner
    <3>p5. PendingHasDial'
      BY <3>1, <3>2, <3>3 DEF Channels, PendingHasDial, Pending
    <3>p6. NoOrphanCarrier'
      BY <3>1, <3>2, <3>3 DEF Channels, NoOrphanCarrier
    <3> QED
      BY <3>p0, <3>p1, <3>p2, <3>p3, <3>p4, <3>p5, <3>p6 DEF Channels
  <2>r. CASE ReserveDial(c)
    <3>0. /\ answer[c] = None
          /\ joins[c] = None
          /\ \A e \in Conns : answer[e] # c
          /\ \A e \in Conns : phase[e] = "joining" => target[e] # c
      BY <2>r, Uninvolved DEF ReserveDial, Involved
    <3>p0. Answered'
      BY <2>r, <3>0 DEF ReserveDial, Shape, Channels, Answered
    <3>p1. Joining'
      BY <2>r, <3>0 DEF ReserveDial, Shape, Channels, Joining
    <3>p2. Owned'
      BY <2>r, <3>0 DEF ReserveDial, Shape, Channels, Owned
    <3>p3. OneJoinPerDial'
      BY <2>r, <3>0 DEF ReserveDial, Shape, Channels, OneJoinPerDial, Joining
    <3>p4. LinkedWithOwner'
      BY <2>r, <3>0 DEF ReserveDial, Shape, Channels, LinkedWithOwner
    <3>p5. PendingHasDial'
      BY <2>r, <3>0 DEF ReserveDial, Shape, Channels, PendingHasDial, Pending
    <3>p6. NoOrphanCarrier'
      BY <2>r, <3>0 DEF ReserveDial, Shape, Channels, NoOrphanCarrier
    <3> QED
      BY <3>p0, <3>p1, <3>p2, <3>p3, <3>p4, <3>p5, <3>p6 DEF Channels
  <2>j. ASSUME NEW ch \in told, NEW d \in Devices, NEW t \in Tokens, Join(c, ch, d, t) PROVE Channels'
    <3>1. /\ answer[c] = None
          /\ joins[c] = None
          /\ \A e \in Conns : answer[e] # c
          /\ \A e \in Conns : phase[e] = "joining" => target[e] # c
      BY <2>j, Uninvolved DEF Join, Involved
    <3>2. /\ phase' = [phase EXCEPT ![c] = "joining"] /\ phase[c] = "opening"
          /\ joins' = [joins EXCEPT ![ch] = None]
          /\ device' = [device EXCEPT ![c] = d]
          /\ token' = [token EXCEPT ![c] = t]
          /\ target' = [target EXCEPT ![c] = ch]
          /\ UNCHANGED <<tokens, answer>>
      BY <2>j DEF Join, Take
    <3>3. ch \in Conns /\ joins[ch] = d /\ tokens[d] = t /\ d # None /\ t # None
      BY <2>j DEF Join, MayTake, Authorized, Shape
    <3>4. /\ ch # c
          /\ phase[ch] \in {"inviting", "waiting", "refusing"}
          /\ device[ch] = d
          /\ answer[ch] = None
      BY <3>2, <3>3 DEF Channels, PendingHasDial, Pending, Answered
    <3>5. \A e \in Conns : phase[e] = "joining" => target[e] # ch
      BY <3>3 DEF Channels, OneJoinPerDial
    <3>6. /\ \A e \in Conns : phase'[e] = IF e = c THEN "joining" ELSE phase[e]
          /\ \A e \in Conns : joins'[e] = IF e = ch THEN None ELSE joins[e]
          /\ \A e \in Conns : device'[e] = IF e = c THEN d ELSE device[e]
          /\ \A e \in Conns : token'[e] = IF e = c THEN t ELSE token[e]
          /\ \A e \in Conns : target'[e] = IF e = c THEN ch ELSE target[e]
          /\ UNCHANGED <<tokens, answer>>
      BY <3>2, <3>3 DEF Shape
    <3>p0. Answered'
      BY <2>j, <3>1, <3>2, <3>3, <3>4, <3>5, <3>6 DEF Channels, Answered
    <3>p1. Joining'
      BY <2>j, <3>1, <3>2, <3>3, <3>4, <3>5, <3>6 DEF Channels, Joining
    <3>p2. Owned'
      BY <2>j, <3>1, <3>2, <3>3, <3>4, <3>5, <3>6 DEF Channels, Owned
    <3>p3. OneJoinPerDial'
      BY <2>j, <3>1, <3>2, <3>3, <3>4, <3>5, <3>6 DEF Channels, OneJoinPerDial, Joining
    <3>p4. LinkedWithOwner'
      BY <2>j, <3>1, <3>2, <3>3, <3>4, <3>5, <3>6 DEF Channels, LinkedWithOwner
    <3>p5. PendingHasDial'
      BY <2>j, <3>1, <3>2, <3>3, <3>4, <3>5, <3>6 DEF Channels, PendingHasDial, Pending
    <3>p6. NoOrphanCarrier'
      BY <2>j, <3>1, <3>2, <3>3, <3>4, <3>5, <3>6 DEF Channels, NoOrphanCarrier
    <3> QED
      BY <3>p0, <3>p1, <3>p2, <3>p3, <3>p4, <3>p5, <3>p6 DEF Channels
  <2>h. CASE HandOver(c)
    <3> DEFINE ch == target[c]
    <3>1. /\ phase' = [phase EXCEPT ![c] = "handed"] /\ phase[c] = "joining"
          /\ answer' = [answer EXCEPT ![ch] = c]
          /\ UNCHANGED <<device, token, tokens, target, joins>>
          /\ phase[ch] \in {"inviting", "waiting"}
      BY <2>h DEF HandOver, Listening
    <3>2. /\ ch \in Conns /\ ch # c
          /\ answer[ch] = None
          /\ joins[ch] = None
          /\ device[c] = device[ch] /\ device[c] \in Devices
          /\ token[c] = tokens[device[c]] /\ token[c] # None
      BY <3>1 DEF Channels, Joining, OneJoinPerDial
    <3>3. /\ \A e \in Conns : answer[e] # c
          /\ answer[c] = None
          /\ \A e \in Conns \ {c} : phase[e] = "joining" => target[e] # ch
      BY <3>1 DEF Channels, Answered, OneJoinPerDial
    <3>4. /\ \A e \in Conns : phase'[e] = IF e = c THEN "handed" ELSE phase[e]
          /\ \A e \in Conns : answer'[e] = IF e = ch THEN c ELSE answer[e]
      BY <3>1, <3>2 DEF Shape
    <3> HIDE DEF ch
    <3>p0. Answered'
      BY <3>1, <3>2, <3>3, <3>4 DEF Channels, Answered
    <3>p1. Joining'
      BY <3>1, <3>2, <3>3, <3>4 DEF Channels, Joining
    <3>p2. Owned'
      BY <3>1, <3>2, <3>3, <3>4 DEF Channels, Owned
    <3>p3. OneJoinPerDial'
      BY <3>1, <3>2, <3>3, <3>4 DEF Channels, OneJoinPerDial, Joining
    <3>p4. LinkedWithOwner'
      BY <3>1, <3>2, <3>3, <3>4 DEF Channels, LinkedWithOwner
    <3>p5. PendingHasDial'
      BY <3>1, <3>2, <3>3, <3>4 DEF Channels, PendingHasDial, Pending
    <3>p6. NoOrphanCarrier'
      BY <3>1, <3>2, <3>3, <3>4 DEF Channels, NoOrphanCarrier
    <3> QED
      BY <3>p0, <3>p1, <3>p2, <3>p3, <3>p4, <3>p5, <3>p6 DEF Channels
  <2>l. CASE HandOverLate(c)
    <3>0. /\ joins[c] = None
          /\ answer[c] = None
          /\ \A e \in Conns : answer[e] # c
      BY <2>l DEF HandOverLate, Channels, Answered, PendingHasDial, Pending
    <3>p0. Answered'
      BY <2>l, <3>0 DEF HandOverLate, Return, Shape, Channels, Answered
    <3>p1. Joining'
      BY <2>l, <3>0 DEF HandOverLate, Return, Shape, Channels, Joining
    <3>p2. Owned'
      BY <2>l, <3>0 DEF HandOverLate, Return, Shape, Channels, Owned
    <3>p3. OneJoinPerDial'
      BY <2>l, <3>0 DEF HandOverLate, Return, Shape, Channels, OneJoinPerDial, Joining
    <3>p4. LinkedWithOwner'
      BY <2>l, <3>0 DEF HandOverLate, Return, Shape, Channels, LinkedWithOwner
    <3>p5. PendingHasDial'
      BY <2>l, <3>0 DEF HandOverLate, Return, Shape, Channels, PendingHasDial, Pending
    <3>p6. NoOrphanCarrier'
      BY <2>l, <3>0 DEF HandOverLate, Return, Shape, Channels, NoOrphanCarrier
    <3> QED
      BY <3>p0, <3>p1, <3>p2, <3>p3, <3>p4, <3>p5, <3>p6 DEF Channels
  <2>e. CASE Refused(c) \/ DialEnds(c)
    <3>1. DropDial(c) /\ joins' = [joins EXCEPT ![c] = None]
      BY <2>e DEF Refused, DialEnds, ReleaseDial
    <3>2. UNCHANGED <<device, token, tokens, target, answer>>
      BY <2>e DEF Refused, DialEnds
    <3>3. phase[c] \in {"refusing", "linking", "linked"}
      BY <2>e DEF Refused, DialEnds
    <3>4. \A e \in Conns : phase'[e] = IF e \in {c, answer[c]} THEN "closed" ELSE phase[e]
      BY <3>1, DropDialEffect
    <3>5. answer[c] \in Conns => phase[answer[c]] = "handed"
      BY <3>3 DEF Channels, Answered
    <3>6. \A e \in Conns : answer[e] # c
      BY <3>3 DEF Channels, Answered
    <3>7. \A e \in Conns \ {c} : answer[e] \in Conns => answer[e] # answer[c]
      BY DEF Channels, LinkedWithOwner
    <3>8. \A e \in Conns : joins'[e] = IF e = c THEN None ELSE joins[e]
      BY <3>1 DEF Shape
    <3>p0. Answered'
      BY <3>2, <3>3, <3>4, <3>5, <3>6, <3>7, <3>8 DEF Channels, Answered
    <3>p1. Joining'
      BY <3>2, <3>3, <3>4, <3>5, <3>6, <3>7, <3>8 DEF Channels, Joining
    <3>p2. Owned'
      BY <3>2, <3>3, <3>4, <3>5, <3>6, <3>7, <3>8 DEF Channels, Owned
    <3>p3. OneJoinPerDial'
      BY <3>2, <3>3, <3>4, <3>5, <3>6, <3>7, <3>8 DEF Channels, OneJoinPerDial, Joining
    <3>p4. LinkedWithOwner'
      BY <3>2, <3>3, <3>4, <3>5, <3>6, <3>7, <3>8 DEF Channels, LinkedWithOwner
    <3>p5. PendingHasDial'
      BY <3>2, <3>3, <3>4, <3>5, <3>6, <3>7, <3>8 DEF Channels, PendingHasDial, Pending
    <3>p6. NoOrphanCarrier'
      BY <3>2, <3>3, <3>4, <3>5, <3>6, <3>7, <3>8 DEF Channels, NoOrphanCarrier
    <3> QED
      BY <3>p0, <3>p1, <3>p2, <3>p3, <3>p4, <3>p5, <3>p6 DEF Channels
  <2> QED
    BY <1>2, <2>1, <2>2, <2>3, <2>4, <2>5, <2>6, <2>7, <2>8, <2>9, <2>10, <2>11, <2>12, <2>13, <2>14, <2>15, <2>16, <2>17, <2>18, <2>19, <2>20, <2>21, <2>22, <2>23, <2>f, <2>d, <2>r, <2>j, <2>h, <2>l, <2>e DEF Opening, Lost, Serve
<1> QED
  BY <1>1, <1>2 DEF Next

LEMMA ListingInit == Init => Listing
BY RelayConstants DEF Init, Listing, Numbered, ListingIsExact

\* Phases in which a control has its generation.
HasGeneration == {"numbered", "serving", "leaving"}

\* A step that leaves the tables, and every control that has a generation,
\* as they were.
LEMMA ListingIgnore ==
    ASSUME Shape, Listing,
           \A e \in Conns : phase[e] \in HasGeneration \/ phase'[e] \in HasGeneration =>
               phase'[e] = phase[e] /\ device'[e] = device[e],
           UNCHANGED <<generations, generation, agents, cancelled>>
    PROVE  Listing'
<1>1. Numbered'
  BY DEF Listing, Numbered, HasGeneration
<1>2. ASSUME NEW d \in Devices, agents'[d] # None, agents[d] \in Conns
      PROVE  phase'[agents'[d]] \in {"serving", "leaving"} /\ device'[agents'[d]] = d
  BY <1>2 DEF Listing, ListingIsExact, HasGeneration
<1>3. ASSUME NEW e \in Conns, phase'[e] = "serving", e \notin cancelled'
      PROVE  agents'[device'[e]] = e
  BY <1>3 DEF Listing, ListingIsExact, HasGeneration
<1> QED
  BY <1>1, <1>2, <1>3 DEF Shape, Listing, ListingIsExact

LEMMA ListingStep == Shape /\ Channels /\ Listing /\ [Next]_vars => Listing'
<1> SUFFICES ASSUME Shape, Channels, Listing, [Next]_vars PROVE Listing'
  OBVIOUS
<1> USE RelayConstants DEF claimVars, controlVars, dialVars
<1>1. CASE UNCHANGED vars
  BY <1>1, ListingIgnore DEF vars
<1>2. ASSUME NEW c \in Conns, Opening(c) \/ Lost(c) \/ Serve(c) PROVE Listing'
  <2>1. CASE Accept(c)
    BY <2>1, ListingIgnore DEF Accept, Goto, Shape, HasGeneration
  <2>2. CASE AcceptRefused(c)
    BY <2>2, ListingIgnore DEF AcceptRefused, Goto, Shape, HasGeneration
  <2>3. CASE OpeningEnds(c)
    BY <2>3, ListingIgnore DEF OpeningEnds, Return, Goto, Shape, HasGeneration
  <2>4. CASE BadRequest(c)
    BY <2>4, ListingIgnore DEF BadRequest, Goto, Shape, HasGeneration
  <2>5. CASE RegisteredUnwritten(c)
    BY <2>5, ListingIgnore DEF RegisteredUnwritten, Return, Goto, Shape, HasGeneration
  <2>6. CASE ReserveDial(c)
    BY <2>6, ListingIgnore DEF ReserveDial, Goto, Shape, HasGeneration
  <2>7. CASE ReserveBusy(c)
    BY <2>7, ListingIgnore DEF ReserveBusy, Goto, Shape, HasGeneration
  <2>8. CASE Invite(c)
    BY <2>8, ListingIgnore DEF Invite, Goto, Shape, HasGeneration
  <2>9. CASE InviteFails(c)
    BY <2>9, ListingIgnore DEF InviteFails, Goto, Shape, HasGeneration
  <2>10. CASE DialTimesOut(c)
    BY <2>10, ListingIgnore DEF DialTimesOut, Goto, Shape, HasGeneration
  <2>11. CASE DialDeclined(c)
    BY <2>11, ListingIgnore DEF DialDeclined, Goto, Shape, HasGeneration
  <2>12. CASE DialJoined(c)
    BY <2>12, ListingIgnore DEF DialJoined, Goto, Shape, HasGeneration
  <2>13. CASE Link(c)
    BY <2>13, ListingIgnore DEF Link, Goto, Shape, HasGeneration
  <2>14. CASE LinkAgentLost(c)
    BY <2>14, ListingIgnore DEF LinkAgentLost, Goto, Shape, HasGeneration
  <2>15. CASE HandOver(c)
    BY <2>15, ListingIgnore DEF HandOver, Goto, Shape, HasGeneration
  <2>16. CASE HandOverLate(c)
    BY <2>16, ListingIgnore DEF HandOverLate, Return, Goto, Shape, HasGeneration
  <2>17. CASE Forward(c)
    BY <2>17, ListingIgnore DEF Forward, Goto, Shape, HasGeneration
  <2>18. CASE ForwardFails(c)
    BY <2>18, ListingIgnore DEF ForwardFails, Goto, Shape, HasGeneration
  <2>19. ASSUME NEW d \in Devices, NEW t \in Tokens, Register(c, d, t) PROVE Listing'
    BY <2>19, ListingIgnore DEF Register, Goto, Shape, HasGeneration
  <2>20. ASSUME NEW d \in Devices, NEW t \in Tokens, RegisterRefused(c, d, t) PROVE Listing'
    BY <2>20, ListingIgnore DEF RegisterRefused, Goto, Shape, HasGeneration
  <2>21. ASSUME NEW d \in Devices, Dial(c, d) PROVE Listing'
    BY <2>21, ListingIgnore DEF Dial, Goto, Shape, HasGeneration
  <2>22. ASSUME NEW d \in Devices, DialOffline(c, d) PROVE Listing'
    BY <2>22, ListingIgnore DEF DialOffline, Goto, Shape, HasGeneration
  <2>23. ASSUME NEW ch \in told, NEW d \in Devices, NEW t \in Tokens, Join(c, ch, d, t) PROVE Listing'
    BY <2>23, ListingIgnore DEF Join, Goto, Shape, HasGeneration
  <2>24. ASSUME NEW ch \in told, NEW d \in Devices, NEW t \in Tokens, JoinRefused(c, ch, d, t) PROVE Listing'
    BY <2>24, ListingIgnore DEF JoinRefused, Goto, Shape, HasGeneration
  <2>25. ASSUME NEW ch \in Conns, Decline(c, ch) PROVE Listing'
    BY <2>25, ListingIgnore DEF Decline, Goto, Shape, HasGeneration
  <2>e. CASE Refused(c) \/ DialEnds(c)
    <3>1. DropDial(c) /\ phase[c] \in {"refusing", "linking", "linked"}
      BY <2>e DEF Refused, DialEnds
    <3>2. answer[c] \in Conns => phase[answer[c]] = "handed"
      BY <3>1 DEF Channels, Answered
    <3>3. \A e \in Conns : phase'[e] = IF e \in {c, answer[c]} THEN "closed" ELSE phase[e]
      BY <3>1, DropDialEffect
    <3>4. UNCHANGED <<device, generations, generation, agents, cancelled>>
      BY <2>e DEF Refused, DialEnds
    <3> QED
      BY <3>1, <3>2, <3>3, <3>4, ListingIgnore DEF HasGeneration
  <2>n. CASE Number(c)
    <3>1. /\ phase' = [phase EXCEPT ![c] = "numbered"]
          /\ phase[c] = "registering"
          /\ generations' = generations + 1
          /\ generation' = [generation EXCEPT ![c] = generations + 1]
          /\ UNCHANGED <<device, agents, cancelled>>
      BY <2>n DEF Number, Goto
    <3>2. Numbered'
      BY <3>1 DEF Shape, Listing, Numbered
    <3>3. ListingIsExact'
      BY <3>1 DEF Shape, Listing, ListingIsExact
    <3> QED
      BY <3>2, <3>3 DEF Listing
  <2>l. CASE List(c)
    <3>1. /\ phase' = [phase EXCEPT ![c] = "serving"]
          /\ phase[c] = "numbered"
          /\ agents' = [agents EXCEPT ![device[c]] = c]
          /\ cancelled' = cancelled \cup ({agents[device[c]]} \ {None})
          /\ UNCHANGED <<device, generations, generation>>
      BY <2>l DEF List, Goto
    <3>2. Numbered'
      BY <3>1 DEF Shape, Listing, Numbered
    <3>3. device[c] \in Devices
      BY <3>1 DEF Shape, ControlPhases
    <3>4. ListingIsExact'
      BY <3>1, <3>3 DEF Shape, Listing, ListingIsExact
    <3> QED
      BY <3>2, <3>4 DEF Listing
  <2>c. CASE ControlLost(c) \/ ControlStopped(c)
    <3>1. /\ phase' = [phase EXCEPT ![c] = "leaving"]
          /\ phase[c] = "serving"
          /\ UNCHANGED <<device, generations, generation, agents, cancelled>>
      BY <2>c DEF ControlLost, ControlStopped, LeaveLoop, Goto
    <3>2. Numbered'
      BY <3>1 DEF Shape, Listing, Numbered
    <3>3. ListingIsExact'
      BY <3>1 DEF Shape, Listing, ListingIsExact
    <3> QED
      BY <3>2, <3>3 DEF Listing
  \* The generation decides: the entry goes exactly if it is this task's own.
  <2>u. CASE Unlist(c)
    <3>1. /\ phase' = [phase EXCEPT ![c] = "closed"]
          /\ phase[c] = "leaving"
          /\ agents' = IF IsListed(c) THEN [agents EXCEPT ![device[c]] = None] ELSE agents
          /\ UNCHANGED <<device, generations, generation, cancelled>>
      BY <2>u DEF Unlist, Return, Goto
    <3>2. device[c] \in Devices /\ generation[c] # 0
      BY <3>1 DEF Shape, ControlPhases, Listing, Numbered
    <3>3. IsListed(c) <=> agents[device[c]] = c
      BY <3>2 DEF IsListed, Shape, Listing, Numbered
    <3>4. Numbered'
      BY <3>1 DEF Shape, Listing, Numbered
    <3>5. ListingIsExact'
      BY <3>1, <3>2, <3>3 DEF Shape, Listing, ListingIsExact
    <3> QED
      BY <3>4, <3>5 DEF Listing
  <2> QED
    BY <1>2, <2>1, <2>2, <2>3, <2>4, <2>5, <2>6, <2>7, <2>8, <2>9, <2>10, <2>11, <2>12, <2>13, <2>14, <2>15, <2>16, <2>17, <2>18, <2>19, <2>20, <2>21, <2>22, <2>23, <2>24, <2>25, <2>e, <2>n, <2>l, <2>c, <2>u DEF Opening, Lost, Serve
<1> QED
  BY <1>1, <1>2 DEF Next

LEMMA PermitsInit == Init => Permits
<1> SUFFICES ASSUME Init PROVE Permits
  OBVIOUS
<1>1. Holders = {}
  BY DEF Init, Holders
<1>2. Cardinality(Holders) = 0
  BY <1>1, FS_EmptySet
<1> QED
  BY <1>2, RelayConstants DEF Init, Permits, PermitsAccounted

\* The carriers that hold a permit are finitely many.
LEMMA HoldersFinite == IsFiniteSet(Holders) /\ Cardinality(Holders) \in Nat
BY RelayConstants, FS_Subset, FS_CardinalityType DEF Holders

\* A step that changes neither the holders nor the free permits.
LEMMA PermitsKept ==
    ASSUME Permits, slots' = slots,
           \A e \in Conns : phase[e] \in {"unopened", "closed"} <=> phase'[e] \in {"unopened", "closed"}
    PROVE  Permits'
<1>1. Holders' = Holders
  BY DEF Holders
<1> QED
  BY <1>1 DEF Permits, PermitsAccounted

\* A task that returns gives back its permit.
LEMMA PermitReturned ==
    ASSUME Shape, Permits, NEW c \in Conns, phase[c] \notin {"unopened", "closed"}, Return(c)
    PROVE  Permits'
<1>1. c \in Holders /\ Holders' = Holders \ {c}
  BY DEF Return, Goto, Holders, Shape
<1>2. Cardinality(Holders') = Cardinality(Holders) - 1
  BY <1>1, HoldersFinite, FS_RemoveElement
<1> QED
  BY <1>2, HoldersFinite DEF Return, Permits, PermitsAccounted, Shape

LEMMA PermitsStep == Shape /\ Channels /\ Permits /\ [Next]_vars => Permits'
<1> SUFFICES ASSUME Shape, Channels, Permits, [Next]_vars PROVE Permits'
  OBVIOUS
<1> USE RelayConstants DEF claimVars, controlVars, dialVars
<1>1. CASE UNCHANGED vars
  BY <1>1, PermitsKept DEF vars
<1>2. ASSUME NEW c \in Conns, Opening(c) \/ Lost(c) \/ Serve(c) PROVE Permits'
  <2>a. CASE Accept(c)
    <3>1. c \notin Holders /\ Holders' = Holders \cup {c}
      BY <2>a DEF Accept, Goto, Holders, Shape
    <3>2. Cardinality(Holders') = Cardinality(Holders) + 1
      BY <3>1, HoldersFinite, FS_AddElement
    <3>3. slots' = slots - 1 /\ slots > 0
      BY <2>a DEF Accept
    <3> QED
      BY <3>2, <3>3, HoldersFinite DEF Permits, PermitsAccounted, Shape
  <2>1. CASE OpeningEnds(c)
    BY <2>1, PermitReturned DEF OpeningEnds
  <2>2. CASE RegisteredUnwritten(c)
    BY <2>2, PermitReturned DEF RegisteredUnwritten
  <2>3. CASE HandOverLate(c)
    BY <2>3, PermitReturned DEF HandOverLate
  <2>4. CASE Unlist(c)
    BY <2>4, PermitReturned DEF Unlist
  <2>5. CASE AcceptRefused(c)
    BY <2>5, PermitsKept DEF AcceptRefused, Goto, Shape
  <2>6. CASE BadRequest(c)
    BY <2>6, PermitsKept DEF BadRequest, Goto, Shape
  <2>7. CASE Number(c)
    BY <2>7, PermitsKept DEF Number, Goto, Shape
  <2>8. CASE List(c)
    BY <2>8, PermitsKept DEF List, Goto, Shape
  <2>9. CASE ControlLost(c)
    BY <2>9, PermitsKept DEF ControlLost, LeaveLoop, Goto, Shape
  <2>10. CASE ControlStopped(c)
    BY <2>10, PermitsKept DEF ControlStopped, LeaveLoop, Goto, Shape
  <2>11. CASE ReserveDial(c)
    BY <2>11, PermitsKept DEF ReserveDial, Goto, Shape
  <2>12. CASE ReserveBusy(c)
    BY <2>12, PermitsKept DEF ReserveBusy, Goto, Shape
  <2>13. CASE Invite(c)
    BY <2>13, PermitsKept DEF Invite, Goto, Shape
  <2>14. CASE InviteFails(c)
    BY <2>14, PermitsKept DEF InviteFails, Goto, Shape
  <2>15. CASE DialTimesOut(c)
    BY <2>15, PermitsKept DEF DialTimesOut, Goto, Shape
  <2>16. CASE DialDeclined(c)
    BY <2>16, PermitsKept DEF DialDeclined, Goto, Shape
  <2>17. CASE DialJoined(c)
    BY <2>17, PermitsKept DEF DialJoined, Goto, Shape
  <2>18. CASE Link(c)
    BY <2>18, PermitsKept DEF Link, Goto, Shape
  <2>19. CASE LinkAgentLost(c)
    BY <2>19, PermitsKept DEF LinkAgentLost, Goto, Shape
  <2>20. CASE HandOver(c)
    BY <2>20, PermitsKept DEF HandOver, Goto, Shape
  <2>21. CASE Forward(c)
    BY <2>21, PermitsKept DEF Forward, Goto, Shape
  <2>22. CASE ForwardFails(c)
    BY <2>22, PermitsKept DEF ForwardFails, Goto, Shape
  <2>23. ASSUME NEW d \in Devices, NEW t \in Tokens, Register(c, d, t) PROVE Permits'
    BY <2>23, PermitsKept DEF Register, Goto, Shape
  <2>24. ASSUME NEW d \in Devices, NEW t \in Tokens, RegisterRefused(c, d, t) PROVE Permits'
    BY <2>24, PermitsKept DEF RegisterRefused, Goto, Shape
  <2>25. ASSUME NEW d \in Devices, Dial(c, d) PROVE Permits'
    BY <2>25, PermitsKept DEF Dial, Goto, Shape
  <2>26. ASSUME NEW d \in Devices, DialOffline(c, d) PROVE Permits'
    BY <2>26, PermitsKept DEF DialOffline, Goto, Shape
  <2>27. ASSUME NEW ch \in told, NEW d \in Devices, NEW t \in Tokens, Join(c, ch, d, t) PROVE Permits'
    BY <2>27, PermitsKept DEF Join, Goto, Shape
  <2>28. ASSUME NEW ch \in told, NEW d \in Devices, NEW t \in Tokens, JoinRefused(c, ch, d, t) PROVE Permits'
    BY <2>28, PermitsKept DEF JoinRefused, Goto, Shape
  <2>29. ASSUME NEW ch \in Conns, Decline(c, ch) PROVE Permits'
    BY <2>29, PermitsKept DEF Decline, Goto, Shape
  \* A dial returns with the carrier it was handed: two permits, or one.
  <2>e. CASE Refused(c) \/ DialEnds(c)
    <3>1. DropDial(c) /\ phase[c] \in {"refusing", "linking", "linked"}
      BY <2>e DEF Refused, DialEnds
    <3>2. CASE answer[c] \notin Conns
      <4>1. Return(c)
        BY <3>1, <3>2 DEF DropDial
      <4> QED
        BY <3>1, <4>1, PermitReturned
    <3>3. CASE answer[c] \in Conns
      <4>1. phase[answer[c]] = "handed" /\ answer[c] # c
        BY <3>1, <3>3 DEF Channels, Answered
      <4>2. \A e \in Conns : phase'[e] = IF e \in {c, answer[c]} THEN "closed" ELSE phase[e]
        BY <3>1, DropDialEffect
      <4>3. Holders' = (Holders \ {c}) \ {answer[c]} /\ c \in Holders /\ answer[c] \in Holders \ {c}
        BY <3>1, <3>3, <4>1, <4>2 DEF Holders
      <4>4. IsFiniteSet(Holders \ {c}) /\ Cardinality(Holders \ {c}) = Cardinality(Holders) - 1
        BY <4>3, HoldersFinite, FS_RemoveElement
      <4>5. Cardinality(Holders') = Cardinality(Holders \ {c}) - 1
        BY <4>3, <4>4, FS_RemoveElement
      <4>6. slots' = slots + 2
        BY <3>1, <3>3, DropDialEffect
      <4> QED
        BY <4>4, <4>5, <4>6, HoldersFinite DEF Permits, PermitsAccounted, Shape
    <3> QED
      BY <3>2, <3>3
  <2> QED
    BY <1>2, <2>1, <2>2, <2>3, <2>4, <2>5, <2>6, <2>7, <2>8, <2>9, <2>10, <2>11, <2>12, <2>13, <2>14, <2>15, <2>16, <2>17, <2>18, <2>19, <2>20, <2>21, <2>22, <2>23, <2>24, <2>25, <2>26, <2>27, <2>28, <2>29, <2>a, <2>e DEF Opening, Lost, Serve
<1> QED
  BY <1>1, <1>2 DEF Next

\* IInv is inductive, so it holds of every reachable state.
LEMMA IInvInvariant == Spec => []IInv
<1>1. Init => IInv
  BY ShapeInit, ListingInit, ChannelsInit, PermitsInit DEF IInv
<1>2. IInv /\ [Next]_vars => IInv'
  BY ShapeStep, ListingStep, ChannelsStep, PermitsStep DEF IInv
<1> QED
  BY <1>1, <1>2, PTL DEF Spec

\* The variables always have their types; in particular the accept loop never
\* finds more free permits than connection_slots was created with.
THEOREM TypeCorrect == Spec => []TypeOK
<1>1. IInv => TypeOK
  <2> SUFFICES ASSUME IInv PROVE TypeOK
    OBVIOUS
  <2>1. slots \in 0..MaxConnections
    BY HoldersFinite, RelayConstants DEF IInv, Shape, Permits, PermitsAccounted
  <2> QED
    BY <2>1 DEF IInv, Shape, TypeOK
<1> QED
  BY <1>1, IInvInvariant, PTL

\* For any number of connections and devices: the agents table always lists
\* exactly the controls that serve, whatever registrations race each other.
THEOREM ListingCorrect == Spec => []ListingIsExact
<1>1. IInv => ListingIsExact
  BY DEF IInv, Listing
<1> QED
  BY <1>1, IInvInvariant, PTL

\* For any number of dials, joins and devices: a viewer is only ever handed a
\* carrier that presented the token its device was claimed with.
THEOREM LinkCorrect == Spec => []LinkedWithOwner
<1>1. IInv => LinkedWithOwner
  BY DEF IInv, Channels
<1> QED
  BY <1>1, IInvInvariant, PTL

\* A pending entry always has a running dial, and a sender is taken once.
THEOREM PendingCorrect == Spec => []DialsAccounted
<1>1. IInv => DialsAccounted
  BY DEF IInv, Channels, DialsAccounted
<1> QED
  BY <1>1, IInvInvariant, PTL

\* For every carrier cap: no permit is lost or given back twice, and no carrier
\* that was handed over is left without a dial that will drop it.
THEOREM PermitsCorrect == Spec => []CarriersAccounted
<1>1. IInv => CarriersAccounted
  BY DEF IInv, Channels, Permits, CarriersAccounted
<1> QED
  BY <1>1, IInvInvariant, PTL

\* Once a dial has given up, nothing that arrives late answers it.
THEOREM LateCorrect == Spec => NoLateLink
<1>1. IInv /\ [Next]_vars => [\A c \in Conns : phase[c] = "refusing" => answer'[c] = answer[c]]_vars
  <2> SUFFICES ASSUME IInv, [Next]_vars, NEW v \in Conns, phase[v] = "refusing"
               PROVE  answer'[v] = answer[v]
    OBVIOUS
  <2> USE DEF controlVars, dialVars
  <2>1. CASE UNCHANGED vars
    BY <2>1 DEF vars
  <2>2. ASSUME NEW c \in Conns, HandOver(c) PROVE answer'[v] = answer[v]
    BY <2>2 DEF HandOver, Listening, IInv, Shape
  <2>3. ASSUME NEW c \in Conns, NEW ch \in Conns, Decline(c, ch) PROVE answer'[v] = answer[v]
    BY <2>3 DEF Decline, Listening, IInv, Shape
  <2>4. ASSUME NEW c \in Conns, Opening(c) PROVE answer'[v] = answer[v]
    BY <2>4 DEF Opening, Accept, AcceptRefused, OpeningEnds, BadRequest, Register,
                RegisterRefused, Dial, DialOffline, Join, JoinRefused
  <2>5. ASSUME NEW c \in Conns, Lost(c) PROVE answer'[v] = answer[v]
    BY <2>3, <2>5 DEF Lost, RegisteredUnwritten, ForwardFails, ControlLost, LeaveLoop,
                      LinkAgentLost, DialEnds
  <2>6. ASSUME NEW c \in Conns, Serve(c) PROVE answer'[v] = answer[v]
    BY <2>2, <2>6 DEF Serve, Refused, Number, List, Forward, ControlStopped, LeaveLoop,
                      Unlist, ReserveDial, ReserveBusy, Invite, InviteFails, DialTimesOut,
                      DialDeclined, DialJoined, Link, HandOverLate
  <2> QED
    BY <2>1, <2>4, <2>5, <2>6 DEF Next
<1> QED
  BY <1>1, IInvInvariant, PTL DEF Spec, NoLateLink

\* A device is claimed once and for all, and a dial is answered once: what its task finds
\* is never exchanged for another carrier or a later refusal.
Final ==
    [][/\ \A d \in Devices : tokens[d] # None => tokens'[d] = tokens[d]
       /\ \A c \in Conns : answer[c] # None => answer'[c] = answer[c]]_vars

\* However claims, joins, refusals and time-outs race (DeviceRegistry::claim,
\* take_pending_join and the one-shot sender of a dial): the first of each wins for good.
THEOREM FinalCorrect == Spec => Final
<1> DEFINE Stays == /\ \A d \in Devices : tokens[d] # None => tokens'[d] = tokens[d]
                    /\ \A c \in Conns : answer[c] # None => answer'[c] = answer[c]
<1>1. IInv /\ [Next]_vars => Stays
  <2> SUFFICES ASSUME IInv, [Next]_vars PROVE Stays
    OBVIOUS
  <2> USE DEF claimVars, controlVars, dialVars
  <2>1. CASE UNCHANGED vars
    BY <2>1 DEF vars
  <2>2. ASSUME NEW c \in Conns, HandOver(c) PROVE Stays
    BY <2>2 DEF HandOver, Listening, IInv, Shape, Channels, Joining, OneJoinPerDial
  <2>3. ASSUME NEW c \in Conns, NEW ch \in Conns, Decline(c, ch) PROVE Stays
    <3>1. joins[ch] # None /\ claimVars' = claimVars
      BY <2>3, RelayConstants DEF Decline, MayTake, IInv, Shape, ControlPhases
    <3>2. answer[ch] = None
      BY <3>1 DEF IInv, Channels, Answered
    <3> QED
      BY <2>3, <3>1, <3>2 DEF Decline, IInv, Shape
  <2>4. ASSUME NEW c \in Conns, Opening(c) PROVE Stays
    <3>1. ASSUME NEW d \in Devices, NEW t \in Tokens, Register(c, d, t) PROVE Stays
      BY <3>1 DEF Register, MayClaim, IInv, Shape
    <3> QED
      BY <2>4, <3>1 DEF Opening, Accept, AcceptRefused, OpeningEnds, BadRequest,
                  RegisterRefused, Dial, DialOffline, Join, JoinRefused
  <2>5. ASSUME NEW c \in Conns, Lost(c) PROVE Stays
    BY <2>3, <2>5 DEF Lost, RegisteredUnwritten, ForwardFails, ControlLost, LeaveLoop,
                      LinkAgentLost, DialEnds
  <2>6. ASSUME NEW c \in Conns, Serve(c) PROVE Stays
    BY <2>2, <2>6 DEF Serve, Refused, Number, List, Forward, ControlStopped, LeaveLoop,
                      Unlist, ReserveDial, ReserveBusy, Invite, InviteFails, DialTimesOut,
                      DialDeclined, DialJoined, Link, HandOverLate
  <2> QED
    BY <2>1, <2>4, <2>5, <2>6 DEF Next
<1> QED
  BY <1>1, IInvInvariant, PTL DEF Spec, Final

(***************************************************************************)
(* RelayServer implements Rendezvous.                                      *)
(***************************************************************************)

\* What a connection presented tells its role by the time its task acts in it.
Roles ==
    \A c \in Conns :
        /\ phase[c] \in {"unopened", "opening"} =>
               device[c] = None /\ token[c] = None /\ target[c] = None
        /\ phase[c] \in ControlPhases => token[c] # None /\ target[c] = None
        /\ phase[c] \in {"joining", "handed"} => IsCarrier(c)
        /\ phase[c] \in DialPhases \/ answer[c] # None => IsViewer(c)
        /\ phase[c] = "refusing" => token[c] = None

LEMMA RolesInit == Init => Roles
BY DEF Init, Roles, ControlPhases, DialPhases

\* A connection whose answer and whose role's variables stay may go on in its role.
LEMMA RolesKept ==
    ASSUME Shape, Roles, NEW c \in Conns, NEW p \in Phases,
           phase' = [phase EXCEPT ![c] = p],
           UNCHANGED <<device, token, target, answer>>,
           \/ p = "closed"
           \/ p = "opening" /\ phase[c] = "unopened"
           \/ p = "refusing" /\ phase[c] \in DialPhases \cup {"opening"}
           \/ p \in ControlPhases /\ phase[c] \in ControlPhases
           \/ p \in DialPhases /\ phase[c] \in DialPhases
           \/ p = "handed" /\ phase[c] = "joining"
    PROVE  Roles'
BY RelayConstants DEF Roles, Shape, IsViewer, IsCarrier, ControlPhases, DialPhases

LEMMA RolesStep == Shape /\ Channels /\ Roles /\ [Next]_vars => Roles'
<1> SUFFICES ASSUME Shape, Channels, Roles, [Next]_vars PROVE Roles'
  OBVIOUS
<1> USE RelayConstants DEF Goto, claimVars, controlVars, dialVars
<1>1. CASE UNCHANGED vars
  BY <1>1 DEF vars, Roles, IsViewer, IsCarrier
<1>2. ASSUME NEW c \in Conns, Opening(c) \/ Lost(c) \/ Serve(c) PROVE Roles'
  <2> USE DEF Phases, ControlPhases, DialPhases
  <2>1. CASE Accept(c) \/ AcceptRefused(c) \/ OpeningEnds(c) \/ BadRequest(c)
    BY <2>1, RolesKept DEF Accept, AcceptRefused, OpeningEnds, Return, BadRequest
  <2>2. CASE RegisteredUnwritten(c) \/ Number(c) \/ List(c) \/ Unlist(c)
    BY <2>2, RolesKept DEF RegisteredUnwritten, Return, Number, List, Unlist
  <2>3. CASE ControlLost(c) \/ ControlStopped(c)
    BY <2>3, RolesKept DEF ControlLost, ControlStopped, LeaveLoop
  <2>4. CASE Forward(c) \/ ForwardFails(c)
    BY <2>4 DEF Forward, ForwardFails, Roles, IsViewer, IsCarrier
  <2>5. CASE ReserveDial(c) \/ ReserveBusy(c) \/ Invite(c) \/ InviteFails(c)
    BY <2>5, RolesKept DEF ReserveDial, ReserveBusy, Invite, InviteFails
  <2>6. CASE DialTimesOut(c) \/ DialDeclined(c) \/ DialJoined(c) \/ Link(c) \/ LinkAgentLost(c)
    BY <2>6, RolesKept DEF DialTimesOut, DialDeclined, DialJoined, Link, LinkAgentLost
  <2>7. CASE HandOverLate(c)
    BY <2>7, RolesKept DEF HandOverLate, Return
  <2>8. ASSUME NEW d \in Devices, NEW t \in Tokens, RegisterRefused(c, d, t) PROVE Roles'
    BY <2>8, RolesKept DEF RegisterRefused
  <2>9. ASSUME NEW d \in Devices, DialOffline(c, d) PROVE Roles'
    BY <2>9, RolesKept DEF DialOffline
  <2>10. ASSUME NEW ch \in told, NEW d \in Devices, NEW t \in Tokens, JoinRefused(c, ch, d, t)
         PROVE  Roles'
    BY <2>10, RolesKept DEF JoinRefused
  \* A connection that is opened has no answer and takes its role.
  <2>o. phase[c] = "opening" => answer[c] = None
    BY Uninvolved DEF Involved
  <2>11. ASSUME NEW d \in Devices, NEW t \in Tokens, Register(c, d, t) PROVE Roles'
    BY <2>11, <2>o DEF Register, Roles, Shape, IsViewer, IsCarrier
  <2>12. ASSUME NEW d \in Devices, Dial(c, d) PROVE Roles'
    BY <2>12, <2>o DEF Dial, Roles, Shape, IsViewer, IsCarrier
  <2>13. ASSUME NEW ch \in told, NEW d \in Devices, NEW t \in Tokens, Join(c, ch, d, t)
         PROVE  Roles'
    <3>1. ch # None
      BY DEF Shape
    <3> QED
      BY <2>13, <2>o, <3>1 DEF Join, Roles, Shape, IsViewer, IsCarrier
  \* Only a dial that listens is answered.
  <2>14. CASE HandOver(c)
    BY <2>14 DEF HandOver, Listening, Roles, Shape, IsViewer, IsCarrier
  <2>15. ASSUME NEW ch \in Conns, Decline(c, ch) PROVE Roles'
    BY <2>15 DEF Decline, Listening, Roles, Shape, IsViewer, IsCarrier
  <2>16. CASE Refused(c) \/ DialEnds(c)
    <3>1. DropDial(c) /\ UNCHANGED <<device, token, target, answer>>
      BY <2>16 DEF Refused, DialEnds
    <3>2. \A e \in Conns : phase'[e] = IF e \in {c, answer[c]} THEN "closed" ELSE phase[e]
      BY <3>1, DropDialEffect
    <3> QED
      BY <3>1, <3>2 DEF Roles, IsViewer, IsCarrier
  <2> QED
    BY <1>2, <2>1, <2>2, <2>3, <2>4, <2>5, <2>6, <2>7, <2>8, <2>9, <2>10, <2>11, <2>12, <2>13,
       <2>14, <2>15, <2>16 DEF Opening, Lost, Serve
<1> QED
  BY <1>1, <1>2 DEF Next

\* What Rendezvous sees of a connection besides its stage.
Wanted(c)  == IF IsViewer(c) \/ IsCarrier(c) THEN device[c] ELSE None
Shown(c)   == IF IsCarrier(c) THEN token[c] ELSE None
Partner(c) == IF answer[c] \in Conns THEN answer[c] ELSE None

\* A step that changes nothing Rendezvous would notice of a connection: it goes on
\* in its role, or has none.
Unseen(e) ==
    /\ answer'[e] = answer[e] \/ (answer[e] \notin Conns /\ answer'[e] \notin Conns)
    /\ \/ ~IsViewer(e) /\ ~IsCarrier(e) /\ ~IsViewer(e)' /\ ~IsCarrier(e)'
       \/ /\ device'[e] = device[e] /\ token'[e] = token[e] /\ target'[e] = target[e]
          /\ phase'[e] = "closed" <=> phase[e] = "closed"
          /\ phase'[e] = "handed" <=> phase[e] = "handed"

LEMMA UnseenSame ==
    ASSUME NEW e \in Conns, Unseen(e)
    PROVE  /\ StageOf(e)' = StageOf(e) /\ Wanted(e)' = Wanted(e)
           /\ Shown(e)' = Shown(e) /\ Partner(e)' = Partner(e)
BY DEF Unseen, StageOf, ViewerStage, CarrierStage, Wanted, Shown, Partner, IsViewer, IsCarrier

LEMMA Invisible ==
    ASSUME tokens' = tokens, \A e \in Conns : Unseen(e)
    PROVE  UNCHANGED R!vars
<1>1. \A e \in Conns : /\ StageOf(e)' = StageOf(e) /\ Wanted(e)' = Wanted(e)
                       /\ Shown(e)' = Shown(e) /\ Partner(e)' = Partner(e)
  BY UnseenSame
<1> QED
  BY <1>1 DEF R!vars, Wanted, Shown, Partner

\* A viewer or a carrier that was not paired leaves.
LEMMA LeavesAlone ==
    ASSUME NEW c \in Conns, StageOf(c) \in {"asking", "offering"}, StageOf(c)' = "over",
           Wanted(c)' = Wanted(c), Shown(c)' = Shown(c), Partner(c)' = Partner(c),
           tokens' = tokens, \A e \in Conns \ {c} : Unseen(e)
    PROVE  R!Next
<1>1. \A e \in Conns \ {c} : /\ StageOf(e)' = StageOf(e) /\ Wanted(e)' = Wanted(e)
                             /\ Shown(e)' = Shown(e) /\ Partner(e)' = Partner(e)
  BY UnseenSame
<1>2. R!GiveUp(c)
  BY <1>1 DEF R!GiveUp, Wanted, Shown, Partner
<1> QED
  BY <1>2 DEF R!Next

LEMMA StepMaps == Shape /\ Channels /\ Roles /\ [Next]_vars => [R!Next]_(R!vars)
<1> SUFFICES ASSUME Shape, Channels, Roles, [Next]_vars PROVE [R!Next]_(R!vars)
  OBVIOUS
<1> USE RelayConstants DEF Goto, claimVars, controlVars, dialVars
<1>1. CASE UNCHANGED vars
  BY <1>1, Invisible DEF vars, Unseen
<1>2. ASSUME NEW c \in Conns, Opening(c) \/ Lost(c) \/ Serve(c) PROVE [R!Next]_(R!vars)
  \* Before it was accepted, and after it was refused, a connection has no role.
  <2>o. phase[c] \in {"unopened", "opening"} =>
            ~IsViewer(c) /\ ~IsCarrier(c) /\ answer[c] = None
    BY Uninvolved DEF Roles, IsViewer, IsCarrier, Involved
  <2>c. phase[c] \in ControlPhases => ~IsViewer(c) /\ ~IsCarrier(c)
    BY DEF Roles, IsViewer, IsCarrier
  <2>1. CASE Accept(c) \/ AcceptRefused(c) \/ OpeningEnds(c) \/ BadRequest(c)
    <3>1. tokens' = tokens /\ \A e \in Conns : Unseen(e)
      BY <2>1, <2>o DEF Accept, AcceptRefused, OpeningEnds, Return, BadRequest, Unseen,
                        IsViewer, IsCarrier, Shape
    <3> QED
      BY <3>1, Invisible
  <2>2. CASE phase[c] = "opening" /\ Goto(c, "refusing")
             /\ UNCHANGED <<device, token, tokens, target, answer>>
    <3>1. \A e \in Conns : Unseen(e)
      BY <2>2, <2>o DEF Unseen, IsViewer, IsCarrier, Shape
    <3> QED
      BY <2>2, <3>1, Invisible
  <2>3. CASE RegisteredUnwritten(c) \/ Number(c) \/ List(c) \/ ControlLost(c)
             \/ ControlStopped(c) \/ Unlist(c)
    <3>1. phase[c] \in ControlPhases
      BY <2>3 DEF RegisteredUnwritten, Number, List, ControlLost, ControlStopped, LeaveLoop,
                  Unlist, ControlPhases
    <3>2. tokens' = tokens /\ \A e \in Conns : Unseen(e)
      BY <2>3, <2>c, <3>1 DEF RegisteredUnwritten, Return, Number, List, ControlLost,
             ControlStopped, LeaveLoop, Unlist, Unseen, IsViewer, IsCarrier, Shape
    <3> QED
      BY <3>2, Invisible
  <2>4. CASE Forward(c) \/ ForwardFails(c)
    BY <2>4, Invisible DEF Forward, ForwardFails, Unseen
  <2>5. CASE \/ ReserveDial(c) \/ ReserveBusy(c) \/ Invite(c) \/ InviteFails(c)
             \/ DialTimesOut(c) \/ DialDeclined(c) \/ DialJoined(c) \/ Link(c) \/ LinkAgentLost(c)
    <3>1. tokens' = tokens /\ \A e \in Conns : Unseen(e)
      BY <2>5 DEF ReserveDial, ReserveBusy, Invite, InviteFails, DialTimesOut, DialDeclined,
                  DialJoined, Link, LinkAgentLost, Unseen, Shape
    <3> QED
      BY <3>1, Invisible
  \* An answer that is no carrier is not seen either.
  <2>6. ASSUME NEW ch \in Conns, Decline(c, ch) PROVE [R!Next]_(R!vars)
    <3>1. answer[ch] = None
      BY <2>6 DEF Decline, MayTake, Channels, Answered, Shape, ControlPhases
    <3>2. tokens' = tokens /\ \A e \in Conns : Unseen(e)
      BY <2>6, <3>1 DEF Decline, Unseen, Shape
    <3> QED
      BY <3>2, Invisible
  \* A control connection claims its device, or proves that it did before.
  <2>7. ASSUME NEW d \in Devices, NEW t \in Tokens, Register(c, d, t) PROVE [R!Next]_(R!vars)
    <3>1. \A e \in Conns : Unseen(e)
      BY <2>7, <2>o DEF Register, Unseen, IsViewer, IsCarrier, Roles, Shape
    <3>2. CASE tokens[d] = t
      BY <2>7, <3>1, <3>2, Invisible DEF Register, Shape
    <3>3. CASE tokens[d] = None
      <4>1. \A e \in Conns : /\ StageOf(e)' = StageOf(e) /\ Wanted(e)' = Wanted(e)
                             /\ Shown(e)' = Shown(e) /\ Partner(e)' = Partner(e)
        BY <3>1, UnseenSame
      <4>2. R!Claim(d, t)
        BY <2>7, <3>3, <4>1 DEF Register, R!Claim, Wanted, Shown, Partner
      <4> QED
        BY <4>2 DEF R!Next
    <3> QED
      BY <2>7, <3>2, <3>3 DEF Register, MayClaim
  \* The others go on as they were when one takes its role.
  <2>8. ASSUME NEW d \in Devices, Dial(c, d) PROVE R!Next
    <3>1. \A e \in Conns \ {c} : Unseen(e)
      BY <2>8 DEF Dial, Unseen, Shape
    <3>2. /\ StageOf(c) = "idle" /\ StageOf(c)' = "asking" /\ Wanted(c)' = d
          /\ Shown(c)' = Shown(c) /\ Partner(c)' = Partner(c) /\ tokens' = tokens
      BY <2>8, <2>o DEF Dial, StageOf, ViewerStage, Wanted, Shown, Partner, IsViewer, IsCarrier,
                        Roles, Shape
    <3>3. \A e \in Conns \ {c} : /\ StageOf(e)' = StageOf(e) /\ Wanted(e)' = Wanted(e)
                                 /\ Shown(e)' = Shown(e) /\ Partner(e)' = Partner(e)
      BY <3>1, UnseenSame
    <3>4. R!Ask(c, d)
      BY <3>2, <3>3 DEF R!Ask, Wanted, Shown, Partner
    <3> QED
      BY <3>4 DEF R!Next
  <2>9. ASSUME NEW ch \in told, NEW d \in Devices, NEW t \in Tokens, Join(c, ch, d, t)
        PROVE  R!Next
    <3>1. \A e \in Conns \ {c} : Unseen(e)
      BY <2>9 DEF Join, Unseen, Shape
    <3>0. ch # None
      BY DEF Shape
    <3>2. /\ StageOf(c) = "idle" /\ StageOf(c)' = "offering" /\ Wanted(c)' = d
          /\ Shown(c)' = t /\ Partner(c)' = Partner(c) /\ tokens' = tokens /\ tokens[d] = t
      BY <2>9, <2>o, <3>0 DEF Join, Authorized, StageOf, CarrierStage, Wanted, Shown, Partner,
                              IsViewer, IsCarrier, Roles, Shape
    <3>3. \A e \in Conns \ {c} : /\ StageOf(e)' = StageOf(e) /\ Wanted(e)' = Wanted(e)
                                 /\ Shown(e)' = Shown(e) /\ Partner(e)' = Partner(e)
      BY <3>1, UnseenSame
    <3>4. R!Offer(c, d, t)
      BY <3>2, <3>3 DEF R!Offer, Wanted, Shown, Partner
    <3> QED
      BY <3>4 DEF R!Next
  \* The carrier is handed to the dial that waits for its device.
  <2>10. CASE HandOver(c)
    <3>0. PICK v \in Conns : v = target[c]
      BY <2>10 DEF HandOver, Listening, Channels, Joining, OneJoinPerDial
    <3>1. /\ v # c /\ answer[v] = None /\ device[c] = device[v]
          /\ phase[c] = "joining" /\ phase[v] \in {"inviting", "waiting"}
      BY <2>10, <3>0 DEF HandOver, Listening, Channels, Joining, OneJoinPerDial
    <3>2. /\ \A e \in Conns : phase'[e] = IF e = c THEN "handed" ELSE phase[e]
          /\ \A e \in Conns : answer'[e] = IF e = v THEN c ELSE answer[e]
          /\ UNCHANGED <<device, token, tokens, target>>
      BY <2>10, <3>0, <3>1 DEF HandOver, Shape
    <3>3. IsViewer(v) /\ IsCarrier(c)
      BY <3>1 DEF Roles, DialPhases
    <3>4. answer[c] \notin Conns
      BY <3>1 DEF Channels, Answered
    <3>5. \A e \in Conns \ {c, v} : Unseen(e)
      BY <3>1, <3>2 DEF Unseen
    <3>6. \A e \in Conns \ {c, v} : /\ StageOf(e)' = StageOf(e) /\ Wanted(e)' = Wanted(e)
                                    /\ Shown(e)' = Shown(e) /\ Partner(e)' = Partner(e)
      BY <3>5, UnseenSame
    <3>7. /\ StageOf(v) = "asking" /\ StageOf(v)' = "paired" /\ Wanted(v)' = Wanted(v)
          /\ Shown(v)' = Shown(v) /\ Partner(v)' = c
      BY <3>1, <3>2, <3>3 DEF StageOf, ViewerStage, Wanted, Shown, Partner, IsViewer, IsCarrier
    <3>8. /\ StageOf(c) = "offering" /\ StageOf(c)' = "paired" /\ Wanted(c)' = Wanted(c)
          /\ Shown(c)' = Shown(c) /\ Partner(c)' = Partner(c)
      BY <3>1, <3>2, <3>3, <3>4 DEF StageOf, CarrierStage, Wanted, Shown, Partner, IsViewer, IsCarrier
    <3>9. Wanted(v) = Wanted(c)
      BY <3>1, <3>3 DEF Wanted
    <3>10. R!Pair(v, c)
      <4>1. \A e \in Conns :
                /\ StageOf(e)' = IF e \in {v, c} THEN "paired" ELSE StageOf(e)
                /\ Partner(e)' = IF e = v THEN c ELSE Partner(e)
                /\ Wanted(e)' = Wanted(e) /\ Shown(e)' = Shown(e)
        BY <3>1, <3>6, <3>7, <3>8
      <4> QED
        BY ZenonT(60), <3>0, <3>1, <3>2, <3>7, <3>8, <3>9, <4>1 DEF R!Pair, Wanted, Shown, Partner
    <3> QED
      BY <3>1, <3>10 DEF R!Next
  <2>11. CASE HandOverLate(c)
    <3>1. \A e \in Conns \ {c} : Unseen(e)
      BY <2>11 DEF HandOverLate, Return, Unseen, Shape
    <3>2. /\ StageOf(c) = "offering" /\ StageOf(c)' = "over" /\ Wanted(c)' = Wanted(c)
          /\ Shown(c)' = Shown(c) /\ Partner(c)' = Partner(c) /\ tokens' = tokens
      BY <2>11 DEF HandOverLate, Return, StageOf, CarrierStage, Wanted, Shown, Partner, IsViewer,
                   IsCarrier, Roles, Shape
    <3> QED
      BY <3>1, <3>2, LeavesAlone
  \* A dial returns: with its carrier, without one, or it never named a device.
  <2>12. CASE Refused(c) \/ DialEnds(c)
    <3>1. DropDial(c) /\ UNCHANGED <<device, token, tokens, target, answer>>
      BY <2>12 DEF Refused, DialEnds
    <3>2. phase[c] \in {"refusing", "linking", "linked"}
      BY <2>12 DEF Refused, DialEnds
    <3>3. \A e \in Conns : phase'[e] = IF e \in {c, answer[c]} THEN "closed" ELSE phase[e]
      BY <3>1, DropDialEffect
    <3>4. \A e \in Conns \ {c, answer[c]} : Unseen(e)
      BY <3>1, <3>3 DEF Unseen
    <3>5. CASE answer[c] \in Conns
      <4>0. PICK p \in Conns : p = answer[c]
        BY <3>5
      <4>1. p # c /\ phase[p] = "handed" /\ IsViewer(c) /\ IsCarrier(p)
        BY <3>2, <4>0 DEF Channels, Answered, Roles
      <4>2. \A e \in Conns \ {c, p} : /\ StageOf(e)' = StageOf(e) /\ Wanted(e)' = Wanted(e)
                                      /\ Shown(e)' = Shown(e) /\ Partner(e)' = Partner(e)
        BY <3>4, <4>0, UnseenSame
      <4>3. /\ StageOf(c) = "paired" /\ StageOf(c)' = "over" /\ Wanted(c)' = Wanted(c)
            /\ Shown(c)' = Shown(c) /\ Partner(c) = p /\ Partner(c)' = p
        <5>1. phase[c] # "closed" /\ phase'[c] = "closed" /\ answer'[c] = p
          BY <3>1, <3>2, <3>3, <4>0
        <5>2. IsViewer(c)' /\ ~IsCarrier(c) /\ ~IsCarrier(c)'
          BY <3>1, <4>1 DEF IsViewer, IsCarrier
        <5>3. StageOf(c) = "paired" /\ StageOf(c)' = "over"
          BY <4>0, <4>1, <5>1, <5>2 DEF StageOf, ViewerStage
        <5> QED
          BY <3>1, <4>0, <4>1, <5>1, <5>2, <5>3 DEF Wanted, Shown, Partner
      <4>4. /\ StageOf(p)' = "over" /\ Wanted(p)' = Wanted(p)
            /\ Shown(p)' = Shown(p) /\ Partner(p)' = Partner(p)
        BY <3>1, <3>3, <4>0, <4>1 DEF StageOf, CarrierStage, Wanted, Shown, Partner, IsViewer,
               IsCarrier
      <4>5. R!Part(c, p)
        BY ZenonT(60), <3>1, <4>1, <4>2, <4>3, <4>4 DEF R!Part, Wanted, Shown, Partner
      <4> QED
        BY <4>0, <4>5 DEF R!Next
    <3>6. CASE answer[c] \notin Conns /\ IsViewer(c)
      <4>1. /\ StageOf(c) = "asking" /\ StageOf(c)' = "over" /\ Wanted(c)' = Wanted(c)
            /\ Shown(c)' = Shown(c) /\ Partner(c)' = Partner(c)
        BY <3>1, <3>2, <3>3, <3>6 DEF StageOf, ViewerStage, Wanted, Shown, Partner, IsViewer,
               IsCarrier
      <4>2. \A e \in Conns \ {c} : Unseen(e)
        BY <3>4, <3>6
      <4> QED
        BY <3>1, <4>1, <4>2, LeavesAlone
    <3>7. CASE answer[c] \notin Conns /\ ~IsViewer(c)
      <4>1. ~IsCarrier(c)
        BY <3>2, <3>7 DEF Roles, IsCarrier, DialPhases
      <4>2. \A e \in Conns : Unseen(e)
        BY <3>1, <3>4, <3>7, <4>1 DEF Unseen, IsViewer, IsCarrier
      <4> QED
        BY <3>1, <4>2, Invisible
    <3> QED
      BY <3>5, <3>6, <3>7
  <2> QED
    BY <1>2, <2>1, <2>2, <2>3, <2>4, <2>5, <2>6, <2>7, <2>8, <2>9, <2>10, <2>11, <2>12
       DEF Opening, Lost, Serve, RegisterRefused, DialOffline, JoinRefused
<1> QED
  BY <1>1, <1>2 DEF Next

\* For any number of viewers, agents and devices the relay keeps the promise of
\* Rendezvous: whatever its tasks, tables and timers do, a viewer is paired at most
\* once, with a carrier of the device it asked for that proved its claim, both part
\* together, and whoever gave up stays alone.
THEOREM PromiseCorrect == Spec => KeepsPromise
<1>1. Init => R!Init
  BY DEF Init, R!Init, StageOf, IsViewer, IsCarrier
<1>2. Init => IInv /\ Roles
  BY ShapeInit, ListingInit, ChannelsInit, PermitsInit, RolesInit DEF IInv
<1>3. IInv /\ Roles /\ [Next]_vars => IInv' /\ Roles'
  BY ShapeStep, ListingStep, ChannelsStep, PermitsStep, RolesStep DEF IInv
<1>4. IInv /\ Roles /\ [Next]_vars => [R!Next]_(R!vars)
  BY StepMaps DEF IInv
<1> QED
  BY <1>1, <1>2, <1>3, <1>4, PTL DEF Spec, KeepsPromise, R!SafeSpec
=============================================================================
