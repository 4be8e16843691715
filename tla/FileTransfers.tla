--------------------------- MODULE FileTransfers ---------------------------
(***************************************************************************)
(* A viewer and an agent with a connection between them: the requests of   *)
(* RemoteFiles arrive at the receive loop of FileJobs in order, and the    *)
(* messages of FileJobs arrive at the reader of RemoteFiles in order.      *)
(* When the connection ends, whatever was still under way is lost.         *)
(***************************************************************************)
EXTENDS FileJobs

CONSTANTS
    RequestCapacity,  \* requests under way to the agent
    MaxBegun          \* transfers ever begun

VARIABLES client, earlier, shown, entry, ready, finishing, caller, received, saved,
          settling, cancels, requests

INSTANCE RemoteFiles

viewerVars == <<client, earlier, shown, entry, ready, finishing, caller, received, saved,
                settling, cancels, requests>>
vars == <<jobVars, viewerVars>>

TypeOK == JobsTypeOK /\ ClientTypeOK

Init == JobsInit /\ ClientInit

Begun == {t \in Ops : caller[t] # "idle"}

\* The viewer connects and the agent serves it.
Meet == NextSession /\ Connect

\* The receive loop takes the oldest request.
Serve ==
    /\ requests # <<>>
    /\ LET r == Head(requests) IN
       \/ r.type = "Start"  /\ Start(r.op)
       \/ r.type = "Cancel" /\ HandleCancel(r.op)
       \/ r.type \in Commands /\ HandleCommand(r.op, r.type)
    /\ requests' = Tail(requests)
    /\ UNCHANGED <<client, earlier, shown, entry, ready, finishing, caller, received,
                   saved, settling, cancels>>

\* The reader takes the oldest message.
Respond ==
    /\ Write
    /\ HandleResponse(Head(outgoing).op, Head(outgoing).type)

\* The viewer's window and its session.
Act ==
    /\ ClientStep
    /\ Cardinality(Begun') <= MaxBegun
    /\ UNCHANGED jobVars

\* Either end sees that the connection is gone.
NoticeLost ==
    /\ ~linked
    /\ ConnectionEnded
    /\ UNCHANGED jobVars

Next ==
    \/ Meet \/ Serve \/ Respond \/ Act \/ NoticeLost
    \/ AgentStep /\ UNCHANGED viewerVars

Spec == Init /\ [][Next]_vars

(***************************************************************************)
(* Properties.                                                             *)
(***************************************************************************)

\* What the window shows as done is done: the file of an upload is in its place
\* at the agent, the file of a download at the viewer, although a cancelled job
\* completes as well (the agent answers a cancel with Complete).  And no transfer
\* is shown as running after everything that could still end it is gone: its entry,
\* or the completion its reader is busy with.
ShownIsReal ==
    \A t \in Ops :
        /\ shown[t] = "done" => t \in published \cup saved
        /\ shown[t] = "running" => t \in entry \/ settling = t
=============================================================================
