------------------------ MODULE FileTransfersProofs ------------------------
(***************************************************************************)
(* The viewer's maps keep their types, and the composition implements the  *)
(* agent that any viewer may talk to: what is proved of FileJobs holds of  *)
(* an agent with this viewer as well.                                      *)
(***************************************************************************)
EXTENDS FileTransfers, FileJobsProofs

\* What a viewer enqueues: a command only for an upload.
Sent == {r \in Requests : r.type \in Commands => r.op \in Uploads}

Typed == ClientTypeOK /\ requests \in Seq(Sent)

LEMMA EnqueueTyped ==
    ASSUME NEW t \in Transfers, NEW type \in {"Start", "chunk", "finish", "Cancel"},
           type \in Commands => t \in Uploads, requests \in Seq(Sent), Enqueue(t, type)
    PROVE  requests' \in Seq(Sent)
<1> DEFINE r == [op |-> t, type |-> type]
<1>1. r \in Sent
  BY DEF Sent, Requests
<1>2. requests' = Append(requests, r)
  BY DEF Enqueue
<1> HIDE DEF r
<1> QED
  BY <1>1, <1>2

LEMMA SentRequests == Seq(Sent) \subseteq Seq(Requests)
<1>1. Sent \subseteq Requests
  BY DEF Sent
<1> QED
  BY <1>1

\* A step of the viewer types everything but its requests.
Rest == /\ client' \in {"up", "closing", "closed"}
        /\ earlier' \subseteq Transfers
        /\ shown' \in [Transfers -> {"none", "running", "done", "error", "cancelled", "dismissed"}]
        /\ entry' \subseteq Transfers
        /\ ready' \subseteq Uploads /\ finishing' \subseteq Uploads
        /\ caller' \in [Transfers -> Callers]
        /\ received' \in [Downloads -> 0..2]
        /\ saved' \subseteq Downloads
        /\ settling' \in Transfers \cup {None}
        /\ cancels' \subseteq Transfers

LEMMA Retyped == Rest /\ requests' \in Seq(Sent) => Typed'
BY SentRequests DEF Rest, Typed, ClientTypeOK

LEMMA CommandTyped ==
    ASSUME Typed, NEW t \in Transfers, Command(t)
    PROVE  Typed'
<1>1. CASE Begin(t)
  <2>1. Rest
    BY <1>1
     DEF Begin, Caller, Callers, ClientTypeOK, Rest, Show, Transfers, Typed, mapVars
  <2>2. requests' \in Seq(Sent)
    BY <1>1 DEF Begin, Typed
  <2> QED
    BY <2>1, <2>2, Retyped
<1>2. CASE RequestStart(t)
  <2>1. Rest
    BY <1>2
     DEF Caller, Callers, ClientTypeOK, RequestStart, Rest, Transfers, Typed,
         mapVars
  <2>2. requests' \in Seq(Sent)
    BY <1>2, EnqueueTyped DEF RequestStart, Typed, Transfers, Commands
  <2> QED
    BY <2>1, <2>2, Retyped
<1>3. CASE Cancel(t)
  <2>1. Rest
    BY <1>3
     DEF Callers, Cancel, ClientTypeOK, Hears, Remove, Rest, Show, Transfers, Typed,
         mapVars
  <2>2. requests' \in Seq(Sent)
    BY <1>3 DEF Cancel, Typed
  <2> QED
    BY <2>1, <2>2, Retyped
<1>4. CASE SendCancel(t)
  <2>1. Rest
    BY <1>4
     DEF Callers, ClientTypeOK, Rest, SendCancel, Transfers, Typed, mapVars
  <2>2. requests' \in Seq(Sent)
    BY <1>4, EnqueueTyped DEF SendCancel, Typed, Transfers, Commands
  <2> QED
    BY <2>1, <2>2, Retyped
<1>5. CASE Dismiss(t)
  <2>1. Rest
    BY <1>5
     DEF Callers, ClientTypeOK, Dismiss, Rest, Show, Transfers, Typed, mapVars
  <2>2. requests' \in Seq(Sent)
    BY <1>5 DEF Dismiss, Typed
  <2> QED
    BY <2>1, <2>2, Retyped
<1>6. CASE RequestFailed(t)
  <2>1. Rest
    BY <1>6
     DEF Caller, Callers, ClientTypeOK, Fail, Remove, RequestFailed, Rest,
         Transfers, Typed, mapVars
  <2>2. requests' \in Seq(Sent)
    BY <1>6 DEF RequestFailed, Typed
  <2> QED
    BY <2>1, <2>2, Retyped
<1>7. CASE Settle(t)
  <2>1. Rest
    BY <1>7
     DEF Callers, ClientTypeOK, FinishTransfer, Rest, Settle, Transfers, Typed,
         mapVars
  <2>2. requests' \in Seq(Sent)
    BY <1>7 DEF Settle, Typed
  <2> QED
    BY <2>1, <2>2, Retyped
<1>8. CASE SettleFails(t)
  <2>1. Rest
    BY <1>8
     DEF Callers, ClientTypeOK, Fail, Remove, Rest, SettleFails, Transfers, Typed,
         mapVars
  <2>2. requests' \in Seq(Sent)
    BY <1>8 DEF SettleFails, Typed
  <2> QED
    BY <2>1, <2>2, Retyped
<1> QED
  BY <1>1, <1>2, <1>3, <1>4, <1>5, <1>6, <1>7, <1>8 DEF Command

LEMMA UploadCommandTyped ==
    ASSUME Typed, NEW t \in Uploads, UploadCommand(t)
    PROVE  Typed'
<1>1. CASE RequestChunk(t)
  <2>1. Rest
    BY <1>1
     DEF Caller, Callers, ClientTypeOK, RequestChunk, Rest, Transfers, Typed,
         mapVars
  <2>2. requests' \in Seq(Sent)
    BY <1>1, EnqueueTyped DEF RequestChunk, Typed, Transfers, Commands
  <2> QED
    BY <2>1, <2>2, Retyped
<1>2. CASE BeginFinish(t)
  <2>1. Rest
    BY <1>2
     DEF BeginFinish, Caller, Callers, ClientTypeOK, Rest, Transfers, Typed, mapVars
  <2>2. requests' \in Seq(Sent)
    BY <1>2 DEF BeginFinish, Typed
  <2> QED
    BY <2>1, <2>2, Retyped
<1>3. CASE RequestFinish(t)
  <2>1. Rest
    BY <1>3
     DEF Caller, Callers, ClientTypeOK, RequestFinish, Rest, Transfers, Typed,
         mapVars
  <2>2. requests' \in Seq(Sent)
    BY <1>3, EnqueueTyped DEF RequestFinish, Typed, Transfers, Commands
  <2> QED
    BY <2>1, <2>2, Retyped
<1>4. CASE ReadyTimesOut(t)
  <2>1. Rest
    BY <1>4
     DEF Caller, Callers, ClientTypeOK, Fail, ReadyTimesOut, Remove, Rest,
         Transfers, Typed, mapVars
  <2>2. requests' \in Seq(Sent)
    BY <1>4 DEF ReadyTimesOut, Typed
  <2> QED
    BY <2>1, <2>2, Retyped
<1>5. CASE FinishTimesOut(t)
  <2>1. Rest
    BY <1>5
     DEF Caller, Callers, ClientTypeOK, Fail, FinishTimesOut, Remove, Rest,
         Transfers, Typed, mapVars
  <2>2. requests' \in Seq(Sent)
    BY <1>5 DEF FinishTimesOut, Typed
  <2> QED
    BY <2>1, <2>2, Retyped
<1> QED
  BY <1>1, <1>2, <1>3, <1>4, <1>5 DEF UploadCommand

LEMMA ConnectionTyped ==
    ASSUME Typed, Disconnect \/ Stopped \/ ConnectionEnded \/ Connect
    PROVE  Typed'
<1>1. CASE Disconnect
  <2>1. Rest
    BY <1>1
     DEF Callers, ClientTypeOK, Close, Disconnect, Rest, Transfers, Typed, mapVars
  <2>2. requests' \in Seq(Sent)
    BY <1>1 DEF Disconnect, Typed, Close
  <2> QED
    BY <2>1, <2>2, Retyped
<1>2. CASE Stopped
  <2>1. Rest
    BY <1>2
     DEF Callers, ClientTypeOK, Rest, Stopped, Transfers, Typed, mapVars
  <2>2. requests' \in Seq(Sent)
    BY <1>2 DEF Stopped, Typed
  <2> QED
    BY <2>1, <2>2, Retyped
<1>3. CASE ConnectionEnded
  <2>1. Rest
    BY <1>3
     DEF Callers, ClientTypeOK, Close, ConnectionEnded, Rest, Transfers, Typed,
         mapVars
  <2>2. requests' \in Seq(Sent)
    BY <1>3 DEF ConnectionEnded, Typed, Close
  <2> QED
    BY <2>1, <2>2, Retyped
<1>4. CASE Connect
  <2>1. Rest
    BY <1>4
     DEF Callers, ClientTypeOK, Connect, Rest, Transfers, Typed, mapVars
  <2>2. requests' \in Seq(Sent)
    BY <1>4 DEF Connect
  <2> QED
    BY <2>1, <2>2, Retyped
<1> QED
  BY <1>1, <1>2, <1>3, <1>4

LEMMA ResponseTyped ==
    ASSUME Typed, NEW t, NEW type, HandleResponse(t, type)
    PROVE  Typed'
<1>1. UNCHANGED <<client, earlier, cancels>>
  BY DEF HandleResponse
<1>2. ASSUME NEW from \in 0..1, HandleData(t, from) PROVE Typed'
  <2>1. Rest
    BY <1>1, <1>2
     DEF Callers, CancelRemoteAndFail, ClientTypeOK, Fail, HandleData, Hears,
         Remove, Rest, Transfers, Typed, mapVars
  <2>2. requests' \in Seq(Sent)
    BY <1>2, EnqueueTyped
     DEF HandleData, CancelRemoteAndFail, Typed, Transfers, Commands
  <2> QED
    BY <2>1, <2>2, Retyped
<1>3. CASE HandleReady(t)
  <2>1. Rest
    BY <1>1, <1>3
     DEF Callers, ClientTypeOK, HandleReady, Rest, Transfers, Typed, mapVars
  <2>2. requests' \in Seq(Sent)
    BY <1>3 DEF HandleReady, Typed
  <2> QED
    BY <2>1, <2>2, Retyped
<1>4. CASE HandleComplete(t)
  <2>1. Rest
    BY <1>1, <1>4
     DEF Callers, ClientTypeOK, HandleComplete, Hears, Remove, Rest, Transfers,
         Typed, mapVars
  <2>2. requests' \in Seq(Sent)
    BY <1>4 DEF HandleComplete, Typed
  <2> QED
    BY <2>1, <2>2, Retyped
<1>5. CASE HandleError(t)
  <2>1. Rest
    BY <1>1, <1>5
     DEF Callers, ClientTypeOK, Fail, HandleError, Hears, Remove, Rest, Transfers,
         Typed, mapVars
  <2>2. requests' \in Seq(Sent)
    BY <1>5 DEF HandleError, Typed
  <2> QED
    BY <2>1, <2>2, Retyped
<1> QED
  BY <1>2, <1>3, <1>4, <1>5 DEF HandleResponse

LEMMA TypedInit == Init => Typed
BY FileJobConstants DEF Init, ClientInit, Typed, ClientTypeOK, Callers

LEMMA TypedStep == Typed /\ [Next]_vars => Typed'
<1> SUFFICES ASSUME Typed, [Next]_vars PROVE Typed'
  OBVIOUS
<1>1. CASE UNCHANGED viewerVars
  BY <1>1 DEF viewerVars, Typed, ClientTypeOK
<1>2. CASE Meet
  BY <1>2, ConnectionTyped DEF Meet
<1>3. CASE Serve
  <2>1. requests' \in Seq(Sent)
    BY <1>3 DEF Serve, Typed
  <2>2. Rest
    BY <1>3 DEF Serve, Rest, Typed, ClientTypeOK
  <2> QED
    BY <2>1, <2>2, Retyped
<1>4. CASE Respond
  BY <1>4, ResponseTyped DEF Respond
<1>5. CASE Act
  BY <1>5, CommandTyped, UploadCommandTyped, ConnectionTyped DEF Act, ClientStep
<1>6. CASE NoticeLost
  BY <1>6, ConnectionTyped DEF NoticeLost
<1> QED
  BY <1>1, <1>2, <1>3, <1>4, <1>5, <1>6 DEF Next, vars

\* Every request a viewer sends is one FileJobs allows: a step of viewer and agent
\* is a step of the agent, or leaves it alone (RemoteFilesClient and the receive loop
\* of lattice-agent share nothing but their connection).
THEOREM JobsRefined == Spec => JobsSpec
<1>1. Init => JobsInit
  BY DEF Init
<1>2. Typed /\ [Next]_vars => [JobsNext]_jobVars
  <2> SUFFICES ASSUME Typed, [Next]_vars PROVE [JobsNext]_jobVars
    OBVIOUS
  <2>1. CASE Meet
    BY <2>1 DEF Meet, JobsNext
  <2>2. CASE Serve
    <3>1. PICK r \in Sent : \/ r.type = "Start" /\ Start(r.op)
                            \/ r.type = "Cancel" /\ HandleCancel(r.op)
                            \/ r.type \in Commands /\ HandleCommand(r.op, r.type)
      BY <2>2 DEF Serve, Typed
    <3>2. r.op \in Ops /\ (r.type \in Commands => r.op \in Uploads)
      BY DEF Sent, Requests, Transfers, Ops
    <3> QED
      BY <3>1, <3>2 DEF JobsNext
  <2>3. CASE Respond
    BY <2>3 DEF Respond, JobsNext
  <2>4. CASE Act
    BY <2>4 DEF Act
  <2>5. CASE NoticeLost
    BY <2>5 DEF NoticeLost
  <2>6. CASE AgentStep
    BY <2>6 DEF JobsNext
  <2>7. CASE UNCHANGED vars
    BY <2>7 DEF vars
  <2> QED
    BY <2>1, <2>2, <2>3, <2>4, <2>5, <2>6, <2>7 DEF Next
<1> QED
  BY <1>1, <1>2, TypedInit, TypedStep, PTL DEF Spec, JobsSpec

\* Both ends keep their types: the agent's by the refinement, the viewer's maps,
\* senders and requests (RemoteFilesClient) by their own steps.
THEOREM TypeCorrect == Spec => []TypeOK
<1>1. Typed => ClientTypeOK
  BY DEF Typed
<1> QED
  BY <1>1, TypedInit, TypedStep, JobsRefined, JobsTypeCorrect, PTL DEF Spec, TypeOK

\* With this viewer at the other end, too, what was cancelled in time is never published,
\* the answers tell the truth and what was answered stands; the quota counts every upload
\* once; permits, folders and threads are accounted for, no shutdown waits in vain, and
\* uploads are published as Publication says.
THEOREM TransfersHonest ==
    Spec => /\ [](CancelledNotPublished /\ AnswersHonest /\ BytesAccounted)
            /\ [](ResourcesOwned /\ DrainedClean /\ NoLostWakeup)
            /\ [][OutcomeKept]_jobVars
            /\ PublishesAsPromised
BY JobsRefined, CancelledCorrect, AnswersCorrect, BytesCorrect, ResourcesCorrect, DrainedCorrect,
   WakeupCorrect, OutcomeFinal, PublicationCorrect, PTL

(***************************************************************************)
(* What the window shows.  A transfer is known from its begin on; once its *)
(* entry is gone it stays gone; and who waits for the end of an upload is  *)
(* registered as long as its entry is there.  Requests, commands, threads  *)
(* and messages carry these facts from the one end to the other.           *)
(***************************************************************************)
Known(t)     == caller[t] # "idle"
Gone(t)      == Known(t) /\ t \notin entry
Finishing(t) == Known(t) /\ (t \in entry => t \in finishing)

\* Nobody cancels a transfer whose entry is there, or ends an upload nobody waits for.
FairRequests == {r \in Sent : /\ Known(r.op)
                              /\ r.type = "Cancel" => Gone(r.op)
                              /\ r.type = "finish" => Finishing(r.op)}
FairMessages == {m \in Messages : /\ Known(m.op)
                                  /\ m.type = "Complete" /\ m.op \in Uploads
                                     => Gone(m.op) \/ m.op \in published}
FairCommands(t) == {c \in Commands : c = "finish" => Finishing(t)}

OnTheWay ==
    /\ requests \in Seq(FairRequests)
    /\ outgoing \in Seq(FairMessages)
    /\ \A t \in Uploads : commands[t] \in Seq(FairCommands(t))
    /\ \A t \in Uploads : feeding = <<t, "finish">> => Finishing(t)

\* What a thread of the agent does was asked for.
AskedFor ==
    \A t \in Ops :
        /\ worker[t] # "none" => Known(t)
        /\ control[t] = "Complete" => Gone(t)
        /\ t \in Uploads /\ answer[t] = "Complete" => Gone(t) \/ t \in published
        /\ worker[t] \in {"committing", "counting"} \/ t \in published => Finishing(t)

Viewed ==
    \A t \in Ops :
        /\ caller[t] = "idle" => t \notin entry /\ shown[t] = "none"
        /\ t \in cancels => Gone(t)
        /\ caller[t] \in {"finishing", "confirming"} => Finishing(t)
        /\ settling = t /\ t \in Uploads => t \in published

Real == Typed /\ OnTheWay /\ AskedFor /\ Viewed /\ ShownIsReal

LEMMA SameOps == Transfers = Ops
BY DEF Transfers, Ops

LEMMA SeqGrows ==
    ASSUME NEW S, NEW T, S \subseteq T, NEW s \in Seq(S)
    PROVE  s \in Seq(T)
OBVIOUS

\* A step that is not the viewer's leaves its maps alone.
LEMMA ViewerMoves ==
    ASSUME [Next]_vars
    PROVE  \/ UNCHANGED <<mapVars, caller, received, saved, settling, cancels>>
           \/ \E t \in Transfers : Command(t)
           \/ \E t \in Uploads : UploadCommand(t)
           \/ Disconnect \/ Stopped \/ ConnectionEnded
           \/ Respond
<1>1. CASE Meet \/ Serve \/ UNCHANGED viewerVars
  BY <1>1 DEF viewerVars, Meet, Connect, Serve, mapVars
<1>2. CASE Act \/ NoticeLost \/ Respond
  BY <1>2 DEF Act, ClientStep, NoticeLost
<1> QED
  BY <1>1, <1>2 DEF Next, vars

LEMMA KnownStays ==
    ASSUME Typed, [Next]_vars, NEW t \in Ops
    PROVE  /\ Known(t) => Known(t)'
           /\ Gone(t) => Gone(t)'
           /\ Finishing(t) => Finishing(t)'
<1> USE SameOps DEF Known, Gone, Finishing, Typed, ClientTypeOK
<1>1. CASE UNCHANGED <<mapVars, caller, received, saved, settling, cancels>>
  BY <1>1 DEF mapVars
<1>2. ASSUME NEW u \in Transfers, Command(u)
      PROVE  /\ Known(t) => Known(t)'
             /\ Gone(t) => Gone(t)'
             /\ Finishing(t) => Finishing(t)'
  BY <1>2 DEF Command, Begin, RequestStart, Cancel, SendCancel, Dismiss, RequestFailed, Settle,
              SettleFails, Caller, Hears, Remove, Fail, mapVars
<1>3. ASSUME NEW u \in Uploads, UploadCommand(u)
      PROVE  /\ Known(t) => Known(t)'
             /\ Gone(t) => Gone(t)'
             /\ Finishing(t) => Finishing(t)'
  BY <1>3 DEF UploadCommand, RequestChunk, BeginFinish, RequestFinish, ReadyTimesOut,
              FinishTimesOut, Caller, Remove, Fail, mapVars, Transfers
<1>4. CASE Disconnect \/ Stopped \/ ConnectionEnded
  BY <1>4 DEF Disconnect, Stopped, ConnectionEnded, Close, mapVars
<1>5. CASE Respond
  BY <1>5 DEF Respond, HandleResponse, HandleData, HandleReady, HandleComplete, HandleError,
              CancelRemoteAndFail, Hears, Remove, Fail, mapVars
<1> QED
  BY <1>1, <1>2, <1>3, <1>4, <1>5, ViewerMoves

LEMMA PublishedStays == [Next]_vars => published \subseteq published'
<1> SUFFICES ASSUME [Next]_vars PROVE published \subseteq published'
  OBVIOUS
<1> USE DEF loopVars, registryVars, idleVars, controlVars, fileVars
<1>1. CASE Meet \/ Respond \/ Act \/ NoticeLost \/ UNCHANGED vars
  BY <1>1 DEF Meet, NextSession, Respond, Write, Act, NoticeLost, vars, jobVars
<1>2. CASE Serve
  BY <1>2 DEF Serve, Start, Admit, Refuse, SpawnFails, HandleCancel, HandleCommand
<1>3. CASE Loop
  BY <1>3 DEF Loop, FeedOn, FeedTimesOut, FeedOrphaned, EndSession, Drain, Wake, DrainTimesOut,
              LinkLost
<1>4. ASSUME NEW t \in Ops, Work(t) PROVE published \subseteq published'
  BY <1>4 DEF Work, StopCancelled, StopWithError, SendFails, SendStart, SendChunk, Send,
              DownloadDone, SendAnswer, Release, Leave, Notify
<1>5. ASSUME NEW t \in Uploads, WorkUpload(t) PROVE published \subseteq published'
  BY <1>5 DEF WorkUpload, ReserveTarget, Stage, SendReady, Send, WriteChunk, TakeFinish, Publish,
              PublishFails, CountUpload
<1> QED
  BY <1>1, <1>2, <1>3, <1>4, <1>5 DEF Next, AgentStep

\* What was fair to send stays fair.
LEMMA FairStays ==
    ASSUME Typed, [Next]_vars
    PROVE  /\ FairRequests \subseteq FairRequests'
           /\ FairMessages \subseteq FairMessages'
           /\ \A t \in Uploads : FairCommands(t) \subseteq FairCommands(t)'
<1>1. \A t \in Ops : /\ Known(t) => Known(t)'
                     /\ Gone(t) => Gone(t)'
                     /\ Finishing(t) => Finishing(t)'
  BY KnownStays
<1>2. FairRequests \subseteq FairRequests'
  BY <1>1, SameOps DEF FairRequests, Sent, Requests
<1>3. FairMessages \subseteq FairMessages'
  BY <1>1, PublishedStays DEF FairMessages, Messages
<1>4. \A t \in Uploads : FairCommands(t) \subseteq FairCommands(t)'
  BY <1>1 DEF FairCommands, Ops
<1> QED
  BY <1>2, <1>3, <1>4

(***************************************************************************)
(* The requests.                                                           *)
(***************************************************************************)
LEMMA EnqueueFair ==
    ASSUME NEW t \in Ops, NEW type \in {"Start", "chunk", "finish", "Cancel"},
           type \in Commands => t \in Uploads,
           Known(t)', type = "Cancel" => Gone(t)', type = "finish" => Finishing(t)',
           requests \in Seq(FairRequests'), Enqueue(t, type)
    PROVE  requests' \in Seq(FairRequests')
<1> DEFINE r == [op |-> t, type |-> type]
<1>1. r \in Sent /\ r.op = t /\ r.type = type
  BY SameOps DEF Sent, Requests
<1>2. r \in FairRequests'
  BY <1>1 DEF FairRequests, Sent, Requests, Commands
<1>3. requests' = Append(requests, r)
  BY DEF Enqueue
<1> HIDE DEF r
<1> QED
  BY <1>2, <1>3

LEMMA RequestsStep ==
    Typed /\ OnTheWay /\ Viewed /\ [Next]_vars => requests' \in Seq(FairRequests')
<1> SUFFICES ASSUME Typed, OnTheWay, Viewed, [Next]_vars
             PROVE  requests' \in Seq(FairRequests')
  OBVIOUS
<1>a. requests \in Seq(FairRequests')
  BY FairStays, SeqGrows DEF OnTheWay
<1>b. \A t \in Ops : /\ Known(t) => Known(t)'
                     /\ Gone(t) => Gone(t)'
                     /\ Finishing(t) => Finishing(t)'
  BY KnownStays
<1>1. CASE UNCHANGED requests
  BY <1>1, <1>a
<1>2. CASE Meet
  BY <1>2 DEF Meet, Connect
<1>3. CASE Serve
  BY <1>3, <1>a DEF Serve
<1>4. CASE Respond
  <2>1. PICK m \in FairMessages : HandleResponse(m.op, m.type)
    BY <1>4 DEF Respond, Write, OnTheWay
  <2>2. m.op \in Ops /\ Known(m.op)
    BY <2>1 DEF FairMessages, Messages
  <2>3. UNCHANGED requests \/ (CancelRemoteAndFail(m.op) /\ Enqueue(m.op, "Cancel"))
    BY <2>1 DEF HandleResponse, HandleData, HandleReady, HandleComplete, HandleError,
                CancelRemoteAndFail
  <2>4. CASE CancelRemoteAndFail(m.op) /\ Enqueue(m.op, "Cancel")
    <3>1. Gone(m.op)'
      BY <2>2, <2>4, <1>b DEF CancelRemoteAndFail, Fail, Remove, Gone
    <3> QED
      BY <1>a, <2>2, <2>4, <3>1, EnqueueFair DEF Gone, Commands
  <2> QED
    BY <1>1, <2>3, <2>4
<1>5. ASSUME NEW t \in Ops, Command(t) PROVE requests' \in Seq(FairRequests')
  <2>1. CASE RequestStart(t)
    <3>1. Known(t)'
      BY <1>b, <2>1 DEF RequestStart, Known
    <3> QED
      BY <1>a, <2>1, <3>1, EnqueueFair DEF RequestStart, Commands
  <2>2. CASE SendCancel(t)
    <3>1. Known(t)' /\ Gone(t)'
      BY <1>b, <2>2 DEF SendCancel, Viewed, Gone
    <3> QED
      BY <1>1, <1>a, <2>2, <3>1, EnqueueFair DEF SendCancel, Commands
  <2> QED
    BY <1>1, <1>5, <2>1, <2>2
    DEF Command, Begin, Cancel, Dismiss, RequestFailed, Settle, SettleFails
<1>6. ASSUME NEW t \in Uploads, UploadCommand(t) PROVE requests' \in Seq(FairRequests')
  <2>a. t \in Ops
    BY DEF Ops
  <2>1. CASE RequestChunk(t)
    <3>1. Known(t)'
      BY <1>b, <2>a, <2>1 DEF RequestChunk, Known
    <3> QED
      BY <1>1, <1>a, <2>a, <2>1, <3>1, EnqueueFair DEF RequestChunk
  <2>2. CASE RequestFinish(t)
    <3>1. Known(t)' /\ Finishing(t)'
      BY <1>b, <2>a, <2>2 DEF RequestFinish, Viewed, Finishing
    <3> QED
      BY <1>a, <2>a, <2>2, <3>1, EnqueueFair DEF RequestFinish
  <2> QED
    BY <1>1, <1>6, <2>1, <2>2
    DEF UploadCommand, BeginFinish, ReadyTimesOut, FinishTimesOut
<1>7. CASE Disconnect \/ Stopped \/ NoticeLost
  BY <1>1, <1>7 DEF Disconnect, Stopped, NoticeLost, ConnectionEnded, Close
<1> QED
  BY <1>1, <1>2, <1>3, <1>4, <1>5, <1>6, <1>7, SameOps DEF Next, Act, ClientStep, viewerVars, vars

(***************************************************************************)
(* The messages.                                                           *)
(***************************************************************************)
\* What the agent's threads send: an answer, or a message that ends nothing.
LEMMA AgentSends ==
    ASSUME AgentStep
    PROVE  \/ outgoing' \in {outgoing, <<>>}
           \/ \E t \in Ops, type \in {"Start", "Chunk", "Ready"} :
                  worker[t] # "none" /\ outgoing' = Append(outgoing, [op |-> t, type |-> type])
           \/ \E t \in Ops : worker[t] = "answering"
                             /\ outgoing' = Append(outgoing, [op |-> t, type |-> answer[t]])
<1>1. CASE Loop
  BY <1>1 DEF Loop, FeedOn, FeedTimesOut, FeedOrphaned, EndSession, Drain, Wake, DrainTimesOut,
              LinkLost, HangUp
<1>2. ASSUME NEW t \in Ops, Work(t), outgoing' # outgoing
      PROVE  \/ \E type \in {"Start", "Chunk", "Ready"} :
                    worker[t] # "none" /\ outgoing' = Append(outgoing, [op |-> t, type |-> type])
             \/ worker[t] = "answering" /\ outgoing' = Append(outgoing, [op |-> t, type |-> answer[t]])
  BY <1>2 DEF Work, StopCancelled, StopWithError, SendFails, SendStart, SendChunk, Send,
              DownloadDone, SendAnswer, Release, Leave, Notify
<1>3. ASSUME NEW t \in Uploads, WorkUpload(t), outgoing' # outgoing
      PROVE  worker[t] # "none" /\ outgoing' = Append(outgoing, [op |-> t, type |-> "Ready"])
  BY <1>3 DEF WorkUpload, ReserveTarget, Stage, SendReady, Send, WriteChunk, TakeFinish, Publish,
              PublishFails, CountUpload
<1> QED
  BY <1>1, <1>2, <1>3 DEF AgentStep, Ops

LEMMA SendFair ==
    ASSUME NEW t \in Ops, NEW type, [op |-> t, type |-> type] \in Messages,
           Known(t)', type = "Complete" /\ t \in Uploads => Gone(t)' \/ t \in published',
           outgoing \in Seq(FairMessages'),
           outgoing' = Append(outgoing, [op |-> t, type |-> type])
    PROVE  outgoing' \in Seq(FairMessages')
<1> DEFINE m == [op |-> t, type |-> type]
<1>1. m.op = t /\ m.type = type
  OBVIOUS
<1>2. m \in FairMessages'
  BY <1>1 DEF FairMessages, Messages
<1> HIDE DEF m
<1>3. outgoing' = Append(outgoing, m)
  BY DEF m
<1> QED
  BY <1>2, <1>3

LEMMA MessagesStep ==
    IInv /\ Typed /\ OnTheWay /\ AskedFor /\ [Next]_vars => outgoing' \in Seq(FairMessages')
<1> SUFFICES ASSUME IInv, Typed, OnTheWay, AskedFor, [Next]_vars
             PROVE  outgoing' \in Seq(FairMessages')
  OBVIOUS
<1>a. outgoing \in Seq(FairMessages')
  BY FairStays, SeqGrows DEF OnTheWay
<1>b. \A t \in Ops : (Known(t) => Known(t)') /\ (Gone(t) => Gone(t)')
  BY KnownStays
<1>1. CASE outgoing' \in {outgoing, <<>>}
  <2>1. <<>> \in Seq(FairMessages')
    OBVIOUS
  <2> QED
    BY <1>1, <1>a, <2>1
<1>2. CASE Meet
  BY <1>1, <1>2 DEF Meet, NextSession
<1>3. CASE Respond
  BY <1>3, <1>a DEF Respond, Write
<1>4. CASE Serve
  <2>1. PICK r \in FairRequests : \/ r.type = "Start" /\ Start(r.op)
                                  \/ r.type = "Cancel" /\ HandleCancel(r.op)
                                  \/ r.type \in Commands /\ HandleCommand(r.op, r.type)
    BY <1>4 DEF Serve, OnTheWay
  <2>2. r.op \in Ops /\ Known(r.op)' /\ (r.type = "Cancel" => Gone(r.op)')
    BY <1>b, SameOps DEF FairRequests, Sent, Requests
  <2>3. \/ outgoing' = outgoing
        \/ outgoing' = Append(outgoing, [op |-> r.op, type |-> "Error"])
        \/ outgoing' = Append(outgoing, [op |-> r.op, type |-> "Complete"]) /\ Gone(r.op)'
    BY <2>1, <2>2 DEF Start, Admit, Refuse, SpawnFails, HandleCancel, HandleCommand, Reply, Commands
  <2>4. /\ [op |-> r.op, type |-> "Error"] \in Messages
        /\ [op |-> r.op, type |-> "Complete"] \in Messages
    BY <2>2 DEF Messages, Terminals
  <2> QED
    BY <1>1, <1>a, <2>2, <2>3, <2>4, SendFair
<1>5. CASE AgentStep
  <2>1. ASSUME NEW t \in Ops, NEW type \in {"Start", "Chunk", "Ready"}, worker[t] # "none",
               outgoing' = Append(outgoing, [op |-> t, type |-> type])
        PROVE  outgoing' \in Seq(FairMessages')
    <3>1. [op |-> t, type |-> type] \in Messages
      BY DEF Messages
    <3>2. Known(t)'
      BY <1>b, <2>1 DEF AskedFor
    <3> QED
      BY <1>a, <2>1, <3>1, <3>2, SendFair
  <2>2. ASSUME NEW t \in Ops, worker[t] = "answering",
               outgoing' = Append(outgoing, [op |-> t, type |-> answer[t]])
        PROVE  outgoing' \in Seq(FairMessages')
    <3>1. answer[t] \in Terminals
      BY <2>2 DEF IInv, Shape, Answers
    <3>2. [op |-> t, type |-> answer[t]] \in Messages
      BY <3>1 DEF Messages
    <3>3. Known(t)' /\ (answer[t] = "Complete" /\ t \in Uploads => Gone(t)' \/ t \in published')
      BY <1>b, <2>2, PublishedStays DEF AskedFor
    <3> QED
      BY <1>a, <2>2, <3>2, <3>3, SendFair
  <2> QED
    BY <1>1, <1>5, <2>1, <2>2, AgentSends
<1>6. CASE Act \/ NoticeLost \/ UNCHANGED vars
  BY <1>1, <1>6 DEF Act, NoticeLost, vars, jobVars
<1> QED
  BY <1>2, <1>3, <1>4, <1>5, <1>6 DEF Next

(***************************************************************************)
(* The commands, and what the threads do with them.                        *)
(***************************************************************************)
LEMMA CommandsStep ==
    IInv /\ Typed /\ OnTheWay /\ [Next]_vars
    => \A t \in Uploads : /\ commands'[t] \in Seq(FairCommands(t)')
                          /\ feeding' = <<t, "finish">> => Finishing(t)'
<1> SUFFICES ASSUME IInv, Typed, OnTheWay, [Next]_vars, NEW t \in Uploads
             PROVE  /\ commands'[t] \in Seq(FairCommands(t)')
                    /\ feeding' = <<t, "finish">> => Finishing(t)'
  OBVIOUS
<1> USE DEF loopVars, registryVars, idleVars, controlVars, fileVars
<1>m. \A u \in Uploads : None # <<u, "finish">>
  BY NoneApart
<1>a. commands[t] \in Seq(FairCommands(t)')
  BY FairStays, SeqGrows DEF OnTheWay
<1>b. t \in Ops /\ (Finishing(t) => Finishing(t)')
  BY KnownStays DEF Ops
<1>c. commands \in [Uploads -> Seq(Commands)]
  BY DEF IInv, Shape
<1>d. feeding = <<t, "finish">> => Finishing(t)'
  BY <1>b DEF OnTheWay
<1>1. CASE commands' = commands /\ feeding' = feeding
  BY <1>1, <1>a, <1>d
<1>2. CASE Meet \/ Respond \/ Act \/ NoticeLost \/ UNCHANGED vars
  BY <1>1, <1>2 DEF Meet, NextSession, Respond, Write, Act, NoticeLost, vars, jobVars
<1>3. CASE Serve
  <2>1. PICK r \in FairRequests : \/ r.type = "Start" /\ Start(r.op)
                                  \/ r.type = "Cancel" /\ HandleCancel(r.op)
                                  \/ r.type \in Commands /\ HandleCommand(r.op, r.type)
    BY <1>3 DEF Serve, OnTheWay
  <2>2. commands' = commands /\ (feeding' = feeding \/ feeding' = <<r.op, r.type>>)
    BY <2>1 DEF Start, Admit, Refuse, SpawnFails, HandleCancel, HandleCommand
  <2>3. <<r.op, r.type>> = <<t, "finish">> => Finishing(t)'
    BY <1>b DEF FairRequests
  <2> QED
    BY <1>a, <1>d, <2>2, <2>3
<1>4. CASE FeedOn
  <2>1. PICK u \in Uploads, c \in Commands :
            feeding = <<u, c>> /\ commands' = [commands EXCEPT ![u] = Append(@, c)]
    BY <1>4 DEF FeedOn
  <2>2. CASE u = t
    <3>1. c \in FairCommands(t)'
      BY <1>d, <2>1, <2>2 DEF FairCommands
    <3>2. commands'[t] = Append(commands[t], c)
      BY <1>c, <2>1, <2>2
    <3> QED
      BY <1>4, <1>a, <3>1, <3>2, <1>m DEF FeedOn
  <2>3. CASE u # t
    BY <1>4, <1>a, <1>c, <2>1, <2>3, <1>m DEF FeedOn
  <2> QED
    BY <2>2, <2>3
<1>5. CASE Loop /\ ~FeedOn
  BY <1>5, <1>a, <1>d, <1>m
  DEF Loop, FeedTimesOut, FeedOrphaned, EndSession, Drain, Wake, DrainTimesOut, LinkLost
<1>6. ASSUME NEW u \in Ops, Work(u) PROVE commands' = commands /\ feeding' = feeding
  BY <1>6 DEF Work, StopCancelled, StopWithError, SendFails, SendStart, SendChunk, Send,
              DownloadDone, SendAnswer, Release, Leave, Notify
<1>7. ASSUME NEW u \in Uploads, WorkUpload(u)
      PROVE  /\ feeding' = feeding
             /\ \/ commands' = commands
                \/ commands[u] # <<>> /\ commands' = [commands EXCEPT ![u] = Tail(@)]
  BY <1>7 DEF WorkUpload, ReserveTarget, Stage, SendReady, Send, WriteChunk, TakeFinish, Publish,
              PublishFails, CountUpload
<1>8. ASSUME NEW u \in Uploads, WorkUpload(u)
      PROVE  /\ commands'[t] \in Seq(FairCommands(t)')
             /\ feeding' = <<t, "finish">> => Finishing(t)'
  <2>1. commands'[t] = commands[t] \/ (commands[t] # <<>> /\ commands'[t] = Tail(commands[t]))
    BY <1>7, <1>8, <1>c
  <2>2. commands[t] # <<>> => Tail(commands[t]) \in Seq(FairCommands(t)')
    BY <1>a
  <2> QED
    BY <1>7, <1>8, <1>a, <1>d, <2>1, <2>2
<1> QED
  BY <1>1, <1>2, <1>3, <1>4, <1>5, <1>6, <1>8 DEF Next, AgentStep

\* What a step of the agent alone makes of its jobs.
LEMMA AgentMoves ==
    ASSUME IInv, OnTheWay, AgentStep, NEW t \in Ops
    PROVE  /\ worker'[t] # "none" => worker[t] # "none"
           /\ control'[t] = "Complete" => control[t] = "Complete"
           /\ t \in Uploads /\ answer'[t] = "Complete"
              => answer[t] = "Complete" \/ control[t] = "Complete" \/ t \in published
           /\ worker'[t] \in {"committing", "counting"} \/ t \in published'
              => worker[t] \in {"committing", "counting"} \/ t \in published
                 \/ (t \in Uploads /\ Finishing(t))
<1> DEFINE Goal == /\ worker'[t] # "none" => worker[t] # "none"
                   /\ control'[t] = "Complete" => control[t] = "Complete"
                   /\ t \in Uploads /\ answer'[t] = "Complete"
                      => answer[t] = "Complete" \/ control[t] = "Complete" \/ t \in published
                   /\ worker'[t] \in {"committing", "counting"} \/ t \in published'
                      => worker[t] \in {"committing", "counting"} \/ t \in published
                         \/ (t \in Uploads /\ Finishing(t))
<1> SUFFICES Goal
  OBVIOUS
<1> USE FileJobConstants DEF loopVars, registryVars, idleVars, controlVars, fileVars
<1>a. /\ worker \in [Ops -> Phases] /\ answer \in [Ops -> Terminals \cup {None}]
      /\ control \in [Ops -> {"active", "committing", "terminal"} \cup Reasons]
  BY DEF IInv, Shape
<1>1. ASSUME Loop PROVE Goal
  <2>1. worker' = worker /\ answer' = answer /\ published' = published
    BY <1>1 DEF Loop, FeedOn, FeedTimesOut, FeedOrphaned, EndSession, CancelAll, Drain, HangUp,
                Wake, DrainTimesOut, LinkLost
  <2>2. control'[t] = "Complete" => control[t] = "Complete"
    <3>1. CASE EndSession
      BY <3>1, <1>a DEF EndSession, CancelAll
    <3>2. CASE FeedTimesOut
      BY <3>2, <1>a DEF FeedTimesOut, RequestCancel
    <3> QED
      BY <1>1, <3>1, <3>2 DEF Loop, FeedOn, FeedOrphaned, Drain, Wake, DrainTimesOut, LinkLost
  <2> QED
    BY <2>1, <2>2
<1>2. ASSUME NEW u \in Ops, Work(u) PROVE Goal
  <2>1. CASE StopCancelled(u)
    BY <1>a, <2>1 DEF StopCancelled, ClaimCancelled, Reasons
  <2>2. CASE StopWithError(u) \/ DownloadDone(u)
    BY <1>a, <2>2 DEF StopWithError, DownloadDone, ClaimActive, IInv, Controls
  <2>3. CASE SendFails(u)
    BY <1>a, <2>3 DEF SendFails, Goto
  <2>4. CASE SendStart(u) \/ SendChunk(u) \/ SendAnswer(u) \/ Release(u) \/ Leave(u) \/ Notify(u)
    BY <1>a, <2>4 DEF SendStart, SendChunk, Send, SendAnswer, Release, Leave, Notify, Goto
  <2> QED
    BY <1>2, <2>1, <2>2, <2>3, <2>4 DEF Work
<1>3. ASSUME NEW u \in Uploads, WorkUpload(u) PROVE Goal
  <2>a. u \in Ops
    BY DEF Ops
  <2>1. CASE ReserveTarget(u) \/ Stage(u) \/ SendReady(u) \/ WriteChunk(u)
    BY <1>a, <2>1, <2>a DEF ReserveTarget, Stage, SendReady, Send, WriteChunk, Goto
  <2>2. CASE TakeFinish(u)
    <3>1. commands[u] # <<>> /\ Head(commands[u]) = "finish"
      BY <2>2 DEF TakeFinish
    <3>2. "finish" \in FairCommands(u)
      BY <3>1 DEF OnTheWay
    <3>3. Finishing(u)
      BY <3>2 DEF FairCommands
    <3> QED
      BY <1>a, <2>2, <2>a, <3>3 DEF TakeFinish, BeginCommit, Goto
  <2>3. CASE Publish(u)
    BY <1>a, <2>3, <2>a DEF Publish, Goto
  <2>4. CASE PublishFails(u)
    BY <1>a, <2>4, <2>a DEF PublishFails, Goto
  <2>5. CASE CountUpload(u)
    BY <1>a, <2>5, <2>a DEF CountUpload, Goto, IInv, Controls
  <2> QED
    BY <1>3, <2>1, <2>2, <2>3, <2>4, <2>5 DEF WorkUpload
<1> HIDE DEF Goal
<1>4. CASE \E u \in Ops : Work(u)
  BY <1>2, <1>4
<1>5. CASE \E u \in Uploads : WorkUpload(u)
  BY <1>3, <1>5
<1> QED
  BY <1>1, <1>4, <1>5 DEF AgentStep

LEMMA AskedForStep == IInv /\ Typed /\ OnTheWay /\ AskedFor /\ [Next]_vars => AskedFor'
<1> SUFFICES ASSUME IInv, Typed, OnTheWay, AskedFor, [Next]_vars, NEW t \in Ops
             PROVE  /\ worker'[t] # "none" => Known(t)'
                    /\ control'[t] = "Complete" => Gone(t)'
                    /\ t \in Uploads /\ answer'[t] = "Complete" => Gone(t)' \/ t \in published'
                    /\ worker'[t] \in {"committing", "counting"} \/ t \in published' => Finishing(t)'
  BY DEF AskedFor
<1> USE DEF loopVars, registryVars, idleVars, controlVars, fileVars
<1>a. /\ Known(t) => Known(t)'
      /\ Gone(t) => Gone(t)'
      /\ Finishing(t) => Finishing(t)'
      /\ t \in published => t \in published'
  BY KnownStays, PublishedStays
<1>1. CASE UNCHANGED <<worker, control, answer, published>>
  BY <1>1, <1>a DEF AskedFor
<1>2. CASE Meet \/ Respond \/ Act \/ NoticeLost \/ UNCHANGED vars
  BY <1>1, <1>2 DEF Meet, NextSession, Respond, Write, Act, NoticeLost, vars, jobVars
<1>3. CASE Serve
  <2>1. PICK r \in FairRequests : \/ r.type = "Start" /\ Start(r.op)
                                  \/ r.type = "Cancel" /\ HandleCancel(r.op)
                                  \/ r.type \in Commands /\ HandleCommand(r.op, r.type)
    BY <1>3 DEF Serve, OnTheWay
  <2>2. r.op \in Ops /\ Known(r.op) /\ (r.type = "Cancel" => Gone(r.op))
    BY SameOps DEF FairRequests, Sent, Requests
  <2>3. answer' = answer /\ published' = published
    BY <2>1 DEF Start, Admit, Refuse, SpawnFails, HandleCancel, HandleCommand
  <2>4. worker'[t] = worker[t] \/ (t = r.op /\ worker'[t] = "starting")
    BY <2>1, <2>2 DEF Start, Admit, Refuse, SpawnFails, HandleCancel, HandleCommand, IInv, Shape
  <2>5. control'[t] = control[t] \/ (t = r.op /\ r.type = "Cancel")
    BY <2>1, <2>2
    DEF Start, Admit, Refuse, SpawnFails, HandleCancel, RequestCancel, HandleCommand, IInv, Shape
  <2> QED
    BY <1>a, <2>2, <2>3, <2>4, <2>5 DEF AskedFor
<1>4. CASE AgentStep
  BY <1>4, <1>a, AgentMoves DEF AskedFor
<1> QED
  BY <1>2, <1>3, <1>4 DEF Next

(***************************************************************************)
(* The viewer.                                                             *)
(***************************************************************************)
\* What the reader has to hear before it takes a transfer for complete.
LEMMA HeardTrue ==
    ASSUME OnTheWay, AskedFor, Respond
    PROVE  LET m == Head(outgoing) IN
           /\ m.op \in Ops /\ Known(m.op) /\ HandleResponse(m.op, m.type)
           /\ m.type = "Complete" /\ m.op \in Uploads /\ m.op \in entry
              => m.op \in published /\ m.op \in finishing
<1>1. Head(outgoing) \in FairMessages
  BY DEF OnTheWay, Respond, Write
<1> QED
  BY <1>1 DEF FairMessages, Messages, Gone, AskedFor, Finishing, Respond

LEMMA ViewedStep == Typed /\ OnTheWay /\ AskedFor /\ Viewed /\ [Next]_vars => Viewed'
<1> SUFFICES ASSUME Typed, OnTheWay, AskedFor, Viewed, [Next]_vars, NEW t \in Ops
             PROVE  /\ caller'[t] = "idle" => t \notin entry' /\ shown'[t] = "none"
                    /\ t \in cancels' => Gone(t)'
                    /\ caller'[t] \in {"finishing", "confirming"} => Finishing(t)'
                    /\ settling' = t /\ t \in Uploads => t \in published'
  BY DEF Viewed
<1> DEFINE Goal == /\ caller'[t] = "idle" => t \notin entry' /\ shown'[t] = "none"
                   /\ t \in cancels' => Gone(t)'
                   /\ caller'[t] \in {"finishing", "confirming"} => Finishing(t)'
                   /\ settling' = t /\ t \in Uploads => t \in published'
<1>a. /\ Known(t) => Known(t)'
      /\ Gone(t) => Gone(t)'
      /\ Finishing(t) => Finishing(t)'
      /\ t \in published => t \in published'
  BY KnownStays, PublishedStays
<1>b. /\ caller[t] = "idle" => t \notin entry /\ shown[t] = "none"
      /\ t \in cancels => Gone(t)
      /\ caller[t] \in {"finishing", "confirming"} => Finishing(t)
      /\ settling = t /\ t \in Uploads => t \in published
  BY DEF Viewed
<1>c. /\ caller \in [Transfers -> Callers] /\ shown \in [Transfers -> {"none", "running", "done", "error", "cancelled", "dismissed"}]
      /\ t \in Transfers
  BY SameOps DEF Typed, ClientTypeOK
<1>1. CASE UNCHANGED <<mapVars, caller, received, saved, settling, cancels>>
  BY <1>1, <1>a, <1>b DEF mapVars
<1>2. ASSUME NEW u \in Transfers, Command(u) PROVE Goal
  <2>1. CASE Begin(u) \/ RequestStart(u) \/ Dismiss(u)
    BY <1>a, <1>b, <1>c, <2>1 DEF Begin, RequestStart, Dismiss, Caller, Show, mapVars
  <2>2. CASE Cancel(u)
    BY <1>a, <1>b, <1>c, <2>2 DEF Cancel, Hears, Remove, Show, Gone, Known
  <2>3. CASE SendCancel(u) \/ RequestFailed(u)
    BY <1>a, <1>b, <1>c, <2>3 DEF SendCancel, RequestFailed, Fail, Remove, Caller, mapVars
  <2>4. CASE Settle(u) \/ SettleFails(u)
    BY <1>a, <1>b, <1>c, <2>4, FileJobConstants DEF Settle, SettleFails, FinishTransfer, Fail, Remove
  <2> QED
    BY <1>2, <2>1, <2>2, <2>3, <2>4 DEF Command
<1>3. ASSUME NEW u \in Uploads, UploadCommand(u) PROVE Goal
  <2>a. u \in Transfers
    BY DEF Transfers
  <2>1. CASE RequestChunk(u)
    BY <1>a, <1>b, <1>c, <2>a, <2>1 DEF RequestChunk, Caller, mapVars
  <2>2. CASE BeginFinish(u)
    BY <1>a, <1>b, <1>c, <2>a, <2>2 DEF BeginFinish, Caller, Finishing, Known
  <2>3. CASE RequestFinish(u)
    BY <1>a, <1>b, <1>c, <2>a, <2>3 DEF RequestFinish, Caller, mapVars
  <2>4. CASE ReadyTimesOut(u) \/ FinishTimesOut(u)
    BY <1>a, <1>b, <1>c, <2>a, <2>4
    DEF ReadyTimesOut, FinishTimesOut, Fail, Remove, Caller, Gone, Known
  <2> QED
    BY <1>3, <2>1, <2>2, <2>3, <2>4 DEF UploadCommand
<1>4. CASE Disconnect \/ Stopped \/ ConnectionEnded
  BY <1>4, <1>a, <1>b, <1>c DEF Disconnect, Stopped, ConnectionEnded, Close, mapVars
<1>5. CASE Respond
  <2>1. PICK m : /\ m.op \in Ops /\ Known(m.op) /\ HandleResponse(m.op, m.type)
                 /\ m.type = "Complete" /\ m.op \in Uploads /\ m.op \in entry
                    => m.op \in published /\ m.op \in finishing
    BY <1>5, HeardTrue
  <2>2. CASE HandleData(m.op, 0) \/ HandleData(m.op, 1)
    BY <1>a, <1>b, <1>c, <2>1, <2>2
    DEF HandleResponse, HandleData, CancelRemoteAndFail, Fail, Hears, Remove, Known, mapVars
  <2>3. CASE HandleReady(m.op) \/ HandleError(m.op)
    BY <1>a, <1>b, <1>c, <2>1, <2>3 DEF HandleResponse, HandleReady, HandleError, Fail, Hears, Remove, Known
  <2>4. CASE m.type = "Complete" /\ HandleComplete(m.op)
    BY <1>a, <1>b, <1>c, <2>1, <2>4 DEF HandleResponse, HandleComplete, Hears, Remove, Known
  <2> QED
    BY <2>1, <2>2, <2>3, <2>4 DEF HandleResponse
<1> QED
  BY <1>1, <1>2, <1>3, <1>4, <1>5, ViewerMoves

LEMMA ShownStep ==
    Typed /\ OnTheWay /\ AskedFor /\ Viewed /\ ShownIsReal /\ [Next]_vars => ShownIsReal'
<1> SUFFICES ASSUME Typed, OnTheWay, AskedFor, Viewed, ShownIsReal, [Next]_vars, NEW t \in Ops
             PROVE  /\ shown'[t] = "done" => t \in published' \cup saved'
                    /\ shown'[t] = "running" => t \in entry' \/ settling' = t
  BY DEF ShownIsReal
<1> DEFINE Goal == /\ shown'[t] = "done" => t \in published' \cup saved'
                   /\ shown'[t] = "running" => t \in entry' \/ settling' = t
<1>a. t \in published => t \in published'
  BY PublishedStays
<1>b. /\ shown[t] = "done" => t \in published \cup saved
      /\ shown[t] = "running" => t \in entry \/ settling = t
      /\ settling = t /\ t \in Uploads => t \in published
  BY DEF Viewed, ShownIsReal
<1>c. /\ caller \in [Transfers -> Callers] /\ shown \in [Transfers -> {"none", "running", "done", "error", "cancelled", "dismissed"}]
      /\ t \in Transfers /\ t \in Uploads \cup Downloads
  BY SameOps DEF Typed, ClientTypeOK, Ops
<1>1. CASE UNCHANGED <<mapVars, caller, received, saved, settling, cancels>>
  BY <1>1, <1>a, <1>b DEF mapVars
<1>2. ASSUME NEW u \in Transfers, Command(u) PROVE Goal
  <2>1. CASE Begin(u) \/ RequestStart(u) \/ Dismiss(u)
    BY <1>a, <1>b, <1>c, <2>1 DEF Begin, RequestStart, Dismiss, Caller, Show, mapVars
  <2>2. CASE Cancel(u)
    BY <1>a, <1>b, <1>c, <2>2 DEF Cancel, Hears, Remove, Show
  <2>3. CASE SendCancel(u) \/ RequestFailed(u)
    BY <1>a, <1>b, <1>c, <2>3 DEF SendCancel, RequestFailed, Fail, Remove, Caller, mapVars
  <2>4. CASE Settle(u)
    BY <1>a, <1>b, <1>c, <2>4 DEF Settle, FinishTransfer
  <2>5. CASE SettleFails(u)
    BY <1>a, <1>b, <1>c, <2>5 DEF SettleFails, Fail, Remove
  <2> QED
    BY <1>2, <2>1, <2>2, <2>3, <2>4, <2>5 DEF Command
<1>3. ASSUME NEW u \in Uploads, UploadCommand(u) PROVE Goal
  <2>1. CASE RequestChunk(u) \/ BeginFinish(u) \/ RequestFinish(u)
    BY <1>a, <1>b, <1>c, <2>1 DEF RequestChunk, BeginFinish, RequestFinish, mapVars
  <2>2. CASE ReadyTimesOut(u) \/ FinishTimesOut(u)
    BY <1>a, <1>b, <1>c, <2>2 DEF ReadyTimesOut, FinishTimesOut, Fail, Remove
  <2> QED
    BY <1>3, <2>1, <2>2 DEF UploadCommand
<1>4. CASE Disconnect \/ Stopped \/ ConnectionEnded
  BY <1>4, <1>a, <1>b, <1>c DEF Disconnect, Stopped, ConnectionEnded, Close, mapVars
<1>5. CASE Respond
  <2>1. PICK m : /\ m.op \in Ops /\ Known(m.op) /\ HandleResponse(m.op, m.type)
                 /\ m.type = "Complete" /\ m.op \in Uploads /\ m.op \in entry
                    => m.op \in published /\ m.op \in finishing
    BY <1>5, HeardTrue
  <2>2. settling = None /\ None \notin Ops
    BY <2>1, FileJobConstants DEF HandleResponse
  <2>3. CASE HandleData(m.op, 0) \/ HandleData(m.op, 1)
    BY <1>a, <1>b, <1>c, <2>2, <2>3 DEF HandleData, CancelRemoteAndFail, Fail, Remove, mapVars
  <2>4. CASE HandleReady(m.op) \/ HandleError(m.op)
    BY <1>a, <1>b, <1>c, <2>2, <2>4 DEF HandleReady, HandleError, Fail, Remove
  <2>5. CASE m.type = "Complete" /\ HandleComplete(m.op)
    BY <1>a, <1>b, <1>c, <2>1, <2>2, <2>5 DEF HandleComplete, Remove
  <2> QED
    BY <2>1, <2>3, <2>4, <2>5 DEF HandleResponse
<1> QED
  BY <1>1, <1>2, <1>3, <1>4, <1>5, ViewerMoves

LEMMA RealInit == Init => Real
<1> SUFFICES ASSUME Init PROVE Real
  OBVIOUS
<1>1. Typed
  BY TypedInit
<1>2. OnTheWay
  <2>1. <<>> \in Seq(FairRequests) /\ <<>> \in Seq(FairMessages)
    OBVIOUS
  <2>3. \A t \in Uploads : <<>> \in Seq(FairCommands(t))
    OBVIOUS
  <2>4. \A t \in Uploads : None # <<t, "finish">>
    BY NoneApart
  <2>2. requests = <<>> /\ outgoing = <<>> /\ feeding = None /\ \A t \in Uploads : commands[t] = <<>>
    BY DEF Init, JobsInit, ClientInit
  <2> QED
    BY <2>1, <2>2, <2>3, <2>4 DEF OnTheWay
<1>3. AskedFor
  BY FileJobConstants DEF Init, JobsInit, AskedFor, Ops
<1>4. Viewed
  BY FileJobConstants, SameOps DEF Init, ClientInit, Viewed, Ops
<1>5. ShownIsReal
  BY SameOps DEF Init, ClientInit, ShownIsReal
<1> QED
  BY <1>1, <1>2, <1>3, <1>4, <1>5 DEF Real

\* Whichever of cancel, timeout, answer and lost connection comes first: what the window
\* shows as done is in its place, and what it shows as running still has an entry that its
\* end will remove, or is being completed (complete_transfer, finish_transfer, fail_transfer).
THEOREM ShownCorrect == Spec => []ShownIsReal
<1>1. IInv /\ Real /\ [Next]_vars => Real'
  <2> SUFFICES ASSUME IInv, Real, [Next]_vars PROVE Real'
    OBVIOUS
  <2> USE DEF Real
  <2>1. Typed' /\ AskedFor' /\ Viewed' /\ ShownIsReal'
    BY TypedStep, AskedForStep, ViewedStep, ShownStep
  <2>2. OnTheWay'
    BY RequestsStep, MessagesStep, CommandsStep DEF OnTheWay
  <2> QED
    BY <2>1, <2>2
<1>2. Real => ShownIsReal
  BY DEF Real
<1> QED
  BY <1>1, <1>2, RealInit, JobsRefined, IInvInvariant, PTL DEF Spec
=============================================================================
