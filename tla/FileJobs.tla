------------------------------ MODULE FileJobs ------------------------------
(***************************************************************************)
(* The file side of a sharing session in the agent process                 *)
(* (crates/lattice-remote/src/bin/lattice-agent.rs).                       *)
(*                                                                         *)
(* The receive loop of a session admits a request as a job: it takes one   *)
(* of the permits of the process, registers the operation and starts a     *)
(* detached thread for it.  Loop and thread then meet in the control of    *)
(* the job (its state and its cancelled watch), in the registry of the     *)
(* session, in the process-wide table of upload folders and in the queue   *)
(* of outgoing messages.  A session that ends cancels its jobs and waits a *)
(* bounded time for them; a thread that outlives it is left behind and     *)
(* still holds its permit and its folder when the next session starts.     *)
(*                                                                         *)
(* A viewer never uses an operation identifier twice (next_operation_id),  *)
(* so an identifier stands for its job.  A file is one chunk long.         *)
(* Listings and text reads run like downloads, text saves like uploads.    *)
(***************************************************************************)
EXTENDS Integers, Sequences, FiniteSets

CONSTANTS
    Uploads, Downloads,  \* operation identifiers
    Folders,
    folder,              \* the folder an upload is for
    announced,           \* the bytes an upload announces
    FileJobLimit,        \* permits of the process
    ActiveUploadLimit, ActiveDownloadLimit, MaxSessionBytes,  \* of a session
    CommandCapacity,     \* commands queued for one upload
    OutgoingCapacity,    \* messages queued for the writer
    MaxSessions,         \* sessions served one after the other
    None

Ops == Uploads \cup Downloads

ASSUME FileJobConstants ==
    /\ IsFiniteSet(Uploads) /\ IsFiniteSet(Downloads)
    /\ Uploads \cap Downloads = {}
    /\ folder \in [Uploads -> Folders]
    /\ announced \in [Uploads -> Nat]
    /\ FileJobLimit \in Nat \ {0}
    /\ ActiveUploadLimit \in Nat /\ ActiveDownloadLimit \in Nat
    /\ MaxSessionBytes \in Nat
    /\ CommandCapacity \in Nat \ {0} /\ OutgoingCapacity \in Nat \ {0}
    /\ MaxSessions \in Nat
    /\ None \notin Ops \cup {"Complete", "Error"}

\* Nothing to feed is told apart from a command to feed.
ASSUME NoneApart == None \notin Uploads \X {"chunk", "finish"}

VARIABLES
    session,        \* the session served now, or last
    receiver,       \* its receive loop
    feeding,        \* the command its loop waits to hand to an upload
    linked,         \* its connection, and with it the writer, is alive
    failed,         \* its failed watch
    operations,     \* its registered operations
    activeBytes, committedBytes,
    inFlight,       \* its registrations that still exist
    settled,        \* a permit stored in its Notify
    outgoing,       \* its queue of outgoing messages
    worker,         \* where the thread of a job is
    sessionOf,      \* the session that admitted it
    control,        \* its FileJobState; a member of Reasons while it is cancelling
    signalled,      \* jobs whose cancelled watch is set
    progress,       \* chunks read or written
    answer,         \* the terminal message the worker claimed
    commands,       \* the command queue of an upload
    counted,        \* uploads with upload_committed set
    permits,        \* free permits of the process
    targets,        \* who reserved a folder
    staged,         \* uploads with a staging file
    published       \* uploads whose file is in place

loopVars     == <<session, receiver, feeding, linked, failed>>
registryVars == <<operations, activeBytes, committedBytes, counted>>
idleVars     == <<inFlight, settled>>
controlVars  == <<control, signalled>>
fileVars     == <<progress, targets, staged, published>>
jobVars == <<loopVars, registryVars, idleVars, outgoing, worker, sessionOf, controlVars,
             answer, commands, permits, fileVars>>

\* Where a thread is while it holds its permit.
Holding == {"starting", "reserved", "staged", "receiving", "committing", "counting",
            "reading", "answering", "releasing"}
Phases == {"none", "leaving", "notifying", "gone"} \cup Holding

Commands  == {"chunk", "finish"}
Terminals == {"Complete", "Error"}
Reasons   == Terminals \cup {"Silent"}  \* what a cancelled job is to answer
Messages  == [op : Ops, type : {"Start", "Chunk", "Ready"} \cup Terminals]

Holders == {t \in Ops : worker[t] \in Holding}
OfSession(t) == sessionOf[t] = session

JobsTypeOK ==
    /\ session \in 0..MaxSessions
    /\ receiver \in {"none", "open", "draining", "waiting", "drained", "abandoned"}
    /\ feeding \in (Uploads \X Commands) \cup {None}
    /\ linked \in BOOLEAN /\ failed \in BOOLEAN /\ settled \in BOOLEAN
    /\ operations \subseteq Ops
    /\ activeBytes \in Int /\ committedBytes \in Nat
    /\ inFlight \in Nat
    /\ outgoing \in Seq(Messages)
    /\ worker \in [Ops -> Phases]
    /\ sessionOf \in [Ops -> 0..MaxSessions]
    /\ control \in [Ops -> {"active", "committing", "terminal"} \cup Reasons]
    /\ signalled \subseteq Ops
    /\ progress \in [Ops -> 0..1]
    /\ answer \in [Ops -> Terminals \cup {None}]
    /\ commands \in [Uploads -> Seq(Commands)]
    /\ counted \subseteq Uploads
    /\ permits \in 0..FileJobLimit
    /\ targets \in [Folders -> Uploads \cup {None}]
    /\ staged \subseteq Uploads
    /\ published \subseteq Uploads

JobsInit ==
    /\ session = 0 /\ receiver = "none" /\ feeding = None
    /\ linked = FALSE /\ failed = FALSE
    /\ operations = {} /\ activeBytes = 0 /\ committedBytes = 0
    /\ inFlight = 0 /\ settled = FALSE /\ counted = {}
    /\ outgoing = <<>>
    /\ worker = [t \in Ops |-> "none"]
    /\ sessionOf = [t \in Ops |-> 0]
    /\ control = [t \in Ops |-> "active"]
    /\ signalled = {}
    /\ progress = [t \in Ops |-> 0]
    /\ answer = [t \in Ops |-> None]
    /\ commands = [t \in Uploads |-> <<>>]
    /\ permits = FileJobLimit
    /\ targets = [f \in Folders |-> None]
    /\ staged = {} /\ published = {}
(***************************************************************************)
(* The control of a job: four states under one lock.                       *)
(***************************************************************************)

\* request_cancel: the first cancel decides the answer, unless it comes too late.
RequestCancel(t, r) ==
    IF control[t] = "active"
    THEN /\ control' = [control EXCEPT ![t] = r]
         /\ signalled' = signalled \cup {t}
    ELSE UNCHANGED controlVars

\* cancel_all: cancel_silently for every registered job, then a cleared registry.
CancelAll ==
    LET hit == {t \in operations : control[t] \in {"active"} \cup Reasons} IN
    /\ control' = [t \in Ops |-> IF t \in hit THEN "Silent" ELSE control[t]]
    /\ signalled' = signalled \cup hit
    /\ operations' = {}
    /\ activeBytes' = 0
    /\ UNCHANGED <<committedBytes, counted>>

\* claim_cancel_terminal, then the answer the cancellation asked for, if any.
ClaimCancelled(t) ==
    /\ control[t] \in Reasons
    /\ control' = [control EXCEPT ![t] = "terminal"]
    /\ answer' = [answer EXCEPT ![t] = IF control[t] = "Silent" THEN None ELSE control[t]]
    /\ worker' = [worker EXCEPT ![t] = IF control[t] = "Silent" THEN "releasing"
                                                                ELSE "answering"]
    /\ UNCHANGED signalled

\* claim_active_terminal, and the message the worker ends with.
ClaimActive(t, type) ==
    /\ control[t] = "active"
    /\ control' = [control EXCEPT ![t] = "terminal"]
    /\ answer' = [answer EXCEPT ![t] = type]
    /\ worker' = [worker EXCEPT ![t] = "answering"]
    /\ UNCHANGED signalled

(***************************************************************************)
(* The receive loop.                                                       *)
(***************************************************************************)

NextSession ==
    /\ receiver \in {"none", "drained", "abandoned"}
    /\ session < MaxSessions
    /\ session' = session + 1
    /\ receiver' = "open"
    /\ linked' = TRUE /\ failed' = FALSE
    /\ operations' = {} /\ activeBytes' = 0 /\ committedBytes' = 0
    /\ inFlight' = 0 /\ settled' = FALSE
    /\ outgoing' = <<>>
    /\ UNCHANGED <<feeding, counted, worker, sessionOf, controlVars, answer, commands,
                   permits, fileVars>>

\* The loop takes the next request; a failed watch would end it first.
Listening == receiver = "open" /\ linked /\ ~failed /\ feeding = None

Room == Len(outgoing) < OutgoingCapacity

\* send_immediate: no room within FILE_CONTROL_RESPONSE_TIMEOUT fails the session.
Reply(t, type) ==
    \/ /\ Room
       /\ outgoing' = Append(outgoing, [op |-> t, type |-> type])
       /\ UNCHANGED failed
    \/ /\ ~Room
       /\ failed' = TRUE
       /\ UNCHANGED outgoing

\* try_admit_file_job: a free permit, and what the registry of the session allows.
MayAdmit(t) ==
    /\ permits > 0
    /\ t \notin operations
    /\ t \in Downloads =>
           Cardinality(operations \cap Downloads) < ActiveDownloadLimit
    /\ t \in Uploads =>
           /\ Cardinality(operations \cap Uploads) < ActiveUploadLimit
           /\ activeBytes + committedBytes + announced[t] <= MaxSessionBytes

Admit(t) ==
    /\ Listening
    /\ worker[t] = "none"
    /\ MayAdmit(t)
    /\ permits' = permits - 1
    /\ operations' = operations \cup {t}
    /\ activeBytes' = IF t \in Uploads THEN activeBytes + announced[t] ELSE activeBytes
    /\ inFlight' = inFlight + 1
    /\ worker' = [worker EXCEPT ![t] = "starting"]
    /\ sessionOf' = [sessionOf EXCEPT ![t] = session]
    /\ UNCHANGED <<loopVars, committedBytes, counted, settled, outgoing, controlVars,
                   answer, commands, fileVars>>

\* No permit, a limit of the session, or bytes beyond its quota.
Refuse(t) ==
    /\ Listening
    /\ worker[t] = "none"
    /\ ~MayAdmit(t)
    /\ Reply(t, "Error")
    /\ UNCHANGED <<session, receiver, feeding, linked, registryVars, idleVars, worker,
                   sessionOf, controlVars, answer, commands, permits, fileVars>>

\* Mutant of SpawnFails: the permit, dropped with the thread's closure, is given
\* back once more.
SpawnFailsTwice(t) ==
    /\ Listening
    /\ worker[t] = "none"
    /\ MayAdmit(t)
    /\ settled' = TRUE
    /\ Reply(t, "Error")
    /\ permits' = permits + 1
    /\ UNCHANGED <<session, receiver, feeding, linked, registryVars, inFlight, worker,
                   sessionOf, controlVars, answer, commands, fileVars>>

\* The thread cannot be started: permit and registration are dropped again, and
\* the registration leaves a permit in the Notify.
SpawnFails(t) ==
    /\ Listening
    /\ worker[t] = "none"
    /\ MayAdmit(t)
    /\ settled' = TRUE
    /\ Reply(t, "Error")
    /\ UNCHANGED <<session, receiver, feeding, linked, registryVars, inFlight, worker,
                   sessionOf, controlVars, answer, commands, permits, fileVars>>

\* send_upload_command looks the control up; the job may end before the command is
\* in its queue.
HandleCommand(t, c) ==
    /\ Listening
    /\ \/ /\ t \in operations
          /\ feeding' = <<t, c>>
          /\ UNCHANGED <<failed, outgoing>>
       \/ /\ t \notin operations
          /\ Reply(t, "Error")
          /\ UNCHANGED feeding
    /\ UNCHANGED <<session, receiver, linked, registryVars, idleVars, worker, sessionOf,
                   controlVars, answer, commands, permits, fileVars>>

\* There is room in the queue of the thread, which lives as long as its owner.
FeedOn ==
    /\ receiver = "open" /\ ~failed
    /\ \E t \in Uploads, c \in Commands :
        /\ feeding = <<t, c>> /\ worker[t] # "gone"
        /\ Len(commands[t]) < CommandCapacity
        /\ commands' = [commands EXCEPT ![t] = Append(@, c)]
    /\ feeding' = None
    /\ UNCHANGED <<session, receiver, linked, failed, registryVars, idleVars, outgoing,
                   worker, sessionOf, controlVars, answer, permits, fileVars>>

\* REMOTE_INPUT_ENQUEUE_TIMEOUT: the upload is cancelled with an error.
FeedTimesOut ==
    /\ receiver = "open" /\ ~failed
    /\ \E t \in Uploads, c \in Commands :
        /\ feeding = <<t, c>> /\ worker[t] # "gone"
        /\ Len(commands[t]) = CommandCapacity
        /\ RequestCancel(t, "Error")
    /\ feeding' = None
    /\ UNCHANGED <<session, receiver, linked, failed, registryVars, idleVars, outgoing,
                   worker, sessionOf, answer, commands, permits, fileVars>>

\* The thread ended and took the receiving end of its queue along.
FeedOrphaned ==
    /\ receiver = "open" /\ ~failed
    /\ \E t \in Uploads, c \in Commands : feeding = <<t, c>> /\ worker[t] = "gone"
    /\ feeding' = None
    /\ failed' = TRUE
    /\ UNCHANGED <<session, receiver, linked, registryVars, idleVars, outgoing, worker,
                   sessionOf, controlVars, answer, commands, permits, fileVars>>

\* The worker owns the answer to a cancel; a settled operation is answered at once.
HandleCancel(t) ==
    /\ Listening
    /\ \/ /\ t \in operations
          /\ RequestCancel(t, "Complete")
          /\ UNCHANGED <<outgoing, failed>>
       \/ /\ t \notin operations
          /\ Reply(t, "Complete")
          /\ UNCHANGED controlVars
    /\ UNCHANGED <<session, receiver, feeding, linked, registryVars, idleVars, worker,
                   sessionOf, answer, commands, permits, fileVars>>

\* The loop ends (Close, a lost link, the failed watch, the end of the stream)
\* and shutdown begins with cancel_all.
EndSession ==
    /\ receiver = "open"
    /\ CancelAll
    /\ receiver' = "draining"
    /\ feeding' = None
    /\ UNCHANGED <<session, linked, failed, idleVars, outgoing, worker, sessionOf, answer,
                   commands, permits, fileVars>>

\* What the end of a session leaves of its connection: nothing.
HangUp == linked' = FALSE /\ outgoing' = <<>>

\* Mutant of Drain: the registry, cleared by cancel_all, is taken for the count.
DrainRegistry ==
    /\ receiver = "draining"
    /\ \/ /\ operations = {}
          /\ receiver' = "drained"
          /\ HangUp
       \/ /\ operations # {}
          /\ receiver' = "waiting"
          /\ UNCHANGED <<linked, outgoing>>
    /\ UNCHANGED <<session, feeding, failed, registryVars, idleVars, worker, sessionOf,
                   controlVars, answer, commands, permits, fileVars>>

\* wait_for_idle: check the count, then wait for the Notify, then check again.
Drain ==
    /\ receiver = "draining"
    /\ \/ /\ inFlight = 0
          /\ receiver' = "drained"
          /\ HangUp
       \/ /\ inFlight > 0
          /\ receiver' = "waiting"
          /\ UNCHANGED <<linked, outgoing>>
    /\ UNCHANGED <<session, feeding, failed, registryVars, idleVars, worker, sessionOf,
                   controlVars, answer, commands, permits, fileVars>>

Wake ==
    /\ receiver = "waiting"
    /\ settled
    /\ settled' = FALSE
    /\ receiver' = "draining"
    /\ UNCHANGED <<session, feeding, linked, failed, registryVars, inFlight, outgoing,
                   worker, sessionOf, controlVars, answer, commands, permits, fileVars>>

\* FILE_JOB_SHUTDOWN_TIMEOUT: what still runs is left behind.
DrainTimesOut ==
    /\ receiver \in {"draining", "waiting"}
    /\ receiver' = "abandoned"
    /\ HangUp
    /\ UNCHANGED <<session, feeding, failed, registryVars, idleVars, worker, sessionOf,
                   controlVars, answer, commands, permits, fileVars>>

\* The connection breaks: the writer ends and what was queued is lost.
LinkLost ==
    /\ linked
    /\ HangUp
    /\ UNCHANGED <<session, receiver, feeding, failed, registryVars, idleVars, worker,
                   sessionOf, controlVars, answer, commands, permits, fileVars>>

(***************************************************************************)
(* The threads.                                                            *)
(***************************************************************************)

Goto(t, p) == worker' = [worker EXCEPT ![t] = p]

\* The queue of a thread's own session still has a reader.
WriterOpen(t) == OfSession(t) /\ linked

\* A worker that sees the cancellation stops, its staging file removed first.  A
\* filesystem call under way ends before that; a failed one ends the same way.
StopCancelled(t) ==
    /\ worker[t] \in {"starting", "reserved", "staged", "receiving", "reading"}
    /\ ClaimCancelled(t)
    /\ staged' = staged \ {t}
    /\ UNCHANGED <<loopVars, registryVars, idleVars, outgoing, sessionOf, commands,
                   permits, progress, targets, published>>

\* A filesystem call fails, the folder is taken, or UPLOAD_IDLE_TIMEOUT passes.
StopWithError(t) ==
    /\ worker[t] \in {"starting", "reserved", "receiving", "reading"}
    /\ ClaimActive(t, "Error")
    /\ staged' = staged \ {t}
    /\ UNCHANGED <<loopVars, registryVars, idleVars, outgoing, sessionOf, commands,
                   permits, progress, targets, published>>

\* send_file_job_message: the cancelled watch first, then room within the timeout.
Send(t, type, next) ==
    /\ t \notin signalled
    /\ WriterOpen(t) /\ Room
    /\ outgoing' = Append(outgoing, [op |-> t, type |-> type])
    /\ Goto(t, next)
    /\ UNCHANGED <<loopVars, registryVars, idleVars, sessionOf, controlVars, answer,
                   commands, permits, targets, staged, published>>

\* No room within FILE_RESPONSE_ENQUEUE_TIMEOUT, or no writer: the session fails,
\* and the worker leaves without an answer.
SendFails(t) ==
    /\ \/ worker[t] = "staged"
       \/ worker[t] = "starting" /\ t \in Downloads
       \/ worker[t] = "reading" /\ progress[t] = 0
    /\ t \notin signalled
    /\ ~(WriterOpen(t) /\ Room)
    /\ failed' = (failed \/ OfSession(t))
    /\ staged' = staged \ {t}
    /\ control' = IF t \in Uploads THEN [control EXCEPT ![t] = "terminal"] ELSE control
    /\ Goto(t, "releasing")
    /\ UNCHANGED <<session, receiver, feeding, linked, registryVars, idleVars, outgoing,
                   sessionOf, signalled, answer, commands, permits, progress,
                   targets, published>>

\* spawn_download: open and announce, read and send chunk after chunk, complete.
SendStart(t) ==
    /\ t \in Downloads
    /\ worker[t] = "starting"
    /\ Send(t, "Start", "reading")
    /\ UNCHANGED progress

SendChunk(t) ==
    /\ worker[t] = "reading"
    /\ progress[t] = 0
    /\ progress' = [progress EXCEPT ![t] = 1]
    /\ Send(t, "Chunk", "reading")

DownloadDone(t) ==
    /\ worker[t] = "reading"
    /\ progress[t] = 1
    /\ ClaimActive(t, "Complete")
    /\ UNCHANGED <<loopVars, registryVars, idleVars, outgoing, sessionOf, commands,
                   permits, fileVars>>

\* Mutant of ReserveTarget: a folder that is taken is reserved again.
ReserveAgain(t) ==
    /\ t \in Uploads
    /\ worker[t] = "starting" /\ control[t] = "active"
    /\ targets' = [targets EXCEPT ![folder[t]] = t]
    /\ Goto(t, "reserved")
    /\ UNCHANGED <<loopVars, registryVars, idleVars, outgoing, sessionOf, controlVars,
                   answer, commands, permits, progress, staged, published>>

\* spawn_upload: resolve the destination and reserve its folder
\* (try_reserve_upload_target), then open a staging file there.
ReserveTarget(t) ==
    /\ t \in Uploads
    /\ worker[t] = "starting" /\ control[t] = "active"
    /\ targets[folder[t]] = None
    /\ targets' = [targets EXCEPT ![folder[t]] = t]
    /\ Goto(t, "reserved")
    /\ UNCHANGED <<loopVars, registryVars, idleVars, outgoing, sessionOf, controlVars,
                   answer, commands, permits, progress, staged, published>>

Stage(t) ==
    /\ worker[t] = "reserved"
    /\ staged' = staged \cup {t}
    /\ Goto(t, "staged")
    /\ UNCHANGED <<loopVars, registryVars, idleVars, outgoing, sessionOf, controlVars,
                   answer, commands, permits, progress, targets, published>>

SendReady(t) ==
    /\ worker[t] = "staged"
    /\ Send(t, "Ready", "receiving")
    /\ UNCHANGED progress

\* The actor takes a chunk, unless it is cancelled, and writes it; a chunk beyond
\* what was announced is an error.
WriteChunk(t) ==
    /\ worker[t] = "receiving" /\ control[t] = "active"
    /\ commands[t] # <<>> /\ Head(commands[t]) = "chunk"
    /\ commands' = [commands EXCEPT ![t] = Tail(@)]
    /\ progress[t] = 0
    /\ progress' = [progress EXCEPT ![t] = 1]
    /\ UNCHANGED <<loopVars, registryVars, idleVars, outgoing, worker, sessionOf,
                   controlVars, answer, permits, targets, staged, published>>

\* Mutant of BeginCommit: the actor commits without asking for the state.
BeginCommitAnyway(t) == control' = [control EXCEPT ![t] = "committing"]

\* begin_upload_commit.
BeginCommit(t) ==
    /\ control[t] = "active"
    /\ control' = [control EXCEPT ![t] = "committing"]

\* UploadFinish reaches the actor: from here a cancel comes too late.
TakeFinish(t) ==
    /\ worker[t] = "receiving"
    /\ commands[t] # <<>> /\ Head(commands[t]) = "finish"
    /\ commands' = [commands EXCEPT ![t] = Tail(@)]
    /\ BeginCommit(t)
    /\ Goto(t, "committing")
    /\ UNCHANGED <<loopVars, registryVars, idleVars, outgoing, sessionOf, signalled,
                   answer, permits, fileVars>>

\* HostUpload::finish: the whole file was received and takes its place.
Publish(t) ==
    /\ worker[t] = "committing"
    /\ progress[t] = 1
    /\ published' = published \cup {t}
    /\ staged' = staged \ {t}
    /\ Goto(t, "counting")
    /\ UNCHANGED <<loopVars, registryVars, idleVars, outgoing, sessionOf, controlVars,
                   answer, commands, permits, progress, targets>>

\* finish fails: an incomplete file, or a filesystem call.
PublishFails(t) ==
    /\ worker[t] = "committing"
    /\ staged' = staged \ {t}
    /\ control' = [control EXCEPT ![t] = "terminal"]
    /\ answer' = [answer EXCEPT ![t] = "Error"]
    /\ Goto(t, "answering")
    /\ UNCHANGED <<loopVars, registryVars, idleVars, outgoing, sessionOf, signalled,
                   commands, permits, progress, targets, published>>

\* Mutant of CountUpload: an upload that is not registered any more answers Error.
CountOrFail(t) ==
    /\ worker[t] = "counting"
    /\ IF OfSession(t) /\ t \in operations
       THEN /\ counted' = counted \cup {t}
            /\ activeBytes' = activeBytes - announced[t]
            /\ committedBytes' = committedBytes + announced[t]
            /\ answer' = [answer EXCEPT ![t] = "Complete"]
       ELSE /\ UNCHANGED <<counted, activeBytes, committedBytes>>
            /\ answer' = [answer EXCEPT ![t] = "Error"]
    /\ control' = [control EXCEPT ![t] = "terminal"]
    /\ Goto(t, "answering")
    /\ UNCHANGED <<loopVars, operations, idleVars, outgoing, sessionOf, signalled,
                   commands, permits, fileVars>>

\* commit_upload, for the session's own registration only; then finish_upload_commit.
CountUpload(t) ==
    /\ worker[t] = "counting"
    /\ IF OfSession(t) /\ t \in operations
       THEN /\ counted' = counted \cup {t}
            /\ activeBytes' = activeBytes - announced[t]
            /\ committedBytes' = committedBytes + announced[t]
       ELSE UNCHANGED <<counted, activeBytes, committedBytes>>
    /\ control' = [control EXCEPT ![t] = "terminal"]
    /\ answer' = [answer EXCEPT ![t] = "Complete"]
    /\ Goto(t, "answering")
    /\ UNCHANGED <<loopVars, operations, idleVars, outgoing, sessionOf, signalled,
                   commands, permits, fileVars>>

\* send_file_terminal_message waits for room, cancelled or not.
SendAnswer(t) ==
    /\ worker[t] = "answering"
    /\ \/ /\ WriterOpen(t) /\ Room
          /\ outgoing' = Append(outgoing, [op |-> t, type |-> answer[t]])
          /\ UNCHANGED failed
       \/ /\ ~(WriterOpen(t) /\ Room)
          /\ failed' = (failed \/ OfSession(t))
          /\ UNCHANGED outgoing
    /\ Goto(t, "releasing")
    /\ UNCHANGED <<session, receiver, feeding, linked, registryVars, idleVars, sessionOf,
                   controlVars, answer, commands, permits, fileVars>>

\* The locals of the thread go first: the folder, then the permit.
Release(t) ==
    /\ worker[t] = "releasing"
    /\ targets' = [f \in Folders |-> IF targets[f] = t THEN None ELSE targets[f]]
    /\ permits' = permits + 1
    /\ Goto(t, "leaving")
    /\ UNCHANGED <<loopVars, registryVars, idleVars, outgoing, sessionOf, controlVars,
                   answer, commands, progress, staged, published>>

\* Mutant of RemoveIfCurrent: the bytes of a counted upload are given back as well.
RemoveAndRefund(t) ==
    /\ operations' = operations \ {t}
    /\ activeBytes' = IF t \in operations \cap Uploads
                      THEN activeBytes - announced[t] ELSE activeBytes

\* remove_if_current.
RemoveIfCurrent(t) ==
    /\ operations' = operations \ {t}
    /\ activeBytes' = IF t \in (operations \cap Uploads) \ counted
                      THEN activeBytes - announced[t] ELSE activeBytes

\* Mutant of Leave: a job that is not registered any more leaves in silence.
LeaveInSilence(t) ==
    /\ worker[t] = "leaving"
    /\ IF OfSession(t)
       THEN RemoveIfCurrent(t) /\ inFlight' = inFlight - 1
       ELSE UNCHANGED <<operations, activeBytes, inFlight>>
    /\ Goto(t, IF OfSession(t) /\ t \in operations THEN "notifying" ELSE "gone")
    /\ UNCHANGED <<loopVars, committedBytes, counted, settled, outgoing, sessionOf,
                   controlVars, answer, commands, permits, fileVars>>

\* The registration is dropped: removed, no longer in flight.
Leave(t) ==
    /\ worker[t] = "leaving"
    /\ IF OfSession(t)
       THEN RemoveIfCurrent(t) /\ inFlight' = inFlight - 1
       ELSE UNCHANGED <<operations, activeBytes, inFlight>>
    /\ Goto(t, "notifying")
    /\ UNCHANGED <<loopVars, committedBytes, counted, settled, outgoing, sessionOf,
                   controlVars, answer, commands, permits, fileVars>>

\* notify_one stores a permit for a shutdown that has not waited yet.
Notify(t) ==
    /\ worker[t] = "notifying"
    /\ settled' = (settled \/ OfSession(t))
    /\ Goto(t, "gone")
    /\ UNCHANGED <<loopVars, registryVars, inFlight, outgoing, sessionOf, controlVars,
                   answer, commands, permits, fileVars>>

Work(t) ==
    \/ StopCancelled(t) \/ StopWithError(t) \/ SendFails(t)
    \/ SendStart(t) \/ SendChunk(t) \/ DownloadDone(t)
    \/ SendAnswer(t) \/ Release(t) \/ Leave(t) \/ Notify(t)

WorkUpload(t) ==
    \/ ReserveTarget(t) \/ Stage(t) \/ SendReady(t) \/ WriteChunk(t) \/ TakeFinish(t)
    \/ Publish(t) \/ PublishFails(t) \/ CountUpload(t)

\* What the loop does of its own accord, and what befalls the connection.
Loop ==
    \/ FeedOn \/ FeedTimesOut \/ FeedOrphaned
    \/ EndSession \/ Drain \/ Wake \/ DrainTimesOut \/ LinkLost

\* The steps no viewer takes part in.
AgentStep ==
    \/ Loop
    \/ \E t \in Ops : Work(t)
    \/ \E t \in Uploads : WorkUpload(t)

\* A request of a viewer, and a message on its way to it.
Start(t) == Admit(t) \/ Refuse(t) \/ SpawnFails(t)

Write ==
    /\ outgoing # <<>>
    /\ outgoing' = Tail(outgoing)
    /\ UNCHANGED <<loopVars, registryVars, idleVars, worker, sessionOf, controlVars,
                   answer, commands, permits, fileVars>>

JobsNext ==
    \/ NextSession \/ AgentStep
    \/ \E t \in Ops : Start(t) \/ HandleCancel(t)
    \/ \E t \in Uploads, c \in Commands : HandleCommand(t, c)
    \/ Write

JobsSpec == JobsInit /\ [][JobsNext]_jobVars

(***************************************************************************)
(* Properties.                                                             *)
(***************************************************************************)

\* An upload whose cancellation was accepted, by the viewer, by a timeout or by
\* the end of the session, never takes the place of its destination, however late
\* the thread notices.
CancelledNotPublished == signalled \cap published = {}

\* What a job answers is what happened: an error means that nothing was
\* published, and an upload that completes was published or had been cancelled.
AnswersHonest ==
    \A t \in Uploads :
        /\ answer[t] = "Error" => t \notin published
        /\ answer[t] = "Complete" => t \in published \cup signalled

\* What a set of uploads announces together.
Bytes[X \in SUBSET Uploads] ==
    IF X = {} THEN 0
    ELSE LET t == CHOOSE t \in X : TRUE IN announced[t] + Bytes[X \ {t}]

\* The quota of a session counts every upload once: announced bytes while it is
\* registered, and for good once it was published and counted.
BytesAccounted ==
    /\ activeBytes = Bytes[(operations \cap Uploads) \ counted]
    /\ committedBytes = Bytes[{t \in counted : OfSession(t)}]
    /\ activeBytes + committedBytes <= MaxSessionBytes

\* Across sessions, and with threads left behind by an earlier one: two uploads
\* never have staging files in one folder, and every thread owns one permit.
ResourcesOwned ==
    /\ permits + Cardinality(Holders) = FileJobLimit
    /\ \A t, u \in staged : folder[t] = folder[u] => t = u
    /\ \A t \in staged : targets[folder[t]] = t

\* A session that saw its jobs settle leaves nothing behind: their files are
\* closed, their folders free and their permits back.
DrainedClean ==
    receiver = "drained" =>
        \A t \in Ops : OfSession(t) =>
            /\ t \notin Holders
            /\ t \notin staged
            /\ \A f \in Folders : targets[f] # t

\* Between the check of the count and the wait no wake-up is lost: when the last
\* job has left, a permit is stored or on its way.
NoLostWakeup ==
    receiver = "waiting" /\ inFlight = 0 =>
        settled \/ \E t \in Ops : OfSession(t) /\ worker[t] = "notifying"

\* What Publication sees of an upload: one that was published is in its place, one whose
\* cancel was accepted is called off, whatever its thread is still busy with.
StageOf(t) ==
    IF t \in published            THEN "placed"
    ELSE IF t \in signalled       THEN "called off"
    ELSE IF worker[t] = "none"    THEN "idle"
    ELSE IF control[t] = "active" THEN "open"
    ELSE IF control[t] = "committing" THEN "sealed" ELSE "failed"

Stages == [t \in Uploads |-> StageOf(t)]
Told   == [t \in Uploads |-> answer[t]]

P == INSTANCE Publication WITH stage <- Stages, told <- Told, owner <- targets

\* The agent keeps the promise of Publication: every step of the receive loop, of a
\* shutdown and of the threads, those of earlier sessions included, is a step of the
\* abstract specification or invisible to it.
PublishesAsPromised == P!Spec
=============================================================================
