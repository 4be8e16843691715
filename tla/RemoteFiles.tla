---------------------------- MODULE RemoteFiles ----------------------------
(***************************************************************************)
(* The file client of a viewer's remote session                            *)
(* (src-tauri/src/remote_files.rs, earlier and closed by remote.rs).        *)
(*                                                                         *)
(* Commands of the window run concurrently: the one that carries a         *)
(* transfer out (its caller), cancel and dismiss.  They meet the reader of *)
(* the connection in one locked map, and none of them keeps the lock while *)
(* it waits for room in the outbound queue or writes a file.  A file is    *)
(* one chunk long.                                                         *)
(***************************************************************************)
EXTENDS Naturals, Sequences

CONSTANTS
    Uploads, Downloads,  \* operation identifiers, each drawn once
    RequestCapacity,     \* requests under way to the agent
    None

Transfers == Uploads \cup Downloads

VARIABLES
    client,     \* the client of the session open now
    earlier,    \* operations begun with an earlier client
    shown,      \* the state of the transfer the window lists
    entry,      \* transfers in the maps of running downloads and uploads
    ready,      \* uploads whose caller waits to hear UploadReady
    finishing,  \* uploads whose caller waits to hear Complete
    caller,     \* where the command that carries a transfer out is
    received,   \* what arrived of a download: nothing, its start, all of it
    saved,      \* downloads whose file is in place
    settling,   \* the transfer the reader completes without the lock
    cancels,    \* cancellations that wait for room in the queue
    requests    \* requests under way to the agent

mapVars == <<shown, entry, ready, finishing>>
clientVars == <<client, earlier, mapVars, caller, received, saved, settling, cancels, requests>>

Callers == {"idle", "starting", "waiting", "feeding", "closingUp", "finishing",
            "confirming", "over"}
Requests == [op : Transfers, type : {"Start", "chunk", "finish", "Cancel"}]

ClientTypeOK ==
    /\ client \in {"up", "closing", "closed"}
    /\ earlier \subseteq Transfers
    /\ shown \in [Transfers -> {"none", "running", "done", "error", "cancelled", "dismissed"}]
    /\ entry \subseteq Transfers
    /\ ready \subseteq Uploads /\ finishing \subseteq Uploads
    /\ caller \in [Transfers -> Callers]
    /\ received \in [Downloads -> 0..2]
    /\ saved \subseteq Downloads
    /\ settling \in Transfers \cup {None}
    /\ cancels \subseteq Transfers
    /\ requests \in Seq(Requests)

ClientInit ==
    /\ client = "closed" /\ earlier = {}
    /\ shown = [t \in Transfers |-> "none"]
    /\ entry = {} /\ ready = {} /\ finishing = {}
    /\ caller = [t \in Transfers |-> "idle"]
    /\ received = [t \in Downloads |-> 0]
    /\ saved = {} /\ settling = None /\ cancels = {}
    /\ requests = <<>>

QueueRoom == Len(requests) < RequestCapacity
Enqueue(t, type) == requests' = Append(requests, [op |-> t, type |-> type])

\* The outbound queue of the client a transfer was begun with is still read.
QueueOpen(t) == client # "closed" /\ t \notin earlier

Show(t, s)   == shown' = [shown EXCEPT ![t] = s]
Caller(t, p) == caller' = [caller EXCEPT ![t] = p]

\* Whoever waits for an answer hears the failure and returns.
Hears(t) ==
    caller' = IF caller[t] \in {"waiting", "confirming"}
              THEN [caller EXCEPT ![t] = "over"] ELSE caller

\* What remove does to the maps; the senders of a removed upload go with it.
Remove(t) ==
    /\ entry' = entry \ {t}
    /\ ready' = ready \ {t}
    /\ finishing' = finishing \ {t}

\* fail_transfer: a cancelled or completed transfer does not turn into an error.
Fail(t) ==
    /\ Remove(t)
    /\ shown' = IF shown[t] = "running" THEN [shown EXCEPT ![t] = "error"] ELSE shown

(***************************************************************************)
(* The commands of the window.                                             *)
(***************************************************************************)

\* download_start and upload_begin insert the transfer, then wait for room.  The
\* command looked the client up earlier: a disconnect may have closed it since.
Begin(t) ==
    /\ caller[t] = "idle" /\ client # "closed"
    /\ entry' = entry \cup {t}
    /\ ready' = IF t \in Uploads THEN ready \cup {t} ELSE ready
    /\ Show(t, "running")
    /\ Caller(t, "starting")
    /\ UNCHANGED <<client, earlier, finishing, received, saved, settling, cancels, requests>>

RequestStart(t) ==
    /\ caller[t] = "starting" /\ QueueOpen(t) /\ QueueRoom
    /\ Enqueue(t, "Start")
    /\ Caller(t, IF t \in ready THEN "waiting" ELSE "over")
    /\ UNCHANGED <<client, earlier, mapVars, received, saved, settling, cancels>>

\* upload_chunk, once UploadReady was heard: check under the lock, send, and
\* check again.
RequestChunk(t) ==
    /\ caller[t] = "feeding" /\ QueueOpen(t)
    /\ \/ t \in entry /\ QueueRoom /\ Enqueue(t, "chunk") /\ Caller(t, "closingUp")
       \/ t \notin entry /\ Caller(t, "over") /\ UNCHANGED requests
    /\ UNCHANGED <<client, earlier, mapVars, received, saved, settling, cancels>>

\* upload_finish registers who waits for Complete, then waits for room.
BeginFinish(t) ==
    /\ caller[t] = "closingUp"
    /\ \/ t \in entry /\ finishing' = finishing \cup {t} /\ Caller(t, "finishing")
       \/ t \notin entry /\ Caller(t, "over") /\ UNCHANGED finishing
    /\ UNCHANGED <<client, earlier, shown, entry, ready, received, saved, settling, cancels,
                   requests>>

RequestFinish(t) ==
    /\ caller[t] = "finishing" /\ QueueOpen(t) /\ QueueRoom
    /\ Enqueue(t, "finish")
    /\ Caller(t, IF t \in finishing THEN "confirming" ELSE "over")
    /\ UNCHANGED <<client, earlier, mapVars, received, saved, settling, cancels>>

\* The queue has no reader any more: "The remote session is no longer connected."
RequestFailed(t) ==
    /\ caller[t] \in {"starting", "feeding", "finishing"} /\ ~QueueOpen(t)
    /\ Fail(t)
    /\ Caller(t, "over")
    /\ UNCHANGED <<client, earlier, received, saved, settling, cancels, requests>>

\* upload_begin waits 30 seconds for UploadReady, then fails and cancels.
ReadyTimesOut(t) ==
    /\ caller[t] = "waiting" /\ t \in ready
    /\ Fail(t)
    /\ cancels' = cancels \cup {t}
    /\ Caller(t, "over")
    /\ UNCHANGED <<client, earlier, received, saved, settling, requests>>

\* upload_finish waits 60 seconds for Complete, then fails.
FinishTimesOut(t) ==
    /\ caller[t] = "confirming" /\ t \in finishing
    /\ Fail(t)
    /\ Caller(t, "over")
    /\ UNCHANGED <<client, earlier, received, saved, settling, cancels, requests>>

\* Mutant of Cancel: the running upload keeps its entry and its senders.
CancelKeepsEntry(t) ==
    /\ shown[t] = "running"
    /\ Show(t, "cancelled")
    /\ cancels' = cancels \cup {t}
    /\ UNCHANGED <<client, earlier, entry, ready, finishing, caller, received, saved,
                   settling, requests>>

\* cancel, by the person, by a command that met an error, or by a revoked grant.
Cancel(t) ==
    /\ shown[t] = "running"
    /\ Remove(t)
    /\ Hears(t)
    /\ Show(t, "cancelled")
    /\ cancels' = cancels \cup {t}
    /\ UNCHANGED <<client, earlier, received, saved, settling, requests>>

\* Cancel is enqueued when there is room; without a reader it is dropped.
SendCancel(t) ==
    /\ t \in cancels
    /\ IF QueueOpen(t) THEN QueueRoom /\ Enqueue(t, "Cancel") ELSE UNCHANGED requests
    /\ cancels' = cancels \ {t}
    /\ UNCHANGED <<client, earlier, mapVars, caller, received, saved, settling>>

Dismiss(t) ==
    /\ shown[t] \in {"done", "error", "cancelled"}
    /\ Show(t, "dismissed")
    /\ UNCHANGED <<client, earlier, entry, ready, finishing, caller, received, saved,
                   settling, cancels, requests>>

(***************************************************************************)
(* The reader: handle_response.                                            *)
(***************************************************************************)

\* cancel_remote tries once, then the transfer fails.
CancelRemoteAndFail(t) ==
    /\ Fail(t)
    /\ Hears(t)
    /\ IF QueueRoom THEN Enqueue(t, "Cancel") ELSE UNCHANGED requests
    /\ UNCHANGED received

\* DownloadStart and DownloadChunk, in that order and each once, or a local failure.
HandleData(t, from) ==
    /\ t \in Downloads
    /\ \/ /\ t \in entry /\ received[t] = from
          /\ received' = [received EXCEPT ![t] = from + 1]
          /\ UNCHANGED <<mapVars, caller, requests>>
       \/ CancelRemoteAndFail(t)
    /\ UNCHANGED <<saved, settling>>

HandleReady(t) ==
    /\ t \in Uploads
    /\ ready' = ready \ {t}
    /\ caller' = IF t \in ready /\ caller[t] = "waiting"
                 THEN [caller EXCEPT ![t] = "feeding"] ELSE caller
    /\ UNCHANGED <<shown, entry, finishing, received, saved, settling, requests>>

\* complete_transfer takes the transfer out of the map under the lock; what it
\* still has to do for it, it does without the lock.
HandleComplete(t) ==
    /\ Remove(t)
    /\ Hears(t)
    /\ settling' = IF t \in entry /\ (t \in Uploads => t \in finishing) THEN t ELSE settling
    /\ UNCHANGED <<shown, received, saved, requests>>

HandleError(t) ==
    /\ Fail(t)
    /\ Hears(t)
    /\ UNCHANGED <<received, saved, settling, requests>>

HandleResponse(t, type) ==
    /\ client # "closed" /\ settling = None
    /\ \/ type = "Start"    /\ HandleData(t, 0)
       \/ type = "Chunk"    /\ HandleData(t, 1)
       \/ type = "Ready"    /\ HandleReady(t)
       \/ type = "Complete" /\ HandleComplete(t)
       \/ type = "Error"    /\ HandleError(t)
    /\ UNCHANGED <<client, earlier, cancels>>

\* finish_transfer: whatever the list says by now, unless the entry was dismissed.
FinishTransfer(t) ==
    shown' = IF shown[t] \in {"none", "dismissed"} THEN shown ELSE [shown EXCEPT ![t] = "done"]

\* The file of a complete download takes its place; an upload is only marked.
Settle(t) ==
    /\ settling = t
    /\ t \in Downloads => received[t] = 2
    /\ saved' = IF t \in Downloads THEN saved \cup {t} ELSE saved
    /\ FinishTransfer(t)
    /\ settling' = None
    /\ UNCHANGED <<client, earlier, entry, ready, finishing, caller, received, cancels, requests>>

\* The download is incomplete or cannot be put in place.
SettleFails(t) ==
    /\ settling = t /\ t \in Downloads
    /\ Fail(t)
    /\ settling' = None
    /\ UNCHANGED <<client, earlier, caller, received, saved, cancels, requests>>

(***************************************************************************)
(* Opening and closing.                                                    *)
(***************************************************************************)

Connect ==
    /\ client = "closed"
    /\ client' = "up"
    /\ earlier' = {t \in Transfers : caller[t] # "idle"}
    /\ requests' = <<>>
    /\ UNCHANGED <<mapVars, caller, received, saved, settling, cancels>>

\* Mutant of Close: what was running stays listed as running.
CloseMaps(next) ==
    /\ client' = next
    /\ entry' = entry \cap earlier
    /\ ready' = ready \cap earlier
    /\ finishing' = finishing \cap earlier
    /\ caller' = [t \in Transfers |-> IF t \notin earlier
                                         /\ caller[t] \in {"waiting", "confirming"}
                                      THEN "over" ELSE caller[t]]
    /\ UNCHANGED <<earlier, shown, received, saved, settling, cancels, requests>>

\* RemoteFilesClient::close: every entry goes, every running transfer is an error.
\* What an earlier client still holds is out of its reach.
Close(next) ==
    /\ client' = next
    /\ entry' = entry \cap earlier
    /\ ready' = ready \cap earlier
    /\ finishing' = finishing \cap earlier
    /\ shown' = [t \in Transfers |-> IF shown[t] = "running" /\ t \notin earlier
                                     THEN "error" ELSE shown[t]]
    /\ caller' = [t \in Transfers |-> IF t \notin earlier
                                         /\ caller[t] \in {"waiting", "confirming"}
                                      THEN "over" ELSE caller[t]]
    /\ UNCHANGED <<earlier, received, saved, settling, cancels, requests>>

\* disconnect: the client is closed while reader and writer still run.
Disconnect == client = "up" /\ Close("closing")

\* supervise_remote_tasks: reader or writer ended, so both have.
ConnectionEnded == client = "up" /\ settling = None /\ Close("closed")

\* stop_remote_session: the supervisor has joined the reader and the writer.
Stopped ==
    /\ client = "closing" /\ settling = None
    /\ client' = "closed"
    /\ UNCHANGED <<earlier, mapVars, caller, received, saved, settling, cancels, requests>>

Command(t) ==
    \/ Begin(t) \/ RequestStart(t) \/ Cancel(t) \/ SendCancel(t) \/ Dismiss(t)
    \/ RequestFailed(t) \/ Settle(t) \/ SettleFails(t)

UploadCommand(t) ==
    \/ RequestChunk(t) \/ BeginFinish(t) \/ RequestFinish(t) \/ ReadyTimesOut(t) \/ FinishTimesOut(t)

ClientStep ==
    \/ \E t \in Transfers : Command(t)
    \/ \E t \in Uploads : UploadCommand(t)
    \/ Disconnect \/ Stopped
=============================================================================
