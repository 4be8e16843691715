----------------------------- MODULE SftpFiles -----------------------------
(***************************************************************************)
(* Uploads to, and saves of, one path of an SFTP server                    *)
(* (src-tauri/src/sftp_transfers.rs, sftp_text.rs, sftp.rs).               *)
(*                                                                         *)
(* SFTP has no atomic replacement: the file at the path is renamed aside,  *)
(* the new one renamed into place, and any answer may be lost after the    *)
(* server has acted.  An upload is worked on by the command (or the task)  *)
(* that feeds it and ended by whoever cancels it; operations of this       *)
(* application on one path share a gate that none of them waits for.       *)
(* A version stands for content with its size, time and permissions.       *)
(***************************************************************************)
EXTENDS Naturals, FiniteSets

CONSTANTS
    Uploads, Saves,
    Dropped,        \* uploads streamed by a task, the others by the window
    Overwriting,    \* uploads whose user agreed to replace a file
    MaxUnheard,     \* bound: answers lost of requests the server carried out
    NoFile, NoOne

Operations == Uploads \cup Saves

ASSUME SftpConstants ==
    /\ IsFiniteSet(Operations) /\ Uploads \cap Saves = {}
    /\ Dropped \subseteq Uploads /\ Overwriting \subseteq Uploads
    /\ MaxUnheard \in Nat
    /\ NoOne \notin Operations
    \* Operations, threads, versions and contents are told apart.
    /\ NoFile \notin Operations \cup {"original", "foreign", "part"}
    /\ Operations \cap {"original", "foreign", "part"} = {}
    /\ \A u \in Uploads : <<u, "cancel">> \notin Operations \cup {NoOne}

\* The call that cancels an upload is a thread of its own.
Cancels(u) == <<u, "cancel">>
Threads    == Operations \cup {Cancels(u) : u \in Uploads}
Upload(t)  == IF t \in Operations THEN t ELSE t[1]

\* An operation publishes the version that bears its name.
Versions == Operations \cup {"original", "foreign"}
Requests == {"create", "protect", "publish", "restore", "discard", "remove"}

VARIABLES
    target,     \* the version at the path
    staging,    \* what the server has of an operation's private file
    backup,     \* what it set aside
    gate,       \* who holds target_gate
    slot,       \* who holds the upload lock of an upload
    open,       \* uploads whose remote file is open in their slot
    flagged,    \* uploads whose cancel flag is set
    transfer,   \* the state an upload, or the result a save, is shown with
    work,       \* where a thread is
    seen,       \* the version an upload or an editor found at the start
    told,       \* the leftovers an operation's report names
    placed,     \* history: versions that were at the path
    outside,    \* history: versions somebody else replaced or deleted
    unheard     \* history: requests carried out whose answer was lost

serverVars == <<target, staging, backup, placed, outside, unheard>>
entryVars  == <<gate, slot, open, flagged, transfer, seen, told>>
fileVars   == <<serverVars, entryVars, work>>

Publishing == {"looking", "comparing", "protecting", "publishing", "replacing",
               "restoring", "discarding"}
Places == Publishing \cup
    {"idle", "creating", "streaming", "writing", "streamed", "closing", "failed", "stopped",
     "stranded", "shutting", "removing", "editing", "reading", "staging", "verifying", "over"}

FilesTypeOK ==
    /\ target \in Versions \cup {NoFile}
    /\ staging \in [Operations -> Operations \cup {"part", NoFile}]
    /\ backup \in [Operations -> Versions \cup {NoFile}]
    /\ gate \in Operations \cup {NoOne}
    /\ slot \in [Uploads -> Threads \cup {NoOne}]
    /\ open \subseteq Uploads /\ flagged \subseteq Uploads
    /\ transfer \in [Operations -> {"none", "running", "done", "error", "cancelled",
                                  "unchanged"}]
    /\ work \in [Threads -> Places]
    /\ seen \in [Operations -> Versions \cup {NoFile}]
    /\ told \in [Operations -> SUBSET {"staging", "backup"}]
    /\ placed \subseteq Versions /\ outside \subseteq Versions
    /\ unheard \subseteq Operations \X Requests
    \* An upload publishes, and a save works, under the gate; others keep off.
    /\ \A o \in Operations : work[o] \in Publishing => gate = o
    /\ \A u \in Uploads : work[u] \in Publishing \cup {"writing", "closing"} => slot[u] = u

FilesInit ==
    /\ target \in {"original", NoFile} /\ placed = {target} \ {NoFile}
    /\ staging = [o \in Operations |-> NoFile] /\ backup = staging /\ seen = staging
    /\ gate = NoOne /\ slot = [u \in Uploads |-> NoOne]
    /\ open = {} /\ flagged = {} /\ outside = {} /\ unheard = {}
    /\ transfer = [o \in Operations |-> "none"]
    /\ work = [t \in Threads |-> "idle"]
    /\ told = [o \in Operations |-> {}]

Moves(t, p) == work' = [work EXCEPT ![t] = p]
Names(o, what) == told' = [told EXCEPT ![o] = @ \cup {what}]
Release(u) == slot' = [slot EXCEPT ![u] = NoOne]

(***************************************************************************)
(* A request is carried out or not, and answered or not.  An answer says   *)
(* what happened; without one the caller takes the request for refused.    *)
(***************************************************************************)
Asked(o, request, possible, did, ok) ==
    /\ ok => did
    /\ did => possible
    /\ unheard' = IF did /\ ~ok THEN unheard \cup {<<o, request>>} ELSE unheard
    /\ Cardinality(unheard') <= MaxUnheard

\* Renaming refuses a destination that exists.
SetAside(o, did, ok) ==
    /\ Asked(o, "protect", target # NoFile, did, ok)
    /\ target' = IF did THEN NoFile ELSE target
    /\ backup' = IF did THEN [backup EXCEPT ![o] = target] ELSE backup
    /\ UNCHANGED <<staging, placed, outside>>

PutInPlace(o, did, ok) ==
    /\ Asked(o, "publish", staging[o] # NoFile /\ target = NoFile, did, ok)
    /\ target' = IF did THEN staging[o] ELSE target
    /\ staging' = IF did THEN [staging EXCEPT ![o] = NoFile] ELSE staging
    /\ placed' = IF did THEN placed \cup {staging[o]} ELSE placed
    /\ UNCHANGED <<backup, outside>>

PutBack(o, did, ok) ==
    /\ Asked(o, "restore", backup[o] # NoFile /\ target = NoFile, did, ok)
    /\ target' = IF did THEN backup[o] ELSE target
    /\ backup' = IF did THEN [backup EXCEPT ![o] = NoFile] ELSE backup
    /\ UNCHANGED <<staging, placed, outside>>

Remove(o, did, ok) ==
    /\ Asked(o, "remove", staging[o] # NoFile, did, ok)
    /\ staging' = IF did THEN [staging EXCEPT ![o] = NoFile] ELSE staging
    /\ UNCHANGED <<target, backup, placed, outside>>

\* A private file whose permissions are refused is removed at once: not created.
Create(o, content, did, ok) ==
    /\ Asked(o, "create", TRUE, did, ok)
    /\ staging' = IF did THEN [staging EXCEPT ![o] = content] ELSE staging
    /\ UNCHANGED <<target, backup, placed, outside>>

(***************************************************************************)
(* An upload.  An unexpected file at the path refuses it at the start.     *)
(***************************************************************************)
BeginUpload(u) ==
    /\ work[u] = "idle"
    /\ target = NoFile \/ u \in Overwriting
    /\ seen' = [seen EXCEPT ![u] = target]
    /\ Moves(u, "creating")
    /\ UNCHANGED <<serverVars, gate, slot, open, flagged, transfer, told>>

CreateUpload(u) ==
    /\ work[u] = "creating"
    /\ \E did, ok \in BOOLEAN :
        /\ Create(u, "part", did, ok)
        /\ transfer' = IF ok THEN [transfer EXCEPT ![u] = "running"] ELSE transfer
        /\ open' = IF ok THEN open \cup {u} ELSE open
        /\ Moves(u, IF ok THEN "streaming" ELSE "over")
    /\ UNCHANGED <<gate, slot, flagged, seen, told>>

\* upload_chunk, and the loop of stream_path_upload, which looks at the flag.
BeginChunk(u) ==
    /\ work[u] = "streaming" /\ slot[u] = NoOne
    /\ \/ transfer[u] # "running" /\ Moves(u, "over") /\ UNCHANGED slot
       \/ /\ transfer[u] = "running" /\ u \in flagged \cap Dropped
          /\ Moves(u, "stopped") /\ UNCHANGED slot
       \/ /\ transfer[u] = "running" /\ u \notin flagged \cap Dropped
          /\ slot' = [slot EXCEPT ![u] = u] /\ Moves(u, "writing")
    /\ UNCHANGED <<serverVars, gate, open, flagged, transfer, seen, told>>

WriteUpload(u) ==
    /\ work[u] = "writing"
    /\ Release(u)
    /\ \/ staging' = [staging EXCEPT ![u] = u] /\ Moves(u, "streamed")
       \/ UNCHANGED staging /\ Moves(u, "failed")
    /\ UNCHANGED <<target, backup, placed, outside, unheard, gate, open, flagged, transfer,
                   seen, told>>

\* finish_upload_entry; a byte too many fails a chunk as a missing one fails this.
BeginFinish(u) ==
    /\ work[u] \in {"streaming", "streamed"} /\ slot[u] = NoOne
    /\ \/ transfer[u] # "running" /\ Moves(u, "over") /\ UNCHANGED <<slot, open>>
       \/ transfer[u] = "running" /\ Moves(u, "failed") /\ UNCHANGED <<slot, open>>
       \/ /\ transfer[u] = "running" /\ work[u] = "streamed"
          /\ slot' = [slot EXCEPT ![u] = u]
          /\ open' = open \ {u}
          /\ Moves(u, "closing")
    /\ UNCHANGED <<serverVars, gate, flagged, transfer, seen, told>>

\* The file was closed: the last look at the flag, and the gate is tried.
CloseUpload(u) ==
    /\ work[u] = "closing"
    /\ \/ Release(u) /\ Moves(u, "failed") /\ UNCHANGED gate
       \/ u \in flagged /\ Release(u) /\ Moves(u, "stopped") /\ UNCHANGED gate
       \/ /\ u \notin flagged /\ gate = NoOne
          /\ gate' = u /\ Moves(u, "looking") /\ UNCHANGED slot
    /\ UNCHANGED <<serverVars, open, flagged, transfer, seen, told>>

\* promote_upload returned an error.
NotPublished(u) ==
    /\ gate' = NoOne
    /\ Release(u)
    /\ Moves(u, "failed")

LookForTarget(u) ==
    /\ work[u] = "looking"
    /\ \/ NotPublished(u)
       \/ /\ target = NoFile /\ seen[u] = NoFile
          /\ Moves(u, "publishing") /\ UNCHANGED <<gate, slot>>
       \/ /\ target # NoFile /\ u \in Overwriting
          /\ Moves(u, "comparing") /\ UNCHANGED <<gate, slot>>
    /\ UNCHANGED <<serverVars, open, flagged, transfer, seen, told>>

\* Mutant of SameTarget: any file at the path may be replaced.
RegularTarget(u) == target # NoFile

\* The file at the path, its mode and the new one's: any of it may be refused.
SameTarget(u) == target # NoFile /\ target = seen[u]

CompareTarget(u) ==
    /\ work[u] = "comparing"
    /\ \/ NotPublished(u)
       \/ SameTarget(u) /\ Moves(u, "protecting") /\ UNCHANGED <<gate, slot>>
    /\ UNCHANGED <<serverVars, open, flagged, transfer, seen, told>>

\* Nothing is in the way: the new file is published, and the upload is done.
Done(u) ==
    /\ transfer' = [transfer EXCEPT ![u] = "done"]
    /\ gate' = NoOne
    /\ Release(u)
    /\ Moves(u, "over")

PublishUpload(u) ==
    /\ work[u] = "publishing"
    /\ \E did, ok \in BOOLEAN :
        /\ PutInPlace(u, did, ok)
        /\ IF ok THEN Done(u) ELSE NotPublished(u) /\ UNCHANGED transfer
    /\ UNCHANGED <<open, flagged, seen, told>>

ProtectTarget(u) ==
    /\ work[u] = "protecting"
    /\ \E did, ok \in BOOLEAN :
        /\ SetAside(u, did, ok)
        /\ IF ok THEN Moves(u, "replacing") /\ UNCHANGED <<gate, slot>> ELSE NotPublished(u)
    /\ UNCHANGED <<open, flagged, transfer, seen, told>>

ReplaceTarget(u) ==
    /\ work[u] = "replacing"
    /\ \E did, ok \in BOOLEAN :
        /\ PutInPlace(u, did, ok)
        /\ Moves(u, IF ok THEN "discarding" ELSE "restoring")
    /\ UNCHANGED entryVars

\* A failure is an error that says where the original remains.  It is in no report
\* until the thread that has it ends the upload.
RestoreTarget(u) ==
    /\ work[u] = "restoring"
    /\ \E did, ok \in BOOLEAN :
        /\ PutBack(u, did, ok)
        /\ Moves(u, IF ok THEN "failed" ELSE "stranded")
    /\ gate' = NoOne
    /\ Release(u)
    /\ UNCHANGED <<open, flagged, transfer, seen, told>>

\* The upload is done even if the previous file could not be removed.
DiscardBackup(u) ==
    /\ work[u] = "discarding"
    /\ \E did, ok \in BOOLEAN :
        /\ Asked(u, "discard", backup[u] # NoFile, did, ok)
        /\ backup' = IF did THEN [backup EXCEPT ![u] = NoFile] ELSE backup
        /\ IF ok THEN UNCHANGED told ELSE Names(u, "backup")
    /\ Done(u)
    /\ UNCHANGED <<target, staging, placed, outside, open, flagged, seen>>

(***************************************************************************)
(* abort_upload, by the one that feeds the upload or by the one that       *)
(* cancels it: whoever gets the lock while it runs ends it and cleans up,  *)
(* and the error of the other is in no report.  A cancel that waits gets   *)
(* the lock before a publisher that has just given it up; here either may. *)
(***************************************************************************)
CancelUpload(u) ==
    LET t == Cancels(u) IN
    /\ work[t] = "idle" /\ transfer[u] = "running"
    /\ flagged' = flagged \cup {u}
    /\ Moves(t, "stopped")
    /\ UNCHANGED <<serverVars, gate, slot, open, transfer, seen, told>>

AbortUpload(t) ==
    LET u == Upload(t) IN
    /\ work[t] \in {"failed", "stopped", "stranded"} /\ slot[u] = NoOne
    /\ flagged' = flagged \cup {u}
    /\ \/ transfer[u] # "running" /\ Moves(t, "over") /\ UNCHANGED <<slot, transfer, told>>
       \/ /\ transfer[u] = "running"
          /\ transfer' = [transfer EXCEPT
                 ![u] = IF work[t] = "stopped" THEN "cancelled" ELSE "error"]
          /\ IF work[t] = "stranded" THEN Names(u, "backup") ELSE UNCHANGED told
          /\ IF u \in open
             THEN slot' = [slot EXCEPT ![u] = t] /\ Moves(t, "shutting")
             ELSE Moves(t, "removing") /\ UNCHANGED slot
    /\ UNCHANGED <<serverVars, gate, open, seen>>

CloseAborted(t) ==
    LET u == Upload(t) IN
    /\ work[t] = "shutting"
    /\ open' = open \ {u}
    /\ Release(u)
    /\ Moves(t, "removing")
    /\ UNCHANGED <<serverVars, gate, flagged, transfer, seen, told>>

RemoveStaging(t) ==
    LET u == Upload(t) IN
    /\ work[t] = "removing" /\ u \in Uploads
    /\ \E did, ok \in BOOLEAN :
        /\ Remove(u, did, ok)
        /\ IF ok THEN UNCHANGED told ELSE Names(u, "staging")
    /\ Moves(t, "over")
    /\ UNCHANGED <<gate, slot, open, flagged, transfer, seen>>

(***************************************************************************)
(* The editor: read_text_file, then save_on_session under the gate.        *)
(***************************************************************************)
SaveEnds(s, result) ==
    /\ gate' = NoOne
    /\ transfer' = [transfer EXCEPT ![s] = result]
    /\ Moves(s, "over")

OpenText(s) ==
    /\ work[s] = "idle" /\ gate = NoOne /\ target # NoFile
    /\ seen' = [seen EXCEPT ![s] = target]
    /\ Moves(s, "editing")
    /\ UNCHANGED <<serverVars, gate, slot, open, flagged, transfer, told>>

SaveText(s) ==
    /\ work[s] = "editing" /\ gate = NoOne
    /\ gate' = s
    /\ Moves(s, "reading")
    /\ UNCHANGED <<serverVars, slot, open, flagged, transfer, seen, told>>

\* The revision is compared with the one the editor was opened with, the draft with
\* the content.
ReadRevision(s) ==
    /\ work[s] = "reading"
    /\ \/ SaveEnds(s, "error")
       \/ target = seen[s] /\ SaveEnds(s, "unchanged")
       \/ target = seen[s] /\ Moves(s, "staging") /\ UNCHANGED <<gate, transfer>>
    /\ UNCHANGED <<serverVars, slot, open, flagged, seen, told>>

StageText(s) ==
    /\ work[s] = "staging"
    /\ \E did, ok \in BOOLEAN :
        /\ Create(s, s, did, ok)
        /\ IF ok THEN Moves(s, "comparing") /\ UNCHANGED <<gate, transfer>>
                 ELSE SaveEnds(s, "error")
    /\ UNCHANGED <<slot, open, flagged, seen, told>>

CompareRevision(s) ==
    /\ work[s] = "comparing"
    /\ Moves(s, "removing") \/ (target = seen[s] /\ Moves(s, "protecting"))
    /\ UNCHANGED <<serverVars, entryVars>>

\* Mutant of ProtectText: a rename without an answer is taken for refused.
ProtectTextOnce(s) ==
    /\ work[s] = "protecting"
    /\ \E did, ok \in BOOLEAN :
        /\ SetAside(s, did, ok)
        /\ Moves(s, IF ok THEN "verifying" ELSE "removing")
    /\ UNCHANGED entryVars

\* A rename that failed may have been carried out: it is undone either way.
ProtectText(s) ==
    /\ work[s] = "protecting"
    /\ \E did, ok \in BOOLEAN :
        /\ SetAside(s, did, ok)
        /\ Moves(s, IF ok THEN "verifying" ELSE "restoring")
    /\ UNCHANGED entryVars

\* What was set aside, and what is about to be published, are read again.
VerifyText(s) ==
    /\ work[s] = "verifying"
    /\ Moves(s, "restoring") \/ (backup[s] = seen[s] /\ Moves(s, "replacing"))
    /\ UNCHANGED <<serverVars, entryVars>>

\* The previous file is kept, and the result names it.
ReplaceText(s) ==
    /\ work[s] = "replacing"
    /\ \E did, ok \in BOOLEAN :
        /\ PutInPlace(s, did, ok)
        /\ IF ok THEN SaveEnds(s, "done") /\ Names(s, "backup")
                 ELSE Moves(s, "restoring") /\ UNCHANGED <<gate, transfer, told>>
    /\ UNCHANGED <<slot, open, flagged, seen>>

RestoreText(s) ==
    /\ work[s] = "restoring"
    /\ \E did, ok \in BOOLEAN :
        /\ PutBack(s, did, ok)
        /\ IF ok THEN UNCHANGED told ELSE Names(s, "backup")
    /\ Moves(s, "removing")
    /\ UNCHANGED <<gate, slot, open, flagged, transfer, seen>>

CleanText(s) ==
    /\ work[s] = "removing"
    /\ \E did, ok \in BOOLEAN :
        /\ Remove(s, did, ok)
        /\ IF ok THEN UNCHANGED told ELSE Names(s, "staging")
    /\ SaveEnds(s, "error")
    /\ UNCHANGED <<slot, open, flagged, seen>>

(***************************************************************************)
(* Another program writes the file in place, creates it or deletes it,     *)
(* once.  No protocol over SFTP protects a file that changes between an    *)
(* upload's comparison and its rename; docs/SFTP_UPLOADS.zh-TW.md says so. *)
(***************************************************************************)
Outsider ==
    /\ outside = {} /\ "foreign" \notin placed
    /\ \A u \in Uploads : work[u] # "protecting"
    /\ \/ target' = "foreign" /\ placed' = placed \cup {"foreign"}
       \/ target # NoFile /\ target' = NoFile /\ UNCHANGED placed
    /\ outside' = {target} \ {NoFile}
    /\ UNCHANGED <<staging, backup, unheard, entryVars, work>>

UploadStep(u) ==
    \/ BeginUpload(u) \/ CreateUpload(u) \/ BeginChunk(u) \/ WriteUpload(u) \/ BeginFinish(u)
    \/ CloseUpload(u) \/ LookForTarget(u) \/ CompareTarget(u) \/ PublishUpload(u)
    \/ ProtectTarget(u) \/ ReplaceTarget(u) \/ RestoreTarget(u) \/ DiscardBackup(u)
    \/ CancelUpload(u)
    \/ \E t \in {u, Cancels(u)} : AbortUpload(t) \/ CloseAborted(t) \/ RemoveStaging(t)

SaveStep(s) ==
    \/ OpenText(s) \/ SaveText(s) \/ ReadRevision(s) \/ StageText(s) \/ CompareRevision(s)
    \/ ProtectText(s) \/ VerifyText(s) \/ ReplaceText(s) \/ RestoreText(s) \/ CleanText(s)

FilesNext ==
    \/ \E u \in Uploads : UploadStep(u)
    \/ \E s \in Saves : SaveStep(s)
    \/ Outsider

FilesSpec == FilesInit /\ [][FilesNext]_fileVars

(***************************************************************************)
(* Properties.                                                             *)
(***************************************************************************)
\* Nobody cleans up after the operation any more.
Settled(o) == \A t \in Threads : Upload(t) = o => work[t] \notin {"shutting", "removing"}

\* What an upload is shown with is true, whoever cancels it at whatever moment: one
\* that is done was at the path; one that failed or was cancelled, and names no
\* leftover, never was, and the server has nothing of it.  So is the result of a save.
EndsHonestly ==
    \A o \in Operations :
        /\ transfer[o] = "done" => o \in placed
        /\ transfer[o] \in {"error", "cancelled"} /\ Settled(o) /\ "staging" \notin told[o]
              /\ <<o, "create">> \notin unheard
           => o \notin placed /\ staging[o] = NoFile

\* The user of an upload agreed to replace this version, and it was replaced.
Agreed(v) == \E u \in Uploads : seen[u] = v /\ transfer[u] = "done"

\* A cancel ended the upload while it was being published, and the error of the
\* publication went with it (sftp_transfers.rs:381).
Silenced(o) == o \in Uploads /\ work[o] = "over" /\ transfer[o] = "cancelled"

\* Set aside by an operation at work, or one that says where.  Two uploads do not: one
\* that a cancel silenced, and one that does not suspect, as a save does
\* (sftp_text.rs:397), that a rename it got no answer to was carried out.
KeptAside(v) ==
    \E o \in Operations :
        /\ backup[o] = v
        /\ \/ work[o] \in Publishing \cup {"verifying", "stranded", "removing"}
           \/ "backup" \in told[o]
           \/ Silenced(o)
           \/ o \in Uploads /\ <<o, "protect">> \in unheard

\* No version that was at the path is lost by two operations that meet there, or by
\* one that fails half-way: it is still there, or it was replaced with the consent of
\* somebody who had seen it, or it was set aside; and then the report says where, but
\* for the two uploads KeptAside names.
NoVersionLost ==
    \A v \in placed \ outside : v = target \/ Agreed(v) \/ KeptAside(v)

NothingLostUntold == EndsHonestly /\ NoVersionLost

\* "The original error is kept" (docs/SFTP_UPLOADS.zh-TW.md:47), of an upload that ends
\* while its user cancels it: when the publication could not put the original back, the
\* upload that has ended says where it is.
OriginalErrorKept ==
    \A u \in Uploads :
        /\ transfer[u] \in {"error", "cancelled"} /\ work[u] = "over" /\ Settled(u)
        /\ backup[u] # NoFile /\ <<u, "protect">> \notin unheard
        => "backup" \in told[u]
=============================================================================
