--------------------------- MODULE SftpFilesProofs ---------------------------
(***************************************************************************)
(* The safety of SftpFiles, for any uploads, saves and lost answers.  The  *)
(* inductive invariant says, for each place of an operation at work, what  *)
(* the server has of its private file, where the version it set aside is,  *)
(* and who holds the lock and the gate meanwhile.                          *)
(***************************************************************************)
EXTENDS SftpFiles, TLAPS

Shape ==
    /\ target \in Versions \cup {NoFile}
    /\ staging \in [Operations -> Operations \cup {"part", NoFile}]
    /\ backup \in [Operations -> Versions \cup {NoFile}]
    /\ gate \in Operations \cup {NoOne}
    /\ slot \in [Uploads -> Threads \cup {NoOne}]
    /\ open \subseteq Uploads /\ flagged \subseteq Uploads
    /\ transfer \in [Operations -> {"none", "running", "done", "error", "cancelled",
                                  "unchanged"}]
    /\ work \in [Threads -> Places]
    /\ seen \in [Operations -> Versions \cup {NoFile}]
    /\ told \in [Operations -> SUBSET {"staging", "backup"}]
    /\ placed \subseteq Versions /\ outside \subseteq Versions
    /\ unheard \subseteq Operations \X Requests

\* Where an operation's version was not at the path yet, and where it set nothing aside.
Unplaced == {"idle", "creating", "streaming", "writing", "streamed", "closing", "looking",
             "comparing", "protecting", "publishing", "replacing", "editing", "reading",
             "staging", "verifying"}
Unprotected == {"idle", "creating", "streaming", "writing", "streamed", "closing", "looking",
                "comparing", "protecting", "publishing", "editing", "reading", "staging"}
Locking  == Publishing \cup {"writing", "closing"}
Saving   == Publishing \cup {"reading", "staging", "verifying", "removing"}
Whole    == {"closing", "looking", "comparing", "protecting", "publishing", "replacing",
             "verifying"}
Cleaning == {"shutting", "removing"}

\* Where the threads of an upload, the call that cancels it and a save can be.
Roles ==
    /\ \A u \in Uploads :
           /\ work[u] \notin {"editing", "reading", "staging", "verifying"}
           /\ work[Cancels(u)] \in {"idle", "stopped", "shutting", "removing", "over"}
    /\ \A s \in Saves : work[s] \in Saving \cup {"idle", "editing", "over"}

\* Who may work: on an upload the holder of its lock, on the path the holder of the gate,
\* a save from its first look to its end.
Holds(u) ==
    /\ work[u] \in Publishing => gate = u
    /\ work[u] \in Locking \cup {"shutting"} => slot[u] = u
    /\ work[Cancels(u)] = "shutting" => slot[u] = Cancels(u)

InCharge ==
    /\ \A u \in Uploads : Holds(u)
    /\ \A s \in Saves : work[s] \in Saving => gate = s

\* An upload is shown as running while it is published, and as ended once somebody cleans
\* up after it; only a cancel ends one whose original is stranded.  A save shows nothing
\* until it ends.
ShownOf(u) ==
    /\ work[u] \in {"idle", "creating"} => transfer[u] = "none"
    /\ transfer[u] = "none" => work[Cancels(u)] = "idle"
    /\ work[u] \in Locking => transfer[u] = "running"
    /\ work[u] = "stranded" => transfer[u] \in {"running", "cancelled"}
    /\ work[u] \in Cleaning \/ work[Cancels(u)] \in Cleaning
       => transfer[u] \in {"error", "cancelled"}

Shown ==
    /\ \A u \in Uploads : ShownOf(u)
    /\ \A s \in Saves : work[s] # "over" => transfer[s] = "none"

\* What the server has of an operation's private file: all of it by the time it is
\* published, and nothing once it was at the path.
PrivateOf(o) ==
    /\ staging[o] \in {o, "part", NoFile}
    /\ work[o] \in {"idle", "creating", "editing", "reading", "staging"} => staging[o] = NoFile
    /\ work[o] \in Whole => staging[o] = o
    /\ work[o] = "streamed" /\ transfer[o] = "running" => staging[o] = o
    /\ work[o] \in Unplaced => o \notin placed
    /\ o \in placed => staging[o] = NoFile
    /\ work[o] = "discarding" => o \in placed

Private == \A o \in Operations : PrivateOf(o)

\* The report of an operation names what it set aside, is honestly mistaken about it, or
\* went with the cancel that ended the upload.
Reported(o) ==
    "backup" \in told[o] \/ Silenced(o) \/ (o \in Uploads /\ <<o, "protect">> \in unheard)

\* What an operation set aside and leaves is reported.
AsideOf(o) ==
    /\ work[o] \in Unprotected => backup[o] = NoFile
    /\ backup[o] # NoFile /\ work[o] \notin Publishing \cup {"verifying", "stranded"} => Reported(o)

Aside == \A o \in Operations : AsideOf(o)

\* What an upload sets aside is what its user saw: nobody touches the path between its
\* comparison and its rename.
AsSeen ==
    \A u \in Uploads :
        /\ work[u] = "protecting" => target = seen[u]
        /\ work[u] \in {"replacing", "discarding"} => backup[u] = seen[u]

\* What an operation's result says of the path and of its private file.
Honest(o) ==
    /\ transfer[o] = "done" => o \in placed
    /\ transfer[o] \in {"error", "cancelled"} /\ Settled(o) /\ "staging" \notin told[o]
          /\ <<o, "create">> \notin unheard
       => o \notin placed /\ staging[o] = NoFile

\* Where the versions that were at the path are, whoever says so.
Somewhere ==
    \A v \in placed \ outside : v = target \/ Agreed(v) \/ \E o \in Operations : backup[o] = v

IInv ==
    /\ Shape /\ Roles /\ InCharge /\ Shown /\ Private /\ Aside /\ AsSeen
    /\ (\A o \in Operations : Honest(o))
    /\ Somewhere

\* What the assumptions on the constants say of threads and operations.
LEMMA Apart ==
    /\ Uploads \subseteq Operations /\ Saves \subseteq Operations /\ Uploads \cap Saves = {}
    /\ Operations \subseteq Threads
    /\ NoOne \notin Operations /\ NoFile \notin Versions /\ NoFile # "part"
    /\ {"part", "original", "foreign"} \cap Operations = {}
    /\ \A o \in Operations : Upload(o) = o
    /\ \A u \in Uploads :
           /\ Cancels(u) \in Threads /\ Cancels(u) \notin Operations \cup {NoOne} /\ Upload(Cancels(u)) = u
           /\ \A v \in Uploads : Cancels(u) = Cancels(v) => u = v
<1>1. \A u \in Uploads : Cancels(u) \notin Operations \cup {NoOne}
  BY SftpConstants DEF Cancels
<1>2. \A u \in Uploads : Cancels(u)[1] = u
  BY DEF Cancels
<1> QED
  BY <1>1, <1>2, SftpConstants DEF Operations, Threads, Upload, Versions

LEMMA ShapeInit == FilesInit => Shape
BY Apart DEF FilesInit, Shape, Places, Publishing, Versions

LEMMA ShapeStep == Shape /\ Private /\ [FilesNext]_fileVars => Shape'
<1> SUFFICES ASSUME Shape, Private, [FilesNext]_fileVars PROVE Shape'
  OBVIOUS
<1>1. CASE UNCHANGED <<target, staging, backup, gate, slot, open, flagged, transfer, work, seen, told, placed, outside, unheard>>
  BY <1>1 DEF Places, Publishing, Requests, Shape, Versions
<1>2. ASSUME NEW u \in Uploads, BeginUpload(u) PROVE Shape'
  BY <1>2, Apart
   DEF BeginUpload, Moves, Places, Publishing, Requests, Shape, Versions,
         entryVars, serverVars
<1>3. ASSUME NEW u \in Uploads, CreateUpload(u) PROVE Shape'
  BY <1>3, Apart
   DEF Asked, Create, CreateUpload, Moves, Places, Publishing, Requests, Shape,
         Versions, entryVars, serverVars
<1>4. ASSUME NEW u \in Uploads, BeginChunk(u) PROVE Shape'
  BY <1>4, Apart
   DEF BeginChunk, Moves, Places, Publishing, Requests, Shape, Versions,
         entryVars, serverVars
<1>5. ASSUME NEW u \in Uploads, WriteUpload(u) PROVE Shape'
  BY <1>5, Apart
   DEF Moves, Places, Publishing, Release, Requests, Shape, Versions, WriteUpload,
         entryVars, serverVars
<1>6. ASSUME NEW u \in Uploads, BeginFinish(u) PROVE Shape'
  BY <1>6, Apart
   DEF BeginFinish, Moves, Places, Publishing, Requests, Shape, Versions,
         entryVars, serverVars
<1>7. ASSUME NEW u \in Uploads, CloseUpload(u) PROVE Shape'
  BY <1>7, Apart
   DEF CloseUpload, Moves, Places, Publishing, Release, Requests, Shape, Versions,
         entryVars, serverVars
<1>8. ASSUME NEW u \in Uploads, LookForTarget(u) PROVE Shape'
  BY <1>8, Apart
   DEF LookForTarget, Moves, NotPublished, Places, Publishing, Release, Requests,
         Shape, Versions, entryVars, serverVars
<1>9. ASSUME NEW u \in Uploads, CompareTarget(u) PROVE Shape'
  BY <1>9, Apart
   DEF CompareTarget, Moves, NotPublished, Places, Publishing, Release, Requests,
         SameTarget, Shape, Versions, entryVars, serverVars
<1>10. ASSUME NEW u \in Uploads, PublishUpload(u) PROVE Shape'
  <2>1. staging[u] \in Versions
    BY <1>10, Apart DEF PublishUpload, Private, PrivateOf, Whole, Versions
  <2> QED
    BY <2>1, <1>10, Apart
     DEF Asked, Done, Moves, NotPublished, Places, PublishUpload, Publishing,
           PutInPlace, Release, Requests, Shape, Versions, entryVars, serverVars
<1>11. ASSUME NEW u \in Uploads, ProtectTarget(u) PROVE Shape'
  BY <1>11, Apart
   DEF Asked, Moves, NotPublished, Places, ProtectTarget, Publishing, Release,
         Requests, SetAside, Shape, Versions, entryVars, serverVars
<1>12. ASSUME NEW u \in Uploads, ReplaceTarget(u) PROVE Shape'
  <2>1. staging[u] \in Versions
    BY <1>12, Apart DEF ReplaceTarget, Private, PrivateOf, Whole, Versions
  <2> QED
    BY <2>1, <1>12, Apart
     DEF Asked, Moves, Places, Publishing, PutInPlace, ReplaceTarget, Requests,
           Shape, Versions, entryVars, serverVars
<1>13. ASSUME NEW u \in Uploads, RestoreTarget(u) PROVE Shape'
  BY <1>13, Apart
   DEF Asked, Moves, Names, NotPublished, Places, Publishing, PutBack, Release,
         Requests, RestoreTarget, Shape, Versions, entryVars, serverVars
<1>14. ASSUME NEW u \in Uploads, DiscardBackup(u) PROVE Shape'
  BY <1>14, Apart
   DEF Asked, DiscardBackup, Done, Moves, Names, Places, Publishing, Release,
         Requests, Shape, Versions, entryVars, serverVars
<1>15. ASSUME NEW u \in Uploads, CancelUpload(u) PROVE Shape'
  BY <1>15, Apart
   DEF CancelUpload, Moves, Places, Publishing, Requests, Shape, Versions,
         entryVars, serverVars
<1>16. ASSUME NEW u \in Uploads, NEW t \in {u, Cancels(u)}, AbortUpload(t) PROVE Shape'
  BY <1>16, Apart
   DEF AbortUpload, Moves, Names, Places, Publishing, Requests, Shape, Versions,
         entryVars, serverVars
<1>17. ASSUME NEW u \in Uploads, NEW t \in {u, Cancels(u)}, CloseAborted(t) PROVE Shape'
  BY <1>17, Apart
   DEF CloseAborted, Moves, Places, Publishing, Release, Requests, Shape,
         Versions, entryVars, serverVars
<1>18. ASSUME NEW u \in Uploads, NEW t \in {u, Cancels(u)}, RemoveStaging(t) PROVE Shape'
  BY <1>18, Apart
   DEF Asked, Moves, Names, Places, Publishing, Remove, RemoveStaging, Requests,
         Shape, Versions, entryVars, serverVars
<1>19. ASSUME NEW s \in Saves, OpenText(s) PROVE Shape'
  BY <1>19, Apart
   DEF Moves, OpenText, Places, Publishing, Requests, Shape, Versions, entryVars,
         serverVars
<1>20. ASSUME NEW s \in Saves, SaveText(s) PROVE Shape'
  BY <1>20, Apart
   DEF Moves, Places, Publishing, Requests, SaveText, Shape, Versions, entryVars,
         serverVars
<1>21. ASSUME NEW s \in Saves, ReadRevision(s) PROVE Shape'
  BY <1>21, Apart
   DEF Moves, Places, Publishing, ReadRevision, Requests, SaveEnds, Shape,
         Versions, entryVars, serverVars
<1>22. ASSUME NEW s \in Saves, StageText(s) PROVE Shape'
  BY <1>22, Apart
   DEF Asked, Create, Moves, Places, Publishing, Requests, SaveEnds, Shape,
         StageText, Versions, entryVars, serverVars
<1>23. ASSUME NEW s \in Saves, CompareRevision(s) PROVE Shape'
  BY <1>23, Apart
   DEF CompareRevision, Moves, Places, Publishing, Requests, Shape, Versions,
         entryVars, serverVars
<1>24. ASSUME NEW s \in Saves, ProtectText(s) PROVE Shape'
  BY <1>24, Apart
   DEF Asked, Moves, Places, ProtectText, Publishing, Requests, SetAside, Shape,
         Versions, entryVars, serverVars
<1>25. ASSUME NEW s \in Saves, VerifyText(s) PROVE Shape'
  BY <1>25, Apart
   DEF Moves, Places, Publishing, Requests, Shape, VerifyText, Versions,
         entryVars, serverVars
<1>26. ASSUME NEW s \in Saves, ReplaceText(s) PROVE Shape'
  <2>1. staging[s] \in Versions
    BY <1>26, Apart DEF ReplaceText, Private, PrivateOf, Whole, Versions
  <2> QED
    BY <2>1, <1>26, Apart
     DEF Asked, Moves, Names, Places, Publishing, PutInPlace, ReplaceText,
           Requests, SaveEnds, Shape, Versions, entryVars, serverVars
<1>27. ASSUME NEW s \in Saves, RestoreText(s) PROVE Shape'
  BY <1>27, Apart
   DEF Asked, Moves, Names, Places, Publishing, PutBack, Requests, RestoreText,
         Shape, Versions, entryVars, serverVars
<1>28. ASSUME NEW s \in Saves, CleanText(s) PROVE Shape'
  BY <1>28, Apart
   DEF Asked, CleanText, Moves, Names, Places, Publishing, Remove, Requests,
         SaveEnds, Shape, Versions, entryVars, serverVars
<1>29. ASSUME Outsider PROVE Shape'
  BY <1>29, Apart
   DEF Outsider, Places, Publishing, Requests, Shape, Versions, entryVars,
         serverVars
<1>30. CASE UNCHANGED fileVars
  BY <1>1, <1>30 DEF entryVars, fileVars, serverVars
<1> QED
  BY <1>1, <1>2, <1>3, <1>4, <1>5, <1>6, <1>7, <1>8, <1>9, <1>10, <1>11, <1>12,
     <1>13, <1>14, <1>15, <1>16, <1>17, <1>18, <1>19, <1>20, <1>21, <1>22, <1>23,
     <1>24, <1>25, <1>26, <1>27, <1>28, <1>29, <1>30
   DEF FilesNext, UploadStep, SaveStep

LEMMA RolesStep == Shape /\ Roles /\ [FilesNext]_fileVars => Roles'
<1> SUFFICES ASSUME Shape, Roles, [FilesNext]_fileVars PROVE Roles'
  OBVIOUS
<1>1. CASE UNCHANGED <<work>>
  BY <1>1 DEF Publishing, Roles, Saving, Shape
<1>2. ASSUME NEW u \in Uploads, BeginUpload(u) PROVE Roles'
  BY <1>2, Apart
   DEF BeginUpload, Moves, Publishing, Roles, Saving, Shape, entryVars, serverVars
<1>3. ASSUME NEW u \in Uploads, CreateUpload(u) PROVE Roles'
  BY <1>3, Apart
   DEF Asked, Create, CreateUpload, Moves, Publishing, Roles, Saving, Shape,
         entryVars, serverVars
<1>4. ASSUME NEW u \in Uploads, BeginChunk(u) PROVE Roles'
  BY <1>4, Apart
   DEF BeginChunk, Moves, Publishing, Roles, Saving, Shape, entryVars, serverVars
<1>5. ASSUME NEW u \in Uploads, WriteUpload(u) PROVE Roles'
  BY <1>5, Apart
   DEF Moves, Publishing, Release, Roles, Saving, Shape, WriteUpload, entryVars,
         serverVars
<1>6. ASSUME NEW u \in Uploads, BeginFinish(u) PROVE Roles'
  BY <1>6, Apart
   DEF BeginFinish, Moves, Publishing, Roles, Saving, Shape, entryVars, serverVars
<1>7. ASSUME NEW u \in Uploads, CloseUpload(u) PROVE Roles'
  BY <1>7, Apart
   DEF CloseUpload, Moves, Publishing, Release, Roles, Saving, Shape, entryVars,
         serverVars
<1>8. ASSUME NEW u \in Uploads, LookForTarget(u) PROVE Roles'
  BY <1>8, Apart
   DEF LookForTarget, Moves, NotPublished, Publishing, Release, Roles, Saving,
         Shape, entryVars, serverVars
<1>9. ASSUME NEW u \in Uploads, CompareTarget(u) PROVE Roles'
  BY <1>9, Apart
   DEF CompareTarget, Moves, NotPublished, Publishing, Release, Roles, SameTarget,
         Saving, Shape, entryVars, serverVars
<1>10. ASSUME NEW u \in Uploads, PublishUpload(u) PROVE Roles'
  BY <1>10, Apart
   DEF Asked, Done, Moves, NotPublished, PublishUpload, Publishing, PutInPlace,
         Release, Roles, Saving, Shape, entryVars, serverVars
<1>11. ASSUME NEW u \in Uploads, ProtectTarget(u) PROVE Roles'
  BY <1>11, Apart
   DEF Asked, Moves, NotPublished, ProtectTarget, Publishing, Release, Roles,
         Saving, SetAside, Shape, entryVars, serverVars
<1>12. ASSUME NEW u \in Uploads, ReplaceTarget(u) PROVE Roles'
  BY <1>12, Apart
   DEF Asked, Moves, Publishing, PutInPlace, ReplaceTarget, Roles, Saving, Shape,
         entryVars, serverVars
<1>13. ASSUME NEW u \in Uploads, RestoreTarget(u) PROVE Roles'
  BY <1>13, Apart
   DEF Asked, Moves, Names, NotPublished, Publishing, PutBack, Release,
         RestoreTarget, Roles, Saving, Shape, entryVars, serverVars
<1>14. ASSUME NEW u \in Uploads, DiscardBackup(u) PROVE Roles'
  BY <1>14, Apart
   DEF Asked, DiscardBackup, Done, Moves, Names, Publishing, Release, Roles,
         Saving, Shape, entryVars, serverVars
<1>15. ASSUME NEW u \in Uploads, CancelUpload(u) PROVE Roles'
  BY <1>15, Apart
   DEF CancelUpload, Moves, Publishing, Roles, Saving, Shape, entryVars,
         serverVars
<1>16. ASSUME NEW u \in Uploads, NEW t \in {u, Cancels(u)}, AbortUpload(t) PROVE Roles'
  BY <1>16, Apart
   DEF AbortUpload, Moves, Publishing, Roles, Saving, Shape, entryVars, serverVars
<1>17. ASSUME NEW u \in Uploads, NEW t \in {u, Cancels(u)}, CloseAborted(t) PROVE Roles'
  BY <1>17, Apart
   DEF CloseAborted, Moves, Publishing, Release, Roles, Saving, Shape, entryVars,
         serverVars
<1>18. ASSUME NEW u \in Uploads, NEW t \in {u, Cancels(u)}, RemoveStaging(t) PROVE Roles'
  BY <1>18, Apart
   DEF Asked, Moves, Names, Publishing, Remove, RemoveStaging, Roles, Saving,
         Shape, entryVars, serverVars
<1>19. ASSUME NEW s \in Saves, OpenText(s) PROVE Roles'
  BY <1>19, Apart
   DEF Moves, OpenText, Publishing, Roles, Saving, Shape, entryVars, serverVars
<1>20. ASSUME NEW s \in Saves, SaveText(s) PROVE Roles'
  BY <1>20, Apart
   DEF Moves, Publishing, Roles, SaveText, Saving, Shape, entryVars, serverVars
<1>21. ASSUME NEW s \in Saves, ReadRevision(s) PROVE Roles'
  BY <1>21, Apart
   DEF Moves, Publishing, ReadRevision, Roles, SaveEnds, Saving, Shape, entryVars,
         serverVars
<1>22. ASSUME NEW s \in Saves, StageText(s) PROVE Roles'
  BY <1>22, Apart
   DEF Asked, Create, Moves, Publishing, Roles, SaveEnds, Saving, Shape,
         StageText, entryVars, serverVars
<1>23. ASSUME NEW s \in Saves, CompareRevision(s) PROVE Roles'
  BY <1>23, Apart
   DEF CompareRevision, Moves, Publishing, Roles, Saving, Shape, entryVars,
         serverVars
<1>24. ASSUME NEW s \in Saves, ProtectText(s) PROVE Roles'
  BY <1>24, Apart
   DEF Asked, Moves, ProtectText, Publishing, Roles, Saving, SetAside, Shape,
         entryVars, serverVars
<1>25. ASSUME NEW s \in Saves, VerifyText(s) PROVE Roles'
  BY <1>25, Apart
   DEF Moves, Publishing, Roles, Saving, Shape, VerifyText, entryVars, serverVars
<1>26. ASSUME NEW s \in Saves, ReplaceText(s) PROVE Roles'
  BY <1>26, Apart
   DEF Asked, Moves, Names, Publishing, PutInPlace, ReplaceText, Roles, SaveEnds,
         Saving, Shape, entryVars, serverVars
<1>27. ASSUME NEW s \in Saves, RestoreText(s) PROVE Roles'
  BY <1>27, Apart
   DEF Asked, Moves, Names, Publishing, PutBack, RestoreText, Roles, Saving,
         Shape, entryVars, serverVars
<1>28. ASSUME NEW s \in Saves, CleanText(s) PROVE Roles'
  BY <1>28, Apart
   DEF Asked, CleanText, Moves, Names, Publishing, Remove, Roles, SaveEnds,
         Saving, Shape, entryVars, serverVars
<1>29. ASSUME Outsider PROVE Roles'
  BY <1>1, <1>29 DEF Outsider, entryVars, serverVars
<1>30. CASE UNCHANGED fileVars
  BY <1>1, <1>30 DEF entryVars, fileVars, serverVars
<1> QED
  BY <1>1, <1>2, <1>3, <1>4, <1>5, <1>6, <1>7, <1>8, <1>9, <1>10, <1>11, <1>12,
     <1>13, <1>14, <1>15, <1>16, <1>17, <1>18, <1>19, <1>20, <1>21, <1>22, <1>23,
     <1>24, <1>25, <1>26, <1>27, <1>28, <1>29, <1>30
   DEF FilesNext, UploadStep, SaveStep

LEMMA InChargeStep == Shape /\ Roles /\ InCharge /\ [FilesNext]_fileVars => InCharge'
<1> SUFFICES ASSUME Shape, Roles, InCharge, [FilesNext]_fileVars PROVE InCharge'
  OBVIOUS
<1>1. CASE UNCHANGED <<gate, slot, work>>
  BY <1>1 DEF Holds, InCharge, Locking, Publishing, Roles, Saving, Shape
<1>2. ASSUME NEW u \in Uploads, BeginUpload(u) PROVE InCharge'
  BY <1>2, Apart
   DEF BeginUpload, Holds, InCharge, Locking, Moves, Publishing, Roles, Saving,
         Shape, entryVars, serverVars
<1>3. ASSUME NEW u \in Uploads, CreateUpload(u) PROVE InCharge'
  BY <1>3, Apart
   DEF Asked, Create, CreateUpload, Holds, InCharge, Locking, Moves, Publishing,
         Roles, Saving, Shape, entryVars, serverVars
<1>4. ASSUME NEW u \in Uploads, BeginChunk(u) PROVE InCharge'
  <2>1. ASSUME NEW q \in Uploads PROVE Holds(q)'
    <3> Holds(q)
      BY DEF InCharge
    <3>1. CASE q = u
      BY <1>4, <3>1, Apart
       DEF BeginChunk, Holds, Locking, Moves, Publishing, Roles, Shape, entryVars,
             serverVars
    <3>2. CASE q # u
      <4>1. gate' = gate /\ slot'[q] = slot[q] /\ work'[q] = work[q] /\ work'[Cancels(q)] = work[Cancels(q)]
        BY <1>4, <3>2, Apart DEF BeginChunk, Moves, Shape, entryVars, serverVars
      <4> QED
        BY <4>1 DEF Holds
    <3> QED
      BY <3>1, <3>2
  <2>2. ASSUME NEW s \in Saves PROVE (work[s] \in Saving => gate = s)'
    BY <1>4, Apart DEF BeginChunk, InCharge, Moves, Shape, entryVars, serverVars
  <2> QED
    BY <2>1, <2>2 DEF InCharge
<1>5. ASSUME NEW u \in Uploads, WriteUpload(u) PROVE InCharge'
  BY <1>5, Apart
   DEF Holds, InCharge, Locking, Moves, Publishing, Release, Roles, Saving, Shape,
         WriteUpload, entryVars, serverVars
<1>6. ASSUME NEW u \in Uploads, BeginFinish(u) PROVE InCharge'
  <2>1. ASSUME NEW q \in Uploads PROVE Holds(q)'
    <3> Holds(q)
      BY DEF InCharge
    <3>1. CASE q = u
      BY <1>6, <3>1, Apart
       DEF BeginFinish, Holds, Locking, Moves, Publishing, Roles, Shape,
             entryVars, serverVars
    <3>2. CASE q # u
      <4>1. gate' = gate /\ slot'[q] = slot[q] /\ work'[q] = work[q] /\ work'[Cancels(q)] = work[Cancels(q)]
        BY <1>6, <3>2, Apart DEF BeginFinish, Moves, Shape, entryVars, serverVars
      <4> QED
        BY <4>1 DEF Holds
    <3> QED
      BY <3>1, <3>2
  <2>2. ASSUME NEW s \in Saves PROVE (work[s] \in Saving => gate = s)'
    BY <1>6, Apart DEF BeginFinish, InCharge, Moves, Shape, entryVars, serverVars
  <2> QED
    BY <2>1, <2>2 DEF InCharge
<1>7. ASSUME NEW u \in Uploads, CloseUpload(u) PROVE InCharge'
  BY <1>7, Apart
   DEF CloseUpload, Holds, InCharge, Locking, Moves, Publishing, Release, Roles,
         Saving, Shape, entryVars, serverVars
<1>8. ASSUME NEW u \in Uploads, LookForTarget(u) PROVE InCharge'
  BY <1>8, Apart
   DEF Holds, InCharge, Locking, LookForTarget, Moves, NotPublished, Publishing,
         Release, Roles, Saving, Shape, entryVars, serverVars
<1>9. ASSUME NEW u \in Uploads, CompareTarget(u) PROVE InCharge'
  BY <1>9, Apart
   DEF CompareTarget, Holds, InCharge, Locking, Moves, NotPublished, Publishing,
         Release, Roles, SameTarget, Saving, Shape, entryVars, serverVars
<1>10. ASSUME NEW u \in Uploads, PublishUpload(u) PROVE InCharge'
  BY <1>10, Apart
   DEF Asked, Done, Holds, InCharge, Locking, Moves, NotPublished, PublishUpload,
         Publishing, PutInPlace, Release, Roles, Saving, Shape, entryVars,
         serverVars
<1>11. ASSUME NEW u \in Uploads, ProtectTarget(u) PROVE InCharge'
  BY <1>11, Apart
   DEF Asked, Holds, InCharge, Locking, Moves, NotPublished, ProtectTarget,
         Publishing, Release, Roles, Saving, SetAside, Shape, entryVars, serverVars
<1>12. ASSUME NEW u \in Uploads, ReplaceTarget(u) PROVE InCharge'
  BY <1>12, Apart
   DEF Asked, Holds, InCharge, Locking, Moves, Publishing, PutInPlace,
         ReplaceTarget, Roles, Saving, Shape, entryVars, serverVars
<1>13. ASSUME NEW u \in Uploads, RestoreTarget(u) PROVE InCharge'
  BY <1>13, Apart
   DEF Asked, Holds, InCharge, Locking, Moves, Names, NotPublished, Publishing,
         PutBack, Release, RestoreTarget, Roles, Saving, Shape, entryVars,
         serverVars
<1>14. ASSUME NEW u \in Uploads, DiscardBackup(u) PROVE InCharge'
  BY <1>14, Apart
   DEF Asked, DiscardBackup, Done, Holds, InCharge, Locking, Moves, Names,
         Publishing, Release, Roles, Saving, Shape, entryVars, serverVars
<1>15. ASSUME NEW u \in Uploads, CancelUpload(u) PROVE InCharge'
  BY <1>15, Apart
   DEF CancelUpload, Holds, InCharge, Locking, Moves, Publishing, Roles, Saving,
         Shape, entryVars, serverVars
<1>16. ASSUME NEW u \in Uploads, NEW t \in {u, Cancels(u)}, AbortUpload(t) PROVE InCharge'
  <2>1. ASSUME NEW q \in Uploads PROVE Holds(q)'
    <3> Holds(q)
      BY DEF InCharge
    <3>1. CASE q = u
      BY <1>16, <3>1, Apart
       DEF AbortUpload, Holds, Locking, Moves, Publishing, Roles, Shape,
             entryVars, serverVars
    <3>2. CASE q # u
      <4>1. gate' = gate /\ slot'[q] = slot[q] /\ work'[q] = work[q] /\ work'[Cancels(q)] = work[Cancels(q)]
        BY <1>16, <3>2, Apart DEF AbortUpload, Moves, Shape, entryVars, serverVars
      <4> QED
        BY <4>1 DEF Holds
    <3> QED
      BY <3>1, <3>2
  <2>2. ASSUME NEW s \in Saves PROVE (work[s] \in Saving => gate = s)'
    BY <1>16, Apart DEF AbortUpload, InCharge, Moves, Shape, entryVars, serverVars
  <2> QED
    BY <2>1, <2>2 DEF InCharge
<1>17. ASSUME NEW u \in Uploads, NEW t \in {u, Cancels(u)}, CloseAborted(t) PROVE InCharge'
  BY <1>17, Apart
   DEF CloseAborted, Holds, InCharge, Locking, Moves, Publishing, Release, Roles,
         Saving, Shape, entryVars, serverVars
<1>18. ASSUME NEW u \in Uploads, NEW t \in {u, Cancels(u)}, RemoveStaging(t) PROVE InCharge'
  BY <1>18, Apart
   DEF Asked, Holds, InCharge, Locking, Moves, Names, Publishing, Remove,
         RemoveStaging, Roles, Saving, Shape, entryVars, serverVars
<1>19. ASSUME NEW s \in Saves, OpenText(s) PROVE InCharge'
  BY <1>19, Apart
   DEF Holds, InCharge, Locking, Moves, OpenText, Publishing, Roles, Saving,
         Shape, entryVars, serverVars
<1>20. ASSUME NEW s \in Saves, SaveText(s) PROVE InCharge'
  BY <1>20, Apart
   DEF Holds, InCharge, Locking, Moves, Publishing, Roles, SaveText, Saving,
         Shape, entryVars, serverVars
<1>21. ASSUME NEW s \in Saves, ReadRevision(s) PROVE InCharge'
  BY <1>21, Apart
   DEF Holds, InCharge, Locking, Moves, Publishing, ReadRevision, Roles, SaveEnds,
         Saving, Shape, entryVars, serverVars
<1>22. ASSUME NEW s \in Saves, StageText(s) PROVE InCharge'
  BY <1>22, Apart
   DEF Asked, Create, Holds, InCharge, Locking, Moves, Publishing, Roles,
         SaveEnds, Saving, Shape, StageText, entryVars, serverVars
<1>23. ASSUME NEW s \in Saves, CompareRevision(s) PROVE InCharge'
  BY <1>23, Apart
   DEF CompareRevision, Holds, InCharge, Locking, Moves, Publishing, Roles,
         Saving, Shape, entryVars, serverVars
<1>24. ASSUME NEW s \in Saves, ProtectText(s) PROVE InCharge'
  BY <1>24, Apart
   DEF Asked, Holds, InCharge, Locking, Moves, ProtectText, Publishing, Roles,
         Saving, SetAside, Shape, entryVars, serverVars
<1>25. ASSUME NEW s \in Saves, VerifyText(s) PROVE InCharge'
  BY <1>25, Apart
   DEF Holds, InCharge, Locking, Moves, Publishing, Roles, Saving, Shape,
         VerifyText, entryVars, serverVars
<1>26. ASSUME NEW s \in Saves, ReplaceText(s) PROVE InCharge'
  BY <1>26, Apart
   DEF Asked, Holds, InCharge, Locking, Moves, Names, Publishing, PutInPlace,
         ReplaceText, Roles, SaveEnds, Saving, Shape, entryVars, serverVars
<1>27. ASSUME NEW s \in Saves, RestoreText(s) PROVE InCharge'
  BY <1>27, Apart
   DEF Asked, Holds, InCharge, Locking, Moves, Names, Publishing, PutBack,
         RestoreText, Roles, Saving, Shape, entryVars, serverVars
<1>28. ASSUME NEW s \in Saves, CleanText(s) PROVE InCharge'
  BY <1>28, Apart
   DEF Asked, CleanText, Holds, InCharge, Locking, Moves, Names, Publishing,
         Remove, Roles, SaveEnds, Saving, Shape, entryVars, serverVars
<1>29. ASSUME Outsider PROVE InCharge'
  BY <1>1, <1>29 DEF Outsider, entryVars, serverVars
<1>30. CASE UNCHANGED fileVars
  BY <1>1, <1>30 DEF entryVars, fileVars, serverVars
<1> QED
  BY <1>1, <1>2, <1>3, <1>4, <1>5, <1>6, <1>7, <1>8, <1>9, <1>10, <1>11, <1>12,
     <1>13, <1>14, <1>15, <1>16, <1>17, <1>18, <1>19, <1>20, <1>21, <1>22, <1>23,
     <1>24, <1>25, <1>26, <1>27, <1>28, <1>29, <1>30
   DEF FilesNext, UploadStep, SaveStep

LEMMA ShownStep == Shape /\ Roles /\ InCharge /\ Shown /\ [FilesNext]_fileVars => Shown'
<1> SUFFICES ASSUME Shape, Roles, InCharge, Shown, [FilesNext]_fileVars PROVE Shown'
  OBVIOUS
<1>1. CASE UNCHANGED <<transfer, work>>
  BY <1>1
   DEF Cleaning, Holds, InCharge, Locking, Publishing, Roles, Shape, Shown,
         ShownOf
<1>2. ASSUME NEW u \in Uploads, BeginUpload(u) PROVE Shown'
  BY <1>2, Apart
   DEF BeginUpload, Cleaning, Holds, InCharge, Locking, Moves, Publishing, Roles,
         Shape, Shown, ShownOf, entryVars, serverVars
<1>3. ASSUME NEW u \in Uploads, CreateUpload(u) PROVE Shown'
  BY <1>3, Apart
   DEF Asked, Cleaning, Create, CreateUpload, Holds, InCharge, Locking, Moves,
         Publishing, Roles, Shape, Shown, ShownOf, entryVars, serverVars
<1>4. ASSUME NEW u \in Uploads, BeginChunk(u) PROVE Shown'
  BY <1>4, Apart
   DEF BeginChunk, Cleaning, Holds, InCharge, Locking, Moves, Publishing, Roles,
         Shape, Shown, ShownOf, entryVars, serverVars
<1>5. ASSUME NEW u \in Uploads, WriteUpload(u) PROVE Shown'
  BY <1>5, Apart
   DEF Cleaning, Holds, InCharge, Locking, Moves, Publishing, Release, Roles,
         Shape, Shown, ShownOf, WriteUpload, entryVars, serverVars
<1>6. ASSUME NEW u \in Uploads, BeginFinish(u) PROVE Shown'
  BY <1>6, Apart
   DEF BeginFinish, Cleaning, Holds, InCharge, Locking, Moves, Publishing, Roles,
         Shape, Shown, ShownOf, entryVars, serverVars
<1>7. ASSUME NEW u \in Uploads, CloseUpload(u) PROVE Shown'
  BY <1>7, Apart
   DEF Cleaning, CloseUpload, Holds, InCharge, Locking, Moves, Publishing,
         Release, Roles, Shape, Shown, ShownOf, entryVars, serverVars
<1>8. ASSUME NEW u \in Uploads, LookForTarget(u) PROVE Shown'
  BY <1>8, Apart
   DEF Cleaning, Holds, InCharge, Locking, LookForTarget, Moves, NotPublished,
         Publishing, Release, Roles, Shape, Shown, ShownOf, entryVars, serverVars
<1>9. ASSUME NEW u \in Uploads, CompareTarget(u) PROVE Shown'
  BY <1>9, Apart
   DEF Cleaning, CompareTarget, Holds, InCharge, Locking, Moves, NotPublished,
         Publishing, Release, Roles, SameTarget, Shape, Shown, ShownOf, entryVars,
         serverVars
<1>10. ASSUME NEW u \in Uploads, PublishUpload(u) PROVE Shown'
  BY <1>10, Apart
   DEF Asked, Cleaning, Done, Holds, InCharge, Locking, Moves, NotPublished,
         PublishUpload, Publishing, PutInPlace, Release, Roles, Shape, Shown,
         ShownOf, entryVars, serverVars
<1>11. ASSUME NEW u \in Uploads, ProtectTarget(u) PROVE Shown'
  BY <1>11, Apart
   DEF Asked, Cleaning, Holds, InCharge, Locking, Moves, NotPublished,
         ProtectTarget, Publishing, Release, Roles, SetAside, Shape, Shown, ShownOf,
         entryVars, serverVars
<1>12. ASSUME NEW u \in Uploads, ReplaceTarget(u) PROVE Shown'
  BY <1>12, Apart
   DEF Asked, Cleaning, Holds, InCharge, Locking, Moves, Publishing, PutInPlace,
         ReplaceTarget, Roles, Shape, Shown, ShownOf, entryVars, serverVars
<1>13. ASSUME NEW u \in Uploads, RestoreTarget(u) PROVE Shown'
  BY <1>13, Apart
   DEF Asked, Cleaning, Holds, InCharge, Locking, Moves, Names, NotPublished,
         Publishing, PutBack, Release, RestoreTarget, Roles, Shape, Shown, ShownOf,
         entryVars, serverVars
<1>14. ASSUME NEW u \in Uploads, DiscardBackup(u) PROVE Shown'
  BY <1>14, Apart
   DEF Asked, Cleaning, DiscardBackup, Done, Holds, InCharge, Locking, Moves,
         Names, Publishing, Release, Roles, Shape, Shown, ShownOf, entryVars,
         serverVars
<1>15. ASSUME NEW u \in Uploads, CancelUpload(u) PROVE Shown'
  BY <1>15, Apart
   DEF CancelUpload, Cleaning, Holds, InCharge, Locking, Moves, Publishing, Roles,
         Shape, Shown, ShownOf, entryVars, serverVars
<1>16. ASSUME NEW u \in Uploads, NEW t \in {u, Cancels(u)}, AbortUpload(t) PROVE Shown'
  BY <1>16, Apart
   DEF AbortUpload, Cleaning, Holds, InCharge, Locking, Moves, Publishing, Roles,
         Shape, Shown, ShownOf, entryVars, serverVars
<1>17. ASSUME NEW u \in Uploads, NEW t \in {u, Cancels(u)}, CloseAborted(t) PROVE Shown'
  BY <1>17, Apart
   DEF Cleaning, CloseAborted, Holds, InCharge, Locking, Moves, Publishing,
         Release, Roles, Shape, Shown, ShownOf, entryVars, serverVars
<1>18. ASSUME NEW u \in Uploads, NEW t \in {u, Cancels(u)}, RemoveStaging(t) PROVE Shown'
  BY <1>18, Apart
   DEF Asked, Cleaning, Holds, InCharge, Locking, Moves, Names, Publishing,
         Remove, RemoveStaging, Roles, Shape, Shown, ShownOf, entryVars, serverVars
<1>19. ASSUME NEW s \in Saves, OpenText(s) PROVE Shown'
  BY <1>19, Apart
   DEF Cleaning, Holds, InCharge, Locking, Moves, OpenText, Publishing, Roles,
         Shape, Shown, ShownOf, entryVars, serverVars
<1>20. ASSUME NEW s \in Saves, SaveText(s) PROVE Shown'
  BY <1>20, Apart
   DEF Cleaning, Holds, InCharge, Locking, Moves, Publishing, Roles, SaveText,
         Shape, Shown, ShownOf, entryVars, serverVars
<1>21. ASSUME NEW s \in Saves, ReadRevision(s) PROVE Shown'
  BY <1>21, Apart
   DEF Cleaning, Holds, InCharge, Locking, Moves, Publishing, ReadRevision, Roles,
         SaveEnds, Shape, Shown, ShownOf, entryVars, serverVars
<1>22. ASSUME NEW s \in Saves, StageText(s) PROVE Shown'
  BY <1>22, Apart
   DEF Asked, Cleaning, Create, Holds, InCharge, Locking, Moves, Publishing,
         Roles, SaveEnds, Shape, Shown, ShownOf, StageText, entryVars, serverVars
<1>23. ASSUME NEW s \in Saves, CompareRevision(s) PROVE Shown'
  BY <1>23, Apart
   DEF Cleaning, CompareRevision, Holds, InCharge, Locking, Moves, Publishing,
         Roles, Shape, Shown, ShownOf, entryVars, serverVars
<1>24. ASSUME NEW s \in Saves, ProtectText(s) PROVE Shown'
  BY <1>24, Apart
   DEF Asked, Cleaning, Holds, InCharge, Locking, Moves, ProtectText, Publishing,
         Roles, SetAside, Shape, Shown, ShownOf, entryVars, serverVars
<1>25. ASSUME NEW s \in Saves, VerifyText(s) PROVE Shown'
  BY <1>25, Apart
   DEF Cleaning, Holds, InCharge, Locking, Moves, Publishing, Roles, Shape, Shown,
         ShownOf, VerifyText, entryVars, serverVars
<1>26. ASSUME NEW s \in Saves, ReplaceText(s) PROVE Shown'
  BY <1>26, Apart
   DEF Asked, Cleaning, Holds, InCharge, Locking, Moves, Names, Publishing,
         PutInPlace, ReplaceText, Roles, SaveEnds, Shape, Shown, ShownOf, entryVars,
         serverVars
<1>27. ASSUME NEW s \in Saves, RestoreText(s) PROVE Shown'
  BY <1>27, Apart
   DEF Asked, Cleaning, Holds, InCharge, Locking, Moves, Names, Publishing,
         PutBack, RestoreText, Roles, Shape, Shown, ShownOf, entryVars, serverVars
<1>28. ASSUME NEW s \in Saves, CleanText(s) PROVE Shown'
  BY <1>28, Apart
   DEF Asked, CleanText, Cleaning, Holds, InCharge, Locking, Moves, Names,
         Publishing, Remove, Roles, SaveEnds, Shape, Shown, ShownOf, entryVars,
         serverVars
<1>29. ASSUME Outsider PROVE Shown'
  BY <1>1, <1>29 DEF Outsider, entryVars, serverVars
<1>30. CASE UNCHANGED fileVars
  BY <1>1, <1>30 DEF entryVars, fileVars, serverVars
<1> QED
  BY <1>1, <1>2, <1>3, <1>4, <1>5, <1>6, <1>7, <1>8, <1>9, <1>10, <1>11, <1>12,
     <1>13, <1>14, <1>15, <1>16, <1>17, <1>18, <1>19, <1>20, <1>21, <1>22, <1>23,
     <1>24, <1>25, <1>26, <1>27, <1>28, <1>29, <1>30
   DEF FilesNext, UploadStep, SaveStep

LEMMA PrivateStep == Shape /\ Roles /\ InCharge /\ Shown /\ Private /\ [FilesNext]_fileVars => Private'
<1> SUFFICES ASSUME Shape, Roles, InCharge, Shown, Private, [FilesNext]_fileVars PROVE Private'
  OBVIOUS
<1>1. CASE UNCHANGED <<staging, work, transfer, placed>>
  BY <1>1
   DEF Cleaning, Locking, Private, PrivateOf, Publishing, Roles, Shape, Shown,
         ShownOf, Unplaced, Whole
<1>2. ASSUME NEW u \in Uploads, BeginUpload(u) PROVE Private'
  BY <1>2, Apart
   DEF BeginUpload, Cleaning, Locking, Moves, Private, PrivateOf, Publishing,
         Roles, Shape, Shown, ShownOf, Unplaced, Whole, entryVars, serverVars
<1>3. ASSUME NEW u \in Uploads, CreateUpload(u) PROVE Private'
  BY <1>3, Apart
   DEF Asked, Cleaning, Create, CreateUpload, Locking, Moves, Private, PrivateOf,
         Publishing, Roles, Shape, Shown, ShownOf, Unplaced, Whole, entryVars,
         serverVars
<1>4. ASSUME NEW u \in Uploads, BeginChunk(u) PROVE Private'
  BY <1>4, Apart
   DEF BeginChunk, Cleaning, Locking, Moves, Private, PrivateOf, Publishing,
         Roles, Shape, Shown, ShownOf, Unplaced, Whole, entryVars, serverVars
<1>5. ASSUME NEW u \in Uploads, WriteUpload(u) PROVE Private'
  BY <1>5, Apart
   DEF Cleaning, Locking, Moves, Private, PrivateOf, Publishing, Release, Roles,
         Shape, Shown, ShownOf, Unplaced, Whole, WriteUpload, entryVars, serverVars
<1>6. ASSUME NEW u \in Uploads, BeginFinish(u) PROVE Private'
  BY <1>6, Apart
   DEF BeginFinish, Cleaning, Locking, Moves, Private, PrivateOf, Publishing,
         Roles, Shape, Shown, ShownOf, Unplaced, Whole, entryVars, serverVars
<1>7. ASSUME NEW u \in Uploads, CloseUpload(u) PROVE Private'
  BY <1>7, Apart
   DEF Cleaning, CloseUpload, Locking, Moves, Private, PrivateOf, Publishing,
         Release, Roles, Shape, Shown, ShownOf, Unplaced, Whole, entryVars,
         serverVars
<1>8. ASSUME NEW u \in Uploads, LookForTarget(u) PROVE Private'
  BY <1>8, Apart
   DEF Cleaning, Locking, LookForTarget, Moves, NotPublished, Private, PrivateOf,
         Publishing, Release, Roles, Shape, Shown, ShownOf, Unplaced, Whole,
         entryVars, serverVars
<1>9. ASSUME NEW u \in Uploads, CompareTarget(u) PROVE Private'
  BY <1>9, Apart
   DEF Cleaning, CompareTarget, Locking, Moves, NotPublished, Private, PrivateOf,
         Publishing, Release, Roles, SameTarget, Shape, Shown, ShownOf, Unplaced,
         Whole, entryVars, serverVars
<1>10. ASSUME NEW u \in Uploads, PublishUpload(u) PROVE Private'
  BY <1>10, Apart
   DEF Asked, Cleaning, Done, Locking, Moves, NotPublished, Private, PrivateOf,
         PublishUpload, Publishing, PutInPlace, Release, Roles, Shape, Shown,
         ShownOf, Unplaced, Whole, entryVars, serverVars
<1>11. ASSUME NEW u \in Uploads, ProtectTarget(u) PROVE Private'
  BY <1>11, Apart
   DEF Asked, Cleaning, Locking, Moves, NotPublished, Private, PrivateOf,
         ProtectTarget, Publishing, Release, Roles, SetAside, Shape, Shown, ShownOf,
         Unplaced, Whole, entryVars, serverVars
<1>12. ASSUME NEW u \in Uploads, ReplaceTarget(u) PROVE Private'
  BY <1>12, Apart
   DEF Asked, Cleaning, Locking, Moves, Private, PrivateOf, Publishing,
         PutInPlace, ReplaceTarget, Roles, Shape, Shown, ShownOf, Unplaced, Whole,
         entryVars, serverVars
<1>13. ASSUME NEW u \in Uploads, RestoreTarget(u) PROVE Private'
  BY <1>13, Apart
   DEF Asked, Cleaning, Locking, Moves, Names, NotPublished, Private, PrivateOf,
         Publishing, PutBack, Release, RestoreTarget, Roles, Shape, Shown, ShownOf,
         Unplaced, Whole, entryVars, serverVars
<1>14. ASSUME NEW u \in Uploads, DiscardBackup(u) PROVE Private'
  BY <1>14, Apart
   DEF Asked, Cleaning, DiscardBackup, Done, Locking, Moves, Names, Private,
         PrivateOf, Publishing, Release, Roles, Shape, Shown, ShownOf, Unplaced,
         Whole, entryVars, serverVars
<1>15. ASSUME NEW u \in Uploads, CancelUpload(u) PROVE Private'
  BY <1>15, Apart
   DEF CancelUpload, Cleaning, Locking, Moves, Private, PrivateOf, Publishing,
         Roles, Shape, Shown, ShownOf, Unplaced, Whole, entryVars, serverVars
<1>16. ASSUME NEW u \in Uploads, NEW t \in {u, Cancels(u)}, AbortUpload(t) PROVE Private'
  BY <1>16, Apart
   DEF AbortUpload, Cleaning, Locking, Moves, Private, PrivateOf, Publishing,
         Roles, Shape, Shown, ShownOf, Unplaced, Whole, entryVars, serverVars
<1>17. ASSUME NEW u \in Uploads, NEW t \in {u, Cancels(u)}, CloseAborted(t) PROVE Private'
  BY <1>17, Apart
   DEF Cleaning, CloseAborted, Locking, Moves, Private, PrivateOf, Publishing,
         Release, Roles, Shape, Shown, ShownOf, Unplaced, Whole, entryVars,
         serverVars
<1>18. ASSUME NEW u \in Uploads, NEW t \in {u, Cancels(u)}, RemoveStaging(t) PROVE Private'
  BY <1>18, Apart
   DEF Asked, Cleaning, Locking, Moves, Names, Private, PrivateOf, Publishing,
         Remove, RemoveStaging, Roles, Shape, Shown, ShownOf, Unplaced, Whole,
         entryVars, serverVars
<1>19. ASSUME NEW s \in Saves, OpenText(s) PROVE Private'
  BY <1>19, Apart
   DEF Cleaning, Locking, Moves, OpenText, Private, PrivateOf, Publishing, Roles,
         Shape, Shown, ShownOf, Unplaced, Whole, entryVars, serverVars
<1>20. ASSUME NEW s \in Saves, SaveText(s) PROVE Private'
  BY <1>20, Apart
   DEF Cleaning, Locking, Moves, Private, PrivateOf, Publishing, Roles, SaveText,
         Shape, Shown, ShownOf, Unplaced, Whole, entryVars, serverVars
<1>21. ASSUME NEW s \in Saves, ReadRevision(s) PROVE Private'
  BY <1>21, Apart
   DEF Cleaning, Locking, Moves, Private, PrivateOf, Publishing, ReadRevision,
         Roles, SaveEnds, Shape, Shown, ShownOf, Unplaced, Whole, entryVars,
         serverVars
<1>22. ASSUME NEW s \in Saves, StageText(s) PROVE Private'
  BY <1>22, Apart
   DEF Asked, Cleaning, Create, Locking, Moves, Private, PrivateOf, Publishing,
         Roles, SaveEnds, Shape, Shown, ShownOf, StageText, Unplaced, Whole,
         entryVars, serverVars
<1>23. ASSUME NEW s \in Saves, CompareRevision(s) PROVE Private'
  BY <1>23, Apart
   DEF Cleaning, CompareRevision, Locking, Moves, Private, PrivateOf, Publishing,
         Roles, Shape, Shown, ShownOf, Unplaced, Whole, entryVars, serverVars
<1>24. ASSUME NEW s \in Saves, ProtectText(s) PROVE Private'
  BY <1>24, Apart
   DEF Asked, Cleaning, Locking, Moves, Private, PrivateOf, ProtectText,
         Publishing, Roles, SetAside, Shape, Shown, ShownOf, Unplaced, Whole,
         entryVars, serverVars
<1>25. ASSUME NEW s \in Saves, VerifyText(s) PROVE Private'
  BY <1>25, Apart
   DEF Cleaning, Locking, Moves, Private, PrivateOf, Publishing, Roles, Shape,
         Shown, ShownOf, Unplaced, VerifyText, Whole, entryVars, serverVars
<1>26. ASSUME NEW s \in Saves, ReplaceText(s) PROVE Private'
  BY <1>26, Apart
   DEF Asked, Cleaning, Locking, Moves, Names, Private, PrivateOf, Publishing,
         PutInPlace, ReplaceText, Roles, SaveEnds, Shape, Shown, ShownOf, Unplaced,
         Whole, entryVars, serverVars
<1>27. ASSUME NEW s \in Saves, RestoreText(s) PROVE Private'
  BY <1>27, Apart
   DEF Asked, Cleaning, Locking, Moves, Names, Private, PrivateOf, Publishing,
         PutBack, RestoreText, Roles, Shape, Shown, ShownOf, Unplaced, Whole,
         entryVars, serverVars
<1>28. ASSUME NEW s \in Saves, CleanText(s) PROVE Private'
  BY <1>28, Apart
   DEF Asked, CleanText, Cleaning, Locking, Moves, Names, Private, PrivateOf,
         Publishing, Remove, Roles, SaveEnds, Shape, Shown, ShownOf, Unplaced,
         Whole, entryVars, serverVars
<1>29. ASSUME Outsider PROVE Private'
  BY <1>29, Apart
   DEF Cleaning, Locking, Outsider, Private, PrivateOf, Publishing, Roles, Shape,
         Shown, ShownOf, Unplaced, Whole, entryVars, serverVars
<1>30. CASE UNCHANGED fileVars
  BY <1>1, <1>30 DEF entryVars, fileVars, serverVars
<1> QED
  BY <1>1, <1>2, <1>3, <1>4, <1>5, <1>6, <1>7, <1>8, <1>9, <1>10, <1>11, <1>12,
     <1>13, <1>14, <1>15, <1>16, <1>17, <1>18, <1>19, <1>20, <1>21, <1>22, <1>23,
     <1>24, <1>25, <1>26, <1>27, <1>28, <1>29, <1>30
   DEF FilesNext, UploadStep, SaveStep

LEMMA ReportedStays ==
    Shape /\ [FilesNext]_fileVars => \A o \in Operations : Reported(o) => Reported(o)'
<1> SUFFICES ASSUME Shape, [FilesNext]_fileVars 
      PROVE \A o \in Operations : Reported(o) => Reported(o)'
  OBVIOUS
<1>1. CASE UNCHANGED <<transfer, work, told, unheard>>
  BY <1>1 DEF Reported, Shape, Silenced
<1>2. ASSUME NEW u \in Uploads, BeginUpload(u) 
      PROVE \A o \in Operations : Reported(o) => Reported(o)'
  BY <1>2, Apart
   DEF BeginUpload, Moves, Reported, Shape, Silenced, entryVars, serverVars
<1>3. ASSUME NEW u \in Uploads, CreateUpload(u) 
      PROVE \A o \in Operations : Reported(o) => Reported(o)'
  BY <1>3, Apart
   DEF Asked, Create, CreateUpload, Moves, Reported, Shape, Silenced, entryVars,
         serverVars
<1>4. ASSUME NEW u \in Uploads, BeginChunk(u) 
      PROVE \A o \in Operations : Reported(o) => Reported(o)'
  BY <1>4, Apart
   DEF BeginChunk, Moves, Reported, Shape, Silenced, entryVars, serverVars
<1>5. ASSUME NEW u \in Uploads, WriteUpload(u) 
      PROVE \A o \in Operations : Reported(o) => Reported(o)'
  BY <1>5, Apart
   DEF Moves, Release, Reported, Shape, Silenced, WriteUpload, entryVars, serverVars
<1>6. ASSUME NEW u \in Uploads, BeginFinish(u) 
      PROVE \A o \in Operations : Reported(o) => Reported(o)'
  BY <1>6, Apart
   DEF BeginFinish, Moves, Reported, Shape, Silenced, entryVars, serverVars
<1>7. ASSUME NEW u \in Uploads, CloseUpload(u) 
      PROVE \A o \in Operations : Reported(o) => Reported(o)'
  BY <1>7, Apart
   DEF CloseUpload, Moves, Release, Reported, Shape, Silenced, entryVars, serverVars
<1>8. ASSUME NEW u \in Uploads, LookForTarget(u) 
      PROVE \A o \in Operations : Reported(o) => Reported(o)'
  BY <1>8, Apart
   DEF LookForTarget, Moves, NotPublished, Release, Reported, Shape, Silenced,
         entryVars, serverVars
<1>9. ASSUME NEW u \in Uploads, CompareTarget(u) 
      PROVE \A o \in Operations : Reported(o) => Reported(o)'
  BY <1>9, Apart
   DEF CompareTarget, Moves, NotPublished, Release, Reported, SameTarget, Shape,
         Silenced, entryVars, serverVars
<1>10. ASSUME NEW u \in Uploads, PublishUpload(u) 
      PROVE \A o \in Operations : Reported(o) => Reported(o)'
  BY <1>10, Apart
   DEF Asked, Done, Moves, NotPublished, PublishUpload, PutInPlace, Release, Reported,
         Shape, Silenced, entryVars, serverVars
<1>11. ASSUME NEW u \in Uploads, ProtectTarget(u) 
      PROVE \A o \in Operations : Reported(o) => Reported(o)'
  BY <1>11, Apart
   DEF Asked, Moves, NotPublished, ProtectTarget, Release, Reported, SetAside, Shape,
         Silenced, entryVars, serverVars
<1>12. ASSUME NEW u \in Uploads, ReplaceTarget(u) 
      PROVE \A o \in Operations : Reported(o) => Reported(o)'
  BY <1>12, Apart
   DEF Asked, Moves, PutInPlace, ReplaceTarget, Reported, Shape, Silenced, entryVars,
         serverVars
<1>13. ASSUME NEW u \in Uploads, RestoreTarget(u) 
      PROVE \A o \in Operations : Reported(o) => Reported(o)'
  BY <1>13, Apart
   DEF Asked, Moves, Names, NotPublished, PutBack, Release, Reported, RestoreTarget,
         Shape, Silenced, entryVars, serverVars
<1>14. ASSUME NEW u \in Uploads, DiscardBackup(u) 
      PROVE \A o \in Operations : Reported(o) => Reported(o)'
  BY <1>14, Apart
   DEF Asked, DiscardBackup, Done, Moves, Names, Release, Reported, Shape, Silenced,
         entryVars, serverVars
<1>15. ASSUME NEW u \in Uploads, CancelUpload(u) 
      PROVE \A o \in Operations : Reported(o) => Reported(o)'
  BY <1>15, Apart
   DEF CancelUpload, Moves, Reported, Shape, Silenced, entryVars, serverVars
<1>16. ASSUME NEW u \in Uploads, NEW t \in {u, Cancels(u)}, AbortUpload(t) 
      PROVE \A o \in Operations : Reported(o) => Reported(o)'
  BY <1>16, Apart
   DEF AbortUpload, Moves, Names, Reported, Shape, Silenced, entryVars, serverVars
<1>17. ASSUME NEW u \in Uploads, NEW t \in {u, Cancels(u)}, CloseAborted(t) 
      PROVE \A o \in Operations : Reported(o) => Reported(o)'
  BY <1>17, Apart
   DEF CloseAborted, Moves, Release, Reported, Shape, Silenced, entryVars, serverVars
<1>18. ASSUME NEW u \in Uploads, NEW t \in {u, Cancels(u)}, RemoveStaging(t) 
      PROVE \A o \in Operations : Reported(o) => Reported(o)'
  BY <1>18, Apart
   DEF Asked, Moves, Names, Remove, RemoveStaging, Reported, Shape, Silenced,
         entryVars, serverVars
<1>19. ASSUME NEW s \in Saves, OpenText(s) 
      PROVE \A o \in Operations : Reported(o) => Reported(o)'
  BY <1>19, Apart
   DEF Moves, OpenText, Reported, Shape, Silenced, entryVars, serverVars
<1>20. ASSUME NEW s \in Saves, SaveText(s) 
      PROVE \A o \in Operations : Reported(o) => Reported(o)'
  BY <1>20, Apart
   DEF Moves, Reported, SaveText, Shape, Silenced, entryVars, serverVars
<1>21. ASSUME NEW s \in Saves, ReadRevision(s) 
      PROVE \A o \in Operations : Reported(o) => Reported(o)'
  BY <1>21, Apart
   DEF Moves, ReadRevision, Reported, SaveEnds, Shape, Silenced, entryVars, serverVars
<1>22. ASSUME NEW s \in Saves, StageText(s) 
      PROVE \A o \in Operations : Reported(o) => Reported(o)'
  BY <1>22, Apart
   DEF Asked, Create, Moves, Reported, SaveEnds, Shape, Silenced, StageText,
         entryVars, serverVars
<1>23. ASSUME NEW s \in Saves, CompareRevision(s) 
      PROVE \A o \in Operations : Reported(o) => Reported(o)'
  BY <1>23, Apart
   DEF CompareRevision, Moves, Reported, Shape, Silenced, entryVars, serverVars
<1>24. ASSUME NEW s \in Saves, ProtectText(s) 
      PROVE \A o \in Operations : Reported(o) => Reported(o)'
  BY <1>24, Apart
   DEF Asked, Moves, ProtectText, Reported, SetAside, Shape, Silenced, entryVars,
         serverVars
<1>25. ASSUME NEW s \in Saves, VerifyText(s) 
      PROVE \A o \in Operations : Reported(o) => Reported(o)'
  BY <1>25, Apart
   DEF Moves, Reported, Shape, Silenced, VerifyText, entryVars, serverVars
<1>26. ASSUME NEW s \in Saves, ReplaceText(s) 
      PROVE \A o \in Operations : Reported(o) => Reported(o)'
  BY <1>26, Apart
   DEF Asked, Moves, Names, PutInPlace, ReplaceText, Reported, SaveEnds, Shape,
         Silenced, entryVars, serverVars
<1>27. ASSUME NEW s \in Saves, RestoreText(s) 
      PROVE \A o \in Operations : Reported(o) => Reported(o)'
  BY <1>27, Apart
   DEF Asked, Moves, Names, PutBack, Reported, RestoreText, Shape, Silenced,
         entryVars, serverVars
<1>28. ASSUME NEW s \in Saves, CleanText(s) 
      PROVE \A o \in Operations : Reported(o) => Reported(o)'
  BY <1>28, Apart
   DEF Asked, CleanText, Moves, Names, Remove, Reported, SaveEnds, Shape, Silenced,
         entryVars, serverVars
<1>29. ASSUME Outsider 
      PROVE \A o \in Operations : Reported(o) => Reported(o)'
  BY <1>29, Apart
   DEF Outsider, Reported, Shape, Silenced, entryVars, serverVars
<1>30. CASE UNCHANGED fileVars
  BY <1>1, <1>30 DEF entryVars, fileVars, serverVars
<1> QED
  BY <1>1, <1>2, <1>3, <1>4, <1>5, <1>6, <1>7, <1>8, <1>9, <1>10, <1>11, <1>12,
     <1>13, <1>14, <1>15, <1>16, <1>17, <1>18, <1>19, <1>20, <1>21, <1>22, <1>23,
     <1>24, <1>25, <1>26, <1>27, <1>28, <1>29, <1>30
   DEF FilesNext, UploadStep, SaveStep

LEMMA AsSeenStep == Shape /\ Roles /\ InCharge /\ AsSeen /\ [FilesNext]_fileVars => AsSeen'
<1> SUFFICES ASSUME Shape, Roles, InCharge, AsSeen, [FilesNext]_fileVars PROVE AsSeen'
  OBVIOUS
<1>1. CASE UNCHANGED <<target, backup, seen, work>>
  BY <1>1 DEF AsSeen, Holds, InCharge, Publishing, Roles, Saving, Shape
<1>2. ASSUME NEW u \in Uploads, BeginUpload(u) PROVE AsSeen'
  BY <1>2, Apart
   DEF AsSeen, BeginUpload, Holds, InCharge, Moves, Publishing, Roles, Saving,
         Shape, entryVars, serverVars
<1>3. ASSUME NEW u \in Uploads, CreateUpload(u) PROVE AsSeen'
  BY <1>3, Apart
   DEF AsSeen, Asked, Create, CreateUpload, Holds, InCharge, Moves, Publishing,
         Roles, Saving, Shape, entryVars, serverVars
<1>4. ASSUME NEW u \in Uploads, BeginChunk(u) PROVE AsSeen'
  BY <1>4, Apart
   DEF AsSeen, BeginChunk, Holds, InCharge, Moves, Publishing, Roles, Saving,
         Shape, entryVars, serverVars
<1>5. ASSUME NEW u \in Uploads, WriteUpload(u) PROVE AsSeen'
  BY <1>5, Apart
   DEF AsSeen, Holds, InCharge, Moves, Publishing, Release, Roles, Saving, Shape,
         WriteUpload, entryVars, serverVars
<1>6. ASSUME NEW u \in Uploads, BeginFinish(u) PROVE AsSeen'
  BY <1>6, Apart
   DEF AsSeen, BeginFinish, Holds, InCharge, Moves, Publishing, Roles, Saving,
         Shape, entryVars, serverVars
<1>7. ASSUME NEW u \in Uploads, CloseUpload(u) PROVE AsSeen'
  BY <1>7, Apart
   DEF AsSeen, CloseUpload, Holds, InCharge, Moves, Publishing, Release, Roles,
         Saving, Shape, entryVars, serverVars
<1>8. ASSUME NEW u \in Uploads, LookForTarget(u) PROVE AsSeen'
  BY <1>8, Apart
   DEF AsSeen, Holds, InCharge, LookForTarget, Moves, NotPublished, Publishing,
         Release, Roles, Saving, Shape, entryVars, serverVars
<1>9. ASSUME NEW u \in Uploads, CompareTarget(u) PROVE AsSeen'
  BY <1>9, Apart
   DEF AsSeen, CompareTarget, Holds, InCharge, Moves, NotPublished, Publishing,
         Release, Roles, SameTarget, Saving, Shape, entryVars, serverVars
<1>10. ASSUME NEW u \in Uploads, PublishUpload(u) PROVE AsSeen'
  BY <1>10, Apart
   DEF AsSeen, Asked, Done, Holds, InCharge, Moves, NotPublished, PublishUpload,
         Publishing, PutInPlace, Release, Roles, Saving, Shape, entryVars,
         serverVars
<1>11. ASSUME NEW u \in Uploads, ProtectTarget(u) PROVE AsSeen'
  BY <1>11, Apart
   DEF AsSeen, Asked, Holds, InCharge, Moves, NotPublished, ProtectTarget,
         Publishing, Release, Roles, Saving, SetAside, Shape, entryVars, serverVars
<1>12. ASSUME NEW u \in Uploads, ReplaceTarget(u) PROVE AsSeen'
  BY <1>12, Apart
   DEF AsSeen, Asked, Holds, InCharge, Moves, Publishing, PutInPlace,
         ReplaceTarget, Roles, Saving, Shape, entryVars, serverVars
<1>13. ASSUME NEW u \in Uploads, RestoreTarget(u) PROVE AsSeen'
  BY <1>13, Apart
   DEF AsSeen, Asked, Holds, InCharge, Moves, Names, NotPublished, Publishing,
         PutBack, Release, RestoreTarget, Roles, Saving, Shape, entryVars,
         serverVars
<1>14. ASSUME NEW u \in Uploads, DiscardBackup(u) PROVE AsSeen'
  BY <1>14, Apart
   DEF AsSeen, Asked, DiscardBackup, Done, Holds, InCharge, Moves, Names,
         Publishing, Release, Roles, Saving, Shape, entryVars, serverVars
<1>15. ASSUME NEW u \in Uploads, CancelUpload(u) PROVE AsSeen'
  BY <1>15, Apart
   DEF AsSeen, CancelUpload, Holds, InCharge, Moves, Publishing, Roles, Saving,
         Shape, entryVars, serverVars
<1>16. ASSUME NEW u \in Uploads, NEW t \in {u, Cancels(u)}, AbortUpload(t) PROVE AsSeen'
  BY <1>16, Apart
   DEF AbortUpload, AsSeen, Holds, InCharge, Moves, Publishing, Roles, Saving,
         Shape, entryVars, serverVars
<1>17. ASSUME NEW u \in Uploads, NEW t \in {u, Cancels(u)}, CloseAborted(t) PROVE AsSeen'
  BY <1>17, Apart
   DEF AsSeen, CloseAborted, Holds, InCharge, Moves, Publishing, Release, Roles,
         Saving, Shape, entryVars, serverVars
<1>18. ASSUME NEW u \in Uploads, NEW t \in {u, Cancels(u)}, RemoveStaging(t) PROVE AsSeen'
  BY <1>18, Apart
   DEF AsSeen, Asked, Holds, InCharge, Moves, Names, Publishing, Remove,
         RemoveStaging, Roles, Saving, Shape, entryVars, serverVars
<1>19. ASSUME NEW s \in Saves, OpenText(s) PROVE AsSeen'
  BY <1>19, Apart
   DEF AsSeen, Holds, InCharge, Moves, OpenText, Publishing, Roles, Saving, Shape,
         entryVars, serverVars
<1>20. ASSUME NEW s \in Saves, SaveText(s) PROVE AsSeen'
  BY <1>20, Apart
   DEF AsSeen, Holds, InCharge, Moves, Publishing, Roles, SaveText, Saving, Shape,
         entryVars, serverVars
<1>21. ASSUME NEW s \in Saves, ReadRevision(s) PROVE AsSeen'
  BY <1>21, Apart
   DEF AsSeen, Holds, InCharge, Moves, Publishing, ReadRevision, Roles, SaveEnds,
         Saving, Shape, entryVars, serverVars
<1>22. ASSUME NEW s \in Saves, StageText(s) PROVE AsSeen'
  BY <1>22, Apart
   DEF AsSeen, Asked, Create, Holds, InCharge, Moves, Publishing, Roles, SaveEnds,
         Saving, Shape, StageText, entryVars, serverVars
<1>23. ASSUME NEW s \in Saves, CompareRevision(s) PROVE AsSeen'
  BY <1>23, Apart
   DEF AsSeen, CompareRevision, Holds, InCharge, Moves, Publishing, Roles, Saving,
         Shape, entryVars, serverVars
<1>24. ASSUME NEW s \in Saves, ProtectText(s) PROVE AsSeen'
  BY <1>24, Apart
   DEF AsSeen, Asked, Holds, InCharge, Moves, ProtectText, Publishing, Roles,
         Saving, SetAside, Shape, entryVars, serverVars
<1>25. ASSUME NEW s \in Saves, VerifyText(s) PROVE AsSeen'
  BY <1>25, Apart
   DEF AsSeen, Holds, InCharge, Moves, Publishing, Roles, Saving, Shape,
         VerifyText, entryVars, serverVars
<1>26. ASSUME NEW s \in Saves, ReplaceText(s) PROVE AsSeen'
  BY <1>26, Apart
   DEF AsSeen, Asked, Holds, InCharge, Moves, Names, Publishing, PutInPlace,
         ReplaceText, Roles, SaveEnds, Saving, Shape, entryVars, serverVars
<1>27. ASSUME NEW s \in Saves, RestoreText(s) PROVE AsSeen'
  BY <1>27, Apart
   DEF AsSeen, Asked, Holds, InCharge, Moves, Names, Publishing, PutBack,
         RestoreText, Roles, Saving, Shape, entryVars, serverVars
<1>28. ASSUME NEW s \in Saves, CleanText(s) PROVE AsSeen'
  BY <1>28, Apart
   DEF AsSeen, Asked, CleanText, Holds, InCharge, Moves, Names, Publishing,
         Remove, Roles, SaveEnds, Saving, Shape, entryVars, serverVars
<1>29. ASSUME Outsider PROVE AsSeen'
  BY <1>29, Apart
   DEF AsSeen, Holds, InCharge, Outsider, Publishing, Roles, Saving, Shape,
         entryVars, serverVars
<1>30. CASE UNCHANGED fileVars
  BY <1>1, <1>30 DEF entryVars, fileVars, serverVars
<1> QED
  BY <1>1, <1>2, <1>3, <1>4, <1>5, <1>6, <1>7, <1>8, <1>9, <1>10, <1>11, <1>12,
     <1>13, <1>14, <1>15, <1>16, <1>17, <1>18, <1>19, <1>20, <1>21, <1>22, <1>23,
     <1>24, <1>25, <1>26, <1>27, <1>28, <1>29, <1>30
   DEF FilesNext, UploadStep, SaveStep

LEMMA AsideStep == Shape /\ Roles /\ Shown /\ Aside /\ [FilesNext]_fileVars => Aside'
<1> SUFFICES ASSUME Shape, Roles, Shown, Aside, [FilesNext]_fileVars PROVE Aside'
  OBVIOUS
<1>1. CASE UNCHANGED <<backup, transfer, work, told, unheard>>
  BY <1>1 DEF Aside, AsideOf, Reported, Silenced
<1>2. ASSUME NEW u \in Uploads, BeginUpload(u) PROVE Aside'
  <2> SUFFICES ASSUME NEW o \in Operations PROVE AsideOf(o)'
    BY DEF Aside
  <2> AsideOf(o)
    BY DEF Aside
  <2>1. Reported(o) => Reported(o)'
    BY ReportedStays
  <2>2. CASE o = u
    BY <1>2, <2>1, <2>2, Apart
     DEF AsideOf, BeginUpload, Moves, Publishing, Roles, Shape, Unprotected,
           entryVars, serverVars
  <2>3. CASE o # u
    <3>1. work'[o] = work[o] /\ backup'[o] = backup[o]
      BY <1>2, <2>3, Apart DEF BeginUpload, Moves, Shape, entryVars, serverVars
    <3> QED
      BY <2>1, <3>1 DEF AsideOf
  <2> QED
    BY <2>2, <2>3
<1>3. ASSUME NEW u \in Uploads, CreateUpload(u) PROVE Aside'
  <2> SUFFICES ASSUME NEW o \in Operations PROVE AsideOf(o)'
    BY DEF Aside
  <2> AsideOf(o)
    BY DEF Aside
  <2>1. Reported(o) => Reported(o)'
    BY ReportedStays
  <2>2. CASE o = u
    BY <1>3, <2>1, <2>2, Apart
     DEF AsideOf, Asked, Create, CreateUpload, Moves, Publishing, Roles, Shape,
           Unprotected, entryVars, serverVars
  <2>3. CASE o # u
    <3>1. work'[o] = work[o] /\ backup'[o] = backup[o]
      BY <1>3, <2>3, Apart
       DEF Asked, Create, CreateUpload, Moves, Shape, entryVars, serverVars
    <3> QED
      BY <2>1, <3>1 DEF AsideOf
  <2> QED
    BY <2>2, <2>3
<1>4. ASSUME NEW u \in Uploads, BeginChunk(u) PROVE Aside'
  <2> SUFFICES ASSUME NEW o \in Operations PROVE AsideOf(o)'
    BY DEF Aside
  <2> AsideOf(o)
    BY DEF Aside
  <2>1. Reported(o) => Reported(o)'
    BY ReportedStays
  <2>2. CASE o = u
    BY <1>4, <2>1, <2>2, Apart
     DEF AsideOf, BeginChunk, Moves, Publishing, Roles, Shape, Unprotected,
           entryVars, serverVars
  <2>3. CASE o # u
    <3>1. work'[o] = work[o] /\ backup'[o] = backup[o]
      BY <1>4, <2>3, Apart DEF BeginChunk, Moves, Shape, entryVars, serverVars
    <3> QED
      BY <2>1, <3>1 DEF AsideOf
  <2> QED
    BY <2>2, <2>3
<1>5. ASSUME NEW u \in Uploads, WriteUpload(u) PROVE Aside'
  <2> SUFFICES ASSUME NEW o \in Operations PROVE AsideOf(o)'
    BY DEF Aside
  <2> AsideOf(o)
    BY DEF Aside
  <2>1. Reported(o) => Reported(o)'
    BY ReportedStays
  <2>2. CASE o = u
    BY <1>5, <2>1, <2>2, Apart
     DEF AsideOf, Moves, Publishing, Release, Roles, Shape, Unprotected,
           WriteUpload, entryVars, serverVars
  <2>3. CASE o # u
    <3>1. work'[o] = work[o] /\ backup'[o] = backup[o]
      BY <1>5, <2>3, Apart
       DEF Moves, Release, Shape, WriteUpload, entryVars, serverVars
    <3> QED
      BY <2>1, <3>1 DEF AsideOf
  <2> QED
    BY <2>2, <2>3
<1>6. ASSUME NEW u \in Uploads, BeginFinish(u) PROVE Aside'
  <2> SUFFICES ASSUME NEW o \in Operations PROVE AsideOf(o)'
    BY DEF Aside
  <2> AsideOf(o)
    BY DEF Aside
  <2>1. Reported(o) => Reported(o)'
    BY ReportedStays
  <2>2. CASE o = u
    BY <1>6, <2>1, <2>2, Apart
     DEF AsideOf, BeginFinish, Moves, Publishing, Roles, Shape, Unprotected,
           entryVars, serverVars
  <2>3. CASE o # u
    <3>1. work'[o] = work[o] /\ backup'[o] = backup[o]
      BY <1>6, <2>3, Apart DEF BeginFinish, Moves, Shape, entryVars, serverVars
    <3> QED
      BY <2>1, <3>1 DEF AsideOf
  <2> QED
    BY <2>2, <2>3
<1>7. ASSUME NEW u \in Uploads, CloseUpload(u) PROVE Aside'
  <2> SUFFICES ASSUME NEW o \in Operations PROVE AsideOf(o)'
    BY DEF Aside
  <2> AsideOf(o)
    BY DEF Aside
  <2>1. Reported(o) => Reported(o)'
    BY ReportedStays
  <2>2. CASE o = u
    BY <1>7, <2>1, <2>2, Apart
     DEF AsideOf, CloseUpload, Moves, Publishing, Release, Roles, Shape,
           Unprotected, entryVars, serverVars
  <2>3. CASE o # u
    <3>1. work'[o] = work[o] /\ backup'[o] = backup[o]
      BY <1>7, <2>3, Apart
       DEF CloseUpload, Moves, Release, Shape, entryVars, serverVars
    <3> QED
      BY <2>1, <3>1 DEF AsideOf
  <2> QED
    BY <2>2, <2>3
<1>8. ASSUME NEW u \in Uploads, LookForTarget(u) PROVE Aside'
  <2> SUFFICES ASSUME NEW o \in Operations PROVE AsideOf(o)'
    BY DEF Aside
  <2> AsideOf(o)
    BY DEF Aside
  <2>1. Reported(o) => Reported(o)'
    BY ReportedStays
  <2>2. CASE o = u
    BY <1>8, <2>1, <2>2, Apart
     DEF AsideOf, LookForTarget, Moves, NotPublished, Publishing, Release, Roles,
           Shape, Unprotected, entryVars, serverVars
  <2>3. CASE o # u
    <3>1. work'[o] = work[o] /\ backup'[o] = backup[o]
      BY <1>8, <2>3, Apart
       DEF LookForTarget, Moves, NotPublished, Release, Shape, entryVars,
             serverVars
    <3> QED
      BY <2>1, <3>1 DEF AsideOf
  <2> QED
    BY <2>2, <2>3
<1>9. ASSUME NEW u \in Uploads, CompareTarget(u) PROVE Aside'
  <2> SUFFICES ASSUME NEW o \in Operations PROVE AsideOf(o)'
    BY DEF Aside
  <2> AsideOf(o)
    BY DEF Aside
  <2>1. Reported(o) => Reported(o)'
    BY ReportedStays
  <2>2. CASE o = u
    BY <1>9, <2>1, <2>2, Apart
     DEF AsideOf, CompareTarget, Moves, NotPublished, Publishing, Release, Roles,
           SameTarget, Shape, Unprotected, entryVars, serverVars
  <2>3. CASE o # u
    <3>1. work'[o] = work[o] /\ backup'[o] = backup[o]
      BY <1>9, <2>3, Apart
       DEF CompareTarget, Moves, NotPublished, Release, SameTarget, Shape,
             entryVars, serverVars
    <3> QED
      BY <2>1, <3>1 DEF AsideOf
  <2> QED
    BY <2>2, <2>3
<1>10. ASSUME NEW u \in Uploads, PublishUpload(u) PROVE Aside'
  <2> SUFFICES ASSUME NEW o \in Operations PROVE AsideOf(o)'
    BY DEF Aside
  <2> AsideOf(o)
    BY DEF Aside
  <2>1. Reported(o) => Reported(o)'
    BY ReportedStays
  <2>2. CASE o = u
    BY <1>10, <2>1, <2>2, Apart
     DEF AsideOf, Asked, Done, Moves, NotPublished, PublishUpload, Publishing,
           PutInPlace, Release, Roles, Shape, Unprotected, entryVars, serverVars
  <2>3. CASE o # u
    <3>1. work'[o] = work[o] /\ backup'[o] = backup[o]
      BY <1>10, <2>3, Apart
       DEF Asked, Done, Moves, NotPublished, PublishUpload, PutInPlace, Release,
             Shape, entryVars, serverVars
    <3> QED
      BY <2>1, <3>1 DEF AsideOf
  <2> QED
    BY <2>2, <2>3
<1>11. ASSUME NEW u \in Uploads, ProtectTarget(u) PROVE Aside'
  <2> SUFFICES ASSUME NEW o \in Operations PROVE AsideOf(o)'
    BY DEF Aside
  <2> AsideOf(o)
    BY DEF Aside
  <2>1. Reported(o) => Reported(o)'
    BY ReportedStays
  <2>2. CASE o = u
    BY <1>11, <2>1, <2>2, Apart
     DEF AsideOf, Asked, Moves, NotPublished, ProtectTarget, Publishing, Release,
           Reported, Roles, SetAside, Shape, Unprotected, entryVars, serverVars
  <2>3. CASE o # u
    <3>1. work'[o] = work[o] /\ backup'[o] = backup[o]
      BY <1>11, <2>3, Apart
       DEF Asked, Moves, NotPublished, ProtectTarget, Release, SetAside, Shape,
             entryVars, serverVars
    <3> QED
      BY <2>1, <3>1 DEF AsideOf
  <2> QED
    BY <2>2, <2>3
<1>12. ASSUME NEW u \in Uploads, ReplaceTarget(u) PROVE Aside'
  <2> SUFFICES ASSUME NEW o \in Operations PROVE AsideOf(o)'
    BY DEF Aside
  <2> AsideOf(o)
    BY DEF Aside
  <2>1. Reported(o) => Reported(o)'
    BY ReportedStays
  <2>2. CASE o = u
    BY <1>12, <2>1, <2>2, Apart
     DEF AsideOf, Asked, Moves, Publishing, PutInPlace, ReplaceTarget, Roles,
           Shape, Unprotected, entryVars, serverVars
  <2>3. CASE o # u
    <3>1. work'[o] = work[o] /\ backup'[o] = backup[o]
      BY <1>12, <2>3, Apart
       DEF Asked, Moves, PutInPlace, ReplaceTarget, Shape, entryVars, serverVars
    <3> QED
      BY <2>1, <3>1 DEF AsideOf
  <2> QED
    BY <2>2, <2>3
<1>13. ASSUME NEW u \in Uploads, RestoreTarget(u) PROVE Aside'
  <2> SUFFICES ASSUME NEW o \in Operations PROVE AsideOf(o)'
    BY DEF Aside
  <2> AsideOf(o)
    BY DEF Aside
  <2>1. Reported(o) => Reported(o)'
    BY ReportedStays
  <2>2. CASE o = u
    BY <1>13, <2>1, <2>2, Apart
     DEF AsideOf, Asked, Moves, Names, NotPublished, Publishing, PutBack, Release,
           Reported, RestoreTarget, Roles, Shape, Unprotected, entryVars, serverVars
  <2>3. CASE o # u
    <3>1. work'[o] = work[o] /\ backup'[o] = backup[o]
      BY <1>13, <2>3, Apart
       DEF Asked, Moves, Names, NotPublished, PutBack, Release, RestoreTarget,
             Shape, entryVars, serverVars
    <3> QED
      BY <2>1, <3>1 DEF AsideOf
  <2> QED
    BY <2>2, <2>3
<1>14. ASSUME NEW u \in Uploads, DiscardBackup(u) PROVE Aside'
  <2> SUFFICES ASSUME NEW o \in Operations PROVE AsideOf(o)'
    BY DEF Aside
  <2> AsideOf(o)
    BY DEF Aside
  <2>1. Reported(o) => Reported(o)'
    BY ReportedStays
  <2>2. CASE o = u
    BY <1>14, <2>1, <2>2, Apart
     DEF AsideOf, Asked, DiscardBackup, Done, Moves, Names, Publishing, Release,
           Reported, Roles, Shape, Unprotected, entryVars, serverVars
  <2>3. CASE o # u
    <3>1. work'[o] = work[o] /\ backup'[o] = backup[o]
      BY <1>14, <2>3, Apart
       DEF Asked, DiscardBackup, Done, Moves, Names, Release, Shape, entryVars,
             serverVars
    <3> QED
      BY <2>1, <3>1 DEF AsideOf
  <2> QED
    BY <2>2, <2>3
<1>15. ASSUME NEW u \in Uploads, CancelUpload(u) PROVE Aside'
  <2> SUFFICES ASSUME NEW o \in Operations PROVE AsideOf(o)'
    BY DEF Aside
  <2> AsideOf(o)
    BY DEF Aside
  <2>1. Reported(o) => Reported(o)'
    BY ReportedStays
  <2>2. CASE o = u
    BY <1>15, <2>1, <2>2, Apart
     DEF AsideOf, CancelUpload, Moves, Publishing, Roles, Shape, Unprotected,
           entryVars, serverVars
  <2>3. CASE o # u
    <3>1. work'[o] = work[o] /\ backup'[o] = backup[o]
      BY <1>15, <2>3, Apart DEF CancelUpload, Moves, Shape, entryVars, serverVars
    <3> QED
      BY <2>1, <3>1 DEF AsideOf
  <2> QED
    BY <2>2, <2>3
<1>16. ASSUME NEW u \in Uploads, NEW t \in {u, Cancels(u)}, AbortUpload(t) PROVE Aside'
  <2> SUFFICES ASSUME NEW o \in Operations PROVE AsideOf(o)'
    BY DEF Aside
  <2> AsideOf(o)
    BY DEF Aside
  <2>1. Reported(o) => Reported(o)'
    BY ReportedStays
  <2>2. CASE o = t
    BY <1>16, <2>1, <2>2, Apart
     DEF AbortUpload, AsideOf, Moves, Names, Publishing, Reported, Roles, Shape, Shown,
           ShownOf, Silenced, Unprotected, entryVars, serverVars
  <2>3. CASE o # t
    <3>1. work'[o] = work[o] /\ backup'[o] = backup[o]
      BY <1>16, <2>3, Apart DEF AbortUpload, Moves, Shape, entryVars, serverVars
    <3> QED
      BY <2>1, <3>1 DEF AsideOf
  <2> QED
    BY <2>2, <2>3
<1>17. ASSUME NEW u \in Uploads, NEW t \in {u, Cancels(u)}, CloseAborted(t) PROVE Aside'
  <2> SUFFICES ASSUME NEW o \in Operations PROVE AsideOf(o)'
    BY DEF Aside
  <2> AsideOf(o)
    BY DEF Aside
  <2>1. Reported(o) => Reported(o)'
    BY ReportedStays
  <2>2. CASE o = t
    BY <1>17, <2>1, <2>2, Apart
     DEF AsideOf, CloseAborted, Moves, Publishing, Release, Roles, Shape,
           Unprotected, entryVars, serverVars
  <2>3. CASE o # t
    <3>1. work'[o] = work[o] /\ backup'[o] = backup[o]
      BY <1>17, <2>3, Apart
       DEF CloseAborted, Moves, Release, Shape, entryVars, serverVars
    <3> QED
      BY <2>1, <3>1 DEF AsideOf
  <2> QED
    BY <2>2, <2>3
<1>18. ASSUME NEW u \in Uploads, NEW t \in {u, Cancels(u)}, RemoveStaging(t) PROVE Aside'
  <2> SUFFICES ASSUME NEW o \in Operations PROVE AsideOf(o)'
    BY DEF Aside
  <2> AsideOf(o)
    BY DEF Aside
  <2>1. Reported(o) => Reported(o)'
    BY ReportedStays
  <2>2. CASE o = t
    BY <1>18, <2>1, <2>2, Apart
     DEF AsideOf, Asked, Moves, Names, Publishing, Remove, RemoveStaging,
           Reported, Roles, Shape, Unprotected, entryVars, serverVars
  <2>3. CASE o # t
    <3>1. work'[o] = work[o] /\ backup'[o] = backup[o]
      BY <1>18, <2>3, Apart
       DEF Asked, Moves, Names, Remove, RemoveStaging, Shape, entryVars,
             serverVars
    <3> QED
      BY <2>1, <3>1 DEF AsideOf
  <2> QED
    BY <2>2, <2>3
<1>19. ASSUME NEW s \in Saves, OpenText(s) PROVE Aside'
  <2> SUFFICES ASSUME NEW o \in Operations PROVE AsideOf(o)'
    BY DEF Aside
  <2> AsideOf(o)
    BY DEF Aside
  <2>1. Reported(o) => Reported(o)'
    BY ReportedStays
  <2>2. CASE o = s
    BY <1>19, <2>1, <2>2, Apart
     DEF AsideOf, Moves, OpenText, Publishing, Roles, Shape, Unprotected,
           entryVars, serverVars
  <2>3. CASE o # s
    <3>1. work'[o] = work[o] /\ backup'[o] = backup[o]
      BY <1>19, <2>3, Apart DEF Moves, OpenText, Shape, entryVars, serverVars
    <3> QED
      BY <2>1, <3>1 DEF AsideOf
  <2> QED
    BY <2>2, <2>3
<1>20. ASSUME NEW s \in Saves, SaveText(s) PROVE Aside'
  <2> SUFFICES ASSUME NEW o \in Operations PROVE AsideOf(o)'
    BY DEF Aside
  <2> AsideOf(o)
    BY DEF Aside
  <2>1. Reported(o) => Reported(o)'
    BY ReportedStays
  <2>2. CASE o = s
    BY <1>20, <2>1, <2>2, Apart
     DEF AsideOf, Moves, Publishing, Roles, SaveText, Shape, Unprotected,
           entryVars, serverVars
  <2>3. CASE o # s
    <3>1. work'[o] = work[o] /\ backup'[o] = backup[o]
      BY <1>20, <2>3, Apart DEF Moves, SaveText, Shape, entryVars, serverVars
    <3> QED
      BY <2>1, <3>1 DEF AsideOf
  <2> QED
    BY <2>2, <2>3
<1>21. ASSUME NEW s \in Saves, ReadRevision(s) PROVE Aside'
  <2> SUFFICES ASSUME NEW o \in Operations PROVE AsideOf(o)'
    BY DEF Aside
  <2> AsideOf(o)
    BY DEF Aside
  <2>1. Reported(o) => Reported(o)'
    BY ReportedStays
  <2>2. CASE o = s
    BY <1>21, <2>1, <2>2, Apart
     DEF AsideOf, Moves, Publishing, ReadRevision, Roles, SaveEnds, Shape,
           Unprotected, entryVars, serverVars
  <2>3. CASE o # s
    <3>1. work'[o] = work[o] /\ backup'[o] = backup[o]
      BY <1>21, <2>3, Apart
       DEF Moves, ReadRevision, SaveEnds, Shape, entryVars, serverVars
    <3> QED
      BY <2>1, <3>1 DEF AsideOf
  <2> QED
    BY <2>2, <2>3
<1>22. ASSUME NEW s \in Saves, StageText(s) PROVE Aside'
  <2> SUFFICES ASSUME NEW o \in Operations PROVE AsideOf(o)'
    BY DEF Aside
  <2> AsideOf(o)
    BY DEF Aside
  <2>1. Reported(o) => Reported(o)'
    BY ReportedStays
  <2>2. CASE o = s
    BY <1>22, <2>1, <2>2, Apart
     DEF AsideOf, Asked, Create, Moves, Publishing, Roles, SaveEnds, Shape,
           StageText, Unprotected, entryVars, serverVars
  <2>3. CASE o # s
    <3>1. work'[o] = work[o] /\ backup'[o] = backup[o]
      BY <1>22, <2>3, Apart
       DEF Asked, Create, Moves, SaveEnds, Shape, StageText, entryVars, serverVars
    <3> QED
      BY <2>1, <3>1 DEF AsideOf
  <2> QED
    BY <2>2, <2>3
<1>23. ASSUME NEW s \in Saves, CompareRevision(s) PROVE Aside'
  <2> SUFFICES ASSUME NEW o \in Operations PROVE AsideOf(o)'
    BY DEF Aside
  <2> AsideOf(o)
    BY DEF Aside
  <2>1. Reported(o) => Reported(o)'
    BY ReportedStays
  <2>2. CASE o = s
    BY <1>23, <2>1, <2>2, Apart
     DEF AsideOf, CompareRevision, Moves, Publishing, Roles, Shape, Unprotected,
           entryVars, serverVars
  <2>3. CASE o # s
    <3>1. work'[o] = work[o] /\ backup'[o] = backup[o]
      BY <1>23, <2>3, Apart
       DEF CompareRevision, Moves, Shape, entryVars, serverVars
    <3> QED
      BY <2>1, <3>1 DEF AsideOf
  <2> QED
    BY <2>2, <2>3
<1>24. ASSUME NEW s \in Saves, ProtectText(s) PROVE Aside'
  <2> SUFFICES ASSUME NEW o \in Operations PROVE AsideOf(o)'
    BY DEF Aside
  <2> AsideOf(o)
    BY DEF Aside
  <2>1. Reported(o) => Reported(o)'
    BY ReportedStays
  <2>2. CASE o = s
    BY <1>24, <2>1, <2>2, Apart
     DEF AsideOf, Asked, Moves, ProtectText, Publishing, Reported, Roles,
           SetAside, Shape, Unprotected, entryVars, serverVars
  <2>3. CASE o # s
    <3>1. work'[o] = work[o] /\ backup'[o] = backup[o]
      BY <1>24, <2>3, Apart
       DEF Asked, Moves, ProtectText, SetAside, Shape, entryVars, serverVars
    <3> QED
      BY <2>1, <3>1 DEF AsideOf
  <2> QED
    BY <2>2, <2>3
<1>25. ASSUME NEW s \in Saves, VerifyText(s) PROVE Aside'
  <2> SUFFICES ASSUME NEW o \in Operations PROVE AsideOf(o)'
    BY DEF Aside
  <2> AsideOf(o)
    BY DEF Aside
  <2>1. Reported(o) => Reported(o)'
    BY ReportedStays
  <2>2. CASE o = s
    BY <1>25, <2>1, <2>2, Apart
     DEF AsideOf, Moves, Publishing, Roles, Shape, Unprotected, VerifyText,
           entryVars, serverVars
  <2>3. CASE o # s
    <3>1. work'[o] = work[o] /\ backup'[o] = backup[o]
      BY <1>25, <2>3, Apart DEF Moves, Shape, VerifyText, entryVars, serverVars
    <3> QED
      BY <2>1, <3>1 DEF AsideOf
  <2> QED
    BY <2>2, <2>3
<1>26. ASSUME NEW s \in Saves, ReplaceText(s) PROVE Aside'
  <2> SUFFICES ASSUME NEW o \in Operations PROVE AsideOf(o)'
    BY DEF Aside
  <2> AsideOf(o)
    BY DEF Aside
  <2>1. Reported(o) => Reported(o)'
    BY ReportedStays
  <2>2. CASE o = s
    BY <1>26, <2>1, <2>2, Apart
     DEF AsideOf, Asked, Moves, Names, Publishing, PutInPlace, ReplaceText,
           Reported, Roles, SaveEnds, Shape, Unprotected, entryVars, serverVars
  <2>3. CASE o # s
    <3>1. work'[o] = work[o] /\ backup'[o] = backup[o]
      BY <1>26, <2>3, Apart
       DEF Asked, Moves, Names, PutInPlace, ReplaceText, SaveEnds, Shape,
             entryVars, serverVars
    <3> QED
      BY <2>1, <3>1 DEF AsideOf
  <2> QED
    BY <2>2, <2>3
<1>27. ASSUME NEW s \in Saves, RestoreText(s) PROVE Aside'
  <2> SUFFICES ASSUME NEW o \in Operations PROVE AsideOf(o)'
    BY DEF Aside
  <2> AsideOf(o)
    BY DEF Aside
  <2>1. Reported(o) => Reported(o)'
    BY ReportedStays
  <2>2. CASE o = s
    BY <1>27, <2>1, <2>2, Apart
     DEF AsideOf, Asked, Moves, Names, Publishing, PutBack, Reported, RestoreText,
           Roles, Shape, Unprotected, entryVars, serverVars
  <2>3. CASE o # s
    <3>1. work'[o] = work[o] /\ backup'[o] = backup[o]
      BY <1>27, <2>3, Apart
       DEF Asked, Moves, Names, PutBack, RestoreText, Shape, entryVars, serverVars
    <3> QED
      BY <2>1, <3>1 DEF AsideOf
  <2> QED
    BY <2>2, <2>3
<1>28. ASSUME NEW s \in Saves, CleanText(s) PROVE Aside'
  <2> SUFFICES ASSUME NEW o \in Operations PROVE AsideOf(o)'
    BY DEF Aside
  <2> AsideOf(o)
    BY DEF Aside
  <2>1. Reported(o) => Reported(o)'
    BY ReportedStays
  <2>2. CASE o = s
    BY <1>28, <2>1, <2>2, Apart
     DEF AsideOf, Asked, CleanText, Moves, Names, Publishing, Remove, Reported,
           Roles, SaveEnds, Shape, Unprotected, entryVars, serverVars
  <2>3. CASE o # s
    <3>1. work'[o] = work[o] /\ backup'[o] = backup[o]
      BY <1>28, <2>3, Apart
       DEF Asked, CleanText, Moves, Names, Remove, SaveEnds, Shape, entryVars,
             serverVars
    <3> QED
      BY <2>1, <3>1 DEF AsideOf
  <2> QED
    BY <2>2, <2>3
<1>29. ASSUME Outsider PROVE Aside'
  BY <1>1, <1>29 DEF Outsider, entryVars, serverVars
<1>30. CASE UNCHANGED fileVars
  BY <1>1, <1>30 DEF entryVars, fileVars, serverVars
<1> QED
  BY <1>1, <1>2, <1>3, <1>4, <1>5, <1>6, <1>7, <1>8, <1>9, <1>10, <1>11, <1>12,
     <1>13, <1>14, <1>15, <1>16, <1>17, <1>18, <1>19, <1>20, <1>21, <1>22, <1>23,
     <1>24, <1>25, <1>26, <1>27, <1>28, <1>29, <1>30
   DEF FilesNext, UploadStep, SaveStep

LEMMA HonestStep ==
    Shape /\ Roles /\ Shown /\ Private /\ (\A o \in Operations : Honest(o)) /\ [FilesNext]_fileVars
    => \A o \in Operations : Honest(o)'
<1> SUFFICES ASSUME Shape, Roles, Shown, Private, \A o \in Operations : Honest(o), [FilesNext]_fileVars 
      PROVE \A o \in Operations : Honest(o)'
  OBVIOUS
<1>1. CASE UNCHANGED <<transfer, work, told, unheard, placed, staging>>
  BY <1>1 DEF Honest, Settled, Shape
<1>2. ASSUME NEW u \in Uploads, BeginUpload(u) 
      PROVE \A o \in Operations : Honest(o)'
  <2> SUFFICES ASSUME NEW o \in Operations PROVE Honest(o)'
    OBVIOUS
  <2> Honest(o) /\ PrivateOf(o)
    BY DEF Private
  <2>1. CASE o = u
    BY <1>2, <2>1, Apart
     DEF BeginUpload, Cleaning, Honest, Locking, Moves, PrivateOf, Publishing,
           Roles, Settled, Shape, Shown, ShownOf, Unplaced, Whole, entryVars,
           serverVars
  <2>2. CASE o # u
    BY <1>2, <2>2, Apart
     DEF BeginUpload, Honest, Moves, Settled, Shape, entryVars, serverVars
  <2> QED
    BY <2>1, <2>2
<1>3. ASSUME NEW u \in Uploads, CreateUpload(u) 
      PROVE \A o \in Operations : Honest(o)'
  <2> SUFFICES ASSUME NEW o \in Operations PROVE Honest(o)'
    OBVIOUS
  <2> Honest(o) /\ PrivateOf(o)
    BY DEF Private
  <2>1. CASE o = u
    BY <1>3, <2>1, Apart
     DEF Asked, Cleaning, Create, CreateUpload, Honest, Locking, Moves, PrivateOf,
           Publishing, Roles, Settled, Shape, Shown, ShownOf, Unplaced, Whole,
           entryVars, serverVars
  <2>2. CASE o # u
    BY <1>3, <2>2, Apart
     DEF Asked, Create, CreateUpload, Honest, Moves, Settled, Shape, entryVars,
           serverVars
  <2> QED
    BY <2>1, <2>2
<1>4. ASSUME NEW u \in Uploads, BeginChunk(u) 
      PROVE \A o \in Operations : Honest(o)'
  <2> SUFFICES ASSUME NEW o \in Operations PROVE Honest(o)'
    OBVIOUS
  <2> Honest(o) /\ PrivateOf(o)
    BY DEF Private
  <2>1. CASE o = u
    BY <1>4, <2>1, Apart
     DEF BeginChunk, Cleaning, Honest, Locking, Moves, PrivateOf, Publishing,
           Roles, Settled, Shape, Shown, ShownOf, Unplaced, Whole, entryVars,
           serverVars
  <2>2. CASE o # u
    BY <1>4, <2>2, Apart
     DEF BeginChunk, Honest, Moves, Settled, Shape, entryVars, serverVars
  <2> QED
    BY <2>1, <2>2
<1>5. ASSUME NEW u \in Uploads, WriteUpload(u) 
      PROVE \A o \in Operations : Honest(o)'
  <2> SUFFICES ASSUME NEW o \in Operations PROVE Honest(o)'
    OBVIOUS
  <2> Honest(o) /\ PrivateOf(o)
    BY DEF Private
  <2>1. CASE o = u
    BY <1>5, <2>1, Apart
     DEF Cleaning, Honest, Locking, Moves, PrivateOf, Publishing, Release, Roles,
           Settled, Shape, Shown, ShownOf, Unplaced, Whole, WriteUpload, entryVars,
           serverVars
  <2>2. CASE o # u
    BY <1>5, <2>2, Apart
     DEF Honest, Moves, Release, Settled, Shape, WriteUpload, entryVars,
           serverVars
  <2> QED
    BY <2>1, <2>2
<1>6. ASSUME NEW u \in Uploads, BeginFinish(u) 
      PROVE \A o \in Operations : Honest(o)'
  <2> SUFFICES ASSUME NEW o \in Operations PROVE Honest(o)'
    OBVIOUS
  <2> Honest(o) /\ PrivateOf(o)
    BY DEF Private
  <2>1. CASE o = u
    BY <1>6, <2>1, Apart
     DEF BeginFinish, Cleaning, Honest, Locking, Moves, PrivateOf, Publishing,
           Roles, Settled, Shape, Shown, ShownOf, Unplaced, Whole, entryVars,
           serverVars
  <2>2. CASE o # u
    BY <1>6, <2>2, Apart
     DEF BeginFinish, Honest, Moves, Settled, Shape, entryVars, serverVars
  <2> QED
    BY <2>1, <2>2
<1>7. ASSUME NEW u \in Uploads, CloseUpload(u) 
      PROVE \A o \in Operations : Honest(o)'
  <2> SUFFICES ASSUME NEW o \in Operations PROVE Honest(o)'
    OBVIOUS
  <2> Honest(o) /\ PrivateOf(o)
    BY DEF Private
  <2>1. CASE o = u
    BY <1>7, <2>1, Apart
     DEF Cleaning, CloseUpload, Honest, Locking, Moves, PrivateOf, Publishing,
           Release, Roles, Settled, Shape, Shown, ShownOf, Unplaced, Whole,
           entryVars, serverVars
  <2>2. CASE o # u
    BY <1>7, <2>2, Apart
     DEF CloseUpload, Honest, Moves, Release, Settled, Shape, entryVars,
           serverVars
  <2> QED
    BY <2>1, <2>2
<1>8. ASSUME NEW u \in Uploads, LookForTarget(u) 
      PROVE \A o \in Operations : Honest(o)'
  <2> SUFFICES ASSUME NEW o \in Operations PROVE Honest(o)'
    OBVIOUS
  <2> Honest(o) /\ PrivateOf(o)
    BY DEF Private
  <2>1. CASE o = u
    BY <1>8, <2>1, Apart
     DEF Cleaning, Honest, Locking, LookForTarget, Moves, NotPublished, PrivateOf,
           Publishing, Release, Roles, Settled, Shape, Shown, ShownOf, Unplaced,
           Whole, entryVars, serverVars
  <2>2. CASE o # u
    BY <1>8, <2>2, Apart
     DEF Honest, LookForTarget, Moves, NotPublished, Release, Settled, Shape,
           entryVars, serverVars
  <2> QED
    BY <2>1, <2>2
<1>9. ASSUME NEW u \in Uploads, CompareTarget(u) 
      PROVE \A o \in Operations : Honest(o)'
  <2> SUFFICES ASSUME NEW o \in Operations PROVE Honest(o)'
    OBVIOUS
  <2> Honest(o) /\ PrivateOf(o)
    BY DEF Private
  <2>1. CASE o = u
    BY <1>9, <2>1, Apart
     DEF Cleaning, CompareTarget, Honest, Locking, Moves, NotPublished, PrivateOf,
           Publishing, Release, Roles, SameTarget, Settled, Shape, Shown, ShownOf,
           Unplaced, Whole, entryVars, serverVars
  <2>2. CASE o # u
    BY <1>9, <2>2, Apart
     DEF CompareTarget, Honest, Moves, NotPublished, Release, SameTarget, Settled,
           Shape, entryVars, serverVars
  <2> QED
    BY <2>1, <2>2
<1>10. ASSUME NEW u \in Uploads, PublishUpload(u) 
      PROVE \A o \in Operations : Honest(o)'
  <2> SUFFICES ASSUME NEW o \in Operations PROVE Honest(o)'
    OBVIOUS
  <2> Honest(o) /\ PrivateOf(o)
    BY DEF Private
  <2>1. CASE o = u
    BY <1>10, <2>1, Apart
     DEF Asked, Cleaning, Done, Honest, Locking, Moves, NotPublished, PrivateOf,
           PublishUpload, Publishing, PutInPlace, Release, Roles, Settled, Shape,
           Shown, ShownOf, Unplaced, Whole, entryVars, serverVars
  <2>2. CASE o # u
    <3>1. staging[u] = u
      BY <1>10, Apart DEF PublishUpload, Private, PrivateOf, Whole
    <3>2. (o \in placed') = (o \in placed) /\ staging'[o] = staging[o] /\ transfer'[o] = transfer[o]
      BY <1>10, <2>2, <3>1, Apart
       DEF Asked, Done, Moves, NotPublished, PublishUpload, PutInPlace, Release,
             Shape, entryVars, serverVars
    <3>3. told[o] \subseteq told'[o] /\ unheard \subseteq unheard'
      BY <1>10, <2>2, Apart
       DEF Asked, Done, Moves, NotPublished, PublishUpload, PutInPlace, Release,
             Shape, entryVars, serverVars
    <3>4. Settled(o)' => Settled(o)
      BY <1>10, <2>2, Apart
       DEF Asked, Done, Moves, NotPublished, PublishUpload, PutInPlace, Release,
             Shape, entryVars, serverVars, Settled
    <3> QED
      BY <3>1, <3>2, <3>3, <3>4 DEF Honest
  <2> QED
    BY <2>1, <2>2
<1>11. ASSUME NEW u \in Uploads, ProtectTarget(u) 
      PROVE \A o \in Operations : Honest(o)'
  <2> SUFFICES ASSUME NEW o \in Operations PROVE Honest(o)'
    OBVIOUS
  <2> Honest(o) /\ PrivateOf(o)
    BY DEF Private
  <2>1. CASE o = u
    BY <1>11, <2>1, Apart
     DEF Asked, Cleaning, Honest, Locking, Moves, NotPublished, PrivateOf,
           ProtectTarget, Publishing, Release, Roles, SetAside, Settled, Shape,
           Shown, ShownOf, Unplaced, Whole, entryVars, serverVars
  <2>2. CASE o # u
    BY <1>11, <2>2, Apart
     DEF Asked, Honest, Moves, NotPublished, ProtectTarget, Release, SetAside,
           Settled, Shape, entryVars, serverVars
  <2> QED
    BY <2>1, <2>2
<1>12. ASSUME NEW u \in Uploads, ReplaceTarget(u) 
      PROVE \A o \in Operations : Honest(o)'
  <2> SUFFICES ASSUME NEW o \in Operations PROVE Honest(o)'
    OBVIOUS
  <2> Honest(o) /\ PrivateOf(o)
    BY DEF Private
  <2>1. CASE o = u
    BY <1>12, <2>1, Apart
     DEF Asked, Cleaning, Honest, Locking, Moves, PrivateOf, Publishing,
           PutInPlace, ReplaceTarget, Roles, Settled, Shape, Shown, ShownOf,
           Unplaced, Whole, entryVars, serverVars
  <2>2. CASE o # u
    <3>1. staging[u] = u
      BY <1>12, Apart DEF ReplaceTarget, Private, PrivateOf, Whole
    <3>2. (o \in placed') = (o \in placed) /\ staging'[o] = staging[o] /\ transfer'[o] = transfer[o]
      BY <1>12, <2>2, <3>1, Apart
       DEF Asked, Moves, PutInPlace, ReplaceTarget, Shape, entryVars, serverVars
    <3>3. told[o] \subseteq told'[o] /\ unheard \subseteq unheard'
      BY <1>12, <2>2, Apart
       DEF Asked, Moves, PutInPlace, ReplaceTarget, Shape, entryVars, serverVars
    <3>4. Settled(o)' => Settled(o)
      BY <1>12, <2>2, Apart
       DEF Asked, Moves, PutInPlace, ReplaceTarget, Shape, entryVars, serverVars,
             Settled
    <3> QED
      BY <3>1, <3>2, <3>3, <3>4 DEF Honest
  <2> QED
    BY <2>1, <2>2
<1>13. ASSUME NEW u \in Uploads, RestoreTarget(u) 
      PROVE \A o \in Operations : Honest(o)'
  <2> SUFFICES ASSUME NEW o \in Operations PROVE Honest(o)'
    OBVIOUS
  <2> Honest(o) /\ PrivateOf(o)
    BY DEF Private
  <2>1. CASE o = u
    BY <1>13, <2>1, Apart
     DEF Asked, Cleaning, Honest, Locking, Moves, Names, NotPublished, PrivateOf,
           Publishing, PutBack, Release, RestoreTarget, Roles, Settled, Shape,
           Shown, ShownOf, Unplaced, Whole, entryVars, serverVars
  <2>2. CASE o # u
    BY <1>13, <2>2, Apart
     DEF Asked, Honest, Moves, Names, NotPublished, PutBack, Release,
           RestoreTarget, Settled, Shape, entryVars, serverVars
  <2> QED
    BY <2>1, <2>2
<1>14. ASSUME NEW u \in Uploads, DiscardBackup(u) 
      PROVE \A o \in Operations : Honest(o)'
  <2> SUFFICES ASSUME NEW o \in Operations PROVE Honest(o)'
    OBVIOUS
  <2> Honest(o) /\ PrivateOf(o)
    BY DEF Private
  <2>1. CASE o = u
    BY <1>14, <2>1, Apart
     DEF Asked, Cleaning, DiscardBackup, Done, Honest, Locking, Moves, Names,
           PrivateOf, Publishing, Release, Roles, Settled, Shape, Shown, ShownOf,
           Unplaced, Whole, entryVars, serverVars
  <2>2. CASE o # u
    BY <1>14, <2>2, Apart
     DEF Asked, DiscardBackup, Done, Honest, Moves, Names, Release, Settled,
           Shape, entryVars, serverVars
  <2> QED
    BY <2>1, <2>2
<1>15. ASSUME NEW u \in Uploads, CancelUpload(u) 
      PROVE \A o \in Operations : Honest(o)'
  <2> SUFFICES ASSUME NEW o \in Operations PROVE Honest(o)'
    OBVIOUS
  <2> Honest(o) /\ PrivateOf(o)
    BY DEF Private
  <2>1. CASE o = u
    BY <1>15, <2>1, Apart
     DEF CancelUpload, Cleaning, Honest, Locking, Moves, PrivateOf, Publishing,
           Roles, Settled, Shape, Shown, ShownOf, Unplaced, Whole, entryVars,
           serverVars
  <2>2. CASE o # u
    BY <1>15, <2>2, Apart
     DEF CancelUpload, Honest, Moves, Settled, Shape, entryVars, serverVars
  <2> QED
    BY <2>1, <2>2
<1>16. ASSUME NEW u \in Uploads, NEW t \in {u, Cancels(u)}, AbortUpload(t) 
      PROVE \A o \in Operations : Honest(o)'
  <2> SUFFICES ASSUME NEW o \in Operations PROVE Honest(o)'
    OBVIOUS
  <2> Honest(o) /\ PrivateOf(o)
    BY DEF Private
  <2>1. CASE o = u
    BY <1>16, <2>1, Apart
     DEF AbortUpload, Cleaning, Honest, Locking, Moves, PrivateOf, Publishing,
           Roles, Settled, Shape, Shown, ShownOf, Unplaced, Whole, entryVars,
           serverVars
  <2>2. CASE o # u
    BY <1>16, <2>2, Apart
     DEF AbortUpload, Honest, Moves, Names, Settled, Shape, entryVars, serverVars
  <2> QED
    BY <2>1, <2>2
<1>17. ASSUME NEW u \in Uploads, NEW t \in {u, Cancels(u)}, CloseAborted(t) 
      PROVE \A o \in Operations : Honest(o)'
  <2> SUFFICES ASSUME NEW o \in Operations PROVE Honest(o)'
    OBVIOUS
  <2> Honest(o) /\ PrivateOf(o)
    BY DEF Private
  <2>1. CASE o = u
    BY <1>17, <2>1, Apart
     DEF Cleaning, CloseAborted, Honest, Locking, Moves, PrivateOf, Publishing,
           Release, Roles, Settled, Shape, Shown, ShownOf, Unplaced, Whole,
           entryVars, serverVars
  <2>2. CASE o # u
    BY <1>17, <2>2, Apart
     DEF CloseAborted, Honest, Moves, Release, Settled, Shape, entryVars,
           serverVars
  <2> QED
    BY <2>1, <2>2
<1>18. ASSUME NEW u \in Uploads, NEW t \in {u, Cancels(u)}, RemoveStaging(t) 
      PROVE \A o \in Operations : Honest(o)'
  <2> SUFFICES ASSUME NEW o \in Operations PROVE Honest(o)'
    OBVIOUS
  <2> Honest(o) /\ PrivateOf(o)
    BY DEF Private
  <2>1. CASE o = u
    BY <1>18, <2>1, Apart
     DEF Asked, Cleaning, Honest, Locking, Moves, Names, PrivateOf, Publishing,
           Remove, RemoveStaging, Roles, Settled, Shape, Shown, ShownOf, Unplaced,
           Whole, entryVars, serverVars
  <2>2. CASE o # u
    BY <1>18, <2>2, Apart
     DEF Asked, Honest, Moves, Names, Remove, RemoveStaging, Settled, Shape,
           entryVars, serverVars
  <2> QED
    BY <2>1, <2>2
<1>19. ASSUME NEW s \in Saves, OpenText(s) 
      PROVE \A o \in Operations : Honest(o)'
  <2> SUFFICES ASSUME NEW o \in Operations PROVE Honest(o)'
    OBVIOUS
  <2> Honest(o) /\ PrivateOf(o)
    BY DEF Private
  <2>1. CASE o = s
    BY <1>19, <2>1, Apart
     DEF Cleaning, Honest, Locking, Moves, OpenText, PrivateOf, Publishing, Roles,
           Settled, Shape, Shown, ShownOf, Unplaced, Whole, entryVars, serverVars
  <2>2. CASE o # s
    BY <1>19, <2>2, Apart
     DEF Honest, Moves, OpenText, Settled, Shape, entryVars, serverVars
  <2> QED
    BY <2>1, <2>2
<1>20. ASSUME NEW s \in Saves, SaveText(s) 
      PROVE \A o \in Operations : Honest(o)'
  <2> SUFFICES ASSUME NEW o \in Operations PROVE Honest(o)'
    OBVIOUS
  <2> Honest(o) /\ PrivateOf(o)
    BY DEF Private
  <2>1. CASE o = s
    BY <1>20, <2>1, Apart
     DEF Cleaning, Honest, Locking, Moves, PrivateOf, Publishing, Roles, SaveText,
           Settled, Shape, Shown, ShownOf, Unplaced, Whole, entryVars, serverVars
  <2>2. CASE o # s
    BY <1>20, <2>2, Apart
     DEF Honest, Moves, SaveText, Settled, Shape, entryVars, serverVars
  <2> QED
    BY <2>1, <2>2
<1>21. ASSUME NEW s \in Saves, ReadRevision(s) 
      PROVE \A o \in Operations : Honest(o)'
  <2> SUFFICES ASSUME NEW o \in Operations PROVE Honest(o)'
    OBVIOUS
  <2> Honest(o) /\ PrivateOf(o)
    BY DEF Private
  <2>1. CASE o = s
    BY <1>21, <2>1, Apart
     DEF Cleaning, Honest, Locking, Moves, PrivateOf, Publishing, ReadRevision,
           Roles, SaveEnds, Settled, Shape, Shown, ShownOf, Unplaced, Whole,
           entryVars, serverVars
  <2>2. CASE o # s
    BY <1>21, <2>2, Apart
     DEF Honest, Moves, ReadRevision, SaveEnds, Settled, Shape, entryVars,
           serverVars
  <2> QED
    BY <2>1, <2>2
<1>22. ASSUME NEW s \in Saves, StageText(s) 
      PROVE \A o \in Operations : Honest(o)'
  <2> SUFFICES ASSUME NEW o \in Operations PROVE Honest(o)'
    OBVIOUS
  <2> Honest(o) /\ PrivateOf(o)
    BY DEF Private
  <2>1. CASE o = s
    BY <1>22, <2>1, Apart
     DEF Asked, Cleaning, Create, Honest, Locking, Moves, PrivateOf, Publishing,
           Roles, SaveEnds, Settled, Shape, Shown, ShownOf, StageText, Unplaced,
           Whole, entryVars, serverVars
  <2>2. CASE o # s
    BY <1>22, <2>2, Apart
     DEF Asked, Create, Honest, Moves, SaveEnds, Settled, Shape, StageText,
           entryVars, serverVars
  <2> QED
    BY <2>1, <2>2
<1>23. ASSUME NEW s \in Saves, CompareRevision(s) 
      PROVE \A o \in Operations : Honest(o)'
  <2> SUFFICES ASSUME NEW o \in Operations PROVE Honest(o)'
    OBVIOUS
  <2> Honest(o) /\ PrivateOf(o)
    BY DEF Private
  <2>1. CASE o = s
    BY <1>23, <2>1, Apart
     DEF Cleaning, CompareRevision, Honest, Locking, Moves, PrivateOf, Publishing,
           Roles, Settled, Shape, Shown, ShownOf, Unplaced, Whole, entryVars,
           serverVars
  <2>2. CASE o # s
    BY <1>23, <2>2, Apart
     DEF CompareRevision, Honest, Moves, Settled, Shape, entryVars, serverVars
  <2> QED
    BY <2>1, <2>2
<1>24. ASSUME NEW s \in Saves, ProtectText(s) 
      PROVE \A o \in Operations : Honest(o)'
  <2> SUFFICES ASSUME NEW o \in Operations PROVE Honest(o)'
    OBVIOUS
  <2> Honest(o) /\ PrivateOf(o)
    BY DEF Private
  <2>1. CASE o = s
    BY <1>24, <2>1, Apart
     DEF Asked, Cleaning, Honest, Locking, Moves, PrivateOf, ProtectText,
           Publishing, Roles, SetAside, Settled, Shape, Shown, ShownOf, Unplaced,
           Whole, entryVars, serverVars
  <2>2. CASE o # s
    BY <1>24, <2>2, Apart
     DEF Asked, Honest, Moves, ProtectText, SetAside, Settled, Shape, entryVars,
           serverVars
  <2> QED
    BY <2>1, <2>2
<1>25. ASSUME NEW s \in Saves, VerifyText(s) 
      PROVE \A o \in Operations : Honest(o)'
  <2> SUFFICES ASSUME NEW o \in Operations PROVE Honest(o)'
    OBVIOUS
  <2> Honest(o) /\ PrivateOf(o)
    BY DEF Private
  <2>1. CASE o = s
    BY <1>25, <2>1, Apart
     DEF Cleaning, Honest, Locking, Moves, PrivateOf, Publishing, Roles, Settled,
           Shape, Shown, ShownOf, Unplaced, VerifyText, Whole, entryVars, serverVars
  <2>2. CASE o # s
    BY <1>25, <2>2, Apart
     DEF Honest, Moves, Settled, Shape, VerifyText, entryVars, serverVars
  <2> QED
    BY <2>1, <2>2
<1>26. ASSUME NEW s \in Saves, ReplaceText(s) 
      PROVE \A o \in Operations : Honest(o)'
  <2> SUFFICES ASSUME NEW o \in Operations PROVE Honest(o)'
    OBVIOUS
  <2> Honest(o) /\ PrivateOf(o)
    BY DEF Private
  <2>1. CASE o = s
    BY <1>26, <2>1, Apart
     DEF Asked, Cleaning, Honest, Locking, Moves, Names, PrivateOf, Publishing,
           PutInPlace, ReplaceText, Roles, SaveEnds, Settled, Shape, Shown, ShownOf,
           Unplaced, Whole, entryVars, serverVars
  <2>2. CASE o # s
    <3>1. staging[s] = s
      BY <1>26, Apart DEF ReplaceText, Private, PrivateOf, Whole
    <3>2. (o \in placed') = (o \in placed) /\ staging'[o] = staging[o] /\ transfer'[o] = transfer[o]
      BY <1>26, <2>2, <3>1, Apart
       DEF Asked, Moves, Names, PutInPlace, ReplaceText, SaveEnds, Shape,
             entryVars, serverVars
    <3>3. told[o] \subseteq told'[o] /\ unheard \subseteq unheard'
      BY <1>26, <2>2, Apart
       DEF Asked, Moves, Names, PutInPlace, ReplaceText, SaveEnds, Shape,
             entryVars, serverVars
    <3>4. Settled(o)' => Settled(o)
      BY <1>26, <2>2, Apart
       DEF Asked, Moves, Names, PutInPlace, ReplaceText, SaveEnds, Shape,
             entryVars, serverVars, Settled
    <3> QED
      BY <3>1, <3>2, <3>3, <3>4 DEF Honest
  <2> QED
    BY <2>1, <2>2
<1>27. ASSUME NEW s \in Saves, RestoreText(s) 
      PROVE \A o \in Operations : Honest(o)'
  <2> SUFFICES ASSUME NEW o \in Operations PROVE Honest(o)'
    OBVIOUS
  <2> Honest(o) /\ PrivateOf(o)
    BY DEF Private
  <2>1. CASE o = s
    BY <1>27, <2>1, Apart
     DEF Asked, Cleaning, Honest, Locking, Moves, Names, PrivateOf, Publishing,
           PutBack, RestoreText, Roles, Settled, Shape, Shown, ShownOf, Unplaced,
           Whole, entryVars, serverVars
  <2>2. CASE o # s
    BY <1>27, <2>2, Apart
     DEF Asked, Honest, Moves, Names, PutBack, RestoreText, Settled, Shape,
           entryVars, serverVars
  <2> QED
    BY <2>1, <2>2
<1>28. ASSUME NEW s \in Saves, CleanText(s) 
      PROVE \A o \in Operations : Honest(o)'
  <2> SUFFICES ASSUME NEW o \in Operations PROVE Honest(o)'
    OBVIOUS
  <2> Honest(o) /\ PrivateOf(o)
    BY DEF Private
  <2>1. CASE o = s
    BY <1>28, <2>1, Apart
     DEF Asked, CleanText, Cleaning, Honest, Locking, Moves, Names, PrivateOf,
           Publishing, Remove, Roles, SaveEnds, Settled, Shape, Shown, ShownOf,
           Unplaced, Whole, entryVars, serverVars
  <2>2. CASE o # s
    BY <1>28, <2>2, Apart
     DEF Asked, CleanText, Honest, Moves, Names, Remove, SaveEnds, Settled, Shape,
           entryVars, serverVars
  <2> QED
    BY <2>1, <2>2
<1>29. ASSUME Outsider 
      PROVE \A o \in Operations : Honest(o)'
  <2> SUFFICES ASSUME NEW o \in Operations PROVE Honest(o)'
    OBVIOUS
  <2>1. (o \in placed') = (o \in placed)
    BY <1>29, Apart DEF Outsider
  <2>2. Settled(o)' = Settled(o)
    BY <1>29 DEF Outsider, Settled
  <2> QED
    BY <1>29, <2>1, <2>2 DEF Outsider, Honest, entryVars
<1>30. CASE UNCHANGED fileVars
  BY <1>1, <1>30 DEF entryVars, fileVars, serverVars
<1> QED
  BY <1>1, <1>2, <1>3, <1>4, <1>5, <1>6, <1>7, <1>8, <1>9, <1>10, <1>11, <1>12,
     <1>13, <1>14, <1>15, <1>16, <1>17, <1>18, <1>19, <1>20, <1>21, <1>22, <1>23,
     <1>24, <1>25, <1>26, <1>27, <1>28, <1>29, <1>30
   DEF FilesNext, UploadStep, SaveStep

LEMMA AgreedStays ==
    Shape /\ Shown /\ [FilesNext]_fileVars => \A v : Agreed(v) => Agreed(v)'
<1> SUFFICES ASSUME Shape, Shown, [FilesNext]_fileVars PROVE \A v : Agreed(v) => Agreed(v)'
  OBVIOUS
<1>1. CASE UNCHANGED <<seen, transfer>>
  BY <1>1 DEF Agreed, Locking, Publishing, Shape, Shown, ShownOf
<1>2. ASSUME NEW u \in Uploads, BeginUpload(u) PROVE \A v : Agreed(v) => Agreed(v)'
  BY <1>2, Apart
   DEF Agreed, BeginUpload, Locking, Moves, Publishing, Shape, Shown, ShownOf,
         entryVars, serverVars
<1>3. ASSUME NEW u \in Uploads, CreateUpload(u) PROVE \A v : Agreed(v) => Agreed(v)'
  BY <1>3, Apart
   DEF Agreed, Asked, Create, CreateUpload, Locking, Moves, Publishing, Shape,
         Shown, ShownOf, entryVars, serverVars
<1>4. ASSUME NEW u \in Uploads, BeginChunk(u) PROVE \A v : Agreed(v) => Agreed(v)'
  BY <1>1, <1>4 DEF BeginChunk, Moves, entryVars, serverVars
<1>5. ASSUME NEW u \in Uploads, WriteUpload(u) PROVE \A v : Agreed(v) => Agreed(v)'
  BY <1>1, <1>5 DEF Moves, Release, WriteUpload, entryVars, serverVars
<1>6. ASSUME NEW u \in Uploads, BeginFinish(u) PROVE \A v : Agreed(v) => Agreed(v)'
  BY <1>1, <1>6 DEF BeginFinish, Moves, entryVars, serverVars
<1>7. ASSUME NEW u \in Uploads, CloseUpload(u) PROVE \A v : Agreed(v) => Agreed(v)'
  BY <1>1, <1>7 DEF CloseUpload, Moves, Release, entryVars, serverVars
<1>8. ASSUME NEW u \in Uploads, LookForTarget(u) PROVE \A v : Agreed(v) => Agreed(v)'
  BY <1>1, <1>8
   DEF LookForTarget, Moves, NotPublished, Release, entryVars, serverVars
<1>9. ASSUME NEW u \in Uploads, CompareTarget(u) PROVE \A v : Agreed(v) => Agreed(v)'
  BY <1>1, <1>9
   DEF CompareTarget, Moves, NotPublished, Release, SameTarget, entryVars,
         serverVars
<1>10. ASSUME NEW u \in Uploads, PublishUpload(u) PROVE \A v : Agreed(v) => Agreed(v)'
  BY <1>10, Apart
   DEF Agreed, Asked, Done, Locking, Moves, NotPublished, PublishUpload,
         Publishing, PutInPlace, Release, Shape, Shown, ShownOf, entryVars,
         serverVars
<1>11. ASSUME NEW u \in Uploads, ProtectTarget(u) PROVE \A v : Agreed(v) => Agreed(v)'
  BY <1>1, <1>11
   DEF Asked, Moves, NotPublished, ProtectTarget, Release, SetAside, entryVars,
         serverVars
<1>12. ASSUME NEW u \in Uploads, ReplaceTarget(u) PROVE \A v : Agreed(v) => Agreed(v)'
  BY <1>1, <1>12
   DEF Asked, Moves, PutInPlace, ReplaceTarget, entryVars, serverVars
<1>13. ASSUME NEW u \in Uploads, RestoreTarget(u) PROVE \A v : Agreed(v) => Agreed(v)'
  BY <1>1, <1>13
   DEF Asked, Moves, Names, NotPublished, PutBack, Release, RestoreTarget,
         entryVars, serverVars
<1>14. ASSUME NEW u \in Uploads, DiscardBackup(u) PROVE \A v : Agreed(v) => Agreed(v)'
  BY <1>14, Apart
   DEF Agreed, Asked, DiscardBackup, Done, Locking, Moves, Names, Publishing,
         Release, Shape, Shown, ShownOf, entryVars, serverVars
<1>15. ASSUME NEW u \in Uploads, CancelUpload(u) PROVE \A v : Agreed(v) => Agreed(v)'
  BY <1>1, <1>15 DEF CancelUpload, Moves, entryVars, serverVars
<1>16. ASSUME NEW u \in Uploads, NEW t \in {u, Cancels(u)}, AbortUpload(t) PROVE \A v : Agreed(v) => Agreed(v)'
  BY <1>16, Apart
   DEF AbortUpload, Agreed, Locking, Moves, Publishing, Shape, Shown, ShownOf,
         entryVars, serverVars
<1>17. ASSUME NEW u \in Uploads, NEW t \in {u, Cancels(u)}, CloseAborted(t) PROVE \A v : Agreed(v) => Agreed(v)'
  BY <1>1, <1>17 DEF CloseAborted, Moves, Release, entryVars, serverVars
<1>18. ASSUME NEW u \in Uploads, NEW t \in {u, Cancels(u)}, RemoveStaging(t) PROVE \A v : Agreed(v) => Agreed(v)'
  BY <1>1, <1>18
   DEF Asked, Moves, Names, Remove, RemoveStaging, entryVars, serverVars
<1>19. ASSUME NEW s \in Saves, OpenText(s) PROVE \A v : Agreed(v) => Agreed(v)'
  BY <1>19, Apart
   DEF Agreed, Locking, Moves, OpenText, Publishing, Shape, Shown, ShownOf,
         entryVars, serverVars
<1>20. ASSUME NEW s \in Saves, SaveText(s) PROVE \A v : Agreed(v) => Agreed(v)'
  BY <1>1, <1>20 DEF Moves, SaveText, entryVars, serverVars
<1>21. ASSUME NEW s \in Saves, ReadRevision(s) PROVE \A v : Agreed(v) => Agreed(v)'
  BY <1>21, Apart
   DEF Agreed, Locking, Moves, Publishing, ReadRevision, SaveEnds, Shape, Shown,
         ShownOf, entryVars, serverVars
<1>22. ASSUME NEW s \in Saves, StageText(s) PROVE \A v : Agreed(v) => Agreed(v)'
  BY <1>22, Apart
   DEF Agreed, Asked, Create, Locking, Moves, Publishing, SaveEnds, Shape, Shown,
         ShownOf, StageText, entryVars, serverVars
<1>23. ASSUME NEW s \in Saves, CompareRevision(s) PROVE \A v : Agreed(v) => Agreed(v)'
  BY <1>1, <1>23 DEF CompareRevision, Moves, entryVars, serverVars
<1>24. ASSUME NEW s \in Saves, ProtectText(s) PROVE \A v : Agreed(v) => Agreed(v)'
  BY <1>1, <1>24 DEF Asked, Moves, ProtectText, SetAside, entryVars, serverVars
<1>25. ASSUME NEW s \in Saves, VerifyText(s) PROVE \A v : Agreed(v) => Agreed(v)'
  BY <1>1, <1>25 DEF Moves, VerifyText, entryVars, serverVars
<1>26. ASSUME NEW s \in Saves, ReplaceText(s) PROVE \A v : Agreed(v) => Agreed(v)'
  BY <1>26, Apart
   DEF Agreed, Asked, Locking, Moves, Names, Publishing, PutInPlace, ReplaceText,
         SaveEnds, Shape, Shown, ShownOf, entryVars, serverVars
<1>27. ASSUME NEW s \in Saves, RestoreText(s) PROVE \A v : Agreed(v) => Agreed(v)'
  BY <1>1, <1>27
   DEF Asked, Moves, Names, PutBack, RestoreText, entryVars, serverVars
<1>28. ASSUME NEW s \in Saves, CleanText(s) PROVE \A v : Agreed(v) => Agreed(v)'
  BY <1>28, Apart
   DEF Agreed, Asked, CleanText, Locking, Moves, Names, Publishing, Remove,
         SaveEnds, Shape, Shown, ShownOf, entryVars, serverVars
<1>29. ASSUME Outsider PROVE \A v : Agreed(v) => Agreed(v)'
  BY <1>1, <1>29 DEF Outsider, entryVars, serverVars
<1>30. CASE UNCHANGED fileVars
  BY <1>1, <1>30 DEF entryVars, fileVars, serverVars
<1> QED
  BY <1>1, <1>2, <1>3, <1>4, <1>5, <1>6, <1>7, <1>8, <1>9, <1>10, <1>11, <1>12,
     <1>13, <1>14, <1>15, <1>16, <1>17, <1>18, <1>19, <1>20, <1>21, <1>22, <1>23,
     <1>24, <1>25, <1>26, <1>27, <1>28, <1>29, <1>30
   DEF FilesNext, UploadStep, SaveStep

LEMMA SomewhereStep == Shape /\ Shown /\ Aside /\ AsSeen /\ Somewhere /\ [FilesNext]_fileVars => Somewhere'
<1> SUFFICES ASSUME Shape, Shown, Aside, AsSeen, Somewhere, [FilesNext]_fileVars PROVE Somewhere'
  OBVIOUS
<1>1. CASE UNCHANGED <<target, placed, outside, backup>>
  BY <1>1, AgreedStays DEF Somewhere
<1>2. ASSUME NEW u \in Uploads, BeginUpload(u) PROVE Somewhere'
  BY <1>1, <1>2 DEF BeginUpload, Moves, entryVars, serverVars
<1>3. ASSUME NEW u \in Uploads, CreateUpload(u) PROVE Somewhere'
  BY <1>1, <1>3 DEF Asked, Create, CreateUpload, Moves, entryVars, serverVars
<1>4. ASSUME NEW u \in Uploads, BeginChunk(u) PROVE Somewhere'
  BY <1>1, <1>4 DEF BeginChunk, Moves, entryVars, serverVars
<1>5. ASSUME NEW u \in Uploads, WriteUpload(u) PROVE Somewhere'
  BY <1>1, <1>5 DEF Moves, Release, WriteUpload, entryVars, serverVars
<1>6. ASSUME NEW u \in Uploads, BeginFinish(u) PROVE Somewhere'
  BY <1>1, <1>6 DEF BeginFinish, Moves, entryVars, serverVars
<1>7. ASSUME NEW u \in Uploads, CloseUpload(u) PROVE Somewhere'
  BY <1>1, <1>7 DEF CloseUpload, Moves, Release, entryVars, serverVars
<1>8. ASSUME NEW u \in Uploads, LookForTarget(u) PROVE Somewhere'
  BY <1>1, <1>8
   DEF LookForTarget, Moves, NotPublished, Release, entryVars, serverVars
<1>9. ASSUME NEW u \in Uploads, CompareTarget(u) PROVE Somewhere'
  BY <1>1, <1>9
   DEF CompareTarget, Moves, NotPublished, Release, SameTarget, entryVars,
         serverVars
<1>10. ASSUME NEW u \in Uploads, PublishUpload(u) PROVE Somewhere'
  <2> SUFFICES ASSUME NEW v \in placed' \ outside'
      PROVE  v = target' \/ Agreed(v)' \/ \E o \in Operations : backup'[o] = v
    BY DEF Somewhere
  <2>1. Agreed(v) => Agreed(v)'
    BY AgreedStays
  <2>2. v \in placed \/ v = target'
    BY <1>10
     DEF Asked, Done, Moves, NotPublished, PublishUpload, PutInPlace, Release,
           Shape, entryVars, serverVars
  <2>3. v \in placed \ outside => v = target \/ Agreed(v) \/ \E o \in Operations : backup[o] = v
    BY DEF Somewhere
  <2> QED
    BY <1>10, <2>1, <2>2, <2>3, Apart
     DEF Asked, Done, Moves, NotPublished, PublishUpload, PutInPlace, Release,
           Shape, entryVars, serverVars
<1>11. ASSUME NEW u \in Uploads, ProtectTarget(u) PROVE Somewhere'
  <2> SUFFICES ASSUME NEW v \in placed' \ outside'
      PROVE  v = target' \/ Agreed(v)' \/ \E o \in Operations : backup'[o] = v
    BY DEF Somewhere
  <2>1. Agreed(v) => Agreed(v)'
    BY AgreedStays
  <2>2. v \in placed \/ v = target'
    BY <1>11
     DEF Asked, Moves, NotPublished, ProtectTarget, Release, SetAside, Shape,
           entryVars, serverVars
  <2>3. v \in placed \ outside => v = target \/ Agreed(v) \/ \E o \in Operations : backup[o] = v
    BY DEF Somewhere
  <2> QED
    BY <1>11, <2>1, <2>2, <2>3, Apart
     DEF Asked, Moves, NotPublished, ProtectTarget, Release, SetAside, Shape,
           entryVars, serverVars, Aside, AsideOf, Unprotected
<1>12. ASSUME NEW u \in Uploads, ReplaceTarget(u) PROVE Somewhere'
  <2> SUFFICES ASSUME NEW v \in placed' \ outside'
      PROVE  v = target' \/ Agreed(v)' \/ \E o \in Operations : backup'[o] = v
    BY DEF Somewhere
  <2>1. Agreed(v) => Agreed(v)'
    BY AgreedStays
  <2>2. v \in placed \/ v = target'
    BY <1>12
     DEF Asked, Moves, PutInPlace, ReplaceTarget, Shape, entryVars, serverVars
  <2>3. v \in placed \ outside => v = target \/ Agreed(v) \/ \E o \in Operations : backup[o] = v
    BY DEF Somewhere
  <2> QED
    BY <1>12, <2>1, <2>2, <2>3, Apart
     DEF Asked, Moves, PutInPlace, ReplaceTarget, Shape, entryVars, serverVars
<1>13. ASSUME NEW u \in Uploads, RestoreTarget(u) PROVE Somewhere'
  <2> SUFFICES ASSUME NEW v \in placed' \ outside'
      PROVE  v = target' \/ Agreed(v)' \/ \E o \in Operations : backup'[o] = v
    BY DEF Somewhere
  <2>1. Agreed(v) => Agreed(v)'
    BY AgreedStays
  <2>2. v \in placed \/ v = target'
    BY <1>13
     DEF Asked, Moves, Names, NotPublished, PutBack, Release, RestoreTarget,
           Shape, entryVars, serverVars
  <2>3. v \in placed \ outside => v = target \/ Agreed(v) \/ \E o \in Operations : backup[o] = v
    BY DEF Somewhere
  <2> QED
    BY <1>13, <2>1, <2>2, <2>3, Apart
     DEF Asked, Moves, Names, NotPublished, PutBack, Release, RestoreTarget,
           Shape, entryVars, serverVars
<1>14. ASSUME NEW u \in Uploads, DiscardBackup(u) PROVE Somewhere'
  <2> SUFFICES ASSUME NEW v \in placed' \ outside'
      PROVE  v = target' \/ Agreed(v)' \/ \E o \in Operations : backup'[o] = v
    BY DEF Somewhere
  <2>1. Agreed(v) => Agreed(v)'
    BY AgreedStays
  <2>2. v \in placed \/ v = target'
    BY <1>14
     DEF Asked, DiscardBackup, Done, Moves, Names, Release, Shape, entryVars,
           serverVars
  <2>3. v \in placed \ outside => v = target \/ Agreed(v) \/ \E o \in Operations : backup[o] = v
    BY DEF Somewhere
  <2> QED
    BY <1>14, <2>1, <2>2, <2>3, Apart
     DEF Asked, DiscardBackup, Done, Moves, Names, Release, Shape, entryVars,
           serverVars, AsSeen, Agreed
<1>15. ASSUME NEW u \in Uploads, CancelUpload(u) PROVE Somewhere'
  BY <1>1, <1>15 DEF CancelUpload, Moves, entryVars, serverVars
<1>16. ASSUME NEW u \in Uploads, NEW t \in {u, Cancels(u)}, AbortUpload(t) PROVE Somewhere'
  BY <1>1, <1>16 DEF AbortUpload, Moves, entryVars, serverVars
<1>17. ASSUME NEW u \in Uploads, NEW t \in {u, Cancels(u)}, CloseAborted(t) PROVE Somewhere'
  BY <1>1, <1>17 DEF CloseAborted, Moves, Release, entryVars, serverVars
<1>18. ASSUME NEW u \in Uploads, NEW t \in {u, Cancels(u)}, RemoveStaging(t) PROVE Somewhere'
  BY <1>1, <1>18
   DEF Asked, Moves, Names, Remove, RemoveStaging, entryVars, serverVars
<1>19. ASSUME NEW s \in Saves, OpenText(s) PROVE Somewhere'
  BY <1>1, <1>19 DEF Moves, OpenText, entryVars, serverVars
<1>20. ASSUME NEW s \in Saves, SaveText(s) PROVE Somewhere'
  BY <1>1, <1>20 DEF Moves, SaveText, entryVars, serverVars
<1>21. ASSUME NEW s \in Saves, ReadRevision(s) PROVE Somewhere'
  BY <1>1, <1>21 DEF Moves, ReadRevision, SaveEnds, entryVars, serverVars
<1>22. ASSUME NEW s \in Saves, StageText(s) PROVE Somewhere'
  BY <1>1, <1>22
   DEF Asked, Create, Moves, SaveEnds, StageText, entryVars, serverVars
<1>23. ASSUME NEW s \in Saves, CompareRevision(s) PROVE Somewhere'
  BY <1>1, <1>23 DEF CompareRevision, Moves, entryVars, serverVars
<1>24. ASSUME NEW s \in Saves, ProtectText(s) PROVE Somewhere'
  <2> SUFFICES ASSUME NEW v \in placed' \ outside'
      PROVE  v = target' \/ Agreed(v)' \/ \E o \in Operations : backup'[o] = v
    BY DEF Somewhere
  <2>1. Agreed(v) => Agreed(v)'
    BY AgreedStays
  <2>2. v \in placed \/ v = target'
    BY <1>24 DEF Asked, Moves, ProtectText, SetAside, Shape, entryVars, serverVars
  <2>3. v \in placed \ outside => v = target \/ Agreed(v) \/ \E o \in Operations : backup[o] = v
    BY DEF Somewhere
  <2> QED
    BY <1>24, <2>1, <2>2, <2>3, Apart
     DEF Asked, Moves, ProtectText, SetAside, Shape, entryVars, serverVars, Aside,
           AsideOf, Unprotected
<1>25. ASSUME NEW s \in Saves, VerifyText(s) PROVE Somewhere'
  BY <1>1, <1>25 DEF Moves, VerifyText, entryVars, serverVars
<1>26. ASSUME NEW s \in Saves, ReplaceText(s) PROVE Somewhere'
  <2> SUFFICES ASSUME NEW v \in placed' \ outside'
      PROVE  v = target' \/ Agreed(v)' \/ \E o \in Operations : backup'[o] = v
    BY DEF Somewhere
  <2>1. Agreed(v) => Agreed(v)'
    BY AgreedStays
  <2>2. v \in placed \/ v = target'
    BY <1>26
     DEF Asked, Moves, Names, PutInPlace, ReplaceText, SaveEnds, Shape, entryVars,
           serverVars
  <2>3. v \in placed \ outside => v = target \/ Agreed(v) \/ \E o \in Operations : backup[o] = v
    BY DEF Somewhere
  <2> QED
    BY <1>26, <2>1, <2>2, <2>3, Apart
     DEF Asked, Moves, Names, PutInPlace, ReplaceText, SaveEnds, Shape, entryVars,
           serverVars
<1>27. ASSUME NEW s \in Saves, RestoreText(s) PROVE Somewhere'
  <2> SUFFICES ASSUME NEW v \in placed' \ outside'
      PROVE  v = target' \/ Agreed(v)' \/ \E o \in Operations : backup'[o] = v
    BY DEF Somewhere
  <2>1. Agreed(v) => Agreed(v)'
    BY AgreedStays
  <2>2. v \in placed \/ v = target'
    BY <1>27
     DEF Asked, Moves, Names, PutBack, RestoreText, Shape, entryVars, serverVars
  <2>3. v \in placed \ outside => v = target \/ Agreed(v) \/ \E o \in Operations : backup[o] = v
    BY DEF Somewhere
  <2> QED
    BY <1>27, <2>1, <2>2, <2>3, Apart
     DEF Asked, Moves, Names, PutBack, RestoreText, Shape, entryVars, serverVars
<1>28. ASSUME NEW s \in Saves, CleanText(s) PROVE Somewhere'
  BY <1>1, <1>28
   DEF Asked, CleanText, Moves, Names, Remove, SaveEnds, entryVars, serverVars
<1>29. ASSUME Outsider PROVE Somewhere'
  <2> SUFFICES ASSUME NEW v \in placed' \ outside'
      PROVE  v = target' \/ Agreed(v)' \/ \E o \in Operations : backup'[o] = v
    BY DEF Somewhere
  <2>1. Agreed(v) => Agreed(v)'
    BY AgreedStays
  <2>2. v \in placed \/ v = target'
    BY <1>29 DEF Outsider, Shape, entryVars, serverVars
  <2>3. v \in placed \ outside => v = target \/ Agreed(v) \/ \E o \in Operations : backup[o] = v
    BY DEF Somewhere
  <2> QED
    BY <1>29, <2>1, <2>2, <2>3, Apart DEF Outsider, Shape, entryVars, serverVars
<1>30. CASE UNCHANGED fileVars
  BY <1>1, <1>30 DEF entryVars, fileVars, serverVars
<1> QED
  BY <1>1, <1>2, <1>3, <1>4, <1>5, <1>6, <1>7, <1>8, <1>9, <1>10, <1>11, <1>12,
     <1>13, <1>14, <1>15, <1>16, <1>17, <1>18, <1>19, <1>20, <1>21, <1>22, <1>23,
     <1>24, <1>25, <1>26, <1>27, <1>28, <1>29, <1>30
   DEF FilesNext, UploadStep, SaveStep

LEMMA IInvInit == FilesInit => IInv
<1> SUFFICES ASSUME FilesInit PROVE IInv
  OBVIOUS
<1> USE Apart
<1>1. Shape
  BY ShapeInit
<1>2. \A t \in Threads : work[t] = "idle"
  BY DEF FilesInit
<1>3. Roles /\ InCharge
  BY <1>2 DEF Roles, InCharge, Holds, Saving, Locking, Publishing
<1>4. Shown
  BY <1>2 DEF FilesInit, Shown, ShownOf, Locking, Publishing, Cleaning
<1>5. Private
  BY <1>2 DEF FilesInit, Private, PrivateOf, Whole, Unplaced
<1>6. Aside /\ AsSeen
  BY <1>2 DEF FilesInit, Aside, AsideOf, AsSeen
<1>7. \A o \in Operations : Honest(o)
  BY DEF FilesInit, Honest
<1>8. Somewhere
  BY DEF FilesInit, Somewhere
<1> QED
  BY <1>1, <1>3, <1>4, <1>5, <1>6, <1>7, <1>8 DEF IInv

LEMMA IInvStep == IInv /\ [FilesNext]_fileVars => IInv'
<1> SUFFICES ASSUME IInv, [FilesNext]_fileVars PROVE IInv'
  OBVIOUS
<1> USE DEF IInv
<1>1. Shape' /\ Roles' /\ InCharge' /\ Shown'
  BY ShapeStep, RolesStep, InChargeStep, ShownStep
<1>2. Private' /\ Aside' /\ AsSeen'
  BY PrivateStep, AsideStep, AsSeenStep
<1>3. \A o \in Operations : Honest(o)'
  BY HonestStep
<1>4. Somewhere'
  BY SomewhereStep
<1> QED
  BY <1>1, <1>2, <1>3, <1>4

LEMMA IInvInvariant == FilesSpec => []IInv
BY IInvInit, IInvStep, PTL DEF FilesSpec

\* Every variable keeps its type, nobody works on the path without the gate, and an upload
\* holds its lock from the write or the close to the end of its publication.
THEOREM FilesTypeCorrect == FilesSpec => []FilesTypeOK
<1>1. IInv => FilesTypeOK
  <2> SUFFICES ASSUME IInv PROVE FilesTypeOK
    OBVIOUS
  <2>1. \A o \in Operations : work[o] \in Publishing => gate = o
    BY Apart DEF IInv, InCharge, Holds, Saving, Operations
  <2>2. \A u \in Uploads : work[u] \in Publishing \cup {"writing", "closing"} => slot[u] = u
    BY DEF IInv, InCharge, Holds, Locking
  <2> QED
    BY <2>1, <2>2 DEF IInv, Shape, FilesTypeOK
<1> QED
  BY <1>1, IInvInvariant, PTL

\* Whatever happens to two operations that meet at one path, whoever cancels an upload at
\* whatever moment and whichever answers are lost: what an upload or a save is shown with
\* is true of the path and of its private file, and every version that was at the path is
\* still there, was replaced by an upload whose user had seen it, or was set aside by
\* somebody at work or one whose report says where.  Two uploads alone set a version aside
\* and do not say so: one that a cancel ended during its publication, and one that got no
\* answer to a rename the server carried out.
THEOREM NothingLostCorrect == FilesSpec => []NothingLostUntold
<1>1. IInv => NothingLostUntold
  <2> SUFFICES ASSUME IInv PROVE NothingLostUntold
    OBVIOUS
  <2>1. EndsHonestly
    BY DEF IInv, Honest, EndsHonestly
  <2>2. ASSUME NEW v \in Versions, NEW o \in Operations, backup[o] = v PROVE KeptAside(v)
    <3>1. v # NoFile
      BY Apart
    <3>2. AsideOf(o)
      BY DEF IInv, Aside
    <3>3. work[o] \in Publishing \cup {"verifying", "stranded"} \/ Reported(o)
      BY <2>2, <3>1, <3>2 DEF AsideOf
    <3> QED
      BY <2>2, <3>3 DEF KeptAside, Reported
  <2>3. NoVersionLost
    BY <2>2 DEF IInv, Somewhere, NoVersionLost, Shape
  <2> QED
    BY <2>1, <2>3 DEF NothingLostUntold
<1> QED
  BY <1>1, IInvInvariant, PTL

(***************************************************************************)
(* The end of an operation.                                                *)
(***************************************************************************)

\* An upload or a save that is shown with a result.
Ended(o) == transfer[o] \notin {"none", "running"}

\* The result stands.  Nothing of the operation is published afterwards, nothing is set
\* aside or put back, and its private file can only be removed.
EndStands ==
    \A o \in Operations : Ended(o) =>
        /\ transfer'[o] = transfer[o]
        /\ o \in placed' => o \in placed
        /\ backup'[o] = backup[o]
        /\ staging'[o] \in {staging[o], NoFile}

LEMMA EndStandsStep == Shape /\ Roles /\ Shown /\ Private /\ [FilesNext]_fileVars => EndStands
<1> SUFFICES ASSUME Shape, Roles, Shown, Private, [FilesNext]_fileVars PROVE EndStands
  OBVIOUS
<1>1. CASE UNCHANGED <<target, staging, backup, transfer, placed>>
  BY <1>1
   DEF EndStands, Ended, Locking, Private, PrivateOf, Publishing, Roles, Shape,
         Shown, ShownOf
<1>2. ASSUME NEW u \in Uploads, BeginUpload(u) PROVE EndStands
  BY <1>1, <1>2 DEF BeginUpload, Moves, entryVars, serverVars
<1>3. ASSUME NEW u \in Uploads, CreateUpload(u) PROVE EndStands
  BY <1>3, Apart
   DEF Asked, Create, CreateUpload, EndStands, Ended, Locking, Moves, Private,
         PrivateOf, Publishing, Roles, Shape, Shown, ShownOf, entryVars, serverVars
<1>4. ASSUME NEW u \in Uploads, BeginChunk(u) PROVE EndStands
  BY <1>1, <1>4 DEF BeginChunk, Moves, entryVars, serverVars
<1>5. ASSUME NEW u \in Uploads, WriteUpload(u) PROVE EndStands
  BY <1>5, Apart
   DEF EndStands, Ended, Locking, Moves, Private, PrivateOf, Publishing, Release,
         Roles, Shape, Shown, ShownOf, WriteUpload, entryVars, serverVars
<1>6. ASSUME NEW u \in Uploads, BeginFinish(u) PROVE EndStands
  BY <1>1, <1>6 DEF BeginFinish, Moves, entryVars, serverVars
<1>7. ASSUME NEW u \in Uploads, CloseUpload(u) PROVE EndStands
  BY <1>1, <1>7 DEF CloseUpload, Moves, Release, entryVars, serverVars
<1>8. ASSUME NEW u \in Uploads, LookForTarget(u) PROVE EndStands
  BY <1>1, <1>8
   DEF LookForTarget, Moves, NotPublished, Release, entryVars, serverVars
<1>9. ASSUME NEW u \in Uploads, CompareTarget(u) PROVE EndStands
  BY <1>1, <1>9
   DEF CompareTarget, Moves, NotPublished, Release, SameTarget, entryVars,
         serverVars
<1>10. ASSUME NEW u \in Uploads, PublishUpload(u) PROVE EndStands
  BY <1>10, Apart
   DEF Asked, Done, EndStands, Ended, Locking, Moves, NotPublished, Private,
         PrivateOf, PublishUpload, Publishing, PutInPlace, Release, Roles, Shape,
         Shown, ShownOf, entryVars, serverVars
<1>11. ASSUME NEW u \in Uploads, ProtectTarget(u) PROVE EndStands
  BY <1>11, Apart
   DEF Asked, EndStands, Ended, Locking, Moves, NotPublished, Private, PrivateOf,
         ProtectTarget, Publishing, Release, Roles, SetAside, Shape, Shown, ShownOf,
         entryVars, serverVars
<1>12. ASSUME NEW u \in Uploads, ReplaceTarget(u) PROVE EndStands
  BY <1>12, Apart
   DEF Asked, EndStands, Ended, Locking, Moves, Private, PrivateOf, Publishing,
         PutInPlace, ReplaceTarget, Roles, Shape, Shown, ShownOf, entryVars,
         serverVars
<1>13. ASSUME NEW u \in Uploads, RestoreTarget(u) PROVE EndStands
  BY <1>13, Apart
   DEF Asked, EndStands, Ended, Locking, Moves, Names, NotPublished, Private,
         PrivateOf, Publishing, PutBack, Release, RestoreTarget, Roles, Shape,
         Shown, ShownOf, entryVars, serverVars
<1>14. ASSUME NEW u \in Uploads, DiscardBackup(u) PROVE EndStands
  BY <1>14, Apart
   DEF Asked, DiscardBackup, Done, EndStands, Ended, Locking, Moves, Names,
         Private, PrivateOf, Publishing, Release, Roles, Shape, Shown, ShownOf,
         entryVars, serverVars
<1>15. ASSUME NEW u \in Uploads, CancelUpload(u) PROVE EndStands
  BY <1>1, <1>15 DEF CancelUpload, Moves, entryVars, serverVars
<1>16. ASSUME NEW u \in Uploads, NEW t \in {u, Cancels(u)}, AbortUpload(t) PROVE EndStands
  BY <1>16, Apart
   DEF AbortUpload, EndStands, Ended, Locking, Moves, Private, PrivateOf,
         Publishing, Roles, Shape, Shown, ShownOf, entryVars, serverVars
<1>17. ASSUME NEW u \in Uploads, NEW t \in {u, Cancels(u)}, CloseAborted(t) PROVE EndStands
  BY <1>1, <1>17 DEF CloseAborted, Moves, Release, entryVars, serverVars
<1>18. ASSUME NEW u \in Uploads, NEW t \in {u, Cancels(u)}, RemoveStaging(t) PROVE EndStands
  BY <1>18, Apart
   DEF Asked, EndStands, Ended, Locking, Moves, Names, Private, PrivateOf,
         Publishing, Remove, RemoveStaging, Roles, Shape, Shown, ShownOf, entryVars,
         serverVars
<1>19. ASSUME NEW s \in Saves, OpenText(s) PROVE EndStands
  BY <1>1, <1>19 DEF Moves, OpenText, entryVars, serverVars
<1>20. ASSUME NEW s \in Saves, SaveText(s) PROVE EndStands
  BY <1>1, <1>20 DEF Moves, SaveText, entryVars, serverVars
<1>21. ASSUME NEW s \in Saves, ReadRevision(s) PROVE EndStands
  BY <1>21, Apart
   DEF EndStands, Ended, Locking, Moves, Private, PrivateOf, Publishing,
         ReadRevision, Roles, SaveEnds, Shape, Shown, ShownOf, entryVars, serverVars
<1>22. ASSUME NEW s \in Saves, StageText(s) PROVE EndStands
  BY <1>22, Apart
   DEF Asked, Create, EndStands, Ended, Locking, Moves, Private, PrivateOf,
         Publishing, Roles, SaveEnds, Shape, Shown, ShownOf, StageText, entryVars,
         serverVars
<1>23. ASSUME NEW s \in Saves, CompareRevision(s) PROVE EndStands
  BY <1>1, <1>23 DEF CompareRevision, Moves, entryVars, serverVars
<1>24. ASSUME NEW s \in Saves, ProtectText(s) PROVE EndStands
  BY <1>24, Apart
   DEF Asked, EndStands, Ended, Locking, Moves, Private, PrivateOf, ProtectText,
         Publishing, Roles, SetAside, Shape, Shown, ShownOf, entryVars, serverVars
<1>25. ASSUME NEW s \in Saves, VerifyText(s) PROVE EndStands
  BY <1>1, <1>25 DEF Moves, VerifyText, entryVars, serverVars
<1>26. ASSUME NEW s \in Saves, ReplaceText(s) PROVE EndStands
  BY <1>26, Apart
   DEF Asked, EndStands, Ended, Locking, Moves, Names, Private, PrivateOf,
         Publishing, PutInPlace, ReplaceText, Roles, SaveEnds, Shape, Shown,
         ShownOf, entryVars, serverVars
<1>27. ASSUME NEW s \in Saves, RestoreText(s) PROVE EndStands
  BY <1>27, Apart
   DEF Asked, EndStands, Ended, Locking, Moves, Names, Private, PrivateOf,
         Publishing, PutBack, RestoreText, Roles, Shape, Shown, ShownOf, entryVars,
         serverVars
<1>28. ASSUME NEW s \in Saves, CleanText(s) PROVE EndStands
  BY <1>28, Apart
   DEF Asked, CleanText, EndStands, Ended, Locking, Moves, Names, Private,
         PrivateOf, Publishing, Remove, Roles, SaveEnds, Shape, Shown, ShownOf,
         entryVars, serverVars
<1>29. ASSUME Outsider PROVE EndStands
  BY <1>29, Apart
   DEF EndStands, Ended, Locking, Outsider, Private, PrivateOf, Publishing, Roles,
         Shape, Shown, ShownOf, entryVars, serverVars
<1>30. CASE UNCHANGED fileVars
  BY <1>1, <1>30 DEF entryVars, fileVars, serverVars
<1> QED
  BY <1>1, <1>2, <1>3, <1>4, <1>5, <1>6, <1>7, <1>8, <1>9, <1>10, <1>11, <1>12,
     <1>13, <1>14, <1>15, <1>16, <1>17, <1>18, <1>19, <1>20, <1>21, <1>22, <1>23,
     <1>24, <1>25, <1>26, <1>27, <1>28, <1>29, <1>30
   DEF FilesNext, UploadStep, SaveStep

\* Whoever ends an upload, the one that feeds it, the one that cancels it or the one that
\* publishes it, and whatever the others do then: it ends once (sftp_transfers.rs,
\* abort_upload and finish_upload_entry take the lock of the upload and look at its state).
THEOREM EndFinal == FilesSpec => [][EndStands]_fileVars
<1>1. IInv /\ [FilesNext]_fileVars => EndStands
  BY EndStandsStep DEF IInv
<1> QED
  BY <1>1, IInvInvariant, PTL DEF FilesSpec

=============================================================================
