--------------------------- MODULE FileJobsProofs ---------------------------
(***************************************************************************)
(* The safety of FileJobs, for any operations, folders, limits and number  *)
(* of sessions.  The inductive invariant relates where a thread is to the  *)
(* control of its job, to the files and folders it owns and to the answer  *)
(* it gives, and counts the threads that hold a permit and the jobs a      *)
(* shutdown waits for.                                                     *)
(***************************************************************************)
EXTENDS FileJobs, FiniteSetTheorems, WellFoundedInduction, TLAPS

\* What every variable holds; the two counts are left to Counts.
Shape ==
    /\ session \in 0..MaxSessions
    /\ receiver \in {"none", "open", "draining", "waiting", "drained", "abandoned"}
    /\ feeding \in (Uploads \X Commands) \cup {None}
    /\ operations \subseteq Ops
    /\ activeBytes \in Int /\ committedBytes \in Nat
    /\ inFlight \in Int
    /\ outgoing \in Seq(Messages)
    /\ worker \in [Ops -> Phases]
    /\ sessionOf \in [Ops -> 0..MaxSessions]
    /\ control \in [Ops -> {"active", "committing", "terminal"} \cup Reasons]
    /\ signalled \subseteq Ops
    /\ progress \in [Ops -> 0..1]
    /\ answer \in [Ops -> Terminals \cup {None}]
    /\ commands \in [Uploads -> Seq(Commands)]
    /\ counted \subseteq Uploads
    /\ permits \in Nat
    /\ targets \in [Folders -> Uploads \cup {None}]
    /\ staged \subseteq Uploads
    /\ published \subseteq Uploads

Flags == linked \in BOOLEAN /\ failed \in BOOLEAN /\ settled \in BOOLEAN

\* The jobs a shutdown of the session waits for.
InFlight == {t \in Ops : OfSession(t) /\ worker[t] \in Holding \cup {"leaving"}}

Counts ==
    /\ permits + Cardinality(Holders) = FileJobLimit
    /\ inFlight = Cardinality(InFlight)

Sessions == \A t \in Ops : sessionOf[t] <= session

Ending == {"answering", "releasing", "leaving", "notifying", "gone"}

\* A cancel and a commit exclude each other, and only a commit publishes.
Controls ==
    \A t \in Ops :
        /\ control[t] \in Reasons => t \in signalled
        /\ t \in signalled => control[t] \in Reasons \cup {"terminal"}
        /\ control[t] = "committing" <=> worker[t] \in {"committing", "counting"}
        /\ worker[t] = "counting" => t \in published
        /\ t \in published => /\ t \notin signalled
                              /\ worker[t] \in Ending \cup {"counting"}
                              /\ control[t] \in {"committing", "terminal"}
        /\ worker[t] = "reading" => t \in Downloads

\* An answer is claimed once the outcome is settled.
Answers ==
    /\ \A t \in Ops : worker[t] = "answering" => answer[t] # None
    /\ \A t \in Ops : answer[t] # None => worker[t] \in Ending
    /\ AnswersHonest

\* A folder belongs to the thread that reserved it until that thread releases it.
Writing == {"reserved", "staged", "receiving", "committing", "counting"}
Files ==
    /\ \A t \in staged : worker[t] \in {"staged", "receiving", "committing"}
    /\ \A t \in Ops : worker[t] \in Writing => t \in Uploads /\ targets[folder[t]] = t
    /\ \A f \in Folders : targets[f] # None =>
           worker[targets[f]] \in Holding /\ worker[targets[f]] # "starting"

Drained == receiver = "drained" => inFlight = 0

IInv == Shape /\ Flags /\ Counts /\ Sessions /\ Controls /\ Answers /\ Files /\ Drained
        /\ NoLostWakeup

(***************************************************************************)
(* Shapes.                                                                 *)
(***************************************************************************)
LEMMA EmptyTyped == <<>> \in Seq(Messages) /\ <<>> \in Seq(Commands)
OBVIOUS

LEMMA MessageTyped ==
    ASSUME NEW t \in Ops, NEW type \in {"Start", "Chunk", "Ready", "Complete", "Error"}
    PROVE  [op |-> t, type |-> type] \in Messages
BY DEF Messages, Terminals

LEMMA AppendTyped ==
    ASSUME NEW s \in Seq(Messages), NEW t \in Ops,
           NEW type \in {"Start", "Chunk", "Ready", "Complete", "Error"}
    PROVE  Append(s, [op |-> t, type |-> type]) \in Seq(Messages)
<1> DEFINE m == [op |-> t, type |-> type]
<1>1. m \in Messages
  BY MessageTyped
<1> HIDE DEF m
<1>2. Append(s, m) \in Seq(Messages)
  BY <1>1
<1> QED
  BY <1>2 DEF m

LEMMA ShapeInit == JobsInit => Shape
BY FileJobConstants, EmptyTyped
   DEF JobsInit, Shape, Ops, Holding, Phases, Commands, Terminals, Reasons

LEMMA ShapeStep == Shape /\ Answers /\ [JobsNext]_jobVars => Shape'
<1> SUFFICES ASSUME Shape, Answers, [JobsNext]_jobVars PROVE Shape'
  OBVIOUS
<1>1. CASE UNCHANGED jobVars
  BY <1>1
   DEF Commands, Holding, Ops, Phases, Reasons, Shape, Terminals, controlVars,
         fileVars, idleVars, jobVars, loopVars, registryVars
<1>2. ASSUME NextSession PROVE Shape'
  BY <1>2, FileJobConstants, EmptyTyped
   DEF Commands, Holding, NextSession, OfSession, Ops, Phases, Reasons, Shape,
         Terminals, controlVars, fileVars, idleVars, loopVars, registryVars
<1>3. ASSUME FeedOn PROVE Shape'
  BY <1>3, FileJobConstants
   DEF Commands, FeedOn, Holding, OfSession, Ops, Phases, Reasons, Shape,
         Terminals, controlVars, fileVars, idleVars, jobVars, loopVars, registryVars
<1>4. ASSUME FeedTimesOut PROVE Shape'
  <2>1. PICK u \in Uploads : RequestCancel(u, "Error")
    BY <1>4 DEF FeedTimesOut
  <2>2. u \in Ops
    BY DEF Ops
  <2>3. /\ feeding' = None
        /\ UNCHANGED <<session, receiver, linked, failed, registryVars, idleVars, outgoing,
                       worker, sessionOf, answer, commands, permits, fileVars>>
    BY <1>4 DEF FeedTimesOut
  <2> QED
    BY ZenonT(60), <2>1, <2>2, <2>3, FileJobConstants
     DEF Commands, Holding, OfSession, Ops, Phases, Reasons, RequestCancel, Shape,
           Terminals, controlVars, fileVars, idleVars, jobVars, loopVars,
           registryVars
<1>5. ASSUME FeedOrphaned PROVE Shape'
  BY <1>5, FileJobConstants
   DEF Commands, FeedOrphaned, Holding, OfSession, Ops, Phases, Reasons, Shape,
         Terminals, controlVars, fileVars, idleVars, jobVars, loopVars, registryVars
<1>6. ASSUME EndSession PROVE Shape'
  BY <1>6, FileJobConstants
   DEF CancelAll, Commands, EndSession, Holding, OfSession, Ops, Phases, Reasons,
         Shape, Terminals, controlVars, fileVars, idleVars, jobVars, loopVars,
         registryVars
<1>7. ASSUME Drain PROVE Shape'
  BY <1>7, FileJobConstants, EmptyTyped
   DEF Commands, Drain, HangUp, Holding, OfSession, Ops, Phases, Reasons, Shape,
         Terminals, controlVars, fileVars, idleVars, loopVars, registryVars
<1>8. ASSUME Wake PROVE Shape'
  BY <1>8, FileJobConstants
   DEF Commands, Holding, OfSession, Ops, Phases, Reasons, Shape, Terminals, Wake,
         controlVars, fileVars, idleVars, jobVars, loopVars, registryVars
<1>9. ASSUME DrainTimesOut PROVE Shape'
  BY <1>9, FileJobConstants, EmptyTyped
   DEF Commands, DrainTimesOut, HangUp, Holding, OfSession, Ops, Phases, Reasons,
         Shape, Terminals, controlVars, fileVars, idleVars, loopVars, registryVars
<1>10. ASSUME LinkLost PROVE Shape'
  BY <1>10, FileJobConstants, EmptyTyped
   DEF Commands, HangUp, Holding, LinkLost, OfSession, Ops, Phases, Reasons,
         Shape, Terminals, controlVars, fileVars, idleVars, loopVars, registryVars
<1>11. ASSUME Write PROVE Shape'
  BY <1>11, FileJobConstants
   DEF Commands, Holding, OfSession, Ops, Phases, Reasons, Shape, Terminals,
         Write, controlVars, fileVars, idleVars, jobVars, loopVars, registryVars
<1>12. ASSUME NEW t \in Ops, Admit(t) PROVE Shape'
  <2>1. permits' \in Nat
    BY <1>12 DEF Admit, MayAdmit, Shape
  <2>2. activeBytes' \in Int
    BY SMTT(40), <1>12, FileJobConstants DEF Admit, Shape
  <2>3. inFlight' \in Int
    BY <1>12 DEF Admit, Shape
  <2> QED
    BY <1>12, <2>1, <2>2, <2>3
       DEF Admit, Shape, Ops, Holding, Phases, Commands, Terminals, Reasons, Listening, loopVars, registryVars, idleVars, controlVars, fileVars
<1>13. ASSUME NEW t \in Ops, Refuse(t) PROVE Shape'
  <2>1. outgoing' \in Seq(Messages)
    BY <1>13, AppendTyped DEF Refuse, Reply, Shape, idleVars
  <2> QED
    BY <1>13, <2>1, FileJobConstants
     DEF Commands, Holding, Listening, OfSession, Ops, Phases, Reasons, Refuse,
           Reply, Room, Shape, Terminals, controlVars, fileVars, idleVars, loopVars,
           registryVars
<1>14. ASSUME NEW t \in Ops, SpawnFails(t) PROVE Shape'
  <2>1. outgoing' \in Seq(Messages)
    BY <1>14, AppendTyped DEF Reply, Shape, SpawnFails, idleVars
  <2> QED
    BY <1>14, <2>1, FileJobConstants
     DEF Commands, Holding, Listening, OfSession, Ops, Phases, Reasons, Reply,
           Room, Shape, SpawnFails, Terminals, controlVars, fileVars, idleVars,
           loopVars, registryVars
<1>15. ASSUME NEW t \in Ops, HandleCancel(t) PROVE Shape'
  <2>1. outgoing' \in Seq(Messages)
    BY <1>15, AppendTyped DEF HandleCancel, Reply, Shape
  <2>2. /\ control' \in [Ops -> {"active", "committing", "terminal"} \cup Reasons]
        /\ signalled' \subseteq Ops
    BY <1>15 DEF HandleCancel, RequestCancel, Reasons, Terminals, Shape, controlVars
  <2> QED
    BY <1>15, <2>1, <2>2 DEF HandleCancel, Shape, registryVars, idleVars, fileVars
<1>16. ASSUME NEW t \in Uploads, NEW c \in Commands, HandleCommand(t, c) PROVE Shape'
  <2>1. t \in Ops
    BY DEF Ops
  <2>2. outgoing' \in Seq(Messages)
    BY ZenonT(60), <1>16, <2>1, AppendTyped DEF HandleCommand, Reply, Shape
  <2>3. feeding' \in (Uploads \X Commands) \cup {None}
    BY <1>16 DEF HandleCommand, Shape
  <2> QED
    BY <1>16, <2>2, <2>3 DEF HandleCommand, Shape, registryVars, idleVars, controlVars, fileVars
<1>17. ASSUME NEW t \in Ops, StopCancelled(t) PROVE Shape'
  BY <1>17, FileJobConstants
   DEF ClaimCancelled, Commands, Holding, OfSession, Ops, Phases, Reasons, Shape,
         StopCancelled, Terminals, controlVars, fileVars, idleVars, jobVars,
         loopVars, registryVars
<1>18. ASSUME NEW t \in Ops, StopWithError(t) PROVE Shape'
  BY <1>18, FileJobConstants
   DEF ClaimActive, Commands, Holding, OfSession, Ops, Phases, Reasons, Shape,
         StopWithError, Terminals, controlVars, fileVars, idleVars, jobVars,
         loopVars, registryVars
<1>19. ASSUME NEW t \in Ops, SendFails(t) PROVE Shape'
  BY <1>19, FileJobConstants
   DEF Commands, Goto, Holding, OfSession, Ops, Phases, Reasons, SendFails, Shape,
         Terminals, controlVars, fileVars, idleVars, jobVars, loopVars, registryVars
<1>20. ASSUME NEW t \in Ops, SendStart(t) PROVE Shape'
  <2>1. outgoing' \in Seq(Messages)
    BY <1>20, AppendTyped DEF Send, SendStart, Shape, idleVars
  <2> QED
    BY <1>20, <2>1, FileJobConstants
     DEF Commands, Goto, Holding, OfSession, Ops, Phases, Reasons, Send,
           SendStart, Shape, Terminals, controlVars, fileVars, idleVars, loopVars,
           registryVars
<1>21. ASSUME NEW t \in Ops, SendChunk(t) PROVE Shape'
  <2>1. outgoing' \in Seq(Messages)
    BY <1>21, AppendTyped DEF Send, SendChunk, Shape, idleVars
  <2> QED
    BY <1>21, <2>1, FileJobConstants
     DEF Commands, Goto, Holding, OfSession, Ops, Phases, Reasons, Send,
           SendChunk, Shape, Terminals, controlVars, fileVars, idleVars, loopVars,
           registryVars
<1>22. ASSUME NEW t \in Ops, DownloadDone(t) PROVE Shape'
  BY <1>22, FileJobConstants
   DEF ClaimActive, Commands, DownloadDone, Holding, OfSession, Ops, Phases,
         Reasons, Shape, Terminals, controlVars, fileVars, idleVars, jobVars,
         loopVars, registryVars
<1>23. ASSUME NEW t \in Ops, SendAnswer(t) PROVE Shape'
  <2>1. outgoing' \in Seq(Messages)
    BY ZenonT(60), <1>23, AppendTyped DEF Answers, SendAnswer, Shape, Terminals, idleVars
  <2> QED
    BY <1>23, <2>1, FileJobConstants
     DEF Commands, Goto, Holding, OfSession, Ops, Phases, Reasons, SendAnswer,
           Shape, Terminals, controlVars, fileVars, idleVars, loopVars, registryVars
<1>24. ASSUME NEW t \in Ops, Release(t) PROVE Shape'
  BY <1>24, FileJobConstants
   DEF Commands, Goto, Holding, OfSession, Ops, Phases, Reasons, Release, Shape,
         Terminals, controlVars, fileVars, idleVars, jobVars, loopVars, registryVars
<1>25. ASSUME NEW t \in Ops, Leave(t) PROVE Shape'
  BY <1>25, FileJobConstants
   DEF Commands, Goto, Holding, Leave, OfSession, Ops, Phases, Reasons,
         RemoveIfCurrent, Shape, Terminals, controlVars, fileVars, idleVars,
         jobVars, loopVars, registryVars
<1>26. ASSUME NEW t \in Ops, Notify(t) PROVE Shape'
  BY <1>26, FileJobConstants
   DEF Commands, Goto, Holding, Notify, OfSession, Ops, Phases, Reasons, Shape,
         Terminals, controlVars, fileVars, idleVars, jobVars, loopVars, registryVars
<1>27. ASSUME NEW t \in Uploads, ReserveTarget(t) PROVE Shape'
  BY <1>27, FileJobConstants
   DEF Commands, Goto, Holding, OfSession, Ops, Phases, Reasons, ReserveTarget,
         Shape, Terminals, controlVars, fileVars, idleVars, jobVars, loopVars,
         registryVars
<1>28. ASSUME NEW t \in Uploads, Stage(t) PROVE Shape'
  BY <1>28, FileJobConstants
   DEF Commands, Goto, Holding, OfSession, Ops, Phases, Reasons, Shape, Stage,
         Terminals, controlVars, fileVars, idleVars, jobVars, loopVars, registryVars
<1>29. ASSUME NEW t \in Uploads, SendReady(t) PROVE Shape'
  <2>1. outgoing' \in Seq(Messages)
    BY <1>29, AppendTyped DEF Ops, Send, SendReady, Shape, idleVars
  <2> QED
    BY <1>29, <2>1, FileJobConstants
     DEF Commands, Goto, Holding, OfSession, Ops, Phases, Reasons, Send,
           SendReady, Shape, Terminals, controlVars, fileVars, idleVars, loopVars,
           registryVars
<1>30. ASSUME NEW t \in Uploads, WriteChunk(t) PROVE Shape'
  BY <1>30, FileJobConstants
   DEF Commands, Holding, OfSession, Ops, Phases, Reasons, Shape, Terminals,
         WriteChunk, controlVars, fileVars, idleVars, jobVars, loopVars,
         registryVars
<1>31. ASSUME NEW t \in Uploads, TakeFinish(t) PROVE Shape'
  BY <1>31, FileJobConstants
   DEF BeginCommit, Commands, Goto, Holding, OfSession, Ops, Phases, Reasons,
         Shape, TakeFinish, Terminals, controlVars, fileVars, idleVars, jobVars,
         loopVars, registryVars
<1>32. ASSUME NEW t \in Uploads, Publish(t) PROVE Shape'
  BY <1>32, FileJobConstants
   DEF Commands, Goto, Holding, OfSession, Ops, Phases, Publish, Reasons, Shape,
         Terminals, controlVars, fileVars, idleVars, jobVars, loopVars, registryVars
<1>33. ASSUME NEW t \in Uploads, PublishFails(t) PROVE Shape'
  BY <1>33, FileJobConstants
   DEF Commands, Goto, Holding, OfSession, Ops, Phases, PublishFails, Reasons,
         Shape, Terminals, controlVars, fileVars, idleVars, jobVars, loopVars,
         registryVars
<1>34. ASSUME NEW t \in Uploads, CountUpload(t) PROVE Shape'
  BY <1>34, FileJobConstants
   DEF Commands, CountUpload, Goto, Holding, OfSession, Ops, Phases, Reasons,
         Shape, Terminals, controlVars, fileVars, idleVars, jobVars, loopVars,
         registryVars
<1>35. CASE UNCHANGED jobVars
  BY <1>1, <1>35
   DEF controlVars, fileVars, idleVars, jobVars, loopVars, registryVars
<1> QED
  BY <1>1, <1>2, <1>3, <1>4, <1>5, <1>6, <1>7, <1>8, <1>9, <1>10, <1>11, <1>12,
     <1>13, <1>14, <1>15, <1>16, <1>17, <1>18, <1>19, <1>20, <1>21, <1>22, <1>23,
     <1>24, <1>25, <1>26, <1>27, <1>28, <1>29, <1>30, <1>31, <1>32, <1>33, <1>34,
     <1>35
   DEF JobsNext, AgentStep, Loop, Work, WorkUpload, Start

LEMMA FlagsInit == JobsInit => Flags
BY DEF JobsInit, Flags

LEMMA FlagsStep == Flags /\ [JobsNext]_jobVars => Flags'
<1> SUFFICES ASSUME Flags, [JobsNext]_jobVars PROVE Flags'
  OBVIOUS
<1>1. CASE UNCHANGED <<linked, failed, settled>>
  BY <1>1 DEF Flags
<1>2. ASSUME NextSession PROVE Flags'
  BY <1>2, Zenon
   DEF Flags, NextSession, controlVars, fileVars, idleVars, loopVars, registryVars
<1>3. ASSUME FeedOn PROVE Flags'
  BY <1>1, <1>3
   DEF FeedOn, controlVars, fileVars, idleVars, loopVars, registryVars
<1>4. ASSUME FeedTimesOut PROVE Flags'
  BY <1>1, <1>4
   DEF FeedTimesOut, RequestCancel, controlVars, fileVars, idleVars, loopVars,
         registryVars
<1>5. ASSUME FeedOrphaned PROVE Flags'
  BY <1>5, Zenon
   DEF FeedOrphaned, Flags, controlVars, fileVars, idleVars, loopVars,
         registryVars
<1>6. ASSUME EndSession PROVE Flags'
  BY <1>1, <1>6
   DEF CancelAll, EndSession, controlVars, fileVars, idleVars, loopVars,
         registryVars
<1>7. ASSUME Drain PROVE Flags'
  BY <1>7, Zenon
   DEF Drain, Flags, HangUp, controlVars, fileVars, idleVars, loopVars,
         registryVars
<1>8. ASSUME Wake PROVE Flags'
  BY <1>8, Zenon
   DEF Flags, Wake, controlVars, fileVars, idleVars, loopVars, registryVars
<1>9. ASSUME DrainTimesOut PROVE Flags'
  BY <1>9, Zenon
   DEF DrainTimesOut, Flags, HangUp, controlVars, fileVars, idleVars, loopVars,
         registryVars
<1>10. ASSUME LinkLost PROVE Flags'
  BY <1>10, Zenon
   DEF Flags, HangUp, LinkLost, controlVars, fileVars, idleVars, loopVars,
         registryVars
<1>11. ASSUME Write PROVE Flags'
  BY <1>1, <1>11
   DEF Write, controlVars, fileVars, idleVars, loopVars, registryVars
<1>12. ASSUME NEW t \in Ops, Admit(t) PROVE Flags'
  BY <1>1, <1>12
   DEF Admit, Listening, MayAdmit, controlVars, fileVars, idleVars, loopVars,
         registryVars
<1>13. ASSUME NEW t \in Ops, Refuse(t) PROVE Flags'
  BY <1>13, Zenon
   DEF Flags, Refuse, Reply, controlVars, fileVars, idleVars, loopVars,
         registryVars
<1>14. ASSUME NEW t \in Ops, SpawnFails(t) PROVE Flags'
  BY <1>14, Zenon
   DEF Flags, Reply, SpawnFails, controlVars, fileVars, idleVars, loopVars,
         registryVars
<1>15. ASSUME NEW t \in Ops, HandleCancel(t) PROVE Flags'
  BY <1>15, Zenon
   DEF Flags, HandleCancel, Reply, RequestCancel, controlVars, fileVars, idleVars,
         loopVars, registryVars
<1>16. ASSUME NEW t \in Uploads, NEW c \in Commands, HandleCommand(t, c) PROVE Flags'
  BY <1>16, Zenon
   DEF Flags, HandleCommand, Reply, controlVars, fileVars, idleVars, loopVars,
         registryVars
<1>17. ASSUME NEW t \in Ops, StopCancelled(t) PROVE Flags'
  BY <1>1, <1>17
   DEF ClaimCancelled, StopCancelled, controlVars, fileVars, idleVars, loopVars,
         registryVars
<1>18. ASSUME NEW t \in Ops, StopWithError(t) PROVE Flags'
  BY <1>1, <1>18
   DEF ClaimActive, StopWithError, controlVars, fileVars, idleVars, loopVars,
         registryVars
<1>19. ASSUME NEW t \in Ops, SendFails(t) PROVE Flags'
  BY <1>19, Zenon
   DEF Flags, Goto, OfSession, SendFails, controlVars, fileVars, idleVars,
         loopVars, registryVars
<1>20. ASSUME NEW t \in Ops, SendStart(t) PROVE Flags'
  BY <1>1, <1>20
   DEF Goto, Send, SendStart, controlVars, fileVars, idleVars, loopVars,
         registryVars
<1>21. ASSUME NEW t \in Ops, SendChunk(t) PROVE Flags'
  BY <1>1, <1>21
   DEF Goto, Send, SendChunk, controlVars, fileVars, idleVars, loopVars,
         registryVars
<1>22. ASSUME NEW t \in Ops, DownloadDone(t) PROVE Flags'
  BY <1>1, <1>22
   DEF ClaimActive, DownloadDone, controlVars, fileVars, idleVars, loopVars,
         registryVars
<1>23. ASSUME NEW t \in Ops, SendAnswer(t) PROVE Flags'
  BY <1>23, Zenon
   DEF Flags, Goto, OfSession, SendAnswer, controlVars, fileVars, idleVars,
         loopVars, registryVars
<1>24. ASSUME NEW t \in Ops, Release(t) PROVE Flags'
  BY <1>1, <1>24
   DEF Goto, Release, controlVars, fileVars, idleVars, loopVars, registryVars
<1>25. ASSUME NEW t \in Ops, Leave(t) PROVE Flags'
  BY <1>1, <1>25
   DEF Goto, Leave, OfSession, RemoveIfCurrent, controlVars, fileVars, idleVars,
         loopVars, registryVars
<1>26. ASSUME NEW t \in Ops, Notify(t) PROVE Flags'
  BY <1>26, Zenon
   DEF Flags, Goto, Notify, OfSession, controlVars, fileVars, idleVars, loopVars,
         registryVars
<1>27. ASSUME NEW t \in Uploads, ReserveTarget(t) PROVE Flags'
  BY <1>1, <1>27
   DEF Goto, ReserveTarget, controlVars, fileVars, idleVars, loopVars,
         registryVars
<1>28. ASSUME NEW t \in Uploads, Stage(t) PROVE Flags'
  BY <1>1, <1>28
   DEF Goto, Stage, controlVars, fileVars, idleVars, loopVars, registryVars
<1>29. ASSUME NEW t \in Uploads, SendReady(t) PROVE Flags'
  BY <1>1, <1>29
   DEF Goto, Send, SendReady, controlVars, fileVars, idleVars, loopVars,
         registryVars
<1>30. ASSUME NEW t \in Uploads, WriteChunk(t) PROVE Flags'
  BY <1>1, <1>30
   DEF WriteChunk, controlVars, fileVars, idleVars, loopVars, registryVars
<1>31. ASSUME NEW t \in Uploads, TakeFinish(t) PROVE Flags'
  BY <1>1, <1>31
   DEF BeginCommit, Goto, TakeFinish, controlVars, fileVars, idleVars, loopVars,
         registryVars
<1>32. ASSUME NEW t \in Uploads, Publish(t) PROVE Flags'
  BY <1>1, <1>32
   DEF Goto, Publish, controlVars, fileVars, idleVars, loopVars, registryVars
<1>33. ASSUME NEW t \in Uploads, PublishFails(t) PROVE Flags'
  BY <1>1, <1>33
   DEF Goto, PublishFails, controlVars, fileVars, idleVars, loopVars, registryVars
<1>34. ASSUME NEW t \in Uploads, CountUpload(t) PROVE Flags'
  BY <1>1, <1>34
   DEF CountUpload, Goto, OfSession, controlVars, fileVars, idleVars, loopVars,
         registryVars
<1>35. CASE UNCHANGED jobVars
  BY <1>1, <1>35
   DEF controlVars, fileVars, idleVars, jobVars, loopVars, registryVars
<1> QED
  BY <1>1, <1>2, <1>3, <1>4, <1>5, <1>6, <1>7, <1>8, <1>9, <1>10, <1>11, <1>12,
     <1>13, <1>14, <1>15, <1>16, <1>17, <1>18, <1>19, <1>20, <1>21, <1>22, <1>23,
     <1>24, <1>25, <1>26, <1>27, <1>28, <1>29, <1>30, <1>31, <1>32, <1>33, <1>34,
     <1>35
   DEF JobsNext, AgentStep, Loop, Work, WorkUpload, Start

(***************************************************************************)
(* Sessions, controls, answers and files.                                  *)
(***************************************************************************)
LEMMA SessionsStep == Shape /\ Sessions /\ [JobsNext]_jobVars => Sessions'
<1> SUFFICES ASSUME Shape, Sessions, [JobsNext]_jobVars PROVE Sessions'
  OBVIOUS
<1>1. CASE UNCHANGED <<session, sessionOf>>
  BY <1>1 DEF Sessions
<1>2. ASSUME NextSession PROVE Sessions'
  BY <1>2
   DEF NextSession, Sessions, Shape, controlVars, fileVars, idleVars, loopVars,
         registryVars
<1>3. ASSUME FeedOn PROVE Sessions'
  BY <1>1, <1>3
   DEF FeedOn, controlVars, fileVars, idleVars, loopVars, registryVars
<1>4. ASSUME FeedTimesOut PROVE Sessions'
  BY <1>1, <1>4
   DEF FeedTimesOut, RequestCancel, controlVars, fileVars, idleVars, loopVars,
         registryVars
<1>5. ASSUME FeedOrphaned PROVE Sessions'
  BY <1>1, <1>5
   DEF FeedOrphaned, controlVars, fileVars, idleVars, loopVars, registryVars
<1>6. ASSUME EndSession PROVE Sessions'
  BY <1>1, <1>6
   DEF CancelAll, EndSession, controlVars, fileVars, idleVars, loopVars,
         registryVars
<1>7. ASSUME Drain PROVE Sessions'
  BY <1>1, <1>7
   DEF Drain, HangUp, controlVars, fileVars, idleVars, loopVars, registryVars
<1>8. ASSUME Wake PROVE Sessions'
  BY <1>1, <1>8
   DEF Wake, controlVars, fileVars, idleVars, loopVars, registryVars
<1>9. ASSUME DrainTimesOut PROVE Sessions'
  BY <1>1, <1>9
   DEF DrainTimesOut, HangUp, controlVars, fileVars, idleVars, loopVars,
         registryVars
<1>10. ASSUME LinkLost PROVE Sessions'
  BY <1>1, <1>10
   DEF HangUp, LinkLost, controlVars, fileVars, idleVars, loopVars, registryVars
<1>11. ASSUME Write PROVE Sessions'
  BY <1>1, <1>11
   DEF Write, controlVars, fileVars, idleVars, loopVars, registryVars
<1>12. ASSUME NEW t \in Ops, Admit(t) PROVE Sessions'
  BY <1>12
   DEF Admit, Listening, MayAdmit, Sessions, Shape, controlVars, fileVars,
         idleVars, loopVars, registryVars
<1>13. ASSUME NEW t \in Ops, Refuse(t) PROVE Sessions'
  BY <1>1, <1>13
   DEF Listening, Refuse, Reply, Room, controlVars, fileVars, idleVars, loopVars,
         registryVars
<1>14. ASSUME NEW t \in Ops, SpawnFails(t) PROVE Sessions'
  BY <1>1, <1>14
   DEF Listening, Reply, Room, SpawnFails, controlVars, fileVars, idleVars,
         loopVars, registryVars
<1>15. ASSUME NEW t \in Ops, HandleCancel(t) PROVE Sessions'
  BY <1>1, <1>15
   DEF HandleCancel, Listening, Reply, RequestCancel, Room, controlVars, fileVars,
         idleVars, loopVars, registryVars
<1>16. ASSUME NEW t \in Uploads, NEW c \in Commands, HandleCommand(t, c) PROVE Sessions'
  BY <1>1, <1>16
   DEF HandleCommand, Listening, Reply, Room, controlVars, fileVars, idleVars,
         loopVars, registryVars
<1>17. ASSUME NEW t \in Ops, StopCancelled(t) PROVE Sessions'
  BY <1>1, <1>17
   DEF ClaimCancelled, StopCancelled, controlVars, fileVars, idleVars, loopVars,
         registryVars
<1>18. ASSUME NEW t \in Ops, StopWithError(t) PROVE Sessions'
  BY <1>1, <1>18
   DEF ClaimActive, StopWithError, controlVars, fileVars, idleVars, loopVars,
         registryVars
<1>19. ASSUME NEW t \in Ops, SendFails(t) PROVE Sessions'
  BY <1>1, <1>19
   DEF Goto, OfSession, SendFails, controlVars, fileVars, idleVars, loopVars,
         registryVars
<1>20. ASSUME NEW t \in Ops, SendStart(t) PROVE Sessions'
  BY <1>1, <1>20
   DEF Goto, Send, SendStart, controlVars, fileVars, idleVars, loopVars,
         registryVars
<1>21. ASSUME NEW t \in Ops, SendChunk(t) PROVE Sessions'
  BY <1>1, <1>21
   DEF Goto, Send, SendChunk, controlVars, fileVars, idleVars, loopVars,
         registryVars
<1>22. ASSUME NEW t \in Ops, DownloadDone(t) PROVE Sessions'
  BY <1>1, <1>22
   DEF ClaimActive, DownloadDone, controlVars, fileVars, idleVars, loopVars,
         registryVars
<1>23. ASSUME NEW t \in Ops, SendAnswer(t) PROVE Sessions'
  BY <1>1, <1>23
   DEF Goto, OfSession, SendAnswer, controlVars, fileVars, idleVars, loopVars,
         registryVars
<1>24. ASSUME NEW t \in Ops, Release(t) PROVE Sessions'
  BY <1>1, <1>24
   DEF Goto, Release, controlVars, fileVars, idleVars, loopVars, registryVars
<1>25. ASSUME NEW t \in Ops, Leave(t) PROVE Sessions'
  BY <1>1, <1>25
   DEF Goto, Leave, OfSession, RemoveIfCurrent, controlVars, fileVars, idleVars,
         loopVars, registryVars
<1>26. ASSUME NEW t \in Ops, Notify(t) PROVE Sessions'
  BY <1>1, <1>26
   DEF Goto, Notify, OfSession, controlVars, fileVars, idleVars, loopVars,
         registryVars
<1>27. ASSUME NEW t \in Uploads, ReserveTarget(t) PROVE Sessions'
  BY <1>1, <1>27
   DEF Goto, ReserveTarget, controlVars, fileVars, idleVars, loopVars,
         registryVars
<1>28. ASSUME NEW t \in Uploads, Stage(t) PROVE Sessions'
  BY <1>1, <1>28
   DEF Goto, Stage, controlVars, fileVars, idleVars, loopVars, registryVars
<1>29. ASSUME NEW t \in Uploads, SendReady(t) PROVE Sessions'
  BY <1>1, <1>29
   DEF Goto, Send, SendReady, controlVars, fileVars, idleVars, loopVars,
         registryVars
<1>30. ASSUME NEW t \in Uploads, WriteChunk(t) PROVE Sessions'
  BY <1>1, <1>30
   DEF WriteChunk, controlVars, fileVars, idleVars, loopVars, registryVars
<1>31. ASSUME NEW t \in Uploads, TakeFinish(t) PROVE Sessions'
  BY <1>1, <1>31
   DEF BeginCommit, Goto, TakeFinish, controlVars, fileVars, idleVars, loopVars,
         registryVars
<1>32. ASSUME NEW t \in Uploads, Publish(t) PROVE Sessions'
  BY <1>1, <1>32
   DEF Goto, Publish, controlVars, fileVars, idleVars, loopVars, registryVars
<1>33. ASSUME NEW t \in Uploads, PublishFails(t) PROVE Sessions'
  BY <1>1, <1>33
   DEF Goto, PublishFails, controlVars, fileVars, idleVars, loopVars, registryVars
<1>34. ASSUME NEW t \in Uploads, CountUpload(t) PROVE Sessions'
  BY <1>1, <1>34
   DEF CountUpload, Goto, OfSession, controlVars, fileVars, idleVars, loopVars,
         registryVars
<1>35. CASE UNCHANGED jobVars
  BY <1>1, <1>35
   DEF controlVars, fileVars, idleVars, jobVars, loopVars, registryVars
<1> QED
  BY <1>1, <1>2, <1>3, <1>4, <1>5, <1>6, <1>7, <1>8, <1>9, <1>10, <1>11, <1>12,
     <1>13, <1>14, <1>15, <1>16, <1>17, <1>18, <1>19, <1>20, <1>21, <1>22, <1>23,
     <1>24, <1>25, <1>26, <1>27, <1>28, <1>29, <1>30, <1>31, <1>32, <1>33, <1>34,
     <1>35
   DEF JobsNext, AgentStep, Loop, Work, WorkUpload, Start

LEMMA ControlsStep == Shape /\ Controls /\ Files /\ [JobsNext]_jobVars => Controls'
<1> SUFFICES ASSUME Shape, Controls, Files, [JobsNext]_jobVars PROVE Controls'
  OBVIOUS
<1>1. CASE UNCHANGED <<worker, control, signalled, published>>
  BY <1>1 DEF Controls
<1>2. ASSUME NextSession PROVE Controls'
  BY <1>1, <1>2
   DEF NextSession, controlVars, fileVars, idleVars, loopVars, registryVars
<1>3. ASSUME FeedOn PROVE Controls'
  BY <1>1, <1>3
   DEF FeedOn, controlVars, fileVars, idleVars, loopVars, registryVars
<1>4. ASSUME FeedTimesOut PROVE Controls'
  <2>1. PICK u \in Uploads : RequestCancel(u, "Error")
    BY <1>4 DEF FeedTimesOut
  <2>2. u \in Ops
    BY DEF Ops
  <2>3. UNCHANGED <<worker, published>>
    BY <1>4 DEF FeedTimesOut, fileVars
  <2>4. CASE control[u] = "active"
    <3>1. /\ control' = [control EXCEPT ![u] = "Error"]
          /\ signalled' = signalled \cup {u}
      BY <2>1, <2>4 DEF RequestCancel
    <3>2. u \notin published /\ worker[u] \notin {"committing", "counting"}
      BY <2>2, <2>4 DEF Controls
    <3> QED
      BY <2>2, <2>3, <2>4, <3>1, <3>2 DEF Controls, Shape, Reasons, Terminals
  <2>5. CASE control[u] # "active"
    BY <1>1, <2>1, <2>3, <2>5 DEF RequestCancel, controlVars
  <2> QED
    BY <2>4, <2>5
<1>5. ASSUME FeedOrphaned PROVE Controls'
  BY <1>1, <1>5
   DEF FeedOrphaned, controlVars, fileVars, idleVars, loopVars, registryVars
<1>6. ASSUME EndSession PROVE Controls'
  BY <1>6, FileJobConstants
   DEF CancelAll, Controls, EndSession, Ending, Holding, Ops, Reasons, Shape,
         Terminals, controlVars, fileVars, idleVars, loopVars, registryVars
<1>7. ASSUME Drain PROVE Controls'
  BY <1>1, <1>7
   DEF Drain, HangUp, controlVars, fileVars, idleVars, loopVars, registryVars
<1>8. ASSUME Wake PROVE Controls'
  BY <1>1, <1>8
   DEF Wake, controlVars, fileVars, idleVars, loopVars, registryVars
<1>9. ASSUME DrainTimesOut PROVE Controls'
  BY <1>1, <1>9
   DEF DrainTimesOut, HangUp, controlVars, fileVars, idleVars, loopVars,
         registryVars
<1>10. ASSUME LinkLost PROVE Controls'
  BY <1>1, <1>10
   DEF HangUp, LinkLost, controlVars, fileVars, idleVars, loopVars, registryVars
<1>11. ASSUME Write PROVE Controls'
  BY <1>1, <1>11
   DEF Write, controlVars, fileVars, idleVars, loopVars, registryVars
<1>12. ASSUME NEW t \in Ops, Admit(t) PROVE Controls'
  BY <1>12, FileJobConstants
   DEF Admit, Controls, Ending, Holding, Listening, MayAdmit, Ops, Reasons, Shape,
         Terminals, controlVars, fileVars, idleVars, loopVars, registryVars
<1>13. ASSUME NEW t \in Ops, Refuse(t) PROVE Controls'
  BY <1>1, <1>13
   DEF Listening, Refuse, Reply, Room, controlVars, fileVars, idleVars, loopVars,
         registryVars
<1>14. ASSUME NEW t \in Ops, SpawnFails(t) PROVE Controls'
  BY <1>1, <1>14
   DEF Listening, Reply, Room, SpawnFails, controlVars, fileVars, idleVars,
         loopVars, registryVars
<1>15. ASSUME NEW t \in Ops, HandleCancel(t) PROVE Controls'
  BY SMTT(40), <1>15, FileJobConstants
   DEF Controls, Ending, HandleCancel, Holding, Listening, Ops, Reasons, Reply,
         RequestCancel, Room, Shape, Terminals, controlVars, fileVars, idleVars,
         loopVars, registryVars
<1>16. ASSUME NEW t \in Uploads, NEW c \in Commands, HandleCommand(t, c) PROVE Controls'
  BY <1>1, <1>16
   DEF HandleCommand, Listening, Reply, Room, controlVars, fileVars, idleVars,
         loopVars, registryVars
<1>17. ASSUME NEW t \in Ops, StopCancelled(t) PROVE Controls'
  BY <1>17, FileJobConstants
   DEF ClaimCancelled, Controls, Ending, Holding, Ops, Reasons, Shape,
         StopCancelled, Terminals, controlVars, fileVars, idleVars, loopVars,
         registryVars
<1>18. ASSUME NEW t \in Ops, StopWithError(t) PROVE Controls'
  BY <1>18, FileJobConstants
   DEF ClaimActive, Controls, Ending, Holding, Ops, Reasons, Shape, StopWithError,
         Terminals, controlVars, fileVars, idleVars, loopVars, registryVars
<1>19. ASSUME NEW t \in Ops, SendFails(t) PROVE Controls'
  BY ZenonT(60), <1>19, FileJobConstants
   DEF Controls, Ending, Files, Goto, Holding, OfSession, Ops, Reasons, SendFails,
         Shape, Terminals, Writing, controlVars, fileVars, idleVars, loopVars,
         registryVars
<1>20. ASSUME NEW t \in Ops, SendStart(t) PROVE Controls'
  BY <1>20, FileJobConstants
   DEF Controls, Ending, Goto, Holding, Ops, Reasons, Send, SendStart, Shape,
         Terminals, controlVars, fileVars, idleVars, loopVars, registryVars
<1>21. ASSUME NEW t \in Ops, SendChunk(t) PROVE Controls'
  BY <1>21, FileJobConstants
   DEF Controls, Ending, Goto, Holding, Ops, Reasons, Send, SendChunk, Shape,
         Terminals, controlVars, fileVars, idleVars, loopVars, registryVars
<1>22. ASSUME NEW t \in Ops, DownloadDone(t) PROVE Controls'
  BY <1>22, FileJobConstants
   DEF ClaimActive, Controls, DownloadDone, Ending, Holding, Ops, Reasons, Shape,
         Terminals, controlVars, fileVars, idleVars, loopVars, registryVars
<1>23. ASSUME NEW t \in Ops, SendAnswer(t) PROVE Controls'
  BY <1>23, FileJobConstants
   DEF Controls, Ending, Goto, Holding, OfSession, Ops, Reasons, SendAnswer,
         Shape, Terminals, controlVars, fileVars, idleVars, loopVars, registryVars
<1>24. ASSUME NEW t \in Ops, Release(t) PROVE Controls'
  BY <1>24, FileJobConstants
   DEF Controls, Ending, Goto, Holding, Ops, Reasons, Release, Shape, Terminals,
         controlVars, fileVars, idleVars, loopVars, registryVars
<1>25. ASSUME NEW t \in Ops, Leave(t) PROVE Controls'
  BY <1>25, FileJobConstants
   DEF Controls, Ending, Goto, Holding, Leave, OfSession, Ops, Reasons,
         RemoveIfCurrent, Shape, Terminals, controlVars, fileVars, idleVars,
         loopVars, registryVars
<1>26. ASSUME NEW t \in Ops, Notify(t) PROVE Controls'
  BY <1>26, FileJobConstants
   DEF Controls, Ending, Goto, Holding, Notify, OfSession, Ops, Reasons, Shape,
         Terminals, controlVars, fileVars, idleVars, loopVars, registryVars
<1>27. ASSUME NEW t \in Uploads, ReserveTarget(t) PROVE Controls'
  BY <1>27, FileJobConstants
   DEF Controls, Ending, Goto, Holding, Ops, Reasons, ReserveTarget, Shape,
         Terminals, controlVars, fileVars, idleVars, loopVars, registryVars
<1>28. ASSUME NEW t \in Uploads, Stage(t) PROVE Controls'
  BY <1>28, FileJobConstants
   DEF Controls, Ending, Files, Goto, Holding, Ops, Reasons, Shape, Stage,
         Terminals, Writing, controlVars, fileVars, idleVars, loopVars, registryVars
<1>29. ASSUME NEW t \in Uploads, SendReady(t) PROVE Controls'
  BY <1>29, FileJobConstants
   DEF Controls, Ending, Files, Goto, Holding, Ops, Reasons, Send, SendReady,
         Shape, Terminals, Writing, controlVars, fileVars, idleVars, loopVars,
         registryVars
<1>30. ASSUME NEW t \in Uploads, WriteChunk(t) PROVE Controls'
  BY <1>1, <1>30
   DEF WriteChunk, controlVars, fileVars, idleVars, loopVars, registryVars
<1>31. ASSUME NEW t \in Uploads, TakeFinish(t) PROVE Controls'
  BY <1>31, FileJobConstants
   DEF BeginCommit, Controls, Ending, Files, Goto, Holding, Ops, Reasons, Shape,
         TakeFinish, Terminals, Writing, controlVars, fileVars, idleVars, loopVars,
         registryVars
<1>32. ASSUME NEW t \in Uploads, Publish(t) PROVE Controls'
  BY <1>32, FileJobConstants
   DEF Controls, Ending, Goto, Holding, Ops, Publish, Reasons, Shape, Terminals,
         controlVars, fileVars, idleVars, loopVars, registryVars
<1>33. ASSUME NEW t \in Uploads, PublishFails(t) PROVE Controls'
  BY <1>33, FileJobConstants
   DEF Controls, Ending, Goto, Holding, Ops, PublishFails, Reasons, Shape,
         Terminals, controlVars, fileVars, idleVars, loopVars, registryVars
<1>34. ASSUME NEW t \in Uploads, CountUpload(t) PROVE Controls'
  BY <1>34, FileJobConstants
   DEF Controls, CountUpload, Ending, Goto, Holding, OfSession, Ops, Reasons,
         Shape, Terminals, controlVars, fileVars, idleVars, loopVars, registryVars
<1>35. CASE UNCHANGED jobVars
  BY <1>1, <1>35
   DEF controlVars, fileVars, idleVars, jobVars, loopVars, registryVars
<1> QED
  BY <1>1, <1>2, <1>3, <1>4, <1>5, <1>6, <1>7, <1>8, <1>9, <1>10, <1>11, <1>12,
     <1>13, <1>14, <1>15, <1>16, <1>17, <1>18, <1>19, <1>20, <1>21, <1>22, <1>23,
     <1>24, <1>25, <1>26, <1>27, <1>28, <1>29, <1>30, <1>31, <1>32, <1>33, <1>34,
     <1>35
   DEF JobsNext, AgentStep, Loop, Work, WorkUpload, Start

LEMMA AnswersStep == Shape /\ Controls /\ Answers /\ [JobsNext]_jobVars => Answers'
<1> SUFFICES ASSUME Shape, Controls, Answers, [JobsNext]_jobVars PROVE Answers'
  OBVIOUS
<1>1. CASE UNCHANGED <<worker, answer, published, signalled>>
  BY <1>1 DEF Answers, AnswersHonest
<1>2. ASSUME NextSession PROVE Answers'
  BY <1>1, <1>2
   DEF NextSession, controlVars, fileVars, idleVars, loopVars, registryVars
<1>3. ASSUME FeedOn PROVE Answers'
  BY <1>1, <1>3
   DEF FeedOn, controlVars, fileVars, idleVars, loopVars, registryVars
<1>4. ASSUME FeedTimesOut PROVE Answers'
  <2>1. PICK u \in Uploads : RequestCancel(u, "Error")
    BY <1>4 DEF FeedTimesOut
  <2>2. u \in Ops
    BY DEF Ops
  <2>3. /\ feeding' = None
        /\ UNCHANGED <<session, receiver, linked, failed, registryVars, idleVars, outgoing,
                       worker, sessionOf, answer, commands, permits, fileVars>>
    BY <1>4 DEF FeedTimesOut
  <2> QED
    BY SMTT(40), <2>1, <2>2, <2>3, FileJobConstants
     DEF Answers, AnswersHonest, Controls, Ending, Ops, Reasons, RequestCancel,
           Shape, Terminals, controlVars, fileVars, idleVars, loopVars, registryVars
<1>5. ASSUME FeedOrphaned PROVE Answers'
  BY <1>1, <1>5
   DEF FeedOrphaned, controlVars, fileVars, idleVars, loopVars, registryVars
<1>6. ASSUME EndSession PROVE Answers'
  BY <1>6, FileJobConstants
   DEF Answers, AnswersHonest, CancelAll, Controls, EndSession, Ending, Ops,
         Reasons, Shape, Terminals, controlVars, fileVars, idleVars, loopVars,
         registryVars
<1>7. ASSUME Drain PROVE Answers'
  BY <1>1, <1>7
   DEF Drain, HangUp, controlVars, fileVars, idleVars, loopVars, registryVars
<1>8. ASSUME Wake PROVE Answers'
  BY <1>1, <1>8
   DEF Wake, controlVars, fileVars, idleVars, loopVars, registryVars
<1>9. ASSUME DrainTimesOut PROVE Answers'
  BY <1>1, <1>9
   DEF DrainTimesOut, HangUp, controlVars, fileVars, idleVars, loopVars,
         registryVars
<1>10. ASSUME LinkLost PROVE Answers'
  BY <1>1, <1>10
   DEF HangUp, LinkLost, controlVars, fileVars, idleVars, loopVars, registryVars
<1>11. ASSUME Write PROVE Answers'
  BY <1>1, <1>11
   DEF Write, controlVars, fileVars, idleVars, loopVars, registryVars
<1>12. ASSUME NEW t \in Ops, Admit(t) PROVE Answers'
  BY <1>12, FileJobConstants
   DEF Admit, Answers, AnswersHonest, Controls, Ending, Listening, MayAdmit, Ops,
         Reasons, Shape, Terminals, controlVars, fileVars, idleVars, loopVars,
         registryVars
<1>13. ASSUME NEW t \in Ops, Refuse(t) PROVE Answers'
  BY <1>1, <1>13
   DEF Listening, Refuse, Reply, Room, controlVars, fileVars, idleVars, loopVars,
         registryVars
<1>14. ASSUME NEW t \in Ops, SpawnFails(t) PROVE Answers'
  BY <1>1, <1>14
   DEF Listening, Reply, Room, SpawnFails, controlVars, fileVars, idleVars,
         loopVars, registryVars
<1>15. ASSUME NEW t \in Ops, HandleCancel(t) PROVE Answers'
  BY SMTT(40), <1>15, FileJobConstants
   DEF Answers, AnswersHonest, Controls, Ending, HandleCancel, Listening, Ops,
         Reasons, Reply, RequestCancel, Room, Shape, Terminals, controlVars,
         fileVars, idleVars, loopVars, registryVars
<1>16. ASSUME NEW t \in Uploads, NEW c \in Commands, HandleCommand(t, c) PROVE Answers'
  BY <1>1, <1>16
   DEF HandleCommand, Listening, Reply, Room, controlVars, fileVars, idleVars,
         loopVars, registryVars
<1>17. ASSUME NEW t \in Ops, StopCancelled(t) PROVE Answers'
  BY <1>17, FileJobConstants
   DEF Answers, AnswersHonest, ClaimCancelled, Controls, Ending, Ops, Reasons,
         Shape, StopCancelled, Terminals, controlVars, fileVars, idleVars, loopVars,
         registryVars
<1>18. ASSUME NEW t \in Ops, StopWithError(t) PROVE Answers'
  BY <1>18, FileJobConstants
   DEF Answers, AnswersHonest, ClaimActive, Controls, Ending, Ops, Reasons, Shape,
         StopWithError, Terminals, controlVars, fileVars, idleVars, loopVars,
         registryVars
<1>19. ASSUME NEW t \in Ops, SendFails(t) PROVE Answers'
  BY <1>19, FileJobConstants
   DEF Answers, AnswersHonest, Controls, Ending, Goto, OfSession, Ops, Reasons,
         SendFails, Shape, Terminals, controlVars, fileVars, idleVars, loopVars,
         registryVars
<1>20. ASSUME NEW t \in Ops, SendStart(t) PROVE Answers'
  BY <1>20, FileJobConstants
   DEF Answers, AnswersHonest, Controls, Ending, Goto, Ops, Reasons, Send,
         SendStart, Shape, Terminals, controlVars, fileVars, idleVars, loopVars,
         registryVars
<1>21. ASSUME NEW t \in Ops, SendChunk(t) PROVE Answers'
  BY <1>21, FileJobConstants
   DEF Answers, AnswersHonest, Controls, Ending, Goto, Ops, Reasons, Send,
         SendChunk, Shape, Terminals, controlVars, fileVars, idleVars, loopVars,
         registryVars
<1>22. ASSUME NEW t \in Ops, DownloadDone(t) PROVE Answers'
  BY <1>22, FileJobConstants
   DEF Answers, AnswersHonest, ClaimActive, Controls, DownloadDone, Ending, Ops,
         Reasons, Shape, Terminals, controlVars, fileVars, idleVars, loopVars,
         registryVars
<1>23. ASSUME NEW t \in Ops, SendAnswer(t) PROVE Answers'
  BY <1>23, FileJobConstants
   DEF Answers, AnswersHonest, Controls, Ending, Goto, OfSession, Ops, Reasons,
         SendAnswer, Shape, Terminals, controlVars, fileVars, idleVars, loopVars,
         registryVars
<1>24. ASSUME NEW t \in Ops, Release(t) PROVE Answers'
  BY <1>24, FileJobConstants
   DEF Answers, AnswersHonest, Controls, Ending, Goto, Ops, Reasons, Release,
         Shape, Terminals, controlVars, fileVars, idleVars, loopVars, registryVars
<1>25. ASSUME NEW t \in Ops, Leave(t) PROVE Answers'
  BY <1>25, FileJobConstants
   DEF Answers, AnswersHonest, Controls, Ending, Goto, Leave, OfSession, Ops,
         Reasons, RemoveIfCurrent, Shape, Terminals, controlVars, fileVars,
         idleVars, loopVars, registryVars
<1>26. ASSUME NEW t \in Ops, Notify(t) PROVE Answers'
  BY <1>26, FileJobConstants
   DEF Answers, AnswersHonest, Controls, Ending, Goto, Notify, OfSession, Ops,
         Reasons, Shape, Terminals, controlVars, fileVars, idleVars, loopVars,
         registryVars
<1>27. ASSUME NEW t \in Uploads, ReserveTarget(t) PROVE Answers'
  BY <1>27, FileJobConstants
   DEF Answers, AnswersHonest, Controls, Ending, Goto, Ops, Reasons,
         ReserveTarget, Shape, Terminals, controlVars, fileVars, idleVars, loopVars,
         registryVars
<1>28. ASSUME NEW t \in Uploads, Stage(t) PROVE Answers'
  BY <1>28, FileJobConstants
   DEF Answers, AnswersHonest, Controls, Ending, Goto, Ops, Reasons, Shape, Stage,
         Terminals, controlVars, fileVars, idleVars, loopVars, registryVars
<1>29. ASSUME NEW t \in Uploads, SendReady(t) PROVE Answers'
  BY <1>29, FileJobConstants
   DEF Answers, AnswersHonest, Controls, Ending, Goto, Ops, Reasons, Send,
         SendReady, Shape, Terminals, controlVars, fileVars, idleVars, loopVars,
         registryVars
<1>30. ASSUME NEW t \in Uploads, WriteChunk(t) PROVE Answers'
  BY <1>1, <1>30
   DEF WriteChunk, controlVars, fileVars, idleVars, loopVars, registryVars
<1>31. ASSUME NEW t \in Uploads, TakeFinish(t) PROVE Answers'
  BY <1>31, FileJobConstants
   DEF Answers, AnswersHonest, BeginCommit, Controls, Ending, Goto, Ops, Reasons,
         Shape, TakeFinish, Terminals, controlVars, fileVars, idleVars, loopVars,
         registryVars
<1>32. ASSUME NEW t \in Uploads, Publish(t) PROVE Answers'
  BY <1>32, FileJobConstants
   DEF Answers, AnswersHonest, Controls, Ending, Goto, Ops, Publish, Reasons,
         Shape, Terminals, controlVars, fileVars, idleVars, loopVars, registryVars
<1>33. ASSUME NEW t \in Uploads, PublishFails(t) PROVE Answers'
  BY <1>33, FileJobConstants
   DEF Answers, AnswersHonest, Controls, Ending, Goto, Ops, PublishFails, Reasons,
         Shape, Terminals, controlVars, fileVars, idleVars, loopVars, registryVars
<1>34. ASSUME NEW t \in Uploads, CountUpload(t) PROVE Answers'
  BY <1>34, FileJobConstants
   DEF Answers, AnswersHonest, Controls, CountUpload, Ending, Goto, OfSession,
         Ops, Reasons, Shape, Terminals, controlVars, fileVars, idleVars, loopVars,
         registryVars
<1>35. CASE UNCHANGED jobVars
  BY <1>1, <1>35
   DEF controlVars, fileVars, idleVars, jobVars, loopVars, registryVars
<1> QED
  BY <1>1, <1>2, <1>3, <1>4, <1>5, <1>6, <1>7, <1>8, <1>9, <1>10, <1>11, <1>12,
     <1>13, <1>14, <1>15, <1>16, <1>17, <1>18, <1>19, <1>20, <1>21, <1>22, <1>23,
     <1>24, <1>25, <1>26, <1>27, <1>28, <1>29, <1>30, <1>31, <1>32, <1>33, <1>34,
     <1>35
   DEF JobsNext, AgentStep, Loop, Work, WorkUpload, Start

LEMMA FilesStep == Shape /\ Controls /\ Files /\ [JobsNext]_jobVars => Files'
<1> SUFFICES ASSUME Shape, Controls, Files, [JobsNext]_jobVars PROVE Files'
  OBVIOUS
<1>1. CASE UNCHANGED <<worker, targets, staged>>
  BY <1>1 DEF Files
<1>2. ASSUME NextSession PROVE Files'
  BY <1>1, <1>2
   DEF NextSession, controlVars, fileVars, idleVars, loopVars, registryVars
<1>3. ASSUME FeedOn PROVE Files'
  BY <1>1, <1>3
   DEF FeedOn, controlVars, fileVars, idleVars, loopVars, registryVars
<1>4. ASSUME FeedTimesOut PROVE Files'
  BY <1>1, <1>4
   DEF FeedTimesOut, RequestCancel, controlVars, fileVars, idleVars, loopVars,
         registryVars
<1>5. ASSUME FeedOrphaned PROVE Files'
  BY <1>1, <1>5
   DEF FeedOrphaned, controlVars, fileVars, idleVars, loopVars, registryVars
<1>6. ASSUME EndSession PROVE Files'
  BY <1>1, <1>6
   DEF CancelAll, EndSession, controlVars, fileVars, idleVars, loopVars,
         registryVars
<1>7. ASSUME Drain PROVE Files'
  BY <1>1, <1>7
   DEF Drain, HangUp, controlVars, fileVars, idleVars, loopVars, registryVars
<1>8. ASSUME Wake PROVE Files'
  BY <1>1, <1>8
   DEF Wake, controlVars, fileVars, idleVars, loopVars, registryVars
<1>9. ASSUME DrainTimesOut PROVE Files'
  BY <1>1, <1>9
   DEF DrainTimesOut, HangUp, controlVars, fileVars, idleVars, loopVars,
         registryVars
<1>10. ASSUME LinkLost PROVE Files'
  BY <1>1, <1>10
   DEF HangUp, LinkLost, controlVars, fileVars, idleVars, loopVars, registryVars
<1>11. ASSUME Write PROVE Files'
  BY <1>1, <1>11
   DEF Write, controlVars, fileVars, idleVars, loopVars, registryVars
<1>12. ASSUME NEW t \in Ops, Admit(t) PROVE Files'
  BY ZenonT(60), <1>12, FileJobConstants
   DEF Admit, Files, Holding, Listening, MayAdmit, Ops, Shape, Writing,
         controlVars, fileVars, idleVars, loopVars, registryVars
<1>13. ASSUME NEW t \in Ops, Refuse(t) PROVE Files'
  BY <1>1, <1>13
   DEF Listening, Refuse, Reply, Room, controlVars, fileVars, idleVars, loopVars,
         registryVars
<1>14. ASSUME NEW t \in Ops, SpawnFails(t) PROVE Files'
  BY <1>1, <1>14
   DEF Listening, Reply, Room, SpawnFails, controlVars, fileVars, idleVars,
         loopVars, registryVars
<1>15. ASSUME NEW t \in Ops, HandleCancel(t) PROVE Files'
  BY <1>1, <1>15
   DEF HandleCancel, Listening, Reply, RequestCancel, Room, controlVars, fileVars,
         idleVars, loopVars, registryVars
<1>16. ASSUME NEW t \in Uploads, NEW c \in Commands, HandleCommand(t, c) PROVE Files'
  BY <1>1, <1>16
   DEF HandleCommand, Listening, Reply, Room, controlVars, fileVars, idleVars,
         loopVars, registryVars
<1>17. ASSUME NEW t \in Ops, StopCancelled(t) PROVE Files'
  BY <1>17, FileJobConstants
   DEF ClaimCancelled, Files, Holding, Ops, Shape, StopCancelled, Writing,
         controlVars, fileVars, idleVars, loopVars, registryVars
<1>18. ASSUME NEW t \in Ops, StopWithError(t) PROVE Files'
  BY <1>18, FileJobConstants
   DEF ClaimActive, Files, Holding, Ops, Shape, StopWithError, Writing,
         controlVars, fileVars, idleVars, loopVars, registryVars
<1>19. ASSUME NEW t \in Ops, SendFails(t) PROVE Files'
  BY <1>19, FileJobConstants
   DEF Files, Goto, Holding, OfSession, Ops, SendFails, Shape, Writing,
         controlVars, fileVars, idleVars, loopVars, registryVars
<1>20. ASSUME NEW t \in Ops, SendStart(t) PROVE Files'
  BY <1>20, FileJobConstants
   DEF Files, Goto, Holding, Ops, Send, SendStart, Shape, Writing, controlVars,
         fileVars, idleVars, loopVars, registryVars
<1>21. ASSUME NEW t \in Ops, SendChunk(t) PROVE Files'
  BY <1>21, FileJobConstants
   DEF Files, Goto, Holding, Ops, Send, SendChunk, Shape, Writing, controlVars,
         fileVars, idleVars, loopVars, registryVars
<1>22. ASSUME NEW t \in Ops, DownloadDone(t) PROVE Files'
  BY <1>22, FileJobConstants
   DEF ClaimActive, DownloadDone, Files, Holding, Ops, Shape, Writing,
         controlVars, fileVars, idleVars, loopVars, registryVars
<1>23. ASSUME NEW t \in Ops, SendAnswer(t) PROVE Files'
  BY <1>23, FileJobConstants
   DEF Files, Goto, Holding, OfSession, Ops, SendAnswer, Shape, Writing,
         controlVars, fileVars, idleVars, loopVars, registryVars
<1>24. ASSUME NEW t \in Ops, Release(t) PROVE Files'
  BY <1>24, FileJobConstants
   DEF Files, Goto, Holding, Ops, Release, Shape, Writing, controlVars, fileVars,
         idleVars, loopVars, registryVars
<1>25. ASSUME NEW t \in Ops, Leave(t) PROVE Files'
  BY <1>25, FileJobConstants
   DEF Files, Goto, Holding, Leave, OfSession, Ops, RemoveIfCurrent, Shape,
         Writing, controlVars, fileVars, idleVars, loopVars, registryVars
<1>26. ASSUME NEW t \in Ops, Notify(t) PROVE Files'
  BY SMTT(40), <1>26, FileJobConstants
   DEF Files, Goto, Holding, Notify, OfSession, Ops, Shape, Writing, controlVars,
         fileVars, idleVars, loopVars, registryVars
<1>27. ASSUME NEW t \in Uploads, ReserveTarget(t) PROVE Files'
  BY SMTT(40), <1>27, FileJobConstants
   DEF Files, Goto, Holding, Ops, ReserveTarget, Shape, Writing, controlVars,
         fileVars, idleVars, loopVars, registryVars
<1>28. ASSUME NEW t \in Uploads, Stage(t) PROVE Files'
  BY SMTT(40), <1>28, FileJobConstants
   DEF Files, Goto, Holding, Ops, Shape, Stage, Writing, controlVars, fileVars,
         idleVars, loopVars, registryVars
<1>29. ASSUME NEW t \in Uploads, SendReady(t) PROVE Files'
  BY ZenonT(60), <1>29, FileJobConstants
   DEF Files, Goto, Holding, Ops, Send, SendReady, Shape, Writing, controlVars,
         fileVars, idleVars, loopVars, registryVars
<1>30. ASSUME NEW t \in Uploads, WriteChunk(t) PROVE Files'
  BY <1>1, <1>30
   DEF WriteChunk, controlVars, fileVars, idleVars, loopVars, registryVars
<1>31. ASSUME NEW t \in Uploads, TakeFinish(t) PROVE Files'
  BY <1>31, FileJobConstants
   DEF BeginCommit, Files, Goto, Holding, Ops, Shape, TakeFinish, Writing,
         controlVars, fileVars, idleVars, loopVars, registryVars
<1>32. ASSUME NEW t \in Uploads, Publish(t) PROVE Files'
  BY SMTT(40), <1>32, FileJobConstants
   DEF Files, Goto, Holding, Ops, Publish, Shape, Writing, controlVars, fileVars,
         idleVars, loopVars, registryVars
<1>33. ASSUME NEW t \in Uploads, PublishFails(t) PROVE Files'
  BY SMTT(40), <1>33, FileJobConstants
   DEF Files, Goto, Holding, Ops, PublishFails, Shape, Writing, controlVars,
         fileVars, idleVars, loopVars, registryVars
<1>34. ASSUME NEW t \in Uploads, CountUpload(t) PROVE Files'
  BY <1>34, FileJobConstants
   DEF CountUpload, Files, Goto, Holding, OfSession, Ops, Shape, Writing,
         controlVars, fileVars, idleVars, loopVars, registryVars
<1>35. CASE UNCHANGED jobVars
  BY <1>1, <1>35
   DEF controlVars, fileVars, idleVars, jobVars, loopVars, registryVars
<1> QED
  BY <1>1, <1>2, <1>3, <1>4, <1>5, <1>6, <1>7, <1>8, <1>9, <1>10, <1>11, <1>12,
     <1>13, <1>14, <1>15, <1>16, <1>17, <1>18, <1>19, <1>20, <1>21, <1>22, <1>23,
     <1>24, <1>25, <1>26, <1>27, <1>28, <1>29, <1>30, <1>31, <1>32, <1>33, <1>34,
     <1>35
   DEF JobsNext, AgentStep, Loop, Work, WorkUpload, Start

(***************************************************************************)
(* Counting.                                                               *)
(***************************************************************************)
LEMMA OpsFinite ==
    /\ IsFiniteSet(Ops)
    /\ \A S \in SUBSET Ops : IsFiniteSet(S)
<1>1. IsFiniteSet(Ops)
  BY FileJobConstants, FS_Union DEF Ops
<1> QED
  BY <1>1, FS_Subset

LEMMA Enters ==
    ASSUME NEW S \in SUBSET Ops, NEW t \in Ops, t \notin S
    PROVE  Cardinality(S \cup {t}) = Cardinality(S) + 1 /\ Cardinality(S) \in Nat
BY OpsFinite, FS_AddElement, FS_CardinalityType

LEMMA Exits ==
    ASSUME NEW S \in SUBSET Ops, NEW t \in S
    PROVE  Cardinality(S \ {t}) = Cardinality(S) - 1 /\ Cardinality(S) \in Nat
BY OpsFinite, FS_RemoveElement, FS_CardinalityType

LEMMA CountsStep == Shape /\ Sessions /\ Counts /\ [JobsNext]_jobVars => Counts'
<1> SUFFICES ASSUME Shape, Sessions, Counts, [JobsNext]_jobVars PROVE Counts'
  OBVIOUS
<1>1. CASE UNCHANGED <<session, sessionOf, worker, permits, inFlight>>
  BY <1>1 DEF Counts, Holders, InFlight, OfSession
<1>2. ASSUME NextSession PROVE Counts'
  <2>1. Holders' = Holders /\ permits' = permits /\ inFlight' = 0
    BY <1>2 DEF NextSession, Holders, fileVars
  <2>2. InFlight' = {}
    BY <1>2 DEF NextSession, InFlight, OfSession, Sessions, Shape
  <2> QED
    BY <2>1, <2>2, FS_EmptySet DEF Counts
<1>3. ASSUME FeedOn PROVE Counts'
  BY <1>1, <1>3
   DEF FeedOn, controlVars, fileVars, idleVars, loopVars, registryVars
<1>4. ASSUME FeedTimesOut PROVE Counts'
  BY <1>1, <1>4
   DEF FeedTimesOut, RequestCancel, controlVars, fileVars, idleVars, loopVars,
         registryVars
<1>5. ASSUME FeedOrphaned PROVE Counts'
  BY <1>1, <1>5
   DEF FeedOrphaned, controlVars, fileVars, idleVars, loopVars, registryVars
<1>6. ASSUME EndSession PROVE Counts'
  BY <1>1, <1>6
   DEF CancelAll, EndSession, controlVars, fileVars, idleVars, loopVars,
         registryVars
<1>7. ASSUME Drain PROVE Counts'
  BY <1>1, <1>7
   DEF Drain, HangUp, controlVars, fileVars, idleVars, loopVars, registryVars
<1>8. ASSUME Wake PROVE Counts'
  BY <1>1, <1>8
   DEF Wake, controlVars, fileVars, idleVars, loopVars, registryVars
<1>9. ASSUME DrainTimesOut PROVE Counts'
  BY <1>1, <1>9
   DEF DrainTimesOut, HangUp, controlVars, fileVars, idleVars, loopVars,
         registryVars
<1>10. ASSUME LinkLost PROVE Counts'
  BY <1>1, <1>10
   DEF HangUp, LinkLost, controlVars, fileVars, idleVars, loopVars, registryVars
<1>11. ASSUME Write PROVE Counts'
  BY <1>1, <1>11
   DEF Write, controlVars, fileVars, idleVars, loopVars, registryVars
<1>12. ASSUME NEW t \in Ops, Admit(t) PROVE Counts'
  <2>1. Holders' = Holders \cup {t} /\ t \notin Holders
    BY <1>12 DEF Admit, Holders, Holding, Shape
  <2>2. InFlight' = InFlight \cup {t} /\ t \notin InFlight
    BY <1>12 DEF Admit, InFlight, OfSession, Holding, Shape, loopVars
  <2>3. permits' = permits - 1 /\ inFlight' = inFlight + 1
    BY <1>12 DEF Admit
  <2>4. Holders \in SUBSET Ops /\ InFlight \in SUBSET Ops
    BY DEF Holders, InFlight
  <2>5. /\ Cardinality(Holders') = Cardinality(Holders) + 1 /\ Cardinality(Holders) \in Nat
        /\ Cardinality(InFlight') = Cardinality(InFlight) + 1
    BY <2>1, <2>2, <2>4, Enters
  <2> QED
    BY <2>3, <2>5, FileJobConstants DEF Counts, Shape
<1>13. ASSUME NEW t \in Ops, Refuse(t) PROVE Counts'
  BY <1>1, <1>13
   DEF Listening, Refuse, Reply, Room, controlVars, fileVars, idleVars, loopVars,
         registryVars
<1>14. ASSUME NEW t \in Ops, SpawnFails(t) PROVE Counts'
  BY <1>1, <1>14
   DEF Listening, Reply, Room, SpawnFails, controlVars, fileVars, idleVars,
         loopVars, registryVars
<1>15. ASSUME NEW t \in Ops, HandleCancel(t) PROVE Counts'
  BY <1>1, <1>15
   DEF HandleCancel, Listening, Reply, RequestCancel, Room, controlVars, fileVars,
         idleVars, loopVars, registryVars
<1>16. ASSUME NEW t \in Uploads, NEW c \in Commands, HandleCommand(t, c) PROVE Counts'
  BY <1>1, <1>16
   DEF HandleCommand, Listening, Reply, Room, controlVars, fileVars, idleVars,
         loopVars, registryVars
<1>17. ASSUME NEW t \in Ops, StopCancelled(t) PROVE Counts'
  <2>1. Holders' = Holders /\ InFlight' = InFlight /\ permits' = permits /\ inFlight' = inFlight
    BY <1>17
     DEF ClaimCancelled, Holders, Holding, InFlight, OfSession, Ops, Shape,
           StopCancelled, controlVars, fileVars, idleVars, loopVars, registryVars
  <2> QED
    BY <2>1 DEF Counts
<1>18. ASSUME NEW t \in Ops, StopWithError(t) PROVE Counts'
  <2>1. Holders' = Holders /\ InFlight' = InFlight /\ permits' = permits /\ inFlight' = inFlight
    BY <1>18
     DEF ClaimActive, Holders, Holding, InFlight, OfSession, Ops, Shape,
           StopWithError, controlVars, fileVars, idleVars, loopVars, registryVars
  <2> QED
    BY <2>1 DEF Counts
<1>19. ASSUME NEW t \in Ops, SendFails(t) PROVE Counts'
  <2>1. Holders' = Holders /\ InFlight' = InFlight /\ permits' = permits /\ inFlight' = inFlight
    BY <1>19
     DEF Goto, Holders, Holding, InFlight, OfSession, Ops, SendFails, Shape,
           controlVars, fileVars, idleVars, loopVars, registryVars
  <2> QED
    BY <2>1 DEF Counts
<1>20. ASSUME NEW t \in Ops, SendStart(t) PROVE Counts'
  <2>1. Holders' = Holders /\ InFlight' = InFlight /\ permits' = permits /\ inFlight' = inFlight
    BY <1>20
     DEF Goto, Holders, Holding, InFlight, OfSession, Ops, Send, SendStart, Shape,
           controlVars, fileVars, idleVars, loopVars, registryVars
  <2> QED
    BY <2>1 DEF Counts
<1>21. ASSUME NEW t \in Ops, SendChunk(t) PROVE Counts'
  <2>1. Holders' = Holders /\ InFlight' = InFlight /\ permits' = permits /\ inFlight' = inFlight
    BY <1>21
     DEF Goto, Holders, Holding, InFlight, OfSession, Ops, Send, SendChunk, Shape,
           controlVars, fileVars, idleVars, loopVars, registryVars
  <2> QED
    BY <2>1 DEF Counts
<1>22. ASSUME NEW t \in Ops, DownloadDone(t) PROVE Counts'
  <2>1. Holders' = Holders /\ InFlight' = InFlight /\ permits' = permits /\ inFlight' = inFlight
    BY <1>22
     DEF ClaimActive, DownloadDone, Holders, Holding, InFlight, OfSession, Ops,
           Shape, controlVars, fileVars, idleVars, loopVars, registryVars
  <2> QED
    BY <2>1 DEF Counts
<1>23. ASSUME NEW t \in Ops, SendAnswer(t) PROVE Counts'
  <2>1. Holders' = Holders /\ InFlight' = InFlight /\ permits' = permits /\ inFlight' = inFlight
    BY <1>23
     DEF Goto, Holders, Holding, InFlight, OfSession, Ops, SendAnswer, Shape,
           controlVars, fileVars, idleVars, loopVars, registryVars
  <2> QED
    BY <2>1 DEF Counts
<1>24. ASSUME NEW t \in Ops, Release(t) PROVE Counts'
  <2>1. Holders' = Holders \ {t} /\ t \in Holders
    BY <1>24 DEF Release, Goto, Holders, Holding, Shape
  <2>2. InFlight' = InFlight /\ inFlight' = inFlight /\ permits' = permits + 1
    BY <1>24 DEF Release, Goto, InFlight, OfSession, Holding, Shape, loopVars, idleVars
  <2>3. Holders \in SUBSET Ops
    BY DEF Holders
  <2>4. Cardinality(Holders') = Cardinality(Holders) - 1 /\ Cardinality(Holders) \in Nat
    BY <2>1, <2>3, Exits
  <2> QED
    BY <2>2, <2>4, FileJobConstants DEF Counts, Shape
<1>25. ASSUME NEW t \in Ops, Leave(t) PROVE Counts'
  <2>1. Holders' = Holders /\ permits' = permits
    BY <1>25 DEF Leave, Goto, Holders, Holding, Shape
  <2>2. InFlight \in SUBSET Ops
    BY DEF InFlight
  <2>3. CASE OfSession(t)
    <3>1. InFlight' = InFlight \ {t} /\ t \in InFlight /\ inFlight' = inFlight - 1
      BY <1>25, <2>3 DEF Leave, Goto, InFlight, OfSession, Holding, Shape, loopVars
    <3>2. Cardinality(InFlight') = Cardinality(InFlight) - 1 /\ Cardinality(InFlight) \in Nat
      BY <2>2, <3>1, Exits
    <3> QED
      BY <2>1, <3>1, <3>2 DEF Counts
  <2>4. CASE ~OfSession(t)
    <3>1. InFlight' = InFlight /\ inFlight' = inFlight
      BY <1>25, <2>4 DEF Leave, Goto, InFlight, OfSession, Holding, Shape, loopVars
    <3> QED
      BY <2>1, <3>1 DEF Counts
  <2> QED
    BY <2>3, <2>4
<1>26. ASSUME NEW t \in Ops, Notify(t) PROVE Counts'
  <2>1. Holders' = Holders /\ InFlight' = InFlight /\ permits' = permits /\ inFlight' = inFlight
    BY <1>26
     DEF Goto, Holders, Holding, InFlight, Notify, OfSession, Ops, Shape,
           controlVars, fileVars, idleVars, loopVars, registryVars
  <2> QED
    BY <2>1 DEF Counts
<1>27. ASSUME NEW t \in Uploads, ReserveTarget(t) PROVE Counts'
  <2>1. Holders' = Holders /\ InFlight' = InFlight /\ permits' = permits /\ inFlight' = inFlight
    BY <1>27
     DEF Goto, Holders, Holding, InFlight, OfSession, Ops, ReserveTarget, Shape,
           controlVars, fileVars, idleVars, loopVars, registryVars
  <2> QED
    BY <2>1 DEF Counts
<1>28. ASSUME NEW t \in Uploads, Stage(t) PROVE Counts'
  <2>1. Holders' = Holders /\ InFlight' = InFlight /\ permits' = permits /\ inFlight' = inFlight
    BY <1>28
     DEF Goto, Holders, Holding, InFlight, OfSession, Ops, Shape, Stage,
           controlVars, fileVars, idleVars, loopVars, registryVars
  <2> QED
    BY <2>1 DEF Counts
<1>29. ASSUME NEW t \in Uploads, SendReady(t) PROVE Counts'
  <2>1. Holders' = Holders /\ InFlight' = InFlight /\ permits' = permits /\ inFlight' = inFlight
    BY <1>29
     DEF Goto, Holders, Holding, InFlight, OfSession, Ops, Send, SendReady, Shape,
           controlVars, fileVars, idleVars, loopVars, registryVars
  <2> QED
    BY <2>1 DEF Counts
<1>30. ASSUME NEW t \in Uploads, WriteChunk(t) PROVE Counts'
  BY <1>1, <1>30
   DEF WriteChunk, controlVars, fileVars, idleVars, loopVars, registryVars
<1>31. ASSUME NEW t \in Uploads, TakeFinish(t) PROVE Counts'
  <2>1. Holders' = Holders /\ InFlight' = InFlight /\ permits' = permits /\ inFlight' = inFlight
    BY <1>31
     DEF BeginCommit, Goto, Holders, Holding, InFlight, OfSession, Ops, Shape,
           TakeFinish, controlVars, fileVars, idleVars, loopVars, registryVars
  <2> QED
    BY <2>1 DEF Counts
<1>32. ASSUME NEW t \in Uploads, Publish(t) PROVE Counts'
  <2>1. Holders' = Holders /\ InFlight' = InFlight /\ permits' = permits /\ inFlight' = inFlight
    BY <1>32
     DEF Goto, Holders, Holding, InFlight, OfSession, Ops, Publish, Shape,
           controlVars, fileVars, idleVars, loopVars, registryVars
  <2> QED
    BY <2>1 DEF Counts
<1>33. ASSUME NEW t \in Uploads, PublishFails(t) PROVE Counts'
  <2>1. Holders' = Holders /\ InFlight' = InFlight /\ permits' = permits /\ inFlight' = inFlight
    BY <1>33
     DEF Goto, Holders, Holding, InFlight, OfSession, Ops, PublishFails, Shape,
           controlVars, fileVars, idleVars, loopVars, registryVars
  <2> QED
    BY <2>1 DEF Counts
<1>34. ASSUME NEW t \in Uploads, CountUpload(t) PROVE Counts'
  <2>1. Holders' = Holders /\ InFlight' = InFlight /\ permits' = permits /\ inFlight' = inFlight
    BY <1>34
     DEF CountUpload, Goto, Holders, Holding, InFlight, OfSession, Ops, Shape,
           controlVars, fileVars, idleVars, loopVars, registryVars
  <2> QED
    BY <2>1 DEF Counts
<1>35. CASE UNCHANGED jobVars
  BY <1>1, <1>35
   DEF controlVars, fileVars, idleVars, jobVars, loopVars, registryVars
<1> QED
  BY <1>1, <1>2, <1>3, <1>4, <1>5, <1>6, <1>7, <1>8, <1>9, <1>10, <1>11, <1>12,
     <1>13, <1>14, <1>15, <1>16, <1>17, <1>18, <1>19, <1>20, <1>21, <1>22, <1>23,
     <1>24, <1>25, <1>26, <1>27, <1>28, <1>29, <1>30, <1>31, <1>32, <1>33, <1>34,
     <1>35
   DEF JobsNext, AgentStep, Loop, Work, WorkUpload, Start

(***************************************************************************)
(* The end of a session.                                                   *)
(***************************************************************************)
LEMMA DrainedStep == Shape /\ Counts /\ Drained /\ [JobsNext]_jobVars => Drained'
<1> SUFFICES ASSUME Shape, Counts, Drained, [JobsNext]_jobVars PROVE Drained'
  OBVIOUS
<1>1. CASE UNCHANGED <<receiver, inFlight>>
  BY <1>1 DEF Drained
<1>2. ASSUME NextSession PROVE Drained'
  BY <1>2
   DEF Drained, NextSession, controlVars, fileVars, idleVars, loopVars,
         registryVars
<1>3. ASSUME FeedOn PROVE Drained'
  BY <1>1, <1>3
   DEF FeedOn, controlVars, fileVars, idleVars, loopVars, registryVars
<1>4. ASSUME FeedTimesOut PROVE Drained'
  BY <1>1, <1>4
   DEF FeedTimesOut, RequestCancel, controlVars, fileVars, idleVars, loopVars,
         registryVars
<1>5. ASSUME FeedOrphaned PROVE Drained'
  BY <1>1, <1>5
   DEF FeedOrphaned, controlVars, fileVars, idleVars, loopVars, registryVars
<1>6. ASSUME EndSession PROVE Drained'
  BY <1>6
   DEF CancelAll, Drained, EndSession, controlVars, fileVars, idleVars, loopVars,
         registryVars
<1>7. ASSUME Drain PROVE Drained'
  BY <1>7
   DEF Drain, Drained, HangUp, controlVars, fileVars, idleVars, loopVars,
         registryVars
<1>8. ASSUME Wake PROVE Drained'
  BY <1>8
   DEF Drained, Wake, controlVars, fileVars, idleVars, loopVars, registryVars
<1>9. ASSUME DrainTimesOut PROVE Drained'
  BY <1>9
   DEF DrainTimesOut, Drained, HangUp, controlVars, fileVars, idleVars, loopVars,
         registryVars
<1>10. ASSUME LinkLost PROVE Drained'
  BY <1>1, <1>10
   DEF HangUp, LinkLost, controlVars, fileVars, idleVars, loopVars, registryVars
<1>11. ASSUME Write PROVE Drained'
  BY <1>1, <1>11
   DEF Write, controlVars, fileVars, idleVars, loopVars, registryVars
<1>12. ASSUME NEW t \in Ops, Admit(t) PROVE Drained'
  BY <1>12
   DEF Admit, Drained, Listening, MayAdmit, controlVars, fileVars, idleVars,
         loopVars, registryVars
<1>13. ASSUME NEW t \in Ops, Refuse(t) PROVE Drained'
  BY <1>1, <1>13
   DEF Listening, Refuse, Reply, Room, controlVars, fileVars, idleVars, loopVars,
         registryVars
<1>14. ASSUME NEW t \in Ops, SpawnFails(t) PROVE Drained'
  BY <1>1, <1>14
   DEF Listening, Reply, Room, SpawnFails, controlVars, fileVars, idleVars,
         loopVars, registryVars
<1>15. ASSUME NEW t \in Ops, HandleCancel(t) PROVE Drained'
  BY <1>1, <1>15
   DEF HandleCancel, Listening, Reply, RequestCancel, Room, controlVars, fileVars,
         idleVars, loopVars, registryVars
<1>16. ASSUME NEW t \in Uploads, NEW c \in Commands, HandleCommand(t, c) PROVE Drained'
  BY <1>1, <1>16
   DEF HandleCommand, Listening, Reply, Room, controlVars, fileVars, idleVars,
         loopVars, registryVars
<1>17. ASSUME NEW t \in Ops, StopCancelled(t) PROVE Drained'
  BY <1>1, <1>17
   DEF ClaimCancelled, StopCancelled, controlVars, fileVars, idleVars, loopVars,
         registryVars
<1>18. ASSUME NEW t \in Ops, StopWithError(t) PROVE Drained'
  BY <1>1, <1>18
   DEF ClaimActive, StopWithError, controlVars, fileVars, idleVars, loopVars,
         registryVars
<1>19. ASSUME NEW t \in Ops, SendFails(t) PROVE Drained'
  BY <1>1, <1>19
   DEF Goto, OfSession, SendFails, controlVars, fileVars, idleVars, loopVars,
         registryVars
<1>20. ASSUME NEW t \in Ops, SendStart(t) PROVE Drained'
  BY <1>1, <1>20
   DEF Goto, Send, SendStart, controlVars, fileVars, idleVars, loopVars,
         registryVars
<1>21. ASSUME NEW t \in Ops, SendChunk(t) PROVE Drained'
  BY <1>1, <1>21
   DEF Goto, Send, SendChunk, controlVars, fileVars, idleVars, loopVars,
         registryVars
<1>22. ASSUME NEW t \in Ops, DownloadDone(t) PROVE Drained'
  BY <1>1, <1>22
   DEF ClaimActive, DownloadDone, controlVars, fileVars, idleVars, loopVars,
         registryVars
<1>23. ASSUME NEW t \in Ops, SendAnswer(t) PROVE Drained'
  BY <1>1, <1>23
   DEF Goto, OfSession, SendAnswer, controlVars, fileVars, idleVars, loopVars,
         registryVars
<1>24. ASSUME NEW t \in Ops, Release(t) PROVE Drained'
  BY <1>1, <1>24
   DEF Goto, Release, controlVars, fileVars, idleVars, loopVars, registryVars
<1>25. ASSUME NEW t \in Ops, Leave(t) PROVE Drained'
  <2>1. CASE OfSession(t)
    <3>1. t \in InFlight /\ InFlight \in SUBSET Ops
      BY <1>25, <2>1 DEF Leave, InFlight, Holding
    <3>2. InFlight # {} /\ IsFiniteSet(InFlight)
      BY <3>1, OpsFinite
    <3>3. inFlight # 0
      BY <3>2, FS_EmptySet DEF Counts
    <3> QED
      BY <1>25, <3>3 DEF Leave, Drained, loopVars
  <2>2. CASE ~OfSession(t)
    BY <1>25, <2>2 DEF Leave, Drained, loopVars
  <2> QED
    BY <2>1, <2>2
<1>26. ASSUME NEW t \in Ops, Notify(t) PROVE Drained'
  BY <1>1, <1>26
   DEF Goto, Notify, OfSession, controlVars, fileVars, idleVars, loopVars,
         registryVars
<1>27. ASSUME NEW t \in Uploads, ReserveTarget(t) PROVE Drained'
  BY <1>1, <1>27
   DEF Goto, ReserveTarget, controlVars, fileVars, idleVars, loopVars,
         registryVars
<1>28. ASSUME NEW t \in Uploads, Stage(t) PROVE Drained'
  BY <1>1, <1>28
   DEF Goto, Stage, controlVars, fileVars, idleVars, loopVars, registryVars
<1>29. ASSUME NEW t \in Uploads, SendReady(t) PROVE Drained'
  BY <1>1, <1>29
   DEF Goto, Send, SendReady, controlVars, fileVars, idleVars, loopVars,
         registryVars
<1>30. ASSUME NEW t \in Uploads, WriteChunk(t) PROVE Drained'
  BY <1>1, <1>30
   DEF WriteChunk, controlVars, fileVars, idleVars, loopVars, registryVars
<1>31. ASSUME NEW t \in Uploads, TakeFinish(t) PROVE Drained'
  BY <1>1, <1>31
   DEF BeginCommit, Goto, TakeFinish, controlVars, fileVars, idleVars, loopVars,
         registryVars
<1>32. ASSUME NEW t \in Uploads, Publish(t) PROVE Drained'
  BY <1>1, <1>32
   DEF Goto, Publish, controlVars, fileVars, idleVars, loopVars, registryVars
<1>33. ASSUME NEW t \in Uploads, PublishFails(t) PROVE Drained'
  BY <1>1, <1>33
   DEF Goto, PublishFails, controlVars, fileVars, idleVars, loopVars, registryVars
<1>34. ASSUME NEW t \in Uploads, CountUpload(t) PROVE Drained'
  BY <1>1, <1>34
   DEF CountUpload, Goto, OfSession, controlVars, fileVars, idleVars, loopVars,
         registryVars
<1>35. CASE UNCHANGED jobVars
  BY <1>1, <1>35
   DEF controlVars, fileVars, idleVars, jobVars, loopVars, registryVars
<1> QED
  BY <1>1, <1>2, <1>3, <1>4, <1>5, <1>6, <1>7, <1>8, <1>9, <1>10, <1>11, <1>12,
     <1>13, <1>14, <1>15, <1>16, <1>17, <1>18, <1>19, <1>20, <1>21, <1>22, <1>23,
     <1>24, <1>25, <1>26, <1>27, <1>28, <1>29, <1>30, <1>31, <1>32, <1>33, <1>34,
     <1>35
   DEF JobsNext, AgentStep, Loop, Work, WorkUpload, Start

LEMMA WakeupStep == Shape /\ Flags /\ NoLostWakeup /\ [JobsNext]_jobVars => NoLostWakeup'
<1> SUFFICES ASSUME Shape, Flags, NoLostWakeup, [JobsNext]_jobVars PROVE NoLostWakeup'
  OBVIOUS
<1>1. CASE UNCHANGED <<session, receiver, inFlight, settled, sessionOf, worker>>
  BY <1>1 DEF NoLostWakeup, OfSession
<1>2. ASSUME NextSession PROVE NoLostWakeup'
  BY <1>2
   DEF Ending, Holding, NextSession, NoLostWakeup, OfSession, Ops, Phases, Shape,
         controlVars, fileVars, idleVars, loopVars, registryVars
<1>3. ASSUME FeedOn PROVE NoLostWakeup'
  BY <1>1, <1>3
   DEF FeedOn, controlVars, fileVars, idleVars, loopVars, registryVars
<1>4. ASSUME FeedTimesOut PROVE NoLostWakeup'
  BY <1>1, <1>4
   DEF FeedTimesOut, RequestCancel, controlVars, fileVars, idleVars, loopVars,
         registryVars
<1>5. ASSUME FeedOrphaned PROVE NoLostWakeup'
  BY <1>1, <1>5
   DEF FeedOrphaned, controlVars, fileVars, idleVars, loopVars, registryVars
<1>6. ASSUME EndSession PROVE NoLostWakeup'
  BY <1>6
   DEF CancelAll, EndSession, Ending, Holding, NoLostWakeup, OfSession, Ops,
         Phases, Shape, controlVars, fileVars, idleVars, loopVars, registryVars
<1>7. ASSUME Drain PROVE NoLostWakeup'
  BY <1>7
   DEF Drain, Ending, HangUp, Holding, NoLostWakeup, OfSession, Ops, Phases,
         Shape, controlVars, fileVars, idleVars, loopVars, registryVars
<1>8. ASSUME Wake PROVE NoLostWakeup'
  BY <1>8
   DEF Ending, Holding, NoLostWakeup, OfSession, Ops, Phases, Shape, Wake,
         controlVars, fileVars, idleVars, loopVars, registryVars
<1>9. ASSUME DrainTimesOut PROVE NoLostWakeup'
  BY <1>9
   DEF DrainTimesOut, Ending, HangUp, Holding, NoLostWakeup, OfSession, Ops,
         Phases, Shape, controlVars, fileVars, idleVars, loopVars, registryVars
<1>10. ASSUME LinkLost PROVE NoLostWakeup'
  BY <1>1, <1>10
   DEF HangUp, LinkLost, controlVars, fileVars, idleVars, loopVars, registryVars
<1>11. ASSUME Write PROVE NoLostWakeup'
  BY <1>1, <1>11
   DEF Write, controlVars, fileVars, idleVars, loopVars, registryVars
<1>12. ASSUME NEW t \in Ops, Admit(t) PROVE NoLostWakeup'
  BY <1>12
   DEF Admit, Ending, Holding, Listening, MayAdmit, NoLostWakeup, OfSession, Ops,
         Phases, Shape, controlVars, fileVars, idleVars, loopVars, registryVars
<1>13. ASSUME NEW t \in Ops, Refuse(t) PROVE NoLostWakeup'
  BY <1>1, <1>13
   DEF Listening, Refuse, Reply, Room, controlVars, fileVars, idleVars, loopVars,
         registryVars
<1>14. ASSUME NEW t \in Ops, SpawnFails(t) PROVE NoLostWakeup'
  BY <1>14
   DEF Ending, Holding, Listening, NoLostWakeup, OfSession, Ops, Phases, Reply,
         Room, Shape, SpawnFails, controlVars, fileVars, idleVars, loopVars,
         registryVars
<1>15. ASSUME NEW t \in Ops, HandleCancel(t) PROVE NoLostWakeup'
  BY <1>1, <1>15
   DEF HandleCancel, Listening, Reply, RequestCancel, Room, controlVars, fileVars,
         idleVars, loopVars, registryVars
<1>16. ASSUME NEW t \in Uploads, NEW c \in Commands, HandleCommand(t, c) PROVE NoLostWakeup'
  BY <1>1, <1>16
   DEF HandleCommand, Listening, Reply, Room, controlVars, fileVars, idleVars,
         loopVars, registryVars
<1>17. ASSUME NEW t \in Ops, StopCancelled(t) PROVE NoLostWakeup'
  BY <1>17
   DEF ClaimCancelled, Ending, Holding, NoLostWakeup, OfSession, Ops, Phases,
         Shape, StopCancelled, controlVars, fileVars, idleVars, loopVars,
         registryVars
<1>18. ASSUME NEW t \in Ops, StopWithError(t) PROVE NoLostWakeup'
  BY <1>18
   DEF ClaimActive, Ending, Holding, NoLostWakeup, OfSession, Ops, Phases, Shape,
         StopWithError, controlVars, fileVars, idleVars, loopVars, registryVars
<1>19. ASSUME NEW t \in Ops, SendFails(t) PROVE NoLostWakeup'
  BY <1>19
   DEF Ending, Goto, Holding, NoLostWakeup, OfSession, Ops, Phases, SendFails,
         Shape, controlVars, fileVars, idleVars, loopVars, registryVars
<1>20. ASSUME NEW t \in Ops, SendStart(t) PROVE NoLostWakeup'
  BY <1>20
   DEF Ending, Goto, Holding, NoLostWakeup, OfSession, Ops, Phases, Send,
         SendStart, Shape, controlVars, fileVars, idleVars, loopVars, registryVars
<1>21. ASSUME NEW t \in Ops, SendChunk(t) PROVE NoLostWakeup'
  BY <1>21
   DEF Ending, Goto, Holding, NoLostWakeup, OfSession, Ops, Phases, Send,
         SendChunk, Shape, controlVars, fileVars, idleVars, loopVars, registryVars
<1>22. ASSUME NEW t \in Ops, DownloadDone(t) PROVE NoLostWakeup'
  BY <1>22
   DEF ClaimActive, DownloadDone, Ending, Holding, NoLostWakeup, OfSession, Ops,
         Phases, Shape, controlVars, fileVars, idleVars, loopVars, registryVars
<1>23. ASSUME NEW t \in Ops, SendAnswer(t) PROVE NoLostWakeup'
  BY <1>23
   DEF Ending, Goto, Holding, NoLostWakeup, OfSession, Ops, Phases, SendAnswer,
         Shape, controlVars, fileVars, idleVars, loopVars, registryVars
<1>24. ASSUME NEW t \in Ops, Release(t) PROVE NoLostWakeup'
  BY <1>24
   DEF Ending, Goto, Holding, NoLostWakeup, OfSession, Ops, Phases, Release,
         Shape, controlVars, fileVars, idleVars, loopVars, registryVars
<1>25. ASSUME NEW t \in Ops, Leave(t) PROVE NoLostWakeup'
  BY <1>25
   DEF Ending, Goto, Holding, Leave, NoLostWakeup, OfSession, Ops, Phases,
         RemoveIfCurrent, Shape, controlVars, fileVars, idleVars, loopVars,
         registryVars
<1>26. ASSUME NEW t \in Ops, Notify(t) PROVE NoLostWakeup'
  BY <1>26
   DEF Ending, Goto, Holding, NoLostWakeup, Notify, OfSession, Ops, Phases, Shape,
         controlVars, fileVars, idleVars, loopVars, registryVars
<1>27. ASSUME NEW t \in Uploads, ReserveTarget(t) PROVE NoLostWakeup'
  BY <1>27
   DEF Ending, Goto, Holding, NoLostWakeup, OfSession, Ops, Phases, ReserveTarget,
         Shape, controlVars, fileVars, idleVars, loopVars, registryVars
<1>28. ASSUME NEW t \in Uploads, Stage(t) PROVE NoLostWakeup'
  BY <1>28
   DEF Ending, Goto, Holding, NoLostWakeup, OfSession, Ops, Phases, Shape, Stage,
         controlVars, fileVars, idleVars, loopVars, registryVars
<1>29. ASSUME NEW t \in Uploads, SendReady(t) PROVE NoLostWakeup'
  BY <1>29
   DEF Ending, Goto, Holding, NoLostWakeup, OfSession, Ops, Phases, Send,
         SendReady, Shape, controlVars, fileVars, idleVars, loopVars, registryVars
<1>30. ASSUME NEW t \in Uploads, WriteChunk(t) PROVE NoLostWakeup'
  BY <1>1, <1>30
   DEF WriteChunk, controlVars, fileVars, idleVars, loopVars, registryVars
<1>31. ASSUME NEW t \in Uploads, TakeFinish(t) PROVE NoLostWakeup'
  BY <1>31
   DEF BeginCommit, Ending, Goto, Holding, NoLostWakeup, OfSession, Ops, Phases,
         Shape, TakeFinish, controlVars, fileVars, idleVars, loopVars, registryVars
<1>32. ASSUME NEW t \in Uploads, Publish(t) PROVE NoLostWakeup'
  BY <1>32
   DEF Ending, Goto, Holding, NoLostWakeup, OfSession, Ops, Phases, Publish,
         Shape, controlVars, fileVars, idleVars, loopVars, registryVars
<1>33. ASSUME NEW t \in Uploads, PublishFails(t) PROVE NoLostWakeup'
  BY <1>33
   DEF Ending, Goto, Holding, NoLostWakeup, OfSession, Ops, Phases, PublishFails,
         Shape, controlVars, fileVars, idleVars, loopVars, registryVars
<1>34. ASSUME NEW t \in Uploads, CountUpload(t) PROVE NoLostWakeup'
  BY <1>34
   DEF CountUpload, Ending, Goto, Holding, NoLostWakeup, OfSession, Ops, Phases,
         Shape, controlVars, fileVars, idleVars, loopVars, registryVars
<1>35. CASE UNCHANGED jobVars
  BY <1>1, <1>35
   DEF controlVars, fileVars, idleVars, jobVars, loopVars, registryVars
<1> QED
  BY <1>1, <1>2, <1>3, <1>4, <1>5, <1>6, <1>7, <1>8, <1>9, <1>10, <1>11, <1>12,
     <1>13, <1>14, <1>15, <1>16, <1>17, <1>18, <1>19, <1>20, <1>21, <1>22, <1>23,
     <1>24, <1>25, <1>26, <1>27, <1>28, <1>29, <1>30, <1>31, <1>32, <1>33, <1>34,
     <1>35
   DEF JobsNext, AgentStep, Loop, Work, WorkUpload, Start

(***************************************************************************)
(* The theorems.                                                           *)
(***************************************************************************)
LEMMA RestInit == JobsInit => Counts /\ Sessions /\ Controls /\ Answers /\ Files
                              /\ Drained /\ NoLostWakeup
<1> SUFFICES ASSUME JobsInit
             PROVE  Counts /\ Sessions /\ Controls /\ Answers /\ Files /\ Drained
                    /\ NoLostWakeup
  OBVIOUS
<1>1. Counts
  <2>1. Holders = {} /\ InFlight = {}
    BY DEF JobsInit, Holders, InFlight, Holding
  <2> QED
    BY <2>1, FS_EmptySet, FileJobConstants DEF JobsInit, Counts
<1>2. Sessions /\ Drained /\ NoLostWakeup
  BY DEF JobsInit, Sessions, Drained, NoLostWakeup
<1>3. Controls
  BY DEF JobsInit, Controls, Reasons, Terminals
<1>4. Answers
  BY FileJobConstants DEF JobsInit, Answers, AnswersHonest, Ops
<1>5. Files
  BY DEF JobsInit, Files, Writing
<1> QED
  BY <1>1, <1>2, <1>3, <1>4, <1>5

\* The invariant is inductive: one lemma for each of its parts.
LEMMA IInvInvariant == JobsSpec => []IInv
<1>1. JobsInit => IInv
  BY ShapeInit, FlagsInit, RestInit DEF IInv
<1>2. IInv /\ [JobsNext]_jobVars => IInv'
  BY ShapeStep, FlagsStep, CountsStep, SessionsStep, ControlsStep, AnswersStep,
     FilesStep, DrainedStep, WakeupStep DEF IInv
<1> QED
  BY <1>1, <1>2, PTL DEF JobsSpec

\* Every variable of the loop, of the registry and of the threads keeps its type:
\* the permits of the process stay between zero and the limit, and the count of jobs
\* a shutdown waits for never wraps below zero (InFlightGuard, the semaphore of
\* file jobs).
THEOREM JobsTypeCorrect == JobsSpec => []JobsTypeOK
<1>1. IInv => JobsTypeOK
  <2> SUFFICES ASSUME IInv PROVE JobsTypeOK
    OBVIOUS
  <2>1. Cardinality(Holders) \in Nat /\ Cardinality(InFlight) \in Nat
    BY OpsFinite, FS_CardinalityType DEF Holders, InFlight
  <2>2. inFlight \in Nat
    BY <2>1 DEF IInv, Counts
  <2>3. permits \in 0..FileJobLimit
    BY <2>1, FileJobConstants DEF IInv, Counts, Shape
  <2>4. linked \in BOOLEAN /\ failed \in BOOLEAN /\ settled \in BOOLEAN
    BY Zenon DEF IInv, Flags
  <2> QED
    BY <2>2, <2>3, <2>4, Zenon DEF IInv, Shape, JobsTypeOK
<1> QED
  BY <1>1, IInvInvariant, PTL

\* An upload whose cancel was accepted is never published: request_cancel and
\* begin_upload_commit decide under one lock, and only a commit publishes.
THEOREM CancelledCorrect == JobsSpec => []CancelledNotPublished
<1>1. IInv => CancelledNotPublished
  BY FileJobConstants DEF IInv, Controls, CancelledNotPublished, Shape, Ops
<1> QED
  BY <1>1, IInvInvariant, PTL

\* The terminal message of an upload tells what happened to its file, whichever of
\* cancel, failure, timeout and commit came first.
THEOREM AnswersCorrect == JobsSpec => []AnswersHonest
<1>1. IInv => AnswersHonest
  BY DEF IInv, Answers
<1> QED
  BY <1>1, IInvInvariant, PTL

\* Over all sessions, and with threads a session left behind: each thread owns one
\* permit until it drops it, and no two uploads ever stage into one folder.
THEOREM ResourcesCorrect == JobsSpec => []ResourcesOwned
<1>1. IInv => ResourcesOwned
  <2> SUFFICES ASSUME IInv PROVE ResourcesOwned
    OBVIOUS
  <2>1. permits + Cardinality(Holders) = FileJobLimit
    BY DEF IInv, Counts
  <2>2. \A t \in staged : targets[folder[t]] = t
    BY DEF IInv, Files, Writing, Shape, Ops
  <2>3. \A t, u \in staged : folder[t] = folder[u] => t = u
    BY <2>2
  <2> QED
    BY <2>1, <2>2, <2>3 DEF ResourcesOwned
<1> QED
  BY <1>1, IInvInvariant, PTL

\* A shutdown that saw the count of jobs at zero left no permit, staging file or
\* folder of its session in use: a registration is dropped after all of them.
THEOREM DrainedCorrect == JobsSpec => []DrainedClean
<1>1. IInv => DrainedClean
  <2> SUFFICES ASSUME IInv, receiver = "drained", NEW t \in Ops, OfSession(t)
               PROVE  /\ t \notin Holders
                      /\ t \notin staged
                      /\ \A f \in Folders : targets[f] # t
    BY DEF DrainedClean
  <2>1. Cardinality(InFlight) = 0 /\ IsFiniteSet(InFlight)
    BY OpsFinite DEF IInv, Drained, Counts, InFlight
  <2>2. InFlight = {}
    BY <2>1, FS_EmptySet
  <2>3. worker[t] \notin Holding
    BY <2>2 DEF InFlight
  <2> QED
    BY <2>3, FileJobConstants DEF IInv, Files, Holders, Holding, Ops
<1> QED
  BY <1>1, IInvInvariant, PTL

\* wait_for_idle never waits for a wake-up that was already spent: notify_one stores
\* its permit, so the order of its check and the last job's end does not matter.
THEOREM WakeupCorrect == JobsSpec => []NoLostWakeup
<1>1. IInv => NoLostWakeup
  BY DEF IInv
<1> QED
  BY <1>1, IInvInvariant, PTL

(***************************************************************************)
(* Bytes.                                                                  *)
(***************************************************************************)

\* One step of the recursion of Bytes, for a function on some of the sets.
First(X) == CHOOSE t \in X : TRUE
Adds(g, X) == g[X] = IF X = {} THEN 0 ELSE announced[First(X)] + g[X \ {First(X)}]
Small(n) == {X \in SUBSET Uploads : Cardinality(X) <= n}

LEMMA UploadSet ==
    ASSUME NEW X \in SUBSET Uploads
    PROVE  IsFiniteSet(X) /\ Cardinality(X) \in Nat
           /\ Cardinality(X) <= Cardinality(Uploads)
BY FileJobConstants, FS_Subset, FS_CardinalityType

LEMMA FirstIn ==
    ASSUME NEW X \in SUBSET Uploads, X # {}
    PROVE  /\ First(X) \in X /\ First(X) \in Uploads
           /\ X \ {First(X)} \in SUBSET Uploads
           /\ Cardinality(X \ {First(X)}) = Cardinality(X) - 1
<1>1. First(X) \in X
  BY DEF First
<1>2. IsFiniteSet(X)
  BY UploadSet
<1> QED
  BY <1>1, <1>2, FS_RemoveElement

\* A function that adds up on the sets of at most n uploads extends to n + 1.
LEMMA AddsExtend ==
    ASSUME NEW n \in Nat, NEW g, \A X \in Small(n) : Adds(g, X)
    PROVE  \E h : /\ h = [X \in SUBSET Uploads |-> h[X]]
                  /\ \A X \in Small(n + 1) : Adds(h, X)
<1> DEFINE h == [X \in SUBSET Uploads |->
                    IF X = {} THEN 0 ELSE announced[First(X)] + g[X \ {First(X)}]]
<1>1. ASSUME NEW X \in Small(n) PROVE h[X] = g[X]
  BY <1>1 DEF Small, Adds
<1>2. ASSUME NEW X \in Small(n + 1) PROVE Adds(h, X)
  <2>1. X \in SUBSET Uploads /\ Cardinality(X) <= n + 1
    BY DEF Small
  <2>2. CASE X = {}
    BY <2>1, <2>2 DEF Adds
  <2>3. CASE X # {}
    <3> DEFINE Y == X \ {First(X)}
    <3>1. Y \in Small(n)
      BY <2>1, <2>3, FirstIn, UploadSet DEF Small
    <3>2. h[Y] = g[Y]
      BY <1>1, <3>1
    <3>3. h[X] = announced[First(X)] + g[Y]
      BY <2>1, <2>3
    <3> QED
      BY <2>3, <3>2, <3>3 DEF Adds
  <2> QED
    BY <2>2, <2>3
<1>3. h = [X \in SUBSET Uploads |-> h[X]]
  OBVIOUS
<1> HIDE DEF h
<1> QED
  BY <1>2, <1>3

\* So one function adds up on every set of uploads.
LEMMA AddsExists ==
    \E g : /\ g = [X \in SUBSET Uploads |-> g[X]]
           /\ \A X \in SUBSET Uploads : Adds(g, X)
<1> DEFINE Fails == {n \in Nat : ~ \E g : /\ g = [X \in SUBSET Uploads |-> g[X]]
                                          /\ \A X \in Small(n) : Adds(g, X)}
<1>1. Fails = {}
  <2> SUFFICES ASSUME Fails # {} PROVE FALSE
    OBVIOUS
  <2>1. Fails \subseteq Nat
    OBVIOUS
  <2> HIDE DEF Fails
  <2>2. PICK m \in Fails : \A k \in Fails : ~(<<k, m>> \in OpToRel(<, Nat))
    BY <2>1, WFMin, NatLessThanWellFounded
  <2>3. m \in Nat /\ \A k \in Fails : ~(k < m)
    BY <2>1, <2>2 DEF OpToRel
  <2>4. CASE m = 0
    <3> DEFINE z == [X \in SUBSET Uploads |-> 0]
    <3>1. ASSUME NEW X \in Small(m) PROVE Adds(z, X)
      <4>1. X = {}
        BY <2>4, <3>1, UploadSet, FS_EmptySet DEF Small
      <4> QED
        BY <4>1 DEF Adds
    <3>2. z = [X \in SUBSET Uploads |-> z[X]]
      OBVIOUS
    <3> HIDE DEF z
    <3>3. m \notin Fails
      BY <3>1, <3>2 DEF Fails
    <3> QED
      BY <3>3
  <2>5. CASE m # 0
    <3>1. m - 1 \in Nat /\ m - 1 \notin Fails /\ (m - 1) + 1 = m
      BY <2>3, <2>5
    <3>2. PICK g : \A X \in Small(m - 1) : Adds(g, X)
      BY <3>1 DEF Fails
    <3>3. \E h : /\ h = [X \in SUBSET Uploads |-> h[X]]
                 /\ \A X \in Small((m - 1) + 1) : Adds(h, X)
      BY <3>1, <3>2, AddsExtend
    <3>4. m \notin Fails
      BY <3>1, <3>3 DEF Fails
    <3> QED
      BY <3>4
  <2> QED
    BY <2>4, <2>5
<1>2. Cardinality(Uploads) \in Nat
  BY UploadSet
<1>3. PICK g : /\ g = [X \in SUBSET Uploads |-> g[X]]
               /\ \A X \in Small(Cardinality(Uploads)) : Adds(g, X)
  BY <1>1, <1>2
<1>4. \A X \in SUBSET Uploads : X \in Small(Cardinality(Uploads))
  BY UploadSet DEF Small
<1> QED
  BY <1>3, <1>4

LEMMA BytesAdds == \A X \in SUBSET Uploads : Adds(Bytes, X)
<1> DEFINE Def(g) == [X \in SUBSET Uploads |->
              IF X = {} THEN 0
              ELSE LET t == CHOOSE t \in X : TRUE IN announced[t] + g[X \ {t}]]
<1>1. PICK g : /\ g = [X \in SUBSET Uploads |-> g[X]]
               /\ \A X \in SUBSET Uploads : Adds(g, X)
  BY AddsExists
<1>2. g = Def(g)
  <2>1. \A X \in SUBSET Uploads : g[X] = Def(g)[X]
    BY <1>1 DEF Adds, First
  <2>2. [X \in SUBSET Uploads |-> g[X]] = [X \in SUBSET Uploads |-> Def(g)[X]]
    BY <2>1
  <2>3. Def(g) = [X \in SUBSET Uploads |-> Def(g)[X]]
    OBVIOUS
  <2> HIDE DEF Def
  <2> QED
    BY <1>1, <2>2, <2>3
<1>3. Bytes = CHOOSE f : f = Def(f)
  BY DEF Bytes
<1>4. Bytes = Def(Bytes)
  <2> HIDE DEF Def
  <2> QED
    BY <1>2, <1>3
<1>5. \A X \in SUBSET Uploads : Bytes[X] = Def(Bytes)[X]
  <2> HIDE DEF Def
  <2> QED
    BY <1>4
<1> QED
  BY <1>5 DEF Adds, First

LEMMA BytesEmpty == Bytes[{}] = 0
BY BytesAdds DEF Adds

LEMMA BytesFirst ==
    ASSUME NEW X \in SUBSET Uploads, X # {}
    PROVE  Bytes[X] = announced[First(X)] + Bytes[X \ {First(X)}]
BY BytesAdds DEF Adds

\* A set of sets of uploads that is not empty has a member without a smaller one.
LEMMA SmallestSet ==
    ASSUME NEW T, T \subseteq SUBSET Uploads, T # {}
    PROVE  \E X \in T : \A Y \in T : Y \subseteq X => Y = X
<1> DEFINE R == StrictSubsetOrdering(Uploads)
<1>1. IsWellFoundedOn(R, SUBSET Uploads)
  <2>1. FiniteSubsetsOf(Uploads) = SUBSET Uploads
    BY FS_FiniteSubsetsOfFinite, FileJobConstants
  <2> QED
    BY <2>1, FS_StrictSubsetOrderingWellFounded
<1> HIDE DEF R
<1>2. PICK X \in T : \A Y \in T : ~(<<Y, X>> \in R)
  BY <1>1, WFMin
<1>3. ASSUME NEW Y \in T, Y \subseteq X PROVE Y = X
  <2>1. ~(<<Y, X>> \in StrictSubsetOrdering(Uploads))
    BY <1>2 DEF R
  <2>2. <<Y, X>> \in (SUBSET Uploads) \X (SUBSET Uploads)
    OBVIOUS
  <2>3. ~(<<Y, X>>[1] \subseteq <<Y, X>>[2] /\ <<Y, X>>[1] # <<Y, X>>[2])
    BY <2>1, <2>2 DEF StrictSubsetOrdering
  <2> QED
    BY <1>3, <2>3
<1> QED
  BY <1>2, <1>3

LEMMA BytesNat == \A X \in SUBSET Uploads : Bytes[X] \in Nat
<1> DEFINE Bad == {X \in SUBSET Uploads : Bytes[X] \notin Nat}
<1> SUFFICES ASSUME Bad # {} PROVE FALSE
  OBVIOUS
<1>1. Bad \subseteq SUBSET Uploads
  OBVIOUS
<1>2. PICK X \in Bad : \A Y \in Bad : Y \subseteq X => Y = X
  <2> HIDE DEF Bad
  <2> QED
    BY <1>1, SmallestSet
<1>3. X \in SUBSET Uploads /\ Bytes[X] \notin Nat
  OBVIOUS
<1>4. \A Y \in SUBSET Uploads : Y \subseteq X /\ Y # X => Bytes[Y] \in Nat
  BY <1>2
<1> HIDE DEF Bad
<1>5. X # {}
  BY <1>3, BytesEmpty
<1>6. First(X) \in X /\ First(X) \in Uploads
  BY <1>3, <1>5, FirstIn
<1>7. Bytes[X \ {First(X)}] \in Nat
  BY <1>3, <1>4, <1>6
<1>8. announced[First(X)] \in Nat
  BY <1>6, FileJobConstants
<1>9. Bytes[X] = announced[First(X)] + Bytes[X \ {First(X)}]
  BY <1>3, <1>5, BytesFirst
<1> QED
  BY <1>3, <1>7, <1>8, <1>9

\* The sum does not depend on the order Bytes takes the uploads in.
LEMMA BytesInsert ==
    \A X \in SUBSET Uploads : \A t \in Uploads \ X :
        Bytes[X \cup {t}] = Bytes[X] + announced[t]
<1> DEFINE Bad == {X \in SUBSET Uploads :
                      ~ \A t \in Uploads \ X : Bytes[X \cup {t}] = Bytes[X] + announced[t]}
<1> SUFFICES ASSUME Bad # {} PROVE FALSE
  OBVIOUS
<1>1. Bad \subseteq SUBSET Uploads
  OBVIOUS
<1>2. PICK X \in Bad : \A Y \in Bad : Y \subseteq X => Y = X
  <2> HIDE DEF Bad
  <2> QED
    BY <1>1, SmallestSet
<1>3. X \in SUBSET Uploads
  OBVIOUS
<1>4. PICK t \in Uploads \ X : Bytes[X \cup {t}] # Bytes[X] + announced[t]
  OBVIOUS
<1>5. \A Y \in SUBSET Uploads : Y \subseteq X /\ Y # X =>
          \A v \in Uploads \ Y : Bytes[Y \cup {v}] = Bytes[Y] + announced[v]
  BY <1>2
<1> HIDE DEF Bad
<1> DEFINE Z == X \cup {t}
           u == First(Z)
<1>6. Z \in SUBSET Uploads /\ Z # {}
  BY <1>3
<1>7. u \in Z /\ u \in Uploads
  BY <1>6, FirstIn
<1>8. Bytes[Z] = announced[u] + Bytes[Z \ {u}]
  BY <1>6, BytesFirst
<1> HIDE DEF u
<1>9. CASE u = t
  <2>1. Z \ {u} = X
    BY <1>4, <1>9
  <2>2. Bytes[X] \in Nat /\ announced[t] \in Nat
    BY <1>3, <1>4, BytesNat, FileJobConstants
  <2>3. Bytes[Z] = announced[t] + Bytes[X]
    BY <1>8, <1>9, <2>1
  <2> HIDE DEF Z
  <2>4. Bytes[Z] = Bytes[X] + announced[t]
    BY <2>2, <2>3
  <2> QED
    BY <1>4, <2>4 DEF Z
<1>10. CASE u # t
  <2> DEFINE Y == X \ {u}
  <2>1. /\ Y \in SUBSET Uploads /\ Y \subseteq X /\ Y # X
        /\ t \in Uploads \ Y /\ u \in Uploads \ Y
    BY <1>3, <1>4, <1>7, <1>10
  <2>2. Z \ {u} = Y \cup {t} /\ X = Y \cup {u}
    BY <1>3, <1>4, <1>7, <1>10
  <2> HIDE DEF Y, Z
  <2>3. Bytes[Y \cup {t}] = Bytes[Y] + announced[t]
    BY <1>5, <2>1
  <2>4. Bytes[Y \cup {u}] = Bytes[Y] + announced[u]
    BY <1>5, <2>1
  <2>5. Bytes[Y] \in Nat /\ announced[u] \in Nat /\ announced[t] \in Nat
    BY <1>4, <1>7, <2>1, BytesNat, FileJobConstants
  <2>6. Bytes[Z] = announced[u] + (Bytes[Y] + announced[t])
    BY <1>8, <2>2, <2>3
  <2>7. Bytes[X] = Bytes[Y] + announced[u]
    BY <2>2, <2>4
  <2>8. Bytes[Z] = Bytes[X] + announced[t]
    BY <2>5, <2>6, <2>7
  <2> QED
    BY <1>4, <2>8 DEF Z
<1> QED
  BY <1>9, <1>10

LEMMA BytesRemove ==
    ASSUME NEW X \in SUBSET Uploads, NEW t \in X
    PROVE  Bytes[X \ {t}] = Bytes[X] - announced[t]
<1> DEFINE Y == X \ {t}
<1>1. Y \in SUBSET Uploads /\ t \in Uploads \ Y /\ X = Y \cup {t}
  OBVIOUS
<1> HIDE DEF Y
<1>2. Bytes[X] = Bytes[Y] + announced[t]
  BY <1>1, BytesInsert
<1>3. Bytes[Y] \in Nat /\ announced[t] \in Nat
  BY <1>1, BytesNat, FileJobConstants
<1> QED
  BY <1>2, <1>3 DEF Y

(***************************************************************************)
(* The quota of a session.                                                 *)
(***************************************************************************)

\* An upload is counted by the last thing its thread does before it answers.
CountedLast == \A t \in counted : worker[t] \in Ending

Pending == (operations \cap Uploads) \ counted
Kept    == {t \in counted : OfSession(t)}

LEMMA UploadsApart ==
    ASSUME Shape
    PROVE  /\ Pending \in SUBSET Uploads /\ Kept \in SUBSET Uploads
           /\ Bytes[Pending] \in Nat /\ Bytes[Kept] \in Nat
<1>1. Pending \in SUBSET Uploads /\ Kept \in SUBSET Uploads
  BY DEF Shape, Pending, Kept
<1> QED
  BY <1>1, BytesNat

LEMMA CountedStep == Shape /\ CountedLast /\ [JobsNext]_jobVars => CountedLast'
<1> SUFFICES ASSUME Shape, CountedLast, [JobsNext]_jobVars PROVE CountedLast'
  OBVIOUS
<1>1. CASE UNCHANGED <<counted, worker>>
  BY <1>1 DEF CountedLast
<1>2. ASSUME NextSession PROVE CountedLast'
  BY <1>1, <1>2
   DEF NextSession, controlVars, fileVars, idleVars, loopVars, registryVars
<1>3. ASSUME FeedOn PROVE CountedLast'
  BY <1>1, <1>3
   DEF FeedOn, controlVars, fileVars, idleVars, loopVars, registryVars
<1>4. ASSUME FeedTimesOut PROVE CountedLast'
  BY <1>1, <1>4
   DEF FeedTimesOut, RequestCancel, controlVars, fileVars, idleVars, loopVars,
         registryVars
<1>5. ASSUME FeedOrphaned PROVE CountedLast'
  BY <1>1, <1>5
   DEF FeedOrphaned, controlVars, fileVars, idleVars, loopVars, registryVars
<1>6. ASSUME EndSession PROVE CountedLast'
  BY <1>1, <1>6
   DEF CancelAll, EndSession, controlVars, fileVars, idleVars, loopVars,
         registryVars
<1>7. ASSUME Drain PROVE CountedLast'
  BY <1>1, <1>7
   DEF Drain, HangUp, controlVars, fileVars, idleVars, loopVars, registryVars
<1>8. ASSUME Wake PROVE CountedLast'
  BY <1>1, <1>8
   DEF Wake, controlVars, fileVars, idleVars, loopVars, registryVars
<1>9. ASSUME DrainTimesOut PROVE CountedLast'
  BY <1>1, <1>9
   DEF DrainTimesOut, HangUp, controlVars, fileVars, idleVars, loopVars,
         registryVars
<1>10. ASSUME LinkLost PROVE CountedLast'
  BY <1>1, <1>10
   DEF HangUp, LinkLost, controlVars, fileVars, idleVars, loopVars, registryVars
<1>11. ASSUME Write PROVE CountedLast'
  BY <1>1, <1>11
   DEF Write, controlVars, fileVars, idleVars, loopVars, registryVars
<1>12. ASSUME NEW t \in Ops, Admit(t) PROVE CountedLast'
  BY <1>12
   DEF Admit, CountedLast, Ending, Listening, MayAdmit, Ops, Shape, controlVars,
         fileVars, idleVars, loopVars, registryVars
<1>13. ASSUME NEW t \in Ops, Refuse(t) PROVE CountedLast'
  BY <1>1, <1>13
   DEF Listening, Refuse, Reply, Room, controlVars, fileVars, idleVars, loopVars,
         registryVars
<1>14. ASSUME NEW t \in Ops, SpawnFails(t) PROVE CountedLast'
  BY <1>1, <1>14
   DEF Listening, Reply, Room, SpawnFails, controlVars, fileVars, idleVars,
         loopVars, registryVars
<1>15. ASSUME NEW t \in Ops, HandleCancel(t) PROVE CountedLast'
  BY <1>1, <1>15
   DEF HandleCancel, Listening, Reply, RequestCancel, Room, controlVars, fileVars,
         idleVars, loopVars, registryVars
<1>16. ASSUME NEW t \in Uploads, NEW c \in Commands, HandleCommand(t, c) PROVE CountedLast'
  BY <1>1, <1>16
   DEF HandleCommand, Listening, Reply, Room, controlVars, fileVars, idleVars,
         loopVars, registryVars
<1>17. ASSUME NEW t \in Ops, StopCancelled(t) PROVE CountedLast'
  BY <1>17
   DEF ClaimCancelled, CountedLast, Ending, Ops, Shape, StopCancelled,
         controlVars, fileVars, idleVars, loopVars, registryVars
<1>18. ASSUME NEW t \in Ops, StopWithError(t) PROVE CountedLast'
  BY <1>18
   DEF ClaimActive, CountedLast, Ending, Ops, Shape, StopWithError, controlVars,
         fileVars, idleVars, loopVars, registryVars
<1>19. ASSUME NEW t \in Ops, SendFails(t) PROVE CountedLast'
  BY <1>19
   DEF CountedLast, Ending, Goto, OfSession, Ops, SendFails, Shape, controlVars,
         fileVars, idleVars, loopVars, registryVars
<1>20. ASSUME NEW t \in Ops, SendStart(t) PROVE CountedLast'
  BY <1>20
   DEF CountedLast, Ending, Goto, Ops, Send, SendStart, Shape, controlVars,
         fileVars, idleVars, loopVars, registryVars
<1>21. ASSUME NEW t \in Ops, SendChunk(t) PROVE CountedLast'
  BY <1>21
   DEF CountedLast, Ending, Goto, Ops, Send, SendChunk, Shape, controlVars,
         fileVars, idleVars, loopVars, registryVars
<1>22. ASSUME NEW t \in Ops, DownloadDone(t) PROVE CountedLast'
  BY <1>22
   DEF ClaimActive, CountedLast, DownloadDone, Ending, Ops, Shape, controlVars,
         fileVars, idleVars, loopVars, registryVars
<1>23. ASSUME NEW t \in Ops, SendAnswer(t) PROVE CountedLast'
  BY <1>23
   DEF CountedLast, Ending, Goto, OfSession, Ops, SendAnswer, Shape, controlVars,
         fileVars, idleVars, loopVars, registryVars
<1>24. ASSUME NEW t \in Ops, Release(t) PROVE CountedLast'
  BY <1>24
   DEF CountedLast, Ending, Goto, Ops, Release, Shape, controlVars, fileVars,
         idleVars, loopVars, registryVars
<1>25. ASSUME NEW t \in Ops, Leave(t) PROVE CountedLast'
  BY <1>25
   DEF CountedLast, Ending, Goto, Leave, OfSession, Ops, RemoveIfCurrent, Shape,
         controlVars, fileVars, idleVars, loopVars, registryVars
<1>26. ASSUME NEW t \in Ops, Notify(t) PROVE CountedLast'
  BY <1>26
   DEF CountedLast, Ending, Goto, Notify, OfSession, Ops, Shape, controlVars,
         fileVars, idleVars, loopVars, registryVars
<1>27. ASSUME NEW t \in Uploads, ReserveTarget(t) PROVE CountedLast'
  BY <1>27
   DEF CountedLast, Ending, Goto, Ops, ReserveTarget, Shape, controlVars,
         fileVars, idleVars, loopVars, registryVars
<1>28. ASSUME NEW t \in Uploads, Stage(t) PROVE CountedLast'
  BY <1>28
   DEF CountedLast, Ending, Goto, Ops, Shape, Stage, controlVars, fileVars,
         idleVars, loopVars, registryVars
<1>29. ASSUME NEW t \in Uploads, SendReady(t) PROVE CountedLast'
  BY <1>29
   DEF CountedLast, Ending, Goto, Ops, Send, SendReady, Shape, controlVars,
         fileVars, idleVars, loopVars, registryVars
<1>30. ASSUME NEW t \in Uploads, WriteChunk(t) PROVE CountedLast'
  BY <1>1, <1>30
   DEF WriteChunk, controlVars, fileVars, idleVars, loopVars, registryVars
<1>31. ASSUME NEW t \in Uploads, TakeFinish(t) PROVE CountedLast'
  BY <1>31
   DEF BeginCommit, CountedLast, Ending, Goto, Ops, Shape, TakeFinish,
         controlVars, fileVars, idleVars, loopVars, registryVars
<1>32. ASSUME NEW t \in Uploads, Publish(t) PROVE CountedLast'
  BY <1>32
   DEF CountedLast, Ending, Goto, Ops, Publish, Shape, controlVars, fileVars,
         idleVars, loopVars, registryVars
<1>33. ASSUME NEW t \in Uploads, PublishFails(t) PROVE CountedLast'
  BY <1>33
   DEF CountedLast, Ending, Goto, Ops, PublishFails, Shape, controlVars, fileVars,
         idleVars, loopVars, registryVars
<1>34. ASSUME NEW t \in Uploads, CountUpload(t) PROVE CountedLast'
  BY <1>34
   DEF CountUpload, CountedLast, Ending, Goto, OfSession, Ops, Shape, controlVars,
         fileVars, idleVars, loopVars, registryVars
<1>35. CASE UNCHANGED jobVars
  BY <1>1, <1>35
   DEF controlVars, fileVars, idleVars, jobVars, loopVars, registryVars
<1> QED
  BY <1>1, <1>2, <1>3, <1>4, <1>5, <1>6, <1>7, <1>8, <1>9, <1>10, <1>11, <1>12,
     <1>13, <1>14, <1>15, <1>16, <1>17, <1>18, <1>19, <1>20, <1>21, <1>22, <1>23,
     <1>24, <1>25, <1>26, <1>27, <1>28, <1>29, <1>30, <1>31, <1>32, <1>33, <1>34,
     <1>35
   DEF JobsNext, AgentStep, Loop, Work, WorkUpload, Start

\* Whatever order admissions, commits, removals and the end of a session come in, each
\* upload is part of one of the two sums, or was given back.
LEMMA BytesStep == Shape /\ Sessions /\ CountedLast /\ BytesAccounted /\ [JobsNext]_jobVars => BytesAccounted'
<1> SUFFICES ASSUME Shape, Sessions, CountedLast, BytesAccounted, [JobsNext]_jobVars PROVE BytesAccounted'
  OBVIOUS
<1>1. CASE UNCHANGED <<session, operations, activeBytes, committedBytes, counted, sessionOf>>
  BY <1>1 DEF BytesAccounted, OfSession
<1>2. ASSUME NextSession PROVE BytesAccounted'
  <2>1. Kept' = {} /\ Pending' = {}
    BY <1>2 DEF NextSession, Kept, Pending, OfSession, Sessions, Shape, Ops, controlVars
  <2>2. activeBytes' = 0 /\ committedBytes' = 0
    BY <1>2 DEF NextSession
  <2>3. activeBytes' = Bytes[Pending'] /\ committedBytes' = Bytes[Kept']
    BY <2>1, <2>2, BytesEmpty
  <2>4. activeBytes' + committedBytes' <= MaxSessionBytes
    BY <2>2, FileJobConstants
  <2> QED
    BY <2>3, <2>4 DEF BytesAccounted, Kept, Pending
<1>3. ASSUME FeedOn PROVE BytesAccounted'
  BY <1>1, <1>3
   DEF FeedOn, controlVars, fileVars, idleVars, loopVars, registryVars
<1>4. ASSUME FeedTimesOut PROVE BytesAccounted'
  BY <1>1, <1>4
   DEF FeedTimesOut, RequestCancel, controlVars, fileVars, idleVars, loopVars,
         registryVars
<1>5. ASSUME FeedOrphaned PROVE BytesAccounted'
  BY <1>1, <1>5
   DEF FeedOrphaned, controlVars, fileVars, idleVars, loopVars, registryVars
<1>6. ASSUME EndSession PROVE BytesAccounted'
  <2>1. Kept' = Kept /\ Pending' = {}
    BY <1>6 DEF EndSession, CancelAll, Kept, Pending, OfSession
  <2>2. activeBytes' = 0 /\ committedBytes' = committedBytes
    BY <1>6 DEF EndSession, CancelAll
  <2>3. activeBytes = Bytes[Pending] /\ committedBytes = Bytes[Kept]
        /\ activeBytes + committedBytes <= MaxSessionBytes
    BY DEF BytesAccounted, Pending, Kept
  <2>4. activeBytes' + committedBytes' <= MaxSessionBytes
    BY <2>2, <2>3, UploadsApart, FileJobConstants
  <2>5. activeBytes' = Bytes[Pending'] /\ committedBytes' = Bytes[Kept']
    BY <2>1, <2>2, <2>3, BytesEmpty
  <2> QED
    BY <2>4, <2>5 DEF BytesAccounted, Pending, Kept
<1>7. ASSUME Drain PROVE BytesAccounted'
  BY <1>1, <1>7
   DEF Drain, HangUp, controlVars, fileVars, idleVars, loopVars, registryVars
<1>8. ASSUME Wake PROVE BytesAccounted'
  BY <1>1, <1>8
   DEF Wake, controlVars, fileVars, idleVars, loopVars, registryVars
<1>9. ASSUME DrainTimesOut PROVE BytesAccounted'
  BY <1>1, <1>9
   DEF DrainTimesOut, HangUp, controlVars, fileVars, idleVars, loopVars,
         registryVars
<1>10. ASSUME LinkLost PROVE BytesAccounted'
  BY <1>1, <1>10
   DEF HangUp, LinkLost, controlVars, fileVars, idleVars, loopVars, registryVars
<1>11. ASSUME Write PROVE BytesAccounted'
  BY <1>1, <1>11
   DEF Write, controlVars, fileVars, idleVars, loopVars, registryVars
<1>12. ASSUME NEW t \in Ops, Admit(t) PROVE BytesAccounted'
  <2>1. /\ t \notin operations /\ worker[t] = "none"
        /\ session' = session /\ sessionOf' = [sessionOf EXCEPT ![t] = session]
        /\ counted' = counted /\ operations' = operations \cup {t}
        /\ committedBytes' = committedBytes
    BY <1>12 DEF Admit, MayAdmit, loopVars
  <2>2. t \notin counted
    BY <2>1 DEF CountedLast, Ending
  <2>3. Kept' = Kept
    BY <2>1, <2>2 DEF Kept, OfSession, Shape, Ops
  <2>4. activeBytes = Bytes[Pending] /\ committedBytes = Bytes[Kept]
        /\ activeBytes + committedBytes <= MaxSessionBytes
    BY DEF BytesAccounted, Pending, Kept
  <2>5. CASE t \in Uploads
    <3>1. Pending' = Pending \cup {t} /\ t \in Uploads \ Pending
      BY <2>1, <2>2, <2>5 DEF Pending
    <3>2. Bytes[Pending \cup {t}] = Bytes[Pending] + announced[t]
      BY <3>1, UploadsApart, BytesInsert
    <3>3. activeBytes' = activeBytes + announced[t]
          /\ activeBytes + committedBytes + announced[t] <= MaxSessionBytes
      BY <1>12, <2>5 DEF Admit, MayAdmit
    <3>4. activeBytes' = Bytes[Pending']
      BY <2>4, <3>1, <3>2, <3>3
    <3>5. announced[t] \in Nat /\ activeBytes \in Int /\ committedBytes \in Nat
          /\ MaxSessionBytes \in Nat
      BY <2>5, FileJobConstants DEF Shape
    <3>6. activeBytes' + committedBytes' <= MaxSessionBytes
      BY <2>1, <3>3, <3>5
    <3> QED
      BY <2>1, <2>3, <2>4, <3>4, <3>6 DEF BytesAccounted, Pending, Kept
  <2>6. CASE t \notin Uploads
    <3>1. Pending' = Pending /\ activeBytes' = activeBytes
      BY <1>12, <2>1, <2>6 DEF Admit, Pending
    <3> QED
      BY <2>1, <2>3, <2>4, <3>1 DEF BytesAccounted, Pending, Kept
  <2> QED
    BY <2>5, <2>6
<1>13. ASSUME NEW t \in Ops, Refuse(t) PROVE BytesAccounted'
  BY <1>1, <1>13
   DEF Listening, Refuse, Reply, Room, controlVars, fileVars, idleVars, loopVars,
         registryVars
<1>14. ASSUME NEW t \in Ops, SpawnFails(t) PROVE BytesAccounted'
  BY <1>1, <1>14
   DEF Listening, Reply, Room, SpawnFails, controlVars, fileVars, idleVars,
         loopVars, registryVars
<1>15. ASSUME NEW t \in Ops, HandleCancel(t) PROVE BytesAccounted'
  BY <1>1, <1>15
   DEF HandleCancel, Listening, Reply, RequestCancel, Room, controlVars, fileVars,
         idleVars, loopVars, registryVars
<1>16. ASSUME NEW t \in Uploads, NEW c \in Commands, HandleCommand(t, c) PROVE BytesAccounted'
  BY <1>1, <1>16
   DEF HandleCommand, Listening, Reply, Room, controlVars, fileVars, idleVars,
         loopVars, registryVars
<1>17. ASSUME NEW t \in Ops, StopCancelled(t) PROVE BytesAccounted'
  BY <1>1, <1>17
   DEF ClaimCancelled, StopCancelled, controlVars, fileVars, idleVars, loopVars,
         registryVars
<1>18. ASSUME NEW t \in Ops, StopWithError(t) PROVE BytesAccounted'
  BY <1>1, <1>18
   DEF ClaimActive, StopWithError, controlVars, fileVars, idleVars, loopVars,
         registryVars
<1>19. ASSUME NEW t \in Ops, SendFails(t) PROVE BytesAccounted'
  BY <1>1, <1>19
   DEF Goto, OfSession, SendFails, controlVars, fileVars, idleVars, loopVars,
         registryVars
<1>20. ASSUME NEW t \in Ops, SendStart(t) PROVE BytesAccounted'
  BY <1>1, <1>20
   DEF Goto, Send, SendStart, controlVars, fileVars, idleVars, loopVars,
         registryVars
<1>21. ASSUME NEW t \in Ops, SendChunk(t) PROVE BytesAccounted'
  BY <1>1, <1>21
   DEF Goto, Send, SendChunk, controlVars, fileVars, idleVars, loopVars,
         registryVars
<1>22. ASSUME NEW t \in Ops, DownloadDone(t) PROVE BytesAccounted'
  BY <1>1, <1>22
   DEF ClaimActive, DownloadDone, controlVars, fileVars, idleVars, loopVars,
         registryVars
<1>23. ASSUME NEW t \in Ops, SendAnswer(t) PROVE BytesAccounted'
  BY <1>1, <1>23
   DEF Goto, OfSession, SendAnswer, controlVars, fileVars, idleVars, loopVars,
         registryVars
<1>24. ASSUME NEW t \in Ops, Release(t) PROVE BytesAccounted'
  BY <1>1, <1>24
   DEF Goto, Release, controlVars, fileVars, idleVars, loopVars, registryVars
<1>25. ASSUME NEW t \in Ops, Leave(t) PROVE BytesAccounted'
  <2>1. /\ worker[t] = "leaving" /\ session' = session /\ sessionOf' = sessionOf
        /\ counted' = counted /\ committedBytes' = committedBytes
    BY <1>25 DEF Leave, loopVars
  <2>2. Kept' = Kept
    BY <2>1 DEF Kept, OfSession
  <2>3. activeBytes = Bytes[Pending] /\ committedBytes = Bytes[Kept]
        /\ activeBytes + committedBytes <= MaxSessionBytes
    BY DEF BytesAccounted, Pending, Kept
  <2>4. CASE OfSession(t) /\ t \in Pending
    <3>1. Pending' = Pending \ {t} /\ activeBytes' = activeBytes - announced[t]
      BY <1>25, <2>1, <2>4 DEF Leave, RemoveIfCurrent, Pending
    <3>2. Bytes[Pending'] = Bytes[Pending] - announced[t]
      BY <2>4, <3>1, UploadsApart, BytesRemove
    <3>3. activeBytes' = Bytes[Pending']
      BY <2>3, <3>1, <3>2
    <3>4. announced[t] \in Nat /\ activeBytes \in Int /\ committedBytes \in Nat
          /\ MaxSessionBytes \in Nat
      BY <2>4, UploadsApart, FileJobConstants DEF Shape
    <3>5. activeBytes' + committedBytes' <= MaxSessionBytes
      BY <2>1, <2>3, <3>1, <3>4
    <3> QED
      BY <2>1, <2>2, <2>3, <3>3, <3>5 DEF BytesAccounted, Pending, Kept
  <2>5. CASE ~(OfSession(t) /\ t \in Pending)
    <3>1. Pending' = Pending /\ activeBytes' = activeBytes
      BY <1>25, <2>1, <2>5 DEF Leave, RemoveIfCurrent, Pending
    <3> QED
      BY <2>1, <2>2, <2>3, <3>1 DEF BytesAccounted, Pending, Kept
  <2> QED
    BY <2>4, <2>5
<1>26. ASSUME NEW t \in Ops, Notify(t) PROVE BytesAccounted'
  BY <1>1, <1>26
   DEF Goto, Notify, OfSession, controlVars, fileVars, idleVars, loopVars,
         registryVars
<1>27. ASSUME NEW t \in Uploads, ReserveTarget(t) PROVE BytesAccounted'
  BY <1>1, <1>27
   DEF Goto, ReserveTarget, controlVars, fileVars, idleVars, loopVars,
         registryVars
<1>28. ASSUME NEW t \in Uploads, Stage(t) PROVE BytesAccounted'
  BY <1>1, <1>28
   DEF Goto, Stage, controlVars, fileVars, idleVars, loopVars, registryVars
<1>29. ASSUME NEW t \in Uploads, SendReady(t) PROVE BytesAccounted'
  BY <1>1, <1>29
   DEF Goto, Send, SendReady, controlVars, fileVars, idleVars, loopVars,
         registryVars
<1>30. ASSUME NEW t \in Uploads, WriteChunk(t) PROVE BytesAccounted'
  BY <1>1, <1>30
   DEF WriteChunk, controlVars, fileVars, idleVars, loopVars, registryVars
<1>31. ASSUME NEW t \in Uploads, TakeFinish(t) PROVE BytesAccounted'
  BY <1>1, <1>31
   DEF BeginCommit, Goto, TakeFinish, controlVars, fileVars, idleVars, loopVars,
         registryVars
<1>32. ASSUME NEW t \in Uploads, Publish(t) PROVE BytesAccounted'
  BY <1>1, <1>32
   DEF Goto, Publish, controlVars, fileVars, idleVars, loopVars, registryVars
<1>33. ASSUME NEW t \in Uploads, PublishFails(t) PROVE BytesAccounted'
  BY <1>1, <1>33
   DEF Goto, PublishFails, controlVars, fileVars, idleVars, loopVars, registryVars
<1>34. ASSUME NEW t \in Uploads, CountUpload(t) PROVE BytesAccounted'
  <2>1. /\ worker[t] = "counting" /\ session' = session /\ sessionOf' = sessionOf
        /\ operations' = operations
    BY <1>34 DEF CountUpload, loopVars
  <2>2. t \notin counted
    BY <2>1 DEF CountedLast, Ending
  <2>3. activeBytes = Bytes[Pending] /\ committedBytes = Bytes[Kept]
        /\ activeBytes + committedBytes <= MaxSessionBytes
    BY DEF BytesAccounted, Pending, Kept
  <2>4. CASE OfSession(t) /\ t \in operations
    <3>1. /\ counted' = counted \cup {t}
          /\ activeBytes' = activeBytes - announced[t]
          /\ committedBytes' = committedBytes + announced[t]
      BY <1>34, <2>4 DEF CountUpload
    <3>2. Pending' = Pending \ {t} /\ t \in Pending
      BY <2>1, <2>2, <2>4, <3>1 DEF Pending
    <3>3. Kept' = Kept \cup {t} /\ t \in Uploads \ Kept
      BY <2>1, <2>2, <2>4, <3>1 DEF Kept, OfSession
    <3>4. Bytes[Pending'] = Bytes[Pending] - announced[t]
      BY <3>2, UploadsApart, BytesRemove
    <3>5. Bytes[Kept'] = Bytes[Kept] + announced[t]
      BY <3>3, UploadsApart, BytesInsert
    <3>6. activeBytes' = Bytes[Pending'] /\ committedBytes' = Bytes[Kept']
      BY <2>3, <3>1, <3>4, <3>5
    <3>7. announced[t] \in Nat /\ activeBytes \in Int /\ committedBytes \in Nat
          /\ MaxSessionBytes \in Nat
      BY FileJobConstants DEF Shape
    <3>8. activeBytes' + committedBytes' <= MaxSessionBytes
      BY <2>3, <3>1, <3>7
    <3> QED
      BY <3>6, <3>8 DEF BytesAccounted, Pending, Kept
  <2>5. CASE ~(OfSession(t) /\ t \in operations)
    <3>1. UNCHANGED <<counted, activeBytes, committedBytes>>
      BY <1>34, <2>5 DEF CountUpload
    <3> QED
      BY <1>1, <2>1, <3>1
  <2> QED
    BY <2>4, <2>5
<1>35. CASE UNCHANGED jobVars
  BY <1>1, <1>35
   DEF controlVars, fileVars, idleVars, jobVars, loopVars, registryVars
<1> QED
  BY <1>1, <1>2, <1>3, <1>4, <1>5, <1>6, <1>7, <1>8, <1>9, <1>10, <1>11, <1>12,
     <1>13, <1>14, <1>15, <1>16, <1>17, <1>18, <1>19, <1>20, <1>21, <1>22, <1>23,
     <1>24, <1>25, <1>26, <1>27, <1>28, <1>29, <1>30, <1>31, <1>32, <1>33, <1>34,
     <1>35
   DEF JobsNext, AgentStep, Loop, Work, WorkUpload, Start

\* The quota of a session counts every upload once: what is registered and not yet
\* counted is active, what was counted in it is committed, and the two together never
\* exceed what a session may receive.
THEOREM BytesCorrect == JobsSpec => []BytesAccounted

<1>1. JobsInit => CountedLast /\ BytesAccounted
  <2> SUFFICES ASSUME JobsInit PROVE CountedLast /\ BytesAccounted
    OBVIOUS
  <2>1. (operations \cap Uploads) \ counted = {} /\ {t \in counted : OfSession(t)} = {}
    BY DEF JobsInit
  <2>2. BytesAccounted
    BY <2>1, BytesEmpty, FileJobConstants DEF JobsInit, BytesAccounted
  <2> QED
    BY <2>2 DEF JobsInit, CountedLast
<1>2. IInv /\ CountedLast /\ BytesAccounted /\ [JobsNext]_jobVars
      => CountedLast' /\ BytesAccounted'
  BY CountedStep, BytesStep DEF IInv
<1> QED
  BY <1>1, <1>2, IInvInvariant, PTL DEF JobsSpec

(***************************************************************************)
(* One outcome for each job.                                               *)
(***************************************************************************)

\* What is settled about a job, and a thread that has sent its answer.
OutcomeKept ==
    \A t \in Ops :
        /\ control[t] = "terminal" => control'[t] = "terminal"
        /\ answer[t] # None => answer'[t] = answer[t]
        /\ t \in published => t \in published'
        /\ t \in counted => t \in counted'
        /\ worker[t] \in Ending \ {"answering"} => worker'[t] \in Ending \ {"answering"}

LEMMA OutcomeStep == Shape /\ Answers /\ [JobsNext]_jobVars => OutcomeKept
<1> SUFFICES ASSUME Shape, Answers, [JobsNext]_jobVars PROVE OutcomeKept
  OBVIOUS
<1>1. CASE UNCHANGED <<control, answer, published, counted, worker>>
  BY <1>1 DEF OutcomeKept
<1>2. ASSUME NextSession PROVE OutcomeKept
  BY <1>1, <1>2
   DEF NextSession, controlVars, fileVars, idleVars, loopVars, registryVars
<1>3. ASSUME FeedOn PROVE OutcomeKept
  BY <1>1, <1>3
   DEF FeedOn, controlVars, fileVars, idleVars, loopVars, registryVars
<1>4. ASSUME FeedTimesOut PROVE OutcomeKept
  <2>1. PICK u \in Uploads : RequestCancel(u, "Error")
    BY <1>4 DEF FeedTimesOut
  <2>2. u \in Ops
    BY DEF Ops
  <2>3. /\ feeding' = None
        /\ UNCHANGED <<session, receiver, linked, failed, registryVars, idleVars, outgoing,
                       worker, sessionOf, answer, commands, permits, fileVars>>
    BY <1>4 DEF FeedTimesOut
  <2> QED
    BY <2>1, <2>2, <2>3
     DEF Answers, Ending, OfSession, Ops, OutcomeKept, RequestCancel, Shape,
           controlVars, fileVars, idleVars, loopVars, registryVars
<1>5. ASSUME FeedOrphaned PROVE OutcomeKept
  BY <1>1, <1>5
   DEF FeedOrphaned, controlVars, fileVars, idleVars, loopVars, registryVars
<1>6. ASSUME EndSession PROVE OutcomeKept
  BY <1>6
   DEF CancelAll, EndSession, Ending, Ops, OutcomeKept, Reasons, Shape, Terminals,
         controlVars, fileVars, idleVars, loopVars, registryVars
<1>7. ASSUME Drain PROVE OutcomeKept
  BY <1>1, <1>7
   DEF Drain, HangUp, controlVars, fileVars, idleVars, loopVars, registryVars
<1>8. ASSUME Wake PROVE OutcomeKept
  BY <1>1, <1>8
   DEF Wake, controlVars, fileVars, idleVars, loopVars, registryVars
<1>9. ASSUME DrainTimesOut PROVE OutcomeKept
  BY <1>1, <1>9
   DEF DrainTimesOut, HangUp, controlVars, fileVars, idleVars, loopVars,
         registryVars
<1>10. ASSUME LinkLost PROVE OutcomeKept
  BY <1>1, <1>10
   DEF HangUp, LinkLost, controlVars, fileVars, idleVars, loopVars, registryVars
<1>11. ASSUME Write PROVE OutcomeKept
  BY <1>1, <1>11
   DEF Write, controlVars, fileVars, idleVars, loopVars, registryVars
<1>12. ASSUME NEW t \in Ops, Admit(t) PROVE OutcomeKept
  BY <1>12
   DEF Admit, Answers, Ending, Listening, MayAdmit, OfSession, Ops, OutcomeKept,
         Shape, controlVars, fileVars, idleVars, loopVars, registryVars
<1>13. ASSUME NEW t \in Ops, Refuse(t) PROVE OutcomeKept
  BY <1>1, <1>13
   DEF Listening, Refuse, Reply, Room, controlVars, fileVars, idleVars, loopVars,
         registryVars
<1>14. ASSUME NEW t \in Ops, SpawnFails(t) PROVE OutcomeKept
  BY <1>1, <1>14
   DEF Listening, Reply, Room, SpawnFails, controlVars, fileVars, idleVars,
         loopVars, registryVars
<1>15. ASSUME NEW t \in Ops, HandleCancel(t) PROVE OutcomeKept
  BY <1>15
   DEF Answers, Ending, HandleCancel, Listening, OfSession, Ops, OutcomeKept,
         Reply, RequestCancel, Room, Shape, controlVars, fileVars, idleVars,
         loopVars, registryVars
<1>16. ASSUME NEW t \in Uploads, NEW c \in Commands, HandleCommand(t, c) PROVE OutcomeKept
  BY <1>1, <1>16
   DEF HandleCommand, Listening, Reply, Room, controlVars, fileVars, idleVars,
         loopVars, registryVars
<1>17. ASSUME NEW t \in Ops, StopCancelled(t) PROVE OutcomeKept
  BY <1>17
   DEF Answers, ClaimCancelled, Ending, OfSession, Ops, OutcomeKept, Shape,
         StopCancelled, controlVars, fileVars, idleVars, loopVars, registryVars
<1>18. ASSUME NEW t \in Ops, StopWithError(t) PROVE OutcomeKept
  BY <1>18
   DEF Answers, ClaimActive, Ending, OfSession, Ops, OutcomeKept, Shape,
         StopWithError, controlVars, fileVars, idleVars, loopVars, registryVars
<1>19. ASSUME NEW t \in Ops, SendFails(t) PROVE OutcomeKept
  BY <1>19
   DEF Answers, Ending, Goto, OfSession, Ops, OutcomeKept, SendFails, Shape,
         controlVars, fileVars, idleVars, loopVars, registryVars
<1>20. ASSUME NEW t \in Ops, SendStart(t) PROVE OutcomeKept
  BY <1>20
   DEF Answers, Ending, Goto, OfSession, Ops, OutcomeKept, Send, SendStart, Shape,
         controlVars, fileVars, idleVars, loopVars, registryVars
<1>21. ASSUME NEW t \in Ops, SendChunk(t) PROVE OutcomeKept
  BY <1>21
   DEF Answers, Ending, Goto, OfSession, Ops, OutcomeKept, Send, SendChunk, Shape,
         controlVars, fileVars, idleVars, loopVars, registryVars
<1>22. ASSUME NEW t \in Ops, DownloadDone(t) PROVE OutcomeKept
  BY <1>22
   DEF Answers, ClaimActive, DownloadDone, Ending, OfSession, Ops, OutcomeKept,
         Shape, controlVars, fileVars, idleVars, loopVars, registryVars
<1>23. ASSUME NEW t \in Ops, SendAnswer(t) PROVE OutcomeKept
  BY <1>23
   DEF Answers, Ending, Goto, OfSession, Ops, OutcomeKept, SendAnswer, Shape,
         controlVars, fileVars, idleVars, loopVars, registryVars
<1>24. ASSUME NEW t \in Ops, Release(t) PROVE OutcomeKept
  BY <1>24
   DEF Answers, Ending, Goto, OfSession, Ops, OutcomeKept, Release, Shape,
         controlVars, fileVars, idleVars, loopVars, registryVars
<1>25. ASSUME NEW t \in Ops, Leave(t) PROVE OutcomeKept
  BY <1>25
   DEF Answers, Ending, Goto, Leave, OfSession, Ops, OutcomeKept, RemoveIfCurrent,
         Shape, controlVars, fileVars, idleVars, loopVars, registryVars
<1>26. ASSUME NEW t \in Ops, Notify(t) PROVE OutcomeKept
  BY <1>26
   DEF Answers, Ending, Goto, Notify, OfSession, Ops, OutcomeKept, Shape,
         controlVars, fileVars, idleVars, loopVars, registryVars
<1>27. ASSUME NEW t \in Uploads, ReserveTarget(t) PROVE OutcomeKept
  BY <1>27
   DEF Answers, Ending, Goto, OfSession, Ops, OutcomeKept, ReserveTarget, Shape,
         controlVars, fileVars, idleVars, loopVars, registryVars
<1>28. ASSUME NEW t \in Uploads, Stage(t) PROVE OutcomeKept
  BY <1>28
   DEF Answers, Ending, Goto, OfSession, Ops, OutcomeKept, Shape, Stage,
         controlVars, fileVars, idleVars, loopVars, registryVars
<1>29. ASSUME NEW t \in Uploads, SendReady(t) PROVE OutcomeKept
  BY <1>29
   DEF Answers, Ending, Goto, OfSession, Ops, OutcomeKept, Send, SendReady, Shape,
         controlVars, fileVars, idleVars, loopVars, registryVars
<1>30. ASSUME NEW t \in Uploads, WriteChunk(t) PROVE OutcomeKept
  BY <1>1, <1>30
   DEF WriteChunk, controlVars, fileVars, idleVars, loopVars, registryVars
<1>31. ASSUME NEW t \in Uploads, TakeFinish(t) PROVE OutcomeKept
  BY <1>31
   DEF Answers, BeginCommit, Ending, Goto, OfSession, Ops, OutcomeKept, Shape,
         TakeFinish, controlVars, fileVars, idleVars, loopVars, registryVars
<1>32. ASSUME NEW t \in Uploads, Publish(t) PROVE OutcomeKept
  BY <1>32
   DEF Answers, Ending, Goto, OfSession, Ops, OutcomeKept, Publish, Shape,
         controlVars, fileVars, idleVars, loopVars, registryVars
<1>33. ASSUME NEW t \in Uploads, PublishFails(t) PROVE OutcomeKept
  BY <1>33
   DEF Answers, Ending, Goto, OfSession, Ops, OutcomeKept, PublishFails, Shape,
         controlVars, fileVars, idleVars, loopVars, registryVars
<1>34. ASSUME NEW t \in Uploads, CountUpload(t) PROVE OutcomeKept
  BY <1>34
   DEF Answers, CountUpload, Ending, Goto, OfSession, Ops, OutcomeKept, Shape,
         controlVars, fileVars, idleVars, loopVars, registryVars
<1>35. CASE UNCHANGED jobVars
  BY <1>1, <1>35
   DEF controlVars, fileVars, idleVars, jobVars, loopVars, registryVars
<1> QED
  BY <1>1, <1>2, <1>3, <1>4, <1>5, <1>6, <1>7, <1>8, <1>9, <1>10, <1>11, <1>12,
     <1>13, <1>14, <1>15, <1>16, <1>17, <1>18, <1>19, <1>20, <1>21, <1>22, <1>23,
     <1>24, <1>25, <1>26, <1>27, <1>28, <1>29, <1>30, <1>31, <1>32, <1>33, <1>34,
     <1>35
   DEF JobsNext, AgentStep, Loop, Work, WorkUpload, Start

\* An outcome, once it is settled, stays: a job ends once, its answer is claimed once and sent at
\* most once (the terminal state of FileJobControl), and no later step of a session or of
\* another thread takes back what was published or counted.
THEOREM OutcomeFinal == JobsSpec => [][OutcomeKept]_jobVars
<1>1. IInv /\ [JobsNext]_jobVars => OutcomeKept
  BY OutcomeStep DEF IInv
<1> QED
  BY <1>1, IInvInvariant, PTL DEF JobsSpec

(***************************************************************************)
(* Publication: what is decided of an upload, and when.                    *)
(***************************************************************************)

\* Nobody cancels or feeds what was not admitted.
Admitted ==
    /\ \A t \in operations : worker[t] # "none"
    /\ \A t \in Uploads, c \in Commands : feeding = <<t, c>> => worker[t] # "none"

\* A control says how far its thread is, an answer what was published.
Decided ==
    /\ \A t \in Ops :
        /\ worker[t] = "none" => control[t] = "active"
        /\ control[t] = "terminal" => worker[t] \in Ending
    /\ \A t \in Uploads :
        /\ worker[t] \in Ending => control[t] = "terminal"
        /\ t \in published /\ worker[t] \in Ending => answer[t] = "Complete"

\* A folder is reserved for an upload into it.
Homed == \A f \in Folders : targets[f] # None => folder[targets[f]] = f

LEMMA AdmittedStep == Shape /\ Admitted /\ [JobsNext]_jobVars => Admitted'
<1> SUFFICES ASSUME Shape, Admitted, [JobsNext]_jobVars PROVE Admitted'
  OBVIOUS
<1>1. CASE UNCHANGED <<feeding, operations, worker>>
  BY <1>1 DEF Admitted
<1>2. ASSUME NextSession PROVE Admitted'
  <2>1. operations' = {} /\ UNCHANGED <<feeding, worker>>
    BY <1>2 DEF NextSession
  <2> QED
    BY <2>1 DEF Admitted
<1>3. ASSUME FeedOn PROVE Admitted'
  <2>1. feeding' = None /\ UNCHANGED <<operations, worker>>
    BY <1>3 DEF FeedOn, registryVars
  <2> QED
    BY <2>1, NoneApart DEF Admitted, Commands
<1>4. ASSUME FeedTimesOut PROVE Admitted'
  <2>1. feeding' = None /\ UNCHANGED <<operations, worker>>
    BY <1>4 DEF FeedTimesOut, registryVars
  <2> QED
    BY <2>1, NoneApart DEF Admitted, Commands
<1>5. ASSUME FeedOrphaned PROVE Admitted'
  <2>1. feeding' = None /\ UNCHANGED <<operations, worker>>
    BY <1>5 DEF FeedOrphaned, registryVars
  <2> QED
    BY <2>1, NoneApart DEF Admitted, Commands
<1>6. ASSUME EndSession PROVE Admitted'
  <2>1. operations' = {} /\ feeding' = None /\ worker' = worker
    BY <1>6 DEF EndSession, CancelAll
  <2> QED
    BY <2>1, NoneApart DEF Admitted, Commands
<1>7. ASSUME Drain PROVE Admitted'
  BY <1>1, <1>7
   DEF Drain, HangUp, controlVars, fileVars, idleVars, loopVars, registryVars
<1>8. ASSUME Wake PROVE Admitted'
  BY <1>1, <1>8
   DEF Wake, controlVars, fileVars, idleVars, loopVars, registryVars
<1>9. ASSUME DrainTimesOut PROVE Admitted'
  BY <1>1, <1>9
   DEF DrainTimesOut, HangUp, controlVars, fileVars, idleVars, loopVars,
         registryVars
<1>10. ASSUME LinkLost PROVE Admitted'
  BY <1>1, <1>10
   DEF HangUp, LinkLost, controlVars, fileVars, idleVars, loopVars, registryVars
<1>11. ASSUME Write PROVE Admitted'
  BY <1>1, <1>11
   DEF Write, controlVars, fileVars, idleVars, loopVars, registryVars
<1>12. ASSUME NEW t \in Ops, Admit(t) PROVE Admitted'
  <2>1. operations' \subseteq operations \cup {t} /\ feeding' = feeding
    BY <1>12 DEF Admit, loopVars, registryVars
  <2>2. PICK p \in Phases \ {"none"} : worker' = [worker EXCEPT ![t] = p]
    BY <1>12 DEF Admit, Phases, Holding
  <2> QED
    BY <2>1, <2>2 DEF Admitted, Shape, Ops
<1>13. ASSUME NEW t \in Ops, Refuse(t) PROVE Admitted'
  BY <1>1, <1>13
   DEF Listening, Refuse, Reply, Room, controlVars, fileVars, idleVars, loopVars,
         registryVars
<1>14. ASSUME NEW t \in Ops, SpawnFails(t) PROVE Admitted'
  BY <1>1, <1>14
   DEF Listening, Reply, Room, SpawnFails, controlVars, fileVars, idleVars,
         loopVars, registryVars
<1>15. ASSUME NEW t \in Ops, HandleCancel(t) PROVE Admitted'
  BY <1>1, <1>15
   DEF HandleCancel, Listening, Reply, RequestCancel, Room, controlVars, fileVars,
         idleVars, loopVars, registryVars
<1>16. ASSUME NEW t \in Uploads, NEW c \in Commands, HandleCommand(t, c) PROVE Admitted'
  <2>1. UNCHANGED <<operations, worker>>
    BY <1>16 DEF HandleCommand, registryVars
  <2>2. CASE t \in operations /\ feeding' = <<t, c>>
    BY <2>1, <2>2 DEF Admitted
  <2>3. CASE UNCHANGED feeding
    BY <2>1, <2>3 DEF Admitted
  <2> QED
    BY <1>16, <2>2, <2>3 DEF HandleCommand
<1>17. ASSUME NEW t \in Ops, StopCancelled(t) PROVE Admitted'
  <2>1. operations' = operations /\ feeding' = feeding
    BY <1>17 DEF StopCancelled, loopVars, registryVars
  <2>2. PICK p \in Phases \ {"none"} : worker' = [worker EXCEPT ![t] = p]
    BY <1>17 DEF StopCancelled, ClaimCancelled, Phases, Holding
  <2> QED
    BY <2>1, <2>2 DEF Admitted, Shape, Ops
<1>18. ASSUME NEW t \in Ops, StopWithError(t) PROVE Admitted'
  <2>1. operations' = operations /\ feeding' = feeding
    BY <1>18 DEF StopWithError, loopVars, registryVars
  <2>2. PICK p \in Phases \ {"none"} : worker' = [worker EXCEPT ![t] = p]
    BY <1>18 DEF StopWithError, ClaimActive, Phases, Holding
  <2> QED
    BY <2>1, <2>2 DEF Admitted, Shape, Ops
<1>19. ASSUME NEW t \in Ops, SendFails(t) PROVE Admitted'
  <2>1. operations' = operations /\ feeding' = feeding
    BY <1>19 DEF SendFails, loopVars, registryVars
  <2>2. PICK p \in Phases \ {"none"} : worker' = [worker EXCEPT ![t] = p]
    BY <1>19 DEF SendFails, Goto, Phases, Holding
  <2> QED
    BY <2>1, <2>2 DEF Admitted, Shape, Ops
<1>20. ASSUME NEW t \in Ops, SendStart(t) PROVE Admitted'
  <2>1. operations' = operations /\ feeding' = feeding
    BY <1>20 DEF SendStart, Send, loopVars, registryVars
  <2>2. PICK p \in Phases \ {"none"} : worker' = [worker EXCEPT ![t] = p]
    BY <1>20 DEF SendStart, Send, Goto, Phases, Holding
  <2> QED
    BY <2>1, <2>2 DEF Admitted, Shape, Ops
<1>21. ASSUME NEW t \in Ops, SendChunk(t) PROVE Admitted'
  <2>1. operations' = operations /\ feeding' = feeding
    BY <1>21 DEF SendChunk, Send, loopVars, registryVars
  <2>2. PICK p \in Phases \ {"none"} : worker' = [worker EXCEPT ![t] = p]
    BY <1>21 DEF SendChunk, Send, Goto, Phases, Holding
  <2> QED
    BY <2>1, <2>2 DEF Admitted, Shape, Ops
<1>22. ASSUME NEW t \in Ops, DownloadDone(t) PROVE Admitted'
  <2>1. operations' = operations /\ feeding' = feeding
    BY <1>22 DEF DownloadDone, loopVars, registryVars
  <2>2. PICK p \in Phases \ {"none"} : worker' = [worker EXCEPT ![t] = p]
    BY <1>22 DEF DownloadDone, ClaimActive, Phases, Holding
  <2> QED
    BY <2>1, <2>2 DEF Admitted, Shape, Ops
<1>23. ASSUME NEW t \in Ops, SendAnswer(t) PROVE Admitted'
  <2>1. operations' = operations /\ feeding' = feeding
    BY <1>23 DEF SendAnswer, loopVars, registryVars
  <2>2. PICK p \in Phases \ {"none"} : worker' = [worker EXCEPT ![t] = p]
    BY <1>23 DEF SendAnswer, Goto, Phases, Holding
  <2> QED
    BY <2>1, <2>2 DEF Admitted, Shape, Ops
<1>24. ASSUME NEW t \in Ops, Release(t) PROVE Admitted'
  <2>1. operations' = operations /\ feeding' = feeding
    BY <1>24 DEF Release, loopVars, registryVars
  <2>2. PICK p \in Phases \ {"none"} : worker' = [worker EXCEPT ![t] = p]
    BY <1>24 DEF Release, Goto, Phases, Holding
  <2> QED
    BY <2>1, <2>2 DEF Admitted, Shape, Ops
<1>25. ASSUME NEW t \in Ops, Leave(t) PROVE Admitted'
  <2>1. operations' \subseteq operations /\ feeding' = feeding
    BY <1>25 DEF Leave, RemoveIfCurrent, loopVars, registryVars
  <2>2. PICK p \in Phases \ {"none"} : worker' = [worker EXCEPT ![t] = p]
    BY <1>25 DEF Leave, Goto, Phases, Holding
  <2> QED
    BY <2>1, <2>2 DEF Admitted, Shape, Ops
<1>26. ASSUME NEW t \in Ops, Notify(t) PROVE Admitted'
  <2>1. operations' = operations /\ feeding' = feeding
    BY <1>26 DEF Notify, loopVars, registryVars
  <2>2. PICK p \in Phases \ {"none"} : worker' = [worker EXCEPT ![t] = p]
    BY <1>26 DEF Notify, Goto, Phases, Holding
  <2> QED
    BY <2>1, <2>2 DEF Admitted, Shape, Ops
<1>27. ASSUME NEW t \in Uploads, ReserveTarget(t) PROVE Admitted'
  <2>1. operations' = operations /\ feeding' = feeding
    BY <1>27 DEF ReserveTarget, loopVars, registryVars
  <2>2. PICK p \in Phases \ {"none"} : worker' = [worker EXCEPT ![t] = p]
    BY <1>27 DEF ReserveTarget, Goto, Phases, Holding
  <2> QED
    BY <2>1, <2>2 DEF Admitted, Shape, Ops
<1>28. ASSUME NEW t \in Uploads, Stage(t) PROVE Admitted'
  <2>1. operations' = operations /\ feeding' = feeding
    BY <1>28 DEF Stage, loopVars, registryVars
  <2>2. PICK p \in Phases \ {"none"} : worker' = [worker EXCEPT ![t] = p]
    BY <1>28 DEF Stage, Goto, Phases, Holding
  <2> QED
    BY <2>1, <2>2 DEF Admitted, Shape, Ops
<1>29. ASSUME NEW t \in Uploads, SendReady(t) PROVE Admitted'
  <2>1. operations' = operations /\ feeding' = feeding
    BY <1>29 DEF SendReady, Send, loopVars, registryVars
  <2>2. PICK p \in Phases \ {"none"} : worker' = [worker EXCEPT ![t] = p]
    BY <1>29 DEF SendReady, Send, Goto, Phases, Holding
  <2> QED
    BY <2>1, <2>2 DEF Admitted, Shape, Ops
<1>30. ASSUME NEW t \in Uploads, WriteChunk(t) PROVE Admitted'
  BY <1>1, <1>30
   DEF WriteChunk, controlVars, fileVars, idleVars, loopVars, registryVars
<1>31. ASSUME NEW t \in Uploads, TakeFinish(t) PROVE Admitted'
  <2>1. operations' = operations /\ feeding' = feeding
    BY <1>31 DEF TakeFinish, loopVars, registryVars
  <2>2. PICK p \in Phases \ {"none"} : worker' = [worker EXCEPT ![t] = p]
    BY <1>31 DEF TakeFinish, Goto, Phases, Holding
  <2> QED
    BY <2>1, <2>2 DEF Admitted, Shape, Ops
<1>32. ASSUME NEW t \in Uploads, Publish(t) PROVE Admitted'
  <2>1. operations' = operations /\ feeding' = feeding
    BY <1>32 DEF Publish, loopVars, registryVars
  <2>2. PICK p \in Phases \ {"none"} : worker' = [worker EXCEPT ![t] = p]
    BY <1>32 DEF Publish, Goto, Phases, Holding
  <2> QED
    BY <2>1, <2>2 DEF Admitted, Shape, Ops
<1>33. ASSUME NEW t \in Uploads, PublishFails(t) PROVE Admitted'
  <2>1. operations' = operations /\ feeding' = feeding
    BY <1>33 DEF PublishFails, loopVars, registryVars
  <2>2. PICK p \in Phases \ {"none"} : worker' = [worker EXCEPT ![t] = p]
    BY <1>33 DEF PublishFails, Goto, Phases, Holding
  <2> QED
    BY <2>1, <2>2 DEF Admitted, Shape, Ops
<1>34. ASSUME NEW t \in Uploads, CountUpload(t) PROVE Admitted'
  <2>1. operations' = operations /\ feeding' = feeding
    BY <1>34 DEF CountUpload, loopVars, registryVars
  <2>2. PICK p \in Phases \ {"none"} : worker' = [worker EXCEPT ![t] = p]
    BY <1>34 DEF CountUpload, Goto, Phases, Holding
  <2> QED
    BY <2>1, <2>2 DEF Admitted, Shape, Ops
<1>35. CASE UNCHANGED jobVars
  BY <1>1, <1>35
   DEF controlVars, fileVars, idleVars, jobVars, loopVars, registryVars
<1> QED
  BY <1>1, <1>2, <1>3, <1>4, <1>5, <1>6, <1>7, <1>8, <1>9, <1>10, <1>11, <1>12,
     <1>13, <1>14, <1>15, <1>16, <1>17, <1>18, <1>19, <1>20, <1>21, <1>22, <1>23,
     <1>24, <1>25, <1>26, <1>27, <1>28, <1>29, <1>30, <1>31, <1>32, <1>33, <1>34,
     <1>35
   DEF JobsNext, AgentStep, Loop, Work, WorkUpload, Start

LEMMA DecidedStep == Shape /\ Controls /\ Admitted /\ Decided /\ [JobsNext]_jobVars => Decided'
<1> SUFFICES ASSUME Shape, Controls, Admitted, Decided, [JobsNext]_jobVars PROVE Decided'
  OBVIOUS
<1>1. CASE UNCHANGED <<worker, control, published, answer>>
  BY <1>1 DEF Decided
<1>2. ASSUME NextSession PROVE Decided'
  BY <1>1, <1>2
   DEF NextSession, controlVars, fileVars, idleVars, loopVars, registryVars
<1>3. ASSUME FeedOn PROVE Decided'
  BY <1>1, <1>3
   DEF FeedOn, controlVars, fileVars, idleVars, loopVars, registryVars
<1>4. ASSUME FeedTimesOut PROVE Decided'
  <2>1. PICK u \in Uploads, c \in Commands : feeding = <<u, c>> /\ RequestCancel(u, "Error")
    BY <1>4 DEF FeedTimesOut
  <2>2. UNCHANGED <<worker, published, answer>>
    BY <1>4 DEF FeedTimesOut, fileVars
  <2>3. worker[u] # "none" /\ u \in Ops
    BY <2>1 DEF Admitted, Ops
  <2>4. \/ control' = control
        \/ control[u] = "active" /\ control' = [control EXCEPT ![u] = "Error"]
    BY <2>1 DEF RequestCancel, controlVars
  <2> QED
    BY <2>2, <2>3, <2>4 DEF Decided, Ending, Ops, Shape
<1>5. ASSUME FeedOrphaned PROVE Decided'
  BY <1>1, <1>5
   DEF FeedOrphaned, controlVars, fileVars, idleVars, loopVars, registryVars
<1>6. ASSUME EndSession PROVE Decided'
  BY <1>6
   DEF Admitted, CancelAll, Decided, EndSession, Ending, Ops, Reasons, Shape,
         Terminals, controlVars, fileVars, idleVars, loopVars, registryVars
<1>7. ASSUME Drain PROVE Decided'
  BY <1>1, <1>7
   DEF Drain, HangUp, controlVars, fileVars, idleVars, loopVars, registryVars
<1>8. ASSUME Wake PROVE Decided'
  BY <1>1, <1>8
   DEF Wake, controlVars, fileVars, idleVars, loopVars, registryVars
<1>9. ASSUME DrainTimesOut PROVE Decided'
  BY <1>1, <1>9
   DEF DrainTimesOut, HangUp, controlVars, fileVars, idleVars, loopVars,
         registryVars
<1>10. ASSUME LinkLost PROVE Decided'
  BY <1>1, <1>10
   DEF HangUp, LinkLost, controlVars, fileVars, idleVars, loopVars, registryVars
<1>11. ASSUME Write PROVE Decided'
  BY <1>1, <1>11
   DEF Write, controlVars, fileVars, idleVars, loopVars, registryVars
<1>12. ASSUME NEW t \in Ops, Admit(t) PROVE Decided'
  BY <1>12
   DEF Admit, Decided, Ending, Listening, MayAdmit, Ops, Shape, controlVars,
         fileVars, idleVars, loopVars, registryVars
<1>13. ASSUME NEW t \in Ops, Refuse(t) PROVE Decided'
  BY <1>1, <1>13
   DEF Listening, Refuse, Reply, Room, controlVars, fileVars, idleVars, loopVars,
         registryVars
<1>14. ASSUME NEW t \in Ops, SpawnFails(t) PROVE Decided'
  BY <1>1, <1>14
   DEF Listening, Reply, Room, SpawnFails, controlVars, fileVars, idleVars,
         loopVars, registryVars
<1>15. ASSUME NEW t \in Ops, HandleCancel(t) PROVE Decided'
  <2>1. UNCHANGED <<worker, published, answer>>
    BY <1>15 DEF HandleCancel, fileVars
  <2>2. \/ control' = control
        \/ /\ t \in operations /\ control[t] = "active"
           /\ control' = [control EXCEPT ![t] = "Complete"]
    BY <1>15 DEF HandleCancel, RequestCancel, controlVars
  <2> QED
    BY <2>1, <2>2 DEF Admitted, Decided, Ending, Ops, Shape
<1>16. ASSUME NEW t \in Uploads, NEW c \in Commands, HandleCommand(t, c) PROVE Decided'
  BY <1>1, <1>16
   DEF HandleCommand, Listening, Reply, Room, controlVars, fileVars, idleVars,
         loopVars, registryVars
<1>17. ASSUME NEW t \in Ops, StopCancelled(t) PROVE Decided'
  BY <1>17
   DEF ClaimCancelled, Controls, Decided, Ending, Ops, Reasons, Shape,
         StopCancelled, Terminals, controlVars, fileVars, idleVars, loopVars,
         registryVars
<1>18. ASSUME NEW t \in Ops, StopWithError(t) PROVE Decided'
  BY <1>18
   DEF ClaimActive, Controls, Decided, Ending, Ops, Reasons, Shape, StopWithError,
         Terminals, controlVars, fileVars, idleVars, loopVars, registryVars
<1>19. ASSUME NEW t \in Ops, SendFails(t) PROVE Decided'
  BY <1>19
   DEF Controls, Decided, Ending, Goto, OfSession, Ops, SendFails, Shape,
         controlVars, fileVars, idleVars, loopVars, registryVars
<1>20. ASSUME NEW t \in Ops, SendStart(t) PROVE Decided'
  BY <1>20
   DEF Decided, Ending, Goto, Ops, Send, SendStart, Shape, controlVars, fileVars,
         idleVars, loopVars, registryVars
<1>21. ASSUME NEW t \in Ops, SendChunk(t) PROVE Decided'
  BY <1>21
   DEF Decided, Ending, Goto, Ops, Send, SendChunk, Shape, controlVars, fileVars,
         idleVars, loopVars, registryVars
<1>22. ASSUME NEW t \in Ops, DownloadDone(t) PROVE Decided'
  BY <1>22
   DEF ClaimActive, Controls, Decided, DownloadDone, Ending, Ops, Reasons, Shape,
         Terminals, controlVars, fileVars, idleVars, loopVars, registryVars
<1>23. ASSUME NEW t \in Ops, SendAnswer(t) PROVE Decided'
  BY <1>23
   DEF Decided, Ending, Goto, OfSession, Ops, SendAnswer, Shape, controlVars,
         fileVars, idleVars, loopVars, registryVars
<1>24. ASSUME NEW t \in Ops, Release(t) PROVE Decided'
  BY <1>24
   DEF Decided, Ending, Goto, Ops, Release, Shape, controlVars, fileVars,
         idleVars, loopVars, registryVars
<1>25. ASSUME NEW t \in Ops, Leave(t) PROVE Decided'
  BY <1>25
   DEF Decided, Ending, Goto, Leave, OfSession, Ops, RemoveIfCurrent, Shape,
         controlVars, fileVars, idleVars, loopVars, registryVars
<1>26. ASSUME NEW t \in Ops, Notify(t) PROVE Decided'
  BY <1>26
   DEF Decided, Ending, Goto, Notify, OfSession, Ops, Shape, controlVars,
         fileVars, idleVars, loopVars, registryVars
<1>27. ASSUME NEW t \in Uploads, ReserveTarget(t) PROVE Decided'
  BY <1>27
   DEF Decided, Ending, Goto, Ops, ReserveTarget, Shape, controlVars, fileVars,
         idleVars, loopVars, registryVars
<1>28. ASSUME NEW t \in Uploads, Stage(t) PROVE Decided'
  BY <1>28
   DEF Decided, Ending, Goto, Ops, Shape, Stage, controlVars, fileVars, idleVars,
         loopVars, registryVars
<1>29. ASSUME NEW t \in Uploads, SendReady(t) PROVE Decided'
  BY <1>29
   DEF Decided, Ending, Goto, Ops, Send, SendReady, Shape, controlVars, fileVars,
         idleVars, loopVars, registryVars
<1>30. ASSUME NEW t \in Uploads, WriteChunk(t) PROVE Decided'
  BY <1>1, <1>30
   DEF WriteChunk, controlVars, fileVars, idleVars, loopVars, registryVars
<1>31. ASSUME NEW t \in Uploads, TakeFinish(t) PROVE Decided'
  BY <1>31
   DEF BeginCommit, Controls, Decided, Ending, Goto, Ops, Shape, TakeFinish,
         controlVars, fileVars, idleVars, loopVars, registryVars
<1>32. ASSUME NEW t \in Uploads, Publish(t) PROVE Decided'
  BY <1>32
   DEF Controls, Decided, Ending, Goto, Ops, Publish, Shape, controlVars,
         fileVars, idleVars, loopVars, registryVars
<1>33. ASSUME NEW t \in Uploads, PublishFails(t) PROVE Decided'
  BY <1>33
   DEF Controls, Decided, Ending, Goto, Ops, PublishFails, Shape, controlVars,
         fileVars, idleVars, loopVars, registryVars
<1>34. ASSUME NEW t \in Uploads, CountUpload(t) PROVE Decided'
  BY <1>34
   DEF Controls, CountUpload, Decided, Ending, Goto, OfSession, Ops, Shape,
         controlVars, fileVars, idleVars, loopVars, registryVars
<1>35. CASE UNCHANGED jobVars
  BY <1>1, <1>35
   DEF controlVars, fileVars, idleVars, jobVars, loopVars, registryVars
<1> QED
  BY <1>1, <1>2, <1>3, <1>4, <1>5, <1>6, <1>7, <1>8, <1>9, <1>10, <1>11, <1>12,
     <1>13, <1>14, <1>15, <1>16, <1>17, <1>18, <1>19, <1>20, <1>21, <1>22, <1>23,
     <1>24, <1>25, <1>26, <1>27, <1>28, <1>29, <1>30, <1>31, <1>32, <1>33, <1>34,
     <1>35
   DEF JobsNext, AgentStep, Loop, Work, WorkUpload, Start

LEMMA HomedStep == Shape /\ Homed /\ [JobsNext]_jobVars => Homed'
<1> SUFFICES ASSUME Shape, Homed, [JobsNext]_jobVars PROVE Homed'
  OBVIOUS
<1>1. CASE UNCHANGED targets
  BY <1>1 DEF Homed
<1>2. ASSUME NextSession PROVE Homed'
  BY <1>1, <1>2
   DEF NextSession, controlVars, fileVars, idleVars, loopVars, registryVars
<1>3. ASSUME FeedOn PROVE Homed'
  BY <1>1, <1>3
   DEF FeedOn, controlVars, fileVars, idleVars, loopVars, registryVars
<1>4. ASSUME FeedTimesOut PROVE Homed'
  BY <1>1, <1>4
   DEF FeedTimesOut, RequestCancel, controlVars, fileVars, idleVars, loopVars,
         registryVars
<1>5. ASSUME FeedOrphaned PROVE Homed'
  BY <1>1, <1>5
   DEF FeedOrphaned, controlVars, fileVars, idleVars, loopVars, registryVars
<1>6. ASSUME EndSession PROVE Homed'
  BY <1>1, <1>6
   DEF CancelAll, EndSession, controlVars, fileVars, idleVars, loopVars,
         registryVars
<1>7. ASSUME Drain PROVE Homed'
  BY <1>1, <1>7
   DEF Drain, HangUp, controlVars, fileVars, idleVars, loopVars, registryVars
<1>8. ASSUME Wake PROVE Homed'
  BY <1>1, <1>8
   DEF Wake, controlVars, fileVars, idleVars, loopVars, registryVars
<1>9. ASSUME DrainTimesOut PROVE Homed'
  BY <1>1, <1>9
   DEF DrainTimesOut, HangUp, controlVars, fileVars, idleVars, loopVars,
         registryVars
<1>10. ASSUME LinkLost PROVE Homed'
  BY <1>1, <1>10
   DEF HangUp, LinkLost, controlVars, fileVars, idleVars, loopVars, registryVars
<1>11. ASSUME Write PROVE Homed'
  BY <1>1, <1>11
   DEF Write, controlVars, fileVars, idleVars, loopVars, registryVars
<1>12. ASSUME NEW t \in Ops, Admit(t) PROVE Homed'
  BY <1>1, <1>12
   DEF Admit, Listening, MayAdmit, controlVars, fileVars, idleVars, loopVars,
         registryVars
<1>13. ASSUME NEW t \in Ops, Refuse(t) PROVE Homed'
  BY <1>1, <1>13
   DEF Listening, Refuse, Reply, Room, controlVars, fileVars, idleVars, loopVars,
         registryVars
<1>14. ASSUME NEW t \in Ops, SpawnFails(t) PROVE Homed'
  BY <1>1, <1>14
   DEF Listening, Reply, Room, SpawnFails, controlVars, fileVars, idleVars,
         loopVars, registryVars
<1>15. ASSUME NEW t \in Ops, HandleCancel(t) PROVE Homed'
  BY <1>1, <1>15
   DEF HandleCancel, Listening, Reply, RequestCancel, Room, controlVars, fileVars,
         idleVars, loopVars, registryVars
<1>16. ASSUME NEW t \in Uploads, NEW c \in Commands, HandleCommand(t, c) PROVE Homed'
  BY <1>1, <1>16
   DEF HandleCommand, Listening, Reply, Room, controlVars, fileVars, idleVars,
         loopVars, registryVars
<1>17. ASSUME NEW t \in Ops, StopCancelled(t) PROVE Homed'
  BY <1>1, <1>17
   DEF ClaimCancelled, StopCancelled, controlVars, fileVars, idleVars, loopVars,
         registryVars
<1>18. ASSUME NEW t \in Ops, StopWithError(t) PROVE Homed'
  BY <1>1, <1>18
   DEF ClaimActive, StopWithError, controlVars, fileVars, idleVars, loopVars,
         registryVars
<1>19. ASSUME NEW t \in Ops, SendFails(t) PROVE Homed'
  BY <1>1, <1>19
   DEF Goto, OfSession, SendFails, controlVars, fileVars, idleVars, loopVars,
         registryVars
<1>20. ASSUME NEW t \in Ops, SendStart(t) PROVE Homed'
  BY <1>1, <1>20
   DEF Goto, Send, SendStart, controlVars, fileVars, idleVars, loopVars,
         registryVars
<1>21. ASSUME NEW t \in Ops, SendChunk(t) PROVE Homed'
  BY <1>1, <1>21
   DEF Goto, Send, SendChunk, controlVars, fileVars, idleVars, loopVars,
         registryVars
<1>22. ASSUME NEW t \in Ops, DownloadDone(t) PROVE Homed'
  BY <1>1, <1>22
   DEF ClaimActive, DownloadDone, controlVars, fileVars, idleVars, loopVars,
         registryVars
<1>23. ASSUME NEW t \in Ops, SendAnswer(t) PROVE Homed'
  BY <1>1, <1>23
   DEF Goto, OfSession, SendAnswer, controlVars, fileVars, idleVars, loopVars,
         registryVars
<1>24. ASSUME NEW t \in Ops, Release(t) PROVE Homed'
  BY <1>24, FileJobConstants
   DEF Goto, Homed, Release, Shape, controlVars, fileVars, idleVars, loopVars,
         registryVars
<1>25. ASSUME NEW t \in Ops, Leave(t) PROVE Homed'
  BY <1>1, <1>25
   DEF Goto, Leave, OfSession, RemoveIfCurrent, controlVars, fileVars, idleVars,
         loopVars, registryVars
<1>26. ASSUME NEW t \in Ops, Notify(t) PROVE Homed'
  BY <1>1, <1>26
   DEF Goto, Notify, OfSession, controlVars, fileVars, idleVars, loopVars,
         registryVars
<1>27. ASSUME NEW t \in Uploads, ReserveTarget(t) PROVE Homed'
  BY <1>27, FileJobConstants
   DEF Goto, Homed, Ops, ReserveTarget, Shape, controlVars, fileVars, idleVars,
         loopVars, registryVars
<1>28. ASSUME NEW t \in Uploads, Stage(t) PROVE Homed'
  BY <1>1, <1>28
   DEF Goto, Stage, controlVars, fileVars, idleVars, loopVars, registryVars
<1>29. ASSUME NEW t \in Uploads, SendReady(t) PROVE Homed'
  BY <1>1, <1>29
   DEF Goto, Send, SendReady, controlVars, fileVars, idleVars, loopVars,
         registryVars
<1>30. ASSUME NEW t \in Uploads, WriteChunk(t) PROVE Homed'
  BY <1>1, <1>30
   DEF WriteChunk, controlVars, fileVars, idleVars, loopVars, registryVars
<1>31. ASSUME NEW t \in Uploads, TakeFinish(t) PROVE Homed'
  BY <1>1, <1>31
   DEF BeginCommit, Goto, TakeFinish, controlVars, fileVars, idleVars, loopVars,
         registryVars
<1>32. ASSUME NEW t \in Uploads, Publish(t) PROVE Homed'
  BY <1>1, <1>32
   DEF Goto, Publish, controlVars, fileVars, idleVars, loopVars, registryVars
<1>33. ASSUME NEW t \in Uploads, PublishFails(t) PROVE Homed'
  BY <1>1, <1>33
   DEF Goto, PublishFails, controlVars, fileVars, idleVars, loopVars, registryVars
<1>34. ASSUME NEW t \in Uploads, CountUpload(t) PROVE Homed'
  BY <1>1, <1>34
   DEF CountUpload, Goto, OfSession, controlVars, fileVars, idleVars, loopVars,
         registryVars
<1>35. CASE UNCHANGED jobVars
  BY <1>1, <1>35
   DEF controlVars, fileVars, idleVars, jobVars, loopVars, registryVars
<1> QED
  BY <1>1, <1>2, <1>3, <1>4, <1>5, <1>6, <1>7, <1>8, <1>9, <1>10, <1>11, <1>12,
     <1>13, <1>14, <1>15, <1>16, <1>17, <1>18, <1>19, <1>20, <1>21, <1>22, <1>23,
     <1>24, <1>25, <1>26, <1>27, <1>28, <1>29, <1>30, <1>31, <1>32, <1>33, <1>34,
     <1>35
   DEF JobsNext, AgentStep, Loop, Work, WorkUpload, Start

\* What a thread does between its beginning and its end is its own affair.
LEMMA Unseen ==
    ASSUME UNCHANGED <<control, signalled, published, answer, targets>>,
           \A t \in Uploads : worker'[t] = "none" <=> worker[t] = "none"
    PROVE  UNCHANGED P!vars
<1>1. \A t \in Uploads : StageOf(t)' = StageOf(t)
  BY DEF StageOf
<1>2. Stages' = Stages
  BY <1>1 DEF Stages
<1> QED
  BY <1>2 DEF P!vars, Told

\* A step of one thread that stays begun.
LEMMA UnseenThread ==
    ASSUME Shape, NEW t \in Ops, worker[t] # "none",
           UNCHANGED <<control, signalled, published, answer, targets>>,
           NEW p \in Phases \ {"none"}, worker' = [worker EXCEPT ![t] = p]
    PROVE  UNCHANGED P!vars
<1>1. \A u \in Uploads : worker'[u] = "none" <=> worker[u] = "none"
  BY DEF Shape, Ops
<1> QED
  BY <1>1, Unseen

\* One upload is decided further.
LEMMA OneMoves ==
    ASSUME NEW t \in Uploads, NEW from, NEW to, StageOf(t) \in from, StageOf(t)' = to,
           \A u \in Uploads \ {t} : StageOf(u)' = StageOf(u)
    PROVE  P!Moves(t, from, to)
BY DEF P!Moves, Stages

\* The threads of downloads are none of its business.
LEMMA UnseenDownload ==
    ASSUME Shape, NEW t \in Downloads,
           \A u \in Ops \ {t} : worker'[u] = worker[u] /\ control'[u] = control[u]
                                /\ answer'[u] = answer[u],
           UNCHANGED <<signalled, published, targets>>
    PROVE  UNCHANGED P!vars
<1>1. \A u \in Uploads : u \in Ops \ {t}
  BY FileJobConstants DEF Ops
<1>2. \A u \in Uploads : StageOf(u)' = StageOf(u)
  BY <1>1 DEF StageOf
<1>3. Stages' = Stages /\ Told' = Told
  BY <1>1, <1>2 DEF Stages, Told
<1> QED
  BY <1>3 DEF P!vars

\* A cancel calls an upload off or comes too late for it.
LEMMA CancelMaps ==
    ASSUME Shape, Controls, NEW t \in Ops, worker[t] # "none", NEW r \in Reasons,
           RequestCancel(t, r), UNCHANGED <<worker, published, answer, targets>>
    PROVE  [P!Next]_P!vars
<1>1. CASE control[t] # "active"
  BY <1>1, Unseen DEF RequestCancel, controlVars
<1>2. CASE control[t] = "active" /\ t \in Downloads
  <2>1. \A u \in Uploads : u # t /\ u \in Ops
    BY <1>2, FileJobConstants DEF Ops
  <2>2. control' = [control EXCEPT ![t] = r] /\ signalled' = signalled \cup {t}
    BY <1>2 DEF RequestCancel
  <2>3. \A u \in Uploads : StageOf(u)' = StageOf(u)
    BY <2>1, <2>2 DEF StageOf, Shape
  <2>4. Stages' = Stages /\ Told' = Told
    BY <2>3 DEF Stages, Told
  <2> QED
    BY <2>4 DEF P!vars
<1>3. CASE control[t] = "active" /\ t \in Uploads
  <2>1. control' = [control EXCEPT ![t] = r] /\ signalled' = signalled \cup {t}
    BY <1>3 DEF RequestCancel
  <2>2. t \notin published \cup signalled
    BY <1>3 DEF Controls, Reasons, Terminals
  <2>3. StageOf(t) = "open" /\ StageOf(t)' = "called off"
    BY <1>3, <2>1, <2>2 DEF StageOf
  <2>4. \A u \in Uploads \ {t} : StageOf(u)' = StageOf(u)
    BY <2>1 DEF StageOf, Shape, Ops
  <2>5. Told' = Told
    BY DEF Told
  <2>6. P!CallOff({t})
    BY <1>3, <2>3, <2>4, <2>5 DEF P!CallOff, Stages
  <2> QED
    BY <1>3, <2>6 DEF P!Next
<1> QED
  BY <1>1, <1>2, <1>3 DEF Ops

\* Every step of the agent is one of Publication, or changes nothing it sees.
LEMMA StepPublishes ==
    Shape /\ Controls /\ Answers /\ Files /\ Admitted /\ Decided /\ Homed /\ [JobsNext]_jobVars
    => [P!Next]_P!vars
<1> SUFFICES ASSUME Shape, Controls, Answers, Files, Admitted, Decided, Homed,
                    [JobsNext]_jobVars
             PROVE  [P!Next]_P!vars
  OBVIOUS
<1>1. ASSUME NextSession PROVE [P!Next]_P!vars
  <2>1. UNCHANGED <<control, signalled, published, answer, targets, worker>>
    BY <1>1 DEF NextSession, controlVars, fileVars
  <2> QED
    BY <2>1, Unseen
<1>2. ASSUME FeedOn PROVE [P!Next]_P!vars
  <2>1. UNCHANGED <<control, signalled, published, answer, targets, worker>>
    BY <1>2 DEF FeedOn, controlVars, fileVars
  <2> QED
    BY <2>1, Unseen
<1>3. ASSUME FeedTimesOut PROVE [P!Next]_P!vars
  <2>1. PICK u \in Uploads, c \in Commands : feeding = <<u, c>> /\ RequestCancel(u, "Error")
    BY <1>3 DEF FeedTimesOut
  <2>2. UNCHANGED <<worker, published, answer, targets>>
    BY <1>3 DEF FeedTimesOut, fileVars
  <2>3. u \in Ops /\ worker[u] # "none" /\ "Error" \in Reasons
    BY <2>1 DEF Admitted, Ops, Reasons, Terminals
  <2> QED
    BY <2>1, <2>2, <2>3, CancelMaps
<1>4. ASSUME FeedOrphaned PROVE [P!Next]_P!vars
  <2>1. UNCHANGED <<control, signalled, published, answer, targets, worker>>
    BY <1>4 DEF FeedOrphaned, controlVars, fileVars
  <2> QED
    BY <2>1, Unseen
<1>5. ASSUME EndSession PROVE [P!Next]_P!vars
  <2> DEFINE S == {u \in operations \cap Uploads : control[u] = "active"}
  <2>1. /\ UNCHANGED <<worker, published, answer, targets>>
        /\ signalled' = signalled \cup
               {u \in operations : control[u] \in {"active"} \cup Reasons}
        /\ control' = [u \in Ops |-> IF u \in operations /\ control[u] \in {"active"} \cup Reasons
                                     THEN "Silent" ELSE control[u]]
    BY <1>5 DEF EndSession, CancelAll, fileVars
  <2>2. \A u \in S : StageOf(u) = "open" /\ StageOf(u)' = "called off"
    <3> TAKE u \in S
    <3>1. u \in Ops /\ worker[u] # "none" /\ control[u] = "active"
      BY DEF Admitted, Ops
    <3>2. u \notin published \cup signalled
      BY <3>1 DEF Controls, Reasons, Terminals
    <3>3. u \notin published' /\ u \in signalled'
      BY <2>1, <3>1, <3>2
    <3> QED
      BY <3>1, <3>2, <3>3 DEF StageOf
  <2>3. \A u \in Uploads \ S : StageOf(u)' = StageOf(u)
    <3> TAKE u \in Uploads \ S
    <3>1. u \in Ops
      BY DEF Ops
    <3>2. CASE u \in signalled
      BY <2>1, <3>2 DEF StageOf
    <3>3. CASE u \notin signalled
      <4>1. control[u] \notin Reasons
        BY <3>1, <3>3 DEF Controls
      <4>2. u \notin signalled' /\ control'[u] = control[u]
        BY <2>1, <3>1, <3>3, <4>1
      <4> QED
        BY <2>1, <3>3, <4>2 DEF StageOf
    <3> QED
      BY <3>2, <3>3
  <2>4. P!CallOff(S)
    BY <2>1, <2>2, <2>3 DEF P!CallOff, Stages, Told
  <2>5. S \in SUBSET Uploads
    OBVIOUS
  <2> QED
    BY <2>4, <2>5 DEF P!Next
<1>6. ASSUME Drain PROVE [P!Next]_P!vars
  <2>1. UNCHANGED <<control, signalled, published, answer, targets, worker>>
    BY <1>6 DEF Drain, controlVars, fileVars
  <2> QED
    BY <2>1, Unseen
<1>7. ASSUME Wake PROVE [P!Next]_P!vars
  <2>1. UNCHANGED <<control, signalled, published, answer, targets, worker>>
    BY <1>7 DEF Wake, controlVars, fileVars
  <2> QED
    BY <2>1, Unseen
<1>8. ASSUME DrainTimesOut PROVE [P!Next]_P!vars
  <2>1. UNCHANGED <<control, signalled, published, answer, targets, worker>>
    BY <1>8 DEF DrainTimesOut, controlVars, fileVars
  <2> QED
    BY <2>1, Unseen
<1>9. ASSUME LinkLost PROVE [P!Next]_P!vars
  <2>1. UNCHANGED <<control, signalled, published, answer, targets, worker>>
    BY <1>9 DEF LinkLost, controlVars, fileVars
  <2> QED
    BY <2>1, Unseen
<1>10. ASSUME Write PROVE [P!Next]_P!vars
  <2>1. UNCHANGED <<control, signalled, published, answer, targets, worker>>
    BY <1>10 DEF Write, controlVars, fileVars
  <2> QED
    BY <2>1, Unseen
<1>11. ASSUME NEW t \in Ops, Admit(t) PROVE [P!Next]_P!vars
  <2>1. CASE t \in Downloads
    BY <1>11, <2>1, UnseenDownload DEF Admit, Shape, controlVars, fileVars
  <2>2. CASE t \in Uploads
    <3>1. worker[t] = "none" /\ worker' = [worker EXCEPT ![t] = "starting"]
          /\ UNCHANGED <<control, signalled, published, answer, targets>>
      BY <1>11 DEF Admit, controlVars, fileVars
    <3>2. t \in Ops /\ control[t] = "active" /\ t \notin published \cup signalled
      BY <2>2, <3>1 DEF Controls, Decided, Ending, Ops, Reasons, Terminals
    <3>3. StageOf(t) = "idle" /\ StageOf(t)' = "open"
      BY <3>1, <3>2 DEF StageOf, Shape
    <3>4. \A u \in Uploads \ {t} : StageOf(u)' = StageOf(u)
      BY <3>1 DEF StageOf, Shape, Ops
    <3>5. P!Moves(t, {"idle"}, "open")
      BY <2>2, <3>3, <3>4, OneMoves
    <3> QED
      BY <2>2, <3>1, <3>5 DEF P!Next, P!Begin, Told
  <2> QED
    BY <2>1, <2>2 DEF Ops
<1>12. ASSUME NEW t \in Ops, Refuse(t) PROVE [P!Next]_P!vars
  <2>1. UNCHANGED <<control, signalled, published, answer, targets, worker>>
    BY <1>12 DEF Refuse, controlVars, fileVars
  <2> QED
    BY <2>1, Unseen
<1>13. ASSUME NEW t \in Ops, SpawnFails(t) PROVE [P!Next]_P!vars
  <2>1. UNCHANGED <<control, signalled, published, answer, targets, worker>>
    BY <1>13 DEF SpawnFails, controlVars, fileVars
  <2> QED
    BY <2>1, Unseen
<1>14. ASSUME NEW t \in Ops, HandleCancel(t) PROVE [P!Next]_P!vars
  <2>1. UNCHANGED <<worker, published, answer, targets>>
    BY <1>14 DEF HandleCancel, fileVars
  <2>2. CASE t \in operations /\ RequestCancel(t, "Complete")
    <3>1. worker[t] # "none" /\ "Complete" \in Reasons
      BY <2>2 DEF Admitted, Reasons, Terminals
    <3> QED
      BY <2>1, <2>2, <3>1, CancelMaps
  <2>3. CASE UNCHANGED controlVars
    BY <2>1, <2>3, Unseen DEF controlVars
  <2> QED
    BY <1>14, <2>2, <2>3 DEF HandleCancel
<1>15. ASSUME NEW t \in Uploads, NEW c \in Commands, HandleCommand(t, c) PROVE [P!Next]_P!vars
  <2>1. UNCHANGED <<control, signalled, published, answer, targets, worker>>
    BY <1>15 DEF HandleCommand, controlVars, fileVars
  <2> QED
    BY <2>1, Unseen
<1>16. ASSUME NEW t \in Ops, StopCancelled(t) PROVE [P!Next]_P!vars
  <2>1. /\ worker[t] \in {"starting", "reserved", "staged", "receiving", "reading"}
        /\ control[t] \in Reasons
        /\ control' = [control EXCEPT ![t] = "terminal"]
        /\ answer' = [answer EXCEPT ![t] = IF control[t] = "Silent" THEN None ELSE control[t]]
        /\ worker' = [worker EXCEPT ![t] = IF control[t] = "Silent" THEN "releasing"
                                                                  ELSE "answering"]
        /\ UNCHANGED <<signalled, published, targets>>
    BY <1>16 DEF StopCancelled, ClaimCancelled
  <2>2. CASE t \in Downloads
    BY <2>1, <2>2, UnseenDownload DEF Shape
  <2>3. CASE t \in Uploads
    <3>1. t \in signalled /\ t \notin published
      BY <2>1 DEF Controls, Ending, Reasons, Terminals
    <3>2. \A u \in Uploads : StageOf(u)' = StageOf(u)
      BY <2>1, <3>1 DEF StageOf, Shape, Ops
    <3>3. Stages' = Stages /\ Stages[t] = "called off"
      BY <2>3, <3>1, <3>2 DEF Stages, StageOf
    <3>4. Told[t] = None /\ answer[t] = None
      BY <2>1, <2>3 DEF Told, Answers, Ending
    <3>5. CASE control[t] = "Silent"
      <4>1. Told' = Told
        BY <2>1, <3>4, <3>5 DEF Told, Shape, Ops
      <4> QED
        BY <2>1, <3>3, <4>1 DEF P!vars
    <3>6. CASE control[t] \in {"Complete", "Error"}
      <4>1. Told' = [Told EXCEPT ![t] = control[t]]
        BY <2>1, <2>3, <3>6 DEF Told, Shape, Ops
      <4>2. P!Tell(t, control[t])
        BY <2>1, <3>3, <3>4, <3>6, <4>1 DEF P!Tell
      <4> QED
        BY <2>3, <3>6, <4>2 DEF P!Next
    <3> QED
      BY <2>1, <3>5, <3>6 DEF Reasons, Terminals
  <2> QED
    BY <2>2, <2>3 DEF Ops
<1>17. ASSUME NEW t \in Ops, StopWithError(t) PROVE [P!Next]_P!vars
  <2>1. /\ worker[t] \in {"starting", "reserved", "receiving", "reading"}
        /\ control[t] = "active"
        /\ control' = [control EXCEPT ![t] = "terminal"]
        /\ answer' = [answer EXCEPT ![t] = "Error"]
        /\ worker' = [worker EXCEPT ![t] = "answering"]
        /\ UNCHANGED <<signalled, published, targets>>
    BY <1>17 DEF StopWithError, ClaimActive
  <2>2. CASE t \in Downloads
    BY <2>1, <2>2, UnseenDownload DEF Shape
  <2>3. CASE t \in Uploads
    <3>1. t \notin published \cup signalled
      BY <2>1 DEF Controls, Ending, Reasons, Terminals
    <3>2. StageOf(t) = "open" /\ StageOf(t)' = "failed"
      BY <2>1, <3>1 DEF StageOf, Shape
    <3>3. \A u \in Uploads \ {t} : StageOf(u)' = StageOf(u)
      BY <2>1 DEF StageOf, Shape, Ops
    <3>4. P!Moves(t, P!Undecided, "failed")
      BY <2>3, <3>2, <3>3, OneMoves DEF P!Undecided
    <3>5. Told' = [Told EXCEPT ![t] = "Error"]
      BY <2>1, <2>3 DEF Told, Shape, Ops
    <3> QED
      BY <2>1, <2>3, <3>4, <3>5 DEF P!Next, P!Fail
  <2> QED
    BY <2>2, <2>3 DEF Ops
<1>18. ASSUME NEW t \in Ops, SendFails(t) PROVE [P!Next]_P!vars
  <2>1. /\ worker[t] \in {"staged", "starting", "reading"} /\ t \notin signalled
        /\ worker' = [worker EXCEPT ![t] = "releasing"]
        /\ UNCHANGED <<signalled, answer, published, targets>>
    BY <1>18 DEF SendFails, Goto
  <2>2. CASE t \in Downloads
    <3>1. t \notin Uploads
      BY <2>2, FileJobConstants
    <3>2. control' = control
      BY <1>18, <3>1 DEF SendFails
    <3> QED
      BY <2>1, <2>2, <3>2, UnseenDownload DEF Shape
  <2>3. CASE t \in Uploads
    <3>1. worker[t] = "staged" /\ control' = [control EXCEPT ![t] = "terminal"]
      BY <1>18, <2>3, FileJobConstants DEF SendFails, Controls
    <3>2. control[t] = "active" /\ t \notin published
      BY <2>1, <3>1 DEF Controls, Decided, Ending, Reasons, Terminals, Shape
    <3>3. StageOf(t) = "open" /\ StageOf(t)' = "failed"
      BY <2>1, <3>1, <3>2 DEF StageOf, Shape
    <3>4. \A u \in Uploads \ {t} : StageOf(u)' = StageOf(u)
      BY <2>1, <3>1 DEF StageOf, Shape, Ops
    <3>5. P!Moves(t, P!Undecided, "failed")
      BY <2>3, <3>3, <3>4, OneMoves DEF P!Undecided
    <3>6. Told' = Told
      BY <2>1 DEF Told
    <3> QED
      BY <2>1, <2>3, <3>5, <3>6 DEF P!Next, P!Fail
  <2> QED
    BY <2>2, <2>3 DEF Ops
<1>19. ASSUME NEW t \in Ops, SendStart(t) PROVE [P!Next]_P!vars
  <2>1. UNCHANGED <<control, signalled, published, answer, targets>> /\ worker[t] # "none"
    BY <1>19 DEF Send, SendStart, controlVars, fileVars
  <2>2. PICK p \in Phases \ {"none"} : worker' = [worker EXCEPT ![t] = p]
    BY <1>19 DEF Goto, Holding, Phases, Send, SendStart
  <2>3. t \in Ops
    BY DEF Ops
  <2> QED
    BY <2>1, <2>2, <2>3, UnseenThread
<1>20. ASSUME NEW t \in Ops, SendChunk(t) PROVE [P!Next]_P!vars
  <2>1. UNCHANGED <<control, signalled, published, answer, targets>> /\ worker[t] # "none"
    BY <1>20 DEF Send, SendChunk, controlVars, fileVars
  <2>2. PICK p \in Phases \ {"none"} : worker' = [worker EXCEPT ![t] = p]
    BY <1>20 DEF Goto, Holding, Phases, Send, SendChunk
  <2>3. t \in Ops
    BY DEF Ops
  <2> QED
    BY <2>1, <2>2, <2>3, UnseenThread
<1>21. ASSUME NEW t \in Ops, DownloadDone(t) PROVE [P!Next]_P!vars
  <2>1. /\ worker[t] = "reading"
        /\ control' = [control EXCEPT ![t] = "terminal"]
        /\ answer' = [answer EXCEPT ![t] = "Complete"]
        /\ worker' = [worker EXCEPT ![t] = "answering"]
        /\ UNCHANGED <<signalled, published, targets>>
    BY <1>21 DEF DownloadDone, ClaimActive, fileVars
  <2>2. t \in Downloads
    BY <2>1 DEF Controls
  <2> QED
    BY <2>1, <2>2, UnseenDownload DEF Shape
<1>22. ASSUME NEW t \in Ops, SendAnswer(t) PROVE [P!Next]_P!vars
  <2>1. UNCHANGED <<control, signalled, published, answer, targets>> /\ worker[t] # "none"
    BY <1>22 DEF SendAnswer, controlVars, fileVars
  <2>2. PICK p \in Phases \ {"none"} : worker' = [worker EXCEPT ![t] = p]
    BY <1>22 DEF Goto, Holding, Phases, SendAnswer
  <2>3. t \in Ops
    BY DEF Ops
  <2> QED
    BY <2>1, <2>2, <2>3, UnseenThread
<1>23. ASSUME NEW t \in Ops, Release(t) PROVE [P!Next]_P!vars
  <2>1. /\ worker[t] = "releasing" /\ worker' = [worker EXCEPT ![t] = "leaving"]
        /\ targets' = [f \in Folders |-> IF targets[f] = t THEN None ELSE targets[f]]
        /\ UNCHANGED <<control, signalled, published, answer>>
    BY <1>23 DEF Release, Goto, controlVars
  <2>2. \A u \in Uploads : StageOf(u)' = StageOf(u)
    BY <2>1 DEF StageOf, Shape, Ops
  <2>3. Stages' = Stages /\ Told' = Told
    BY <2>1, <2>2 DEF Stages, Told
  <2>4. CASE \A f \in Folders : targets[f] # t
    <3>1. targets' = targets
      BY <2>1, <2>4 DEF Shape
    <3> QED
      BY <2>3, <3>1 DEF P!vars
  <2>5. CASE \E f \in Folders : targets[f] = t
    <3>1. t \in Uploads
      BY <2>5, FileJobConstants DEF Shape
    <3>2. targets[folder[t]] = t /\ folder[t] \in Folders
      BY <2>5, <3>1, FileJobConstants DEF Homed, Ops
    <3>3. targets' = [targets EXCEPT ![folder[t]] = None]
      BY <2>1, <3>1, <3>2, FileJobConstants DEF Homed, Ops, Shape
    <3>4. control[t] = "terminal" /\ (t \in published => answer[t] = "Complete")
      BY <2>1, <3>1 DEF Decided, Ending
    <3>5. Stages[t] \notin P!Undecided /\ (Stages[t] = "placed" => Told[t] = "Complete")
      BY <2>1, <3>1, <3>4 DEF Stages, StageOf, Told, P!Undecided
    <3> QED
      BY <2>3, <3>1, <3>2, <3>3, <3>5 DEF P!Next, P!Vacate
  <2> QED
    BY <2>4, <2>5
<1>24. ASSUME NEW t \in Ops, Leave(t) PROVE [P!Next]_P!vars
  <2>1. UNCHANGED <<control, signalled, published, answer, targets>> /\ worker[t] # "none"
    BY <1>24 DEF Leave, controlVars, fileVars
  <2>2. PICK p \in Phases \ {"none"} : worker' = [worker EXCEPT ![t] = p]
    BY <1>24 DEF Goto, Holding, Leave, Phases
  <2>3. t \in Ops
    BY DEF Ops
  <2> QED
    BY <2>1, <2>2, <2>3, UnseenThread
<1>25. ASSUME NEW t \in Ops, Notify(t) PROVE [P!Next]_P!vars
  <2>1. UNCHANGED <<control, signalled, published, answer, targets>> /\ worker[t] # "none"
    BY <1>25 DEF Notify, controlVars, fileVars
  <2>2. PICK p \in Phases \ {"none"} : worker' = [worker EXCEPT ![t] = p]
    BY <1>25 DEF Goto, Holding, Notify, Phases
  <2>3. t \in Ops
    BY DEF Ops
  <2> QED
    BY <2>1, <2>2, <2>3, UnseenThread
<1>26. ASSUME NEW t \in Uploads, ReserveTarget(t) PROVE [P!Next]_P!vars
  <2>1. /\ worker[t] = "starting" /\ control[t] = "active" /\ targets[folder[t]] = None
        /\ targets' = [targets EXCEPT ![folder[t]] = t]
        /\ worker' = [worker EXCEPT ![t] = "reserved"]
        /\ UNCHANGED <<control, signalled, published, answer>>
    BY <1>26 DEF ReserveTarget, Goto, controlVars
  <2>2. \A u \in Uploads : StageOf(u)' = StageOf(u)
    BY <2>1 DEF StageOf, Shape, Ops
  <2>3. Stages' = Stages /\ Told' = Told
    BY <2>1, <2>2 DEF Stages, Told
  <2>4. StageOf(t) = "open"
    BY <2>1 DEF StageOf, Controls, Ops, Reasons, Terminals, Ending
  <2> QED
    BY <2>1, <2>3, <2>4 DEF P!Next, P!Occupy, Stages
<1>27. ASSUME NEW t \in Uploads, Stage(t) PROVE [P!Next]_P!vars
  <2>1. UNCHANGED <<control, signalled, published, answer, targets>> /\ worker[t] # "none"
    BY <1>27 DEF Stage, controlVars, fileVars
  <2>2. PICK p \in Phases \ {"none"} : worker' = [worker EXCEPT ![t] = p]
    BY <1>27 DEF Goto, Holding, Phases, Stage
  <2>3. t \in Ops
    BY DEF Ops
  <2> QED
    BY <2>1, <2>2, <2>3, UnseenThread
<1>28. ASSUME NEW t \in Uploads, SendReady(t) PROVE [P!Next]_P!vars
  <2>1. UNCHANGED <<control, signalled, published, answer, targets>> /\ worker[t] # "none"
    BY <1>28 DEF Send, SendReady, controlVars, fileVars
  <2>2. PICK p \in Phases \ {"none"} : worker' = [worker EXCEPT ![t] = p]
    BY <1>28 DEF Goto, Holding, Phases, Send, SendReady
  <2>3. t \in Ops
    BY DEF Ops
  <2> QED
    BY <2>1, <2>2, <2>3, UnseenThread
<1>29. ASSUME NEW t \in Uploads, WriteChunk(t) PROVE [P!Next]_P!vars
  <2>1. UNCHANGED <<control, signalled, published, answer, targets, worker>>
    BY <1>29 DEF WriteChunk, controlVars, fileVars
  <2> QED
    BY <2>1, Unseen
<1>30. ASSUME NEW t \in Uploads, TakeFinish(t) PROVE [P!Next]_P!vars
  <2>1. /\ worker[t] = "receiving" /\ control[t] = "active"
        /\ control' = [control EXCEPT ![t] = "committing"]
        /\ worker' = [worker EXCEPT ![t] = "committing"]
        /\ UNCHANGED <<signalled, published, answer, targets>>
    BY <1>30 DEF TakeFinish, BeginCommit, Goto, fileVars
  <2>2. t \notin published \cup signalled /\ targets[folder[t]] = t /\ t \in Ops
    BY <2>1 DEF Controls, Files, Writing, Ops, Reasons, Terminals, Ending
  <2>3. StageOf(t) = "open" /\ StageOf(t)' = "sealed"
    BY <2>1, <2>2 DEF StageOf, Shape
  <2>4. \A u \in Uploads \ {t} : StageOf(u)' = StageOf(u)
    BY <2>1 DEF StageOf, Shape, Ops
  <2>5. P!Moves(t, {"open"}, "sealed")
    BY <2>3, <2>4, OneMoves
  <2> QED
    BY <2>1, <2>2, <2>5 DEF P!Next, P!Seal, Told
<1>31. ASSUME NEW t \in Uploads, Publish(t) PROVE [P!Next]_P!vars
  <2>1. /\ worker[t] = "committing" /\ published' = published \cup {t}
        /\ worker' = [worker EXCEPT ![t] = "counting"]
        /\ UNCHANGED <<control, signalled, answer, targets>>
    BY <1>31 DEF Publish, Goto, controlVars
  <2>2. control[t] = "committing" /\ targets[folder[t]] = t /\ t \in Ops
    BY <2>1 DEF Controls, Files, Writing, Ops
  <2>3. t \notin published \cup signalled
    BY <2>1, <2>2 DEF Controls, Ending, Reasons, Terminals
  <2>4. StageOf(t) = "sealed" /\ StageOf(t)' = "placed"
    BY <2>1, <2>2, <2>3 DEF StageOf
  <2>5. \A u \in Uploads \ {t} : StageOf(u)' = StageOf(u)
    BY <2>1 DEF StageOf, Shape, Ops
  <2>6. P!Moves(t, {"sealed"}, "placed")
    BY <2>4, <2>5, OneMoves
  <2> QED
    BY <2>1, <2>2, <2>6 DEF P!Next, P!Place, Told
<1>32. ASSUME NEW t \in Uploads, PublishFails(t) PROVE [P!Next]_P!vars
  <2>1. /\ worker[t] = "committing"
        /\ control' = [control EXCEPT ![t] = "terminal"]
        /\ answer' = [answer EXCEPT ![t] = "Error"]
        /\ worker' = [worker EXCEPT ![t] = "answering"]
        /\ UNCHANGED <<signalled, published, targets>>
    BY <1>32 DEF PublishFails, Goto
  <2>2. control[t] = "committing" /\ t \in Ops
    BY <2>1 DEF Controls, Ops
  <2>3. t \notin published \cup signalled
    BY <2>1, <2>2 DEF Controls, Ending, Reasons, Terminals
  <2>4. StageOf(t) = "sealed" /\ StageOf(t)' = "failed"
    BY <2>1, <2>2, <2>3 DEF StageOf, Shape
  <2>5. \A u \in Uploads \ {t} : StageOf(u)' = StageOf(u)
    BY <2>1 DEF StageOf, Shape, Ops
  <2>6. P!Moves(t, P!Undecided, "failed")
    BY <2>4, <2>5, OneMoves DEF P!Undecided
  <2>7. Told' = [Told EXCEPT ![t] = "Error"]
    BY <2>1, <2>2 DEF Told, Shape, Ops
  <2> QED
    BY <2>1, <2>6, <2>7 DEF P!Next, P!Fail
<1>33. ASSUME NEW t \in Uploads, CountUpload(t) PROVE [P!Next]_P!vars
  <2>1. /\ worker[t] = "counting"
        /\ control' = [control EXCEPT ![t] = "terminal"]
        /\ answer' = [answer EXCEPT ![t] = "Complete"]
        /\ worker' = [worker EXCEPT ![t] = "answering"]
        /\ UNCHANGED <<signalled, published, targets>>
    BY <1>33 DEF CountUpload, Goto, fileVars
  <2>2. t \in published /\ t \in Ops
    BY <2>1 DEF Controls, Ops
  <2>3. \A u \in Uploads : StageOf(u)' = StageOf(u)
    BY <2>1, <2>2 DEF StageOf, Shape, Ops
  <2>4. Stages' = Stages /\ Stages[t] = "placed"
    BY <2>2, <2>3 DEF Stages, StageOf
  <2>5. Told[t] = None /\ Told' = [Told EXCEPT ![t] = "Complete"]
    BY <2>1, <2>2 DEF Told, Answers, Ending, Shape, Ops
  <2>6. P!Tell(t, "Complete")
    BY <2>1, <2>4, <2>5 DEF P!Tell
  <2> QED
    BY <2>6 DEF P!Next
<1>34. CASE UNCHANGED jobVars
  <2>1. UNCHANGED <<control, signalled, published, answer, targets, worker>>
    BY <1>34 DEF jobVars, controlVars, fileVars
  <2> QED
    BY <2>1, Unseen
<1> QED
  BY <1>1, <1>2, <1>3, <1>4, <1>5, <1>6, <1>7, <1>8, <1>9, <1>10, <1>11, <1>12,
     <1>13, <1>14, <1>15, <1>16, <1>17, <1>18, <1>19, <1>20, <1>21, <1>22, <1>23,
     <1>24, <1>25, <1>26, <1>27, <1>28, <1>29, <1>30, <1>31, <1>32, <1>33, <1>34
   DEF JobsNext, AgentStep, Loop, Work, WorkUpload, Start

\* The agent implements Publication: whatever its sessions, cancels, time-outs and threads
\* left behind do to each other (spawn_upload, cancel_all, commit_upload), an upload is
\* called off or sealed, never both, a called-off one is never put in its place, a folder
\* has one upload at a time, and what is answered is so.
THEOREM PublicationCorrect == JobsSpec => PublishesAsPromised
<1>1. JobsInit => P!Init /\ Admitted /\ Decided /\ Homed
  <2> SUFFICES ASSUME JobsInit PROVE P!Init /\ Admitted /\ Decided /\ Homed
    OBVIOUS
  <2>1. Admitted /\ Decided /\ Homed
    BY NoneApart DEF JobsInit, Admitted, Decided, Homed, Commands, Ending, Ops
  <2>2. Stages = [t \in Uploads |-> "idle"]
    BY DEF JobsInit, Stages, StageOf, Ops
  <2>3. Told = [t \in Uploads |-> None]
    BY DEF JobsInit, Told, Ops
  <2> QED
    BY <2>1, <2>2, <2>3 DEF JobsInit, P!Init
<1>2. IInv /\ Admitted /\ Decided /\ Homed /\ [JobsNext]_jobVars
      => Admitted' /\ Decided' /\ Homed' /\ [P!Next]_P!vars
  BY AdmittedStep, DecidedStep, HomedStep, StepPublishes DEF IInv
<1> QED
  BY <1>1, <1>2, IInvInvariant, PTL DEF JobsSpec, PublishesAsPromised, P!Spec

=============================================================================
