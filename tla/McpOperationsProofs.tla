------------------------ MODULE McpOperationsProofs ------------------------
(***************************************************************************)
(* The safety of McpOperations, for any sessions, calls, prompts and       *)
(* limits: what the ledger runs once, and what the grants of a person      *)
(* allow.  Each part of the inductive invariant is about one of them.      *)
(***************************************************************************)
EXTENDS McpOperations, TLAPS, FiniteSetTheorems

Before  == {"idle", "reserving", "waiting"}
Running == {"running", "limited", "spawned", "sharing", "controlling", "noting"}

\* What waits in a queue was put there.
Queued == \A s \in Sessions : \A p \in queue[s] : session[p] = s /\ at[p] = "queued"

\* A prompt is written by its last step, or waits as one whose delivery failed.
WrittenOnce ==
    \A p \in Prompts :
        /\ writes[p] <= 1
        /\ writes[p] = 1 =>
               \/ at[p] \in {"sent", "refused", "dropped"}
               \/ at[p] = "queued" /\ (p \in unsure \/ p \notin queue[session[p]])

\* Only a prompt sent under a grant gets past its entry.
Carried == \A p \in Prompts \ Human : at[p] \notin {"idle", "refused"} => Odd(grant[p])

\* The place of a call in the ledger follows its steps.
Ledger ==
    \A c \in Calls :
        /\ step[c] \in Before => outcome[c] = "none"
        /\ step[c] \in Running => outcome[c] = "pending"
        /\ outcome[c] # "none" => waitsFor[c] = NoCall /\ c \in recent \cup expired
        /\ c \in recent => outcome[c] # "none"
        /\ step[c] \in {"idle", "reserving"} => waitsFor[c] = NoCall
        /\ step[c] = "waiting" => waitsFor[c] # NoCall
        /\ step[c] # "done" => answer[c] = "none"

Unique == \A c, d \in recent \ expired : requestId[c] = requestId[d] => c = d

Heard ==
    \A c \in Calls : waitsFor[c] # NoCall =>
        /\ outcome[waitsFor[c]] # "none"
        /\ answer[c] \in {"ok", "error"} => answer[c] = outcome[waitsFor[c]]

\* The session of a launch does not exist before it is spawned.
Fresh ==
    \A c \in Launches : step[c] \in Before \cup {"running", "limited"} =>
        /\ session[c] \notin alive \cup closing
        /\ epoch[session[c]] = 0 /\ shared[session[c]] = "no" /\ changing[session[c]] = "no"
        /\ \A p \in Prompts : session[p] = session[c] => at[p] \in {"idle", "refused"}

Apart == closing \cap alive = {}

\* What holds between the steps of a change of the grants, as long as the session lives.
Agree ==
    /\ \A s \in alive :
        /\ changing[s] \in {"no", "sharing"} => (shared[s] = "control" <=> Odd(epoch[s]))
        /\ changing[s] = "granting" => Odd(epoch[s]) /\ shared[s] # "no"
        /\ changing[s] \in {"revoking", "unsharing", "revoked", "unshared"} => ~Odd(epoch[s])
        /\ changing[s] = "launching" => Odd(epoch[s])
    /\ \A c \in Launches :
        /\ step[c] \in {"sharing", "controlling"} => changing[session[c]] = "launching"
        /\ step[c] = "controlling" /\ session[c] \in alive => shared[session[c]] # "no"

\* The launch lock is held from the check of the limit to the end of the launch.
Holding == \A c \in Launches : step[c] \in Running \ {"running"} <=> launching = c

\* A live session of a launch is counted, or its launch holds the lock.
Counting ==
    /\ \A c \in Launches : session[c] \in alive => session[c] \in launched \/ launching = c
    /\ launched \subseteq {session[c] : c \in Launches}

Others(d) == {c \in Launches : session[c] \in alive /\ c # d}

\* The holder of the lock may add one session.
Limit ==
    /\ launching # NoCall => Cardinality(Others(launching)) < MaxLaunched
    /\ LaunchesCounted

IInv == OperationsTypeOK /\ Queued /\ WrittenOnce /\ Carried /\ Ledger /\ Unique /\ Heard /\ Fresh
        /\ Apart /\ RevokedLeaveQueue /\ Agree /\ LaunchesCurrent /\ Holding /\ Counting /\ Limit

(***************************************************************************)
(* Grants: an epoch is odd while control is given.                         *)
(***************************************************************************)
LEMMA OddStep == \A n \in Nat : Odd(n + 1) <=> ~Odd(n)
BY DEF Odd

LEMMA Flipped ==
    ASSUME epoch \in [Sessions -> Nat], NEW s \in Sessions, NEW e \in BOOLEAN, Flip(s, e)
    PROVE  /\ epoch' \in [Sessions -> Nat]
           /\ Odd(epoch'[s]) <=> e
           /\ \A t \in Sessions \ {s} : epoch'[t] = epoch[t]
           /\ (Odd(epoch[s]) <=> e) => epoch' = epoch
<1>1. Odd(epoch[s]) \in BOOLEAN
  BY DEF Odd
<1>2. CASE Odd(epoch[s]) # e
  <2>1. epoch' = [epoch EXCEPT ![s] = epoch[s] + 1]
    BY <1>2 DEF Flip
  <2>2. epoch' \in [Sessions -> Nat] /\ epoch'[s] = epoch[s] + 1
    BY <2>1
  <2> QED
    BY <1>1, <1>2, <2>1, <2>2, OddStep
<1>3. CASE Odd(epoch[s]) = e
  <2>1. epoch' = epoch
    BY <1>3 DEF Flip
  <2> QED
    BY <1>3, <2>1
<1> QED
  BY <1>2, <1>3

(***************************************************************************)
(* Types.                                                                  *)
(***************************************************************************)
LEMMA TypeStep ==
    OperationsTypeOK /\ Ledger /\ [OperationsNext]_operationVars
        => OperationsTypeOK'
<1> SUFFICES ASSUME OperationsTypeOK, Ledger, [OperationsNext]_operationVars
             PROVE OperationsTypeOK'
  OBVIOUS
<1>1. CASE UNCHANGED 
         <<alive, epoch, cli, draft, queue, unsure, at, grant, input, writes,
         recent, outcome, expired, step, waitsFor, answer, shared, changing,
         closing, launched, launching, plans, generation, readUnder>>
  BY <1>1
   DEF Answers, Calls, Changes, OperationsTypeOK, Outcomes, QueueTypeOK, Sending,
         Stages, Steps
<1>2. ASSUME NEW c \in Calls, Call(c) PROVE OperationsTypeOK'
  <2>1. CASE Look(c)
    <3>1. /\ step' \in [Calls -> Steps]
          /\ waitsFor' \in [Calls -> Calls \cup {NoCall}]
          /\ answer' \in [Calls -> Answers]
      BY <2>1 DEF Look, Duplicate, Known, Told, Go, Steps, Answers, OperationsTypeOK
    <3> QED
      BY <2>1, <3>1 DEF Look, OperationsTypeOK, QueueTypeOK, agentVars, grantVars, launchVars,
                       promptVars, queueVars
  <2>2. CASE Reserve(c)
    <3>1. /\ step' \in [Calls -> Steps]
          /\ waitsFor' \in [Calls -> Calls \cup {NoCall}]
          /\ answer' \in [Calls -> Answers]
      BY <2>2
         DEF Reserve, Duplicate, Known, Remember, Told, Go, Steps, Answers, OperationsTypeOK
    <3>2. recent' \subseteq Calls /\ outcome' \in [Calls -> Outcomes]
      BY <2>2 DEF Reserve, Remember, Outcomes, OperationsTypeOK
    <3> QED
      BY <2>2, <3>1, <3>2 DEF Reserve, OperationsTypeOK, QueueTypeOK, agentVars, grantVars,
                             launchVars, promptVars, queueVars
  <2>3. CASE Repeat(c)
    BY <2>3, PromptConstants, OperationConstants
     DEF Answers, Before, Calls, Changes, Go, Ledger, OperationsTypeOK, Outcomes,
           QueueTypeOK, Repeat, Sending, Stages, Steps, Told, agentVars, grantVars,
           launchVars, ledgerVars, promptVars, queueVars
  <2>4. CASE WaitTimesOut(c)
    BY <2>4, PromptConstants, OperationConstants
     DEF Answers, Calls, Changes, Go, OperationsTypeOK, Outcomes, QueueTypeOK,
           Sending, Stages, Steps, Told, WaitTimesOut, agentVars, grantVars,
           launchVars, ledgerVars, promptVars, queueVars
  <2>5. CASE Expire(c)
    BY <2>5, PromptConstants, OperationConstants
     DEF Answers, Calls, Changes, Expire, OperationsTypeOK, Outcomes, QueueTypeOK,
           Sending, Stages, Steps, agentVars, grantVars, launchVars, ledgerVars,
           promptVars, queueVars
  <2>6. CASE StartPrompt(c)
    BY SMTT(40), <2>6, PromptConstants, OperationConstants
     DEF Answers, Calls, Changes, Completed, Enter, Go, OperationsTypeOK,
           Outcomes, Put, QueueTypeOK, Sending, Stages, StartPrompt, Steps, Told,
           agentVars, grantVars, launchVars, ledgerVars, promptVars, queueVars
  <2>7. CASE PromptReturns(c)
    BY <2>7, PromptConstants, OperationConstants
     DEF Answers, Calls, Changes, Completed, Go, OperationsTypeOK, Outcomes,
           PromptReturns, QueueTypeOK, Sending, Stages, Steps, Told, agentVars,
           grantVars, launchVars, ledgerVars, promptVars, queueVars
  <2> QED
    BY <1>2, <2>1, <2>2, <2>3, <2>4, <2>5, <2>6, <2>7 DEF Call
<1>3. ASSUME NEW c \in Launches, Launch(c) PROVE OperationsTypeOK'
  <2>1. CASE CheckLimits(c)
    BY SMTT(40), <2>1, PromptConstants, OperationConstants
     DEF Answers, Calls, Changes, CheckLimits, Completed, Go, OperationsTypeOK,
           Outcomes, QueueTypeOK, Sending, Stages, Steps, Told, agentVars,
           grantVars, launchVars, ledgerVars, promptVars, queueVars
  <2>2. CASE Spawn(c)
    BY <2>2, PromptConstants, OperationConstants
     DEF Answers, Calls, Changes, Go, OperationsTypeOK, Outcomes, QueueTypeOK,
           Sending, Spawn, Stages, Steps, agentVars, grantVars, launchVars,
           ledgerVars, promptVars, queueVars
  <2>3. CASE SpawnFailed(c)
    BY <2>3, PromptConstants, OperationConstants
     DEF Answers, Calls, Changes, Completed, Failed, Go, OperationsTypeOK,
           Outcomes, QueueTypeOK, Sending, SpawnFailed, Stages, Steps, Told,
           agentVars, grantVars, launchVars, ledgerVars, promptVars, queueVars
  <2>4. CASE Authorise(c)
    <3>1. /\ step' \in [Calls -> Steps] /\ outcome' \in [Calls -> Outcomes]
          /\ answer' \in [Calls -> Answers]
      <4>1. \/ /\ step' = [step EXCEPT ![c] = "sharing"]
               /\ UNCHANGED <<outcome, answer>>
            \/ /\ step' = [step EXCEPT ![c] = "done"]
               /\ outcome' = [outcome EXCEPT ![c] = "error"]
               /\ answer' = [answer EXCEPT ![c] = "error"]
        BY <2>4 DEF Authorise, Failed, Completed, Told, Go
      <4> QED
        BY <4>1 DEF Steps, Outcomes, Answers, OperationsTypeOK
    <3>2. changing' \in [Sessions -> Changes] /\ epoch' \in [Sessions -> Nat]
      <4>1. session[c] \in Sessions
        BY OperationConstants
      <4>2. \/ changing' = changing /\ epoch' = epoch
            \/ /\ changing' = [changing EXCEPT ![session[c]] = "launching"]
               /\ Flip(session[c], TRUE)
        BY <2>4 DEF Authorise, Changing
      <4>3. changing' \in [Sessions -> Changes]
        BY <4>2 DEF Changes, OperationsTypeOK
      <4>4. epoch' \in [Sessions -> Nat]
        BY <4>1, <4>2, Flipped DEF OperationsTypeOK, QueueTypeOK
      <4> QED
        BY <4>3, <4>4
    <3>3. launching' \in Launches \cup {NoCall} /\ UNCHANGED <<recent, expired, waitsFor>>
      BY <2>4 DEF Authorise, Failed, Completed, OperationsTypeOK
    <3>4. alive' \subseteq Sessions /\ closing' \subseteq Sessions
      <4>1. session[c] \in Sessions
        BY OperationConstants
      <4>2. /\ alive' = alive \/ alive' = alive \ {session[c]}
            /\ closing' = closing \/ closing' = closing \cup {session[c]}
        BY <2>4 DEF Authorise
      <4> QED
        BY <4>1, <4>2 DEF OperationsTypeOK, QueueTypeOK
    <3> QED
      BY <2>4, <3>1, <3>2, <3>3, <3>4 DEF Authorise, OperationsTypeOK, QueueTypeOK, promptVars
  <2>5. CASE ShareLaunched(c)
    BY <2>5, PromptConstants, OperationConstants
     DEF Answers, Calls, Changes, Go, Mark, Offer, OperationsTypeOK, Outcomes,
           QueueTypeOK, Sending, ShareLaunched, Stages, Steps, agentVars, grantVars,
           launchVars, ledgerVars, promptVars, queueVars
  <2>6. CASE ControlLaunched(c)
    <3>1. /\ step' \in [Calls -> Steps] /\ outcome' \in [Calls -> Outcomes]
          /\ answer' \in [Calls -> Answers]
      BY <2>6 DEF ControlLaunched, Failed, Completed, Told, Go, Steps, Outcomes, Answers,
                 OperationsTypeOK
    <3>2. /\ changing' \in [Sessions -> Changes]
          /\ shared' \in [Sessions -> {"no", "yes", "control"}]
      BY <2>6 DEF ControlLaunched, Changing, Mark, Changes, OperationsTypeOK
    <3>3. /\ launching' \in Launches \cup {NoCall}
          /\ UNCHANGED <<recent, expired, waitsFor>>
      BY <2>6 DEF ControlLaunched, Failed, Completed, OperationsTypeOK
    <3> QED
      BY <2>6, <3>1, <3>2, <3>3 DEF ControlLaunched, OperationsTypeOK, QueueTypeOK, agentVars,
                                   promptVars, queueVars
  <2>7. CASE Note(c)
    BY <2>7, PromptConstants, OperationConstants
     DEF Answers, Calls, Changes, Completed, Go, Note, OperationsTypeOK, Outcomes,
           QueueTypeOK, Sending, Stages, Steps, Told, agentVars, grantVars,
           launchVars, ledgerVars, promptVars, queueVars
  <2> QED
    BY <1>3, <2>1, <2>2, <2>3, <2>4, <2>5, <2>6, <2>7 DEF Launch
<1>4. ASSUME NEW s \in Sessions, Person(s) PROVE OperationsTypeOK'
  <2>1. CASE Share(s)
    BY <2>1, PromptConstants, OperationConstants
     DEF Answers, Calls, Changes, Changing, OperationsTypeOK, Outcomes,
           QueueTypeOK, Sending, Share, Stages, Steps, agentVars, grantVars,
           launchVars, ledgerVars, promptVars, queueVars
  <2>2. CASE Shared(s)
    BY <2>2, PromptConstants, OperationConstants
     DEF Answers, Calls, Changes, Changing, Mark, Offer, OperationsTypeOK,
           Outcomes, QueueTypeOK, Sending, Shared, Stages, Steps, agentVars,
           grantVars, launchVars, ledgerVars, promptVars, queueVars
  <2>3. CASE Grant(s)
    <3>1. epoch' \in [Sessions -> Nat]
      BY <2>3, Flipped DEF Grant, OperationsTypeOK, QueueTypeOK
    <3> QED
      BY <2>3, <3>1 DEF Grant, Changing, Changes, OperationsTypeOK, QueueTypeOK, ledgerVars,
                       launchVars, promptVars
  <2>4. CASE Granted(s)
    BY <2>4, PromptConstants, OperationConstants
     DEF Answers, Calls, Changes, Changing, Granted, Mark, OperationsTypeOK,
           Outcomes, QueueTypeOK, Sending, Stages, Steps, agentVars, grantVars,
           launchVars, ledgerVars, promptVars, queueVars
  <2>5. CASE Revoke(s, "revoking")
    <3>1. epoch' \in [Sessions -> Nat]
      BY <2>5, Flipped DEF Revoke, OperationsTypeOK, QueueTypeOK
    <3> QED
      BY <2>5, <3>1 DEF Revoke, Changing, Changes, OperationsTypeOK, QueueTypeOK, ledgerVars,
                       launchVars, promptVars
  <2>6. CASE Revoke(s, "unsharing")
    <3>1. epoch' \in [Sessions -> Nat]
      BY <2>6, Flipped DEF Revoke, OperationsTypeOK, QueueTypeOK
    <3> QED
      BY <2>6, <3>1 DEF Revoke, Changing, Changes, OperationsTypeOK, QueueTypeOK, ledgerVars,
                       launchVars, promptVars
  <2>7. CASE RevokeQueue(s)
    BY SMTT(40), <2>7, PromptConstants, OperationConstants
     DEF Answers, Calls, Changes, Changing, ClearMcp, OperationsTypeOK, Outcomes,
           QueueTypeOK, RevokeQueue, Sending, Stages, Steps, agentVars, grantVars,
           launchVars, ledgerVars, promptVars, queueVars
  <2>8. CASE Revoked(s)
    BY <2>8, PromptConstants, OperationConstants
     DEF Answers, Calls, Changes, Changing, Mark, OperationsTypeOK, Outcomes,
           QueueTypeOK, Revoked, Sending, Stages, Steps, agentVars, grantVars,
           launchVars, ledgerVars, promptVars, queueVars
  <2>9. CASE UnshareEnded(s)
    BY <2>9, PromptConstants, OperationConstants
     DEF Answers, Calls, Changes, Mark, OperationsTypeOK, Outcomes, QueueTypeOK,
           Sending, Stages, Steps, UnshareEnded, agentVars, grantVars, launchVars,
           ledgerVars, promptVars, queueVars
  <2> QED
    BY <1>4, <2>1, <2>2, <2>3, <2>4, <2>5, <2>6, <2>7, <2>8, <2>9 DEF Person
<1>5. ASSUME NEW s \in Sessions, Exit(s) \/ Closed(s) PROVE OperationsTypeOK'
  <2>1. CASE Exit(s)
    BY <2>1, PromptConstants, OperationConstants
     DEF Answers, Calls, Changes, Exit, OperationsTypeOK, Outcomes, QueueTypeOK,
           Sending, Stages, Steps, agentVars, grantVars, launchVars, ledgerVars,
           promptVars, queueVars
  <2>2. CASE Closed(s)
    BY <2>2, PromptConstants, OperationConstants
     DEF Answers, Calls, Changes, Closed, Mark, OperationsTypeOK, Outcomes,
           QueueTypeOK, Sending, Stages, Steps, agentVars, grantVars, launchVars,
           ledgerVars, promptVars, queueVars
  <2> QED
    BY <1>5, <2>1, <2>2
<1>6. CASE QueueMoves
  <2>1. UNCHANGED <<ledgerVars, grantVars, launchVars>>
    BY <1>6 DEF QueueMoves
  <2>2. ASSUME NEW p \in Human, Enter(p) PROVE OperationsTypeOK'
    BY <2>2, <2>1, PromptConstants, OperationConstants
     DEF Answers, Calls, Changes, Enter, OperationsTypeOK, Outcomes, Put,
           QueueTypeOK, Sending, Stages, Steps, agentVars, grantVars, launchVars,
           ledgerVars, promptVars, queueVars
  <2>3. ASSUME NEW p \in Prompts, TakeInput(p) PROVE OperationsTypeOK'
    BY <2>3, <2>1, PromptConstants, OperationConstants
     DEF Answers, Calls, Changes, OperationsTypeOK, Outcomes, Put, QueueTypeOK,
           Sending, Stages, Steps, TakeInput, agentVars, grantVars, launchVars,
           ledgerVars, promptVars, queueVars
  <2>4. ASSUME NEW p \in Prompts, Decide(p) PROVE OperationsTypeOK'
    BY <2>4, <2>1, PromptConstants, OperationConstants
     DEF Answers, Calls, Changes, Decide, Leave, OperationsTypeOK, Outcomes, Put,
           QueueTypeOK, Sending, Stages, Steps, Unlock, agentVars, grantVars,
           launchVars, ledgerVars, promptVars, queueVars
  <2>5. ASSUME NEW p \in Prompts, Place(p) PROVE OperationsTypeOK'
    BY <2>5, <2>1, PromptConstants, OperationConstants
     DEF Answers, Calls, Changes, Leave, OperationsTypeOK, Outcomes, Place, Put,
           QueueTypeOK, Sending, Stages, Steps, Unlock, agentVars, grantVars,
           launchVars, ledgerVars, promptVars, queueVars
  <2>6. ASSUME NEW p \in Prompts, Check(p) PROVE OperationsTypeOK'
    BY <2>6, <2>1, PromptConstants, OperationConstants
     DEF Answers, Calls, Changes, Check, Leave, OperationsTypeOK, Outcomes, Put,
           QueueTypeOK, Sending, Stages, Steps, Unlock, agentVars, grantVars,
           launchVars, ledgerVars, promptVars, queueVars
  <2>7. ASSUME NEW p \in Prompts, Type(p) PROVE OperationsTypeOK'
    BY <2>7, <2>1, PromptConstants, OperationConstants
     DEF Answers, Calls, Changes, Leave, OperationsTypeOK, Outcomes, Put,
           QueueTypeOK, Sending, Stages, Steps, Type, Unlock, Works, Written,
           agentVars, grantVars, launchVars, ledgerVars, promptVars, queueVars
  <2>8. ASSUME NEW p \in Prompts, TypeFails(p) PROVE OperationsTypeOK'
    BY SMTT(40), <2>8, <2>1, PromptConstants, OperationConstants
     DEF Answers, Calls, Changes, Leave, OperationsTypeOK, Outcomes, Put,
           QueueTypeOK, Sending, Stages, Steps, TypeFails, Unlock, Written,
           agentVars, grantVars, launchVars, ledgerVars, promptVars, queueVars
  <2>9. ASSUME NEW p \in Prompts, Hand(p) PROVE OperationsTypeOK'
    <3>1. \/ at' = [at EXCEPT ![p] = "queued"]
          \/ at' = [at EXCEPT ![p] = "dropped"]
          \/ at' = [at EXCEPT ![p] = "delivering"]
      BY <2>9 DEF Hand, Undelivered, Leave, Put
    <3>2. at' \in [Prompts -> Stages]
      BY <3>1 DEF OperationsTypeOK, QueueTypeOK, Stages
    <3>3. input' = input \/ input' = [input EXCEPT ![session[p]] = NoPrompt]
      BY <2>9 DEF Hand, Undelivered, Leave, Unlock
    <3>4. input' \in [Sessions -> Prompts \cup {NoPrompt}]
      BY <3>3 DEF OperationsTypeOK, QueueTypeOK
    <3>5. /\ \/ queue' = queue
             \/ queue' = [queue EXCEPT ![session[p]] = @ \cup {p}]
             \/ queue' = [queue EXCEPT ![session[p]] = @ \cap Human]
          /\ \/ unsure' = unsure
             \/ p \in Human /\ unsure' = unsure \cup {p}
      BY <2>9 DEF Hand, Undelivered
    <3>6. queue' \in [Sessions -> SUBSET Prompts] /\ unsure' \subseteq Human
      BY <3>5, PromptConstants DEF OperationsTypeOK, QueueTypeOK
    <3> QED
      BY <2>1, <2>9, <3>2, <3>4, <3>6
         DEF Hand, OperationsTypeOK, QueueTypeOK, agentVars, grantVars, launchVars, ledgerVars
  <2>10. ASSUME NEW p \in Prompts, TypeQueued(p) PROVE OperationsTypeOK'
    BY <2>10, <2>1, PromptConstants, OperationConstants
     DEF Answers, Calls, Changes, Leave, OperationsTypeOK, Outcomes, Put,
           QueueTypeOK, Sending, Stages, Steps, TypeQueued, Unlock, Works, Written,
           agentVars, grantVars, launchVars, ledgerVars, promptVars, queueVars
  <2>11. ASSUME NEW p \in Prompts, TypeQueuedFails(p) PROVE OperationsTypeOK'
    BY SMTT(40), <2>11, <2>1, PromptConstants, OperationConstants
     DEF Answers, Calls, Changes, Leave, OperationsTypeOK, Outcomes, Put,
           QueueTypeOK, Sending, Stages, Steps, TypeQueuedFails, Undelivered,
           Unlock, Written, agentVars, grantVars, launchVars, ledgerVars,
           promptVars, queueVars
  <2>12. ASSUME NEW p \in Prompts, RemoveQueued(p) PROVE OperationsTypeOK'
    BY <2>12, <2>1, PromptConstants, OperationConstants
     DEF Answers, Calls, Changes, OperationsTypeOK, Outcomes, QueueTypeOK,
           RemoveQueued, Sending, Stages, Steps, agentVars, grantVars, launchVars,
           ledgerVars, promptVars, queueVars
  <2>13. ASSUME NEW s \in Sessions, Deliver(s) PROVE OperationsTypeOK'
    BY <2>13, <2>1, PromptConstants, OperationConstants
     DEF Answers, Calls, Changes, Deliver, Matches, OperationsTypeOK, Outcomes,
           Put, QueueTypeOK, Sending, Stages, Steps, agentVars, grantVars,
           launchVars, ledgerVars, promptVars, queueVars
  <2>14. ASSUME NEW s \in Sessions, Report(s) PROVE OperationsTypeOK'
    BY <2>14, <2>1, PromptConstants, OperationConstants
     DEF Answers, Calls, Changes, OperationsTypeOK, Outcomes, QueueTypeOK, Report,
           Sending, Stages, Steps, agentVars, grantVars, launchVars, ledgerVars,
           promptVars, queueVars
  <2>15. ASSUME NEW s \in Sessions, Keys(s) PROVE OperationsTypeOK'
    BY <2>15, <2>1, PromptConstants, OperationConstants
     DEF Answers, Calls, Changes, Keys, OperationsTypeOK, Outcomes, QueueTypeOK,
           Sending, Stages, Steps, Works, agentVars, grantVars, launchVars,
           ledgerVars, promptVars, queueVars
  <2>16. ASSUME NEW s \in Sessions, ClearQueue(s) PROVE OperationsTypeOK'
    BY <2>16, <2>1, PromptConstants, OperationConstants
     DEF Answers, Calls, Changes, ClearQueue, OperationsTypeOK, Outcomes,
           QueueTypeOK, Sending, Stages, Steps, agentVars, grantVars, launchVars,
           ledgerVars, promptVars, queueVars
  <2> QED
    BY <1>6, <2>2, <2>3, <2>4, <2>5, <2>6, <2>7, <2>8, <2>9, <2>10, <2>11, <2>12,
       <2>13, <2>14, <2>15, <2>16
     DEF QueueMoves, PromptStep, SessionStep
<1>7. CASE ReplacePlans
  BY <1>7, PromptConstants, OperationConstants
   DEF Answers, Calls, Changes, OperationsTypeOK, Outcomes, QueueTypeOK,
         ReplacePlans, Sending, Stages, Steps, agentVars, grantVars, launchVars,
         ledgerVars, promptVars, queueVars
<1>8. CASE UNCHANGED operationVars
  BY <1>1, <1>8
   DEF agentVars, grantVars, launchVars, ledgerVars, operationVars, promptVars,
         queueVars
<1> QED
  BY <1>1, <1>2, <1>3, <1>4, <1>5, <1>6, <1>7, <1>8 DEF OperationsNext

(***************************************************************************)
(* Prompts.                                                                *)
(***************************************************************************)
LEMMA QueuedStep == OperationsTypeOK /\ Queued /\ [OperationsNext]_operationVars => Queued'
<1> SUFFICES ASSUME OperationsTypeOK, Queued, [OperationsNext]_operationVars PROVE Queued'
  OBVIOUS
<1>1. CASE UNCHANGED <<queue, at>>
  BY <1>1 DEF OperationsTypeOK, QueueTypeOK, Queued
<1>2. ASSUME NEW c \in Calls, Call(c) PROVE Queued'
  <2>1. CASE Look(c)
    BY <1>1, <2>1 DEF Duplicate, Go, Look, Told, promptVars, queueVars
  <2>2. CASE Reserve(c)
    BY <1>1, <2>2
     DEF Duplicate, Go, Remember, Reserve, Told, promptVars, queueVars
  <2>3. CASE Repeat(c)
    BY <1>1, <2>3 DEF Go, Repeat, Told, promptVars, queueVars
  <2>4. CASE WaitTimesOut(c)
    BY <1>1, <2>4 DEF Go, Told, WaitTimesOut, promptVars, queueVars
  <2>5. CASE Expire(c)
    BY <1>1, <2>5 DEF Expire, promptVars, queueVars
  <2>6. CASE StartPrompt(c)
    BY <2>6, PromptConstants, OperationConstants
     DEF Completed, Enter, OperationsTypeOK, Put, QueueTypeOK, Queued,
           StartPrompt, promptVars, queueVars
  <2>7. CASE PromptReturns(c)
    BY <1>1, <2>7 DEF Completed, Go, PromptReturns, Told, promptVars, queueVars
  <2> QED
    BY <1>2, <2>1, <2>2, <2>3, <2>4, <2>5, <2>6, <2>7 DEF Call
<1>3. ASSUME NEW c \in Launches, Launch(c) PROVE Queued'
  BY <1>1, <1>3
   DEF Authorise, Changing, CheckLimits, Completed, ControlLaunched, Failed, Flip,
         Go, Launch, Mark, Note, Offer, ShareLaunched, Spawn, SpawnFailed, Told,
         promptVars, queueVars
<1>4. ASSUME NEW s \in Sessions, Person(s) PROVE Queued'
  <2>1. CASE Share(s)
    BY <1>1, <2>1 DEF Changing, Share, promptVars, queueVars
  <2>2. CASE Shared(s)
    BY <1>1, <2>2 DEF Changing, Mark, Offer, Shared, promptVars, queueVars
  <2>3. CASE Grant(s)
    BY <1>1, <2>3 DEF Changing, Flip, Grant, promptVars, queueVars
  <2>4. CASE Granted(s)
    BY <1>1, <2>4 DEF Changing, Granted, Mark, promptVars, queueVars
  <2>5. CASE Revoke(s, "revoking")
    BY <1>1, <2>5 DEF Changing, Flip, Revoke, promptVars, queueVars
  <2>6. CASE Revoke(s, "unsharing")
    BY <1>1, <2>6 DEF Changing, Flip, Revoke, promptVars, queueVars
  <2>7. CASE RevokeQueue(s)
    BY <2>7, PromptConstants, OperationConstants
     DEF ClearMcp, OperationsTypeOK, QueueTypeOK, Queued, RevokeQueue, promptVars,
           queueVars
  <2>8. CASE Revoked(s)
    BY <1>1, <2>8 DEF Changing, Mark, Revoked, promptVars, queueVars
  <2>9. CASE UnshareEnded(s)
    BY <1>1, <2>9 DEF Mark, UnshareEnded, promptVars, queueVars
  <2> QED
    BY <1>4, <2>1, <2>2, <2>3, <2>4, <2>5, <2>6, <2>7, <2>8, <2>9 DEF Person
<1>5. ASSUME NEW s \in Sessions, Exit(s) \/ Closed(s) PROVE Queued'
  BY <1>1, <1>5 DEF Closed, Exit, Mark, promptVars, queueVars
<1>6. CASE QueueMoves
  <2>1. UNCHANGED <<ledgerVars, grantVars, launchVars>>
    BY <1>6 DEF QueueMoves
  <2>2. ASSUME NEW p \in Human, Enter(p) PROVE Queued'
    BY <2>2, <2>1, PromptConstants, OperationConstants
     DEF Enter, OperationsTypeOK, Put, QueueTypeOK, Queued, promptVars, queueVars
  <2>3. ASSUME NEW p \in Prompts, TakeInput(p) PROVE Queued'
    BY <2>3, <2>1, PromptConstants, OperationConstants
     DEF OperationsTypeOK, Put, QueueTypeOK, Queued, TakeInput, promptVars,
           queueVars
  <2>4. ASSUME NEW p \in Prompts, Decide(p) PROVE Queued'
    BY <2>4, <2>1, PromptConstants, OperationConstants
     DEF Decide, Leave, OperationsTypeOK, Put, QueueTypeOK, Queued, promptVars,
           queueVars
  <2>5. ASSUME NEW p \in Prompts, Place(p) PROVE Queued'
    BY <2>5, <2>1, PromptConstants, OperationConstants
     DEF Leave, OperationsTypeOK, Place, Put, QueueTypeOK, Queued, promptVars,
           queueVars
  <2>6. ASSUME NEW p \in Prompts, Check(p) PROVE Queued'
    BY <2>6, <2>1, PromptConstants, OperationConstants
     DEF Check, Leave, OperationsTypeOK, Put, QueueTypeOK, Queued, promptVars,
           queueVars
  <2>7. ASSUME NEW p \in Prompts, Type(p) PROVE Queued'
    BY <2>7, <2>1, PromptConstants, OperationConstants
     DEF Leave, OperationsTypeOK, Put, QueueTypeOK, Queued, Type, promptVars,
           queueVars
  <2>8. ASSUME NEW p \in Prompts, TypeFails(p) PROVE Queued'
    BY <2>8, <2>1, PromptConstants, OperationConstants
     DEF Leave, OperationsTypeOK, Put, QueueTypeOK, Queued, TypeFails, promptVars,
           queueVars
  <2>9. ASSUME NEW p \in Prompts, Hand(p) PROVE Queued'
    BY <2>9, <2>1, PromptConstants, OperationConstants
     DEF Hand, Leave, OperationsTypeOK, Put, QueueTypeOK, Queued, Undelivered,
           promptVars, queueVars
  <2>10. ASSUME NEW p \in Prompts, TypeQueued(p) PROVE Queued'
    BY <2>10, <2>1, PromptConstants, OperationConstants
     DEF Leave, OperationsTypeOK, Put, QueueTypeOK, Queued, TypeQueued,
           promptVars, queueVars
  <2>11. ASSUME NEW p \in Prompts, TypeQueuedFails(p) PROVE Queued'
    BY <2>11, <2>1, PromptConstants, OperationConstants
     DEF Leave, OperationsTypeOK, Put, QueueTypeOK, Queued, TypeQueuedFails,
           Undelivered, promptVars, queueVars
  <2>12. ASSUME NEW p \in Prompts, RemoveQueued(p) PROVE Queued'
    BY <2>12, <2>1, PromptConstants, OperationConstants
     DEF OperationsTypeOK, QueueTypeOK, Queued, RemoveQueued, promptVars,
           queueVars
  <2>13. ASSUME NEW s \in Sessions, Deliver(s) PROVE Queued'
    BY <2>13, <2>1, PromptConstants, OperationConstants
     DEF Deliver, OperationsTypeOK, Put, QueueTypeOK, Queued, promptVars,
           queueVars
  <2>14. ASSUME NEW s \in Sessions, Report(s) PROVE Queued'
    BY <1>1, <2>14, <2>1 DEF Report, promptVars, queueVars
  <2>15. ASSUME NEW s \in Sessions, Keys(s) PROVE Queued'
    BY <1>1, <2>15, <2>1 DEF Keys, Works, promptVars, queueVars
  <2>16. ASSUME NEW s \in Sessions, ClearQueue(s) PROVE Queued'
    BY <2>16, <2>1, PromptConstants, OperationConstants
     DEF ClearQueue, OperationsTypeOK, QueueTypeOK, Queued, promptVars, queueVars
  <2> QED
    BY <1>6, <2>2, <2>3, <2>4, <2>5, <2>6, <2>7, <2>8, <2>9, <2>10, <2>11, <2>12,
       <2>13, <2>14, <2>15, <2>16
     DEF QueueMoves, PromptStep, SessionStep
<1>7. CASE ReplacePlans
  BY <1>1, <1>7 DEF ReplacePlans, promptVars, queueVars
<1>8. CASE UNCHANGED operationVars
  BY <1>1, <1>8 DEF operationVars, promptVars, queueVars
<1> QED
  BY <1>1, <1>2, <1>3, <1>4, <1>5, <1>6, <1>7, <1>8 DEF OperationsNext

LEMMA WrittenStep ==
    OperationsTypeOK /\ Queued /\ WrittenOnce /\ [OperationsNext]_operationVars
        => WrittenOnce'
<1> SUFFICES ASSUME OperationsTypeOK, Queued, WrittenOnce, [OperationsNext]_operationVars
             PROVE WrittenOnce'
  OBVIOUS
<1>1. CASE UNCHANGED <<queue, unsure, at, writes>>
  BY <1>1 DEF OperationsTypeOK, QueueTypeOK, Queued, WrittenOnce
<1>2. ASSUME NEW c \in Calls, Call(c) PROVE WrittenOnce'
  <2>1. CASE Look(c)
    BY <1>1, <2>1 DEF Duplicate, Go, Look, Told, promptVars, queueVars
  <2>2. CASE Reserve(c)
    BY <1>1, <2>2
     DEF Duplicate, Go, Remember, Reserve, Told, promptVars, queueVars
  <2>3. CASE Repeat(c)
    BY <1>1, <2>3 DEF Go, Repeat, Told, promptVars, queueVars
  <2>4. CASE WaitTimesOut(c)
    BY <1>1, <2>4 DEF Go, Told, WaitTimesOut, promptVars, queueVars
  <2>5. CASE Expire(c)
    BY <1>1, <2>5 DEF Expire, promptVars, queueVars
  <2>6. CASE StartPrompt(c)
    BY <2>6, PromptConstants, OperationConstants
     DEF Completed, Enter, OperationsTypeOK, Put, QueueTypeOK, Queued,
           StartPrompt, WrittenOnce, promptVars, queueVars
  <2>7. CASE PromptReturns(c)
    BY <1>1, <2>7 DEF Completed, Go, PromptReturns, Told, promptVars, queueVars
  <2> QED
    BY <1>2, <2>1, <2>2, <2>3, <2>4, <2>5, <2>6, <2>7 DEF Call
<1>3. ASSUME NEW c \in Launches, Launch(c) PROVE WrittenOnce'
  BY <1>1, <1>3
   DEF Authorise, Changing, CheckLimits, Completed, ControlLaunched, Failed, Flip,
         Go, Launch, Mark, Note, Offer, ShareLaunched, Spawn, SpawnFailed, Told,
         promptVars, queueVars
<1>4. ASSUME NEW s \in Sessions, Person(s) PROVE WrittenOnce'
  <2>1. CASE Share(s)
    BY <1>1, <2>1 DEF Changing, Share, promptVars, queueVars
  <2>2. CASE Shared(s)
    BY <1>1, <2>2 DEF Changing, Mark, Offer, Shared, promptVars, queueVars
  <2>3. CASE Grant(s)
    BY <1>1, <2>3 DEF Changing, Flip, Grant, promptVars, queueVars
  <2>4. CASE Granted(s)
    BY <1>1, <2>4 DEF Changing, Granted, Mark, promptVars, queueVars
  <2>5. CASE Revoke(s, "revoking")
    BY <1>1, <2>5 DEF Changing, Flip, Revoke, promptVars, queueVars
  <2>6. CASE Revoke(s, "unsharing")
    BY <1>1, <2>6 DEF Changing, Flip, Revoke, promptVars, queueVars
  <2>7. CASE RevokeQueue(s)
    BY <2>7, PromptConstants, OperationConstants
     DEF ClearMcp, OperationsTypeOK, QueueTypeOK, Queued, RevokeQueue,
           WrittenOnce, promptVars, queueVars
  <2>8. CASE Revoked(s)
    BY <1>1, <2>8 DEF Changing, Mark, Revoked, promptVars, queueVars
  <2>9. CASE UnshareEnded(s)
    BY <1>1, <2>9 DEF Mark, UnshareEnded, promptVars, queueVars
  <2> QED
    BY <1>4, <2>1, <2>2, <2>3, <2>4, <2>5, <2>6, <2>7, <2>8, <2>9 DEF Person
<1>5. ASSUME NEW s \in Sessions, Exit(s) \/ Closed(s) PROVE WrittenOnce'
  BY <1>1, <1>5 DEF Closed, Exit, Mark, promptVars, queueVars
<1>6. CASE QueueMoves
  <2>1. UNCHANGED <<ledgerVars, grantVars, launchVars>>
    BY <1>6 DEF QueueMoves
  <2>2. ASSUME NEW p \in Human, Enter(p) PROVE WrittenOnce'
    BY <2>2, <2>1, PromptConstants, OperationConstants
     DEF Enter, OperationsTypeOK, Put, QueueTypeOK, Queued, WrittenOnce,
           promptVars, queueVars
  <2>3. ASSUME NEW p \in Prompts, TakeInput(p) PROVE WrittenOnce'
    BY <2>3, <2>1, PromptConstants, OperationConstants
     DEF OperationsTypeOK, Put, QueueTypeOK, Queued, TakeInput, WrittenOnce,
           promptVars, queueVars
  <2>4. ASSUME NEW p \in Prompts, Decide(p) PROVE WrittenOnce'
    BY <2>4, <2>1, PromptConstants, OperationConstants
     DEF Decide, Leave, OperationsTypeOK, Put, QueueTypeOK, Queued, WrittenOnce,
           promptVars, queueVars
  <2>5. ASSUME NEW p \in Prompts, Place(p) PROVE WrittenOnce'
    BY <2>5, <2>1, PromptConstants, OperationConstants
     DEF Leave, OperationsTypeOK, Place, Put, QueueTypeOK, Queued, WrittenOnce,
           promptVars, queueVars
  <2>6. ASSUME NEW p \in Prompts, Check(p) PROVE WrittenOnce'
    BY <2>6, <2>1, PromptConstants, OperationConstants
     DEF Check, Leave, OperationsTypeOK, Put, QueueTypeOK, Queued, WrittenOnce,
           promptVars, queueVars
  <2>7. ASSUME NEW p \in Prompts, Type(p) PROVE WrittenOnce'
    <3>1. writes[p] = 0
      BY <2>7 DEF Type, WrittenOnce, OperationsTypeOK, QueueTypeOK
    <3>2. writes' = [writes EXCEPT ![p] = 1]
      BY <2>7, <3>1 DEF Type, Written
    <3>3. at' = [at EXCEPT ![p] = "sent"] /\ UNCHANGED <<queue, unsure>>
      BY <2>7 DEF Type, Leave, Put
    <3> QED
      BY <3>1, <3>2, <3>3 DEF WrittenOnce, OperationsTypeOK, QueueTypeOK
  <2>8. ASSUME NEW p \in Prompts, TypeFails(p) PROVE WrittenOnce'
    <3>1. writes[p] = 0
      BY <2>8 DEF TypeFails, WrittenOnce, OperationsTypeOK, QueueTypeOK
    <3>2. writes' = [writes EXCEPT ![p] = 1] \/ writes' = writes
      BY <2>8, <3>1 DEF TypeFails, Written
    <3>3. at' = [at EXCEPT ![p] = "refused"] /\ UNCHANGED <<queue, unsure>>
      BY <2>8 DEF TypeFails, Leave, Put
    <3> QED
      BY <3>1, <3>2, <3>3 DEF WrittenOnce, OperationsTypeOK, QueueTypeOK
  <2>9. ASSUME NEW p \in Prompts, Hand(p) PROVE WrittenOnce'
    BY <2>9, <2>1, PromptConstants, OperationConstants
     DEF Hand, Leave, OperationsTypeOK, Put, QueueTypeOK, Queued, Undelivered,
           WrittenOnce, promptVars, queueVars
  <2>10. ASSUME NEW p \in Prompts, TypeQueued(p) PROVE WrittenOnce'
    <3>1. writes[p] = 0
      BY <2>10 DEF TypeQueued, WrittenOnce, OperationsTypeOK, QueueTypeOK
    <3>2. writes' = [writes EXCEPT ![p] = 1]
      BY <2>10, <3>1 DEF TypeQueued, Written
    <3>3. at' = [at EXCEPT ![p] = "sent"] /\ UNCHANGED <<queue, unsure>>
      BY <2>10 DEF TypeQueued, Leave, Put
    <3> QED
      BY <3>1, <3>2, <3>3 DEF WrittenOnce, OperationsTypeOK, QueueTypeOK
  <2>11. ASSUME NEW p \in Prompts, TypeQueuedFails(p) PROVE WrittenOnce'
    BY SMTT(40), <2>11, <2>1, PromptConstants, OperationConstants
     DEF Leave, OperationsTypeOK, Put, QueueTypeOK, Queued, TypeQueuedFails,
           Undelivered, Written, WrittenOnce, promptVars, queueVars
  <2>12. ASSUME NEW p \in Prompts, RemoveQueued(p) PROVE WrittenOnce'
    BY <2>12, <2>1, PromptConstants, OperationConstants
     DEF OperationsTypeOK, QueueTypeOK, Queued, RemoveQueued, WrittenOnce,
           promptVars, queueVars
  <2>13. ASSUME NEW s \in Sessions, Deliver(s) PROVE WrittenOnce'
    BY SMTT(40), <2>13, <2>1, PromptConstants, OperationConstants
     DEF Deliver, Matches, OperationsTypeOK, Put, QueueTypeOK, Queued,
           WrittenOnce, promptVars, queueVars
  <2>14. ASSUME NEW s \in Sessions, Report(s) PROVE WrittenOnce'
    BY <1>1, <2>14, <2>1 DEF Report, promptVars, queueVars
  <2>15. ASSUME NEW s \in Sessions, Keys(s) PROVE WrittenOnce'
    BY <1>1, <2>15, <2>1 DEF Keys, Works, promptVars, queueVars
  <2>16. ASSUME NEW s \in Sessions, ClearQueue(s) PROVE WrittenOnce'
    BY <2>16, <2>1, PromptConstants, OperationConstants
     DEF ClearQueue, OperationsTypeOK, QueueTypeOK, Queued, WrittenOnce,
           promptVars, queueVars
  <2> QED
    BY <1>6, <2>2, <2>3, <2>4, <2>5, <2>6, <2>7, <2>8, <2>9, <2>10, <2>11, <2>12,
       <2>13, <2>14, <2>15, <2>16
     DEF QueueMoves, PromptStep, SessionStep
<1>7. CASE ReplacePlans
  BY <1>1, <1>7 DEF ReplacePlans, promptVars, queueVars
<1>8. CASE UNCHANGED operationVars
  BY <1>1, <1>8 DEF operationVars, promptVars, queueVars
<1> QED
  BY <1>1, <1>2, <1>3, <1>4, <1>5, <1>6, <1>7, <1>8 DEF OperationsNext

LEMMA CarriedStep ==
    OperationsTypeOK /\ Queued /\ Carried /\ [OperationsNext]_operationVars
        => Carried'
<1> SUFFICES ASSUME OperationsTypeOK, Queued, Carried, [OperationsNext]_operationVars
             PROVE Carried'
  OBVIOUS
<1>1. CASE UNCHANGED <<at, grant>>
  BY <1>1 DEF Carried, OperationsTypeOK, QueueTypeOK, Queued
<1>2. ASSUME NEW c \in Calls, Call(c) PROVE Carried'
  <2>1. CASE Look(c)
    BY <1>1, <2>1 DEF Duplicate, Go, Look, Told, promptVars, queueVars
  <2>2. CASE Reserve(c)
    BY <1>1, <2>2
     DEF Duplicate, Go, Remember, Reserve, Told, promptVars, queueVars
  <2>3. CASE Repeat(c)
    BY <1>1, <2>3 DEF Go, Repeat, Told, promptVars, queueVars
  <2>4. CASE WaitTimesOut(c)
    BY <1>1, <2>4 DEF Go, Told, WaitTimesOut, promptVars, queueVars
  <2>5. CASE Expire(c)
    BY <1>1, <2>5 DEF Expire, promptVars, queueVars
  <2>6. CASE StartPrompt(c)
    BY <2>6, PromptConstants, OperationConstants
     DEF Carried, Completed, Enter, OperationsTypeOK, Put, QueueTypeOK, Queued,
           StartPrompt, promptVars, queueVars
  <2>7. CASE PromptReturns(c)
    BY <1>1, <2>7 DEF Completed, Go, PromptReturns, Told, promptVars, queueVars
  <2> QED
    BY <1>2, <2>1, <2>2, <2>3, <2>4, <2>5, <2>6, <2>7 DEF Call
<1>3. ASSUME NEW c \in Launches, Launch(c) PROVE Carried'
  BY <1>1, <1>3
   DEF Authorise, Changing, CheckLimits, Completed, ControlLaunched, Failed, Flip,
         Go, Launch, Mark, Note, Offer, ShareLaunched, Spawn, SpawnFailed, Told,
         promptVars, queueVars
<1>4. ASSUME NEW s \in Sessions, Person(s) PROVE Carried'
  BY <1>1, <1>4
   DEF Changing, ClearMcp, Flip, Grant, Granted, Mark, Offer, Person, Revoke,
         RevokeQueue, Revoked, Share, Shared, UnshareEnded, promptVars, queueVars
<1>5. ASSUME NEW s \in Sessions, Exit(s) \/ Closed(s) PROVE Carried'
  BY <1>1, <1>5 DEF Closed, Exit, Mark, promptVars, queueVars
<1>6. CASE QueueMoves
  <2>1. UNCHANGED <<ledgerVars, grantVars, launchVars>>
    BY <1>6 DEF QueueMoves
  <2>2. ASSUME NEW p \in Human, Enter(p) PROVE Carried'
    BY <2>2, <2>1, PromptConstants, OperationConstants
     DEF Carried, Enter, OperationsTypeOK, Put, QueueTypeOK, Queued, promptVars,
           queueVars
  <2>3. ASSUME NEW p \in Prompts, TakeInput(p) PROVE Carried'
    BY <2>3, <2>1, PromptConstants, OperationConstants
     DEF Carried, OperationsTypeOK, Put, QueueTypeOK, Queued, TakeInput,
           promptVars, queueVars
  <2>4. ASSUME NEW p \in Prompts, Decide(p) PROVE Carried'
    BY <2>4, <2>1, PromptConstants, OperationConstants
     DEF Carried, Decide, Leave, OperationsTypeOK, Put, QueueTypeOK, Queued,
           promptVars, queueVars
  <2>5. ASSUME NEW p \in Prompts, Place(p) PROVE Carried'
    BY <2>5, <2>1, PromptConstants, OperationConstants
     DEF Carried, Leave, OperationsTypeOK, Place, Put, QueueTypeOK, Queued,
           promptVars, queueVars
  <2>6. ASSUME NEW p \in Prompts, Check(p) PROVE Carried'
    BY <2>6, <2>1, PromptConstants, OperationConstants
     DEF Carried, Check, Leave, OperationsTypeOK, Put, QueueTypeOK, Queued,
           promptVars, queueVars
  <2>7. ASSUME NEW p \in Prompts, Type(p) PROVE Carried'
    BY <2>7, <2>1, PromptConstants, OperationConstants
     DEF Carried, Leave, OperationsTypeOK, Put, QueueTypeOK, Queued, Type,
           promptVars, queueVars
  <2>8. ASSUME NEW p \in Prompts, TypeFails(p) PROVE Carried'
    BY <2>8, <2>1, PromptConstants, OperationConstants
     DEF Carried, Leave, OperationsTypeOK, Put, QueueTypeOK, Queued, TypeFails,
           promptVars, queueVars
  <2>9. ASSUME NEW p \in Prompts, Hand(p) PROVE Carried'
    BY <2>9, <2>1, PromptConstants, OperationConstants
     DEF Carried, Hand, Leave, OperationsTypeOK, Put, QueueTypeOK, Queued,
           Undelivered, promptVars, queueVars
  <2>10. ASSUME NEW p \in Prompts, TypeQueued(p) PROVE Carried'
    BY <2>10, <2>1, PromptConstants, OperationConstants
     DEF Carried, Leave, OperationsTypeOK, Put, QueueTypeOK, Queued, TypeQueued,
           promptVars, queueVars
  <2>11. ASSUME NEW p \in Prompts, TypeQueuedFails(p) PROVE Carried'
    BY <2>11, <2>1, PromptConstants, OperationConstants
     DEF Carried, Leave, OperationsTypeOK, Put, QueueTypeOK, Queued,
           TypeQueuedFails, Undelivered, promptVars, queueVars
  <2>12. ASSUME NEW p \in Prompts, RemoveQueued(p) PROVE Carried'
    BY <1>1, <2>12, <2>1 DEF RemoveQueued, promptVars, queueVars
  <2>13. ASSUME NEW s \in Sessions, Deliver(s) PROVE Carried'
    BY <2>13, <2>1, PromptConstants, OperationConstants
     DEF Carried, Deliver, OperationsTypeOK, Put, QueueTypeOK, Queued, promptVars,
           queueVars
  <2>14. ASSUME NEW s \in Sessions, Report(s) PROVE Carried'
    BY <1>1, <2>14, <2>1 DEF Report, promptVars, queueVars
  <2>15. ASSUME NEW s \in Sessions, Keys(s) PROVE Carried'
    BY <1>1, <2>15, <2>1 DEF Keys, Works, promptVars, queueVars
  <2>16. ASSUME NEW s \in Sessions, ClearQueue(s) PROVE Carried'
    BY <1>1, <2>16, <2>1 DEF ClearQueue, promptVars, queueVars
  <2> QED
    BY <1>6, <2>2, <2>3, <2>4, <2>5, <2>6, <2>7, <2>8, <2>9, <2>10, <2>11, <2>12,
       <2>13, <2>14, <2>15, <2>16
     DEF QueueMoves, PromptStep, SessionStep
<1>7. CASE ReplacePlans
  BY <1>1, <1>7 DEF ReplacePlans, promptVars, queueVars
<1>8. CASE UNCHANGED operationVars
  BY <1>1, <1>8 DEF operationVars, promptVars, queueVars
<1> QED
  BY <1>1, <1>2, <1>3, <1>4, <1>5, <1>6, <1>7, <1>8 DEF OperationsNext

(***************************************************************************)
(* The ledger.                                                             *)
(***************************************************************************)
\* What a call that looks its request up comes to.
Waits(c) ==
    \E e \in Known(c) :
        /\ operation[e] = operation[c]
        /\ step' = [step EXCEPT ![c] = "waiting"]
        /\ waitsFor' = [waitsFor EXCEPT ![c] = e]
        /\ UNCHANGED <<outcome, answer>>

Refused(c) ==
    /\ step' = [step EXCEPT ![c] = "done"]
    /\ answer' = [answer EXCEPT ![c] = "refused"]
    /\ UNCHANGED <<outcome, waitsFor>>

Passes(c) == step' = [step EXCEPT ![c] = "reserving"] /\ UNCHANGED <<outcome, waitsFor, answer>>

Starts(c) ==
    /\ step' = [step EXCEPT ![c] = "running"]
    /\ outcome' = [outcome EXCEPT ![c] = "pending"]
    /\ UNCHANGED <<waitsFor, answer>>

LEMMA Looked ==
    ASSUME NEW c \in Calls, Look(c) \/ Reserve(c)
    PROVE  /\ step[c] \in {"idle", "reserving"} /\ expired' = expired
           /\ \/ recent' \in {recent, recent \ expired} /\ (Waits(c) \/ Refused(c) \/ Passes(c))
              \/ /\ Known(c) = {} /\ Cardinality(recent \ expired) < MaxRecentOutcomes
                 /\ recent' = (recent \ expired) \cup {c}
                 /\ Starts(c)
<1>1. CASE Look(c)
  BY <1>1 DEF Look, Duplicate, Told, Go, Waits, Refused, Passes
<1>2. CASE Reserve(c)
  <2>1. CASE Duplicate(c) /\ recent' = recent \ expired /\ UNCHANGED outcome
    BY <1>2, <2>1 DEF Reserve, Duplicate, Told, Go, Waits, Refused
  <2>2. CASE Known(c) = {} /\ Cardinality(recent \ expired) < MaxRecentOutcomes /\ Remember(c)
    BY <1>2, <2>2 DEF Reserve, Remember, Go, Starts
  <2>3. CASE recent' = recent \ expired /\ Told(c, "refused") /\ UNCHANGED <<outcome, waitsFor>>
    BY <1>2, <2>3 DEF Reserve, Told, Go, Refused
  <2> QED
    BY <1>2, <2>1, <2>2, <2>3 DEF Reserve
<1> QED
  BY <1>1, <1>2

\* The two ends of the authorisation of a launched session.
HandsOver(c) ==
    /\ plans /\ generation = readUnder[c] /\ session[c] \in alive
    /\ step' = [step EXCEPT ![c] = "sharing"]
    /\ changing' = [changing EXCEPT ![session[c]] = "launching"]
    /\ Odd(epoch'[session[c]])
    /\ \A t \in Sessions \ {session[c]} : epoch'[t] = epoch[t]
    /\ Odd(epoch[session[c]]) => epoch' = epoch
    /\ UNCHANGED <<alive, closing, launching, outcome, answer>>

Aborts(c) ==
    /\ step' = [step EXCEPT ![c] = "done"]
    /\ outcome' = [outcome EXCEPT ![c] = "error"]
    /\ answer' = [answer EXCEPT ![c] = "error"]
    /\ launching' = NoCall
    /\ alive' = alive \ {session[c]}
    /\ closing' = IF session[c] \in alive THEN closing \cup {session[c]} ELSE closing
    /\ UNCHANGED <<epoch, changing>>

LEMMA Authorised ==
    ASSUME OperationsTypeOK, NEW c \in Launches, Authorise(c)
    PROVE  /\ session[c] \in Sessions /\ step[c] = "spawned" /\ changing[session[c]] = "no"
           /\ UNCHANGED <<promptVars, shared, launched, plans, generation, readUnder, recent,
                         expired, waitsFor>>
           /\ HandsOver(c) \/ Aborts(c)
<1>1. session[c] \in Sessions
  BY OperationConstants
<1>2. CASE plans /\ generation = readUnder[c] /\ session[c] \in alive
  <2>1. /\ Odd(epoch'[session[c]])
        /\ \A t \in Sessions \ {session[c]} : epoch'[t] = epoch[t]
        /\ Odd(epoch[session[c]]) => epoch' = epoch
    BY <1>1, <1>2, Flipped DEF Authorise, OperationsTypeOK, QueueTypeOK
  <2> QED
    BY <1>1, <1>2, <2>1 DEF Authorise, Go, Changing, HandsOver
<1>3. CASE ~(plans /\ generation = readUnder[c] /\ session[c] \in alive)
  BY <1>1, <1>3 DEF Authorise, Failed, Completed, Told, Go, Aborts
<1> QED
  BY <1>2, <1>3

LEMMA LedgerStep == OperationsTypeOK /\ Ledger /\ [OperationsNext]_operationVars => Ledger'
<1> SUFFICES ASSUME OperationsTypeOK, Ledger, [OperationsNext]_operationVars PROVE Ledger'
  OBVIOUS
<1>1. CASE UNCHANGED <<recent, outcome, expired, step, waitsFor, answer>>
  BY <1>1 DEF Before, Calls, Ledger, OperationsTypeOK, Running
<1>2. ASSUME NEW c \in Calls, Call(c) PROVE Ledger'
  <2>1. CASE Look(c)
    <3>1. CASE Waits(c) /\ recent' \in {recent, recent \ expired}
      <4> PICK e \in Known(c) :
             /\ step' = [step EXCEPT ![c] = "waiting"]
             /\ waitsFor' = [waitsFor EXCEPT ![c] = e]
             /\ UNCHANGED <<outcome, answer>>
        BY <3>1 DEF Waits
      <4> QED
        BY <2>1, <3>1, Looked, OperationConstants
           DEF Ledger, Known, Before, Running, Calls, OperationsTypeOK
    <3>2. CASE Refused(c) /\ recent' \in {recent, recent \ expired}
      <4>1. step[c] \in {"idle", "reserving"} /\ expired' = expired
        BY <2>1, Looked
      <4>2. \A d \in Calls : /\ step'[d] = IF d = c THEN "done" ELSE step[d]
                             /\ answer'[d] = IF d = c THEN "refused" ELSE answer[d]
                             /\ outcome'[d] = outcome[d] /\ waitsFor'[d] = waitsFor[d]
        BY <3>2 DEF Refused, OperationsTypeOK
      <4> QED
        BY <3>2, <4>1, <4>2 DEF Ledger, Before, Running
    <3>3. CASE Passes(c) /\ recent' \in {recent, recent \ expired}
      BY <2>1, <3>3, Looked, OperationConstants
         DEF Ledger, Passes, Before, Running, Calls, OperationsTypeOK
    <3>4. CASE Starts(c) /\ recent' = (recent \ expired) \cup {c}
      BY ZenonT(60), <2>1, <3>4, Looked, OperationConstants
         DEF Ledger, Starts, Before, Running, Calls, OperationsTypeOK
    <3> QED
      BY <2>1, <3>1, <3>2, <3>3, <3>4, Looked
  <2>2. CASE Reserve(c)
    <3>1. CASE Waits(c) /\ recent' \in {recent, recent \ expired}
      <4> PICK e \in Known(c) :
             /\ step' = [step EXCEPT ![c] = "waiting"]
             /\ waitsFor' = [waitsFor EXCEPT ![c] = e]
             /\ UNCHANGED <<outcome, answer>>
        BY <3>1 DEF Waits
      <4> QED
        BY <2>2, <3>1, Looked, OperationConstants
           DEF Ledger, Known, Before, Running, Calls, OperationsTypeOK
    <3>2. CASE Refused(c) /\ recent' \in {recent, recent \ expired}
      <4>1. step[c] \in {"idle", "reserving"} /\ expired' = expired
        BY <2>2, Looked
      <4>2. \A d \in Calls : /\ step'[d] = IF d = c THEN "done" ELSE step[d]
                             /\ answer'[d] = IF d = c THEN "refused" ELSE answer[d]
                             /\ outcome'[d] = outcome[d] /\ waitsFor'[d] = waitsFor[d]
        BY <3>2 DEF Refused, OperationsTypeOK
      <4> QED
        BY <3>2, <4>1, <4>2 DEF Ledger, Before, Running
    <3>3. CASE Passes(c) /\ recent' \in {recent, recent \ expired}
      BY <2>2, <3>3, Looked, OperationConstants
         DEF Ledger, Passes, Before, Running, Calls, OperationsTypeOK
    <3>4. CASE Starts(c) /\ recent' = (recent \ expired) \cup {c}
      BY ZenonT(60), <2>2, <3>4, Looked, OperationConstants
         DEF Ledger, Starts, Before, Running, Calls, OperationsTypeOK
    <3> QED
      BY <2>2, <3>1, <3>2, <3>3, <3>4, Looked
  <2>3. CASE Repeat(c)
    BY <2>3, OperationConstants
     DEF Before, Calls, Go, Ledger, OperationsTypeOK, Repeat, Running, Told,
           ledgerVars
  <2>4. CASE WaitTimesOut(c)
    BY <2>4, OperationConstants
     DEF Before, Calls, Go, Ledger, OperationsTypeOK, Running, Told, WaitTimesOut,
           ledgerVars
  <2>5. CASE Expire(c)
    BY <2>5, OperationConstants
     DEF Before, Calls, Expire, Ledger, OperationsTypeOK, Running, ledgerVars
  <2>6. CASE StartPrompt(c)
    BY <2>6, OperationConstants
     DEF Before, Calls, Completed, Enter, Go, Ledger, OperationsTypeOK, Running,
           StartPrompt, Told, ledgerVars
  <2>7. CASE PromptReturns(c)
    BY <2>7, OperationConstants
     DEF Before, Calls, Completed, Go, Ledger, OperationsTypeOK, PromptReturns,
           Running, Told, ledgerVars
  <2> QED
    BY <1>2, <2>1, <2>2, <2>3, <2>4, <2>5, <2>6, <2>7 DEF Call
<1>3. ASSUME NEW c \in Launches, Launch(c) PROVE Ledger'
  <2>1. CASE CheckLimits(c)
    BY <2>1, OperationConstants
     DEF Before, Calls, CheckLimits, Completed, Go, Ledger, OperationsTypeOK,
           Running, Told, ledgerVars
  <2>2. CASE Spawn(c)
    BY <2>2, OperationConstants
     DEF Before, Calls, Go, Ledger, OperationsTypeOK, Running, Spawn, ledgerVars
  <2>3. CASE SpawnFailed(c)
    BY <2>3, OperationConstants
     DEF Before, Calls, Completed, Failed, Go, Ledger, OperationsTypeOK, Running,
           SpawnFailed, Told, ledgerVars
  <2>4. CASE Authorise(c)
    <3>1. /\ session[c] \in Sessions /\ step[c] = "spawned" /\ changing[session[c]] = "no"
          /\ UNCHANGED <<promptVars, shared, launched, plans, generation, readUnder, recent, expired,
                        waitsFor>>
      BY <2>4, Authorised
    <3>2. CASE HandsOver(c)
      BY <3>1, <3>2, OperationConstants
         DEF HandsOver, promptVars, Ledger, Before, Running, Calls, OperationsTypeOK
    <3>3. CASE Aborts(c)
      BY <3>1, <3>3, OperationConstants
         DEF Aborts, promptVars, Ledger, Before, Running, Calls, OperationsTypeOK
    <3> QED
      BY <2>4, <3>2, <3>3, Authorised
  <2>5. CASE ShareLaunched(c)
    BY <2>5, OperationConstants
     DEF Before, Calls, Go, Ledger, OperationsTypeOK, Running, ShareLaunched,
           ledgerVars
  <2>6. CASE ControlLaunched(c)
    BY <2>6, OperationConstants
     DEF Before, Calls, Completed, ControlLaunched, Failed, Go, Ledger,
           OperationsTypeOK, Running, Told, ledgerVars
  <2>7. CASE Note(c)
    BY <2>7, OperationConstants
     DEF Before, Calls, Completed, Go, Ledger, Note, OperationsTypeOK, Running,
           Told, ledgerVars
  <2> QED
    BY <1>3, <2>1, <2>2, <2>3, <2>4, <2>5, <2>6, <2>7 DEF Launch
<1>4. ASSUME NEW s \in Sessions, Person(s) PROVE Ledger'
  BY <1>1, <1>4
   DEF Changing, ClearMcp, Flip, Grant, Granted, Mark, Offer, Person, Revoke,
         RevokeQueue, Revoked, Share, Shared, UnshareEnded, ledgerVars
<1>5. ASSUME NEW s \in Sessions, Exit(s) \/ Closed(s) PROVE Ledger'
  BY <1>1, <1>5 DEF Closed, Exit, Mark, ledgerVars
<1>6. CASE QueueMoves
  BY <1>1, <1>6 DEF QueueMoves, ledgerVars
<1>7. CASE ReplacePlans
  BY <1>1, <1>7 DEF ReplacePlans, ledgerVars
<1>8. CASE UNCHANGED operationVars
  BY <1>1, <1>8 DEF ledgerVars, operationVars
<1> QED
  BY <1>1, <1>2, <1>3, <1>4, <1>5, <1>6, <1>7, <1>8 DEF OperationsNext

LEMMA UniqueStep ==
    OperationsTypeOK /\ Ledger /\ Unique /\ [OperationsNext]_operationVars
        => Unique'
<1> SUFFICES ASSUME OperationsTypeOK, Ledger, Unique, [OperationsNext]_operationVars
             PROVE Unique'
  OBVIOUS
<1>1. CASE UNCHANGED <<recent, expired>>
  BY <1>1 DEF OperationsTypeOK, QueueTypeOK, Unique
<1>2. ASSUME NEW c \in Calls, Call(c) PROVE Unique'
  <2>1. CASE Look(c)
    BY <1>1, <2>1 DEF Duplicate, Go, Look, Told, ledgerVars
  <2>2. CASE Reserve(c)
    BY <2>2
     DEF Known, OperationsTypeOK, QueueTypeOK, Remember, Reserve, Unique,
           ledgerVars
  <2>3. CASE Repeat(c)
    BY <1>1, <2>3 DEF Go, Repeat, Told, ledgerVars
  <2>4. CASE WaitTimesOut(c)
    BY <1>1, <2>4 DEF Go, Told, WaitTimesOut, ledgerVars
  <2>5. CASE Expire(c)
    BY <2>5 DEF Expire, OperationsTypeOK, QueueTypeOK, Unique, ledgerVars
  <2>6. CASE StartPrompt(c)
    BY <1>1, <2>6 DEF Completed, Enter, Go, Put, StartPrompt, Told, ledgerVars
  <2>7. CASE PromptReturns(c)
    BY <1>1, <2>7 DEF Completed, Go, PromptReturns, Told, ledgerVars
  <2> QED
    BY <1>2, <2>1, <2>2, <2>3, <2>4, <2>5, <2>6, <2>7 DEF Call
<1>3. ASSUME NEW c \in Launches, Launch(c) PROVE Unique'
  BY <1>1, <1>3
   DEF Authorise, Changing, CheckLimits, Completed, ControlLaunched, Failed, Flip,
         Go, Launch, Mark, Note, Offer, ShareLaunched, Spawn, SpawnFailed, Told,
         ledgerVars
<1>4. ASSUME NEW s \in Sessions, Person(s) PROVE Unique'
  BY <1>1, <1>4
   DEF Changing, ClearMcp, Flip, Grant, Granted, Mark, Offer, Person, Revoke,
         RevokeQueue, Revoked, Share, Shared, UnshareEnded, ledgerVars
<1>5. ASSUME NEW s \in Sessions, Exit(s) \/ Closed(s) PROVE Unique'
  BY <1>1, <1>5 DEF Closed, Exit, Mark, ledgerVars
<1>6. CASE QueueMoves
  BY <1>1, <1>6 DEF QueueMoves, ledgerVars
<1>7. CASE ReplacePlans
  BY <1>1, <1>7 DEF ReplacePlans, ledgerVars
<1>8. CASE UNCHANGED operationVars
  BY <1>1, <1>8 DEF ledgerVars, operationVars
<1> QED
  BY <1>1, <1>2, <1>3, <1>4, <1>5, <1>6, <1>7, <1>8 DEF OperationsNext

LEMMA HeardStep ==
    OperationsTypeOK /\ Ledger /\ Heard /\ [OperationsNext]_operationVars
        => Heard'
<1> SUFFICES ASSUME OperationsTypeOK, Ledger, Heard, [OperationsNext]_operationVars PROVE Heard'
  OBVIOUS
<1>1. CASE UNCHANGED <<outcome, waitsFor, answer, step>>
  BY <1>1 DEF Before, Heard, Ledger, OperationsTypeOK, Running
<1>2. ASSUME NEW c \in Calls, Call(c) PROVE Heard'
  <2>1. CASE Look(c)
    <3>1. CASE Waits(c) /\ recent' \in {recent, recent \ expired}
      <4> PICK e \in Known(c) :
             /\ step' = [step EXCEPT ![c] = "waiting"]
             /\ waitsFor' = [waitsFor EXCEPT ![c] = e]
             /\ UNCHANGED <<outcome, answer>>
        BY <3>1 DEF Waits
      <4> QED
        BY <2>1, <3>1, Looked, OperationConstants
           DEF Heard, Known, Ledger, Before, Running, OperationsTypeOK
    <3>2. CASE Refused(c) /\ recent' \in {recent, recent \ expired}
      BY <2>1, <3>2, Looked, OperationConstants
         DEF Heard, Refused, Ledger, Before, Running, OperationsTypeOK
    <3>3. CASE Passes(c) /\ recent' \in {recent, recent \ expired}
      BY <2>1, <3>3, Looked, OperationConstants
         DEF Heard, Passes, Ledger, Before, Running, OperationsTypeOK
    <3>4. CASE Starts(c) /\ recent' = (recent \ expired) \cup {c}
      <4> SUFFICES ASSUME NEW d \in Calls, waitsFor'[d] # NoCall
                   PROVE  /\ outcome'[waitsFor[d]] # "none"
                          /\ answer'[d] \in {"ok", "error"} => answer'[d] = outcome'[waitsFor[d]]
        BY <3>4 DEF Heard, Starts
      <4>1. outcome[c] = "none"
        BY <2>1, Looked DEF Ledger, Before
      <4>2. waitsFor[d] \in Calls /\ waitsFor[d] # c
        BY <3>4, <4>1 DEF Heard, Starts, OperationsTypeOK
      <4> QED
        BY <3>4, <4>2 DEF Heard, Starts, OperationsTypeOK
    <3> QED
      BY <2>1, <3>1, <3>2, <3>3, <3>4, Looked
  <2>2. CASE Reserve(c)
    <3>1. CASE Waits(c) /\ recent' \in {recent, recent \ expired}
      <4> PICK e \in Known(c) :
             /\ step' = [step EXCEPT ![c] = "waiting"]
             /\ waitsFor' = [waitsFor EXCEPT ![c] = e]
             /\ UNCHANGED <<outcome, answer>>
        BY <3>1 DEF Waits
      <4> QED
        BY <2>2, <3>1, Looked, OperationConstants
           DEF Heard, Known, Ledger, Before, Running, OperationsTypeOK
    <3>2. CASE Refused(c) /\ recent' \in {recent, recent \ expired}
      BY <2>2, <3>2, Looked, OperationConstants
         DEF Heard, Refused, Ledger, Before, Running, OperationsTypeOK
    <3>3. CASE Passes(c) /\ recent' \in {recent, recent \ expired}
      BY <2>2, <3>3, Looked, OperationConstants
         DEF Heard, Passes, Ledger, Before, Running, OperationsTypeOK
    <3>4. CASE Starts(c) /\ recent' = (recent \ expired) \cup {c}
      <4> SUFFICES ASSUME NEW d \in Calls, waitsFor'[d] # NoCall
                   PROVE  /\ outcome'[waitsFor[d]] # "none"
                          /\ answer'[d] \in {"ok", "error"} => answer'[d] = outcome'[waitsFor[d]]
        BY <3>4 DEF Heard, Starts
      <4>1. outcome[c] = "none"
        BY <2>2, Looked DEF Ledger, Before
      <4>2. waitsFor[d] \in Calls /\ waitsFor[d] # c
        BY <3>4, <4>1 DEF Heard, Starts, OperationsTypeOK
      <4> QED
        BY <3>4, <4>2 DEF Heard, Starts, OperationsTypeOK
    <3> QED
      BY <2>2, <3>1, <3>2, <3>3, <3>4, Looked
  <2>3. CASE Repeat(c)
    BY <2>3, OperationConstants
     DEF Before, Go, Heard, Ledger, OperationsTypeOK, Repeat, Running, Told,
           ledgerVars
  <2>4. CASE WaitTimesOut(c)
    BY <2>4, OperationConstants
     DEF Before, Go, Heard, Ledger, OperationsTypeOK, Running, Told, WaitTimesOut,
           ledgerVars
  <2>5. CASE Expire(c)
    BY <1>1, <2>5 DEF Expire, ledgerVars
  <2>6. CASE StartPrompt(c)
    BY <2>6, OperationConstants
     DEF Before, Completed, Enter, Go, Heard, Ledger, OperationsTypeOK, Running,
           StartPrompt, Told, ledgerVars
  <2>7. CASE PromptReturns(c)
    BY <2>7, OperationConstants
     DEF Before, Completed, Go, Heard, Ledger, OperationsTypeOK, PromptReturns,
           Running, Told, ledgerVars
  <2> QED
    BY <1>2, <2>1, <2>2, <2>3, <2>4, <2>5, <2>6, <2>7 DEF Call
<1>3. ASSUME NEW c \in Launches, Launch(c) PROVE Heard'
  <2>1. CASE CheckLimits(c)
    BY <2>1, OperationConstants
     DEF Before, CheckLimits, Completed, Go, Heard, Ledger, OperationsTypeOK,
           Running, Told, ledgerVars
  <2>2. CASE Spawn(c)
    BY <2>2, OperationConstants
     DEF Before, Go, Heard, Ledger, OperationsTypeOK, Running, Spawn, ledgerVars
  <2>3. CASE SpawnFailed(c)
    BY <2>3, OperationConstants
     DEF Before, Completed, Failed, Go, Heard, Ledger, OperationsTypeOK, Running,
           SpawnFailed, Told, ledgerVars
  <2>4. CASE Authorise(c)
    <3>1. /\ session[c] \in Sessions /\ step[c] = "spawned" /\ changing[session[c]] = "no"
          /\ UNCHANGED <<promptVars, shared, launched, plans, generation, readUnder, recent, expired,
                        waitsFor>>
      BY <2>4, Authorised
    <3>2. CASE HandsOver(c)
      BY <3>1, <3>2, OperationConstants
         DEF HandsOver, promptVars, Heard, Ledger, Before, Running, Calls, OperationsTypeOK
    <3>3. CASE Aborts(c)
      BY <3>1, <3>3, OperationConstants
         DEF Aborts, promptVars, Heard, Ledger, Before, Running, Calls, OperationsTypeOK
    <3> QED
      BY <2>4, <3>2, <3>3, Authorised
  <2>5. CASE ShareLaunched(c)
    BY <2>5, OperationConstants
     DEF Before, Go, Heard, Ledger, OperationsTypeOK, Running, ShareLaunched,
           ledgerVars
  <2>6. CASE ControlLaunched(c)
    BY <2>6, OperationConstants
     DEF Before, Completed, ControlLaunched, Failed, Go, Heard, Ledger,
           OperationsTypeOK, Running, Told, ledgerVars
  <2>7. CASE Note(c)
    BY <2>7, OperationConstants
     DEF Before, Completed, Go, Heard, Ledger, Note, OperationsTypeOK, Running,
           Told, ledgerVars
  <2> QED
    BY <1>3, <2>1, <2>2, <2>3, <2>4, <2>5, <2>6, <2>7 DEF Launch
<1>4. ASSUME NEW s \in Sessions, Person(s) PROVE Heard'
  BY <1>1, <1>4
   DEF Changing, ClearMcp, Flip, Grant, Granted, Mark, Offer, Person, Revoke,
         RevokeQueue, Revoked, Share, Shared, UnshareEnded, ledgerVars
<1>5. ASSUME NEW s \in Sessions, Exit(s) \/ Closed(s) PROVE Heard'
  BY <1>1, <1>5 DEF Closed, Exit, Mark, ledgerVars
<1>6. CASE QueueMoves
  BY <1>1, <1>6 DEF QueueMoves, ledgerVars
<1>7. CASE ReplacePlans
  BY <1>1, <1>7 DEF ReplacePlans, ledgerVars
<1>8. CASE UNCHANGED operationVars
  BY <1>1, <1>8 DEF ledgerVars, operationVars
<1> QED
  BY <1>1, <1>2, <1>3, <1>4, <1>5, <1>6, <1>7, <1>8 DEF OperationsNext

(***************************************************************************)
(* Grants.                                                                 *)
(***************************************************************************)
LEMMA FreshStep ==
    OperationsTypeOK /\ Queued /\ Fresh /\ [OperationsNext]_operationVars
        => Fresh'
<1> SUFFICES ASSUME OperationsTypeOK, Queued, Fresh, [OperationsNext]_operationVars PROVE Fresh'
  OBVIOUS
<1>1. CASE UNCHANGED <<alive, closing, epoch, changing, shared, at, step>>
  BY <1>1 DEF Before, Calls, Fresh, OperationsTypeOK, QueueTypeOK, Queued
<1>2. ASSUME NEW c \in Calls, Call(c) PROVE Fresh'
  <2>1. CASE Look(c)
    BY <2>1, PromptConstants, OperationConstants
     DEF Before, Calls, Duplicate, Fresh, Go, Look, OperationsTypeOK, QueueTypeOK,
           Queued, Told, agentVars, grantVars, ledgerVars, promptVars, queueVars
  <2>2. CASE Reserve(c)
    BY <2>2, PromptConstants, OperationConstants
     DEF Before, Calls, Duplicate, Fresh, Go, OperationsTypeOK, QueueTypeOK,
           Queued, Remember, Reserve, Told, agentVars, grantVars, ledgerVars,
           promptVars, queueVars
  <2>3. CASE Repeat(c)
    BY <2>3, PromptConstants, OperationConstants
     DEF Before, Calls, Fresh, Go, OperationsTypeOK, QueueTypeOK, Queued, Repeat,
           Told, agentVars, grantVars, ledgerVars, promptVars, queueVars
  <2>4. CASE WaitTimesOut(c)
    BY <2>4, PromptConstants, OperationConstants
     DEF Before, Calls, Fresh, Go, OperationsTypeOK, QueueTypeOK, Queued, Told,
           WaitTimesOut, agentVars, grantVars, ledgerVars, promptVars, queueVars
  <2>5. CASE Expire(c)
    BY <1>1, <2>5
     DEF Expire, agentVars, grantVars, ledgerVars, promptVars, queueVars
  <2>6. CASE StartPrompt(c)
    <3>1. CASE shared[session[c]] = "control"
      <4>1. step' = step /\ at' = [at EXCEPT ![c] =
                IF session[c] \in alive /\ (c \in Human \/ Odd(epoch[session[c]]))
                THEN "entered" ELSE "refused"]
        BY <2>6, <3>1 DEF StartPrompt, Enter, Put, ledgerVars
      <4>2. UNCHANGED <<alive, epoch, closing, changing, shared>>
        BY <2>6, <3>1 DEF StartPrompt, Enter, agentVars, grantVars
      <4>3. session[c] \in alive \/ at' = [at EXCEPT ![c] = "refused"]
        BY <4>1, <2>6, PromptConstants DEF StartPrompt, Calls
      <4> QED
        BY <4>1, <4>2, <4>3 DEF Fresh, OperationsTypeOK, QueueTypeOK
    <3>2. CASE shared[session[c]] # "control"
      <4>1. step' = [step EXCEPT ![c] = "done"]
        BY <2>6, <3>2 DEF StartPrompt, Completed, Told, Go
      <4> QED
        BY <2>6, <3>2, <4>1 DEF StartPrompt, Fresh, Before, OperationsTypeOK, agentVars,
                               grantVars, promptVars, queueVars
    <3> QED
      BY <3>1, <3>2
  <2>7. CASE PromptReturns(c)
    BY <2>7, PromptConstants, OperationConstants
     DEF Before, Calls, Completed, Fresh, Go, OperationsTypeOK, PromptReturns,
           QueueTypeOK, Queued, Told, agentVars, grantVars, ledgerVars, promptVars,
           queueVars
  <2> QED
    BY <1>2, <2>1, <2>2, <2>3, <2>4, <2>5, <2>6, <2>7 DEF Call
<1>3. ASSUME NEW c \in Launches, Launch(c) PROVE Fresh'
  <2>1. CASE CheckLimits(c)
    BY <2>1, PromptConstants, OperationConstants
     DEF Before, Calls, CheckLimits, Completed, Fresh, Go, OperationsTypeOK,
           QueueTypeOK, Queued, Told, agentVars, grantVars, ledgerVars, promptVars,
           queueVars
  <2>2. CASE Spawn(c)
    BY <2>2, PromptConstants, OperationConstants
     DEF Before, Calls, Fresh, Go, OperationsTypeOK, QueueTypeOK, Queued, Spawn,
           agentVars, grantVars, ledgerVars, promptVars, queueVars
  <2>3. CASE SpawnFailed(c)
    BY <2>3, PromptConstants, OperationConstants
     DEF Before, Calls, Completed, Failed, Fresh, Go, OperationsTypeOK,
           QueueTypeOK, Queued, SpawnFailed, Told, agentVars, grantVars, ledgerVars,
           promptVars, queueVars
  <2>4. CASE Authorise(c)
    <3>1. /\ session[c] \in Sessions /\ step[c] = "spawned" /\ changing[session[c]] = "no"
          /\ UNCHANGED <<promptVars, shared, launched, plans, generation, readUnder, recent, expired,
                        waitsFor>>
      BY <2>4, Authorised
    <3>2. CASE HandsOver(c)
      BY <3>1, <3>2, OperationConstants
         DEF HandsOver, promptVars, Fresh, Before, OperationsTypeOK, QueueTypeOK, Calls
    <3>3. CASE Aborts(c)
      BY <3>1, <3>3, OperationConstants
         DEF Aborts, promptVars, Fresh, Before, OperationsTypeOK, QueueTypeOK, Calls
    <3> QED
      BY <2>4, <3>2, <3>3, Authorised
  <2>5. CASE ShareLaunched(c)
    BY <2>5, PromptConstants, OperationConstants
     DEF Before, Calls, Fresh, Go, Mark, Offer, OperationsTypeOK, QueueTypeOK,
           Queued, ShareLaunched, agentVars, grantVars, ledgerVars, promptVars,
           queueVars
  <2>6. CASE ControlLaunched(c)
    BY <2>6, PromptConstants, OperationConstants
     DEF Before, Calls, Changing, Completed, ControlLaunched, Failed, Fresh, Go,
           Mark, OperationsTypeOK, QueueTypeOK, Queued, Told, agentVars, grantVars,
           ledgerVars, promptVars, queueVars
  <2>7. CASE Note(c)
    BY <2>7, PromptConstants, OperationConstants
     DEF Before, Calls, Completed, Fresh, Go, Note, OperationsTypeOK, QueueTypeOK,
           Queued, Told, agentVars, grantVars, ledgerVars, promptVars, queueVars
  <2> QED
    BY <1>3, <2>1, <2>2, <2>3, <2>4, <2>5, <2>6, <2>7 DEF Launch
<1>4. ASSUME NEW s \in Sessions, Person(s) PROVE Fresh'
  <2>1. CASE Share(s)
    BY <2>1, PromptConstants, OperationConstants
     DEF Before, Calls, Changing, Fresh, OperationsTypeOK, QueueTypeOK, Queued,
           Share, agentVars, grantVars, ledgerVars, promptVars, queueVars
  <2>2. CASE Shared(s)
    BY <2>2, PromptConstants, OperationConstants
     DEF Before, Calls, Changing, Fresh, Mark, Offer, OperationsTypeOK,
           QueueTypeOK, Queued, Shared, agentVars, grantVars, ledgerVars,
           promptVars, queueVars
  <2>3. CASE Grant(s)
    <3>1. /\ epoch' \in [Sessions -> Nat]
          /\ Odd(epoch'[s]) <=> TRUE
          /\ \A t \in Sessions \ {s} : epoch'[t] = epoch[t]
          /\ (Odd(epoch[s]) <=> TRUE) => epoch' = epoch
      BY <2>3, Flipped DEF Grant, OperationsTypeOK, QueueTypeOK
    <3> QED
      BY <2>3, <3>1, OperationConstants
         DEF Grant, Changing, Fresh, Before, OperationsTypeOK, QueueTypeOK, promptVars,
             ledgerVars
  <2>4. CASE Granted(s)
    BY <2>4, PromptConstants, OperationConstants
     DEF Before, Calls, Changing, Fresh, Granted, Mark, OperationsTypeOK,
           QueueTypeOK, Queued, agentVars, grantVars, ledgerVars, promptVars,
           queueVars
  <2>5. CASE Revoke(s, "revoking")
    <3>1. /\ epoch' \in [Sessions -> Nat]
          /\ Odd(epoch'[s]) <=> FALSE
          /\ \A t \in Sessions \ {s} : epoch'[t] = epoch[t]
          /\ (Odd(epoch[s]) <=> FALSE) => epoch' = epoch
      BY <2>5, Flipped DEF Revoke, OperationsTypeOK, QueueTypeOK
    <3> QED
      BY <2>5, <3>1, OperationConstants
         DEF Revoke, Changing, Fresh, Before, OperationsTypeOK, QueueTypeOK, promptVars,
             ledgerVars
  <2>6. CASE Revoke(s, "unsharing")
    <3>1. /\ epoch' \in [Sessions -> Nat]
          /\ Odd(epoch'[s]) <=> FALSE
          /\ \A t \in Sessions \ {s} : epoch'[t] = epoch[t]
          /\ (Odd(epoch[s]) <=> FALSE) => epoch' = epoch
      BY <2>6, Flipped DEF Revoke, OperationsTypeOK, QueueTypeOK
    <3> QED
      BY <2>6, <3>1, OperationConstants
         DEF Revoke, Changing, Fresh, Before, OperationsTypeOK, QueueTypeOK, promptVars,
             ledgerVars
  <2>7. CASE RevokeQueue(s)
    BY <2>7, PromptConstants, OperationConstants
     DEF Before, Calls, Changing, ClearMcp, Fresh, OperationsTypeOK, QueueTypeOK,
           Queued, RevokeQueue, agentVars, grantVars, ledgerVars, promptVars,
           queueVars
  <2>8. CASE Revoked(s)
    BY <2>8, PromptConstants, OperationConstants
     DEF Before, Calls, Changing, Fresh, Mark, OperationsTypeOK, QueueTypeOK,
           Queued, Revoked, agentVars, grantVars, ledgerVars, promptVars, queueVars
  <2>9. CASE UnshareEnded(s)
    BY <2>9, PromptConstants, OperationConstants
     DEF Before, Calls, Fresh, Mark, OperationsTypeOK, QueueTypeOK, Queued,
           UnshareEnded, agentVars, grantVars, ledgerVars, promptVars, queueVars
  <2> QED
    BY <1>4, <2>1, <2>2, <2>3, <2>4, <2>5, <2>6, <2>7, <2>8, <2>9 DEF Person
<1>5. ASSUME NEW s \in Sessions, Exit(s) \/ Closed(s) PROVE Fresh'
  <2>1. CASE Exit(s)
    BY <2>1, PromptConstants, OperationConstants
     DEF Before, Calls, Exit, Fresh, OperationsTypeOK, QueueTypeOK, Queued,
           agentVars, grantVars, ledgerVars, promptVars, queueVars
  <2>2. CASE Closed(s)
    BY <2>2, PromptConstants, OperationConstants
     DEF Before, Calls, Closed, Fresh, Mark, OperationsTypeOK, QueueTypeOK,
           Queued, agentVars, grantVars, ledgerVars, promptVars, queueVars
  <2> QED
    BY <1>5, <2>1, <2>2
<1>6. CASE QueueMoves
  <2>1. UNCHANGED <<ledgerVars, grantVars, launchVars>>
    BY <1>6 DEF QueueMoves
  <2>2. ASSUME NEW p \in Human, Enter(p) PROVE Fresh'
    BY <2>2, <2>1, PromptConstants, OperationConstants
     DEF Before, Calls, Enter, Fresh, OperationsTypeOK, Put, QueueTypeOK, Queued,
           agentVars, grantVars, ledgerVars, promptVars, queueVars
  <2>3. ASSUME NEW p \in Prompts, TakeInput(p) PROVE Fresh'
    BY <2>3, <2>1, PromptConstants, OperationConstants
     DEF Before, Calls, Fresh, OperationsTypeOK, Put, QueueTypeOK, Queued,
           TakeInput, agentVars, grantVars, ledgerVars, promptVars, queueVars
  <2>4. ASSUME NEW p \in Prompts, Decide(p) PROVE Fresh'
    BY <2>4, <2>1, PromptConstants, OperationConstants
     DEF Before, Calls, Decide, Fresh, Leave, OperationsTypeOK, Put, QueueTypeOK,
           Queued, agentVars, grantVars, ledgerVars, promptVars, queueVars
  <2>5. ASSUME NEW p \in Prompts, Place(p) PROVE Fresh'
    BY <2>5, <2>1, PromptConstants, OperationConstants
     DEF Before, Calls, Fresh, Leave, OperationsTypeOK, Place, Put, QueueTypeOK,
           Queued, agentVars, grantVars, ledgerVars, promptVars, queueVars
  <2>6. ASSUME NEW p \in Prompts, Check(p) PROVE Fresh'
    BY <2>6, <2>1, PromptConstants, OperationConstants
     DEF Before, Calls, Check, Fresh, Leave, OperationsTypeOK, Put, QueueTypeOK,
           Queued, agentVars, grantVars, ledgerVars, promptVars, queueVars
  <2>7. ASSUME NEW p \in Prompts, Type(p) PROVE Fresh'
    BY <2>7, <2>1, PromptConstants, OperationConstants
     DEF Before, Calls, Fresh, Leave, OperationsTypeOK, Put, QueueTypeOK, Queued,
           Type, agentVars, grantVars, ledgerVars, promptVars, queueVars
  <2>8. ASSUME NEW p \in Prompts, TypeFails(p) PROVE Fresh'
    BY <2>8, <2>1, PromptConstants, OperationConstants
     DEF Before, Calls, Fresh, Leave, OperationsTypeOK, Put, QueueTypeOK, Queued,
           TypeFails, agentVars, grantVars, ledgerVars, promptVars, queueVars
  <2>9. ASSUME NEW p \in Prompts, Hand(p) PROVE Fresh'
    BY <2>9, <2>1, PromptConstants, OperationConstants
     DEF Before, Calls, Fresh, Hand, Leave, OperationsTypeOK, Put, QueueTypeOK,
           Queued, Undelivered, agentVars, grantVars, ledgerVars, promptVars,
           queueVars
  <2>10. ASSUME NEW p \in Prompts, TypeQueued(p) PROVE Fresh'
    BY <2>10, <2>1, PromptConstants, OperationConstants
     DEF Before, Calls, Fresh, Leave, OperationsTypeOK, Put, QueueTypeOK, Queued,
           TypeQueued, agentVars, grantVars, ledgerVars, promptVars, queueVars
  <2>11. ASSUME NEW p \in Prompts, TypeQueuedFails(p) PROVE Fresh'
    BY <2>11, <2>1, PromptConstants, OperationConstants
     DEF Before, Calls, Fresh, Leave, OperationsTypeOK, Put, QueueTypeOK, Queued,
           TypeQueuedFails, Undelivered, agentVars, grantVars, ledgerVars,
           promptVars, queueVars
  <2>12. ASSUME NEW p \in Prompts, RemoveQueued(p) PROVE Fresh'
    BY <1>1, <2>12, <2>1
     DEF RemoveQueued, agentVars, grantVars, ledgerVars, promptVars, queueVars
  <2>13. ASSUME NEW s \in Sessions, Deliver(s) PROVE Fresh'
    BY <2>13, <2>1, PromptConstants, OperationConstants
     DEF Before, Calls, Deliver, Fresh, OperationsTypeOK, Put, QueueTypeOK,
           Queued, agentVars, grantVars, ledgerVars, promptVars, queueVars
  <2>14. ASSUME NEW s \in Sessions, Report(s) PROVE Fresh'
    BY <1>1, <2>14, <2>1
     DEF Report, agentVars, grantVars, ledgerVars, promptVars, queueVars
  <2>15. ASSUME NEW s \in Sessions, Keys(s) PROVE Fresh'
    BY <1>1, <2>15, <2>1
     DEF Keys, Works, agentVars, grantVars, ledgerVars, promptVars, queueVars
  <2>16. ASSUME NEW s \in Sessions, ClearQueue(s) PROVE Fresh'
    BY <1>1, <2>16, <2>1
     DEF ClearQueue, agentVars, grantVars, ledgerVars, promptVars, queueVars
  <2> QED
    BY <1>6, <2>2, <2>3, <2>4, <2>5, <2>6, <2>7, <2>8, <2>9, <2>10, <2>11, <2>12,
       <2>13, <2>14, <2>15, <2>16
     DEF QueueMoves, PromptStep, SessionStep
<1>7. CASE ReplacePlans
  BY <1>1, <1>7
   DEF ReplacePlans, agentVars, grantVars, ledgerVars, promptVars, queueVars
<1>8. CASE UNCHANGED operationVars
  BY <1>1, <1>8
   DEF agentVars, grantVars, ledgerVars, operationVars, promptVars, queueVars
<1> QED
  BY <1>1, <1>2, <1>3, <1>4, <1>5, <1>6, <1>7, <1>8 DEF OperationsNext

LEMMA ApartStep ==
    OperationsTypeOK /\ Fresh /\ Apart /\ [OperationsNext]_operationVars
        => Apart'
<1> SUFFICES ASSUME OperationsTypeOK, Fresh, Apart, [OperationsNext]_operationVars PROVE Apart'
  OBVIOUS
<1>1. CASE UNCHANGED <<alive, closing>>
  BY <1>1 DEF Apart, Before, Fresh, OperationsTypeOK, QueueTypeOK
<1>2. ASSUME NEW c \in Calls, Call(c) PROVE Apart'
  BY <1>1, <1>2
   DEF Call, Completed, Duplicate, Enter, Expire, Go, Look, PromptReturns, Put,
         Remember, Repeat, Reserve, StartPrompt, Told, WaitTimesOut, agentVars,
         grantVars, queueVars
<1>3. ASSUME NEW c \in Launches, Launch(c) PROVE Apart'
  <2>1. CASE CheckLimits(c)
    BY <1>1, <2>1
     DEF CheckLimits, Completed, Go, Told, agentVars, grantVars, queueVars
  <2>2. CASE Spawn(c)
    BY <2>2, PromptConstants, OperationConstants
     DEF Apart, Before, Fresh, OperationsTypeOK, QueueTypeOK, Spawn, agentVars,
           grantVars, queueVars
  <2>3. CASE SpawnFailed(c)
    BY <1>1, <2>3
     DEF Completed, Failed, Go, SpawnFailed, Told, agentVars, grantVars, queueVars
  <2>4. CASE Authorise(c)
    BY <2>4, PromptConstants, OperationConstants
     DEF Apart, Authorise, Before, Completed, Failed, Fresh, OperationsTypeOK,
           QueueTypeOK, agentVars, grantVars, queueVars
  <2>5. CASE ShareLaunched(c)
    BY <1>1, <2>5
     DEF Go, Mark, Offer, ShareLaunched, agentVars, grantVars, queueVars
  <2>6. CASE ControlLaunched(c)
    BY <1>1, <2>6
     DEF Changing, Completed, ControlLaunched, Failed, Go, Mark, Told, agentVars,
           grantVars, queueVars
  <2>7. CASE Note(c)
    BY <1>1, <2>7
     DEF Completed, Go, Note, Told, agentVars, grantVars, queueVars
  <2> QED
    BY <1>3, <2>1, <2>2, <2>3, <2>4, <2>5, <2>6, <2>7 DEF Launch
<1>4. ASSUME NEW s \in Sessions, Person(s) PROVE Apart'
  BY <1>1, <1>4
   DEF Changing, ClearMcp, Flip, Grant, Granted, Mark, Offer, Person, Revoke,
         RevokeQueue, Revoked, Share, Shared, UnshareEnded, agentVars, grantVars,
         queueVars
<1>5. ASSUME NEW s \in Sessions, Exit(s) \/ Closed(s) PROVE Apart'
  <2>1. CASE Exit(s)
    BY <2>1, PromptConstants, OperationConstants
     DEF Apart, Before, Exit, Fresh, OperationsTypeOK, QueueTypeOK, agentVars,
           grantVars, queueVars
  <2>2. CASE Closed(s)
    BY <2>2, PromptConstants, OperationConstants
     DEF Apart, Before, Closed, Fresh, OperationsTypeOK, QueueTypeOK, agentVars,
           grantVars, queueVars
  <2> QED
    BY <1>5, <2>1, <2>2
<1>6. CASE QueueMoves
  BY <1>1, <1>6
   DEF Check, ClearQueue, Decide, Deliver, Enter, Hand, Keys, Leave, Place,
         PromptStep, Put, QueueMoves, RemoveQueued, Report, SessionStep, TakeInput,
         Type, TypeFails, TypeQueued, TypeQueuedFails, Undelivered, Unlock, Works,
         Written, agentVars, grantVars, queueVars
<1>7. CASE ReplacePlans
  BY <1>1, <1>7 DEF ReplacePlans, agentVars, grantVars, queueVars
<1>8. CASE UNCHANGED operationVars
  BY <1>1, <1>8 DEF agentVars, grantVars, operationVars, queueVars
<1> QED
  BY <1>1, <1>2, <1>3, <1>4, <1>5, <1>6, <1>7, <1>8 DEF OperationsNext

LEMMA RevocationStep ==
    OperationsTypeOK /\ Queued /\ Carried /\ Fresh /\ Agree /\ RevokedLeaveQueue /\ [OperationsNext]_operationVars
        => RevokedLeaveQueue'
<1> SUFFICES ASSUME OperationsTypeOK, Queued, Carried, Fresh, Agree, RevokedLeaveQueue, [OperationsNext]_operationVars
             PROVE RevokedLeaveQueue'
  OBVIOUS
<1>1. CASE UNCHANGED <<alive, epoch, grant, queue, changing, at>>
  BY <1>1 DEF Matches, OperationsTypeOK, QueueTypeOK, Queued, RevokedLeaveQueue
<1>2. ASSUME NEW c \in Calls, Call(c) PROVE RevokedLeaveQueue'
  <2>1. CASE Look(c)
    BY <1>1, <2>1
     DEF Duplicate, Go, Look, Told, agentVars, grantVars, promptVars, queueVars
  <2>2. CASE Reserve(c)
    BY <1>1, <2>2
     DEF Duplicate, Go, Remember, Reserve, Told, agentVars, grantVars, promptVars,
           queueVars
  <2>3. CASE Repeat(c)
    BY <1>1, <2>3
     DEF Go, Repeat, Told, agentVars, grantVars, promptVars, queueVars
  <2>4. CASE WaitTimesOut(c)
    BY <1>1, <2>4
     DEF Go, Told, WaitTimesOut, agentVars, grantVars, promptVars, queueVars
  <2>5. CASE Expire(c)
    BY <1>1, <2>5 DEF Expire, agentVars, grantVars, promptVars, queueVars
  <2>6. CASE StartPrompt(c)
    BY <2>6, PromptConstants, OperationConstants
     DEF Completed, Enter, Matches, OperationsTypeOK, Put, QueueTypeOK, Queued,
           RevokedLeaveQueue, StartPrompt, agentVars, grantVars, promptVars,
           queueVars
  <2>7. CASE PromptReturns(c)
    BY <1>1, <2>7
     DEF Completed, Go, PromptReturns, Told, agentVars, grantVars, promptVars,
           queueVars
  <2> QED
    BY <1>2, <2>1, <2>2, <2>3, <2>4, <2>5, <2>6, <2>7 DEF Call
<1>3. ASSUME NEW c \in Launches, Launch(c) PROVE RevokedLeaveQueue'
  <2>1. CASE CheckLimits(c)
    BY <1>1, <2>1
     DEF CheckLimits, Completed, Go, Told, agentVars, grantVars, promptVars,
           queueVars
  <2>2. CASE Spawn(c)
    <3>1. \A p \in queue[session[c]] : FALSE
      BY <2>2, OperationConstants DEF Spawn, Fresh, Queued, OperationsTypeOK, QueueTypeOK
    <3> QED
      BY <2>2, <3>1 DEF Spawn, RevokedLeaveQueue, Matches, promptVars, grantVars
  <2>3. CASE SpawnFailed(c)
    BY <1>1, <2>3
     DEF Completed, Failed, Go, SpawnFailed, Told, agentVars, grantVars,
           promptVars, queueVars
  <2>4. CASE Authorise(c)
    <3>1. /\ session[c] \in Sessions /\ step[c] = "spawned" /\ changing[session[c]] = "no"
          /\ UNCHANGED <<promptVars, shared, launched, plans, generation, readUnder, recent, expired,
                        waitsFor>>
      BY <2>4, Authorised
    <3>2. CASE HandsOver(c)
      BY <3>1, <3>2, OddStep, PromptConstants
         DEF HandsOver, promptVars, RevokedLeaveQueue, Matches, Queued, Carried, Before,
             OperationsTypeOK, QueueTypeOK
    <3>3. CASE Aborts(c)
      BY <3>1, <3>3, OddStep, PromptConstants
         DEF Aborts, promptVars, RevokedLeaveQueue, Matches, Queued, Carried, Before,
             OperationsTypeOK, QueueTypeOK
    <3> QED
      BY <2>4, <3>2, <3>3, Authorised
  <2>5. CASE ShareLaunched(c)
    BY <1>1, <2>5
     DEF Go, Mark, Offer, ShareLaunched, agentVars, grantVars, promptVars,
           queueVars
  <2>6. CASE ControlLaunched(c)
    <3>1. changing[session[c]] = "launching"
      BY <2>6 DEF ControlLaunched, Agree
    <3>2. changing' = [changing EXCEPT ![session[c]] = "no"]
      BY <2>6 DEF ControlLaunched, Changing
    <3> QED
      BY <2>6, <3>1, <3>2
         DEF ControlLaunched, RevokedLeaveQueue, Matches, OperationsTypeOK, queueVars, agentVars,
             promptVars
  <2>7. CASE Note(c)
    BY <1>1, <2>7
     DEF Completed, Go, Note, Told, agentVars, grantVars, promptVars, queueVars
  <2> QED
    BY <1>3, <2>1, <2>2, <2>3, <2>4, <2>5, <2>6, <2>7 DEF Launch
<1>4. ASSUME NEW s \in Sessions, Person(s) PROVE RevokedLeaveQueue'
  <2>1. CASE Share(s)
    BY <2>1, PromptConstants, OperationConstants
     DEF Changing, Matches, OperationsTypeOK, QueueTypeOK, Queued,
           RevokedLeaveQueue, Share, agentVars, grantVars, promptVars, queueVars
  <2>2. CASE Shared(s)
    BY <2>2, PromptConstants, OperationConstants
     DEF Changing, Matches, OperationsTypeOK, QueueTypeOK, Queued,
           RevokedLeaveQueue, Shared, agentVars, grantVars, promptVars, queueVars
  <2>3. CASE Grant(s)
    <3>1. /\ \A t \in Sessions \ {s} : epoch'[t] = epoch[t]
          /\ Odd(epoch[s]) => epoch' = epoch
      BY <2>3, Flipped DEF Grant, OperationsTypeOK, QueueTypeOK
    <3>2. /\ changing' = [changing EXCEPT ![s] = "granting"] /\ changing[s] = "no" /\ s \in alive
          /\ UNCHANGED <<alive, queue, grant>>
      BY <2>3 DEF Grant, Changing, promptVars
    <3>3. \A p \in queue[s] : p \in Human \/ Odd(epoch[s])
      BY <3>2, PromptConstants
         DEF RevokedLeaveQueue, Matches, Queued, Carried, OperationsTypeOK, QueueTypeOK
    <3> QED
      BY <3>1, <3>2, <3>3
         DEF RevokedLeaveQueue, Matches, Queued, OperationsTypeOK, QueueTypeOK
  <2>4. CASE Granted(s)
    BY <2>4, PromptConstants, OperationConstants
     DEF Changing, Granted, Matches, OperationsTypeOK, QueueTypeOK, Queued,
           RevokedLeaveQueue, agentVars, grantVars, promptVars, queueVars
  <2>5. CASE Revoke(s, "revoking")
    <3>1. /\ \E how \in {"revoking", "unsharing"} : changing' = [changing EXCEPT ![s] = how]
          /\ UNCHANGED <<alive, queue, grant>>
      BY <2>5 DEF Revoke, Changing, promptVars
    <3>2. \A t \in Sessions \ {s} : epoch'[t] = epoch[t]
      BY <2>5, Flipped DEF Revoke, OperationsTypeOK, QueueTypeOK
    <3> QED
      BY <3>1, <3>2 DEF RevokedLeaveQueue, Matches, Queued, OperationsTypeOK, QueueTypeOK
  <2>6. CASE Revoke(s, "unsharing")
    <3>1. /\ \E how \in {"revoking", "unsharing"} : changing' = [changing EXCEPT ![s] = how]
          /\ UNCHANGED <<alive, queue, grant>>
      BY <2>6 DEF Revoke, Changing, promptVars
    <3>2. \A t \in Sessions \ {s} : epoch'[t] = epoch[t]
      BY <2>6, Flipped DEF Revoke, OperationsTypeOK, QueueTypeOK
    <3> QED
      BY <3>1, <3>2 DEF RevokedLeaveQueue, Matches, Queued, OperationsTypeOK, QueueTypeOK
  <2>7. CASE RevokeQueue(s)
    BY <2>7, PromptConstants, OperationConstants
     DEF Changing, ClearMcp, Matches, OperationsTypeOK, QueueTypeOK, Queued,
           RevokeQueue, RevokedLeaveQueue, agentVars, grantVars, promptVars,
           queueVars
  <2>8. CASE Revoked(s)
    BY <2>8, PromptConstants, OperationConstants
     DEF Changing, Matches, OperationsTypeOK, QueueTypeOK, Queued, Revoked,
           RevokedLeaveQueue, agentVars, grantVars, promptVars, queueVars
  <2>9. CASE UnshareEnded(s)
    BY <1>1, <2>9
     DEF Mark, UnshareEnded, agentVars, grantVars, promptVars, queueVars
  <2> QED
    BY <1>4, <2>1, <2>2, <2>3, <2>4, <2>5, <2>6, <2>7, <2>8, <2>9 DEF Person
<1>5. ASSUME NEW s \in Sessions, Exit(s) \/ Closed(s) PROVE RevokedLeaveQueue'
  <2>1. CASE Exit(s)
    BY <2>1, PromptConstants, OperationConstants
     DEF Exit, Matches, OperationsTypeOK, QueueTypeOK, Queued, RevokedLeaveQueue,
           agentVars, grantVars, promptVars, queueVars
  <2>2. CASE Closed(s)
    BY <1>1, <2>2 DEF Closed, Mark, agentVars, grantVars, promptVars, queueVars
  <2> QED
    BY <1>5, <2>1, <2>2
<1>6. CASE QueueMoves
  <2>1. UNCHANGED <<ledgerVars, grantVars, launchVars>>
    BY <1>6 DEF QueueMoves
  <2>2. ASSUME NEW p \in Human, Enter(p) PROVE RevokedLeaveQueue'
    BY <2>2, <2>1, PromptConstants, OperationConstants
     DEF Enter, Matches, OperationsTypeOK, Put, QueueTypeOK, Queued,
           RevokedLeaveQueue, agentVars, grantVars, promptVars, queueVars
  <2>3. ASSUME NEW p \in Prompts, TakeInput(p) PROVE RevokedLeaveQueue'
    BY <2>3, <2>1, PromptConstants, OperationConstants
     DEF Matches, OperationsTypeOK, Put, QueueTypeOK, Queued, RevokedLeaveQueue,
           TakeInput, agentVars, grantVars, promptVars, queueVars
  <2>4. ASSUME NEW p \in Prompts, Decide(p) PROVE RevokedLeaveQueue'
    BY <2>4, <2>1, PromptConstants, OperationConstants
     DEF Decide, Leave, Matches, OperationsTypeOK, Put, QueueTypeOK, Queued,
           RevokedLeaveQueue, agentVars, grantVars, promptVars, queueVars
  <2>5. ASSUME NEW p \in Prompts, Place(p) PROVE RevokedLeaveQueue'
    BY <2>5, <2>1, PromptConstants, OperationConstants
     DEF Leave, Matches, OperationsTypeOK, Place, Put, QueueTypeOK, Queued,
           RevokedLeaveQueue, agentVars, grantVars, promptVars, queueVars
  <2>6. ASSUME NEW p \in Prompts, Check(p) PROVE RevokedLeaveQueue'
    BY <2>6, <2>1, PromptConstants, OperationConstants
     DEF Check, Leave, Matches, OperationsTypeOK, Put, QueueTypeOK, Queued,
           RevokedLeaveQueue, agentVars, grantVars, promptVars, queueVars
  <2>7. ASSUME NEW p \in Prompts, Type(p) PROVE RevokedLeaveQueue'
    BY <2>7, <2>1, PromptConstants, OperationConstants
     DEF Leave, Matches, OperationsTypeOK, Put, QueueTypeOK, Queued,
           RevokedLeaveQueue, Type, agentVars, grantVars, promptVars, queueVars
  <2>8. ASSUME NEW p \in Prompts, TypeFails(p) PROVE RevokedLeaveQueue'
    BY <2>8, <2>1, PromptConstants, OperationConstants
     DEF Leave, Matches, OperationsTypeOK, Put, QueueTypeOK, Queued,
           RevokedLeaveQueue, TypeFails, agentVars, grantVars, promptVars, queueVars
  <2>9. ASSUME NEW p \in Prompts, Hand(p) PROVE RevokedLeaveQueue'
    BY <2>9, <2>1, PromptConstants, OperationConstants
     DEF Hand, Leave, Matches, OperationsTypeOK, Put, QueueTypeOK, Queued,
           RevokedLeaveQueue, Undelivered, agentVars, grantVars, promptVars,
           queueVars
  <2>10. ASSUME NEW p \in Prompts, TypeQueued(p) PROVE RevokedLeaveQueue'
    BY <2>10, <2>1, PromptConstants, OperationConstants
     DEF Leave, Matches, OperationsTypeOK, Put, QueueTypeOK, Queued,
           RevokedLeaveQueue, TypeQueued, agentVars, grantVars, promptVars,
           queueVars
  <2>11. ASSUME NEW p \in Prompts, TypeQueuedFails(p) PROVE RevokedLeaveQueue'
    BY <2>11, <2>1, PromptConstants, OperationConstants
     DEF Leave, Matches, OperationsTypeOK, Put, QueueTypeOK, Queued,
           RevokedLeaveQueue, TypeQueuedFails, Undelivered, agentVars, grantVars,
           promptVars, queueVars
  <2>12. ASSUME NEW p \in Prompts, RemoveQueued(p) PROVE RevokedLeaveQueue'
    BY <2>12, <2>1, PromptConstants, OperationConstants
     DEF Matches, OperationsTypeOK, QueueTypeOK, Queued, RemoveQueued,
           RevokedLeaveQueue, agentVars, grantVars, promptVars, queueVars
  <2>13. ASSUME NEW s \in Sessions, Deliver(s) PROVE RevokedLeaveQueue'
    BY <2>13, <2>1, PromptConstants, OperationConstants
     DEF Deliver, Matches, OperationsTypeOK, Put, QueueTypeOK, Queued,
           RevokedLeaveQueue, agentVars, grantVars, promptVars, queueVars
  <2>14. ASSUME NEW s \in Sessions, Report(s) PROVE RevokedLeaveQueue'
    BY <1>1, <2>14, <2>1
     DEF Report, agentVars, grantVars, promptVars, queueVars
  <2>15. ASSUME NEW s \in Sessions, Keys(s) PROVE RevokedLeaveQueue'
    BY <1>1, <2>15, <2>1
     DEF Keys, Works, agentVars, grantVars, promptVars, queueVars
  <2>16. ASSUME NEW s \in Sessions, ClearQueue(s) PROVE RevokedLeaveQueue'
    BY <2>16, <2>1, PromptConstants, OperationConstants
     DEF ClearQueue, Matches, OperationsTypeOK, QueueTypeOK, Queued,
           RevokedLeaveQueue, agentVars, grantVars, promptVars, queueVars
  <2> QED
    BY <1>6, <2>2, <2>3, <2>4, <2>5, <2>6, <2>7, <2>8, <2>9, <2>10, <2>11, <2>12,
       <2>13, <2>14, <2>15, <2>16
     DEF QueueMoves, PromptStep, SessionStep
<1>7. CASE ReplacePlans
  BY <1>1, <1>7 DEF ReplacePlans, agentVars, grantVars, promptVars, queueVars
<1>8. CASE UNCHANGED operationVars
  BY <1>1, <1>8 DEF agentVars, grantVars, operationVars, promptVars, queueVars
<1> QED
  BY <1>1, <1>2, <1>3, <1>4, <1>5, <1>6, <1>7, <1>8 DEF OperationsNext

LEMMA AgreeStep ==
    OperationsTypeOK /\ Fresh /\ Apart /\ Agree /\ [OperationsNext]_operationVars
        => Agree'
<1> SUFFICES ASSUME OperationsTypeOK, Fresh, Apart, Agree, [OperationsNext]_operationVars
             PROVE Agree'
  OBVIOUS
<1>1. CASE UNCHANGED <<alive, epoch, shared, changing, step>>
  BY <1>1 DEF Agree, OperationsTypeOK, QueueTypeOK
<1>2. ASSUME NEW c \in Calls, Call(c) PROVE Agree'
  <2>1. CASE Look(c)
    <3>1. \E x \in {"waiting", "done", "reserving", "running"} : step' = [step EXCEPT ![c] = x]
      BY <2>1, Looked DEF Waits, Refused, Passes, Starts
    <3>2. step[c] \in {"idle", "reserving"}
      BY <2>1, Looked
    <3> QED
      BY <2>1, <3>1, <3>2
         DEF Look, Reserve, Agree, OperationsTypeOK, queueVars, agentVars, grantVars
  <2>2. CASE Reserve(c)
    <3>1. \E x \in {"waiting", "done", "reserving", "running"} : step' = [step EXCEPT ![c] = x]
      BY <2>2, Looked DEF Waits, Refused, Passes, Starts
    <3>2. step[c] \in {"idle", "reserving"}
      BY <2>2, Looked
    <3> QED
      BY <2>2, <3>1, <3>2
         DEF Look, Reserve, Agree, OperationsTypeOK, queueVars, agentVars, grantVars
  <2>3. CASE Repeat(c)
    BY <2>3, PromptConstants, OperationConstants
     DEF Agree, Go, OperationsTypeOK, QueueTypeOK, Repeat, Told, agentVars,
           grantVars, ledgerVars, queueVars
  <2>4. CASE WaitTimesOut(c)
    BY <2>4, PromptConstants, OperationConstants
     DEF Agree, Go, OperationsTypeOK, QueueTypeOK, Told, WaitTimesOut, agentVars,
           grantVars, ledgerVars, queueVars
  <2>5. CASE Expire(c)
    BY <1>1, <2>5 DEF Expire, agentVars, grantVars, ledgerVars, queueVars
  <2>6. CASE StartPrompt(c)
    <3>1. /\ step[c] = "running"
          /\ step' = step \/ step' = [step EXCEPT ![c] = "done"]
          /\ UNCHANGED <<alive, epoch, shared, changing>>
      BY <2>6
         DEF StartPrompt, Enter, Completed, Told, Go, agentVars, grantVars, ledgerVars,
             queueVars
    <3> QED
      BY <3>1 DEF Agree, Calls, OperationsTypeOK
  <2>7. CASE PromptReturns(c)
    BY <2>7, PromptConstants, OperationConstants
     DEF Agree, Completed, Go, OperationsTypeOK, PromptReturns, QueueTypeOK, Told,
           agentVars, grantVars, ledgerVars, queueVars
  <2> QED
    BY <1>2, <2>1, <2>2, <2>3, <2>4, <2>5, <2>6, <2>7 DEF Call
<1>3. ASSUME NEW c \in Launches, Launch(c) PROVE Agree'
  <2>1. CASE CheckLimits(c)
    <3>1. /\ step[c] = "running"
          /\ \E x \in {"limited", "done"} : step' = [step EXCEPT ![c] = x]
          /\ UNCHANGED <<alive, epoch, shared, changing>>
      BY <2>1 DEF CheckLimits, Completed, Told, Go, agentVars, grantVars, queueVars
    <3> QED
      BY <3>1 DEF Agree, Calls, OperationsTypeOK
  <2>2. CASE Spawn(c)
    <3>1. /\ epoch[session[c]] = 0 /\ shared[session[c]] = "no" /\ changing[session[c]] = "no"
          /\ step[c] = "limited" /\ session[c] \notin alive
      BY <2>2 DEF Spawn, Fresh
    <3>2. ~Odd(0)
      BY DEF Odd
    <3>3. /\ alive' = alive \cup {session[c]} /\ step' = [step EXCEPT ![c] = "spawned"]
          /\ UNCHANGED <<epoch, shared, changing>>
      BY <2>2 DEF Spawn, Go, grantVars
    <3>4. \A d \in Launches : step'[d] \in {"sharing", "controlling"} =>
              step[d] = step'[d] /\ session[d] # session[c]
      BY <3>1, <3>3, OperationConstants DEF Agree, OperationsTypeOK
    <3> QED
      BY <3>1, <3>2, <3>3, <3>4 DEF Agree
  <2>3. CASE SpawnFailed(c)
    BY <2>3, PromptConstants, OperationConstants
     DEF Agree, Completed, Failed, Go, OperationsTypeOK, QueueTypeOK, SpawnFailed,
           Told, agentVars, grantVars, ledgerVars, queueVars
  <2>4. CASE Authorise(c)
    <3>1. /\ session[c] \in Sessions /\ step[c] = "spawned" /\ changing[session[c]] = "no"
          /\ UNCHANGED <<promptVars, shared, launched, plans, generation, readUnder, recent, expired,
                        waitsFor>>
      BY <2>4, Authorised
    <3>2. CASE HandsOver(c)
      BY <3>1, <3>2, OperationConstants
         DEF HandsOver, promptVars, Agree, Fresh, Before, OperationsTypeOK, QueueTypeOK
    <3>3. CASE Aborts(c)
      BY <3>1, <3>3, OperationConstants
         DEF Aborts, promptVars, Agree, Fresh, Before, OperationsTypeOK, QueueTypeOK
    <3> QED
      BY <2>4, <3>2, <3>3, Authorised
  <2>5. CASE ShareLaunched(c)
    BY <2>5, PromptConstants, OperationConstants
     DEF Agree, Go, Mark, Offer, OperationsTypeOK, QueueTypeOK, ShareLaunched,
           agentVars, grantVars, ledgerVars, queueVars
  <2>6. CASE ControlLaunched(c)
    <3>1. /\ step[c] = "controlling" /\ changing[session[c]] = "launching"
          /\ session[c] \in alive => shared[session[c]] # "no" /\ Odd(epoch[session[c]])
      BY <2>6 DEF ControlLaunched, Agree
    <3>2. /\ changing' = [changing EXCEPT ![session[c]] = "no"]
          /\ \E x \in {"noting", "done"} : step' = [step EXCEPT ![c] = x]
          /\ IF shared[session[c]] # "no" THEN shared' = [shared EXCEPT ![session[c]] = "control"]
                                         ELSE UNCHANGED shared
          /\ UNCHANGED <<alive, epoch>>
      BY <2>6
         DEF ControlLaunched, Failed, Completed, Told, Go, Changing, Mark, queueVars, agentVars
    <3>3. \A d \in Launches : d # c => session[d] # session[c]
      BY OperationConstants
    <3>4. session[c] \in Sessions
      BY OperationConstants
    <3>5. ASSUME NEW s \in alive'
          PROVE  /\ changing'[s] \in {"no", "sharing"} => (shared'[s] = "control" <=> Odd(epoch'[s]))
                 /\ changing'[s] = "granting" => Odd(epoch'[s]) /\ shared'[s] # "no"
                 /\ changing'[s] \in {"revoking", "unsharing", "revoked", "unshared"} =>
                        ~Odd(epoch'[s])
                 /\ changing'[s] = "launching" => Odd(epoch'[s])
      <4>1. CASE s = session[c]
        BY <3>1, <3>2, <3>4, <3>5, <4>1 DEF OperationsTypeOK
      <4>2. CASE s # session[c]
        BY <3>2, <3>5, <4>2 DEF Agree, OperationsTypeOK, QueueTypeOK
      <4> QED
        BY <4>1, <4>2
    <3>6. ASSUME NEW d \in Launches
          PROVE  /\ step'[d] \in {"sharing", "controlling"} => changing'[session[d]] = "launching"
                 /\ step'[d] = "controlling" /\ session[d] \in alive' => shared'[session[d]] # "no"
      <4>1. CASE d = c
        BY <3>2, <4>1 DEF Calls, OperationsTypeOK
      <4>2. CASE d # c
        BY <3>2, <3>3, <4>2, OperationConstants DEF Agree, Calls, OperationsTypeOK
      <4> QED
        BY <4>1, <4>2
    <3> QED
      BY <3>5, <3>6 DEF Agree
  <2>7. CASE Note(c)
    BY <2>7, PromptConstants, OperationConstants
     DEF Agree, Completed, Go, Note, OperationsTypeOK, QueueTypeOK, Told,
           agentVars, grantVars, ledgerVars, queueVars
  <2> QED
    BY <1>3, <2>1, <2>2, <2>3, <2>4, <2>5, <2>6, <2>7 DEF Launch
<1>4. ASSUME NEW s \in Sessions, Person(s) PROVE Agree'
  <2>1. CASE Share(s)
    BY <2>1, PromptConstants, OperationConstants
     DEF Agree, Changing, OperationsTypeOK, QueueTypeOK, Share, agentVars,
           grantVars, ledgerVars, queueVars
  <2>2. CASE Shared(s)
    BY <2>2, PromptConstants, OperationConstants
     DEF Agree, Changing, Mark, Offer, OperationsTypeOK, QueueTypeOK, Shared,
           agentVars, grantVars, ledgerVars, queueVars
  <2>3. CASE Grant(s)
    <3>1. /\ epoch' \in [Sessions -> Nat]
          /\ Odd(epoch'[s]) <=> TRUE
          /\ \A t \in Sessions \ {s} : epoch'[t] = epoch[t]
          /\ (Odd(epoch[s]) <=> TRUE) => epoch' = epoch
      BY <2>3, Flipped DEF Grant, OperationsTypeOK, QueueTypeOK
    <3> QED
      BY <2>3, <3>1
         DEF Grant, Changing, Agree, Before, OperationsTypeOK, QueueTypeOK, promptVars,
             ledgerVars
  <2>4. CASE Granted(s)
    BY <2>4, PromptConstants, OperationConstants
     DEF Agree, Changing, Granted, Mark, OperationsTypeOK, QueueTypeOK, agentVars,
           grantVars, ledgerVars, queueVars
  <2>5. CASE Revoke(s, "revoking")
    <3>1. /\ epoch' \in [Sessions -> Nat]
          /\ Odd(epoch'[s]) <=> FALSE
          /\ \A t \in Sessions \ {s} : epoch'[t] = epoch[t]
          /\ (Odd(epoch[s]) <=> FALSE) => epoch' = epoch
      BY <2>5, Flipped DEF Revoke, OperationsTypeOK, QueueTypeOK
    <3> QED
      BY <2>5, <3>1
         DEF Revoke, Changing, Agree, Before, OperationsTypeOK, QueueTypeOK, promptVars,
             ledgerVars
  <2>6. CASE Revoke(s, "unsharing")
    <3>1. /\ epoch' \in [Sessions -> Nat]
          /\ Odd(epoch'[s]) <=> FALSE
          /\ \A t \in Sessions \ {s} : epoch'[t] = epoch[t]
          /\ (Odd(epoch[s]) <=> FALSE) => epoch' = epoch
      BY <2>6, Flipped DEF Revoke, OperationsTypeOK, QueueTypeOK
    <3> QED
      BY <2>6, <3>1
         DEF Revoke, Changing, Agree, Before, OperationsTypeOK, QueueTypeOK, promptVars,
             ledgerVars
  <2>7. CASE RevokeQueue(s)
    BY <2>7, PromptConstants, OperationConstants
     DEF Agree, Changing, OperationsTypeOK, QueueTypeOK, RevokeQueue, agentVars,
           grantVars, ledgerVars, queueVars
  <2>8. CASE Revoked(s)
    BY <2>8, PromptConstants, OperationConstants
     DEF Agree, Changing, Mark, OperationsTypeOK, QueueTypeOK, Revoked, agentVars,
           grantVars, ledgerVars, queueVars
  <2>9. CASE UnshareEnded(s)
    BY <2>9, PromptConstants, OperationConstants
     DEF Agree, Mark, OperationsTypeOK, QueueTypeOK, UnshareEnded, agentVars,
           grantVars, ledgerVars, queueVars
  <2> QED
    BY <1>4, <2>1, <2>2, <2>3, <2>4, <2>5, <2>6, <2>7, <2>8, <2>9 DEF Person
<1>5. ASSUME NEW s \in Sessions, Exit(s) \/ Closed(s) PROVE Agree'
  <2>1. CASE Exit(s)
    BY <2>1, PromptConstants, OperationConstants
     DEF Agree, Exit, OperationsTypeOK, QueueTypeOK, agentVars, grantVars,
           ledgerVars, queueVars
  <2>2. CASE Closed(s)
    BY <2>2, PromptConstants, OperationConstants
     DEF Agree, Apart, Closed, Mark, OperationsTypeOK, QueueTypeOK, agentVars,
           grantVars, ledgerVars, queueVars
  <2> QED
    BY <1>5, <2>1, <2>2
<1>6. CASE QueueMoves
  BY <1>1, <1>6
   DEF Check, ClearQueue, Decide, Deliver, Enter, Hand, Keys, Leave, Place,
         PromptStep, Put, QueueMoves, RemoveQueued, Report, SessionStep, TakeInput,
         Type, TypeFails, TypeQueued, TypeQueuedFails, Undelivered, Unlock, Works,
         Written, agentVars, grantVars, ledgerVars, queueVars
<1>7. CASE ReplacePlans
  BY <1>1, <1>7 DEF ReplacePlans, agentVars, grantVars, ledgerVars, queueVars
<1>8. CASE UNCHANGED operationVars
  BY <1>1, <1>8 DEF agentVars, grantVars, ledgerVars, operationVars, queueVars
<1> QED
  BY <1>1, <1>2, <1>3, <1>4, <1>5, <1>6, <1>7, <1>8 DEF OperationsNext

LEMMA CurrentStep ==
    OperationsTypeOK /\ LaunchesCurrent /\ [OperationsNext]_operationVars
        => LaunchesCurrent'
<1> SUFFICES ASSUME OperationsTypeOK, LaunchesCurrent, [OperationsNext]_operationVars
             PROVE LaunchesCurrent'
  OBVIOUS
<1>1. CASE UNCHANGED <<step, plans, generation, readUnder>>
  BY <1>1 DEF Calls, LaunchesCurrent, OperationsTypeOK, QueueTypeOK
<1>2. ASSUME NEW c \in Calls, Call(c) PROVE LaunchesCurrent'
  <2>1. CASE Look(c)
    BY <2>1, PromptConstants, OperationConstants
     DEF Calls, Duplicate, Go, LaunchesCurrent, Look, OperationsTypeOK,
           QueueTypeOK, Told, launchVars, ledgerVars
  <2>2. CASE Reserve(c)
    BY <2>2, PromptConstants, OperationConstants
     DEF Calls, Duplicate, Go, LaunchesCurrent, OperationsTypeOK, QueueTypeOK,
           Remember, Reserve, Told, launchVars, ledgerVars
  <2>3. CASE Repeat(c)
    BY <2>3, PromptConstants, OperationConstants
     DEF Calls, Go, LaunchesCurrent, OperationsTypeOK, QueueTypeOK, Repeat, Told,
           launchVars, ledgerVars
  <2>4. CASE WaitTimesOut(c)
    BY <2>4, PromptConstants, OperationConstants
     DEF Calls, Go, LaunchesCurrent, OperationsTypeOK, QueueTypeOK, Told,
           WaitTimesOut, launchVars, ledgerVars
  <2>5. CASE Expire(c)
    BY <1>1, <2>5 DEF Expire, launchVars, ledgerVars
  <2>6. CASE StartPrompt(c)
    BY <2>6, PromptConstants, OperationConstants
     DEF Calls, Completed, Enter, Go, LaunchesCurrent, OperationsTypeOK,
           QueueTypeOK, StartPrompt, Told, launchVars, ledgerVars
  <2>7. CASE PromptReturns(c)
    BY <2>7, PromptConstants, OperationConstants
     DEF Calls, Completed, Go, LaunchesCurrent, OperationsTypeOK, PromptReturns,
           QueueTypeOK, Told, launchVars, ledgerVars
  <2> QED
    BY <1>2, <2>1, <2>2, <2>3, <2>4, <2>5, <2>6, <2>7 DEF Call
<1>3. ASSUME NEW c \in Launches, Launch(c) PROVE LaunchesCurrent'
  <2>1. CASE CheckLimits(c)
    BY <2>1, PromptConstants, OperationConstants
     DEF Calls, CheckLimits, Completed, Go, LaunchesCurrent, OperationsTypeOK,
           QueueTypeOK, Told, launchVars, ledgerVars
  <2>2. CASE Spawn(c)
    BY <2>2, PromptConstants, OperationConstants
     DEF Calls, Go, LaunchesCurrent, OperationsTypeOK, QueueTypeOK, Spawn,
           launchVars, ledgerVars
  <2>3. CASE SpawnFailed(c)
    BY <2>3, PromptConstants, OperationConstants
     DEF Calls, Completed, Failed, Go, LaunchesCurrent, OperationsTypeOK,
           QueueTypeOK, SpawnFailed, Told, launchVars, ledgerVars
  <2>4. CASE Authorise(c)
    <3>1. CASE plans /\ generation = readUnder[c] /\ session[c] \in alive
      <4>1. step' = [step EXCEPT ![c] = "sharing"] /\ UNCHANGED <<plans, generation, readUnder>>
        BY <2>4, <3>1 DEF Authorise, Go
      <4> QED
        BY <3>1, <4>1 DEF LaunchesCurrent, OperationsTypeOK
    <3>2. CASE ~(plans /\ generation = readUnder[c] /\ session[c] \in alive)
      <4>1. step' = [step EXCEPT ![c] = "done"] /\ UNCHANGED <<plans, generation, readUnder>>
        BY <2>4, <3>2 DEF Authorise, Failed, Completed, Told, Go
      <4> QED
        BY <4>1 DEF LaunchesCurrent, OperationsTypeOK
    <3> QED
      BY <3>1, <3>2
  <2>5. CASE ShareLaunched(c)
    BY <2>5, PromptConstants, OperationConstants
     DEF Calls, Go, LaunchesCurrent, OperationsTypeOK, QueueTypeOK, ShareLaunched,
           launchVars, ledgerVars
  <2>6. CASE ControlLaunched(c)
    BY <2>6, PromptConstants, OperationConstants
     DEF Calls, Completed, ControlLaunched, Failed, Go, LaunchesCurrent,
           OperationsTypeOK, QueueTypeOK, Told, launchVars, ledgerVars
  <2>7. CASE Note(c)
    BY <2>7, PromptConstants, OperationConstants
     DEF Calls, Completed, Go, LaunchesCurrent, Note, OperationsTypeOK,
           QueueTypeOK, Told, launchVars, ledgerVars
  <2> QED
    BY <1>3, <2>1, <2>2, <2>3, <2>4, <2>5, <2>6, <2>7 DEF Launch
<1>4. ASSUME NEW s \in Sessions, Person(s) PROVE LaunchesCurrent'
  BY <1>1, <1>4
   DEF Changing, ClearMcp, Flip, Grant, Granted, Mark, Offer, Person, Revoke,
         RevokeQueue, Revoked, Share, Shared, UnshareEnded, launchVars, ledgerVars
<1>5. ASSUME NEW s \in Sessions, Exit(s) \/ Closed(s) PROVE LaunchesCurrent'
  BY <1>1, <1>5 DEF Closed, Exit, Mark, launchVars, ledgerVars
<1>6. CASE QueueMoves
  BY <1>1, <1>6 DEF QueueMoves, launchVars, ledgerVars
<1>7. CASE ReplacePlans
  BY <1>7, PromptConstants, OperationConstants
   DEF Calls, LaunchesCurrent, OperationsTypeOK, PlansLocked, QueueTypeOK,
         ReplacePlans, launchVars, ledgerVars
<1>8. CASE UNCHANGED operationVars
  BY <1>1, <1>8 DEF launchVars, ledgerVars, operationVars
<1> QED
  BY <1>1, <1>2, <1>3, <1>4, <1>5, <1>6, <1>7, <1>8 DEF OperationsNext

LEMMA HoldingStep == OperationsTypeOK /\ Holding /\ [OperationsNext]_operationVars => Holding'
<1> SUFFICES ASSUME OperationsTypeOK, Holding, [OperationsNext]_operationVars PROVE Holding'
  OBVIOUS
<1>1. CASE UNCHANGED <<step, launching>>
  BY <1>1 DEF Calls, Holding, OperationsTypeOK, QueueTypeOK, Running
<1>2. ASSUME NEW c \in Calls, Call(c) PROVE Holding'
  <2>1. CASE Look(c)
    BY <2>1, PromptConstants, OperationConstants
     DEF Calls, Duplicate, Go, Holding, Look, OperationsTypeOK, QueueTypeOK,
           Running, Told, launchVars, ledgerVars
  <2>2. CASE Reserve(c)
    BY <2>2, PromptConstants, OperationConstants
     DEF Calls, Duplicate, Go, Holding, OperationsTypeOK, QueueTypeOK, Remember,
           Reserve, Running, Told, launchVars, ledgerVars
  <2>3. CASE Repeat(c)
    BY <2>3, PromptConstants, OperationConstants
     DEF Calls, Go, Holding, OperationsTypeOK, QueueTypeOK, Repeat, Running, Told,
           launchVars, ledgerVars
  <2>4. CASE WaitTimesOut(c)
    BY <2>4, PromptConstants, OperationConstants
     DEF Calls, Go, Holding, OperationsTypeOK, QueueTypeOK, Running, Told,
           WaitTimesOut, launchVars, ledgerVars
  <2>5. CASE Expire(c)
    BY <1>1, <2>5 DEF Expire, launchVars, ledgerVars
  <2>6. CASE StartPrompt(c)
    BY <2>6, PromptConstants, OperationConstants
     DEF Calls, Completed, Enter, Go, Holding, OperationsTypeOK, QueueTypeOK,
           Running, StartPrompt, Told, launchVars, ledgerVars
  <2>7. CASE PromptReturns(c)
    BY <2>7, PromptConstants, OperationConstants
     DEF Calls, Completed, Go, Holding, OperationsTypeOK, PromptReturns,
           QueueTypeOK, Running, Told, launchVars, ledgerVars
  <2> QED
    BY <1>2, <2>1, <2>2, <2>3, <2>4, <2>5, <2>6, <2>7 DEF Call
<1>3. ASSUME NEW c \in Launches, Launch(c) PROVE Holding'
  <2>1. CASE CheckLimits(c)
    BY <2>1, PromptConstants, OperationConstants
     DEF Calls, CheckLimits, Completed, Go, Holding, OperationsTypeOK,
           QueueTypeOK, Running, Told, launchVars, ledgerVars
  <2>2. CASE Spawn(c)
    BY <2>2, PromptConstants, OperationConstants
     DEF Calls, Go, Holding, OperationsTypeOK, QueueTypeOK, Running, Spawn,
           launchVars, ledgerVars
  <2>3. CASE SpawnFailed(c)
    BY <2>3, PromptConstants, OperationConstants
     DEF Calls, Completed, Failed, Go, Holding, OperationsTypeOK, QueueTypeOK,
           Running, SpawnFailed, Told, launchVars, ledgerVars
  <2>4. CASE Authorise(c)
    <3>1. /\ session[c] \in Sessions /\ step[c] = "spawned" /\ changing[session[c]] = "no"
          /\ UNCHANGED <<promptVars, shared, launched, plans, generation, readUnder, recent, expired,
                        waitsFor>>
      BY <2>4, Authorised
    <3>2. CASE HandsOver(c)
      BY <3>1, <3>2, OperationConstants
         DEF HandsOver, promptVars, Holding, Running, Calls, OperationsTypeOK
    <3>3. CASE Aborts(c)
      BY <3>1, <3>3, OperationConstants
         DEF Aborts, promptVars, Holding, Running, Calls, OperationsTypeOK
    <3> QED
      BY <2>4, <3>2, <3>3, Authorised
  <2>5. CASE ShareLaunched(c)
    BY <2>5, PromptConstants, OperationConstants
     DEF Calls, Go, Holding, OperationsTypeOK, QueueTypeOK, Running,
           ShareLaunched, launchVars, ledgerVars
  <2>6. CASE ControlLaunched(c)
    BY <2>6, PromptConstants, OperationConstants
     DEF Calls, Completed, ControlLaunched, Failed, Go, Holding, OperationsTypeOK,
           QueueTypeOK, Running, Told, launchVars, ledgerVars
  <2>7. CASE Note(c)
    BY <2>7, PromptConstants, OperationConstants
     DEF Calls, Completed, Go, Holding, Note, OperationsTypeOK, QueueTypeOK,
           Running, Told, launchVars, ledgerVars
  <2> QED
    BY <1>3, <2>1, <2>2, <2>3, <2>4, <2>5, <2>6, <2>7 DEF Launch
<1>4. ASSUME NEW s \in Sessions, Person(s) PROVE Holding'
  BY <1>1, <1>4
   DEF Changing, ClearMcp, Flip, Grant, Granted, Mark, Offer, Person, Revoke,
         RevokeQueue, Revoked, Share, Shared, UnshareEnded, launchVars, ledgerVars
<1>5. ASSUME NEW s \in Sessions, Exit(s) \/ Closed(s) PROVE Holding'
  BY <1>1, <1>5 DEF Closed, Exit, Mark, launchVars, ledgerVars
<1>6. CASE QueueMoves
  BY <1>1, <1>6 DEF QueueMoves, launchVars, ledgerVars
<1>7. CASE ReplacePlans
  BY <1>1, <1>7 DEF ReplacePlans, launchVars, ledgerVars
<1>8. CASE UNCHANGED operationVars
  BY <1>1, <1>8 DEF launchVars, ledgerVars, operationVars
<1> QED
  BY <1>1, <1>2, <1>3, <1>4, <1>5, <1>6, <1>7, <1>8 DEF OperationsNext

LEMMA CountingStep ==
    OperationsTypeOK /\ Fresh /\ Apart /\ Agree /\ Holding /\ Counting /\ [OperationsNext]_operationVars
        => Counting'
<1> SUFFICES ASSUME OperationsTypeOK, Fresh, Apart, Agree, Holding, Counting, [OperationsNext]_operationVars
             PROVE Counting'
  OBVIOUS
<1>1. CASE UNCHANGED <<alive, launched, launching>>
  BY <1>1 DEF Calls, Counting, OperationsTypeOK, QueueTypeOK
<1>2. ASSUME NEW c \in Calls, Call(c) PROVE Counting'
  BY <1>1, <1>2
   DEF Call, Completed, Duplicate, Enter, Expire, Go, Look, PromptReturns, Put,
         Remember, Repeat, Reserve, StartPrompt, Told, WaitTimesOut, agentVars,
         launchVars, queueVars
<1>3. ASSUME NEW c \in Launches, Launch(c) PROVE Counting'
  <2>1. CASE CheckLimits(c)
    BY <2>1, PromptConstants, OperationConstants
     DEF Calls, CheckLimits, Completed, Counting, OperationsTypeOK, QueueTypeOK,
           agentVars, launchVars, queueVars
  <2>2. CASE Spawn(c)
    <3>1. launching = c /\ alive' = alive \cup {session[c]} /\ UNCHANGED <<launched, launching>>
      BY <2>2 DEF Spawn, Holding, Running, launchVars
    <3> QED
      BY <3>1, OperationConstants DEF Counting
  <2>3. CASE SpawnFailed(c)
    <3>1. launching = c /\ session[c] \notin alive /\ UNCHANGED <<alive, launched>>
      BY <2>3 DEF SpawnFailed, Fresh, Holding, Running, queueVars, agentVars
    <3> QED
      BY <3>1, OperationConstants DEF Counting
  <2>4. CASE Authorise(c)
    <3>1. /\ session[c] \in Sessions /\ step[c] = "spawned" /\ changing[session[c]] = "no"
          /\ UNCHANGED <<promptVars, shared, launched, plans, generation, readUnder, recent, expired,
                        waitsFor>>
      BY <2>4, Authorised
    <3>2. CASE HandsOver(c)
      BY <3>1, <3>2, OperationConstants
         DEF HandsOver, promptVars, Counting, Holding, Running, Calls, OperationsTypeOK,
             QueueTypeOK
    <3>3. CASE Aborts(c)
      BY <3>1, <3>3, OperationConstants
         DEF Aborts, promptVars, Counting, Holding, Running, Calls, OperationsTypeOK,
             QueueTypeOK
    <3> QED
      BY <2>4, <3>2, <3>3, Authorised
  <2>5. CASE ShareLaunched(c)
    BY <1>1, <2>5
     DEF Go, Mark, Offer, ShareLaunched, agentVars, launchVars, queueVars
  <2>6. CASE ControlLaunched(c)
    <3>1. launching = c /\ (session[c] \in alive => shared[session[c]] # "no")
      BY <2>6 DEF ControlLaunched, Agree, Holding, Running
    <3>2. UNCHANGED <<alive, launched>> /\ (shared[session[c]] # "no" => launching' = launching)
      BY <2>6 DEF ControlLaunched, Failed, queueVars, agentVars
    <3> QED
      BY <3>1, <3>2, OperationConstants DEF Counting
  <2>7. CASE Note(c)
    <3>1. launching = c /\ launched' = launched \cup {session[c]} /\ UNCHANGED alive
      BY <2>7 DEF Note, Holding, Running, queueVars, agentVars
    <3> QED
      BY <3>1, OperationConstants DEF Counting
  <2> QED
    BY <1>3, <2>1, <2>2, <2>3, <2>4, <2>5, <2>6, <2>7 DEF Launch
<1>4. ASSUME NEW s \in Sessions, Person(s) PROVE Counting'
  BY <1>1, <1>4
   DEF Changing, ClearMcp, Flip, Grant, Granted, Mark, Offer, Person, Revoke,
         RevokeQueue, Revoked, Share, Shared, UnshareEnded, agentVars, launchVars,
         queueVars
<1>5. ASSUME NEW s \in Sessions, Exit(s) \/ Closed(s) PROVE Counting'
  <2>1. CASE Exit(s)
    BY <2>1, PromptConstants, OperationConstants
     DEF Calls, Counting, Exit, OperationsTypeOK, QueueTypeOK, agentVars,
           launchVars, queueVars
  <2>2. CASE Closed(s)
    <3>1. launched' = launched \ {s} /\ UNCHANGED <<alive, launching>> /\ s \notin alive
      BY <2>2 DEF Closed, Apart, queueVars, agentVars
    <3> QED
      BY <3>1 DEF Counting
  <2> QED
    BY <1>5, <2>1, <2>2
<1>6. CASE QueueMoves
  BY <1>1, <1>6
   DEF Check, ClearQueue, Decide, Deliver, Enter, Hand, Keys, Leave, Place,
         PromptStep, Put, QueueMoves, RemoveQueued, Report, SessionStep, TakeInput,
         Type, TypeFails, TypeQueued, TypeQueuedFails, Undelivered, Unlock, Works,
         Written, agentVars, launchVars, queueVars
<1>7. CASE ReplacePlans
  BY <1>1, <1>7 DEF ReplacePlans, agentVars, launchVars, queueVars
<1>8. CASE UNCHANGED operationVars
  BY <1>1, <1>8 DEF agentVars, launchVars, operationVars, queueVars
<1> QED
  BY <1>1, <1>2, <1>3, <1>4, <1>5, <1>6, <1>7, <1>8 DEF OperationsNext

(***************************************************************************)
(* The number of sessions observers launched.                              *)
(***************************************************************************)
LEMMA OthersFinite ==
    ASSUME NEW d
    PROVE  /\ IsFiniteSet(Others(d)) /\ Cardinality(Others(d)) \in Nat
           /\ IsFiniteSet({c \in Launches : session[c] \in alive})
           /\ Cardinality({c \in Launches : session[c] \in alive}) \in Nat
<1>1. Others(d) \in SUBSET Launches /\ {c \in Launches : session[c] \in alive} \in SUBSET Launches
  BY DEF Others
<1> QED
  BY <1>1, OperationConstants, FS_Subset, FS_CardinalityType

LEMMA OthersShrink ==
    ASSUME Limit, alive' \subseteq alive, launching' \in {launching, NoCall}
    PROVE  Limit'
<1>1. Cardinality({c \in Launches : session[c] \in alive'})
          <= Cardinality({c \in Launches : session[c] \in alive})
  <2>1. {c \in Launches : session[c] \in alive'} \in SUBSET {c \in Launches : session[c] \in alive}
    OBVIOUS
  <2> QED
    BY <2>1, OthersFinite, FS_Subset
<1>2. Cardinality({c \in Launches : session[c] \in alive'}) \in Nat
  <2>1. {c \in Launches : session[c] \in alive'} \in SUBSET Launches
    OBVIOUS
  <2> QED
    BY <2>1, OperationConstants, FS_Subset, FS_CardinalityType
<1>3. LaunchesCounted'
  BY <1>1, <1>2, OthersFinite, OperationConstants DEF Limit, LaunchesCounted
<1>4. ASSUME launching' # NoCall PROVE Cardinality(Others(launching)') < MaxLaunched
  <2>1. Others(launching)' \in SUBSET Others(launching) /\ launching' = launching
    BY <1>4 DEF Others
  <2>2. Cardinality(Others(launching)') <= Cardinality(Others(launching))
    BY <2>1, OthersFinite, FS_Subset
  <2>3. Cardinality(Others(launching)') \in Nat
    BY <2>1, OthersFinite, FS_Subset, FS_CardinalityType
  <2>4. Cardinality(Others(launching)) < MaxLaunched
    BY <1>4, <2>1 DEF Limit
  <2>5. Cardinality(Others(launching)) \in Nat
    BY OthersFinite
  <2> QED
    BY <2>2, <2>3, <2>4, <2>5, OperationConstants
<1> QED
  BY <1>3, <1>4 DEF Limit

\* Every live launch is counted when nobody holds the lock.
LEMMA OthersCounted ==
    ASSUME Counting, launching = NoCall, NEW d \in Launches
    PROVE  Cardinality(Others(d)) <= Cardinality(launched \cap alive)
<1> DEFINE f == [c \in Others(d) |-> session[c]]
<1>1. f \in [Others(d) -> launched \cap alive]
  BY OperationConstants DEF Counting, Others, Calls
<1>2. \A x, y \in Others(d) : f[x] = f[y] => x = y
  BY OperationConstants DEF Others
<1>3. f \in Injection(Others(d), launched \cap alive)
  BY <1>1, <1>2 DEF Injection, IsInjective
<1>4. IsFiniteSet(launched \cap alive)
  <2> DEFINE T == {session[c] : c \in Launches}
             g == [c \in Launches |-> session[c]]
  <2>1. g \in Surjection(Launches, T)
    BY DEF Surjection
  <2>2. IsFiniteSet(T)
    BY <2>1, OperationConstants, FS_Surjection
  <2> QED
    BY <2>2, FS_Subset DEF Counting
<1> QED
  BY <1>3, <1>4, FS_Injection

LEMMA LaunchedFinite == ASSUME Counting PROVE Cardinality(launched \cap alive) \in Nat
<1> DEFINE T == {session[c] : c \in Launches}
           g == [c \in Launches |-> session[c]]
<1>1. g \in Surjection(Launches, T)
  BY DEF Surjection
<1>2. IsFiniteSet(T)
  BY <1>1, OperationConstants, FS_Surjection
<1> QED
  BY <1>2, FS_Subset, FS_CardinalityType DEF Counting

LEMMA LimitStep ==
    OperationsTypeOK /\ Holding /\ Counting /\ Limit /\ [OperationsNext]_operationVars
        => Limit'
<1> SUFFICES ASSUME OperationsTypeOK, Holding, Counting, Limit, [OperationsNext]_operationVars
             PROVE Limit'
  OBVIOUS
<1>1. CASE UNCHANGED <<alive, launching>>
  BY <1>1 DEF LaunchesCounted, Limit, Others
<1>2. ASSUME NEW c \in Calls, Call(c) PROVE Limit'
  BY <1>1, <1>2
   DEF Call, Completed, Duplicate, Enter, Expire, Go, Look, PromptReturns, Put,
         Remember, Repeat, Reserve, StartPrompt, Told, WaitTimesOut, agentVars,
         launchVars, queueVars
<1>3. ASSUME NEW c \in Launches, Launch(c) PROVE Limit'
  <2>1. CASE CheckLimits(c)
    <3>1. CASE launching' = NoCall
      <4>1. UNCHANGED alive
        BY <2>1 DEF CheckLimits, queueVars, agentVars
      <4> QED
        BY <3>1, <4>1, OthersShrink
    <3>2. CASE launching' # NoCall
      <4>1. launching = NoCall /\ launching' = c /\ c \in Launches /\ UNCHANGED alive
            /\ Cardinality(launched \cap alive) < MaxLaunched
        BY <2>1, <3>2 DEF CheckLimits, queueVars, agentVars
      <4>2. Cardinality(Others(c)) <= Cardinality(launched \cap alive)
        BY <4>1, OthersCounted
      <4>3. Cardinality(Others(c)) \in Nat /\ Cardinality(launched \cap alive) \in Nat
        BY OthersFinite, LaunchedFinite
      <4>4. Cardinality(Others(c)) < MaxLaunched
        BY <4>1, <4>2, <4>3, OperationConstants
      <4> QED
        BY <4>1, <4>4 DEF Limit, LaunchesCounted, Others
    <3> QED
      BY <3>1, <3>2
  <2>2. CASE Spawn(c)
    <3>1. launching = c /\ alive' = alive \cup {session[c]} /\ launching' = launching /\ c # NoCall
      BY <2>2, OperationConstants DEF Spawn, Holding, Running, launchVars, Calls
    <3>2. /\ Others(c)' = Others(c)
          /\ {d \in Launches : session[d] \in alive'} = Others(c) \cup {c}
          /\ c \notin Others(c)
      BY <3>1, OperationConstants DEF Others
    <3>3. Cardinality(Others(c) \cup {c}) = Cardinality(Others(c)) + 1
      BY <3>2, OthersFinite, FS_AddElement
    <3>4. Cardinality(Others(c)) < MaxLaunched
      BY <3>1 DEF Limit
    <3>5. LaunchesCounted'
      <4>1. Cardinality(Others(c)) \in Nat
        BY OthersFinite
      <4>2. Cardinality(Others(c)) + 1 <= MaxLaunched
        BY <3>4, <4>1, OperationConstants
      <4> QED
        BY <3>2, <3>3, <4>2 DEF LaunchesCounted
    <3> QED
      BY <3>1, <3>2, <3>4, <3>5 DEF Limit
  <2>3. CASE SpawnFailed(c)
    <3>1. alive' \subseteq alive /\ launching' \in {launching, NoCall}
      BY <2>3 DEF SpawnFailed, Failed, queueVars, agentVars
    <3> QED
      BY <3>1, OthersShrink
  <2>4. CASE Authorise(c)
    <3>1. alive' \subseteq alive /\ launching' \in {launching, NoCall}
      BY <2>4, Authorised DEF HandsOver, Aborts
    <3> QED
      BY <3>1, OthersShrink
  <2>5. CASE ShareLaunched(c)
    BY <1>1, <2>5
     DEF Go, Mark, Offer, ShareLaunched, agentVars, launchVars, queueVars
  <2>6. CASE ControlLaunched(c)
    <3>1. alive' \subseteq alive /\ launching' \in {launching, NoCall}
      BY <2>6 DEF ControlLaunched, Failed, queueVars, agentVars
    <3> QED
      BY <3>1, OthersShrink
  <2>7. CASE Note(c)
    <3>1. alive' \subseteq alive /\ launching' \in {launching, NoCall}
      BY <2>7 DEF Note, queueVars, agentVars
    <3> QED
      BY <3>1, OthersShrink
  <2> QED
    BY <1>3, <2>1, <2>2, <2>3, <2>4, <2>5, <2>6, <2>7 DEF Launch
<1>4. ASSUME NEW s \in Sessions, Person(s) PROVE Limit'
  BY <1>1, <1>4
   DEF Changing, ClearMcp, Flip, Grant, Granted, Mark, Offer, Person, Revoke,
         RevokeQueue, Revoked, Share, Shared, UnshareEnded, agentVars, launchVars,
         queueVars
<1>5. ASSUME NEW s \in Sessions, Exit(s) \/ Closed(s) PROVE Limit'
  <2>1. CASE Exit(s)
    <3>1. alive' \subseteq alive /\ launching' \in {launching, NoCall}
      BY <2>1 DEF Exit, launchVars
    <3> QED
      BY <3>1, OthersShrink
  <2>2. CASE Closed(s)
    BY <1>1, <2>2 DEF Closed, Mark, agentVars, launchVars, queueVars
  <2> QED
    BY <1>5, <2>1, <2>2
<1>6. CASE QueueMoves
  BY <1>1, <1>6
   DEF Check, ClearQueue, Decide, Deliver, Enter, Hand, Keys, Leave, Place,
         PromptStep, Put, QueueMoves, RemoveQueued, Report, SessionStep, TakeInput,
         Type, TypeFails, TypeQueued, TypeQueuedFails, Undelivered, Unlock, Works,
         Written, agentVars, launchVars, queueVars
<1>7. CASE ReplacePlans
  BY <1>1, <1>7 DEF ReplacePlans, agentVars, launchVars, queueVars
<1>8. CASE UNCHANGED operationVars
  BY <1>1, <1>8 DEF agentVars, launchVars, operationVars, queueVars
<1> QED
  BY <1>1, <1>2, <1>3, <1>4, <1>5, <1>6, <1>7, <1>8 DEF OperationsNext

(***************************************************************************)
(* Theorems.                                                               *)
(***************************************************************************)
LEMMA Start == OperationsInit => IInv
<1> SUFFICES ASSUME OperationsInit PROVE IInv
  OBVIOUS
<1>1. ~Odd(0)
  BY DEF Odd
<1>2. OperationsTypeOK
  BY PromptConstants, OperationConstants
     DEF OperationsInit, QueueInit, OperationsTypeOK, QueueTypeOK, Stages, Sending, Steps, Changes,
         Outcomes, Answers
<1>3. Queued /\ WrittenOnce /\ Carried
  BY PromptConstants DEF OperationsInit, QueueInit, Queued, WrittenOnce, Carried
<1>4. Ledger /\ Unique /\ Heard
  BY DEF OperationsInit, Ledger, Unique, Heard, Before, Running, Calls
<1>5. Fresh /\ Apart /\ RevokedLeaveQueue /\ Agree /\ LaunchesCurrent
  BY <1>1, OperationConstants
     DEF OperationsInit, QueueInit, Fresh, Apart, RevokedLeaveQueue, Agree, LaunchesCurrent, Calls
<1>6. Holding /\ Counting
  BY OperationConstants DEF OperationsInit, Holding, Counting, Running, Calls
<1>7. Limit
  <2>1. {c \in Launches : session[c] \in alive} = {}
    BY DEF OperationsInit
  <2> QED
    BY <2>1, FS_EmptySet, OperationConstants DEF OperationsInit, Limit, LaunchesCounted
<1> QED
  BY <1>2, <1>3, <1>4, <1>5, <1>6, <1>7 DEF IInv

LEMMA IInvInvariant == OperationsSpec => []IInv
<1>1. IInv /\ [OperationsNext]_operationVars => IInv'
  BY TypeStep, QueuedStep, WrittenStep, CarriedStep, LedgerStep, UniqueStep, HeardStep, FreshStep,
     ApartStep, RevocationStep, AgreeStep, CurrentStep, HoldingStep, CountingStep, LimitStep
     DEF IInv
<1> QED
  BY Start, <1>1, PTL DEF OperationsSpec

\* Every variable of McpOperations keeps its type.
THEOREM OperationsTypeCorrect == OperationsSpec => []OperationsTypeOK
<1>1. IInv => OperationsTypeOK
  BY DEF IInv
<1> QED
  BY <1>1, IInvInvariant, PTL

\* The ledger of the daemon (server.rs, once and reserve) runs a request once as long
\* as it may be retried, a prompt is written once (agent.rs, deliver_next_queued marks
\* one whose delivery failed), and a retry is told the first outcome.
THEOREM OnceCorrect == OperationsSpec => []AtMostOnce
<1>1. IInv => AtMostOnce
  <2> SUFFICES ASSUME IInv PROVE AtMostOnce
    OBVIOUS
  <2>1. ASSUME NEW c \in Calls, NEW d \in Calls, c # d, requestId[c] = requestId[d],
               outcome[c] # "none", outcome[d] # "none"
        PROVE  c \in expired \/ d \in expired
    BY <2>1 DEF IInv, Ledger, Unique
  <2>2. ASSUME NEW p \in Prompts
        PROVE  /\ writes[p] <= 1
               /\ p \in queue[session[p]] /\ p \notin unsure => writes[p] = 0
    <3>1. writes[p] \in Nat /\ writes[p] <= 1
      BY DEF IInv, OperationsTypeOK, QueueTypeOK, WrittenOnce
    <3>2. ASSUME p \in queue[session[p]], p \notin unsure PROVE writes[p] # 1
      BY <3>2, PromptConstants DEF IInv, WrittenOnce, Queued
    <3> QED
      BY <3>1, <3>2
  <2> QED
    BY <2>1, <2>2 DEF AtMostOnce, IInv, Heard
<1> QED
  BY <1>1, IInvInvariant, PTL

\* What a person took back stays back: no prompt of the queue outlives its grant, the
\* daemon and the agent agree on who has control, and no launch passes the plans that
\* were replaced or the limit (server.rs, set_control, finish_plan_launch, launch_plan).
THEOREM GrantsCorrect == OperationsSpec => []GrantsHonoured
<1>1. IInv => GrantsHonoured
  BY DEF IInv, GrantsHonoured, GrantsAgree, Agree, Limit
<1> QED
  BY <1>1, IInvInvariant, PTL

(***************************************************************************)
(* A grant that was taken back.                                            *)
(***************************************************************************)

\* A prompt of an observer whose grant was taken back since it was sent, unless its write
\* has passed the last look at the grant.  Control may have been given again meanwhile.
Stale(p) ==
    /\ p \notin Human /\ at[p] \notin {"idle", "typing", "delivering"}
    /\ grant[p] < epoch[session[p]]

StaleKept == \A p \in Prompts : Stale(p) => Stale(p)' /\ writes'[p] = writes[p]

LEMMA FlipGrows ==
    ASSUME epoch \in [Sessions -> Nat], NEW s \in Sessions, NEW e \in BOOLEAN, Flip(s, e)
    PROVE  epoch' \in [Sessions -> Nat] /\ \A t \in Sessions : epoch[t] <= epoch'[t]
<1>1. epoch' = [epoch EXCEPT ![s] = epoch[s] + 1] \/ epoch' = [epoch EXCEPT ![s] = epoch[s]]
  BY DEF Flip
<1> QED
  BY <1>1

\* An epoch never comes back.
LEMMA EpochGrows ==
    OperationsTypeOK /\ [OperationsNext]_operationVars
        => epoch' \in [Sessions -> Nat] /\ \A s \in Sessions : epoch[s] <= epoch'[s]
<1> SUFFICES ASSUME OperationsTypeOK, [OperationsNext]_operationVars
             PROVE  epoch' \in [Sessions -> Nat] /\ \A s \in Sessions : epoch[s] <= epoch'[s]
  OBVIOUS
<1>0. epoch \in [Sessions -> Nat]
  BY DEF OperationsTypeOK, QueueTypeOK
<1>1. CASE UNCHANGED epoch
  BY <1>0, <1>1
<1>2. ASSUME NEW s \in Sessions, NEW e \in BOOLEAN, Flip(s, e)
      PROVE  epoch' \in [Sessions -> Nat] /\ \A t \in Sessions : epoch[t] <= epoch'[t]
  BY <1>0, <1>2, FlipGrows
<1>3. ASSUME NEW c \in Calls, Call(c) PROVE UNCHANGED epoch
  BY <1>3 DEF Call, Look, Reserve, Repeat, WaitTimesOut, Expire, StartPrompt, PromptReturns,
              Enter, queueVars, agentVars
<1>4. ASSUME NEW c \in Launches, Launch(c)
      PROVE  UNCHANGED epoch \/ Flip(session[c], TRUE)
  BY <1>4 DEF Launch, CheckLimits, Spawn, SpawnFailed, Authorise, ShareLaunched, ControlLaunched,
              Note, queueVars, agentVars
<1>5. ASSUME NEW s \in Sessions, Person(s)
      PROVE  UNCHANGED epoch \/ Flip(s, TRUE) \/ Flip(s, FALSE)
  BY <1>5 DEF Person, Share, Shared, Grant, Granted, Revoke, RevokeQueue, Revoked, UnshareEnded,
              queueVars, agentVars
<1>6. ASSUME NEW s \in Sessions, Exit(s) \/ Closed(s) PROVE UNCHANGED epoch
  BY <1>6 DEF Exit, Closed, queueVars, agentVars
<1>7. CASE QueueMoves
  <2>1. UNCHANGED epoch
    BY <1>7 DEF QueueMoves, Enter, PromptStep, TakeInput, Decide, Place, Check, Type, TypeFails,
                Hand, TypeQueued, TypeQueuedFails, RemoveQueued, SessionStep, Deliver, Report, Keys,
                ClearQueue, agentVars
  <2> QED
    BY <1>1, <2>1
<1>8. CASE ReplacePlans
  BY <1>1, <1>8 DEF ReplacePlans, queueVars, agentVars
<1>9. CASE UNCHANGED operationVars
  BY <1>1, <1>9 DEF operationVars, queueVars, agentVars
<1> QED
  BY <1>1, <1>2, <1>3, <1>4, <1>5, <1>6, <1>7, <1>8, <1>9, OperationConstants DEF OperationsNext

LEMMA StaleStep ==
    OperationsTypeOK /\ [OperationsNext]_operationVars => StaleKept
<1> SUFFICES ASSUME OperationsTypeOK, [OperationsNext]_operationVars
             PROVE StaleKept
  OBVIOUS
<1>0. epoch' \in [Sessions -> Nat] /\ \A s \in Sessions : epoch[s] <= epoch'[s]
  BY EpochGrows
<1>1. CASE UNCHANGED <<at, grant, writes>>
  BY <1>0, <1>1, PromptConstants DEF StaleKept, Stale, OperationsTypeOK, QueueTypeOK
<1>2. ASSUME NEW c \in Calls, Call(c) PROVE StaleKept
  <2>1. CASE Look(c)
    BY <1>1, <2>1 DEF Duplicate, Go, Look, Told, promptVars, queueVars
  <2>2. CASE Reserve(c)
    BY <1>1, <2>2
     DEF Duplicate, Go, Remember, Reserve, Told, promptVars, queueVars
  <2>3. CASE Repeat(c)
    BY <1>1, <2>3 DEF Go, Repeat, Told, promptVars, queueVars
  <2>4. CASE WaitTimesOut(c)
    BY <1>1, <2>4 DEF Go, Told, WaitTimesOut, promptVars, queueVars
  <2>5. CASE Expire(c)
    BY <1>1, <2>5 DEF Expire, promptVars, queueVars
  <2>6. CASE StartPrompt(c)
    BY <1>0, <2>6, PromptConstants, OperationConstants
     DEF Completed, Enter, Matches, OperationsTypeOK, Put, QueueTypeOK, Stale,
         StaleKept, StartPrompt, Written, agentVars, promptVars, queueVars
  <2>7. CASE PromptReturns(c)
    BY <1>1, <2>7 DEF Completed, Go, PromptReturns, Told, promptVars, queueVars
  <2> QED
    BY <1>2, <2>1, <2>2, <2>3, <2>4, <2>5, <2>6, <2>7 DEF Call
<1>3. ASSUME NEW c \in Launches, Launch(c) PROVE StaleKept
  BY <1>1, <1>3
   DEF Authorise, Changing, CheckLimits, Completed, ControlLaunched, Failed, Flip,
         Go, Launch, Mark, Note, Offer, ShareLaunched, Spawn, SpawnFailed, Told,
         promptVars, queueVars
<1>4. ASSUME NEW s \in Sessions, Person(s) PROVE StaleKept
  BY <1>1, <1>4
   DEF Changing, ClearMcp, Flip, Grant, Granted, Mark, Offer, Person, Revoke,
         RevokeQueue, Revoked, Share, Shared, UnshareEnded, promptVars, queueVars
<1>5. ASSUME NEW s \in Sessions, Exit(s) \/ Closed(s) PROVE StaleKept
  BY <1>1, <1>5 DEF Closed, Exit, Mark, promptVars, queueVars
<1>6. CASE QueueMoves
  <2>1. UNCHANGED <<ledgerVars, grantVars, launchVars>>
    BY <1>6 DEF QueueMoves
  <2>2. ASSUME NEW p \in Human, Enter(p) PROVE StaleKept
    BY <1>0, <2>2, <2>1, PromptConstants, OperationConstants
     DEF Enter, Matches, OperationsTypeOK, Put, QueueTypeOK, Stale, StaleKept, Written,
         agentVars, promptVars, queueVars
  <2>3. ASSUME NEW p \in Prompts, TakeInput(p) PROVE StaleKept
    BY <1>0, <2>3, <2>1, PromptConstants, OperationConstants
     DEF Matches, OperationsTypeOK, Put, QueueTypeOK, Stale, StaleKept, TakeInput,
         Written, agentVars, promptVars, queueVars
  <2>4. ASSUME NEW p \in Prompts, Decide(p) PROVE StaleKept
    BY <1>0, <2>4, <2>1, PromptConstants, OperationConstants
     DEF Decide, Leave, Matches, OperationsTypeOK, Put, QueueTypeOK, Stale, StaleKept,
         Written, agentVars, promptVars, queueVars
  <2>5. ASSUME NEW p \in Prompts, Place(p) PROVE StaleKept
    BY <1>0, <2>5, <2>1, PromptConstants, OperationConstants
     DEF Leave, Matches, OperationsTypeOK, Place, Put, QueueTypeOK, Stale, StaleKept,
         Written, agentVars, promptVars, queueVars
  <2>6. ASSUME NEW p \in Prompts, Check(p) PROVE StaleKept
    BY <1>0, <2>6, <2>1, PromptConstants, OperationConstants
     DEF Check, Leave, Matches, OperationsTypeOK, Put, QueueTypeOK, Stale, StaleKept,
         Written, agentVars, promptVars, queueVars
  <2>7. ASSUME NEW p \in Prompts, Type(p) PROVE StaleKept
    BY <1>0, <2>7, <2>1, PromptConstants, OperationConstants
     DEF Leave, Matches, OperationsTypeOK, Put, QueueTypeOK, Stale, StaleKept, Type,
         Written, agentVars, promptVars, queueVars
  <2>8. ASSUME NEW p \in Prompts, TypeFails(p) PROVE StaleKept
    BY <1>0, <2>8, <2>1, PromptConstants, OperationConstants
     DEF Leave, Matches, OperationsTypeOK, Put, QueueTypeOK, Stale, StaleKept,
         TypeFails, Written, agentVars, promptVars, queueVars
  <2>9. ASSUME NEW p \in Prompts, Hand(p) PROVE StaleKept
    BY <1>0, <2>9, <2>1, PromptConstants, OperationConstants
     DEF Hand, Leave, Matches, OperationsTypeOK, Put, QueueTypeOK, Stale, StaleKept,
         Undelivered, Written, agentVars, promptVars, queueVars
  <2>10. ASSUME NEW p \in Prompts, TypeQueued(p) PROVE StaleKept
    BY <1>0, <2>10, <2>1, PromptConstants, OperationConstants
     DEF Leave, Matches, OperationsTypeOK, Put, QueueTypeOK, Stale, StaleKept,
         TypeQueued, Written, agentVars, promptVars, queueVars
  <2>11. ASSUME NEW p \in Prompts, TypeQueuedFails(p) PROVE StaleKept
    BY <1>0, <2>11, <2>1, PromptConstants, OperationConstants
     DEF Leave, Matches, OperationsTypeOK, Put, QueueTypeOK, Stale, StaleKept,
         TypeQueuedFails, Undelivered, Written, agentVars, promptVars, queueVars
  <2>12. ASSUME NEW p \in Prompts, RemoveQueued(p) PROVE StaleKept
    BY <1>1, <2>12, <2>1 DEF RemoveQueued, promptVars, queueVars
  <2>13. ASSUME NEW s \in Sessions, Deliver(s) PROVE StaleKept
    BY <1>0, <2>13, <2>1, PromptConstants, OperationConstants
     DEF Deliver, Matches, OperationsTypeOK, Put, QueueTypeOK, Stale, StaleKept,
         Written, agentVars, promptVars, queueVars
  <2>14. ASSUME NEW s \in Sessions, Report(s) PROVE StaleKept
    BY <1>1, <2>14, <2>1 DEF Report, promptVars, queueVars
  <2>15. ASSUME NEW s \in Sessions, Keys(s) PROVE StaleKept
    BY <1>1, <2>15, <2>1 DEF Keys, Works, promptVars, queueVars
  <2>16. ASSUME NEW s \in Sessions, ClearQueue(s) PROVE StaleKept
    BY <1>1, <2>16, <2>1 DEF ClearQueue, promptVars, queueVars
  <2> QED
    BY <1>6, <2>2, <2>3, <2>4, <2>5, <2>6, <2>7, <2>8, <2>9, <2>10, <2>11, <2>12,
       <2>13, <2>14, <2>15, <2>16
     DEF QueueMoves, PromptStep, SessionStep
<1>7. CASE ReplacePlans
  BY <1>1, <1>7 DEF ReplacePlans, promptVars, queueVars
<1>8. CASE UNCHANGED operationVars
  BY <1>1, <1>8 DEF operationVars, promptVars, queueVars
<1> QED
  BY <1>1, <1>2, <1>3, <1>4, <1>5, <1>6, <1>7, <1>8 DEF OperationsNext

\* Whatever waits, is placed, popped, refused or failed, and however often control is taken
\* and given: a prompt sent under a grant that was taken back is never written any more, unless
\* its thread had made its last look before (agent.rs, the epoch a prompt carries).
THEOREM StaleNeverWritten == OperationsSpec => [][StaleKept]_operationVars
<1>1. IInv /\ [OperationsNext]_operationVars => StaleKept
  BY StaleStep DEF IInv
<1> QED
  BY <1>1, IInvInvariant, PTL DEF OperationsSpec

(***************************************************************************)
(* The promise of OnceLedger.                                              *)
(***************************************************************************)

\* Only what has an outcome is forgotten.
Forgotten == \A c \in expired : outcome[c] \in {"ok", "error"}

\* A prompt was sent by a call that runs, and none that failed is on its way.
Settled ==
    \A c \in Calls \ Launches :
        /\ at[c] # "idle" => outcome[c] # "none"
        /\ outcome[c] = "error" => at[c] \in {"idle", "refused"}

\* A session is that of a launch that succeeded, or of one that is not over.
LeavesNone ==
    \A c \in Launches : session[c] \in alive => outcome[c] = "ok" \/ step[c] \in Spawned

LEMMA OutcomesStay ==
    ASSUME OperationsTypeOK, Ledger, [OperationsNext]_operationVars, NEW d \in Calls
    PROVE  /\ outcome[d] # "none" => outcome'[d] # "none"
           /\ outcome[d] \in {"ok", "error"} => outcome'[d] = outcome[d]
<1>1. CASE UNCHANGED outcome
  BY <1>1
<1>2. ASSUME NEW c \in Calls, NEW what \in {"ok", "error"}, step[c] \in Running,
             outcome' = [outcome EXCEPT ![c] = what]
      PROVE  /\ outcome[d] # "none" => outcome'[d] # "none"
             /\ outcome[d] \in {"ok", "error"} => outcome'[d] = outcome[d]
  BY <1>2 DEF Ledger, OperationsTypeOK
<1>3. ASSUME NEW c \in Calls, Look(c) \/ Reserve(c)
      PROVE  /\ outcome[d] # "none" => outcome'[d] # "none"
             /\ outcome[d] \in {"ok", "error"} => outcome'[d] = outcome[d]
  <2>1. step[c] \in {"idle", "reserving"} /\ (UNCHANGED outcome \/ Starts(c))
    BY <1>3, Looked DEF Waits, Refused, Passes
  <2>2. outcome[c] = "none"
    BY <2>1 DEF Ledger, Before
  <2> QED
    BY <2>1, <2>2 DEF Starts, OperationsTypeOK
<1>4. ASSUME NEW c \in Calls, Repeat(c) \/ WaitTimesOut(c) \/ Expire(c) PROVE UNCHANGED outcome
  BY <1>4 DEF Repeat, WaitTimesOut, Expire
<1>5. ASSUME NEW c \in Calls, StartPrompt(c) \/ PromptReturns(c)
      PROVE  \/ UNCHANGED outcome
             \/ \E what \in {"ok", "error"} :
                    step[c] \in Running /\ outcome' = [outcome EXCEPT ![c] = what]
  BY <1>5 DEF StartPrompt, PromptReturns, Completed, Running, ledgerVars
<1>6. ASSUME NEW c \in Launches, Launch(c)
      PROVE  \/ UNCHANGED outcome
             \/ \E what \in {"ok", "error"} :
                    step[c] \in Running /\ outcome' = [outcome EXCEPT ![c] = what]
  BY <1>6 DEF Launch, CheckLimits, Spawn, SpawnFailed, Authorise, ShareLaunched,
              ControlLaunched, Note, Failed, Completed, Running, ledgerVars
<1>7. ASSUME NEW s \in Sessions, Person(s) \/ Exit(s) \/ Closed(s) PROVE UNCHANGED outcome
  BY <1>7 DEF Person, Share, Shared, Grant, Granted, Revoke, RevokeQueue, Revoked,
              UnshareEnded, Exit, Closed, ledgerVars
<1>8. CASE QueueMoves \/ ReplacePlans \/ UNCHANGED operationVars
  BY <1>1, <1>8 DEF QueueMoves, ReplacePlans, operationVars, ledgerVars
<1> QED
  BY <1>1, <1>2, <1>3, <1>4, <1>5, <1>6, <1>7, <1>8 DEF OperationsNext, Call, Calls

LEMMA ForgottenStep ==
    OperationsTypeOK /\ Ledger /\ Forgotten /\ [OperationsNext]_operationVars => Forgotten'
<1> SUFFICES ASSUME OperationsTypeOK, Ledger, Forgotten, [OperationsNext]_operationVars,
                    NEW d \in expired'
             PROVE  outcome'[d] \in {"ok", "error"}
  BY DEF Forgotten
<1>1. d \in expired \/ \E c \in Calls : Expire(c) /\ d = c
  BY DEF OperationsNext, Call, Look, Reserve, Repeat, WaitTimesOut, Expire, StartPrompt,
         PromptReturns, Launch, CheckLimits, Spawn, SpawnFailed, Authorise, ShareLaunched,
         ControlLaunched, Note, Failed, Completed, Person, Share, Shared, Grant, Granted, Revoke,
         RevokeQueue, Revoked, UnshareEnded, Exit, Closed, QueueMoves, ReplacePlans,
         operationVars, ledgerVars
<1>2. CASE d \in expired
  <2>1. d \in Calls
    BY <1>2 DEF OperationsTypeOK
  <2> QED
    BY <1>2, <2>1, OutcomesStay DEF Forgotten
<1>3. CASE \E c \in Calls : Expire(c) /\ d = c
  BY <1>3 DEF Expire
<1> QED
  BY <1>1, <1>2, <1>3

LEMMA SettledStep ==
    OperationsTypeOK /\ Queued /\ Ledger /\ Settled /\ [OperationsNext]_operationVars => Settled'
<1> SUFFICES ASSUME OperationsTypeOK, Queued, Ledger, Settled, [OperationsNext]_operationVars
             PROVE Settled'
  OBVIOUS
<1>1. ASSUME UNCHANGED at,
             \A d \in Calls \ Launches : outcome'[d] = "error" => outcome[d] = "error"
      PROVE  Settled'
  BY <1>1, OutcomesStay DEF Settled
<1>2. ASSUME NEW c \in Calls, Look(c) \/ Reserve(c) PROVE Settled'
  <2>1. UNCHANGED outcome \/ Starts(c)
    BY <1>2, Looked DEF Waits, Refused, Passes
  <2>2. UNCHANGED at
    BY <1>2 DEF Look, Reserve, queueVars, promptVars
  <2> QED
    BY <1>1, <2>1, <2>2 DEF Starts, OperationsTypeOK
<1>3. ASSUME NEW c \in Calls, Repeat(c) \/ WaitTimesOut(c) \/ Expire(c) PROVE Settled'
  BY <1>1, <1>3 DEF Repeat, WaitTimesOut, Expire, queueVars, promptVars
<1>4. ASSUME NEW c \in Calls, StartPrompt(c) PROVE Settled'
  <2>1. c \in Calls \ Launches /\ at[c] = "idle" /\ outcome[c] = "pending"
    BY <1>4 DEF StartPrompt, Ledger, Running
  <2>2. \/ UNCHANGED outcome /\ \E stage \in Stages : at' = [at EXCEPT ![c] = stage]
        \/ UNCHANGED at /\ outcome' = [outcome EXCEPT ![c] = "error"]
    BY <1>4 DEF StartPrompt, Enter, Put, Completed, Stages, Sending, ledgerVars, queueVars,
                promptVars
  <2>3. c \in Prompts
    BY <2>1 DEF Calls
  <2>4. CASE UNCHANGED outcome /\ \E stage \in Stages : at' = [at EXCEPT ![c] = stage]
    BY <2>1, <2>3, <2>4 DEF Settled, OperationsTypeOK, QueueTypeOK
  <2>5. CASE UNCHANGED at /\ outcome' = [outcome EXCEPT ![c] = "error"]
    BY <2>1, <2>5 DEF Settled, OperationsTypeOK
  <2> QED
    BY <2>2, <2>4, <2>5
<1>5. ASSUME NEW c \in Calls, PromptReturns(c) PROVE Settled'
  <2>1. /\ UNCHANGED at /\ at[c] # "idle"
        /\ \/ at[c] = "refused" /\ outcome' = [outcome EXCEPT ![c] = "error"]
           \/ outcome' = [outcome EXCEPT ![c] = "ok"]
    BY <1>5 DEF PromptReturns, Completed, queueVars, promptVars
  <2> QED
    BY <2>1, OutcomesStay DEF Settled, OperationsTypeOK
<1>6. ASSUME NEW c \in Launches, Launch(c) PROVE Settled'
  <2>1. UNCHANGED at
    BY <1>6 DEF Launch, CheckLimits, Spawn, SpawnFailed, Authorise, ShareLaunched,
                ControlLaunched, Note, queueVars, promptVars
  <2>2. UNCHANGED outcome \/ \E what \in {"ok", "error"} : outcome' = [outcome EXCEPT ![c] = what]
    BY <1>6 DEF Launch, CheckLimits, Spawn, SpawnFailed, Authorise, ShareLaunched,
                ControlLaunched, Note, Failed, Completed
  <2> QED
    BY <1>1, <2>1, <2>2 DEF OperationsTypeOK
<1>7. ASSUME NEW s \in Sessions, Person(s) \/ Exit(s) \/ Closed(s) PROVE Settled'
  BY <1>1, <1>7 DEF Person, Share, Shared, Grant, Granted, Revoke, RevokeQueue, Revoked,
              UnshareEnded, Exit, Closed, ClearMcp, ledgerVars, queueVars, promptVars
<1>8. CASE QueueMoves
  <2>1. UNCHANGED outcome
    BY <1>8 DEF QueueMoves, ledgerVars
  <2>2. \/ UNCHANGED at
        \/ \E p \in Human, stage \in Stages : at' = [at EXCEPT ![p] = stage]
        \/ \E p \in Prompts, stage \in Stages :
              at[p] \notin {"idle", "refused"} /\ at' = [at EXCEPT ![p] = stage]
    <3>1. ASSUME NEW p \in Human, Enter(p)
          PROVE  \E stage \in Stages : at' = [at EXCEPT ![p] = stage]
      BY <3>1 DEF Enter, Put, Stages, Sending
    <3>2. ASSUME NEW p \in Prompts, PromptStep(p)
          PROVE  \/ UNCHANGED at
                 \/ \E stage \in Stages :
                       at[p] \notin {"idle", "refused"} /\ at' = [at EXCEPT ![p] = stage]
      <4>1. CASE TakeInput(p) \/ Decide(p) \/ Place(p) \/ Check(p) \/ Type(p) \/ TypeFails(p)
        BY <4>1 DEF TakeInput, Decide, Place, Check, Type, TypeFails, Leave, Put, Stages, Sending
      <4>2. CASE Hand(p) \/ TypeQueued(p) \/ TypeQueuedFails(p) \/ RemoveQueued(p)
        BY <4>2 DEF Hand, TypeQueued, TypeQueuedFails, RemoveQueued, Undelivered, Leave, Put,
                    Stages, Sending
      <4> QED
        BY <3>2, <4>1, <4>2 DEF PromptStep
    <3>3. ASSUME NEW s \in Sessions, SessionStep(s)
          PROVE  \/ UNCHANGED at
                 \/ \E p \in Prompts, stage \in Stages :
                       at[p] \notin {"idle", "refused"} /\ at' = [at EXCEPT ![p] = stage]
      <4>1. CASE Deliver(s)
        <5>1. UNCHANGED at \/ \E p \in queue[s] : at' = [at EXCEPT ![p] = "popped"]
          BY <4>1 DEF Deliver, Put
        <5>2. \A p \in queue[s] : p \in Prompts /\ at[p] = "queued"
          BY DEF Queued, OperationsTypeOK, QueueTypeOK
        <5> QED
          BY <5>1, <5>2 DEF Stages
      <4>2. CASE Report(s) \/ Keys(s) \/ ClearQueue(s)
        BY <4>2 DEF Report, Keys, ClearQueue, promptVars
      <4> QED
        BY <3>3, <4>1, <4>2 DEF SessionStep
    <3> QED
      BY <1>8, <3>1, <3>2, <3>3 DEF QueueMoves
  <2>3. CASE UNCHANGED at
    BY <1>1, <2>1, <2>3
  <2>4. ASSUME NEW p \in Human, NEW stage \in Stages, at' = [at EXCEPT ![p] = stage]
        PROVE  Settled'
    <3>1. \A d \in Calls \ Launches : d \in Prompts /\ d # p
      BY DEF Calls
    <3> QED
      BY <2>1, <2>4, <3>1 DEF Settled, OperationsTypeOK, QueueTypeOK
  <2>5. ASSUME NEW p \in Prompts, NEW stage \in Stages, at[p] \notin {"idle", "refused"},
               at' = [at EXCEPT ![p] = stage]
        PROVE  Settled'
    <3>1. \A d \in Calls \ Launches : d \in Prompts
      BY DEF Calls
    <3> QED
      BY <2>1, <2>5, <3>1 DEF Settled, OperationsTypeOK, QueueTypeOK
  <2> QED
    BY <2>2, <2>3, <2>4, <2>5
<1>9. CASE ReplacePlans \/ UNCHANGED operationVars
  BY <1>1, <1>9 DEF ReplacePlans, operationVars, ledgerVars, queueVars, promptVars
<1> QED
  BY <1>2, <1>3, <1>4, <1>5, <1>6, <1>7, <1>8, <1>9 DEF OperationsNext, Call

LEMMA LeavesStep ==
    OperationsTypeOK /\ Ledger /\ Agree /\ LeavesNone /\ [OperationsNext]_operationVars
        => LeavesNone'
<1> SUFFICES ASSUME OperationsTypeOK, Ledger, Agree, LeavesNone,
                    [OperationsNext]_operationVars, NEW d \in Launches, session[d] \in alive'
             PROVE  outcome'[d] = "ok" \/ step'[d] \in Spawned
  BY DEF LeavesNone
<1>0. d \in Calls /\ session[d] \in Sessions
  BY OperationConstants DEF Calls
<1>1. ASSUME session[d] \in alive, step[d] \in Spawned => step'[d] \in Spawned
      PROVE  outcome'[d] = "ok" \/ step'[d] \in Spawned
  BY <1>0, <1>1, OutcomesStay DEF LeavesNone
<1>2. ASSUME NEW c \in Calls, Call(c) PROVE outcome'[d] = "ok" \/ step'[d] \in Spawned
  <2>1. UNCHANGED alive
    BY <1>2 DEF Call, Look, Reserve, Repeat, WaitTimesOut, Expire, StartPrompt, PromptReturns,
                Enter, queueVars, agentVars
  <2>2. \/ UNCHANGED step
        \/ \E where \in Steps :
              /\ step[c] \in Before \cup {"running"}
              /\ step' = [step EXCEPT ![c] = where]
    BY <1>2 DEF Call, Look, Duplicate, Reserve, Remember, Repeat, WaitTimesOut, Expire,
                StartPrompt, PromptReturns, Completed, Told, Go, Before, Steps, ledgerVars
  <2> QED
    BY <1>0, <1>1, <2>1, <2>2 DEF Before, Spawned, OperationsTypeOK
<1>3. ASSUME NEW c \in Launches, Launch(c) PROVE outcome'[d] = "ok" \/ step'[d] \in Spawned
  <2>0. c \in Calls
    BY DEF Calls
  <2>1. CASE CheckLimits(c) \/ SpawnFailed(c)
    <3>1. UNCHANGED alive /\ step[c] \notin Spawned
          /\ \E where \in Steps : step' = [step EXCEPT ![c] = where]
      BY <2>1 DEF CheckLimits, SpawnFailed, Failed, Completed, Told, Go, Spawned, Steps,
                  queueVars, agentVars
    <3> QED
      BY <1>0, <1>1, <2>0, <3>1 DEF OperationsTypeOK
  <2>2. CASE Spawn(c)
    <3>1. /\ alive' = alive \cup {session[c]}
          /\ step' = [step EXCEPT ![c] = "spawned"]
      BY <2>2 DEF Spawn, Go
    <3>2. CASE d = c
      BY <1>0, <3>1, <3>2 DEF Spawned, OperationsTypeOK
    <3>3. CASE d # c
      BY <1>0, <1>1, <3>1, <3>3, OperationConstants DEF OperationsTypeOK
    <3> QED
      BY <3>2, <3>3
  <2>3. CASE Authorise(c)
    <3>1. CASE HandsOver(c)
      BY <1>0, <1>1, <2>0, <3>1 DEF HandsOver, Spawned, OperationsTypeOK
    <3>2. CASE Aborts(c)
      <4>1. alive' = alive \ {session[c]} /\ step' = [step EXCEPT ![c] = "done"]
        BY <3>2 DEF Aborts
      <4> QED
        BY <1>0, <1>1, <4>1 DEF OperationsTypeOK
    <3> QED
      BY <2>3, <3>1, <3>2, Authorised
  <2>4. CASE ShareLaunched(c)
    <3>1. UNCHANGED alive /\ step' = [step EXCEPT ![c] = "controlling"]
      BY <2>4 DEF ShareLaunched, Go, queueVars, agentVars
    <3> QED
      BY <1>0, <1>1, <2>0, <3>1 DEF Spawned, OperationsTypeOK
  <2>5. CASE ControlLaunched(c)
    <3>1. CASE shared[session[c]] # "no"
      <4>1. UNCHANGED alive /\ step' = [step EXCEPT ![c] = "noting"]
        BY <2>5, <3>1 DEF ControlLaunched, Go, queueVars, agentVars
      <4> QED
        BY <1>0, <1>1, <2>0, <4>1 DEF Spawned, OperationsTypeOK
    <3>2. CASE shared[session[c]] = "no"
      <4>1. UNCHANGED alive /\ step' = [step EXCEPT ![c] = "done"] /\ step[c] = "controlling"
        BY <2>5, <3>2 DEF ControlLaunched, Failed, Completed, Told, Go, queueVars, agentVars
      <4>2. session[c] \notin alive
        BY <3>2, <4>1 DEF Agree
      <4> QED
        BY <1>0, <1>1, <2>0, <4>1, <4>2 DEF OperationsTypeOK
    <3> QED
      BY <3>1, <3>2
  <2>6. CASE Note(c)
    <3>1. /\ UNCHANGED alive
          /\ outcome' = [outcome EXCEPT ![c] = "ok"]
          /\ step' = [step EXCEPT ![c] = "done"]
      BY <2>6 DEF Note, Completed, Told, Go, queueVars, agentVars
    <3> QED
      BY <1>0, <1>1, <2>0, <3>1 DEF OperationsTypeOK
  <2> QED
    BY <1>3, <2>1, <2>2, <2>3, <2>4, <2>5, <2>6 DEF Launch
<1>4. ASSUME NEW s \in Sessions, Person(s) \/ Exit(s) \/ Closed(s)
      PROVE  outcome'[d] = "ok" \/ step'[d] \in Spawned
  BY <1>1, <1>4 DEF Person, Share, Shared, Grant, Granted, Revoke, RevokeQueue, Revoked,
              UnshareEnded, Exit, Closed, ledgerVars, queueVars, agentVars
<1>5. CASE QueueMoves
  <2>1. UNCHANGED step
    BY <1>5 DEF QueueMoves, ledgerVars
  <2>2. UNCHANGED alive
    BY <1>5 DEF QueueMoves, Enter, PromptStep, TakeInput, Decide, Place, Check, Type, TypeFails,
                Hand, TypeQueued, TypeQueuedFails, RemoveQueued, SessionStep, Deliver, Report, Keys,
                ClearQueue, agentVars
  <2> QED
    BY <1>1, <2>1, <2>2
<1>6. CASE ReplacePlans \/ UNCHANGED operationVars
  BY <1>1, <1>6 DEF ReplacePlans, operationVars, ledgerVars, queueVars, agentVars
<1> QED
  BY <1>2, <1>3, <1>4, <1>5, <1>6 DEF OperationsNext

LEMMA Unseen ==
    ASSUME UNCHANGED <<recent, outcome, expired, waitsFor, answer, alive, writes>>,
           \A c \in Launches : step'[c] \in Spawned <=> step[c] \in Spawned
    PROVE  UNCHANGED Once!vars
<1>1. \A c \in Calls : EffectOf(c)' = EffectOf(c)
  BY DEF EffectOf
<1>2. Effects' = Effects /\ Kept' = Kept
  BY <1>1 DEF Effects, Kept
<1> QED
  BY <1>2 DEF Once!vars

LEMMA OneEffect ==
    ASSUME NEW c \in Calls, NEW what, EffectOf(c)' = what,
           \A d \in Calls \ {c} : EffectOf(d)' = EffectOf(d)
    PROVE  Effects' = [Effects EXCEPT ![c] = what]
BY DEF Effects

\* Looking a request up runs it, joins it or refuses it.
LEMMA LookKeeps ==
    ASSUME OperationsTypeOK, Ledger, Forgotten, NEW c \in Calls, Look(c) \/ Reserve(c)
    PROVE  [Once!Next]_(Once!vars)
<1>1. /\ step[c] \in {"idle", "reserving"} /\ expired' = expired
      /\ \/ recent' \in {recent, recent \ expired} /\ (Waits(c) \/ Refused(c) \/ Passes(c))
         \/ /\ Known(c) = {} /\ Cardinality(recent \ expired) < MaxRecentOutcomes
            /\ recent' = (recent \ expired) \cup {c} /\ Starts(c)
  BY Looked
<1>2. UNCHANGED <<alive, writes>>
  BY DEF Look, Reserve, queueVars, agentVars, promptVars
<1>3. outcome[c] = "none" /\ Once!New(c) /\ c \notin expired
  BY <1>1 DEF Ledger, Before, Forgotten, Once!New
<1>4. Once!Same(c) = Known(c)
  BY DEF Once!Same, Known, Kept
<1>5. /\ outcome'[c] \in {"none", "pending"} /\ step[c] \notin Spawned /\ step'[c] \notin Spawned
      /\ \A d \in Calls \ {c} : outcome'[d] = outcome[d] /\ step'[d] = step[d]
  BY <1>1, <1>3 DEF Waits, Refused, Passes, Starts, Spawned, OperationsTypeOK
<1>6. Effects' = Effects
  <2>1. EffectOf(c)' = EffectOf(c)
    BY <1>2, <1>3, <1>5 DEF EffectOf
  <2>2. \A d \in Calls \ {c} : EffectOf(d)' = EffectOf(d)
    BY <1>2, <1>5 DEF EffectOf
  <2> QED
    BY <2>1, <2>2 DEF Effects
<1>7. CASE Waits(c) /\ recent' \in {recent, recent \ expired}
  <2>1. Kept' = Kept
    BY <1>1, <1>7 DEF Kept
  <2>2. Once!Join(c)
    BY <1>3, <1>4, <1>6, <1>7, <2>1 DEF Waits, Once!Join
  <2> QED
    BY <2>2 DEF Once!Next
<1>8. CASE Refused(c) /\ recent' \in {recent, recent \ expired}
  <2>1. Kept' = Kept
    BY <1>1, <1>8 DEF Kept
  <2>2. Once!Refuse(c)
    BY <1>3, <1>6, <1>8, <2>1 DEF Refused, Once!Refuse, Once!Hears
  <2> QED
    BY <2>2 DEF Once!Next
<1>9. CASE Passes(c) /\ recent' \in {recent, recent \ expired}
  <2>1. Kept' = Kept
    BY <1>1, <1>9 DEF Kept
  <2> QED
    BY <1>6, <1>9, <2>1 DEF Passes, Once!vars
<1>10. CASE /\ Known(c) = {} /\ Cardinality(recent \ expired) < MaxRecentOutcomes
            /\ recent' = (recent \ expired) \cup {c} /\ Starts(c)
  <2>1. Kept' = Kept \cup {c}
    BY <1>1, <1>3, <1>10 DEF Kept
  <2>2. Once!New(c) /\ Once!Same(c) = {} /\ Cardinality(Kept) < MaxRecentOutcomes
    BY <1>3, <1>4, <1>10 DEF Kept
  <2>3. outcome' = [outcome EXCEPT ![c] = "pending"] /\ UNCHANGED <<waitsFor, answer>>
    BY <1>10 DEF Starts
  <2>4. Cardinality(Kept) = Once!Cardinality(Kept)
    BY DEF Cardinality, Once!Cardinality
  <2>5. Once!Run(c)
    BY <1>6, <2>1, <2>2, <2>3, <2>4 DEF Once!Run
  <2> QED
    BY <2>5 DEF Once!Next
<1> QED
  BY <1>1, <1>7, <1>8, <1>9, <1>10

LEMMA RetryKeeps ==
    ASSUME OperationsTypeOK, Ledger, Heard, NEW c \in Calls, Repeat(c) \/ WaitTimesOut(c)
    PROVE  Once!Next
<1> DEFINE e == waitsFor[c]
<1>1. /\ step[c] = "waiting" /\ UNCHANGED <<recent, outcome, expired, waitsFor, alive, writes>>
      /\ step' = [step EXCEPT ![c] = "done"]
  BY DEF Repeat, WaitTimesOut, Told, Go, queueVars, agentVars, promptVars
<1>2. e # NoCall /\ answer[c] = "none" /\ outcome[e] # "none" /\ outcome[e] \in Outcomes
  BY <1>1 DEF Ledger, Heard, OperationsTypeOK
<1>3. \A d \in Calls : step'[d] \in Spawned <=> step[d] \in Spawned
  BY <1>1 DEF Spawned, OperationsTypeOK
<1>4. Effects' = Effects /\ Kept' = Kept
  <2>1. \A d \in Calls : EffectOf(d)' = EffectOf(d)
    BY <1>1, <1>3 DEF EffectOf
  <2> QED
    BY <1>1, <2>1 DEF Effects, Kept
<1>5. \/ outcome[e] = "pending" /\ answer' = [answer EXCEPT ![c] = "unknown"]
      \/ outcome[e] \in {"ok", "error"} /\ answer' = [answer EXCEPT ![c] = outcome[e]]
      \/ outcome[e] = "ok" /\ answer' = [answer EXCEPT ![c] = "refused"]
  BY <1>2 DEF Repeat, WaitTimesOut, Told, Outcomes
<1>6. Once!Repeat(c)
  BY <1>1, <1>2, <1>4, <1>5 DEF Once!Repeat, Once!Hears
<1> QED
  BY <1>6 DEF Once!Next

\* A prompt that was not sent, or whose call returns.
LEMMA PromptKeeps ==
    ASSUME OperationsTypeOK, Ledger, NEW c \in Calls \ Launches, NEW what \in {"ok", "error"},
           step[c] = "running", Completed(c, what), UNCHANGED <<alive, writes>>
    PROVE  Once!Next
<1>1. /\ outcome[c] = "pending" /\ outcome' = [outcome EXCEPT ![c] = what]
      /\ answer' = [answer EXCEPT ![c] = what] /\ step' = [step EXCEPT ![c] = "done"]
      /\ UNCHANGED <<recent, expired, waitsFor>>
  BY DEF Completed, Told, Go, Ledger, Running
<1>2. Kept' = Kept
  BY <1>1 DEF Kept
<1>3. Once!Ends(c, what)
  BY <1>1, <1>2 DEF Once!Ends, Once!Hears
<1>4. \A d \in Calls \ {c} : EffectOf(d)' = EffectOf(d)
  BY <1>1 DEF EffectOf, OperationsTypeOK
<1>5. CASE what = "ok"
  <2>1. EffectOf(c)' = EffectOf(c)
    BY <1>1, <1>5 DEF EffectOf, OperationsTypeOK
  <2>2. Effects' = Effects
    BY <1>4, <2>1 DEF Effects
  <2>3. Once!Succeed(c)
    BY <1>3, <1>5, <2>2 DEF Once!Succeed
  <2> QED
    BY <2>3 DEF Once!Next
<1>6. CASE what = "error"
  <2>1. EffectOf(c)' = IF EffectOf(c) = "done" THEN EffectOf(c) ELSE "over"
    BY <1>1, <1>6 DEF EffectOf, OperationsTypeOK
  <2>2. Effects' = [Effects EXCEPT ![c] = IF EffectOf(c) = "done" THEN EffectOf(c) ELSE "over"]
    BY <1>4, <2>1 DEF Effects
  <2>3. Effects[c] = EffectOf(c)
    BY DEF Effects
  <2>4. Once!Fail(c)
    BY <1>3, <1>6, <2>2, <2>3 DEF Once!Fail
  <2> QED
    BY <2>4 DEF Once!Next
<1> QED
  BY <1>5, <1>6

\* A launch that fails leaves no session.
LEMMA FailureKeeps ==
    ASSUME OperationsTypeOK, Ledger, NEW c \in Launches, step[c] \in Running,
           outcome' = [outcome EXCEPT ![c] = "error"], answer' = [answer EXCEPT ![c] = "error"],
           step' = [step EXCEPT ![c] = "done"], UNCHANGED <<recent, expired, waitsFor, writes>>,
           alive' = alive \ {session[c]}
    PROVE  Once!Next
<1>1. c \in Calls /\ outcome[c] = "pending"
  BY DEF Ledger, Calls
<1>2. Kept' = Kept
  BY DEF Kept
<1>3. Once!Ends(c, "error")
  BY <1>1, <1>2 DEF Once!Ends, Once!Hears
<1>4. EffectOf(c)' = "over"
  BY <1>1 DEF EffectOf, OperationsTypeOK
<1>5. \A d \in Calls \ {c} : EffectOf(d)' = EffectOf(d)
  <2> SUFFICES ASSUME NEW d \in Calls \ {c} PROVE EffectOf(d)' = EffectOf(d)
    OBVIOUS
  <2>1. outcome'[d] = outcome[d] /\ step'[d] = step[d]
    BY DEF OperationsTypeOK
  <2>2. d \in Launches => (session[d] \in alive' <=> session[d] \in alive)
    BY OperationConstants
  <2> QED
    BY <2>1, <2>2 DEF EffectOf
<1>6. Effects' = [Effects EXCEPT ![c] = "over"]
  BY <1>1, <1>4, <1>5, OneEffect
<1>7. Once!Fail(c)
  BY <1>3, <1>6 DEF Once!Fail
<1> QED
  BY <1>1, <1>7 DEF Once!Next


\* Everything else: the forgetting, the launches, the writes and the ends of sessions.
LEMMA StepKeeps ==
    OperationsTypeOK /\ Queued /\ WrittenOnce /\ Ledger /\ Heard /\ Fresh /\ Agree /\ Forgotten
        /\ Settled /\ LeavesNone /\ [OperationsNext]_operationVars
        => [Once!Next]_(Once!vars)
<1> SUFFICES ASSUME OperationsTypeOK, Queued, WrittenOnce, Ledger, Heard, Fresh, Agree, Forgotten,
                    Settled, LeavesNone, [OperationsNext]_operationVars
             PROVE [Once!Next]_(Once!vars)
  OBVIOUS
<1>1. CASE UNCHANGED <<recent, outcome, expired, waitsFor, answer, step, alive, writes>>
  BY <1>1, Unseen
<1>2. ASSUME NEW c \in Calls, Call(c) PROVE [Once!Next]_(Once!vars)
  <2>1. CASE Look(c) \/ Reserve(c)
    BY <2>1, LookKeeps
  <2>2. CASE Repeat(c) \/ WaitTimesOut(c)
    BY <2>2, RetryKeeps
  <2>3. CASE Expire(c)
    <3>1. /\ c \in Kept /\ outcome[c] # "pending" /\ Kept' = Kept \ {c}
          /\ UNCHANGED <<outcome, waitsFor, answer, step, alive, writes>>
      BY <2>3 DEF Expire, Kept, queueVars, agentVars, promptVars
    <3>2. Effects' = Effects
      BY <3>1 DEF Effects, EffectOf
    <3>3. Once!Forget(c)
      BY <3>1, <3>2 DEF Once!Forget
    <3> QED
      BY <3>3 DEF Once!Next
  <2>4. CASE StartPrompt(c)
    <3>1. c \in Calls \ Launches /\ step[c] = "running" /\ UNCHANGED <<alive, writes>>
          /\ (UNCHANGED ledgerVars \/ Completed(c, "error"))
      BY <2>4 DEF StartPrompt, Enter, queueVars, agentVars, promptVars
    <3> QED
      BY <1>1, <3>1, PromptKeeps DEF ledgerVars
  <2>5. CASE PromptReturns(c)
    <3>1. c \in Calls \ Launches /\ step[c] = "running" /\ UNCHANGED <<alive, writes>>
          /\ (Completed(c, "ok") \/ Completed(c, "error"))
      BY <2>5 DEF PromptReturns, queueVars, agentVars, promptVars
    <3> QED
      BY <3>1, PromptKeeps
  <2> QED
    BY <1>2, <2>1, <2>2, <2>3, <2>4, <2>5 DEF Call
<1>3. ASSUME NEW c \in Launches, Launch(c) PROVE [Once!Next]_(Once!vars)
  <2>0. c \in Calls
    BY DEF Calls
  <2>1. CASE CheckLimits(c) \/ SpawnFailed(c)
    <3>1. /\ step[c] \in {"running", "limited"} /\ UNCHANGED <<alive, writes>>
          /\ \/ UNCHANGED <<recent, outcome, expired, waitsFor, answer>>
                /\ step' = [step EXCEPT ![c] = "limited"]
             \/ Completed(c, "error")
      BY <2>1 DEF CheckLimits, SpawnFailed, Failed, Go, queueVars, agentVars, promptVars
    <3>2. CASE Completed(c, "error")
      <4>1. session[c] \notin alive
        BY <3>1 DEF Fresh
      <4>2. alive' = alive \ {session[c]}
        BY <3>1, <4>1
      <4> QED
        BY <3>1, <3>2, <4>2, FailureKeeps DEF Completed, Told, Go, Running
    <3>3. CASE /\ UNCHANGED <<recent, outcome, expired, waitsFor, answer>>
               /\ step' = [step EXCEPT ![c] = "limited"]
      <4>1. \A d \in Launches : step'[d] \in Spawned <=> step[d] \in Spawned
        BY <2>0, <3>1, <3>3 DEF Spawned, OperationsTypeOK
      <4> QED
        BY <3>1, <3>3, <4>1, Unseen
    <3> QED
      BY <3>1, <3>2, <3>3
  <2>2. CASE Spawn(c)
    <3>1. /\ step[c] = "limited" /\ alive' = alive \cup {session[c]}
          /\ step' = [step EXCEPT ![c] = "spawned"]
          /\ UNCHANGED <<recent, outcome, expired, waitsFor, answer, writes>>
      BY <2>2 DEF Spawn, Go, promptVars
    <3>2. session[c] \notin alive /\ outcome[c] = "pending"
      BY <2>0, <3>1 DEF Fresh, Ledger, Running
    <3>3. Effects[c] = "none"
      BY <2>0, <3>1, <3>2 DEF Effects, EffectOf, Spawned
    <3>4. EffectOf(c)' = "done"
      BY <3>1 DEF EffectOf
    <3>5. \A d \in Calls \ {c} : EffectOf(d)' = EffectOf(d)
      <4> SUFFICES ASSUME NEW d \in Calls \ {c} PROVE EffectOf(d)' = EffectOf(d)
        OBVIOUS
      <4>1. step'[d] = step[d]
        BY <3>1 DEF OperationsTypeOK
      <4>2. d \in Launches => (session[d] \in alive' <=> session[d] \in alive)
        BY <3>1, OperationConstants
      <4> QED
        BY <3>1, <4>1, <4>2 DEF EffectOf
    <3>6. Effects' = [Effects EXCEPT ![c] = "done"]
      BY <2>0, <3>4, <3>5, OneEffect
    <3>7. Once!Do(c)
      BY <3>1, <3>2, <3>3, <3>6 DEF Once!Do, Kept
    <3> QED
      BY <2>0, <3>7 DEF Once!Next
  <2>3. CASE Authorise(c)
    <3>1. step[c] = "spawned" /\ UNCHANGED <<recent, expired, waitsFor, writes>>
      BY <2>3, Authorised DEF promptVars
    <3>2. CASE HandsOver(c)
      <4>1. \A d \in Launches : step'[d] \in Spawned <=> step[d] \in Spawned
        BY <2>0, <3>1, <3>2 DEF HandsOver, Spawned, OperationsTypeOK
      <4> QED
        BY <3>1, <3>2, <4>1, Unseen DEF HandsOver
    <3>3. CASE Aborts(c)
      BY <3>1, <3>3, FailureKeeps DEF Aborts, Running
    <3> QED
      BY <2>3, <3>2, <3>3, Authorised
  <2>4. CASE ShareLaunched(c)
    <3>1. /\ step[c] = "sharing" /\ step' = [step EXCEPT ![c] = "controlling"]
          /\ UNCHANGED <<recent, outcome, expired, waitsFor, answer, alive, writes>>
      BY <2>4 DEF ShareLaunched, Go, queueVars, agentVars, promptVars
    <3>2. \A d \in Launches : step'[d] \in Spawned <=> step[d] \in Spawned
      BY <2>0, <3>1 DEF Spawned, OperationsTypeOK
    <3> QED
      BY <3>1, <3>2, Unseen
  <2>5. CASE ControlLaunched(c)
    <3>1. /\ step[c] = "controlling" /\ UNCHANGED <<alive, writes>>
          /\ \/ /\ step' = [step EXCEPT ![c] = "noting"]
                /\ UNCHANGED <<recent, outcome, expired, waitsFor, answer>>
             \/ shared[session[c]] = "no" /\ Completed(c, "error")
      BY <2>5 DEF ControlLaunched, Failed, Go, queueVars, agentVars, promptVars
    <3>2. CASE /\ step' = [step EXCEPT ![c] = "noting"]
               /\ UNCHANGED <<recent, outcome, expired, waitsFor, answer>>
      <4>1. \A d \in Launches : step'[d] \in Spawned <=> step[d] \in Spawned
        BY <2>0, <3>1, <3>2 DEF Spawned, OperationsTypeOK
      <4> QED
        BY <3>1, <3>2, <4>1, Unseen
    <3>3. CASE shared[session[c]] = "no" /\ Completed(c, "error")
      <4>1. session[c] \notin alive
        BY <3>1, <3>3 DEF Agree
      <4>2. alive' = alive \ {session[c]}
        BY <3>1, <4>1
      <4> QED
        BY <3>1, <3>3, <4>2, FailureKeeps DEF Completed, Told, Go, Running
    <3> QED
      BY <3>1, <3>2, <3>3
  <2>6. CASE Note(c)
    <3>1. /\ step[c] = "noting" /\ UNCHANGED <<recent, expired, waitsFor, alive, writes>>
          /\ outcome' = [outcome EXCEPT ![c] = "ok"] /\ answer' = [answer EXCEPT ![c] = "ok"]
          /\ step' = [step EXCEPT ![c] = "done"]
      BY <2>6 DEF Note, Completed, Told, Go, queueVars, agentVars, promptVars
    <3>2. outcome[c] = "pending"
      BY <2>0, <3>1 DEF Ledger, Running
    <3>3. Effects' = Effects /\ Effects[c] # "none"
      <4>1. EffectOf(c)' = EffectOf(c) /\ EffectOf(c) # "none"
        BY <2>0, <3>1 DEF EffectOf, Spawned, OperationsTypeOK
      <4>2. \A d \in Calls \ {c} : EffectOf(d)' = EffectOf(d)
        BY <3>1 DEF EffectOf, OperationsTypeOK
      <4> QED
        BY <2>0, <4>1, <4>2 DEF Effects
    <3>4. Once!Succeed(c)
      BY <3>1, <3>2, <3>3 DEF Once!Succeed, Once!Ends, Once!Hears, Kept
    <3> QED
      BY <2>0, <3>4 DEF Once!Next
  <2> QED
    BY <1>3, <2>1, <2>2, <2>3, <2>4, <2>5, <2>6 DEF Launch
<1>4. ASSUME NEW s \in Sessions, Person(s) \/ Closed(s) PROVE [Once!Next]_(Once!vars)
  BY <1>1, <1>4 DEF Person, Share, Shared, Grant, Granted, Revoke, RevokeQueue, Revoked,
              UnshareEnded, Closed, ClearMcp, ledgerVars, queueVars, agentVars, promptVars
<1>5. ASSUME NEW s \in Sessions, Exit(s) PROVE [Once!Next]_(Once!vars)
  <2>1. /\ s \in alive /\ alive' = alive \ {s}
        /\ UNCHANGED <<recent, outcome, expired, waitsFor, answer, step, writes>>
    BY <1>5 DEF Exit, ledgerVars, promptVars
  <2>2. ASSUME NEW c \in Launches, session[c] = s PROVE Once!Next
    <3>1. c \in Calls
      BY DEF Calls
    <3>2. Effects[c] = "done"
      BY <2>1, <2>2, <3>1 DEF Effects, EffectOf
    <3>3. EffectOf(c)' = "over"
      BY <2>1, <2>2 DEF EffectOf, LeavesNone
    <3>4. \A d \in Calls \ {c} : EffectOf(d)' = EffectOf(d)
      <4> SUFFICES ASSUME NEW d \in Calls \ {c} PROVE EffectOf(d)' = EffectOf(d)
        OBVIOUS
      <4>1. d \in Launches => (session[d] \in alive' <=> session[d] \in alive)
        BY <2>1, <2>2, OperationConstants
      <4> QED
        BY <2>1, <4>1 DEF EffectOf
    <3>5. Effects' = [Effects EXCEPT ![c] = "over"]
      BY <3>1, <3>3, <3>4, OneEffect
    <3>6. Once!Undo(c)
      BY <2>1, <3>2, <3>5 DEF Once!Undo, Kept
    <3> QED
      BY <3>1, <3>6 DEF Once!Next
  <2>3. CASE \A c \in Launches : session[c] # s
    <3>1. \A d \in Calls : EffectOf(d)' = EffectOf(d)
      BY <2>1, <2>3 DEF EffectOf
    <3> QED
      BY <2>1, <3>1 DEF Effects, Kept, Once!vars
  <2> QED
    BY <2>2, <2>3
<1>6. CASE QueueMoves
  <2>1. UNCHANGED <<recent, outcome, expired, waitsFor, answer, step>>
    BY <1>6 DEF QueueMoves, ledgerVars
  <2>2. UNCHANGED alive
    BY <1>6 DEF QueueMoves, Enter, PromptStep, TakeInput, Decide, Place, Check, Type, TypeFails,
                Hand, TypeQueued, TypeQueuedFails, RemoveQueued, SessionStep, Deliver, Report, Keys,
                ClearQueue, agentVars
  <2>3. \/ UNCHANGED writes
        \/ \E p \in Prompts : at[p] \in {"typing", "delivering"} /\ Written(p)
    BY <1>6 DEF QueueMoves, Enter, PromptStep, TakeInput, Decide, Place, Check, Type, TypeFails,
                Hand, TypeQueued, TypeQueuedFails, RemoveQueued, SessionStep, Deliver, Report, Keys,
                ClearQueue, promptVars
  <2>4. ASSUME NEW p \in Prompts, at[p] \in {"typing", "delivering"}, Written(p)
        PROVE  [Once!Next]_(Once!vars)
    <3>1. writes' = [writes EXCEPT ![p] = writes[p] + 1] /\ writes[p] = 0
      BY <2>4 DEF Written, WrittenOnce, OperationsTypeOK, QueueTypeOK
    <3>2. \A d \in Calls \ {p} : EffectOf(d)' = EffectOf(d)
      <4> SUFFICES ASSUME NEW d \in Calls \ {p} PROVE EffectOf(d)' = EffectOf(d)
        OBVIOUS
      <4>1. d \notin Launches => writes'[d] = writes[d]
        BY <3>1 DEF Calls, OperationsTypeOK, QueueTypeOK
      <4> QED
        BY <2>1, <2>2, <4>1 DEF EffectOf
    <3>3. CASE p \in Human
      <4>1. p \notin Calls
        BY <3>3, OperationConstants DEF Calls
      <4> QED
        BY <2>1, <3>2, <4>1 DEF Effects, Kept, Once!vars
    <3>4. CASE p \notin Human
      <4>1. p \in Calls \ Launches
        BY <3>4, OperationConstants DEF Calls
      <4>2. outcome[p] \in {"pending", "ok"}
        BY <2>4, <4>1 DEF Settled, OperationsTypeOK, Outcomes
      <4>3. Effects[p] = "none" /\ EffectOf(p)' = "done"
        BY <3>1, <4>1, <4>2 DEF Effects, EffectOf, OperationsTypeOK, QueueTypeOK
      <4>4. Effects' = [Effects EXCEPT ![p] = "done"]
        BY <3>2, <4>1, <4>3, OneEffect
      <4>5. Once!Do(p)
        BY <2>1, <4>1, <4>2, <4>3, <4>4 DEF Once!Do, Kept
      <4> QED
        BY <4>1, <4>5 DEF Once!Next
    <3> QED
      BY <3>3, <3>4
  <2> QED
    BY <1>1, <2>1, <2>2, <2>3, <2>4
<1>7. CASE ReplacePlans \/ UNCHANGED operationVars
  BY <1>1, <1>7 DEF ReplacePlans, operationVars, ledgerVars, queueVars, agentVars, promptVars
<1> QED
  BY <1>2, <1>3, <1>4, <1>5, <1>6, <1>7 DEF OperationsNext

\* The daemon implements OnceLedger (server.rs, once, reserve, launch_plan; agent.rs,
\* send_prompt): however retries, grants, queues, launches and ends of sessions interleave, a
\* request is run by one call as long as its result is kept, results are forgotten only with
\* their retention and kept up to the limit, a retry hears the result of the call it joined,
\* a prompt is written and a session started at most once, no launch that failed leaves a
\* session, and no prompt is written after its client heard of a failure.
THEOREM PromiseKept == OperationsSpec => RunsOnceAsPromised
<1>1. OperationsInit => Once!Init /\ Forgotten /\ Settled /\ LeavesNone
  <2> SUFFICES ASSUME OperationsInit PROVE Once!Init /\ Forgotten /\ Settled /\ LeavesNone
    OBVIOUS
  <2>1. Forgotten /\ LeavesNone
    BY DEF OperationsInit, Forgotten, LeavesNone
  <2>2. \A c \in Calls \ Launches : c \in Prompts
    BY DEF Calls
  <2>3. Settled
    BY <2>2 DEF OperationsInit, QueueInit, Settled
  <2>4. Effects = [c \in Calls |-> "none"]
    BY <2>2 DEF OperationsInit, QueueInit, Effects, EffectOf, Spawned
  <2> QED
    BY <2>1, <2>3, <2>4 DEF OperationsInit, Once!Init, Kept
<1>2. IInv /\ Forgotten /\ Settled /\ LeavesNone /\ [OperationsNext]_operationVars
      => Forgotten' /\ Settled' /\ LeavesNone' /\ [Once!Next]_(Once!vars)
  BY ForgottenStep, SettledStep, LeavesStep, StepKeeps DEF IInv
<1> QED
  BY <1>1, <1>2, IInvInvariant, PTL DEF OperationsSpec, RunsOnceAsPromised, Once!Spec

=============================================================================
