---------------------------- MODULE PromptQueue ----------------------------
(***************************************************************************)
(* The prompts of an agent session (src-tauri/src/agent.rs).               *)
(*                                                                         *)
(* A session runs a CLI on a terminal.  People and observers (clients of   *)
(* the MCP bridge that were given control) send it prompts; one that finds *)
(* the CLI busy waits in a queue, and is delivered when the CLI reports    *)
(* that it is free.  The input lock of a session covers one write with the *)
(* checks before it.  Revocation does not take it: every grant has an      *)
(* epoch, odd while control is given, and a prompt carries the epoch it    *)
(* was accepted under.  The queue is a set: what is checked holds in whatever  *)
(* order it is served.  The builds for Unix are modelled.                  *)
(***************************************************************************)
EXTENDS Naturals, FiniteSets

CONSTANTS
    Sessions,
    Prompts,            \* one attempt of somebody to send a prompt
    Human,              \* those of people; the others come from observers
    Immediate,          \* those of observers that must not wait in the queue
    session,            \* the session a call is about
    MaxQueuedPrompts,
    NoPrompt

ASSUME PromptConstants ==
    /\ IsFiniteSet(Prompts)
    /\ Human \subseteq Prompts /\ Immediate \subseteq Prompts \ Human
    /\ \A p \in Prompts : session[p] \in Sessions
    /\ MaxQueuedPrompts \in Nat
    /\ NoPrompt \notin Prompts

VARIABLES
    alive,      \* sessions in the registry
    epoch,      \* mcp_grant_epoch
    cli,        \* "free" after an official report of idle or done
    draft,      \* sessions with unfinished input of a person
    queue,      \* queued_prompts
    unsure,     \* queued prompts with a delivery error
    at,         \* how far a prompt got; "queued" once it was put in the queue
    grant,      \* the epoch a prompt carries
    input,      \* the prompt the input lock of a session is held for
    writes      \* how often the bytes of a prompt were given to the terminal

agentVars == <<alive, epoch, cli, draft>>
promptVars  == <<queue, unsure, at, grant, input, writes>>
queueVars   == <<agentVars, promptVars>>

Sending == {"entered", "deciding", "placing", "sending", "typing"}
Stages  == Sending \cup {"idle", "queued", "popped", "delivering", "sent", "refused", "dropped"}
Locked  == {"deciding", "placing", "sending", "typing", "popped", "delivering"}

Odd(n)      == n % 2 = 1
Matches(p)  == p \in Human \/ epoch[session[p]] = grant[p]
Ready(s)    == cli[s] = "free" /\ s \notin draft
Free(s)     == input[s] = NoPrompt

QueueTypeOK ==
    /\ alive \subseteq Sessions
    /\ epoch \in [Sessions -> Nat]
    /\ cli \in [Sessions -> {"free", "working"}]
    /\ draft \subseteq Sessions
    /\ queue \in [Sessions -> SUBSET Prompts]
    /\ unsure \subseteq Human
    /\ at \in [Prompts -> Stages]
    /\ grant \in [Prompts -> Nat]
    /\ input \in [Sessions -> Prompts \cup {NoPrompt}]
    /\ writes \in [Prompts -> Nat]

QueueInit ==
    /\ alive \in SUBSET Sessions
    /\ epoch = [s \in Sessions |-> 0]
    /\ cli \in [Sessions -> {"free", "working"}]
    /\ draft = {}
    /\ queue = [s \in Sessions |-> {}]
    /\ unsure = {}
    /\ at = [p \in Prompts |-> "idle"]
    /\ grant = [p \in Prompts |-> 0]
    /\ input = [s \in Sessions |-> NoPrompt]
    /\ writes = [p \in Prompts |-> 0]

Put(p, stage) == at' = [at EXCEPT ![p] = stage]
Unlock(s)     == input' = [input EXCEPT ![s] = NoPrompt]

\* The call returns, and the lock of the input goes with it.
Leave(p, stage) == Put(p, stage) /\ Unlock(session[p])

(***************************************************************************)
(* Sending a prompt.                                                       *)
(***************************************************************************)

\* The grant is remembered before the call waits behind a split write.
Enter(p) ==
    LET s == session[p] IN
    /\ at[p] = "idle"
    /\ Put(p, IF s \in alive /\ (p \in Human \/ Odd(epoch[s])) THEN "entered" ELSE "refused")
    /\ grant' = [grant EXCEPT ![p] = IF p \in Human THEN 0 ELSE epoch[s]]
    /\ UNCHANGED <<agentVars, queue, unsure, input, writes>>

TakeInput(p) ==
    LET s == session[p] IN
    /\ at[p] = "entered" /\ Free(s)
    /\ IF Matches(p) THEN Put(p, "deciding") /\ input' = [input EXCEPT ![s] = p]
                     ELSE Put(p, "refused") /\ UNCHANGED input
    /\ UNCHANGED <<agentVars, queue, unsure, grant, writes>>

\* A free session takes the prompt at once, unless a chain or the limit of active
\* sessions holds it back; what may not wait is refused by a session that is not free.
Decide(p) ==
    LET s == session[p]
        direct == Ready(s) /\ queue[s] = {} IN
    /\ at[p] = "deciding"
    /\ \/ direct /\ Put(p, "sending") /\ UNCHANGED input
       \/ p \notin Immediate /\ s \in alive /\ Put(p, "placing") /\ UNCHANGED input
       \/ p \notin Immediate /\ s \notin alive /\ Leave(p, "refused")
       \/ p \in Immediate /\ ~direct /\ Leave(p, "refused")
    /\ UNCHANGED <<agentVars, queue, unsure, grant, writes>>

\* Mutant of Place: the grant is not looked at again under the lock of the queue.
PlaceAnyway(p) ==
    LET s == session[p]
        fits == (p \in Human \/ s \in alive) /\ Cardinality(queue[s]) < MaxQueuedPrompts IN
    /\ at[p] = "placing"
    /\ queue' = IF fits THEN [queue EXCEPT ![s] = @ \cup {p}] ELSE queue
    /\ Leave(p, IF fits THEN "queued" ELSE "refused")
    /\ UNCHANGED <<agentVars, unsure, grant, writes>>

\* enqueue_locked, under the lock of the queue.  A prompt of a person is not refused
\* by a session that ends now: it goes with the queue of that session.
Place(p) ==
    LET s == session[p]
        fits == /\ p \in Human \/ s \in alive
                /\ Matches(p) /\ Cardinality(queue[s]) < MaxQueuedPrompts IN
    /\ at[p] = "placing"
    /\ queue' = IF fits THEN [queue EXCEPT ![s] = @ \cup {p}] ELSE queue
    /\ Leave(p, IF fits THEN "queued" ELSE "refused")
    /\ UNCHANGED <<agentVars, unsure, grant, writes>>

\* send_prompt_bytes_locked looks at the grant once more; then it writes.
Check(p) ==
    /\ at[p] = "sending"
    /\ IF Matches(p) /\ session[p] \in alive
       THEN Put(p, "typing") /\ UNCHANGED input
       ELSE Leave(p, "refused")
    /\ UNCHANGED <<agentVars, queue, unsure, grant, writes>>

Written(p) == writes' = [writes EXCEPT ![p] = @ + 1]
Works(s)   == cli' = [cli EXCEPT ![s] = "working"]

Type(p) ==
    /\ at[p] = "typing"
    /\ Written(p) /\ Works(session[p]) /\ Leave(p, "sent")
    /\ UNCHANGED <<alive, epoch, draft, queue, unsure, grant>>

\* Some of it may have been written, or the session is gone.
TypeFails(p) ==
    /\ at[p] = "typing"
    /\ Written(p) \/ UNCHANGED writes
    /\ Leave(p, "refused")
    /\ UNCHANGED <<agentVars, queue, unsure, grant>>

(***************************************************************************)
(* Delivering what waits.                                                  *)
(***************************************************************************)

\* deliver_next_queued: after a report, an edit, a released draft, a changed chain or
\* limit, for a session nothing holds back.  A prompt whose delivery failed stays at
\* the head, and nothing passes it.
Deliver(s) ==
    LET valid == {p \in queue[s] : Matches(p)} IN
    /\ s \in alive /\ Free(s) /\ Ready(s) /\ queue[s] # {}
    /\ \/ /\ valid \cap unsure = {}
          /\ \E p \in valid :
                /\ queue' = [queue EXCEPT ![s] = valid \ {p}]
                /\ Put(p, "popped")
                /\ input' = [input EXCEPT ![s] = p]
       \/ /\ valid = {} \/ valid \cap unsure # {}
          /\ queue' = [queue EXCEPT ![s] = valid]
          /\ UNCHANGED <<at, input>>
    /\ UNCHANGED <<agentVars, unsure, grant, writes>>

\* A failed delivery keeps a prompt of a person at the head and marks it; it takes
\* every prompt of observers with it.
Undelivered(p) ==
    LET s == session[p] IN
    IF p \in Human
    THEN /\ queue' = [queue EXCEPT ![s] = @ \cup {p}]
         /\ unsure' = unsure \cup {p}
         /\ Leave(p, "queued")
    ELSE /\ queue' = IF s \in alive THEN [queue EXCEPT ![s] = @ \cap Human] ELSE queue
         /\ UNCHANGED unsure
         /\ Leave(p, "dropped")

\* send_queued_prompt_locked: the grant again, after the prompt left the queue.
Hand(p) ==
    /\ at[p] = "popped"
    /\ \/ /\ session[p] \notin alive
          /\ Undelivered(p)
       \/ /\ session[p] \in alive /\ ~Matches(p)
          /\ Leave(p, "dropped")
          /\ UNCHANGED <<queue, unsure>>
       \/ /\ session[p] \in alive /\ Matches(p)
          /\ Put(p, "delivering")
          /\ UNCHANGED <<queue, unsure, input>>
    /\ UNCHANGED <<agentVars, grant, writes>>

TypeQueued(p) ==
    /\ at[p] = "delivering"
    /\ Written(p) /\ Works(session[p]) /\ Leave(p, "sent")
    /\ UNCHANGED <<alive, epoch, draft, queue, unsure, grant>>

\* As TypeFails; or the grant changed once more before the bytes were written.
TypeQueuedFails(p) ==
    /\ at[p] = "delivering"
    /\ Written(p) \/ UNCHANGED writes
    /\ Undelivered(p)
    /\ UNCHANGED <<agentVars, grant>>

(***************************************************************************)
(* The person and the CLI.                                                 *)
(***************************************************************************)

\* A report of the CLI, or a guess from its screen, which frees nobody.
Report(s) ==
    /\ s \in alive
    /\ cli' = [cli EXCEPT ![s] = IF @ = "free" THEN "working" ELSE "free"]
    /\ UNCHANGED <<alive, epoch, draft, promptVars>>

\* Keys begin an edit, or Enter ends it and starts a turn.
Keys(s) ==
    /\ s \in alive /\ Free(s)
    /\ IF s \in draft THEN draft' = draft \ {s} /\ Works(s)
                      ELSE draft' = draft \cup {s} /\ UNCHANGED cli
    /\ UNCHANGED <<alive, epoch, promptVars>>

\* edit_queued_prompt and clear_queue wait for the input lock; only a prompt of a
\* person can be removed by itself.
RemoveQueued(p) ==
    LET s == session[p] IN
    /\ p \in Human \cap queue[s] /\ s \in alive /\ Free(s)
    /\ queue' = [queue EXCEPT ![s] = @ \ {p}]
    /\ unsure' = unsure \ {p}
    /\ UNCHANGED <<agentVars, at, grant, input, writes>>

ClearQueue(s) ==
    /\ s \in alive /\ Free(s) /\ queue[s] # {}
    /\ queue' = [queue EXCEPT ![s] = {}]
    /\ unsure' = unsure \ queue[s]
    /\ UNCHANGED <<agentVars, at, grant, input, writes>>

(***************************************************************************)
(* set_mcp_control: the epoch first, without any lock, then the queue.     *)
(***************************************************************************)

Flip(s, enabled) ==
    epoch' = [epoch EXCEPT ![s] = IF Odd(@) # enabled THEN @ + 1 ELSE @]

\* clear_queue_locked for observers only.
ClearMcp(s) ==
    /\ queue' = [queue EXCEPT ![s] = @ \cap Human]
    /\ UNCHANGED <<unsure, at, grant, input, writes>>

\* What happens to a prompt once it was sent.
PromptStep(p) ==
    \/ TakeInput(p) \/ Decide(p) \/ Place(p) \/ Check(p) \/ Type(p) \/ TypeFails(p)
    \/ Hand(p) \/ TypeQueued(p) \/ TypeQueuedFails(p) \/ RemoveQueued(p)

SessionStep(s) == Deliver(s) \/ Report(s) \/ Keys(s) \/ ClearQueue(s)
=============================================================================
