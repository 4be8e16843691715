--------------------------- MODULE McpOperations ---------------------------
(***************************************************************************)
(* What observers may do in the background daemon                          *)
(* (src-tauri/src/agent_daemon/server.rs): the ledger that runs a request  *)
(* once however often a client retries it, the grants a person gives and   *)
(* takes back, and the sessions observers launch from plans a person       *)
(* allowed.                                                                *)
(*                                                                         *)
(* A call is one attempt of one connection; a retry is another call with   *)
(* the same request id.  A launch is a call whose session is the one it    *)
(* would start, a prompt is a call of PromptQueue.                         *)
(***************************************************************************)
EXTENDS PromptQueue

CONSTANTS
    Launches,
    requestId,          \* with the client, what a retry repeats
    operation,          \* the fingerprint of what is asked for
    MaxRecentOutcomes,
    MaxLaunched,        \* live sessions observers may have started
    MaxGeneration,      \* bound: how often the person changes the plans
    MaxEpoch,           \* bound: how often control is given or taken back
    NoCall

Calls == Launches \cup (Prompts \ Human)

ASSUME OperationConstants ==
    /\ IsFiniteSet(Launches) /\ Launches \cap Prompts = {}
    /\ \A c \in Launches : session[c] \in Sessions
    /\ \A c, d \in Launches : session[c] = session[d] => c = d
    /\ MaxRecentOutcomes \in Nat /\ MaxLaunched \in Nat
    /\ MaxGeneration \in Nat /\ MaxEpoch \in Nat
    /\ NoCall \notin Calls

VARIABLES
    recent,      \* the calls whose operation the ledger remembers
    outcome,     \* of the operation of a call
    expired,     \* operations that completed longer ago than the retention
    step,        \* where a call is
    waitsFor,    \* the call whose outcome a retry waits for
    answer,      \* what a client was told
    shared,      \* how a session is shared with observers
    changing,    \* what the holder of a session's grant lock is doing
    closing,     \* sessions that left the registry and were not announced yet
    launched,    \* sessions counted against the limit
    launching,   \* the holder of the launch lock
    plans,       \* whether launches are allowed
    generation,  \* of the plans
    readUnder    \* the generation a launch was authorised under

ledgerVars == <<recent, outcome, expired, step, waitsFor, answer>>
grantVars  == <<shared, changing, closing>>
launchVars == <<launched, launching, plans, generation, readUnder>>
operationVars == <<queueVars, ledgerVars, grantVars, launchVars>>

Steps    == {"idle", "reserving", "waiting", "running", "limited", "spawned",
             "sharing", "controlling", "noting", "done"}
Changes  == {"no", "sharing", "granting", "revoking", "revoked", "unsharing", "unshared",
             "launching"}
Outcomes == {"none", "pending", "ok", "error"}
Answers  == {"none", "ok", "error", "refused", "unknown"}

OperationsTypeOK ==
    /\ QueueTypeOK
    /\ recent \subseteq Calls /\ expired \subseteq Calls
    /\ outcome \in [Calls -> Outcomes]
    /\ step \in [Calls -> Steps]
    /\ waitsFor \in [Calls -> Calls \cup {NoCall}]
    /\ answer \in [Calls -> Answers]
    /\ shared \in [Sessions -> {"no", "yes", "control"}]
    /\ changing \in [Sessions -> Changes]
    /\ closing \subseteq Sessions
    /\ launched \subseteq Sessions
    /\ launching \in Launches \cup {NoCall}
    /\ plans \in BOOLEAN
    /\ generation \in 0..MaxGeneration
    /\ readUnder \in [Launches -> 0..MaxGeneration]

OperationsInit ==
    /\ QueueInit
    /\ \A c \in Launches : session[c] \notin alive
    /\ recent = {} /\ expired = {}
    /\ outcome = [c \in Calls |-> "none"]
    /\ step = [c \in Calls |-> "idle"]
    /\ waitsFor = [c \in Calls |-> NoCall]
    /\ answer = [c \in Calls |-> "none"]
    /\ shared = [s \in Sessions |-> "no"]
    /\ changing = [s \in Sessions |-> "no"]
    /\ closing = {} /\ launched = {}
    /\ launching = NoCall
    /\ plans \in BOOLEAN
    /\ generation = 0
    /\ readUnder = [c \in Launches |-> 0]

Go(c, where) == step' = [step EXCEPT ![c] = where]

\* What a call needs before it runs, and again before it repeats an outcome.
Allowed(c) ==
    /\ c \in Launches => plans
    /\ c \notin Launches => shared[session[c]] = "control"

MayRepeat(c, e) == Allowed(c) /\ shared[session[e]] = "control"

(***************************************************************************)
(* once: look the request up, reserve it, run it or wait for its outcome.  *)
(***************************************************************************)

Known(c) == {e \in recent \ expired : requestId[e] = requestId[c]}

\* The end of a call that ran nothing.
Told(c, what) == Go(c, "done") /\ answer' = [answer EXCEPT ![c] = what]

\* A call that found its request in the ledger: it must ask for the same.
Duplicate(c) ==
    \E e \in Known(c) :
        IF operation[e] = operation[c]
        THEN /\ Go(c, "waiting")
             /\ waitsFor' = [waitsFor EXCEPT ![c] = e]
             /\ UNCHANGED answer
        ELSE Told(c, "refused") /\ UNCHANGED waitsFor

\* existing, then preflight: an unauthorised call takes no place in the ledger.
Look(c) ==
    /\ step[c] = "idle"
    /\ \/ Duplicate(c)
       \/ /\ Known(c) = {}
          /\ IF Allowed(c) THEN Go(c, "reserving") /\ UNCHANGED answer
                           ELSE Told(c, "refused")
          /\ UNCHANGED waitsFor
    /\ UNCHANGED <<queueVars, recent, outcome, expired, grantVars, launchVars>>

Remember(c) ==
    /\ recent' = (recent \ expired) \cup {c}
    /\ outcome' = [outcome EXCEPT ![c] = "pending"]
    /\ Go(c, "running")
    /\ UNCHANGED <<waitsFor, answer>>

\* Mutant of Reserve: what was looked up before the preflight is taken as still true.
ReserveBlindly(c) ==
    /\ step[c] = "reserving"
    /\ Cardinality(recent \ expired) < MaxRecentOutcomes
    /\ Remember(c)
    /\ UNCHANGED <<queueVars, expired, grantVars, launchVars>>

\* reserve: the lookup again, under the lock that adds the operation.  A full
\* ledger refuses: it never forgets an outcome that a retry may still ask for.
Reserve(c) ==
    /\ step[c] = "reserving"
    /\ \/ /\ Duplicate(c)
          /\ recent' = recent \ expired
          /\ UNCHANGED outcome
       \/ /\ Known(c) = {}
          /\ Cardinality(recent \ expired) < MaxRecentOutcomes
          /\ Remember(c)
       \/ /\ Known(c) = {}
          /\ Cardinality(recent \ expired) >= MaxRecentOutcomes
          /\ recent' = recent \ expired
          /\ Told(c, "refused")
          /\ UNCHANGED <<outcome, waitsFor>>
    /\ UNCHANGED <<queueVars, expired, grantVars, launchVars>>

\* The outcome of the first call, if what it was for is still authorised.
Repeat(c) ==
    LET e == waitsFor[c] IN
    /\ step[c] = "waiting" /\ outcome[e] # "pending"
    /\ Told(c, IF outcome[e] = "ok" /\ ~MayRepeat(c, e) THEN "refused" ELSE outcome[e])
    /\ UNCHANGED <<queueVars, recent, outcome, expired, waitsFor, grantVars, launchVars>>

\* Ten seconds without an outcome.
WaitTimesOut(c) ==
    /\ step[c] = "waiting" /\ outcome[waitsFor[c]] = "pending"
    /\ Told(c, "unknown")
    /\ UNCHANGED <<queueVars, recent, outcome, expired, waitsFor, grantVars, launchVars>>

Completed(c, what) ==
    /\ outcome' = [outcome EXCEPT ![c] = what]
    /\ Told(c, what)
    /\ UNCHANGED <<recent, expired, waitsFor>>

\* Mutant of Expire: the retention is counted from the reservation, so that an operation
\* that still runs may be forgotten.
ExpireRunning(c) ==
    /\ c \in recent \ expired
    /\ expired' = expired \cup {c}
    /\ UNCHANGED <<queueVars, recent, outcome, step, waitsFor, answer, grantVars, launchVars>>

\* Fifteen minutes after the outcome; an operation without one never expires.
Expire(c) ==
    /\ c \in recent \ expired /\ outcome[c] \in {"ok", "error"}
    /\ expired' = expired \cup {c}
    /\ UNCHANGED <<queueVars, recent, outcome, step, waitsFor, answer, grantVars, launchVars>>

(***************************************************************************)
(* A prompt of an observer, and the threads of the prompts.                *)
(***************************************************************************)

StartPrompt(c) ==
    /\ c \notin Launches /\ step[c] = "running" /\ at[c] = "idle"
    /\ IF shared[session[c]] = "control"
       THEN Enter(c) /\ UNCHANGED ledgerVars
       ELSE Completed(c, "error") /\ UNCHANGED queueVars
    /\ UNCHANGED <<grantVars, launchVars>>

PromptReturns(c) ==
    /\ c \notin Launches /\ step[c] = "running" /\ at[c] \notin Sending \cup {"idle"}
    /\ Completed(c, IF at[c] = "refused" THEN "error" ELSE "ok")
    /\ UNCHANGED <<queueVars, grantVars, launchVars>>

QueueMoves ==
    /\ \/ \E p \in Human : Enter(p)
       \/ \E p \in Prompts : PromptStep(p)
       \/ \E s \in Sessions : SessionStep(s)
    /\ UNCHANGED <<ledgerVars, grantVars, launchVars>>

(***************************************************************************)
(* The grants of a person, one change of a session at a time.              *)
(***************************************************************************)

Changing(s, what) == changing' = [changing EXCEPT ![s] = what]
Mark(s, how)      == shared' = [shared EXCEPT ![s] = how]

\* Sharing keeps a grant that is there.
Offer(s) == Mark(s, IF shared[s] = "no" THEN "yes" ELSE shared[s])

Share(s) ==
    /\ changing[s] = "no" /\ s \in alive /\ shared[s] = "no"
    /\ Changing(s, "sharing")
    /\ UNCHANGED <<queueVars, ledgerVars, shared, closing, launchVars>>

Shared(s) ==
    /\ changing[s] = "sharing"
    /\ Offer(s) /\ Changing(s, "no")
    /\ UNCHANGED <<queueVars, ledgerVars, closing, launchVars>>

Grant(s) ==
    /\ changing[s] = "no" /\ s \in alive /\ shared[s] # "no"
    /\ epoch[s] < MaxEpoch
    /\ Flip(s, TRUE) /\ Changing(s, "granting")
    /\ UNCHANGED <<alive, cli, draft, promptVars, ledgerVars, shared, closing, launchVars>>

\* set_control: nothing to mark when the session ended meanwhile.
Granted(s) ==
    /\ changing[s] = "granting"
    /\ IF shared[s] # "no" THEN Mark(s, "control") ELSE UNCHANGED shared
    /\ Changing(s, "no")
    /\ UNCHANGED <<queueVars, ledgerVars, closing, launchVars>>

\* Taking control back, alone or with the sharing: the epoch, the queue, the grant.
Revoke(s, how) ==
    /\ changing[s] = "no" /\ s \in alive /\ epoch[s] < MaxEpoch
    /\ how \in {"revoking", "unsharing"}
    /\ Flip(s, FALSE) /\ Changing(s, how)
    /\ UNCHANGED <<alive, cli, draft, promptVars, ledgerVars, shared, closing, launchVars>>

\* A session that ended meanwhile fails the change.
RevokeQueue(s) ==
    /\ changing[s] \in {"revoking", "unsharing"}
    /\ IF s \in alive
       THEN ClearMcp(s) /\ Changing(s, IF changing[s] = "revoking" THEN "revoked" ELSE "unshared")
       ELSE UNCHANGED promptVars /\ Changing(s, "no")
    /\ UNCHANGED <<agentVars, ledgerVars, shared, closing, launchVars>>

Revoked(s) ==
    /\ changing[s] \in {"revoked", "unshared"}
    /\ IF changing[s] = "unshared" \/ shared[s] = "no" THEN Mark(s, "no") ELSE Mark(s, "yes")
    /\ Changing(s, "no")
    /\ UNCHANGED <<queueVars, ledgerVars, closing, launchVars>>

\* A grant of a session that ended is dropped without its agent.
UnshareEnded(s) ==
    /\ changing[s] = "no" /\ s \notin alive /\ shared[s] # "no"
    /\ Mark(s, "no")
    /\ UNCHANGED <<queueVars, ledgerVars, changing, closing, launchVars>>

\* The CLI exits or is stopped: out of the registry, and then closed.
Exit(s) ==
    /\ s \in alive
    /\ alive' = alive \ {s} /\ closing' = closing \cup {s}
    /\ UNCHANGED <<epoch, cli, draft, promptVars, ledgerVars, shared, changing, launchVars>>

Closed(s) ==
    /\ s \in closing
    /\ closing' = closing \ {s}
    /\ launched' = launched \ {s}
    /\ Mark(s, "no")
    /\ UNCHANGED <<queueVars, ledgerVars, changing, launching, plans, generation, readUnder>>

(***************************************************************************)
(* Launches.                                                               *)
(***************************************************************************)

\* A step of a launch that the plans are locked for.
PlansLocked == \E c \in Launches : step[c] \in {"sharing", "controlling"}

\* Mutant of ReplacePlans: the plans are not locked while a launch is authorised.
ReplaceUnlocked ==
    /\ generation < MaxGeneration
    /\ generation' = generation + 1
    /\ plans' \in BOOLEAN
    /\ UNCHANGED <<queueVars, ledgerVars, grantVars, launched, launching, readUnder>>

ReplacePlans ==
    /\ ~PlansLocked /\ generation < MaxGeneration
    /\ generation' = generation + 1
    /\ plans' \in BOOLEAN
    /\ UNCHANGED <<queueVars, ledgerVars, grantVars, launched, launching, readUnder>>

\* The launch lock, the limits, then the plan and its generation.
CheckLimits(c) ==
    /\ c \in Launches /\ step[c] = "running" /\ launching = NoCall
    /\ launched' = launched \cap alive
    /\ IF Cardinality(launched \cap alive) < MaxLaunched /\ plans
       THEN /\ launching' = c
            /\ readUnder' = [readUnder EXCEPT ![c] = generation]
            /\ Go(c, "limited")
            /\ UNCHANGED <<recent, outcome, expired, waitsFor, answer>>
       ELSE Completed(c, "error") /\ UNCHANGED <<launching, readUnder>>
    /\ UNCHANGED <<queueVars, grantVars, plans, generation>>

Failed(c) == Completed(c, "error") /\ launching' = NoCall

Spawn(c) ==
    /\ step[c] = "limited"
    /\ alive' = alive \cup {session[c]}
    /\ Go(c, "spawned")
    /\ UNCHANGED <<epoch, cli, draft, promptVars, recent, outcome, expired, waitsFor, answer,
                   grantVars, launchVars>>

SpawnFailed(c) ==
    /\ step[c] = "limited"
    /\ Failed(c)
    /\ UNCHANGED <<queueVars, grantVars, launched, plans, generation, readUnder>>

\* The grant lock and the plans lock.  Authorisation that changed while the process
\* started stops the session; one that ended meanwhile only fails the launch.
Authorise(c) ==
    LET s == session[c]
        current == plans /\ generation = readUnder[c] IN
    /\ step[c] = "spawned" /\ changing[s] = "no"
    /\ IF current /\ s \in alive
       THEN /\ Flip(s, TRUE) /\ Changing(s, "launching") /\ Go(c, "sharing")
            /\ UNCHANGED <<alive, closing, recent, outcome, expired, waitsFor, answer, launching>>
       ELSE /\ Failed(c)
            /\ alive' = alive \ {s}
            /\ closing' = IF s \in alive THEN closing \cup {s} ELSE closing
            /\ UNCHANGED <<epoch, changing>>
    /\ UNCHANGED <<cli, draft, promptVars, shared, launched, plans, generation, readUnder>>

ShareLaunched(c) ==
    /\ step[c] = "sharing"
    /\ Offer(session[c]) /\ Go(c, "controlling")
    /\ UNCHANGED <<queueVars, recent, outcome, expired, waitsFor, answer, changing, closing,
                   launchVars>>

ControlLaunched(c) ==
    LET s == session[c] IN
    /\ step[c] = "controlling"
    /\ Changing(s, "no")
    /\ IF shared[s] # "no"
       THEN /\ Mark(s, "control") /\ Go(c, "noting")
            /\ UNCHANGED <<recent, outcome, expired, waitsFor, answer, launching>>
       ELSE Failed(c) /\ UNCHANGED shared
    /\ UNCHANGED <<queueVars, closing, launched, plans, generation, readUnder>>

Note(c) ==
    /\ step[c] = "noting"
    /\ launched' = launched \cup {session[c]}
    /\ launching' = NoCall
    /\ Completed(c, "ok")
    /\ UNCHANGED <<queueVars, grantVars, plans, generation, readUnder>>

Call(c) ==
    \/ Look(c) \/ Reserve(c) \/ Repeat(c) \/ WaitTimesOut(c) \/ Expire(c)
    \/ StartPrompt(c) \/ PromptReturns(c)

Launch(c) ==
    \/ CheckLimits(c) \/ Spawn(c) \/ SpawnFailed(c) \/ Authorise(c)
    \/ ShareLaunched(c) \/ ControlLaunched(c) \/ Note(c)

Person(s) ==
    \/ Share(s) \/ Shared(s) \/ Grant(s) \/ Granted(s)
    \/ Revoke(s, "revoking") \/ Revoke(s, "unsharing") \/ RevokeQueue(s) \/ Revoked(s)
    \/ UnshareEnded(s)

OperationsNext ==
    \/ \E c \in Calls : Call(c)
    \/ \E c \in Launches : Launch(c)
    \/ \E s \in Sessions : Person(s) \/ Exit(s) \/ Closed(s)
    \/ QueueMoves \/ ReplacePlans

OperationsSpec == OperationsInit /\ [][OperationsNext]_operationVars

(***************************************************************************)
(* Properties.                                                             *)
(***************************************************************************)

\* A request that may still be retried is carried out once, whatever its retries
\* meet: two calls that ran it are further apart than the retention.  What was
\* carried out writes its prompt once; what still waits was not written, unless it
\* is a person's whose delivery failed.  A retry hears the first outcome or none.
AtMostOnce ==
    /\ \A c, d \in Calls :
        (c # d /\ requestId[c] = requestId[d] /\ outcome[c] # "none" /\ outcome[d] # "none")
            => c \in expired \/ d \in expired
    /\ \A p \in Prompts :
        /\ writes[p] <= 1
        /\ p \in queue[session[p]] /\ p \notin unsure => writes[p] = 0
    /\ \A c \in Calls : waitsFor[c] # NoCall /\ answer[c] \in {"ok", "error"} =>
        answer[c] = outcome[waitsFor[c]]

\* Once control was taken back, nothing sent under it waits for a later grant.
RevokedLeaveQueue ==
    \A s \in alive : changing[s] \notin {"revoking", "unsharing"} =>
        \A p \in queue[s] : Matches(p)

\* The daemon and the agent agree on who has control of a live session.
GrantsAgree ==
    \A s \in alive : changing[s] = "no" => (shared[s] = "control" <=> Odd(epoch[s]))

\* No launch hands over control after the plans it was allowed by were replaced.
LaunchesCurrent ==
    \A c \in Launches : step[c] \in {"sharing", "controlling"} =>
        plans /\ generation = readUnder[c]

\* Observers never have more live sessions of their own than the limit.
LaunchesCounted ==
    Cardinality({c \in Launches : session[c] \in alive}) <= MaxLaunched

GrantsHonoured == RevokedLeaveQueue /\ GrantsAgree /\ LaunchesCurrent /\ LaunchesCounted

(***************************************************************************)
(* The abstract ledger.                                                    *)
(***************************************************************************)

Spawned == {"spawned", "sharing", "controlling", "noting"}

\* What a call has done: a prompt was written, a session was started.  A launch that is
\* over left none behind.
EffectOf(c) ==
    IF c \in Launches
    THEN IF session[c] \in alive THEN "done"
         ELSE IF outcome[c] \in {"ok", "error"} \/ step[c] \in Spawned THEN "over"
         ELSE "none"
    ELSE IF writes[c] > 0 THEN "done"
         ELSE IF outcome[c] = "error" THEN "over" ELSE "none"

Effects == [c \in Calls |-> EffectOf(c)]
Kept    == recent \ expired

Once == INSTANCE OnceLedger WITH
    Lasting <- Launches, MaxKept <- MaxRecentOutcomes,
    result <- outcome, kept <- Kept, joined <- waitsFor, told <- answer, effect <- Effects

\* The daemon keeps the promise of OnceLedger: every step of a call, a launch, a prompt,
\* a person or a session is a step of the abstract ledger or invisible to it.
RunsOnceAsPromised == Once!Spec
=============================================================================
