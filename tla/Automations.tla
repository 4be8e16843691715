----------------------------- MODULE Automations ---------------------------
(***************************************************************************)
(* Chat automations and their two runners: the window                      *)
(* (src/app/useAgentAutomations.ts) and the background service             *)
(* (src-tauri/src/agent_daemon/automations.rs).                            *)
(*                                                                         *)
(* Both keep a copy of the automation list, with the clock marks "next"    *)
(* and "last" of each entry.  The window pushes its whole copy, the        *)
(* service answers with its own marks, and each side keeps the newer       *)
(* marks.  The service fires while no window is attached, files a record   *)
(* of each run, and hands the records to the next window.  A request of    *)
(* the window may fail while the service lives (time-out, lost             *)
(* connection): the window then goes on alone, the service may still       *)
(* handle the request, and nobody waits for the answer.                    *)
(*                                                                         *)
(* Left out: the prompt and target of an automation, daily schedules (one  *)
(* period stands for every timed schedule), the chat a run streams into.   *)
(* A write of state.json succeeds, and a render follows each list change   *)
(* at once.                                                                *)
(***************************************************************************)
EXTENDS Naturals, FiniteSets, FiniteSetsExt

CONSTANTS
    Automation,    \* automation ids
    Source,        \* the automation each one is chained after, or Timed
    Timed,         \* "no source": the automation fires on its own period
    OnlyOnSuccess, \* chained automations that ignore a failed source
    Period,        \* time between two firings of a timed automation
    Cap,           \* MAX_CONCURRENT_RUNS, the same number on both sides
    Horizon,       \* bound on the clock
    MaxPushes,     \* bound on the pushes and answers on their way
    MaxEdits,      \* bound on the changes the person makes
    MaxOutages     \* bound on the stops of the service, the connections that
                   \* break, and the requests to a live service that fail

Null == 0
Time == 1..Horizon
Mark == 0..(Horizon + Period)

ASSUME AutomationConstants ==
    /\ IsFiniteSet(Automation)
    /\ Timed \notin Automation
    /\ Source \in [Automation -> Automation \cup {Timed}]
    /\ OnlyOnSuccess \subseteq Automation
    /\ Period \in Nat \ {0} /\ Cap \in Nat \ {0}
    /\ Horizon \in Nat \ {0} /\ MaxPushes \in Nat \ {0}
    /\ MaxEdits \in Nat /\ MaxOutages \in Nat

VARIABLES
    now,      \* the wall clock both sides read
    stage,    \* the window: closed, fresh, imported or ready
    mine,     \* the window's list, kept in its storage
    believed, \* what the window thinks the service is running
    history,  \* the runs the window remembers: its own, and those it took in
    up,       \* the service runs
    attached, \* the window's connection to it is registered
    kept,     \* the service's list
    disk,     \* state.json
    running,  \* automations the service marks as running
    records,  \* finished service runs on disk
    filed,    \* service runs whose record is written, not yet finished
    checked,  \* its ticker saw no window attached and is about to run due
    live,     \* runs in progress on either side
    pushes,   \* lists on their way to the service
    answers,  \* the service's marks on their way back
    taken,    \* records on their way to the window
    edits,    \* changes the person made
    outages,  \* stops, broken connections and failed requests so far
    served,   \* ghost: the service's runs since the last push
    alone,    \* ghost: the window went on without the service's word: a request
              \* failed or the connection was lost since its last answer
    late      \* ghost: service runs planned on a look at the windows that was
              \* over when one had attached

window  == <<stage, mine, believed, history>>
service == <<up, kept, disk, running, records, filed, checked>>
wire    == <<attached, pushes, answers, taken>>
bounds  == <<edits, outages>>
ghosts  == <<served, alone, late>>
vars    == <<now, window, service, wire, live, bounds, ghosts>>

(***************************************************************************)
(* Schedules and marks.                                                    *)
(***************************************************************************)
Sides == {"window", "service"}
Entry == [listed: BOOLEAN, enabled: BOOLEAN, next: Mark, last: Mark]
Run   == [of: Automation, mark: Mark, at: Time, by: Sides]
Push  == [list: [Automation -> Entry], first: BOOLEAN, awaited: BOOLEAN]
Answer == [list: [Automation -> Entry], running: SUBSET Automation, first: BOOLEAN]

Unlisted == [listed |-> FALSE, enabled |-> FALSE, next |-> Null, last |-> Null]

Chained(a) == Source[a] # Timed

\* Mutant of NextRunAfter: the period is counted from the mark it just made.
NextCountedTwice(a, t) == IF Chained(a) THEN Null ELSE t + Period + Period

\* Timed schedules fire strictly later; a chained one has no time of its own.
NextRunAfter(a, t) == IF Chained(a) THEN Null ELSE t + Period

\* A scheduled start moves the entry past its mark.
BeginRun(list, a) == [list[a] EXCEPT !.last = now, !.next = NextRunAfter(a, now)]

Due(list, busy) == {a \in Automation :
    /\ list[a].listed /\ list[a].enabled
    /\ list[a].next # Null /\ list[a].next <= now
    /\ a \notin busy}

\* Oldest due first, up to the room that is left.
Oldest(list, due, room) == {S \in SUBSET due :
    /\ Cardinality(S) = IF Cardinality(due) < room THEN Cardinality(due) ELSE room
    /\ \A a \in S, b \in due \ S : list[a].next <= list[b].next}

\* Mutant of Room: the last place is counted twice.
RoomForOneMore(used) == IF used <= Cap THEN Cap + 1 - used ELSE 0

Room(used) == IF used < Cap THEN Cap - used ELSE 0

\* A finished run makes what is chained after it due.
Trigger(list, a, ok) == [b \in Automation |->
    IF /\ list[b].listed /\ list[b].enabled
       /\ Source[b] = a
       /\ ok \/ b \notin OnlyOnSuccess
       /\ list[b].next = Null
    THEN [list[b] EXCEPT !.next = now]
    ELSE list[b]]

\* Mutant of Newer: the window's list is taken verbatim.
Verbatim(a, entry, other) ==
    IF Chained(a) /\ entry.next = Null /\ other.next # Null
    THEN [entry EXCEPT !.next = other.next]
    ELSE entry

\* Mutant of Newer: only the time of the last run is compared.
LatestRun(a, entry, other) ==
    IF other.last > entry.last
    THEN [entry EXCEPT !.last = other.last, !.next = other.next]
    ELSE entry

\* The entry that holds the newer marks of the same automation wins.
Newer(a, entry, other) ==
    IF other.last > entry.last
    THEN [entry EXCEPT !.last = other.last, !.next = other.next]
    ELSE IF Chained(a) /\ entry.next = Null /\ other.next # Null
    THEN [entry EXCEPT !.next = other.next]
    ELSE entry

Reconciled(list, other) == [a \in Automation |->
    IF list[a].listed /\ other[a].listed THEN Newer(a, list[a], other[a]) ELSE list[a]]

Marks(S) == {<<r.of, r.mark>> : r \in S}

RunOf(a, list, side) == [of |-> a, mark |-> list[a].next, at |-> now, by |-> side]

(***************************************************************************)
(* The window.                                                             *)
(***************************************************************************)
Working == {a \in Automation : mine[a].listed /\ \E r \in live : r.of = a /\ r.by = "window"}

Open ==
    /\ stage = "closed"
    /\ stage' = "fresh"
    /\ UNCHANGED <<now, mine, believed, history, service, wire, live, bounds, ghosts>>

\* Pushes nobody waits for any more: the service may still handle them.
Abandoned(S) == {[p EXCEPT !.first = FALSE, !.awaited = FALSE] : p \in S}

Outage == outages < MaxOutages /\ outages' = outages + 1

\* The connection ends.  The service still handles what it has accepted; no
\* answer arrives.
Hangup ==
    /\ attached' = FALSE
    /\ \E S \in SUBSET pushes : pushes' = Abandoned(S)
    /\ answers' = {} /\ taken' = {}

\* The window's runs go with it, and what it was told.
Close ==
    /\ stage # "closed"
    /\ stage' = "closed"
    /\ believed' = {} /\ alone' = FALSE
    /\ Hangup
    /\ live' = {r \in live : r.by = "service"}
    /\ UNCHANGED <<now, mine, history, service, bounds, served, late>>

\* A frame too long, a failed write: both sides live on.
ConnectionBreaks ==
    /\ attached /\ Outage
    /\ Hangup
    /\ alone' = (alone \/ stage = "ready")
    /\ UNCHANGED <<now, window, service, live, edits, served, late>>

\* The first request of a window connects it and says hello.
Attach ==
    /\ stage # "closed" /\ up /\ ~attached
    /\ attached' = TRUE
    /\ UNCHANGED <<now, window, service, pushes, answers, taken, live, bounds, ghosts>>

\* The service reads the finished records and removes them as it answers.
TakeRuns ==
    /\ attached /\ taken = {}
    /\ taken' = {records}
    /\ records' = {}
    /\ UNCHANGED <<now, window, up, kept, disk, running, filed, checked, attached, pushes,
                   answers, live, bounds, ghosts>>

LastRun(S, a) == Max({Null} \cup {r.at : r \in {s \in S : s.of = a}})

Imported(S) == [a \in Automation |->
    IF LastRun(S, a) > mine[a].last /\ mine[a].listed
    THEN [mine[a] EXCEPT !.last = LastRun(S, a)]
    ELSE mine[a]]

\* Mutant of AfterImport: the clock starts before the service has answered.
ReadyAtImport == IF stage = "fresh" THEN "ready" ELSE stage

\* The mount takes records in first, then pushes, and only then ticks.
AfterImport == IF stage = "fresh" THEN "imported" ELSE stage

ImportRuns == \E S \in taken :
    /\ taken' = {}
    /\ history' = history \cup S
    /\ mine' = Imported(S)
    /\ stage' = AfterImport
    /\ UNCHANGED <<now, believed, service, attached, pushes, answers, live, bounds, ghosts>>

\* A request fails: there is no service, or it did not answer in time, or
\* the connection was lost.
RequestFails == IF up THEN Outage ELSE UNCHANGED outages

\* Nothing is taken in, an answer on its way is forgotten, and the mount
\* goes on.
ImportNothing ==
    /\ RequestFails
    /\ stage = "fresh" \/ taken # {}
    /\ taken' = {}
    /\ stage' = AfterImport
    /\ UNCHANGED <<now, mine, believed, history, service, attached, pushes, answers, live,
                   edits, ghosts>>

Sync ==
    /\ attached
    /\ Cardinality(pushes) + Cardinality(answers) < MaxPushes
    /\ pushes' = pushes \cup {[list |-> mine, first |-> stage = "imported", awaited |-> TRUE]}
    /\ UNCHANGED <<now, window, service, attached, answers, taken, live, bounds, ghosts>>

\* The service's marks win where it got further than the window.
MergeStatus == \E s \in answers :
    /\ answers' = answers \ {s}
    /\ believed' = s.running
    /\ mine' = Reconciled(mine, s.list)
    /\ stage' = IF s.first THEN "ready" ELSE stage
    /\ alone' = FALSE
    /\ UNCHANGED <<now, history, service, attached, pushes, taken, live, bounds, served, late>>

\* The mount's own sync is under way.
FirstUnderWay == (\E p \in pushes : p.first /\ p.awaited) \/ \E s \in answers : s.first

\* With nothing enabled and no service found, nothing is sent, and the answer
\* is that nothing runs.
NotSent ==
    /\ believed' = believed \/ (believed' = {} /\ \A a \in Automation : ~mine[a].enabled)
    /\ stage' = IF FirstUnderWay THEN stage ELSE "ready"
    /\ UNCHANGED <<pushes, answers>>

\* The service may still handle the push.
PushAbandoned == \E p \in pushes :
    /\ p.awaited
    /\ pushes' = (pushes \ {p}) \cup Abandoned({p})
    /\ stage' = IF p.first THEN "ready" ELSE stage
    /\ UNCHANGED <<believed, answers>>

AnswerTooLate == \E s \in answers :
    /\ answers' = answers \ {s}
    /\ stage' = IF s.first THEN "ready" ELSE stage
    /\ UNCHANGED <<believed, pushes>>

\* Without the service's answer the window runs automations alone.
SyncFails ==
    /\ RequestFails /\ stage \in {"imported", "ready"}
    /\ NotSent \/ PushAbandoned \/ AnswerTooLate
    /\ alone' = (alone \/ stage' # stage \/ believed' # believed)
    /\ UNCHANGED <<now, mine, history, service, attached, taken, live, edits, served, late>>

\* The clock: what is due starts here, unless the service is running it.
Tick == \E S \in Oldest(mine, Due(mine, Working),
                        Room(Cardinality(Working) + Cardinality(believed))) :
    LET start == S \ believed
        runs  == {RunOf(a, mine, "window") : a \in start}
    IN  /\ stage = "ready" /\ start # {}
        /\ mine' = [a \in Automation |-> IF a \in start THEN BeginRun(mine, a) ELSE mine[a]]
        /\ live' = live \cup runs
        /\ history' = history \cup runs
        /\ UNCHANGED <<now, stage, believed, service, wire, bounds, ghosts>>

\* The turn of a run ends; a stopped one triggers nothing.
Ends == {"ok", "error", "stopped"}

FinishHere(r, outcome) ==
    /\ r \in live /\ r.by = "window" /\ r.at < now
    /\ live' = live \ {r}
    /\ mine' = IF outcome = "stopped" \/ ~mine[r.of].listed
               THEN mine ELSE Trigger(mine, r.of, outcome = "ok")
    /\ UNCHANGED <<now, stage, believed, history, service, wire, bounds, ghosts>>

Changes(a) ==
    /\ edits < MaxEdits /\ edits' = edits + 1
    /\ stage # "closed" /\ mine[a].listed
    /\ UNCHANGED <<now, stage, believed, service, wire, outages, ghosts>>

\* "Run now" leaves the planned time alone.
RunNow(a) == LET run == [of |-> a, mark |-> Null, at |-> now, by |-> "window"] IN
    /\ Changes(a) /\ a \notin Working
    /\ mine' = [mine EXCEPT ![a].last = now]
    /\ live' = live \cup {run}
    /\ history' = history \cup {run}

SetEnabled(a, on) ==
    /\ Changes(a) /\ mine[a].enabled # on
    /\ mine' = [mine EXCEPT ![a].enabled = on,
                            ![a].next = IF on THEN NextRunAfter(a, now) ELSE Null]
    /\ UNCHANGED <<live, history>>

Edit(a) ==
    /\ Changes(a)
    /\ mine' = [mine EXCEPT ![a].next = IF mine[a].enabled THEN NextRunAfter(a, now) ELSE Null]
    /\ UNCHANGED <<live, history>>

Remove(a) ==
    /\ Changes(a)
    /\ mine' = [mine EXCEPT ![a] = Unlisted]
    /\ UNCHANGED <<live, history>>

(***************************************************************************)
(* The service.                                                            *)
(***************************************************************************)
\* It is started by the window's sync, at login, or by an MCP client.
ServiceStarts ==
    /\ ~up
    /\ up' = TRUE
    /\ kept' = disk
    /\ UNCHANGED <<now, window, disk, running, records, filed, checked, wire, live, bounds, ghosts>>

\* It exits or dies: its runs and its connections go with it.
ServiceStops ==
    /\ up /\ Outage
    /\ up' = FALSE /\ checked' = FALSE
    /\ running' = {} /\ filed' = {}
    /\ live' = {r \in live : r.by = "window"}
    /\ attached' = FALSE
    /\ pushes' = {} /\ answers' = {} /\ taken' = {}
    /\ alone' = (alone \/ stage = "ready")
    /\ late' = {}
    /\ UNCHANGED <<now, window, kept, disk, records, edits, served>>

Persist(list) == disk' = list

\* replace: only the running marks of listed automations are kept.  The
\* answer reaches a window that still waits for it.
Replace == \E p \in pushes :
    /\ up
    /\ running' = {a \in running : p.list[a].listed}
    /\ kept' = Reconciled(p.list, kept)
    /\ Persist(kept')
    /\ pushes' = pushes \ {p}
    /\ answers' = IF ~p.awaited THEN answers ELSE answers \cup
                    {[list |-> kept', running |-> running', first |-> p.first]}
    /\ served' = {}
    /\ UNCHANGED <<now, window, up, records, filed, checked, attached, taken, live, bounds,
                   alone, late>>

\* Mutant of PersistPlan: only pushes and ends are written.
PlanInMemory(list) == UNCHANGED disk

PersistPlan(list) == disk' = list

\* The ticker counts the attached windows; with none it goes on to due.
LookForWindow ==
    /\ up /\ ~attached /\ ~checked
    /\ checked' = TRUE
    /\ UNCHANGED <<now, window, up, kept, disk, running, records, filed, wire, live, bounds,
                   ghosts>>

\* due takes the lock later, when a window may have attached, and spawns what
\* it planned.
StartDue == \E S \in Oldest(kept, Due(kept, running), Room(Cardinality(running))) :
    LET runs == {RunOf(a, kept, "service") : a \in S}
    IN  /\ up /\ checked
        /\ checked' = FALSE
        /\ kept' = [a \in Automation |-> IF a \in S THEN BeginRun(kept, a) ELSE kept[a]]
        /\ running' = running \cup S
        /\ IF S = {} THEN UNCHANGED disk ELSE PersistPlan(kept')
        /\ live' = live \cup runs
        /\ served' = served \cup Marks(runs)
        /\ late' = IF attached THEN late \cup runs ELSE late \ runs
        /\ UNCHANGED <<now, window, up, records, filed, wire, bounds, alone>>

\* A run ended or ran into its deadline: its record is written first.  A run
\* takes time, except at the end of the bounded clock.
SaveRecord(r) ==
    /\ r \in live \ filed /\ r.by = "service"
    /\ r.at < now \/ now = Horizon
    /\ records' = records \cup {r}
    /\ filed' = filed \cup {r}
    /\ UNCHANGED <<now, window, up, kept, disk, running, checked, wire, live, bounds, ghosts>>

\* Mutant of Cleared: the mark goes only with its automation.
MarkStays(r) == running \ {a \in {r.of} : ~kept[a].listed}

Cleared(r) == running \ {r.of}

\* finish clears the mark of the automation, whichever run set it.
Finish(r, ok) ==
    /\ r \in filed
    /\ live' = live \ {r}
    /\ filed' = filed \ {r}
    /\ running' = Cleared(r)
    /\ kept' = Trigger(kept, r.of, ok)
    /\ Persist(kept')
    /\ served' = {m \in served : m[2] # now}  \* a mark made now is a new one
    /\ late' = late \ {r}
    /\ UNCHANGED <<now, window, up, records, checked, wire, bounds, alone>>

Pass ==
    /\ now < Horizon
    /\ now' = now + 1
    /\ UNCHANGED <<window, service, wire, live, bounds, ghosts>>

(***************************************************************************)
(* The person has set up every automation and the window has just opened;  *)
(* no service ever ran.                                                    *)
(***************************************************************************)
Init ==
    /\ now = 1 /\ stage = "fresh"
    /\ mine = [a \in Automation |-> [listed |-> TRUE, enabled |-> TRUE,
                                     next |-> NextRunAfter(a, 1), last |-> Null]]
    /\ believed = {} /\ history = {}
    /\ up = FALSE /\ attached = FALSE /\ checked = FALSE
    /\ kept = [a \in Automation |-> Unlisted]
    /\ disk = kept
    /\ running = {} /\ records = {} /\ filed = {} /\ live = {}
    /\ pushes = {} /\ answers = {} /\ taken = {}
    /\ edits = 0 /\ outages = 0 /\ served = {} /\ alone = FALSE /\ late = {}

WindowNext ==
    \/ Open \/ Close \/ Attach \/ ConnectionBreaks \/ TakeRuns \/ ImportRuns \/ ImportNothing
    \/ Sync \/ MergeStatus \/ SyncFails \/ Tick
    \/ \E r \in live, outcome \in Ends : FinishHere(r, outcome)

PersonNext == \E a \in Automation :
    \/ RunNow(a) \/ Edit(a) \/ Remove(a)
    \/ \E on \in BOOLEAN : SetEnabled(a, on)

ServiceNext ==
    \/ ServiceStarts \/ ServiceStops \/ Replace \/ LookForWindow \/ StartDue
    \/ \E r \in live : SaveRecord(r) \/ \E ok \in BOOLEAN : Finish(r, ok)

Next == Pass \/ WindowNext \/ PersonNext \/ ServiceNext

Spec == Init /\ [][Next]_vars

\* Time passes, the service's ticker ticks, and its runs end: a turn that
\* does not end by itself meets RUN_DEADLINE.
FairSpec ==
    /\ Spec
    /\ WF_vars(Pass)
    /\ WF_vars(LookForWindow)
    /\ WF_vars(StartDue)
    /\ WF_vars(\E r \in live : SaveRecord(r))
    /\ WF_vars(\E r \in live, ok \in BOOLEAN : Finish(r, ok))

(***************************************************************************)
(* Properties.                                                             *)
(***************************************************************************)
TypeOK ==
    /\ now \in Time /\ edits \in 0..MaxEdits /\ outages \in 0..MaxOutages
    /\ stage \in {"closed", "fresh", "imported", "ready"}
    /\ {mine, kept, disk} \subseteq [Automation -> Entry]
    /\ {believed, running} \subseteq SUBSET Automation
    /\ {up, attached, checked, alone} \subseteq BOOLEAN
    /\ {history, records, live} \subseteq SUBSET Run
    /\ filed \cup late \subseteq {r \in live : r.by = "service"}
    /\ pushes \subseteq Push /\ answers \subseteq Answer
    /\ \A S \in taken : S \in SUBSET Run
    /\ served \subseteq Automation \X Mark

\* A running mark of the service always has a run behind it that will
\* clear it: no automation is skipped for ever because of a mark that a
\* removal, a restart or another run's end left behind.
EveryMarkHasRun == \A a \in running : \E r \in live : r.of = a /\ r.by = "service"

\* "Runs allowed at once", as far as it holds: only runs of automations that were removed
\* meanwhile come on top of the cap, so the marks count the runs of all others.
CapForListed == Cardinality({r \in live : r.by = "service" /\ mine[r.of].listed}) <= Cap

\* What the marks are for, the cap and no automation skipped for ever: every mark has its
\* run, and every run of an automation still listed has its place under the cap.
RunsCounted == EveryMarkHasRun /\ CapForListed

\* Marks survive a restart of the service and are moved before the run
\* starts: without a push in between, the service never starts the same due
\* mark twice, across its own crashes and the ends of the runs.
ServiceNeverRepeats ==
    [][\A r \in live' \ live : r.by = "service" => Marks({r}) \cap served = {}]_vars

\* "Progress made here while the window was away must not be undone by a
\* window that has not merged it yet": a push never takes the service's
\* last start of an automation back.
ProgressStays ==
    [][\A a \in Automation :
           up /\ up' /\ kept[a].listed /\ kept'[a].listed => kept'[a].last >= kept[a].last]_vars

\* A chained automation that became due stays due in the service, whatever
\* the window pushes meanwhile, until the service starts it.
DueChainStays ==
    [][\A a \in Automation :
           up /\ up' /\ Chained(a) /\ kept[a].next # Null /\ kept'[a].listed
           => kept'[a].next # Null \/ RunOf(a, kept, "service") \in live']_vars

\* What is due is not stuck behind the cap: with the window closed, the
\* marks of the runs before it are cleared and it is started.
DueRuns == \A a \in Automation :
    (a \in Due(kept, {}) /\ up /\ stage = "closed")
        ~> (a \notin Due(kept, {}) \/ a \in running \/ stage # "closed" \/ ~up)

\* The runs the two clocks start.
Clocked == {r \in live : r.by = "window" /\ r.mark # Null}
ByService == {r \in live : r.by = "service"}

\* "One that is still running is skipped rather than started twice": the two
\* clocks come to run one automation at the same time only after the window went on
\* without the service's word, or when the service's look for a window was over
\* before the window attached.  The order of the mount, the answers, and the
\* marks in them rule out every other way.
TakeoverClean ==
    [][\A r \in Clocked', s \in ByService' :
           r.of = s.of /\ ~(r \in live /\ s \in live) => alone \/ s \in late']_vars

\* "Runs allowed at once": the service never executes more than the cap.
CapHolds == Cardinality({r \in live : r.by = "service"}) <= Cap

\* "This window never re-runs an automation the service already ran."
ServiceRunNotRepeated ==
    [][\A r \in live' \ live : r.by = "window" =>
           Marks({r}) \cap Marks({s \in history : s.by = "service"}) = {}]_vars

\* "A chained automation's due mark is consumed by starting."
DueMarkConsumed ==
    [][\A r \in live' \ live : r.by = "window" /\ r.mark # Null =>
           Marks({r}) \cap Marks({s \in history : s.by = "window"}) = {}]_vars
=============================================================================
