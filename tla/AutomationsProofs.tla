------------------------- MODULE AutomationsProofs -------------------------
(***************************************************************************)
(* The safety of Automations, for every set of automations, every chain,   *)
(* period, cap and bound.  The inductive invariant says four things: what  *)
(* each variable holds, that no copy of the list and no run is ahead of    *)
(* the clock, that state.json is the list of a running service, and that   *)
(* a start moves its mark for good.                                        *)
(***************************************************************************)
EXTENDS Automations, FiniteSetTheorems, WellFoundedInduction, TLAPS

\* A copy of the list, in a storage or on the wire: no run of the future, and
\* no time planned for an automation that is not listed.
Good(list, t) ==
    /\ list \in [Automation -> Entry]
    /\ \A a \in Automation :
           /\ list[a].last <= t
           /\ ~list[a].listed => list[a].next = Null

Past(S, t) == \A r \in S : r \in Run /\ r.at <= t

Scalars ==
    /\ now \in Time /\ edits \in 0..MaxEdits /\ outages \in 0..MaxOutages
    /\ stage \in {"closed", "fresh", "imported", "ready"}
    /\ believed \subseteq Automation /\ running \subseteq Automation
    /\ up \in BOOLEAN /\ attached \in BOOLEAN /\ checked \in BOOLEAN /\ alone \in BOOLEAN
    /\ filed \subseteq {r \in live : r.by = "service"}
    /\ late \subseteq {r \in live : r.by = "service"}
    /\ served \subseteq Automation \X Mark

Copies ==
    /\ Good(mine, now) /\ Good(kept, now) /\ Good(disk, now)
    /\ \A p \in pushes : p \in Push /\ Good(p.list, now)
    /\ \A s \in answers : s \in Answer /\ Good(s.list, now)

RunsPast ==
    /\ Past(live, now) /\ Past(history, now) /\ Past(records, now)
    /\ \A S \in taken : Past(S, now)

\* What the service knows is on disk, and what it started stays started.
Durable ==
    /\ up => kept = disk
    /\ ~up => \A r \in live : r.by # "service"
    /\ \A m \in served : m[2] <= now
    /\ \A m \in served : disk[m[1]].next = Null \/ disk[m[1]].next > m[2]

IInv == Scalars /\ Copies /\ RunsPast /\ EveryMarkHasRun /\ Durable

(***************************************************************************)
(* The operators on lists.                                                 *)
(***************************************************************************)
LEMMA NextTyped == ASSUME NEW a \in Automation, NEW t \in Time
                   PROVE  NextRunAfter(a, t) \in Mark
BY AutomationConstants DEF NextRunAfter, Mark, Time, Null

LEMMA GoodInit ==
    ASSUME NEW list, \A a \in Automation : list[a] \in Entry /\ list[a].last = Null
                                           /\ (~list[a].listed => list[a].next = Null),
           list = [a \in Automation |-> list[a]]
    PROVE  Good(list, 1)
BY DEF Good, Null

LEMMA GoodLater == ASSUME NEW list, NEW t \in Nat, Good(list, t) PROVE Good(list, t + 1)
BY AutomationConstants DEF Good, Entry, Mark

\* The entries that start were listed: Due says so.
LEMMA BeginGood ==
    ASSUME NEW list, now \in Time, Good(list, now),
           NEW S, \A a \in S : list[a].listed
    PROVE  Good([a \in Automation |-> IF a \in S THEN BeginRun(list, a) ELSE list[a]], now)
<1> DEFINE new == [a \in Automation |-> IF a \in S THEN BeginRun(list, a) ELSE list[a]]
<1>1. ASSUME NEW a \in Automation
      PROVE  /\ new[a] \in Entry /\ new[a].last <= now
             /\ ~new[a].listed => new[a].next = Null
  <2>1. list[a] \in Entry /\ list[a].last <= now /\ (~list[a].listed => list[a].next = Null)
    BY DEF Good
  <2>2. CASE a \notin S
    BY <2>1, <2>2
  <2>3. CASE a \in S
    <3>1. new[a] = [list[a] EXCEPT !.last = now, !.next = NextRunAfter(a, now)]
      BY <2>3 DEF BeginRun
    <3>2. now \in Mark /\ now <= now
      BY AutomationConstants DEF Time, Mark
    <3> QED
      BY ZenonT(60), <2>1, <2>3, <3>1, <3>2, NextTyped DEF Entry
  <2> QED
    BY <2>2, <2>3
<1> QED
  BY <1>1 DEF Good

LEMMA TriggerGood ==
    ASSUME NEW list, now \in Time, Good(list, now), NEW a, NEW ok
    PROVE  Good(Trigger(list, a, ok), now)
<1> DEFINE new == Trigger(list, a, ok)
<1>1. ASSUME NEW b \in Automation
      PROVE  /\ new[b] \in Entry /\ new[b].last <= now
             /\ ~new[b].listed => new[b].next = Null
  <2>1. list[b] \in Entry /\ list[b].last <= now /\ (~list[b].listed => list[b].next = Null)
    BY DEF Good
  <2>2. now \in Mark
    BY AutomationConstants DEF Time, Mark
  <2>3. new[b] = list[b] \/ (list[b].listed /\ new[b] = [list[b] EXCEPT !.next = now])
    BY DEF Trigger
  <2> QED
    BY <2>1, <2>2, <2>3 DEF Entry
<1> QED
  BY <1>1 DEF Good, Trigger

\* What Newer returns: the marks of one of its arguments, never the older run,
\* and never a chained entry whose due mark is gone.
LEMMA NewerFacts ==
    ASSUME NEW a, NEW entry \in Entry, NEW other \in Entry
    PROVE  /\ Newer(a, entry, other) \in Entry
           /\ Newer(a, entry, other).listed = entry.listed
           /\ Newer(a, entry, other).last >= entry.last
           /\ Newer(a, entry, other).last >= other.last
           /\ Newer(a, entry, other).last \in {entry.last, other.last}
           /\ Chained(a) /\ other.next # Null => Newer(a, entry, other).next # Null
<1>1. \A t \in Mark : t \in Nat
  BY AutomationConstants DEF Mark
<1>2. CASE other.last > entry.last
  <2>1. Newer(a, entry, other) = [entry EXCEPT !.last = other.last, !.next = other.next]
    BY <1>2 DEF Newer
  <2>2. /\ Newer(a, entry, other).listed = entry.listed
        /\ Newer(a, entry, other).last = other.last
        /\ Newer(a, entry, other).next = other.next
    BY <2>1 DEF Entry
  <2>3. Newer(a, entry, other) \in Entry
    BY <2>1 DEF Entry
  <2>4. entry.last \in Nat /\ other.last \in Nat
    BY <1>1 DEF Entry
  <2> QED
    BY <1>2, <2>2, <2>3, <2>4
<1>3. CASE ~(other.last > entry.last) /\ Chained(a) /\ entry.next = Null /\ other.next # Null
  <2>1. Newer(a, entry, other) = [entry EXCEPT !.next = other.next]
    BY <1>3 DEF Newer
  <2> QED
    BY <1>1, <1>3, <2>1 DEF Entry
<1>4. CASE ~(other.last > entry.last) /\ ~(Chained(a) /\ entry.next = Null /\ other.next # Null)
  <2>1. Newer(a, entry, other) = entry
    BY <1>4 DEF Newer
  <2> QED
    BY <1>1, <1>4, <2>1 DEF Entry
<1> QED
  BY <1>2, <1>3, <1>4

LEMMA ReconciledGood ==
    ASSUME NEW list, NEW other, now \in Time, Good(list, now), Good(other, now)
    PROVE  /\ Good(Reconciled(list, other), now)
           /\ \A a \in Automation : Reconciled(list, other)[a].listed = list[a].listed
<1> DEFINE new == Reconciled(list, other)
<1>1. ASSUME NEW a \in Automation
      PROVE  /\ new[a] \in Entry /\ new[a].last <= now /\ new[a].listed = list[a].listed
             /\ ~new[a].listed => new[a].next = Null
  <2>1. /\ list[a] \in Entry /\ list[a].last <= now /\ (~list[a].listed => list[a].next = Null)
        /\ other[a] \in Entry /\ other[a].last <= now
    BY DEF Good
  <2>2. new[a] = IF list[a].listed /\ other[a].listed THEN Newer(a, list[a], other[a]) ELSE list[a]
    BY DEF Reconciled
  <2>3. CASE list[a].listed /\ other[a].listed
    <3>1. new[a] = Newer(a, list[a], other[a])
      BY <2>2, <2>3
    <3>2. list[a] \in Entry /\ other[a] \in Entry
      BY <2>1
    <3>3. /\ Newer(a, list[a], other[a]) \in Entry
          /\ Newer(a, list[a], other[a]).listed = list[a].listed
          /\ Newer(a, list[a], other[a]).last \in {list[a].last, other[a].last}
      BY <3>2, NewerFacts
    <3> QED
      BY <2>1, <2>3, <3>1, <3>3
  <2>4. CASE ~(list[a].listed /\ other[a].listed)
    BY <2>1, <2>2, <2>4
  <2> QED
    BY <2>3, <2>4
<1> QED
  BY <1>1 DEF Good, Reconciled

\* The largest of a bounded set of naturals is one of them.
LEMMA MaxInSet ==
    ASSUME NEW S, S \subseteq 0..Horizon, S # {}
    PROVE  Max(S) \in S
<1> DEFINE T == {Horizon - t : t \in S}
<1>1. T \subseteq Nat /\ T # {}
  <2>1. \A t \in S : Horizon - t \in Nat
    BY AutomationConstants
  <2>2. PICK t \in S : TRUE
    OBVIOUS
  <2>3. Horizon - t \in T
    OBVIOUS
  <2> QED
    BY <2>1, <2>3
<1> DEFINE below == {ss \in Nat \X Nat : ss[1] < ss[2]}
<1>a. IsWellFoundedOn(below, Nat)
  BY NatLessThanWellFounded DEF OpToRel
<1>2. PICK m \in T : \A y \in T : ~(<<y, m>> \in below)
  <2> HIDE DEF T, below
  <2> QED
    BY <1>1, <1>a, WFMin
<1>3. \A y \in T : y >= m
  <2> SUFFICES ASSUME NEW y \in T PROVE y >= m
    OBVIOUS
  <2>1. y \in Nat /\ m \in Nat
    BY <1>1
  <2>2. ~(y < m)
    BY <1>2, <2>1
  <2> QED
    BY <2>1, <2>2
<1>4. PICK x \in S : m = Horizon - x
  BY <1>2
<1>5. \A y \in S : x >= y
  <2> SUFFICES ASSUME NEW y \in S PROVE x >= y
    OBVIOUS
  <2>1. Horizon - y >= Horizon - x
    BY <1>3, <1>4
  <2> QED
    BY <2>1, AutomationConstants
<1> QED
  BY <1>5 DEF Max

LEMMA ImportedGood ==
    ASSUME NEW S, now \in Time, Past(S, now), Good(mine, now)
    PROVE  Good(Imported(S), now)
<1>1. ASSUME NEW a \in Automation PROVE LastRun(S, a) \in Mark /\ LastRun(S, a) <= now
  <2> DEFINE ats == {Null} \cup {r.at : r \in {s \in S : s.of = a}}
  <2>1. ats \subseteq 0..Horizon /\ ats # {} /\ \A t \in ats : t <= now
    BY AutomationConstants DEF Past, Run, Time, Null
  <2>2. Max(ats) \in ats
    BY <2>1, MaxInSet
  <2> QED
    BY <2>1, <2>2, AutomationConstants DEF LastRun, Mark
<1> DEFINE new == Imported(S)
<1>2. ASSUME NEW a \in Automation
      PROVE  /\ new[a] \in Entry /\ new[a].last <= now
             /\ ~new[a].listed => new[a].next = Null
  <2>1. mine[a] \in Entry /\ mine[a].last <= now /\ (~mine[a].listed => mine[a].next = Null)
    BY DEF Good
  <2>2. new[a] = mine[a] \/ (mine[a].listed /\ new[a] = [mine[a] EXCEPT !.last = LastRun(S, a)])
    BY DEF Imported
  <2> QED
    BY <1>1, <2>1, <2>2 DEF Entry
<1> QED
  BY <1>2 DEF Good, Imported

(***************************************************************************)
(* The copies of the list.                                                 *)
(***************************************************************************)
LEMMA CopiesInit == Init => Copies
<1> SUFFICES ASSUME Init PROVE Copies
  OBVIOUS
<1>1. 1 \in Time /\ Null \in Mark
  BY AutomationConstants DEF Time, Mark, Null
<1>2. ASSUME NEW a \in Automation
      PROVE  mine[a] \in Entry /\ mine[a].last = Null /\ mine[a].listed
  BY <1>1, NextTyped DEF Init, Entry
<1>3. ASSUME NEW a \in Automation
      PROVE  kept[a] \in Entry /\ kept[a].last = Null /\ kept[a].next = Null
  BY <1>1 DEF Init, Entry, Unlisted
<1>4. Good(mine, 1) /\ Good(kept, 1)
  BY <1>2, <1>3, GoodInit DEF Init
<1> QED
  BY <1>4 DEF Init, Copies

LEMMA AbandonedPush ==
    ASSUME NEW p \in Push
    PROVE  LET q == [p EXCEPT !.first = FALSE, !.awaited = FALSE]
           IN  q \in Push /\ q.list = p.list /\ ~q.awaited
BY DEF Push

LEMMA CopiesKept ==
    ASSUME Copies, now' = now, mine' = mine, kept' = kept, disk' \in {disk, kept},
           pushes' \subseteq pushes \cup Abandoned(pushes), answers' \subseteq answers
    PROVE  Copies'
<1>1. ASSUME NEW q \in pushes' PROVE q \in Push /\ Good(q.list, now)
  <2>1. CASE q \in pushes
    BY <2>1 DEF Copies
  <2>2. CASE q \in Abandoned(pushes)
    BY <2>2, AbandonedPush DEF Copies, Abandoned
  <2> QED
    BY <2>1, <2>2
<1> QED
  BY <1>1 DEF Copies

\* The person and the window change one list: its own.
LEMMA CopiesMine ==
    ASSUME Copies, Good(mine', now), UNCHANGED <<now, kept, disk, pushes>>,
           answers' \subseteq answers
    PROVE  Copies'
BY DEF Copies

LEMMA CopiesStep == Scalars /\ Copies /\ RunsPast /\ [Next]_vars => Copies'
<1> SUFFICES ASSUME Scalars, Copies, RunsPast, [Next]_vars PROVE Copies'
  OBVIOUS
<1> USE DEF window, service, wire, bounds, ghosts
<1>a. /\ now \in Time
      /\ Good(mine, now) /\ Good(kept, now) /\ Good(disk, now)
  BY DEF Scalars, Copies
<1>1. CASE UNCHANGED vars
  BY <1>1, CopiesKept DEF vars
<1>2. CASE Pass
  <2>1. now' = now + 1 /\ now \in Nat /\ UNCHANGED <<mine, kept, disk, pushes, answers>>
    BY <1>2, <1>a, AutomationConstants DEF Pass, Time
  <2>2. \A list : Good(list, now) => Good(list, now + 1)
    BY <2>1, GoodLater
  <2> QED
    BY <2>1, <2>2 DEF Copies
<1>3. CASE WindowNext
  <2>1. CASE Open \/ Attach \/ TakeRuns \/ ImportNothing
    BY <2>1, CopiesKept DEF Open, Attach, TakeRuns, ImportNothing
  <2>7. CASE Close \/ ConnectionBreaks
    BY <2>7, CopiesKept DEF Close, ConnectionBreaks, Hangup, Abandoned
  <2>8. CASE SyncFails
    BY <2>8, CopiesKept DEF SyncFails, NotSent, PushAbandoned, AnswerTooLate, Abandoned
  <2>2. CASE ImportRuns
    <3>1. PICK S \in taken : mine' = Imported(S) /\ UNCHANGED <<now, kept, disk, pushes, answers>>
      BY <2>2 DEF ImportRuns
    <3>2. Good(mine', now)
      BY <1>a, <3>1, ImportedGood DEF RunsPast
    <3> QED
      BY <3>1, <3>2, CopiesMine
  <2>3. CASE Sync
    <3> DEFINE p == [list |-> mine, first |-> stage = "imported", awaited |-> TRUE]
    <3>2. pushes' = pushes \cup {p} /\ UNCHANGED <<now, mine, kept, disk, answers>>
      BY <2>3 DEF Sync
    <3>3. p \in Push /\ Good(p.list, now)
      BY <1>a DEF Push, Good
    <3> QED
      BY <3>2, <3>3 DEF Copies
  <2>4. CASE MergeStatus
    <3>1. PICK s \in answers : /\ mine' = Reconciled(mine, s.list)
                               /\ answers' = answers \ {s}
                               /\ UNCHANGED <<now, kept, disk, pushes>>
      BY <2>4 DEF MergeStatus
    <3>2. Good(s.list, now)
      BY DEF Copies
    <3>3. Good(mine', now)
      BY <1>a, <3>1, <3>2, ReconciledGood
    <3> QED
      BY <3>1, <3>3, CopiesMine
  <2>5. CASE Tick
    <3>1. PICK start : /\ start \subseteq Due(mine, Working)
                       /\ mine' = [a \in Automation |-> IF a \in start THEN BeginRun(mine, a) ELSE mine[a]]
                       /\ UNCHANGED <<now, kept, disk, pushes, answers>>
      BY <2>5 DEF Tick, Oldest
    <3>2. Good(mine', now)
      BY <1>a, <3>1, BeginGood DEF Due
    <3> QED
      BY <3>1, <3>2, CopiesMine
  <2>6. ASSUME NEW r \in live, NEW outcome \in Ends, FinishHere(r, outcome) PROVE Copies'
    <3>1. /\ mine' \in {mine, Trigger(mine, r.of, outcome = "ok")}
          /\ UNCHANGED <<now, kept, disk, pushes, answers>>
      BY <2>6 DEF FinishHere
    <3>2. Good(mine', now)
      BY <1>a, <3>1, TriggerGood
    <3> QED
      BY <3>1, <3>2, CopiesMine
  <2> QED
    BY <1>3, <2>1, <2>2, <2>3, <2>4, <2>5, <2>6, <2>7, <2>8 DEF WindowNext
<1>4. ASSUME NEW a \in Automation,
             RunNow(a) \/ Edit(a) \/ Remove(a) \/ \E on \in BOOLEAN : SetEnabled(a, on)
      PROVE  Copies'
  <2>1. /\ mine[a].listed /\ UNCHANGED <<now, kept, disk, pushes, answers>>
        /\ mine \in [Automation -> Entry] /\ mine[a] \in Entry
        /\ now \in Mark /\ now <= now /\ Null \in Mark /\ Null <= now
    <3>1. mine[a].listed /\ UNCHANGED <<now, kept, disk, pushes, answers>>
      BY <1>4 DEF RunNow, Edit, Remove, SetEnabled, Changes
    <3>2. mine \in [Automation -> Entry] /\ mine[a] \in Entry
      BY <1>a DEF Good
    <3>3. now \in Mark /\ now <= now /\ Null \in Mark /\ Null <= now
      BY <1>a, AutomationConstants DEF Time, Mark, Null
    <3> QED
      BY <3>1, <3>2, <3>3
  <2>2. PICK entry : mine' = [mine EXCEPT ![a] = entry]
                     /\ entry \in Entry /\ entry.last <= now
                     /\ (~entry.listed => entry.next = Null)
    <3>1. CASE RunNow(a)
      <4> WITNESS [mine[a] EXCEPT !.last = now]
      <4> QED
        BY <2>1, <3>1 DEF RunNow, Entry
    <3>2. CASE Edit(a)
      <4>1. PICK t \in Mark : mine' = [mine EXCEPT ![a].next = t]
        BY <1>a, <2>1, <3>2, NextTyped DEF Edit
      <4> WITNESS [mine[a] EXCEPT !.next = t]
      <4> QED
        BY <1>a, <2>1, <4>1 DEF Entry, Good
    <3>3. CASE Remove(a)
      <4> WITNESS Unlisted
      <4> QED
        BY <2>1, <3>3 DEF Remove, Entry, Unlisted
    <3>4. ASSUME NEW on \in BOOLEAN, SetEnabled(a, on)
          PROVE  \E entry : mine' = [mine EXCEPT ![a] = entry]
                     /\ entry \in Entry /\ entry.last <= now
                     /\ (~entry.listed => entry.next = Null)
      <4>1. PICK t \in Mark : mine' = [mine EXCEPT ![a].enabled = on, ![a].next = t]
        BY <1>a, <2>1, <3>4, NextTyped DEF SetEnabled
      <4> WITNESS [mine[a] EXCEPT !.enabled = on, !.next = t]
      <4> QED
        BY <1>a, <2>1, <4>1 DEF Entry, Good
    <3> QED
      BY <1>4, <3>1, <3>2, <3>3, <3>4
  <2>3. Good(mine', now)
    BY <1>a, <2>1, <2>2 DEF Good
  <2> QED
    BY <2>1, <2>3, CopiesMine
<1>5. CASE ServiceNext
  <2>1. CASE ServiceStarts \/ LookForWindow
    BY <2>1 DEF ServiceStarts, LookForWindow, Copies
  <2>2. CASE ServiceStops
    BY <2>2, CopiesKept DEF ServiceStops
  <2>3. CASE Replace
    <3>1. PICK p \in pushes : /\ kept' = Reconciled(p.list, kept) /\ disk' = kept'
                              /\ pushes' = pushes \ {p}
                              /\ answers' \subseteq answers \cup
                                   {[list |-> kept', running |-> running', first |-> p.first]}
                              /\ running' \subseteq running
                              /\ UNCHANGED <<now, mine>>
      BY <2>3 DEF Replace, Persist
    <3>2. p \in Push /\ Good(p.list, now)
      BY DEF Copies
    <3>3. Good(kept', now)
      BY <1>a, <3>1, <3>2, ReconciledGood
    <3>4. [list |-> kept', running |-> running', first |-> p.first] \in Answer
      BY <3>1, <3>2, <3>3 DEF Answer, Push, Good, Scalars
    <3> QED
      BY <3>1, <3>3, <3>4 DEF Copies
  <2>4. CASE StartDue
    <3>1. PICK S : /\ S \subseteq Due(kept, running)
                   /\ kept' = [a \in Automation |-> IF a \in S THEN BeginRun(kept, a) ELSE kept[a]]
                   /\ disk' \in {disk, kept'} /\ UNCHANGED <<now, mine, pushes, answers>>
      BY <2>4 DEF StartDue, Oldest, PersistPlan
    <3>2. Good(kept', now)
      BY <1>a, <3>1, BeginGood DEF Due
    <3> QED
      BY <3>1, <3>2 DEF Copies
  <2>5. ASSUME NEW r \in live, SaveRecord(r) PROVE Copies'
    BY <2>5, CopiesKept DEF SaveRecord
  <2>6. ASSUME NEW r \in live, NEW ok \in BOOLEAN, Finish(r, ok) PROVE Copies'
    <3>1. /\ kept' = Trigger(kept, r.of, ok) /\ disk' = kept'
          /\ UNCHANGED <<now, mine, pushes, answers>>
      BY <2>6 DEF Finish, Persist
    <3>2. Good(kept', now)
      BY <1>a, <3>1, TriggerGood
    <3> QED
      BY <3>1, <3>2 DEF Copies
  <2> QED
    BY <1>5, <2>1, <2>2, <2>3, <2>4, <2>5, <2>6 DEF ServiceNext
<1> QED
  BY <1>1, <1>2, <1>3, <1>4, <1>5 DEF Next, PersonNext

(***************************************************************************)
(* The runs.                                                               *)
(***************************************************************************)
LEMMA RunTyped ==
    ASSUME now \in Time, NEW list, Good(list, now), NEW a \in Automation, NEW side \in Sides
    PROVE  RunOf(a, list, side) \in Run /\ RunOf(a, list, side).at = now
BY DEF RunOf, Run, Good, Entry

LEMMA RunsInit == Init => RunsPast
BY DEF Init, RunsPast, Past

LEMMA RunsStep == Scalars /\ Copies /\ RunsPast /\ [Next]_vars => RunsPast'
<1> SUFFICES ASSUME Scalars, Copies, RunsPast, [Next]_vars PROVE RunsPast'
  OBVIOUS
<1> USE DEF window, service, wire, bounds, ghosts
<1>a. now \in Time /\ now \in Nat /\ Good(mine, now) /\ Good(kept, now)
  BY AutomationConstants DEF Scalars, Copies, Time
\* Every run is an old one, or one that starts now.
<1>b. ASSUME now' = now, history' \subseteq history \cup live', records' \subseteq records \cup live',
             taken' \subseteq taken \cup {records},
             \A r \in live' \ live : r \in Run /\ r.at = now
      PROVE  RunsPast'
  BY <1>a, <1>b DEF RunsPast, Past
<1>c. ASSUME now' = now, UNCHANGED <<history, records, taken>>, live' \subseteq live
      PROVE  RunsPast'
  BY <1>b, <1>c
<1>1. CASE UNCHANGED vars
  BY <1>1, <1>c DEF vars
<1>2. CASE Pass
  <2>1. now' = now + 1 /\ UNCHANGED <<live, history, records, taken>>
    BY <1>2 DEF Pass
  <2>2. \A r \in Run : r.at <= now => r.at <= now + 1
    BY <1>a, AutomationConstants DEF Run, Time
  <2> QED
    BY <2>1, <2>2 DEF RunsPast, Past
<1>3. CASE WindowNext
  <2>1. CASE Open \/ Attach \/ SyncFails \/ Sync \/ MergeStatus
    BY <2>1, <1>c DEF Open, Attach, SyncFails, Sync, MergeStatus
  <2>2. CASE Close \/ ConnectionBreaks \/ ImportNothing
    BY <2>2, <1>b DEF Close, ConnectionBreaks, Hangup, ImportNothing
  <2>3. CASE TakeRuns
    BY <2>3, <1>b DEF TakeRuns
  <2>4. CASE ImportRuns
    <3>1. PICK S \in taken : history' = history \cup S /\ taken' = {} /\ UNCHANGED <<now, live, records>>
      BY <2>4 DEF ImportRuns
    <3> QED
      BY <3>1 DEF RunsPast, Past
  <2>5. CASE Tick
    <3>1. PICK S : /\ S \subseteq Due(mine, Working)
                   /\ live' = live \cup {RunOf(a, mine, "window") : a \in S}
                   /\ history' = history \cup {RunOf(a, mine, "window") : a \in S}
                   /\ UNCHANGED <<now, records, taken>>
      <4>1. PICK S \in Oldest(mine, Due(mine, Working),
                              Room(Cardinality(Working) + Cardinality(believed))) :
                   /\ live' = live \cup {RunOf(a, mine, "window") : a \in S \ believed}
                   /\ history' = history \cup {RunOf(a, mine, "window") : a \in S \ believed}
                   /\ UNCHANGED <<now, records, taken>>
        BY <2>5 DEF Tick
      <4> WITNESS S \ believed
      <4> QED
        BY <4>1 DEF Oldest
    <3>2. \A a \in S : RunOf(a, mine, "window") \in Run /\ RunOf(a, mine, "window").at = now
      BY <1>a, <3>1, RunTyped DEF Due, Sides
    <3> QED
      BY <3>1, <3>2, <1>b
  <2>6. ASSUME NEW r \in live, NEW outcome \in Ends, FinishHere(r, outcome) PROVE RunsPast'
    BY <2>6, <1>c DEF FinishHere
  <2> QED
    BY <1>3, <2>1, <2>2, <2>3, <2>4, <2>5, <2>6 DEF WindowNext
<1>4. ASSUME NEW a \in Automation,
             RunNow(a) \/ Edit(a) \/ Remove(a) \/ \E on \in BOOLEAN : SetEnabled(a, on)
      PROVE  RunsPast'
  <2>1. CASE RunNow(a)
    <3> DEFINE run == [of |-> a, mark |-> Null, at |-> now, by |-> "window"]
    <3>1. run \in Run /\ run.at = now
      BY <1>a, AutomationConstants DEF Run, Mark, Sides, Null
    <3>2. live' = live \cup {run} /\ history' = history \cup {run} /\ UNCHANGED <<now, records, taken>>
      BY <2>1 DEF RunNow, Changes
    <3> QED
      BY <3>1, <3>2, <1>b
  <2>2. CASE Edit(a) \/ Remove(a) \/ \E on \in BOOLEAN : SetEnabled(a, on)
    BY <2>2, <1>c DEF Edit, Remove, SetEnabled, Changes
  <2> QED
    BY <1>4, <2>1, <2>2
<1>5. CASE ServiceNext
  <2>1. CASE ServiceStarts \/ Replace \/ LookForWindow
    BY <2>1, <1>c DEF ServiceStarts, Replace, LookForWindow
  <2>2. CASE ServiceStops
    BY <2>2, <1>b DEF ServiceStops
  <2>3. CASE StartDue
    <3>1. PICK S : /\ S \subseteq Due(kept, running)
                   /\ live' = live \cup {RunOf(a, kept, "service") : a \in S}
                   /\ UNCHANGED <<now, history, records, taken>>
      BY <2>3 DEF StartDue, Oldest
    <3>2. \A a \in S : RunOf(a, kept, "service") \in Run /\ RunOf(a, kept, "service").at = now
      BY <1>a, <3>1, RunTyped DEF Due, Sides
    <3> QED
      BY <3>1, <3>2, <1>b
  <2>4. ASSUME NEW r \in live, SaveRecord(r) PROVE RunsPast'
    BY <2>4, <1>b DEF SaveRecord
  <2>5. ASSUME NEW r \in live, NEW ok \in BOOLEAN, Finish(r, ok) PROVE RunsPast'
    BY <2>5, <1>c DEF Finish
  <2> QED
    BY <1>5, <2>1, <2>2, <2>3, <2>4, <2>5 DEF ServiceNext
<1> QED
  BY <1>1, <1>2, <1>3, <1>4, <1>5 DEF Next, PersonNext

(***************************************************************************)
(* The marks of the service.                                               *)
(***************************************************************************)
LEMMA MarkedInit == Init => EveryMarkHasRun
BY DEF Init, EveryMarkHasRun

LEMMA MarkedKept ==
    ASSUME EveryMarkHasRun, running' \subseteq running,
           \A r \in live : r.by = "service" => r \in live'
    PROVE  EveryMarkHasRun'
BY DEF EveryMarkHasRun

LEMMA MarkedStep == EveryMarkHasRun /\ [Next]_vars => EveryMarkHasRun'
<1> SUFFICES ASSUME EveryMarkHasRun, [Next]_vars PROVE EveryMarkHasRun'
  OBVIOUS
<1> USE DEF window, service, wire, bounds, ghosts
<1>1. CASE UNCHANGED vars \/ Pass
  BY <1>1, MarkedKept DEF vars, Pass
<1>2. CASE WindowNext
  <2>1. CASE \/ Open \/ Attach \/ ConnectionBreaks \/ TakeRuns \/ ImportRuns \/ ImportNothing
             \/ Sync \/ MergeStatus \/ SyncFails
    BY <2>1, MarkedKept
    DEF Open, Attach, ConnectionBreaks, TakeRuns, ImportRuns, ImportNothing, Sync, MergeStatus,
        SyncFails
  <2>2. CASE Close
    BY <2>2, MarkedKept DEF Close
  <2>3. CASE Tick
    BY <2>3, MarkedKept DEF Tick
  <2>4. ASSUME NEW r \in live, NEW outcome \in Ends, FinishHere(r, outcome) PROVE EveryMarkHasRun'
    BY <2>4, MarkedKept DEF FinishHere
  <2> QED
    BY <1>2, <2>1, <2>2, <2>3, <2>4 DEF WindowNext
<1>3. CASE PersonNext
  BY <1>3, MarkedKept DEF PersonNext, RunNow, Edit, Remove, SetEnabled, Changes
<1>4. CASE ServiceNext
  <2>1. CASE ServiceStarts \/ Replace \/ LookForWindow
    BY <2>1, MarkedKept DEF ServiceStarts, Replace, LookForWindow
  <2>2. CASE ServiceStops
    BY <2>2 DEF ServiceStops, EveryMarkHasRun
  \* A mark and its run start together.
  <2>3. CASE StartDue
    <3>1. PICK S : /\ running' = running \cup S
                   /\ live' = live \cup {RunOf(a, kept, "service") : a \in S}
      BY <2>3 DEF StartDue
    <3>2. \A a \in S : RunOf(a, kept, "service").of = a /\ RunOf(a, kept, "service").by = "service"
      BY DEF RunOf
    <3> QED
      BY <3>1, <3>2 DEF EveryMarkHasRun
  <2>4. ASSUME NEW r \in live, SaveRecord(r) PROVE EveryMarkHasRun'
    BY <2>4, MarkedKept DEF SaveRecord
  \* The mark goes before its run does.
  <2>5. ASSUME NEW r \in live, NEW ok \in BOOLEAN, Finish(r, ok) PROVE EveryMarkHasRun'
    BY <2>5 DEF Finish, Cleared, EveryMarkHasRun
  <2> QED
    BY <1>4, <2>1, <2>2, <2>3, <2>4, <2>5 DEF ServiceNext
<1> QED
  BY <1>1, <1>2, <1>3, <1>4 DEF Next

(***************************************************************************)
(* The rest of the types, and state.json.                                  *)
(***************************************************************************)
LEMMA ScalarsInit == Init => Scalars
<1> SUFFICES ASSUME Init PROVE Scalars
  OBVIOUS
<1>1. now \in Time /\ edits \in 0..MaxEdits /\ outages \in 0..MaxOutages
  BY AutomationConstants DEF Init, Time
<1>2. believed = {} /\ running = {} /\ filed = {} /\ served = {} /\ late = {}
  BY DEF Init
<1>3. stage = "fresh" /\ up = FALSE /\ attached = FALSE /\ checked = FALSE /\ alone = FALSE
  BY DEF Init
<1> QED
  BY <1>1, <1>2, <1>3 DEF Scalars

LEMMA OutageTyped == ASSUME Scalars, Outage PROVE outages' \in 0..MaxOutages
BY AutomationConstants DEF Scalars, Outage

LEMMA ScalarsStep == Scalars /\ Copies /\ [Next]_vars => Scalars'
<1> SUFFICES ASSUME Scalars, Copies, [Next]_vars PROVE Scalars'
  OBVIOUS
<1> USE DEF window, service, wire, bounds, ghosts
<1>1. CASE UNCHANGED vars
  BY <1>1 DEF vars, Scalars
<1>2. CASE Pass
  BY <1>2, AutomationConstants DEF Pass, Scalars, Time
<1>3. CASE WindowNext
  <2>1. CASE Open \/ Attach \/ TakeRuns \/ ImportRuns \/ Sync
    BY <2>1 DEF Open, Attach, TakeRuns, ImportRuns, Sync, AfterImport, Scalars
  <2>2. CASE Close
    BY <2>2 DEF Close, Hangup, Scalars
  <2>6. CASE ConnectionBreaks
    BY <2>6, OutageTyped DEF ConnectionBreaks, Hangup, Scalars
  <2>7. CASE ImportNothing
    BY <2>7, OutageTyped DEF ImportNothing, RequestFails, AfterImport, Scalars
  <2>8. CASE SyncFails
    <3>1. /\ outages' \in 0..MaxOutages
          /\ UNCHANGED <<now, edits, running, up, attached, checked, filed, late, live, served>>
          /\ alone' = (alone \/ stage' # stage \/ believed' # believed)
      BY <2>8, OutageTyped DEF SyncFails, RequestFails, Scalars
    <3>2. stage' \in {stage, "ready"} /\ believed' \in {believed, {}}
      BY <2>8 DEF SyncFails, NotSent, PushAbandoned, AnswerTooLate
    <3> QED
      BY <3>1, <3>2 DEF Scalars
  <2>3. CASE MergeStatus
    <3>1. PICK s \in answers : /\ believed' = s.running
                               /\ stage' = IF s.first THEN "ready" ELSE stage
                               /\ alone' = FALSE
                               /\ UNCHANGED <<now, service, attached, live, bounds, served, late>>
      BY <2>3 DEF MergeStatus
    <3>2. s.running \subseteq Automation
      BY DEF Copies, Answer
    <3> QED
      BY <3>1, <3>2 DEF Scalars
  <2>4. CASE Tick
    BY <2>4 DEF Tick, Scalars
  <2>5. ASSUME NEW r \in live, NEW outcome \in Ends, FinishHere(r, outcome) PROVE Scalars'
    BY <2>5 DEF FinishHere, Scalars
  <2> QED
    BY <1>3, <2>1, <2>2, <2>3, <2>4, <2>5, <2>6, <2>7, <2>8 DEF WindowNext
<1>4. CASE PersonNext
  <2>1. /\ edits < MaxEdits /\ edits' = edits + 1 /\ live \subseteq live'
        /\ UNCHANGED <<now, stage, believed, service, attached, outages, ghosts>>
    BY <1>4 DEF PersonNext, RunNow, Edit, Remove, SetEnabled, Changes
  <2> QED
    BY <2>1, AutomationConstants DEF Scalars
<1>5. CASE ServiceNext
  <2>1. CASE ServiceStarts \/ LookForWindow
    BY <2>1 DEF ServiceStarts, LookForWindow, Scalars
  <2>6. CASE ServiceStops
    BY <2>6, OutageTyped DEF ServiceStops, Scalars
  <2>2. CASE Replace
    BY <2>2 DEF Replace, Scalars
  <2>3. CASE StartDue
    <3>1. PICK S : /\ S \subseteq Due(kept, running)
                   /\ running' = running \cup S
                   /\ live' = live \cup {RunOf(a, kept, "service") : a \in S}
                   /\ served' = served \cup Marks({RunOf(a, kept, "service") : a \in S})
                   /\ checked' = FALSE
                   /\ late' \subseteq late \cup {RunOf(a, kept, "service") : a \in S}
                   /\ UNCHANGED <<now, window, up, filed, attached, bounds, alone>>
      BY <2>3 DEF StartDue, Oldest
    <3>2. \A a \in S : a \in Automation /\ kept[a].next \in Mark
      BY <3>1 DEF Due, Copies, Good, Entry
    <3>3. Marks({RunOf(a, kept, "service") : a \in S}) \subseteq Automation \X Mark
      BY <3>2 DEF Marks, RunOf
    <3>4. \A a \in S : RunOf(a, kept, "service").by = "service"
      BY DEF RunOf
    <3> QED
      BY <3>1, <3>2, <3>3, <3>4 DEF Scalars
  <2>4. ASSUME NEW r \in live, SaveRecord(r) PROVE Scalars'
    BY <2>4 DEF SaveRecord, Scalars
  <2>5. ASSUME NEW r \in live, NEW ok \in BOOLEAN, Finish(r, ok) PROVE Scalars'
    BY <2>5 DEF Finish, Cleared, Scalars
  <2> QED
    BY <1>5, <2>1, <2>2, <2>3, <2>4, <2>5, <2>6 DEF ServiceNext
<1> QED
  BY <1>1, <1>2, <1>3, <1>4, <1>5 DEF Next

LEMMA DurableInit == Init => Durable
BY DEF Init, Durable

\* Nothing of the service changes, but runs of the window.
LEMMA DurableKept ==
    ASSUME Durable, UNCHANGED <<now, up, kept, disk, served>>,
           \A r \in live' \ live : r.by # "service"
    PROVE  Durable'
BY DEF Durable

\* Where the starts of StartDue leave the list: past the mark, or at none.
LEMMA StartMoves ==
    ASSUME Scalars, Copies, NEW S, S \subseteq Due(kept, running), NEW a \in S,
           kept' = [b \in Automation |-> IF b \in S THEN BeginRun(kept, b) ELSE kept[b]]
    PROVE  kept'[a].next \in Nat /\ (kept'[a].next = Null \/ kept'[a].next > now)
<1>1. a \in Automation /\ kept[a] \in Entry /\ now \in Time
  BY DEF Due, Scalars, Copies, Good
<1>2. kept'[a].next = NextRunAfter(a, now)
  BY <1>1 DEF BeginRun, Entry
<1> QED
  BY <1>1, <1>2, AutomationConstants DEF NextRunAfter, Time, Null

LEMMA DurableStep == Scalars /\ Copies /\ Durable /\ [Next]_vars => Durable'
<1> SUFFICES ASSUME Scalars, Copies, Durable, [Next]_vars PROVE Durable'
  OBVIOUS
<1> USE DEF window, service, wire, bounds, ghosts
<1>1. CASE UNCHANGED vars
  BY <1>1, DurableKept DEF vars
<1>2. CASE Pass
  <2>1. now' = now + 1 /\ now \in Nat /\ UNCHANGED <<up, kept, disk, live, served>>
    BY <1>2, AutomationConstants DEF Pass, Scalars, Time
  <2>2. \A m \in served : m[2] \in Nat
    BY AutomationConstants DEF Scalars, Mark
  <2> QED
    BY <2>1, <2>2 DEF Durable
<1>3. CASE WindowNext
  <2>1. CASE \/ Open \/ Close \/ Attach \/ ConnectionBreaks \/ TakeRuns \/ ImportRuns
             \/ ImportNothing \/ Sync \/ MergeStatus \/ SyncFails
    BY <2>1, DurableKept
    DEF Open, Close, Attach, ConnectionBreaks, TakeRuns, ImportRuns, ImportNothing, Sync,
        MergeStatus, SyncFails
  <2>2. CASE Tick
    BY <2>2, DurableKept DEF Tick, RunOf
  <2>3. ASSUME NEW r \in live, NEW outcome \in Ends, FinishHere(r, outcome) PROVE Durable'
    BY <2>3, DurableKept DEF FinishHere
  <2> QED
    BY <1>3, <2>1, <2>2, <2>3 DEF WindowNext
<1>4. CASE PersonNext
  <2>1. PICK a \in Automation : RunNow(a) \/ Edit(a) \/ Remove(a) \/ \E on \in BOOLEAN : SetEnabled(a, on)
    BY <1>4 DEF PersonNext
  <2>2. CASE RunNow(a)
    BY <2>2, DurableKept DEF RunNow, Changes
  <2>3. CASE ~RunNow(a)
    BY <2>1, <2>3, DurableKept DEF Edit, Remove, SetEnabled, Changes
  <2> QED
    BY <2>2, <2>3
<1>5. CASE ServiceNext
  <2>1. CASE ServiceStarts \/ LookForWindow
    BY <2>1 DEF ServiceStarts, LookForWindow, Durable
  <2>2. CASE ServiceStops
    BY <2>2 DEF ServiceStops, Durable
  <2>3. CASE Replace
    BY <2>3 DEF Replace, Persist, Durable
  <2>4. CASE StartDue
    <3>1. PICK S : /\ S \subseteq Due(kept, running)
                   /\ kept' = [a \in Automation |-> IF a \in S THEN BeginRun(kept, a) ELSE kept[a]]
                   /\ (IF S = {} THEN disk' = disk ELSE disk' = kept') /\ up
                   /\ served' = served \cup Marks({RunOf(a, kept, "service") : a \in S})
                   /\ UNCHANGED <<now, up>>
      BY <2>4 DEF StartDue, Oldest, PersistPlan
    <3>2. kept = disk /\ disk' = kept'
      BY <3>1 DEF Durable, Copies, Good
    <3>3. \A m \in served' : m[2] \in Nat /\ m[2] <= now /\ now \in Nat
      <4>1. \A a \in S : kept[a].next \in Nat /\ kept[a].next <= now
        BY <3>1, AutomationConstants DEF Due, Copies, Good, Entry, Mark
      <4>2. \A m \in served : m[2] \in Nat /\ m[2] <= now
        BY AutomationConstants DEF Durable, Scalars, Mark
      <4>3. now \in Nat
        BY AutomationConstants DEF Scalars, Time
      <4> QED
        BY <3>1, <4>1, <4>2, <4>3 DEF Marks, RunOf
    <3>4. ASSUME NEW m \in served' PROVE disk'[m[1]].next = Null \/ disk'[m[1]].next > m[2]
      <4>1. m[1] \in S \/ (m \in served /\ m[1] \in Automation \ S)
        BY <3>1 DEF Marks, RunOf, Scalars
      <4>2. CASE m[1] \in S
        <5>1. disk'[m[1]].next \in Nat /\ (disk'[m[1]].next = Null \/ disk'[m[1]].next > now)
          BY <3>1, <4>2, StartMoves
        <5> QED
          BY <3>3, <5>1
      <4>3. CASE m \in served /\ m[1] \in Automation \ S
        BY <3>1, <3>2, <4>3 DEF Durable
      <4> QED
        BY <4>1, <4>2, <4>3
    <3> QED
      BY <3>1, <3>2, <3>3, <3>4 DEF Durable
  <2>5. ASSUME NEW r \in live, SaveRecord(r) PROVE Durable'
    BY <2>5, DurableKept DEF SaveRecord
  \* What a run triggers is due now: later than every mark that remains.
  <2>6. ASSUME NEW r \in live, NEW ok \in BOOLEAN, Finish(r, ok) PROVE Durable'
    <3>1. /\ kept' = Trigger(kept, r.of, ok) /\ disk' = kept'
          /\ served' = {m \in served : m[2] # now}
          /\ live' \subseteq live /\ UNCHANGED <<now, up>>
      BY <2>6 DEF Finish, Persist
    <3>2. up /\ kept = disk
      BY <2>6 DEF Finish, Scalars, Durable
    <3>3. \A m \in served' : m[1] \in Automation /\ m[2] < now
      BY <3>1, AutomationConstants DEF Durable, Scalars, Mark, Time
    <3>4. \A a \in Automation : kept'[a].next \in {kept[a].next, now}
      BY <3>1 DEF Trigger, Copies, Good, Entry
    <3> QED
      BY <3>1, <3>2, <3>3, <3>4 DEF Durable
  <2> QED
    BY <1>5, <2>1, <2>2, <2>3, <2>4, <2>5, <2>6 DEF ServiceNext
<1> QED
  BY <1>1, <1>2, <1>3, <1>4, <1>5 DEF Next

(***************************************************************************)
(* The theorems.                                                           *)
(***************************************************************************)
LEMMA IInvInvariant == Spec => []IInv
<1>1. Init => IInv
  BY ScalarsInit, CopiesInit, RunsInit, MarkedInit, DurableInit DEF IInv
<1>2. IInv /\ [Next]_vars => IInv'
  BY ScalarsStep, CopiesStep, RunsStep, MarkedStep, DurableStep DEF IInv
<1> QED
  BY <1>1, <1>2, PTL DEF Spec

\* For every set of automations, chain and bound: what each variable of the
\* window, of the service and of the wire between them holds.
THEOREM TypeCorrect == Spec => []TypeOK
<1>1. IInv => TypeOK
  <2> SUFFICES ASSUME IInv PROVE TypeOK
    OBVIOUS
  <2> USE DEF IInv
  <2>1. {mine, kept, disk} \subseteq [Automation -> Entry]
    BY DEF Copies, Good
  <2>2. {history, records, live} \subseteq SUBSET Run /\ \A S \in taken : S \in SUBSET Run
    BY DEF RunsPast, Past
  <2>3. pushes \subseteq Push /\ answers \subseteq Answer
    BY DEF Copies
  <2> QED
    BY <2>1, <2>2, <2>3 DEF Scalars, TypeOK
<1> QED
  BY <1>1, IInvInvariant, PTL

\* Whatever the window removes and however the service dies: an automation the
\* service marks as running has a run that will clear the mark.
THEOREM MarksCorrect == Spec => []EveryMarkHasRun
<1>1. IInv => EveryMarkHasRun
  BY DEF IInv
<1> QED
  BY <1>1, IInvInvariant, PTL

\* The service's starts are those of StartDue.
LEMMA ServiceRunStarts ==
    ASSUME [Next]_vars, NEW r \in live' \ live, r.by = "service"
    PROVE  /\ StartDue
           /\ \E a \in Due(kept, running) : r = RunOf(a, kept, "service")
<1> USE DEF window, service, wire, bounds, ghosts
<1>1. CASE UNCHANGED vars \/ Pass
  BY <1>1 DEF vars, Pass
<1>2. CASE WindowNext
  BY <1>2 DEF WindowNext, Open, Close, Attach, ConnectionBreaks, Hangup, TakeRuns, ImportRuns, ImportNothing,
              Sync,
              MergeStatus, SyncFails, Tick, FinishHere, RunOf
<1>3. CASE PersonNext
  <2>1. PICK a \in Automation : RunNow(a) \/ Edit(a) \/ Remove(a) \/ \E on \in BOOLEAN : SetEnabled(a, on)
    BY <1>3 DEF PersonNext
  <2>2. CASE RunNow(a)
    BY <2>2 DEF RunNow
  <2>3. CASE ~RunNow(a)
    BY <2>1, <2>3 DEF Edit, Remove, SetEnabled
  <2> QED
    BY <2>2, <2>3
<1>4. CASE ServiceNext
  <2>1. CASE StartDue
    BY <2>1 DEF StartDue, Oldest
  <2>2. CASE ~StartDue
    BY <1>4, <2>2 DEF ServiceNext, ServiceStarts, ServiceStops, Replace, LookForWindow, SaveRecord, Finish
  <2> QED
    BY <2>1, <2>2
<1> QED
  BY <1>1, <1>2, <1>3, <1>4 DEF Next

\* For every chain, period and cap, across any crashes of the service: without
\* a push in between it never starts one due mark twice.
THEOREM RepeatsCorrect == Spec => ServiceNeverRepeats
<1>1. IInv /\ [Next]_vars => [\A r \in live' \ live : r.by = "service" => Marks({r}) \cap served = {}]_vars
  <2> SUFFICES ASSUME IInv, [Next]_vars, NEW r \in live' \ live, r.by = "service"
               PROVE  Marks({r}) \cap served = {}
    OBVIOUS
  <2>1. up
    BY ServiceRunStarts DEF StartDue
  <2>2. PICK a \in Due(kept, running) : r = RunOf(a, kept, "service")
    BY ServiceRunStarts
  <2>3. kept = disk /\ kept[a].next # Null /\ kept[a].next \in Nat
    BY <2>1, AutomationConstants DEF IInv, Durable, Due, Copies, Good, Entry, Mark
  <2>4. <<a, kept[a].next>> \notin served
    <3> SUFFICES ASSUME <<a, kept[a].next>> \in served PROVE FALSE
      OBVIOUS
    <3>1. disk[a].next = Null \/ disk[a].next > kept[a].next
      BY DEF IInv, Durable
    <3> QED
      BY <2>3, <3>1
  <2> QED
    BY <2>2, <2>4 DEF Marks, RunOf
<1> QED
  BY <1>1, IInvInvariant, PTL DEF Spec, ServiceNeverRepeats

\* A step of a running service that leaves it running changes its list in one
\* of three ways, or not at all.
LEMMA KeptChanges ==
    ASSUME Copies, [Next]_vars, up, up', kept' # kept
    PROVE  \/ StartDue
           \/ \E p \in pushes : kept' = Reconciled(p.list, kept)
           \/ \E r \in live, ok \in BOOLEAN : kept' = Trigger(kept, r.of, ok)
<1> USE DEF window, service, wire, bounds, ghosts
<1>1. CASE UNCHANGED vars \/ Pass
  BY <1>1 DEF vars, Pass
<1>2. CASE WindowNext
  BY <1>2 DEF WindowNext, Open, Close, Attach, ConnectionBreaks, Hangup, TakeRuns, ImportRuns, ImportNothing,
              Sync,
              MergeStatus, SyncFails, Tick, FinishHere
<1>3. CASE PersonNext
  BY <1>3 DEF PersonNext, RunNow, Edit, Remove, SetEnabled, Changes
<1>4. CASE ServiceNext
  BY <1>4 DEF ServiceNext, ServiceStarts, ServiceStops, Replace, LookForWindow, SaveRecord, Finish
<1> QED
  BY <1>1, <1>2, <1>3, <1>4 DEF Next

\* Whatever the window pushes, and however late: the service's last start of an
\* automation is never taken back.
THEOREM ProgressCorrect == Spec => ProgressStays
<1>1. IInv /\ [Next]_vars => [\A a \in Automation :
          up /\ up' /\ kept[a].listed /\ kept'[a].listed => kept'[a].last >= kept[a].last]_vars
  <2> SUFFICES ASSUME IInv, [Next]_vars, NEW a \in Automation,
                      up, up', kept[a].listed, kept'[a].listed
               PROVE  kept'[a].last >= kept[a].last
    OBVIOUS
  <2>1. kept[a] \in Entry /\ kept[a].last \in Nat /\ kept[a].last <= now /\ now \in Nat
    BY AutomationConstants DEF IInv, Copies, Scalars, Good, Entry, Mark, Time
  <2>2. CASE kept' = kept
    BY <2>1, <2>2
  <2>3. CASE StartDue
    <3>1. PICK S : kept' = [b \in Automation |-> IF b \in S THEN BeginRun(kept, b) ELSE kept[b]]
      BY <2>3 DEF StartDue
    <3>2. kept'[a] = kept[a] \/ kept'[a].last = now
      BY <2>1, <3>1 DEF BeginRun, Entry
    <3> QED
      BY <2>1, <3>2
  <2>4. ASSUME NEW p \in pushes, kept' = Reconciled(p.list, kept) PROVE kept'[a].last >= kept[a].last
    <3>1. p.list[a] \in Entry
      BY DEF IInv, Copies, Good
    <3>2. Newer(a, p.list[a], kept[a]).last >= kept[a].last
      BY <2>1, <3>1, NewerFacts
    <3>3. kept'[a] = IF p.list[a].listed /\ kept[a].listed THEN Newer(a, p.list[a], kept[a]) ELSE p.list[a]
      BY <2>4 DEF Reconciled
    <3>4. p.list[a].listed
      BY <3>3
    <3> QED
      BY <3>2, <3>3, <3>4
  <2>5. ASSUME NEW r \in live, NEW ok \in BOOLEAN, kept' = Trigger(kept, r.of, ok)
        PROVE  kept'[a].last >= kept[a].last
    <3>1. kept'[a].last = kept[a].last
      BY <2>1, <2>5 DEF Trigger, Entry
    <3> QED
      BY <2>1, <3>1
  <2> QED
    BY <2>2, <2>3, <2>4, <2>5, KeptChanges DEF IInv
<1> QED
  BY <1>1, IInvInvariant, PTL DEF Spec, ProgressStays

\* A due chained automation stays due in the service through any pushes, until
\* the service starts it.
THEOREM DueChainCorrect == Spec => DueChainStays
<1>1. IInv /\ [Next]_vars => [\A a \in Automation :
          up /\ up' /\ Chained(a) /\ kept[a].next # Null /\ kept'[a].listed
          => kept'[a].next # Null \/ RunOf(a, kept, "service") \in live']_vars
  <2> SUFFICES ASSUME IInv, [Next]_vars, NEW a \in Automation,
                      up, up', Chained(a), kept[a].next # Null, kept'[a].listed, kept' # kept
               PROVE  kept'[a].next # Null \/ RunOf(a, kept, "service") \in live'
    OBVIOUS
  <2>1. kept[a] \in Entry /\ kept[a].listed /\ now \in Nat /\ now # Null
    BY AutomationConstants DEF IInv, Copies, Scalars, Good, Time, Null
  <2>2. CASE StartDue
    <3>1. PICK S : /\ S \subseteq Due(kept, running)
                   /\ kept' = [b \in Automation |-> IF b \in S THEN BeginRun(kept, b) ELSE kept[b]]
                   /\ live' = live \cup {RunOf(b, kept, "service") : b \in S}
      BY <2>2 DEF StartDue, Oldest
    <3>2. CASE a \notin S
      BY <3>1, <3>2
    <3>3. CASE a \in S
      BY <3>1, <3>3
    <3> QED
      BY <3>2, <3>3
  <2>3. ASSUME NEW p \in pushes, kept' = Reconciled(p.list, kept) PROVE kept'[a].next # Null
    <3>1. p.list[a] \in Entry
      BY DEF IInv, Copies, Good
    <3>2. Newer(a, p.list[a], kept[a]).next # Null
      BY <2>1, <3>1, NewerFacts
    <3>3. kept'[a] = IF p.list[a].listed /\ kept[a].listed THEN Newer(a, p.list[a], kept[a]) ELSE p.list[a]
      BY <2>3 DEF Reconciled
    <3>4. p.list[a].listed
      BY <3>3
    <3> QED
      BY <2>1, <3>2, <3>3, <3>4
  <2>4. ASSUME NEW r \in live, NEW ok \in BOOLEAN, kept' = Trigger(kept, r.of, ok)
        PROVE  kept'[a].next # Null
    BY <2>1, <2>4 DEF Trigger, Entry
  <2> QED
    BY <2>2, <2>3, <2>4, KeptChanges DEF IInv
<1> QED
  BY <1>1, IInvInvariant, PTL DEF Spec, DueChainStays
(***************************************************************************)
(* The two clocks.  While the window has the service's word, it knows of   *)
(* every run of the service, but those planned late and those of           *)
(* automations it has removed; and it has that word only while attached.   *)
(***************************************************************************)
Forgotten(a) == ~mine[a].listed

\* An answer, or a push somebody waits for, belongs to a window that is attached.
Connected ==
    /\ attached => up /\ stage # "closed"
    /\ ~attached => answers = {} /\ taken = {} /\ \A p \in pushes : ~p.awaited
    /\ stage = "ready" /\ ~alone => attached

\* A list on its way to the service holds at least what the window still lists.
Pushed == \A p \in pushes : \A a \in Automation : p.list[a].listed \/ Forgotten(a)

\* A run of the service is among these automations, or its automation was removed.
Covered(S) == \A r \in ByService : r.of \in S \/ Forgotten(r.of)

\* The same of the runs that were not planned late.
Told(S) == \A r \in ByService \ late : r.of \in S \/ Forgotten(r.of)

Known ==
    /\ Covered(running)
    /\ \A s \in answers : Told(s.running)
    /\ stage = "ready" /\ ~alone => Told(believed)

\* Only of a removed automation has the service two runs.
Single == \A r, s \in ByService : r # s /\ r.of = s.of => Forgotten(r.of)

Ready == Clocked # {} => stage = "ready"

Handover == Connected /\ Pushed /\ Known /\ Single /\ Ready

LEMMA HandoverInit == Init => Handover
<1> SUFFICES ASSUME Init PROVE Handover
  OBVIOUS
<1>1. live = {} /\ pushes = {} /\ answers = {} /\ taken = {} /\ ~attached /\ stage = "fresh"
  BY DEF Init
<1> QED
  BY <1>1 DEF Handover, Connected, Pushed, Known, Covered, Told, Single, Ready,
     ByService, Clocked

\* What the person changes is the window's; a run they start has no mark.
LEMMA PersonMoves ==
    ASSUME PersonNext
    PROVE  /\ UNCHANGED <<now, stage, believed, service, attached, pushes, answers, taken, ghosts>>
           /\ live \subseteq live'
           /\ \A r \in live' \ live : r.by = "window" /\ r.mark = Null
<1>1. PICK a \in Automation : RunNow(a) \/ Edit(a) \/ Remove(a) \/ \E on \in BOOLEAN : SetEnabled(a, on)
  BY DEF PersonNext
<1>2. CASE RunNow(a)
  BY <1>2 DEF RunNow, Changes, wire
<1>3. CASE ~RunNow(a)
  BY <1>1, <1>3 DEF Edit, Remove, SetEnabled, Changes, wire
<1> QED
  BY <1>2, <1>3

LEMMA ConnectedStep == Scalars /\ Copies /\ Connected /\ [Next]_vars => Connected'
<1> SUFFICES ASSUME Scalars, Copies, Connected, [Next]_vars PROVE Connected'
  OBVIOUS
<1> USE DEF window, service, wire, bounds, ghosts, Connected
<1>a. \A p \in Abandoned(pushes) : ~p.awaited
  BY AbandonedPush DEF Abandoned, Copies
<1>b. \A S \in SUBSET pushes : Abandoned(S) \subseteq Abandoned(pushes)
  BY DEF Abandoned
<1>1. CASE UNCHANGED vars \/ Pass \/ PersonNext
  BY <1>1, PersonMoves DEF vars, Pass
<1>2. CASE WindowNext
  <2>1. CASE Open \/ Attach \/ TakeRuns \/ ImportRuns \/ ImportNothing
    BY <2>1 DEF Open, Attach, TakeRuns, ImportRuns, ImportNothing, AfterImport
  <2>2. CASE Close \/ ConnectionBreaks
    BY <1>a, <1>b, <2>2 DEF Close, ConnectionBreaks, Hangup
  <2>3. CASE Sync \/ Tick
    BY <2>3 DEF Sync, Tick
  <2>4. CASE MergeStatus
    BY <2>4 DEF MergeStatus
  <2>5. CASE SyncFails
    <3>1. /\ UNCHANGED <<up, attached, taken>> /\ stage \in {"imported", "ready"}
          /\ alone' = (alone \/ stage' # stage \/ believed' # believed)
      BY <2>5 DEF SyncFails
    <3>2. stage' \in {stage, "ready"} /\ answers' \subseteq answers
      BY <2>5 DEF SyncFails, NotSent, PushAbandoned, AnswerTooLate
    <3>3. \A p \in pushes' : p \in pushes \/ ~p.awaited
      BY <1>a, <2>5 DEF SyncFails, NotSent, PushAbandoned, AnswerTooLate, Abandoned
    <3> QED
      BY <3>1, <3>2, <3>3 DEF Scalars
  <2>6. ASSUME NEW r \in live, NEW outcome \in Ends, FinishHere(r, outcome) PROVE Connected'
    BY <2>6 DEF FinishHere
  <2> QED
    BY <1>2, <2>1, <2>2, <2>3, <2>4, <2>5, <2>6 DEF WindowNext
<1>3. CASE ServiceNext
  <2>1. CASE Replace
    BY <2>1 DEF Replace
  <2>2. CASE ServiceStops
    BY <2>2 DEF ServiceStops, Scalars
  <2>3. CASE ServiceStarts \/ LookForWindow \/ StartDue
    BY <2>3 DEF ServiceStarts, LookForWindow, StartDue
  <2>4. ASSUME NEW r \in live, SaveRecord(r) \/ \E ok \in BOOLEAN : Finish(r, ok) PROVE Connected'
    BY <2>4 DEF SaveRecord, Finish
  <2> QED
    BY <1>3, <2>1, <2>2, <2>3, <2>4 DEF ServiceNext
<1> QED
  BY <1>1, <1>2, <1>3 DEF Next

\* Nobody lists an automation again that was removed.
LEMMA ForgottenStays ==
    IInv /\ [Next]_vars => \A a \in Automation : Forgotten(a) => Forgotten(a)'
<1> SUFFICES ASSUME IInv, [Next]_vars, NEW a \in Automation, ~mine[a].listed
             PROVE  ~mine'[a].listed
  BY DEF Forgotten
<1> USE DEF window, service, wire, bounds, ghosts, IInv
<1>a. now \in Time /\ Good(mine, now) /\ mine[a] \in Entry
  BY DEF Scalars, Copies, Good
<1>1. CASE UNCHANGED vars \/ Pass \/ ServiceNext
  BY <1>1 DEF vars, Pass, ServiceNext, ServiceStarts, ServiceStops, Replace, LookForWindow, StartDue,
              SaveRecord, Finish
<1>2. CASE WindowNext
  <2>1. CASE \/ Open \/ Close \/ Attach \/ ConnectionBreaks \/ TakeRuns \/ ImportNothing
             \/ Sync \/ SyncFails
    BY <2>1 DEF Open, Close, Attach, ConnectionBreaks, TakeRuns, ImportNothing, Sync, SyncFails
  <2>2. CASE ImportRuns
    BY <2>2 DEF ImportRuns, Imported
  <2>3. CASE MergeStatus
    BY <2>3 DEF MergeStatus, Reconciled
  <2>4. CASE Tick
    BY <2>4 DEF Tick, Oldest, Due
  <2>5. ASSUME NEW r \in live, NEW outcome \in Ends, FinishHere(r, outcome)
        PROVE  ~mine'[a].listed
    BY <2>5 DEF FinishHere, Trigger
  <2> QED
    BY <1>2, <2>1, <2>2, <2>3, <2>4, <2>5 DEF WindowNext
<1>3. ASSUME NEW b \in Automation,
             RunNow(b) \/ Edit(b) \/ Remove(b) \/ \E on \in BOOLEAN : SetEnabled(b, on)
      PROVE  ~mine'[a].listed
  <2>1. mine[b].listed /\ mine \in [Automation -> Entry]
    BY <1>3, <1>a DEF RunNow, Edit, Remove, SetEnabled, Changes, Good
  <2> QED
    BY <1>3, <1>a, <2>1 DEF RunNow, Edit, Remove, SetEnabled, Unlisted
<1> QED
  BY <1>1, <1>2, <1>3 DEF Next, PersonNext

LEMMA PushedStep == IInv /\ Pushed /\ [Next]_vars => Pushed'
<1> SUFFICES ASSUME IInv, Pushed, [Next]_vars, NEW q \in pushes', NEW a \in Automation
             PROVE  q.list[a].listed \/ Forgotten(a)'
  BY DEF Pushed
<1>1. Forgotten(a) => Forgotten(a)'
  BY ForgottenStays
<1>2. q \in pushes \/ q.list = mine \/ q \in Abandoned(pushes)
  <2>1. CASE Sync
    BY <2>1 DEF Sync
  <2>2. CASE Close \/ ConnectionBreaks
    BY <2>2 DEF Close, ConnectionBreaks, Hangup, Abandoned
  <2>3. CASE SyncFails
    BY <2>3 DEF SyncFails, NotSent, PushAbandoned, AnswerTooLate, Abandoned
  <2>4. CASE ~Sync /\ ~Close /\ ~ConnectionBreaks /\ ~SyncFails
    BY <2>4, PersonMoves
    DEF vars, window, service, wire, bounds, ghosts, Next, Pass, WindowNext, ServiceNext,
        Open, Attach, TakeRuns, ImportRuns, ImportNothing, MergeStatus, Tick, FinishHere,
        ServiceStarts, ServiceStops, Replace, LookForWindow, StartDue, SaveRecord, Finish
  <2> QED
    BY <2>1, <2>2, <2>3, <2>4
<1>3. ASSUME q \in Abandoned(pushes) PROVE \E p \in pushes : q.list = p.list
  BY <1>3, AbandonedPush DEF Abandoned, IInv, Copies
<1> QED
  BY <1>1, <1>2, <1>3 DEF Pushed, Forgotten

\* Who changes what the service runs and marks: its starts, its ends, and its stop.
LEMMA ServiceRunsMove ==
    ASSUME IInv, [Next]_vars
    PROVE  \/ StartDue
           \/ \E r \in ByService, ok \in BOOLEAN : Finish(r, ok)
           \/ ServiceStops
           \/ Replace /\ ByService' = ByService /\ late' = late
           \/ /\ ByService' = ByService /\ late' = late
              /\ running' = running /\ answers' \subseteq answers
<1> USE DEF window, service, wire, bounds, ghosts, ByService
<1>1. CASE UNCHANGED vars \/ Pass
  BY <1>1 DEF vars, Pass
<1>2. CASE PersonNext
  BY <1>2, PersonMoves
<1>3. CASE WindowNext
  <2>1. CASE SyncFails
    BY <2>1 DEF SyncFails, NotSent, PushAbandoned, AnswerTooLate
  <2>2. CASE ~SyncFails
    BY <1>3, <2>2 DEF WindowNext, Open, Close, Attach, ConnectionBreaks, Hangup, TakeRuns,
                      ImportRuns, ImportNothing, Sync, MergeStatus, Tick, FinishHere, RunOf
  <2> QED
    BY <2>1, <2>2
<1>4. CASE ServiceNext
  BY <1>4 DEF ServiceNext, ServiceStarts, Replace, LookForWindow, SaveRecord, Finish, IInv, Scalars
<1> QED
  BY <1>1, <1>2, <1>3, <1>4 DEF Next

\* What the window believes, while it has the service's word, is what an answer said.
LEMMA BelievedMoves ==
    ASSUME [Next]_vars, stage' = "ready", ~alone', alone \in BOOLEAN
    PROVE  \/ stage = "ready" /\ ~alone /\ believed' = believed
           \/ \E s \in answers : believed' = s.running
<1> USE DEF window, service, wire, bounds, ghosts
<1>1. CASE UNCHANGED vars \/ Pass \/ PersonNext
  BY <1>1, PersonMoves DEF vars, Pass
<1>2. CASE WindowNext
  BY <1>2 DEF WindowNext, Open, Close, Attach, ConnectionBreaks, TakeRuns, ImportRuns,
              ImportNothing, AfterImport, Sync, MergeStatus, SyncFails, Tick, FinishHere
<1>3. CASE ServiceNext
  BY <1>3 DEF ServiceNext, ServiceStarts, ServiceStops, Replace, LookForWindow, StartDue,
              SaveRecord, Finish
<1> QED
  BY <1>1, <1>2, <1>3 DEF Next

\* Where the service plans runs: the new ones are marked, and late if a window is attached.
LEMMA DueStarts ==
    ASSUME StartDue
    PROVE  \E S : LET runs == {RunOf(a, kept, "service") : a \in S} IN
               /\ running' = running \cup S
               /\ live' = live \cup runs
               /\ late' = IF attached THEN late \cup runs ELSE late \ runs
               /\ UNCHANGED <<window, wire, alone>>
BY DEF StartDue

LEMMA KnownStep ==
    IInv /\ Connected /\ Pushed /\ Known /\ Single /\ [Next]_vars => Known'
<1> SUFFICES ASSUME IInv, Connected, Pushed, Known, Single, [Next]_vars PROVE Known'
  OBVIOUS
<1>1. \A r \in ByService \cup ByService' : r.of \in Automation
  BY RunsStep DEF ByService, IInv, RunsPast, Past, Run
<1>2. \A a \in Automation : Forgotten(a) => Forgotten(a)'
  BY ForgottenStays
<1>3. CASE StartDue
  <2>1. PICK S : LET runs == {RunOf(a, kept, "service") : a \in S} IN
               /\ running' = running \cup S
               /\ live' = live \cup runs
               /\ late' = IF attached THEN late \cup runs ELSE late \ runs
               /\ UNCHANGED <<window, wire, alone>>
    BY <1>3, DueStarts
  <2>2. stage' = stage /\ answers' = answers /\ believed' = believed
    BY <2>1 DEF window, wire
  <2>3. \A r \in ByService' : r \in ByService \/ r.of \in S
    BY <2>1 DEF ByService, RunOf
  <2>4. ASSUME NEW r \in ByService' PROVE r.of \in running' \/ Forgotten(r.of)'
    BY <1>1, <1>2, <2>1, <2>3, <2>4 DEF Known, Covered
  <2>5. CASE attached
    <3>1. ASSUME NEW r \in ByService' \ late' PROVE r \in ByService \ late
      BY <2>1, <2>5, <3>1 DEF ByService
    <3>2. ASSUME NEW T, Told(T) PROVE \A r \in ByService' \ late' : r.of \in T \/ Forgotten(r.of)'
      BY <1>1, <1>2, <3>1, <3>2 DEF Told
    <3> QED
      BY <2>1, <2>2, <2>4, <3>2 DEF Known, Covered, Told
  <2>6. CASE ~attached
    <3>1. answers = {} /\ ~(stage = "ready" /\ ~alone)
      BY <2>6 DEF Connected
    <3> QED
      BY <2>1, <2>2, <2>4, <3>1 DEF Known, Covered
  <2> QED
    BY <2>5, <2>6
<1>4. ASSUME NEW r0 \in ByService, NEW ok \in BOOLEAN, Finish(r0, ok) PROVE Known'
  <2>1. /\ ByService' = ByService \ {r0} /\ running' = running \ {r0.of}
        /\ late' = late \ {r0}
        /\ UNCHANGED <<stage, believed, answers, alone>>
    BY <1>4 DEF Finish, Cleared, ByService, window, wire
  <2>2. ASSUME NEW r \in ByService' PROVE r.of \in running' \/ Forgotten(r.of)'
    BY <1>1, <1>2, <2>1, <2>2 DEF Known, Covered, Single
  <2>3. ASSUME NEW S, Told(S) PROVE \A r \in ByService' \ late' : r.of \in S \/ Forgotten(r.of)'
    BY <1>1, <1>2, <2>1, <2>3 DEF Told
  <2> QED
    BY <2>1, <2>2, <2>3 DEF Known, Covered, Told
<1>5. CASE ServiceStops
  <2>1. ByService' = {} /\ answers' = {}
    BY <1>5 DEF ServiceStops, ByService
  <2> QED
    BY <2>1 DEF Known, Covered, Told
<1>6. CASE ByService' = ByService /\ late' = late
  <2>1. ASSUME NEW S, Told(S) PROVE \A r \in ByService' \ late' : r.of \in S \/ Forgotten(r.of)'
    BY <1>1, <1>2, <1>6, <2>1 DEF Told
  <2>2. ASSUME stage' = "ready", ~alone'
        PROVE  \A r \in ByService' \ late' : r.of \in believed' \/ Forgotten(r.of)'
    BY <2>1, <2>2, BelievedMoves DEF Known, IInv, Scalars
  <2>3. CASE Replace
    <3>1. PICK p \in pushes :
              /\ running' = {a \in running : p.list[a].listed}
              /\ answers' \subseteq answers \cup
                    {[list |-> kept', running |-> running', first |-> p.first]}
      BY <2>3 DEF Replace
    <3>2. \A r \in ByService' : r.of \in running' \/ Forgotten(r.of)'
      BY <1>1, <1>2, <1>6, <3>1 DEF Known, Covered, Pushed
    <3>3. \A s \in answers' : s \in answers \/ s.running = running'
      BY <3>1
    <3> QED
      BY <2>1, <2>2, <3>2, <3>3 DEF Known, Covered, Told
  <2>4. CASE running' = running /\ answers' \subseteq answers
    <3>1. \A r \in ByService' : r.of \in running' \/ Forgotten(r.of)'
      BY <1>1, <1>2, <1>6, <2>4 DEF Known, Covered
    <3> QED
      BY <2>1, <2>2, <2>4, <3>1 DEF Known, Covered, Told
  <2> QED
    BY <1>3, <1>4, <1>5, <2>3, <2>4, ServiceRunsMove
<1> QED
  BY <1>3, <1>4, <1>5, <1>6, ServiceRunsMove

LEMMA SingleStep == IInv /\ Covered(running) /\ Single /\ [Next]_vars => Single'
<1> SUFFICES ASSUME IInv, Covered(running), Single, [Next]_vars,
                    NEW r \in ByService', NEW s \in ByService', r # s, r.of = s.of
             PROVE  Forgotten(r.of)'
  BY DEF Single
<1>1. r.of \in Automation
  BY RunsStep DEF ByService, IInv, RunsPast, Past, Run
<1>2. Forgotten(r.of) => Forgotten(r.of)'
  BY <1>1, ForgottenStays
<1>3. CASE StartDue
  <2>1. PICK S : /\ S \subseteq Due(kept, running)
                 /\ live' = live \cup {RunOf(a, kept, "service") : a \in S}
    BY <1>3 DEF StartDue, Oldest
  <2>2. ASSUME NEW q \in ByService' PROVE q \in ByService \/ (q.of \in S /\ q = RunOf(q.of, kept, "service"))
    BY <2>1, <2>2 DEF ByService, RunOf
  <2>3. S \cap running = {}
    BY <2>1 DEF Due
  <2>4. CASE r \in ByService /\ s \in ByService
    BY <1>2, <2>4 DEF Single
  <2>5. CASE r \in ByService /\ s \notin ByService
    BY <1>2, <2>2, <2>3, <2>5 DEF Covered
  <2>6. CASE r \notin ByService /\ s \in ByService
    BY <1>2, <2>2, <2>3, <2>6 DEF Covered
  <2>7. CASE r \notin ByService /\ s \notin ByService
    BY <2>2, <2>7
  <2> QED
    BY <2>4, <2>5, <2>6, <2>7
<1>4. CASE ~StartDue
  <2>1. ByService' \subseteq ByService
    BY <1>4, ServiceRunStarts DEF ByService
  <2> QED
    BY <1>2, <2>1 DEF Single
<1> QED
  BY <1>3, <1>4

\* A run that the window's clock starts.
LEMMA ClockedStarts ==
    ASSUME [Next]_vars, NEW r \in Clocked' \ Clocked
    PROVE  stage = "ready" /\ stage' = "ready" /\ r.of \in Automation \ believed /\ mine[r.of].listed
           /\ ByService' = ByService /\ late' = late
<1> USE DEF window, service, wire, bounds, ghosts, Clocked
<1>1. CASE UNCHANGED vars \/ Pass
  BY <1>1 DEF vars, Pass
<1>2. CASE WindowNext
  <2>1. CASE Tick
    <3>1. PICK start : /\ start \subseteq Due(mine, Working) \ believed /\ stage = "ready" /\ stage' = stage
                       /\ live' = live \cup {RunOf(a, mine, "window") : a \in start}
      BY <2>1 DEF Tick, Oldest
    <3>2. PICK a \in start : r = RunOf(a, mine, "window")
      BY <3>1
    <3>3. r.of = a /\ a \in Automation /\ mine[a].listed /\ a \notin believed
      BY <3>1, <3>2 DEF RunOf, Due
    <3>4. ByService' = ByService /\ late' = late
      BY <2>1, <3>1 DEF ByService, RunOf, Tick
    <3> QED
      BY <3>1, <3>3, <3>4
  <2>2. CASE ~Tick
    BY <1>2, <2>2 DEF WindowNext, Open, Close, Attach, ConnectionBreaks, Hangup, TakeRuns, ImportRuns, ImportNothing,
                      Sync, MergeStatus, SyncFails, FinishHere
  <2> QED
    BY <2>1, <2>2
<1>3. CASE PersonNext
  BY <1>3, PersonMoves
<1>4. CASE ServiceNext
  BY <1>4 DEF ServiceNext, ServiceStarts, ServiceStops, Replace, LookForWindow, StartDue, SaveRecord, Finish, RunOf
<1> QED
  BY <1>1, <1>2, <1>3, <1>4 DEF Next

LEMMA ReadyStep == Ready /\ [Next]_vars => Ready'
<1> SUFFICES ASSUME Ready, [Next]_vars, NEW r \in Clocked' PROVE stage' = "ready"
  BY DEF Ready
<1>1. CASE r \notin Clocked
  BY <1>1, ClockedStarts
<1>2. CASE r \in Clocked
  <2>1. stage = "ready"
    BY <1>2 DEF Ready
  <2>2. CASE Close
    BY <2>2 DEF Close, Clocked
  <2>3. CASE ~Close /\ ~SyncFails
    BY <2>1, <2>3, PersonMoves
       DEF vars, window, service, wire, bounds, ghosts, Next, Pass, WindowNext, ServiceNext,
           Open, Attach, ConnectionBreaks, TakeRuns, ImportRuns, ImportNothing, AfterImport,
           Sync, MergeStatus, Tick, FinishHere, ServiceStarts, ServiceStops, Replace,
           LookForWindow, StartDue, SaveRecord, Finish
  <2>4. CASE SyncFails
    BY <2>1, <2>4 DEF SyncFails, NotSent, PushAbandoned, AnswerTooLate
  <2> QED
    BY <2>2, <2>3, <2>4
<1> QED
  BY <1>1, <1>2

\* Whatever list the window pushes, whatever request fails, however late an answer or a
\* push comes, and however often the service stops: the two clocks come to run one
\* automation together only after the window went on without the service's word, or
\* by a run planned on a look that was over when the window had attached.
THEOREM TakeoverCorrect == Spec => TakeoverClean
<1>1. Init => IInv /\ Handover
  BY HandoverInit, ScalarsInit, CopiesInit, RunsInit, MarkedInit, DurableInit DEF IInv
<1>2. IInv /\ Handover /\ [Next]_vars => IInv' /\ Handover'
  <2>1. IInv /\ [Next]_vars => IInv'
    BY ScalarsStep, CopiesStep, RunsStep, MarkedStep, DurableStep DEF IInv
  <2>2. IInv /\ Handover /\ [Next]_vars => Handover'
    BY ConnectedStep, PushedStep, KnownStep, SingleStep, ReadyStep DEF Handover, Known, IInv
  <2> QED
    BY <2>1, <2>2
<1>3. IInv /\ Handover /\ [Next]_vars
      => [\A r \in Clocked', s \in ByService' :
              r.of = s.of /\ ~(r \in live /\ s \in live) => alone \/ s \in late']_vars
  <2> SUFFICES ASSUME IInv, Handover, [Next]_vars, NEW r \in Clocked', NEW s \in ByService',
                      r.of = s.of, ~(r \in live /\ s \in live), ~alone, s \notin late'
               PROVE  FALSE
    BY DEF IInv, Scalars
  <2>1. CASE r \notin live
    <3>1. r \in Clocked' \ Clocked
      BY <2>1 DEF Clocked
    <3>2. /\ stage = "ready" /\ r.of \notin believed /\ mine[r.of].listed
          /\ s \in ByService \ late
      BY <3>1, ClockedStarts
    <3> QED
      BY <3>2 DEF Handover, Known, Told, Forgotten
  <2>2. CASE r \in live /\ s \notin live
    <3>1. stage = "ready"
      BY <2>2 DEF Handover, Ready, Clocked
    <3>2. attached
      BY <3>1 DEF Handover, Connected
    <3>3. StartDue
      BY <2>2, ServiceRunStarts DEF ByService
    <3>4. PICK S : LET runs == {RunOf(a, kept, "service") : a \in S} IN
               /\ live' = live \cup runs
               /\ late' = IF attached THEN late \cup runs ELSE late \ runs
      BY <3>3, DueStarts
    <3> QED
      BY <2>2, <3>2, <3>4 DEF ByService
  <2> QED
    BY <2>1, <2>2
<1> QED
  BY <1>1, <1>2, <1>3, PTL DEF Spec, TakeoverClean

(***************************************************************************)
(* The cap of the service, through its stops as well: the marks are at     *)
(* most as many as the cap, and every run has its own, unless its          *)
(* automation was removed.                                                 *)
(***************************************************************************)
Bounded == Cardinality(running) <= Cap

Counted == Pushed /\ Covered(running) /\ Single /\ Bounded

LEMMA CoveredStep ==
    IInv /\ Pushed /\ Covered(running) /\ Single /\ [Next]_vars => Covered(running)'
<1> SUFFICES ASSUME IInv, Pushed, Covered(running), Single, [Next]_vars,
                    NEW r \in ByService'
             PROVE  r.of \in running' \/ Forgotten(r.of)'
  BY DEF Covered
<1> USE DEF window, service, wire, bounds, ghosts
<1>1. r.of \in Automation
  BY RunsStep DEF ByService, IInv, RunsPast, Past, Run
<1>2. Forgotten(r.of) => Forgotten(r.of)'
  BY <1>1, ForgottenStays
<1>3. CASE r \in ByService /\ running' = running
  BY <1>2, <1>3 DEF Covered
<1>4. CASE StartDue
  <2>1. PICK S : running' = running \cup S
                 /\ live' = live \cup {RunOf(a, kept, "service") : a \in S}
    BY <1>4 DEF StartDue
  <2>2. r \in ByService \/ r.of \in S
    BY <2>1 DEF ByService, RunOf
  <2> QED
    BY <1>2, <2>1, <2>2 DEF Covered
<1>5. CASE ~StartDue
  <2>1. r \in ByService
    BY <1>5, ServiceRunStarts DEF ByService
  <2>2. CASE ServiceStops
    BY <2>2 DEF ServiceStops, ByService
  <2>3. CASE Replace
    BY <1>1, <1>2, <2>1, <2>3 DEF Replace, Covered, Pushed
  <2>4. ASSUME NEW q \in live, NEW ok \in BOOLEAN, Finish(q, ok)
        PROVE  r.of \in running' \/ Forgotten(r.of)'
    <3>1. ByService' = ByService \ {q} /\ running' = running \ {q.of} /\ q \in ByService
      BY <2>4 DEF Finish, Cleared, ByService, IInv, Scalars
    <3> QED
      BY <1>2, <2>1, <3>1 DEF Covered, Single
  <2>5. CASE ~ServiceStops /\ ~Replace /\ ~\E q \in live, ok \in BOOLEAN : Finish(q, ok)
    <3>1. running' = running
      BY <1>5, <2>5, PersonMoves
         DEF vars, Next, Pass, WindowNext, ServiceNext, Open, Close, Attach, ConnectionBreaks,
           Hangup, TakeRuns, ImportRuns,
             ImportNothing, Sync, MergeStatus, SyncFails, Tick, FinishHere, ServiceStarts,
             LookForWindow, SaveRecord
    <3> QED
      BY <1>3, <2>1, <3>1
  <2> QED
    BY <2>2, <2>3, <2>4, <2>5
<1> QED
  BY <1>4, <1>5

LEMMA BoundedStep == IInv /\ Bounded /\ [Next]_vars => Bounded'
<1> SUFFICES ASSUME IInv, Bounded, [Next]_vars PROVE Bounded'
  OBVIOUS
<1> USE DEF window, service, wire, bounds, ghosts
<1>1. IsFiniteSet(running) /\ running \subseteq Automation /\ Cardinality(running) \in Nat
  BY FS_Subset, FS_CardinalityType, AutomationConstants DEF IInv, Scalars
<1>2. CASE StartDue
  <2>1. PICK S \in Oldest(kept, Due(kept, running), Room(Cardinality(running))) :
           running' = running \cup S
    BY <1>2 DEF StartDue
  <2>2. IsFiniteSet(Due(kept, running)) /\ Cardinality(Due(kept, running)) \in Nat
    BY FS_Subset, FS_CardinalityType, AutomationConstants DEF Due
  <2>3. S \subseteq Due(kept, running) /\ Cardinality(S) <= Room(Cardinality(running))
    BY <1>1, <2>1, <2>2, AutomationConstants DEF Oldest, Room
  <2>4. IsFiniteSet(S) /\ Cardinality(S) \in Nat
    BY <2>2, <2>3, FS_Subset, FS_CardinalityType
  <2>5. IsFiniteSet(running \cap S)
    BY <1>1, FS_Subset
  <2>6. Cardinality(running \cap S) \in Nat
    BY <2>5, FS_CardinalityType
  <2>7. Cardinality(running') = Cardinality(running) + Cardinality(S) - Cardinality(running \cap S)
    BY <1>1, <2>1, <2>4, FS_Union
  <2> QED
    BY <1>1, <2>3, <2>4, <2>6, <2>7, AutomationConstants DEF Bounded, Room
<1>3. CASE ~StartDue
  <2>1. running' \subseteq running
    BY <1>3, PersonMoves
       DEF vars, Next, Pass, WindowNext, ServiceNext, Open, Close, Attach, ConnectionBreaks,
           Hangup, TakeRuns, ImportRuns,
           ImportNothing, Sync, MergeStatus, SyncFails, Tick, FinishHere, ServiceStarts,
           ServiceStops, Replace, LookForWindow, Cleared, Finish, SaveRecord
  <2>2. Cardinality(running') <= Cardinality(running) /\ IsFiniteSet(running')
    BY <1>1, <2>1, FS_Subset
  <2>3. Cardinality(running') \in Nat
    BY <2>2, FS_CardinalityType
  <2> QED
    BY <1>1, <2>2, <2>3, AutomationConstants DEF Bounded
<1> QED
  BY <1>2, <1>3

LEMMA CountedCaps == IInv /\ Counted => CapForListed
<1> SUFFICES ASSUME IInv, Counted PROVE CapForListed
  OBVIOUS
<1> DEFINE L == {r \in live : r.by = "service" /\ mine[r.of].listed}
           f == [r \in L |-> r.of]
<1>1. IsFiniteSet(running) /\ Cardinality(running) \in Nat
  BY FS_Subset, FS_CardinalityType, AutomationConstants DEF IInv, Scalars
<1>2. \A r \in L : r.of \in running
  BY DEF Counted, Covered, ByService, Forgotten
<1>3. \A r, s \in L : r.of = s.of => r = s
  BY DEF Counted, Single, ByService, Forgotten
<1>4. f \in Injection(L, running)
  BY <1>2, <1>3 DEF Injection, IsInjective
<1>5. Cardinality(L) <= Cardinality(running) /\ IsFiniteSet(L)
  BY <1>1, <1>4, FS_Injection
<1>6. Cardinality(L) \in Nat
  BY <1>5, FS_CardinalityType
<1> QED
  BY <1>1, <1>5, <1>6, AutomationConstants DEF CapForListed, Counted, Bounded

\* The cap of the service (automations.rs, due and finish) counts all its runs but those of
\* automations that were removed while they ran: whatever lists arrive, however late, and
\* however often the service stops, every mark has a run and the runs of automations that
\* are still listed are never more than the cap.
THEOREM CountedCorrect == Spec => []RunsCounted
<1>1. Init => IInv /\ Counted
  <2>1. Init => Counted
    BY HandoverInit, FS_EmptySet, AutomationConstants
       DEF Init, Counted, Bounded, Handover, Known
  <2> QED
    BY <2>1, ScalarsInit, CopiesInit, RunsInit, MarkedInit, DurableInit DEF IInv
<1>2. IInv /\ Counted /\ [Next]_vars => IInv' /\ Counted'
  <2>1. IInv /\ [Next]_vars => IInv'
    BY ScalarsStep, CopiesStep, RunsStep, MarkedStep, DurableStep DEF IInv
  <2> QED
    BY <2>1, PushedStep, CoveredStep, SingleStep, BoundedStep DEF Counted
<1>3. IInv /\ Counted => RunsCounted
  BY CountedCaps DEF RunsCounted, IInv
<1> QED
  BY <1>1, <1>2, <1>3, PTL DEF Spec
=============================================================================
