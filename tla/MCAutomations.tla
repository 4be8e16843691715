---------------------------- MODULE MCAutomations --------------------------
\* Instances of Automations for TLC.
EXTENDS Automations

CONSTANTS nightly, report, sweep, none

\* "report" runs after "nightly"; "sweep" is timed like "nightly".
ChainOf  == {nightly, report}
AllThree == {nightly, report, sweep}
Solo     == {nightly}
After(S) == [a \in S |-> IF a = report THEN nightly ELSE none]
SoloSource   == After(Solo)
ChainSource  == After(ChainOf)
ThreeSources == After(AllThree)

\* To keep the instance small, an outage meets the removal of an automation
\* and no other change by the person.
OutageMeetsRemoval == edits' = 0 \/ outages' = 0 \/ \E a \in Automation : ~mine'[a].listed

\* No window attaches between the service's look for one and due: the repeated
\* run does not need a late look.
PromptDue == ~(checked' /\ attached')

\* What the window remembers of past runs decides nothing, nor do the ghosts of
\* the takeover; only the properties about runs started twice, and the takeover,
\* read them.
ButHistory == <<now, stage, mine, believed, service, wire, live, bounds, served>>

\* The takeover reads neither the past runs nor the marks they were started for.
ButPast == <<now, stage, mine, believed, service, wire, live, bounds, alone, late>>
=============================================================================
