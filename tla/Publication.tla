---------------------------- MODULE Publication ----------------------------
(***************************************************************************)
(* What the agent promises about an upload, with no thread, session, queue *)
(* or permit: it is called off or sealed, whichever comes first.  One that *)
(* is called off never takes its place, one that is sealed takes it or     *)
(* fails, and nobody hears of it what is not so.  A folder has one upload  *)
(* at a time, from before it is sealed until it is decided.                *)
(***************************************************************************)
CONSTANTS Uploads, Folders, folder, None

VARIABLES
    stage,  \* how far an upload got
    told,   \* what was answered at its end
    owner   \* the upload that works in a folder

vars == <<stage, told, owner>>

Undecided == {"open", "sealed"}
Stages    == Undecided \cup {"idle", "placed", "called off", "failed"}

Init ==
    /\ stage = [t \in Uploads |-> "idle"]
    /\ told = [t \in Uploads |-> None]
    /\ owner = [f \in Folders |-> None]

Moves(t, from, to) == stage[t] \in from /\ stage' = [stage EXCEPT ![t] = to]

Begin(t) == Moves(t, {"idle"}, "open") /\ UNCHANGED <<told, owner>>

Occupy(t) ==
    /\ stage[t] = "open" /\ owner[folder[t]] = None
    /\ owner' = [owner EXCEPT ![folder[t]] = t]
    /\ UNCHANGED <<stage, told>>

\* By whoever asked for it, or for all uploads of a session that ends.
CallOff(S) ==
    /\ \A t \in S : stage[t] = "open"
    /\ stage' = [t \in Uploads |-> IF t \in S THEN "called off" ELSE stage[t]]
    /\ UNCHANGED <<told, owner>>

\* From here on it is too late to call it off.
Seal(t) ==
    /\ owner[folder[t]] = t
    /\ Moves(t, {"open"}, "sealed")
    /\ UNCHANGED <<told, owner>>

Place(t) ==
    /\ owner[folder[t]] = t
    /\ Moves(t, {"sealed"}, "placed")
    /\ UNCHANGED <<told, owner>>

\* With an error, or in silence where nobody listens any more.
Fail(t) ==
    /\ Moves(t, Undecided, "failed")
    /\ told' \in {told, [told EXCEPT ![t] = "Error"]}
    /\ UNCHANGED owner

\* "Complete" says that the file is in its place, or that it was called off as asked.
Tell(t, what) ==
    /\ told[t] = None
    /\ what = "Complete" => stage[t] \in {"placed", "called off"}
    /\ what = "Error" => stage[t] = "called off"
    /\ told' = [told EXCEPT ![t] = what]
    /\ UNCHANGED <<stage, owner>>

\* A folder is free again once its upload is decided and whoever asked was told.
Vacate(t) ==
    /\ owner[folder[t]] = t
    /\ stage[t] \notin Undecided
    /\ stage[t] = "placed" => told[t] = "Complete"
    /\ owner' = [owner EXCEPT ![folder[t]] = None]
    /\ UNCHANGED <<stage, told>>

Next ==
    \/ \E S \in SUBSET Uploads : CallOff(S)
    \/ \E t \in Uploads :
        \/ Begin(t) \/ Occupy(t) \/ Seal(t) \/ Place(t) \/ Fail(t) \/ Vacate(t)
        \/ \E what \in {"Complete", "Error"} : Tell(t, what)

Spec == Init /\ [][Next]_vars
=============================================================================
