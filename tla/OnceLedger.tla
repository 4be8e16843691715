----------------------------- MODULE OnceLedger -----------------------------
(***************************************************************************)
(* What the daemon promises to clients that retry, with no session, queue, *)
(* grant or lock: a request is run by one call as long as its result is    *)
(* kept, whoever asks again hears that result or none, and a call takes    *)
(* effect at most once, never after its client was told that it failed.    *)
(***************************************************************************)
EXTENDS Naturals, FiniteSets

CONSTANTS
    Calls,
    Lasting,    \* calls whose effect stands for a while: it ends, or is undone
    requestId, operation, MaxKept, NoCall

VARIABLES
    result,     \* of what a call ran
    kept,       \* the calls whose result is kept for retries
    joined,     \* the call whose result another one waits for
    told,       \* what a client heard
    effect      \* "none", "done", or "over" when there will be none any more

vars == <<result, kept, joined, told, effect>>

Init ==
    /\ result = [c \in Calls |-> "none"]
    /\ kept = {}
    /\ joined = [c \in Calls |-> NoCall]
    /\ told = [c \in Calls |-> "none"]
    /\ effect = [c \in Calls |-> "none"]

Same(c) == {e \in kept : requestId[e] = requestId[c]}
New(c)  == result[c] = "none" /\ joined[c] = NoCall /\ told[c] = "none"

Hears(c, what) == told' = [told EXCEPT ![c] = what]

Run(c) ==
    /\ New(c)
    /\ result' = [result EXCEPT ![c] = "pending"]
    /\ Same(c) = {} /\ Cardinality(kept) < MaxKept
    /\ kept' = kept \cup {c}
    /\ UNCHANGED <<joined, told, effect>>

\* A retry: it asks for the same, and runs nothing.
Join(c) ==
    /\ New(c)
    /\ \E e \in Same(c) :
        operation[e] = operation[c] /\ joined' = [joined EXCEPT ![c] = e]
    /\ UNCHANGED <<result, kept, told, effect>>

Refuse(c) == New(c) /\ Hears(c, "refused") /\ UNCHANGED <<result, kept, joined, effect>>

\* Success is not repeated to a client that may no longer hear of it.
Repeat(c) ==
    LET e == joined[c] IN
    /\ e # NoCall /\ told[c] = "none"
    /\ \/ result[e] = "pending" /\ Hears(c, "unknown")
       \/ result[e] \in {"ok", "error"} /\ Hears(c, result[e])
       \/ result[e] = "ok" /\ Hears(c, "refused")
    /\ UNCHANGED <<result, kept, joined, effect>>

Ends(c, what) ==
    /\ result[c] = "pending"
    /\ result' = [result EXCEPT ![c] = what]
    /\ Hears(c, what)
    /\ UNCHANGED <<kept, joined>>

\* What lasts is there, or was, before its client hears of success.
Succeed(c) == Ends(c, "ok") /\ (c \in Lasting => effect[c] # "none") /\ UNCHANGED effect

\* It will have no effect any more; what cannot be taken back may have had one.
Fail(c) ==
    /\ Ends(c, "error")
    /\ effect' = [effect EXCEPT ![c] = IF c \notin Lasting /\ @ = "done" THEN @ ELSE "over"]

\* What does not last may be done after the answer: it was accepted.
Do(c) ==
    /\ result[c] = "pending" \/ (result[c] = "ok" /\ c \notin Lasting)
    /\ effect[c] = "none"
    /\ effect' = [effect EXCEPT ![c] = "done"]
    /\ UNCHANGED <<result, kept, joined, told>>

Undo(c) ==
    /\ c \in Lasting /\ effect[c] = "done"
    /\ effect' = [effect EXCEPT ![c] = "over"]
    /\ UNCHANGED <<result, kept, joined, told>>

Forget(c) ==
    /\ c \in kept /\ result[c] # "pending"
    /\ kept' = kept \ {c}
    /\ UNCHANGED <<result, joined, told, effect>>

Next ==
    \E c \in Calls :
        \/ Run(c) \/ Join(c) \/ Refuse(c) \/ Repeat(c) \/ Succeed(c) \/ Fail(c)
        \/ Do(c) \/ Undo(c) \/ Forget(c)

Spec == Init /\ [][Next]_vars
=============================================================================
