---------------------------- MODULE HostAuthority ----------------------------
(***************************************************************************)
(* What saving, deleting and restoring promise about the password a host   *)
(* is given (src-tauri/src/credentials.rs), whatever fails on the way.     *)
(*                                                                         *)
(* A password is given only after its saving began, and its saving begins  *)
(* with nothing given.  From then on, a host is given that password or     *)
(* none; once it is revoked it is never given again.                       *)
(***************************************************************************)
CONSTANTS
    Password, \* the passwords the person saves; each is saved once
    None      \* no password

VARIABLES
    given,    \* the password a host that starts now is given
    current,  \* the only one it may be given
    saving,   \* the password being saved
    tried     \* every password whose saving was tried

vars == <<given, current, saving, tried>>

Init == given = None /\ current = None /\ saving = None /\ tried = {}

\* A saving that fails at once: what was given may be hidden by it.
Try(s) ==
    /\ saving = None /\ s \notin tried
    /\ tried' = tried \cup {s}
    /\ given' \in {given, None}
    /\ UNCHANGED <<current, saving>>

\* Nothing is given while a new password is on its way.
Begin(s) ==
    /\ saving = None /\ s \notin tried
    /\ tried' = tried \cup {s} /\ saving' = s
    /\ given' = None /\ current' = None

Commit ==
    /\ saving # None /\ given = None
    /\ given' = saving /\ current' = saving /\ saving' = None
    /\ UNCHANGED tried

Abandon == saving # None /\ saving' = None /\ UNCHANGED <<given, current, tried>>

Revoke == saving = None /\ given' = None /\ current' = None /\ UNCHANGED <<saving, tried>>

\* A failed write or a power loss hides the password, or shows it again.
Waver == saving = None /\ given' \in {None, current} /\ UNCHANGED <<current, saving, tried>>

Next ==
    \/ \E s \in Password : Try(s) \/ Begin(s)
    \/ Commit \/ Abandon \/ Revoke \/ Waver

Spec == Init /\ [][Next]_vars
=============================================================================
