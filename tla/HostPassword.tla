---------------------------- MODULE HostPassword ----------------------------
(***************************************************************************)
(* The saved password of an unattended host (src-tauri/src/credentials.rs, *)
(* with the parts of backup.rs, vault.rs and durable_file.rs it calls).    *)
(*                                                                         *)
(* Two stores may hold the password: the keyring of the system and the     *)
(* encrypted vault.  credential_backend.json names the one store a host    *)
(* may load it from (the marker) and the stores that may still hold an old *)
(* copy (the journal).  Saving, deleting, retrying the clean-up and        *)
(* restoring a backup hold one lock; each is several durable writes, and   *)
(* each write may fail, before or after its file is replaced.  The process *)
(* may die between any two of them; the machine may lose power too, and    *)
(* with it a replacement that was not synced.                              *)
(*                                                                         *)
(* A password is one act of saving: saving the same text again is another. *)
(* Left out: the binding to the device id, the other credentials (one      *)
(* action stands for their writes of the vault), the sharing agent, which  *)
(* keeps the password it was started with.                                 *)
(***************************************************************************)
EXTENDS Naturals, FiniteSets

CONSTANTS
    Password,    \* the passwords the person saves
    None,        \* no password, no store
    NoVault,     \* there is no vault file
    Locked,      \* the vault is locked
    MaxUnsynced  \* bound on the replacements of a file not yet synced

Outcomes == {"ok", "before", "after"}

ASSUME HostPasswordConstants ==
    /\ None \notin Password /\ NoVault \notin Password /\ Locked \notin Password
    /\ None # NoVault /\ None # Locked /\ NoVault # Locked
    /\ None \notin {"keyring", "vault"}
    /\ MaxUnsynced \in Nat

VARIABLES
    file,      \* credential_backend.json, as a reader sees it
    fileOld,   \* what a power loss may bring back in its place
    keyring,   \* the host entry of the keyring
    vault,     \* the host entry of vault.json
    vaultOld,  \* what a power loss may bring back in its place
    memory,    \* the host entry of the unlocked vault
    op,        \* the operation that holds the lock: its step and its locals
    used,      \* ghost: the passwords whose saving was tried
    current,   \* ghost: the last one activated, until an operation revokes it
    promised   \* ghost: the same, until an operation tries to revoke it

files  == <<file, fileOld>>
vaults == <<vault, vaultOld, memory>>
ghosts == <<used, current, promised>>
vars   == <<files, keyring, vaults, op, ghosts>>

Backend == {"keyring", "vault"}
File  == [backend: Backend, marker: Backend \cup {None}, pending: SUBSET Backend]
Entry == Password \cup {None}
Vault == Entry \cup {NoVault}
Steps == {"idle", "storing", "activating", "undoing", "tidying", "recording", "cleaning",
          "replacing", "loading", "rolling back", "rolled back"}
Operation == [step: Steps, store: Backend, password: Entry, draft: File,
              targets: SUBSET Backend, before: [file: File, vault: Vault]]

Empty(b) == [backend |-> b, marker |-> None, pending |-> {}]

\* Nobody holds the lock.
Idle == [step |-> "idle", store |-> "keyring", password |-> None, draft |-> Empty("keyring"),
         targets |-> {}, before |-> [file |-> Empty("keyring"), vault |-> NoVault]]

\* Mutant of Other: the store that was just written.
SameStore(b) == b

Other(b) == CHOOSE c \in Backend : c # b

\* The host credential of a store.
Copy(b) == IF b = "keyring" THEN keyring ELSE IF vault = NoVault THEN None ELSE vault

\* What a host that starts now is given, if the marked store can be read.
Authority == IF file.marker = None THEN None ELSE Copy(file.marker)

(***************************************************************************)
(* Durable writes.  A write that fails before the replacement changes      *)
(* nothing; one that fails after it is visible, and not yet synced.        *)
(***************************************************************************)
Unsynced(how, old, now) ==
    IF how = "ok" THEN {} ELSE IF how = "after" THEN old \cup {now} ELSE old

WriteFile(new, how) ==
    /\ how = "after" => Cardinality(fileOld) < MaxUnsynced
    /\ file' = IF how = "before" THEN file ELSE new
    /\ fileOld' = Unsynced(how, fileOld, file)

WriteVault(new, how) ==
    /\ how = "after" => Cardinality(vaultOld) < MaxUnsynced
    /\ vault' = IF how = "before" THEN vault ELSE new
    /\ vaultOld' = Unsynced(how, vaultOld, vault)

\* The vault keeps what it had in memory when its file cannot be written.
StoreInVault(s, how) ==
    /\ memory # Locked
    /\ WriteVault(s, how)
    /\ memory' = IF how = "ok" THEN s ELSE memory

\* store_in_backend
StoreIn(b, s, ok) ==
    \/ /\ b = "keyring"
       /\ keyring' = IF ok THEN s ELSE keyring
       /\ UNCHANGED vaults
    \/ /\ b = "vault" /\ UNCHANGED keyring
       /\ \E how \in Outcomes : StoreInVault(s, how) /\ ok = (how = "ok")
    \/ /\ b = "vault" /\ memory = Locked /\ ~ok
       /\ UNCHANGED <<keyring, vaults>>

\* delete_from_backend: a vault that holds no entry in memory is not written.
DeleteFrom(b, ok) ==
    \/ /\ b = "keyring"
       /\ keyring' = IF ok THEN None ELSE keyring
       /\ UNCHANGED vaults
    \/ /\ b = "vault" /\ UNCHANGED keyring
       /\ memory \notin {Locked, None}
       /\ \E how \in Outcomes : StoreInVault(None, how) /\ ok = (how = "ok")
    \/ /\ b = "vault" /\ memory \in {Locked, None}
       /\ ok = (memory = None \/ vault = NoVault)
       /\ UNCHANGED <<keyring, vaults>>

(***************************************************************************)
(* Saving: revoke and journal, write the password, mark its store, then    *)
(* remove the copy in the other one.                                       *)
(***************************************************************************)
\* Mutant of Revoked: only the store the marker names is journaled.
RevokedHalf(f) == [f EXCEPT !.marker = None, !.pending = {f.marker} \ {None}]

\* Mutant of Revoked: the marker is left for the activation to replace.
RevokedLate(f) == [f EXCEPT !.pending = Backend]

Revoked(f) == [f EXCEPT !.marker = None, !.pending = Backend]

At(s) == op.step = s
Goto(s) == op' = [op EXCEPT !.step = s]
Done == op' = Idle

StoreRevoke(s, how) ==
    /\ At("idle") /\ s \notin used
    /\ WriteFile(Revoked(file), how)
    /\ used' = used \cup {s}
    /\ promised' = None
    /\ IF how = "ok"
       THEN /\ op' = [Idle EXCEPT !.step = "storing", !.store = file.backend,
                                  !.password = s, !.draft = file']
            /\ current' = None
       ELSE UNCHANGED <<op, current>>
    /\ UNCHANGED <<keyring, vaults>>

StoreSecret(ok) ==
    /\ At("storing")
    /\ StoreIn(op.store, op.password, ok)
    /\ IF ok THEN Goto("activating") ELSE Done
    /\ UNCHANGED <<files, ghosts>>

Activated(f, b) == [f EXCEPT !.marker = b, !.pending = @ \ {b}]

\* A marker that is visible is committed: it is never reported as a failure.
Activate(how) ==
    /\ At("activating")
    /\ WriteFile(Activated(op.draft, op.store), how)
    /\ IF how = "before"
       THEN Goto("undoing") /\ UNCHANGED <<current, promised>>
       ELSE /\ op' = [op EXCEPT !.step = "tidying", !.draft = file']
            /\ current' = op.password /\ promised' = op.password
    /\ UNCHANGED <<keyring, vaults, used>>

Undo(ok) ==
    /\ At("undoing")
    /\ DeleteFrom(op.store, ok)
    /\ Done
    /\ UNCHANGED <<files, ghosts>>

Tidy(ok) == LET other == Other(op.store) IN
    /\ At("tidying")
    /\ DeleteFrom(other, ok)
    /\ IF ok
       THEN op' = [op EXCEPT !.step = "recording", !.draft.pending = @ \ {other}]
       ELSE Done
    /\ UNCHANGED <<files, ghosts>>

\* Save and clean-up end with the journal; its failure is only conservative.
Record(how) ==
    /\ At("recording")
    /\ WriteFile(op.draft, how)
    /\ Done
    /\ UNCHANGED <<keyring, vaults, ghosts>>

(***************************************************************************)
(* Deleting, and the clean-up that a retry repeats.                        *)
(***************************************************************************)
CleanUp(f) == op' = [Idle EXCEPT !.step = "cleaning", !.draft = f, !.targets = f.pending]

DeleteRevoke(how) ==
    /\ At("idle")
    /\ WriteFile(Revoked(file), how)
    /\ promised' = None
    /\ IF how = "ok" THEN CleanUp(file') /\ current' = None ELSE UNCHANGED <<op, current>>
    /\ UNCHANGED <<keyring, vaults, used>>

Retry ==
    /\ At("idle")
    /\ CleanUp(file)
    /\ UNCHANGED <<files, keyring, vaults, ghosts>>

\* "Never delete the authoritative copy while cleaning up an older backend."
Spared(b) == b = op.draft.marker

CleanOne(b, ok) ==
    /\ At("cleaning") /\ b \in op.targets
    /\ IF Spared(b) THEN ok /\ UNCHANGED <<keyring, vaults>> ELSE DeleteFrom(b, ok)
    /\ op' = [op EXCEPT !.targets = @ \ {b},
                        !.draft.pending = IF ok THEN @ \ {b} ELSE @]
    /\ UNCHANGED <<files, ghosts>>

Cleaned ==
    /\ At("cleaning") /\ op.targets = {}
    /\ IF op.draft = file THEN Done ELSE Goto("recording")
    /\ UNCHANGED <<files, keyring, vaults, ghosts>>

(***************************************************************************)
(* Restoring a backup: the vault is locked and stays so.  The marker goes  *)
(* before the vault is replaced, and comes back after it.                  *)
(***************************************************************************)
\* The backup may be of any age, or of another device.
RestoreRevoke(b, how) ==
    /\ At("idle") /\ memory = Locked
    /\ WriteFile([backend |-> b, marker |-> None, pending |-> Backend], how)
    /\ op' = [Idle EXCEPT !.step = IF how = "ok" THEN "replacing" ELSE "rolling back",
                          !.before = [file |-> file, vault |-> vault]]
    /\ promised' = None
    /\ UNCHANGED <<keyring, vaults, used, current>>

RestoreVault(v, how) ==
    /\ At("replacing")
    /\ WriteVault(v, how)
    /\ Goto(IF how = "ok" THEN "loading" ELSE "rolling back")
    /\ UNCHANGED <<files, keyring, memory, ghosts>>

RestoreLoads(ok) ==
    /\ At("loading")
    /\ IF ok THEN Done /\ current' = None ELSE Goto("rolling back") /\ UNCHANGED current
    /\ UNCHANGED <<files, keyring, vaults, used, promised>>

\* Mutant of RollBackVault: the marker comes back although the vault did not.
RollBackRegardless(how) ==
    /\ At("rolling back")
    /\ WriteVault(op.before.vault, how)
    /\ Goto("rolled back")
    /\ UNCHANGED <<files, keyring, memory, ghosts>>

RollBackVault(how) ==
    /\ At("rolling back")
    /\ WriteVault(op.before.vault, how)
    /\ IF how = "ok" THEN Goto("rolled back") ELSE Done
    /\ UNCHANGED <<files, keyring, memory, ghosts>>

RollBackMarker(how) ==
    /\ At("rolled back")
    /\ WriteFile(op.before.file, how)
    /\ Done
    /\ UNCHANGED <<keyring, vaults, ghosts>>

(***************************************************************************)
(* What goes on beside the operations, and what stops them.                *)
(***************************************************************************)
SetPreferred(b, how) ==
    /\ At("idle") /\ file.backend # b
    /\ b = "vault" => vault # NoVault
    /\ WriteFile([file EXCEPT !.backend = b], how)
    /\ UNCHANGED <<keyring, vaults, op, ghosts>>

\* A restore holds the vault.
VaultFree == op.step \notin {"replacing", "loading", "rolling back", "rolled back"}

CreateVault(how) ==
    /\ VaultFree /\ vault = NoVault
    /\ WriteVault(None, how)
    /\ memory' = IF how = "ok" THEN None ELSE memory
    /\ UNCHANGED <<files, keyring, op, ghosts>>

\* Mutant of Unlock: it does not look whether there is a vault.
UnlockUnchecked ==
    /\ VaultFree
    /\ memory' = vault
    /\ UNCHANGED <<files, keyring, vault, vaultOld, op, ghosts>>

Unlock ==
    /\ VaultFree /\ vault # NoVault
    /\ memory' = vault
    /\ UNCHANGED <<files, keyring, vault, vaultOld, op, ghosts>>

Lock ==
    /\ VaultFree /\ memory # Locked
    /\ memory' = Locked
    /\ UNCHANGED <<files, keyring, vault, vaultOld, op, ghosts>>

\* Another credential is saved in the vault or deleted from it.
VaultRewritten(how) ==
    /\ VaultFree /\ memory # Locked
    /\ WriteVault(memory, how)
    /\ UNCHANGED <<files, keyring, memory, op, ghosts>>

\* The vault is written again from its file, and is open afterwards.
ChangePassword(how) ==
    /\ VaultFree /\ vault # NoVault
    /\ WriteVault(vault, how)
    /\ memory' = IF how = "ok" THEN vault ELSE memory
    /\ UNCHANGED <<files, keyring, op, ghosts>>

\* The process dies and the application is started again.
Crash ==
    /\ Done /\ memory' = Locked
    /\ UNCHANGED <<files, keyring, vault, vaultOld, ghosts>>

\* A file that was replaced and not synced may be the old one again.
PowerLoss ==
    /\ Done /\ memory' = Locked
    /\ file' \in {file} \cup fileOld /\ fileOld' = {}
    /\ vault' \in {vault} \cup vaultOld /\ vaultOld' = {}
    /\ promised' = IF fileOld = {} THEN promised ELSE None
    /\ UNCHANGED <<keyring, used, current>>

(***************************************************************************)
(* A new installation.                                                     *)
(***************************************************************************)
Init ==
    /\ file \in {Empty(b) : b \in Backend}
    /\ fileOld = {}
    /\ keyring = None
    /\ vault = NoVault /\ vaultOld = {} /\ memory = Locked
    /\ op = Idle
    /\ used = {} /\ current = None /\ promised = None

SaveNext ==
    \/ \E how \in Outcomes : Activate(how) \/ Record(how)
    \/ \E s \in Password, how \in Outcomes : StoreRevoke(s, how)
    \/ \E ok \in BOOLEAN : StoreSecret(ok) \/ Undo(ok) \/ Tidy(ok)

CleanNext ==
    \/ Retry \/ Cleaned
    \/ \E how \in Outcomes : DeleteRevoke(how)
    \/ \E b \in Backend, ok \in BOOLEAN : CleanOne(b, ok)

RestoreNext ==
    \/ \E b \in Backend, how \in Outcomes : RestoreRevoke(b, how)
    \/ \E v \in {NoVault, None} \cup used, how \in Outcomes : RestoreVault(v, how)
    \/ \E ok \in BOOLEAN : RestoreLoads(ok)
    \/ \E how \in Outcomes : RollBackVault(how)
    \/ \E how \in Outcomes : RollBackMarker(how)

VaultNext ==
    \/ Unlock \/ Lock
    \/ \E how \in Outcomes : CreateVault(how) \/ VaultRewritten(how) \/ ChangePassword(how)

Next ==
    \/ SaveNext \/ CleanNext \/ RestoreNext \/ VaultNext \/ Crash \/ PowerLoss
    \/ \E b \in Backend, how \in Outcomes : SetPreferred(b, how)

Spec == Init /\ [][Next]_vars

(***************************************************************************)
(* Properties.                                                             *)
(***************************************************************************)
TypeOK ==
    /\ file \in File /\ fileOld \subseteq File
    /\ keyring \in Entry
    /\ vault \in Vault /\ vaultOld \subseteq Vault /\ memory \in Entry \cup {Locked}
    /\ op \in Operation
    /\ used \subseteq Password /\ {current, promised} \subseteq Entry

\* "This marker makes an older copy unreachable after rotation": whatever
\* fails, crashes or loses power, a host is given the password activated last,
\* and none once an operation has reported it revoked.
OnlyCurrentLoads == Authority \in {None, current}

\* What a save reported as saved can be loaded until something tries to
\* revoke it or an unsynced marker is lost: no clean-up removes that copy.
SavedStays == promised # None => Authority = promised

\* A store that holds a password the marker does not name.
Stray(b) == Copy(b) # None /\ b # file.marker

\* "kept after logical revocation so physical deletion can be retried": while
\* the keyring holds a password that cannot be loaded, the journal says so.
KeyringJournaled == Stray("keyring") => "keyring" \in file.pending

\* The same of both stores.
CopiesJournaled == \A b \in Backend : Stray(b) => b \in file.pending

\* What a host is given follows HostAuthority: one password at a time, none
\* between two, and never again one that an operation reported revoked.
Underway == IF op.step \in {"storing", "activating"} THEN op.password ELSE None
HA == INSTANCE HostAuthority WITH given <- Authority, saving <- Underway, tried <- used
KeepsAuthority == HA!Spec
=============================================================================
