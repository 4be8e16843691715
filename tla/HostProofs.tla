----------------------------- MODULE HostProofs -----------------------------
(***************************************************************************)
(* Proofs about the two modules of the sharing host that MCHostPassword    *)
(* composes: HostPassword, for any passwords and any bound, and            *)
(* AgentSessions with PairingLimit, for any number of agents, sessions and *)
(* attempts, any window, and any clock.                                    *)
(*                                                                         *)
(* The password.  What can be loaded after the next power loss depends on  *)
(* every file that may come back, so the invariant speaks of all of them:  *)
(* whichever marker returns, the store it names holds nothing but the      *)
(* current password.  The other conjuncts say what each operation has made *)
(* sure of by the time it takes its next step.                             *)
(*                                                                         *)
(* The agents.  The inductive invariant has two parts beside the types.    *)
(* Tried: a session that is asked for the password has a charge.  Budget:  *)
(* every content the file has, or may have again after a power loss, holds *)
(* all the attempts that count, and no more than the budget.               *)
(***************************************************************************)
EXTENDS HostPassword, AgentSessions, FiniteSetTheorems, TLAPS

(***************************************************************************)
(* The password: what is loaded and what is kept.                          *)
(***************************************************************************)
Files == {file} \cup fileOld
Vaults == {vault, memory} \cup vaultOld

KeyringClean == keyring \in {None, current}
VaultClean   == Vaults \subseteq {None, NoVault, Locked, current}

\* Whichever marker a power loss brings back, its store is clean.
Secrets == \A f \in Files :
    /\ f.marker = "keyring" => KeyringClean
    /\ f.marker = "vault" => VaultClean

\* Nothing is marked while a new password is written.
Saving == op.step \in {"storing", "activating", "undoing"} =>
    /\ file.marker = None /\ file.pending = Backend /\ fileOld = {}
    /\ op.draft = file
    /\ current = None /\ promised = None

\* The store holds the password that the next marker names.
Written ==
    /\ op.step \in {"storing", "activating"} => op.password \in Password
    /\ op.step = "activating" =>
           /\ op.store = "keyring" => keyring = op.password
           /\ op.store = "vault" => Vaults \subseteq {Locked, op.password}

\* The draft of the journal never moves the marker.
Following ==
    /\ op.step \in {"tidying", "recording", "cleaning"} => op.draft.marker = file.marker
    /\ op.step = "tidying" => op.store = file.marker

\* What a rollback brings back is what was there.
RestoreSteps == {"replacing", "loading", "rolling back", "rolled back"}
Restoring == op.step \in RestoreSteps =>
    /\ memory = Locked /\ promised = None
    /\ op.step \in {"replacing", "loading"} => file.marker = None /\ fileOld = {}
    /\ op.before.file.marker = "keyring" => KeyringClean
    /\ \A f \in Files \cup {op.before.file} :
           f.marker = "vault" => op.before.vault \in {None, NoVault, current}
    /\ op.step = "rolled back" => vault = op.before.vault /\ vaultOld = {}

\* Every journal that may be read names the keyring while it holds a stray.
Journaled(f) == keyring # None /\ f.marker # "keyring" => "keyring" \in f.pending
Journal ==
    /\ \A f \in Files : Journaled(f)
    /\ op.step \in {"tidying", "recording", "cleaning"} => Journaled(op.draft)
    /\ op.step \in RestoreSteps => Journaled(op.before.file)

\* A saved password is in the marked store and in nothing that replaces it.
Kept == promised # None =>
    /\ promised = current /\ file.marker # None
    /\ file.marker = "keyring" => keyring = promised
    /\ file.marker = "vault" => Vaults \subseteq {Locked, promised}

Rest == Secrets /\ Saving /\ Written /\ Following /\ Restoring /\ Journal /\ Kept

USE HostPasswordConstants DEF HostPasswordConstants


(***************************************************************************)
(* What the writes do.                                                     *)
(***************************************************************************)
LEMMA WriteFileEffect ==
    ASSUME TypeOK, NEW new \in File, NEW how \in Outcomes, WriteFile(new, how)
    PROVE  /\ file' \in File /\ fileOld' \subseteq File
           /\ file' \in {file, new} /\ fileOld' \subseteq fileOld \cup {file}
           /\ how = "ok" => file' = new /\ fileOld' = {}
           /\ how = "after" => file' = new
           /\ how = "before" => file' = file /\ fileOld' = fileOld
  BY DEF TypeOK, WriteFile, Unsynced, Outcomes

LEMMA WriteVaultEffect ==
    ASSUME TypeOK, NEW new \in Vault, NEW how \in Outcomes, WriteVault(new, how)
    PROVE  /\ vault' \in Vault /\ vaultOld' \subseteq Vault
           /\ vault' \in {vault, new} /\ vaultOld' \subseteq vaultOld \cup {vault}
           /\ how = "ok" => vault' = new /\ vaultOld' = {}
           /\ how = "before" => vault' = vault /\ vaultOld' = vaultOld
  BY DEF TypeOK, WriteVault, Unsynced, Outcomes

LEMMA VaultHolds == Entry \subseteq Vault /\ None \in Entry /\ Locked \notin Entry /\ Locked \notin Vault
  BY DEF Entry, Vault

LEMMA StoreEffect ==
    ASSUME TypeOK, NEW b \in Backend, NEW s \in Entry, NEW ok \in BOOLEAN, StoreIn(b, s, ok)
    PROVE  /\ keyring' \in Entry
           /\ vault' \in Vault /\ vaultOld' \subseteq Vault /\ memory' \in Entry \cup {Locked}
           /\ b = "keyring" => UNCHANGED vaults /\ (ok => keyring' = s)
           /\ b = "vault" => keyring' = keyring /\ (ok => Vaults' = {s})
  <1>1. CASE b = "keyring"
    BY <1>1 DEF StoreIn, TypeOK, vaults
  <1>2. ASSUME NEW how \in Outcomes, b = "vault", keyring' = keyring,
               StoreInVault(s, how), ok = (how = "ok")
        PROVE  /\ keyring' \in Entry
               /\ vault' \in Vault /\ vaultOld' \subseteq Vault /\ memory' \in Entry \cup {Locked}
               /\ ok => Vaults' = {s}
    <2>1. WriteVault(s, how) /\ memory' = IF how = "ok" THEN s ELSE memory
      BY <1>2 DEF StoreInVault
    <2>2. s \in Vault
      BY VaultHolds
    <2>3. /\ vault' \in Vault /\ vaultOld' \subseteq Vault
          /\ how = "ok" => vault' = s /\ vaultOld' = {}
      BY <2>1, <2>2, WriteVaultEffect
    <2>4. QED
      BY <1>2, <2>1, <2>3 DEF TypeOK, Vaults
  <1>3. CASE b = "vault" /\ memory = Locked /\ ~ok /\ UNCHANGED <<keyring, vaults>>
    BY <1>3 DEF TypeOK, vaults
  <1>4. QED
    BY <1>1, <1>2, <1>3 DEF StoreIn, Backend

LEMMA DeleteEffect ==
    ASSUME TypeOK, NEW b \in Backend, NEW ok \in BOOLEAN, DeleteFrom(b, ok)
    PROVE  /\ keyring' \in Entry
           /\ vault' \in Vault /\ vaultOld' \subseteq Vault /\ memory' \in Entry \cup {Locked}
           /\ b = "keyring" => UNCHANGED vaults /\ keyring' \in {keyring, None}
                               /\ (ok => keyring' = None)
           /\ b = "vault" => keyring' = keyring /\ Vaults' \subseteq Vaults \cup {None}
  <1>1. CASE b = "keyring"
    BY <1>1 DEF DeleteFrom, TypeOK, vaults, Entry
  <1>2. ASSUME NEW how \in Outcomes, b = "vault", keyring' = keyring, StoreInVault(None, how)
        PROVE  /\ keyring' \in Entry
               /\ vault' \in Vault /\ vaultOld' \subseteq Vault /\ memory' \in Entry \cup {Locked}
               /\ Vaults' \subseteq Vaults \cup {None}
    <2>1. WriteVault(None, how) /\ memory' \in {memory, None}
      BY <1>2 DEF StoreInVault
    <2>2. None \in Vault /\ None \in Entry
      BY VaultHolds
    <2>3. QED
      BY <1>2, <2>1, <2>2, WriteVaultEffect DEF TypeOK, Vaults
  <1>3. CASE b = "vault" /\ UNCHANGED <<keyring, vaults>>
    BY <1>3 DEF TypeOK, vaults, Vaults
  <1>4. QED
    BY <1>1, <1>2, <1>3 DEF DeleteFrom, Backend

(***************************************************************************)
(* Types.                                                                  *)
(***************************************************************************)
LEMMA IdleTyped == Idle \in Operation /\ \A b \in Backend : Empty(b) \in File
  BY DEF Idle, Operation, Empty, File, Backend, Entry, Vault, Steps

LEMMA FilesTyped ==
    /\ \A f \in File : Revoked(f) \in File
    /\ \A f \in File, b \in Backend : Activated(f, b) \in File
  BY DEF Revoked, Activated, File, Backend

LEMMA GotoTyped == ASSUME op \in Operation, NEW s \in Steps, Goto(s)
                   PROVE  /\ op' \in Operation /\ op'.step = s
                          /\ op'.store = op.store /\ op'.password = op.password
                          /\ op'.draft = op.draft /\ op'.before = op.before
  BY DEF Goto, Operation

LEMMA TypeInit == Init => TypeOK
  BY IdleTyped DEF Init, TypeOK, Entry, Vault

LEMMA TypeStep == TypeOK /\ [Next]_vars => TypeOK'
  <1> SUFFICES ASSUME TypeOK, [Next]_vars PROVE TypeOK'
    OBVIOUS
  <1>SR. ASSUME NEW s \in Password, NEW how \in Outcomes, StoreRevoke(s, how)
        PROVE  TypeOK'
    <2>1. Revoked(file) \in File /\ WriteFile(Revoked(file), how)
      BY <1>SR, FilesTyped DEF StoreRevoke, TypeOK
    <2>2. file' \in File /\ fileOld' \subseteq File
      BY <2>1, WriteFileEffect
    <2>3. op' \in Operation
      <3>1. file.backend \in Backend /\ s \in Entry /\ op \in Operation
        BY DEF TypeOK, File, Entry
      <3>2. CASE how = "ok"
        <4>1. op' = [Idle EXCEPT !.step = "storing", !.store = file.backend,
                                 !.password = s, !.draft = file']
          BY <1>SR, <3>2 DEF StoreRevoke
        <4>2. QED
          BY <2>2, <3>1, <4>1, IdleTyped DEF Operation, Steps
      <3>3. CASE how # "ok"
        BY <1>SR, <3>1, <3>3 DEF StoreRevoke
      <3>4. QED
        BY <3>2, <3>3
    <2>4. QED
      BY <1>SR, <2>2, <2>3 DEF StoreRevoke, TypeOK, vaults, Entry
  <1>SS. ASSUME NEW ok \in BOOLEAN, StoreSecret(ok)
        PROVE  TypeOK'
    <2>1. op.store \in Backend /\ op.password \in Entry
      BY DEF TypeOK, Operation
    <2>2. /\ keyring' \in Entry
          /\ vault' \in Vault /\ vaultOld' \subseteq Vault /\ memory' \in Entry \cup {Locked}
      BY <1>SS, <2>1, StoreEffect DEF StoreSecret
    <2>3. op' \in Operation
      BY <1>SS, IdleTyped, GotoTyped DEF StoreSecret, Done, TypeOK, Steps
    <2>4. QED
      BY <1>SS, <2>2, <2>3 DEF StoreSecret, TypeOK, files, ghosts
  <1>AC. ASSUME NEW how \in Outcomes, Activate(how)
        PROVE  TypeOK'
    <2>1. Activated(op.draft, op.store) \in File /\ op.password \in Entry
      BY FilesTyped DEF TypeOK, Operation
    <2>2. file' \in File /\ fileOld' \subseteq File
      BY <1>AC, <2>1, WriteFileEffect DEF Activate
    <2>3. CASE how = "before"
      <3>1. op' \in Operation
        BY <1>AC, <2>3, GotoTyped DEF Activate, TypeOK, Steps
      <3>2. QED
        BY <1>AC, <2>2, <2>3, <3>1 DEF Activate, TypeOK, vaults
    <2>4. CASE how # "before"
      <3>1. op' = [op EXCEPT !.step = "tidying", !.draft = file']
        BY <1>AC, <2>4 DEF Activate
      <3>2. op' \in Operation
        BY <2>2, <3>1 DEF TypeOK, Operation, Steps
      <3>3. QED
        BY <1>AC, <2>1, <2>2, <2>4, <3>2 DEF Activate, TypeOK, vaults
    <2>5. QED
      BY <2>3, <2>4
  <1>UN. ASSUME NEW ok \in BOOLEAN, Undo(ok)
        PROVE  TypeOK'
    <2>1. op.store \in Backend
      BY DEF TypeOK, Operation
    <2>2. QED
      BY <1>UN, <2>1, DeleteEffect, IdleTyped DEF Undo, Done, TypeOK, files, ghosts
  <1>TI. ASSUME NEW ok \in BOOLEAN, Tidy(ok)
        PROVE  TypeOK'
    <2>1. op.store \in Backend /\ Other(op.store) \in Backend
      BY DEF TypeOK, Operation, Other, Backend
    <2>2. /\ keyring' \in Entry
          /\ vault' \in Vault /\ vaultOld' \subseteq Vault /\ memory' \in Entry \cup {Locked}
      BY <1>TI, <2>1, DeleteEffect DEF Tidy
    <2>3. op' \in Operation
      <3>1. op \in Operation /\ op.draft \in File
        BY DEF TypeOK, Operation
      <3>2. CASE ok
        <4> DEFINE d == [op.draft EXCEPT !.pending = @ \ {Other(op.store)}]
        <4>1. d \in File
          BY <3>1 DEF File
        <4>2. op' = [op EXCEPT !.step = "recording", !.draft = d]
          BY <1>TI, <3>1, <3>2 DEF Tidy, Operation
        <4> HIDE DEF d
        <4>3. QED
          BY <3>1, <4>1, <4>2 DEF Operation, Steps
      <3>3. CASE ~ok
        BY <1>TI, <3>3, IdleTyped DEF Tidy, Done
      <3>4. QED
        BY <3>2, <3>3
    <2>4. QED
      BY <1>TI, <2>2, <2>3 DEF Tidy, TypeOK, files, ghosts
  <1>RE. ASSUME NEW how \in Outcomes, Record(how)
        PROVE  TypeOK'
    <2>1. op.draft \in File
      BY DEF TypeOK, Operation
    <2>2. QED
      BY <1>RE, <2>1, WriteFileEffect, IdleTyped DEF Record, Done, TypeOK, vaults, ghosts
  <1>DR. ASSUME NEW how \in Outcomes, DeleteRevoke(how)
        PROVE  TypeOK'
    <2>1. Revoked(file) \in File /\ WriteFile(Revoked(file), how)
      BY <1>DR, FilesTyped DEF DeleteRevoke, TypeOK
    <2>2. file' \in File /\ fileOld' \subseteq File
      BY <2>1, WriteFileEffect
    <2>3. op' \in Operation
      <3>1. file'.pending \subseteq Backend /\ op \in Operation
        BY <2>2 DEF TypeOK, File
      <3>2. CASE how = "ok"
        <4>1. op' = [Idle EXCEPT !.step = "cleaning", !.draft = file', !.targets = file'.pending]
          BY <1>DR, <3>2 DEF DeleteRevoke, CleanUp
        <4>2. QED
          BY <2>2, <3>1, <4>1, IdleTyped DEF Operation, Steps
      <3>3. CASE how # "ok"
        BY <1>DR, <3>1, <3>3 DEF DeleteRevoke
      <3>4. QED
        BY <3>2, <3>3
    <2>4. QED
      BY <1>DR, <2>2, <2>3 DEF DeleteRevoke, TypeOK, vaults, Entry
  <1>RT. CASE Retry
    <2>1. op' \in Operation
      BY <1>RT, IdleTyped DEF Retry, CleanUp, TypeOK, Idle, Operation, Steps, File
    <2>2. QED
      BY <1>RT, <2>1 DEF Retry, TypeOK, files, vaults, ghosts
  <1>CO. ASSUME NEW b \in Backend, NEW ok \in BOOLEAN, CleanOne(b, ok)
        PROVE  TypeOK'
    <2>1. /\ keyring' \in Entry
          /\ vault' \in Vault /\ vaultOld' \subseteq Vault /\ memory' \in Entry \cup {Locked}
      BY <1>CO, DeleteEffect DEF CleanOne, TypeOK, vaults
    <2>2. op' \in Operation
      BY <1>CO DEF CleanOne, TypeOK, Operation, File
    <2>3. QED
      BY <1>CO, <2>1, <2>2 DEF CleanOne, TypeOK, files, ghosts
  <1>CL. CASE Cleaned
    <2>1. op' \in Operation
      BY <1>CL, IdleTyped, GotoTyped DEF Cleaned, Done, TypeOK, Steps
    <2>2. QED
      BY <1>CL, <2>1 DEF Cleaned, TypeOK, files, vaults, ghosts
  <1>RR. ASSUME NEW b \in Backend, NEW how \in Outcomes, RestoreRevoke(b, how)
        PROVE  TypeOK'
    <2> DEFINE new == [backend |-> b, marker |-> None, pending |-> Backend]
    <2>1. new \in File
      BY DEF File
    <2>2. file' \in File /\ fileOld' \subseteq File
      <3> HIDE DEF new
      <3> QED BY <1>RR, <2>1, WriteFileEffect DEF RestoreRevoke, new
    <2>3. op' \in Operation
      BY <1>RR, IdleTyped DEF RestoreRevoke, TypeOK, Idle, Operation, Steps
    <2>4. QED
      BY <1>RR, <2>2, <2>3 DEF RestoreRevoke, TypeOK, vaults, Entry
  <1>RV. ASSUME NEW v \in {NoVault, None} \cup used, NEW how \in Outcomes, RestoreVault(v, how)
        PROVE  TypeOK'
    <2>1. v \in Vault
      BY DEF TypeOK, Vault, Entry
    <2>2. op' \in Operation
      BY <1>RV, GotoTyped DEF RestoreVault, TypeOK, Steps
    <2>3. QED
      BY <1>RV, <2>1, <2>2, WriteVaultEffect DEF RestoreVault, TypeOK, files, ghosts
  <1>RL. ASSUME NEW ok \in BOOLEAN, RestoreLoads(ok)
        PROVE  TypeOK'
    <2>1. op' \in Operation
      BY <1>RL, IdleTyped, GotoTyped DEF RestoreLoads, Done, TypeOK, Steps
    <2>2. QED
      BY <1>RL, <2>1 DEF RestoreLoads, TypeOK, files, vaults, Entry
  <1>BV. ASSUME NEW how \in Outcomes, RollBackVault(how)
        PROVE  TypeOK'
    <2>1. op.before.vault \in Vault
      BY DEF TypeOK, Operation
    <2>2. op' \in Operation
      BY <1>BV, IdleTyped, GotoTyped DEF RollBackVault, Done, TypeOK, Steps
    <2>3. QED
      BY <1>BV, <2>1, <2>2, WriteVaultEffect DEF RollBackVault, TypeOK, files, ghosts
  <1>BM. ASSUME NEW how \in Outcomes, RollBackMarker(how)
        PROVE  TypeOK'
    <2>1. op.before.file \in File
      BY DEF TypeOK, Operation
    <2>2. QED
      BY <1>BM, <2>1, WriteFileEffect, IdleTyped DEF RollBackMarker, Done, TypeOK, vaults, ghosts
  <1>SP. ASSUME NEW b \in Backend, NEW how \in Outcomes, SetPreferred(b, how)
        PROVE  TypeOK'
    <2>1. [file EXCEPT !.backend = b] \in File
      BY DEF TypeOK, File
    <2>2. QED
      BY <1>SP, <2>1, WriteFileEffect DEF SetPreferred, TypeOK, vaults, ghosts
  <1>CV. ASSUME NEW how \in Outcomes, CreateVault(how)
        PROVE  TypeOK'
    <2>1. vault' \in Vault /\ vaultOld' \subseteq Vault
      BY <1>CV, VaultHolds, WriteVaultEffect DEF CreateVault
    <2>2. QED
      BY <1>CV, <2>1 DEF CreateVault, TypeOK, files, ghosts, Entry
  <1>UL. CASE Unlock
    BY <1>UL DEF Unlock, TypeOK, files, ghosts, Vault
  <1>LO. CASE Lock
    BY <1>LO DEF Lock, TypeOK, files, ghosts
  <1>VR. ASSUME NEW how \in Outcomes, VaultRewritten(how)
        PROVE  TypeOK'
    <2>1. memory \in Vault
      BY <1>VR, VaultHolds DEF VaultRewritten, TypeOK
    <2>2. QED
      BY <1>VR, <2>1, WriteVaultEffect DEF VaultRewritten, TypeOK, files, ghosts
  <1>CP. ASSUME NEW how \in Outcomes, ChangePassword(how)
        PROVE  TypeOK'
    <2>1. vault \in Vault /\ (vault # NoVault => vault \in Entry)
      BY DEF TypeOK, Vault
    <2>2. vault' \in Vault /\ vaultOld' \subseteq Vault
      BY <1>CP, <2>1, WriteVaultEffect DEF ChangePassword
    <2>3. QED
      BY <1>CP, <2>1, <2>2 DEF ChangePassword, TypeOK, files, ghosts
  <1>CR. CASE Crash
    BY <1>CR, IdleTyped DEF Crash, Done, TypeOK, files, ghosts
  <1>PL. CASE PowerLoss
    BY <1>PL, IdleTyped DEF PowerLoss, Done, TypeOK, Entry
  <1>ST. CASE UNCHANGED vars
    BY <1>ST DEF TypeOK, vars, files, vaults, ghosts
  <1>q. QED
    BY <1>SR, <1>SS, <1>AC, <1>UN, <1>TI, <1>RE, <1>DR, <1>RT, <1>CO, <1>CL, <1>RR, <1>RV,
       <1>RL, <1>BV, <1>BM, <1>SP, <1>CV, <1>UL, <1>LO, <1>VR, <1>CP, <1>CR, <1>PL, <1>ST
    DEF Next, SaveNext, CleanNext, RestoreNext, VaultNext

(***************************************************************************)
(* What most steps leave alone.                                            *)
(***************************************************************************)
LEMMA SecretsKept ==
    ASSUME Secrets, current' = current,
           \A f \in Files' : f.marker = None \/ \E g \in Files : g.marker = f.marker,
           keyring' \in {keyring, None}, Vaults' \subseteq Vaults \cup {None, Locked}
    PROVE  Secrets'
  BY DEF Secrets, KeyringClean, VaultClean

\* With no marker on disk nothing can be loaded.
LEMMA SecretsUnmarked == ASSUME \A f \in Files' : f.marker = None PROVE Secrets'
  BY DEF Secrets

\* A step between operations, or beside them.
LEMMA IdleStep ==
    ASSUME op'.step = "idle"
    PROVE  Saving' /\ Written' /\ Following' /\ Restoring'
  BY DEF Saving, Written, Following, Restoring, RestoreSteps

LEMMA JournalIdle ==
    ASSUME Journal, op'.step = "idle", keyring' \in {keyring, None}, 
           \A f \in Files' : f \in Files \/ f.pending = Backend
    PROVE  Journal'
  BY DEF Journal, Journaled, Backend, RestoreSteps

(***************************************************************************)
(* Saving.                                                                 *)
(***************************************************************************)
LEMMA StoreRevokeStep ==
    ASSUME TypeOK, Rest, NEW s \in Password, NEW how \in Outcomes, StoreRevoke(s, how)
    PROVE  Rest'
  <1>1. /\ file' \in {file, Revoked(file)} /\ fileOld' \subseteq fileOld \cup {file}
        /\ how = "ok" => file' = Revoked(file) /\ fileOld' = {}
    BY FilesTyped, WriteFileEffect DEF StoreRevoke, TypeOK
  <1>2. Revoked(file).marker = None /\ Revoked(file).pending = Backend
    BY DEF Revoked, TypeOK, File
  <1>3. keyring' = keyring /\ Vaults' = Vaults /\ promised' = None
    BY DEF StoreRevoke, vaults, Vaults
  <1>4. Kept'
    BY <1>3 DEF Kept
  <1>5. CASE how = "ok"
    <2>1. op' = [Idle EXCEPT !.step = "storing", !.store = file.backend,
                             !.password = s, !.draft = file'] /\ current' = None
      BY <1>5 DEF StoreRevoke
    <2>2. op'.step = "storing" /\ op'.password = s /\ op'.draft = file'
      BY <2>1 DEF Idle
    <2>3. Secrets'
      BY <1>1, <1>2, <1>5, SecretsUnmarked DEF Files
    <2>4. Journal'
      BY <1>1, <1>2, <1>5, <2>2 DEF Journal, Journaled, Files, Backend, RestoreSteps
    <2>5. Saving' /\ Written' /\ Following' /\ Restoring'
      BY <1>1, <1>2, <1>3, <1>5, <2>1, <2>2 DEF Saving, Written, Following, Restoring, RestoreSteps
    <2>6. QED
      BY <1>4, <2>3, <2>4, <2>5 DEF Rest
  <1>6. CASE how # "ok"
    <2>1. op'.step = "idle" /\ current' = current
      BY <1>6 DEF StoreRevoke, At
    <2>2. Secrets'
      BY <1>1, <1>2, <1>3, <2>1, SecretsKept DEF Rest, Files
    <2>3. Journal'
      BY <1>1, <1>2, <1>3, <2>1, JournalIdle DEF Rest, Files
    <2>4. QED
      BY <1>4, <2>1, <2>2, <2>3, IdleStep DEF Rest
  <1>7. QED
    BY <1>5, <1>6

LEMMA StoreSecretStep ==
    ASSUME TypeOK, Rest, NEW ok \in BOOLEAN, StoreSecret(ok)
    PROVE  Rest'
  <1>1. op.step = "storing" /\ op.store \in Backend /\ op.password \in Entry /\ op.draft = file
    BY DEF StoreSecret, At, TypeOK, Operation, Rest, Saving
  <1>2. /\ file' = file /\ fileOld' = fileOld
        /\ current' = current /\ promised' = promised
    BY DEF StoreSecret, files, ghosts
  <1>3. file.marker = None /\ file.pending = Backend /\ fileOld = {}
        /\ current = None /\ promised = None /\ op.password \in Password
    BY <1>1 DEF Rest, Saving, Written
  <1>4. Secrets'
    BY <1>2, <1>3, SecretsUnmarked DEF Files
  <1>5. Kept'
    BY <1>2, <1>3 DEF Kept
  <1>6. \A f \in Files' : Journaled(f)'
    BY <1>2, <1>3 DEF Files, Journaled, Backend
  <1>7. CASE ok
    <2>1. /\ op'.step = "activating" /\ op'.store = op.store /\ op'.password = op.password
          /\ op'.draft = op.draft
      BY <1>7, GotoTyped DEF StoreSecret, TypeOK, Steps
    <2>2. /\ op.store = "keyring" => keyring' = op.password
          /\ op.store = "vault" => Vaults' = {op.password}
      BY <1>1, <1>7, StoreEffect DEF StoreSecret
    <2>3. Saving' /\ Written' /\ Following' /\ Restoring'
      BY <1>1, <1>2, <1>3, <2>1, <2>2 DEF Saving, Written, Following, Restoring, RestoreSteps
    <2>4. Journal'
      BY <1>6, <2>1 DEF Journal, RestoreSteps
    <2>5. QED
      BY <1>4, <1>5, <2>3, <2>4 DEF Rest
  <1>8. CASE ~ok
    <2>1. op'.step = "idle"
      BY <1>8 DEF StoreSecret, Done, Idle
    <2>2. Journal'
      BY <1>6, <2>1 DEF Journal, RestoreSteps
    <2>3. QED
      BY <1>4, <1>5, <2>1, <2>2, IdleStep DEF Rest
  <1>9. QED
    BY <1>7, <1>8

LEMMA ActivateStep ==
    ASSUME TypeOK, Rest, NEW how \in Outcomes, Activate(how)
    PROVE  Rest'
  <1> DEFINE new == Activated(op.draft, op.store)
  <1>1. op.step = "activating" /\ op.store \in Backend /\ op.draft = file
    BY DEF Activate, At, TypeOK, Operation, Rest, Saving
  <1>2. /\ file.marker = None /\ file.pending = Backend /\ fileOld = {}
        /\ current = None /\ promised = None /\ op.password \in Password
        /\ op.store = "keyring" => keyring = op.password
        /\ op.store = "vault" => Vaults \subseteq {Locked, op.password}
    BY <1>1 DEF Rest, Saving, Written
  <1>3. new \in File /\ new.marker = op.store /\ new.pending = Backend \ {op.store}
    BY <1>1, <1>2 DEF Activated, TypeOK, File
  <1>4. /\ file' \in {file, new} /\ fileOld' \subseteq {file}
        /\ how = "before" => file' = file /\ fileOld' = {}
        /\ how # "before" => file' = new
    <2>1. WriteFile(new, how)
      BY DEF Activate
    <2> HIDE DEF new
    <2>2. QED
      BY <1>2, <1>3, <2>1, WriteFileEffect DEF Outcomes
  <1>5. keyring' = keyring /\ Vaults' = Vaults
    BY DEF Activate, vaults, Vaults
  <1> HIDE DEF new
  <1>6. \A f \in Files' : Journaled(f)'
    BY <1>1, <1>2, <1>3, <1>4, <1>5 DEF Files, Journaled, Backend
  <1>7. CASE how = "before"
    <2>1. op'.step = "undoing" /\ op'.draft = op.draft /\ op'.password = op.password
      BY <1>7, GotoTyped DEF Activate, TypeOK, Steps
    <2>2. current' = current /\ promised' = promised
      BY <1>7 DEF Activate
    <2>3. Secrets' /\ Kept'
      BY <1>2, <1>4, <1>7, <2>2, SecretsUnmarked DEF Files, Kept
    <2>4. Saving' /\ Written' /\ Following' /\ Restoring' /\ Journal'
      BY <1>1, <1>2, <1>4, <1>6, <1>7, <2>1, <2>2
      DEF Saving, Written, Following, Restoring, Journal, RestoreSteps
    <2>5. QED
      BY <2>3, <2>4 DEF Rest
  <1>8. CASE how # "before"
    <2>1. op' = [op EXCEPT !.step = "tidying", !.draft = file']
          /\ current' = op.password /\ promised' = op.password
      BY <1>8 DEF Activate
    <2>2. op'.step = "tidying" /\ op'.draft = file' /\ op'.store = op.store
      BY <2>1 DEF TypeOK, Operation
    <2>3. Secrets'
      BY <1>1, <1>2, <1>3, <1>4, <1>5, <1>8, <2>1
      DEF Secrets, Files, KeyringClean, VaultClean, Backend
    <2>4. Kept'
      BY <1>1, <1>2, <1>3, <1>4, <1>5, <1>8, <2>1 DEF Kept, Backend
    <2>5. Saving' /\ Written' /\ Following' /\ Restoring'
      BY <1>3, <1>4, <1>8, <2>2 DEF Saving, Written, Following, Restoring, RestoreSteps
    <2>6. Journal'
      BY <1>6, <2>2 DEF Journal, RestoreSteps, Files
    <2>7. QED
      BY <2>3, <2>4, <2>5, <2>6 DEF Rest
  <1>9. QED
    BY <1>7, <1>8

LEMMA UndoStep ==
    ASSUME TypeOK, Rest, NEW ok \in BOOLEAN, Undo(ok)
    PROVE  Rest'
  <1>1. op.step = "undoing" /\ op.store \in Backend /\ op'.step = "idle"
    BY DEF Undo, At, Done, Idle, TypeOK, Operation
  <1>2. /\ file' = file /\ fileOld' = fileOld /\ current' = current /\ promised' = promised
    BY DEF Undo, files, ghosts
  <1>3. file.marker = None /\ fileOld = {} /\ promised = None
    BY <1>1 DEF Rest, Saving
  <1>4. keyring' \in {keyring, None}
    BY <1>1, DeleteEffect DEF Undo, Backend
  <1>5. Secrets' /\ Kept'
    BY <1>2, <1>3, SecretsUnmarked DEF Files, Kept
  <1>6. Journal'
    BY <1>1, <1>2, <1>4, JournalIdle DEF Rest, Files
  <1>7. QED
    BY <1>1, <1>5, <1>6, IdleStep DEF Rest

LEMMA TidyStep ==
    ASSUME TypeOK, Rest, NEW ok \in BOOLEAN, Tidy(ok)
    PROVE  Rest'
  <1> DEFINE other == Other(op.store)
  <1>1. op.step = "tidying" /\ op.store \in Backend /\ op.draft \in File
    BY DEF Tidy, At, TypeOK, Operation
  <1>2. other \in Backend /\ other # op.store
    BY <1>1 DEF Other, Backend
  <1>3. /\ file' = file /\ fileOld' = fileOld /\ current' = current /\ promised' = promised
    BY DEF Tidy, files, ghosts
  <1>4. op.store = file.marker /\ op.draft.marker = file.marker
    BY <1>1 DEF Rest, Following
  <1>5. /\ other = "keyring" => UNCHANGED vaults /\ keyring' \in {keyring, None}
                                /\ (ok => keyring' = None)
        /\ other = "vault" => keyring' = keyring /\ Vaults' \subseteq Vaults \cup {None}
    BY <1>2, DeleteEffect DEF Tidy
  <1>6. keyring' \in {keyring, None} /\ Vaults' \subseteq Vaults \cup {None}
    BY <1>2, <1>5 DEF Backend, vaults, Vaults
  <1> HIDE DEF other
  <1>7. Secrets'
    BY <1>3, <1>6, SecretsKept DEF Rest, Files
  <1>8. Kept'
    BY <1>1, <1>2, <1>3, <1>4, <1>5 DEF Rest, Kept, Backend, vaults, Vaults
  <1>9. \A f \in Files' : Journaled(f)'
    BY <1>3, <1>6 DEF Rest, Journal, Journaled, Files
  <1>10. CASE ok
    <2>1. op' = [op EXCEPT !.step = "recording", !.draft.pending = @ \ {other}]
      BY <1>10 DEF Tidy, other
    <2>2. /\ op'.step = "recording" /\ op'.draft.marker = op.draft.marker
          /\ op'.draft.pending = op.draft.pending \ {other}
      BY <1>1, <2>1 DEF TypeOK, Operation, File
    <2>3. Journaled(op.draft)
      BY <1>1 DEF Rest, Journal
    <2>4. Journaled(op.draft)'
      BY <1>2, <1>5, <1>6, <1>10, <2>2, <2>3 DEF Journaled, Backend
    <2>5. Saving' /\ Written' /\ Following' /\ Restoring' /\ Journal'
      BY <1>3, <1>4, <1>9, <2>2, <2>4
      DEF Saving, Written, Following, Restoring, Journal, RestoreSteps
    <2>6. QED
      BY <1>7, <1>8, <2>5 DEF Rest
  <1>11. CASE ~ok
    <2>1. op'.step = "idle"
      BY <1>11 DEF Tidy, Done, Idle
    <2>2. QED
      BY <1>7, <1>8, <1>9, <2>1, IdleStep DEF Rest, Journal, RestoreSteps
  <1>12. QED
    BY <1>10, <1>11

LEMMA RecordStep ==
    ASSUME TypeOK, Rest, NEW how \in Outcomes, Record(how)
    PROVE  Rest'
  <1>1. op.step = "recording" /\ op.draft \in File /\ op'.step = "idle"
    BY DEF Record, At, Done, Idle, TypeOK, Operation
  <1>2. op.draft.marker = file.marker /\ Journaled(op.draft)
    BY <1>1 DEF Rest, Following, Journal
  <1>3. file' \in {file, op.draft} /\ fileOld' \subseteq fileOld \cup {file}
    BY <1>1, WriteFileEffect DEF Record
  <1>4. /\ keyring' = keyring /\ Vaults' = Vaults
        /\ current' = current /\ promised' = promised
    BY DEF Record, vaults, Vaults, ghosts
  <1>5. Secrets'
    BY <1>2, <1>3, <1>4, SecretsKept DEF Rest, Files
  <1>6. Kept'
    BY <1>2, <1>3, <1>4 DEF Rest, Kept
  <1>7. Journal'
    BY <1>1, <1>2, <1>3, <1>4 DEF Rest, Journal, Journaled, Files, RestoreSteps
  <1>8. QED
    BY <1>1, <1>5, <1>6, <1>7, IdleStep DEF Rest

(***************************************************************************)
(* Deleting and cleaning up.                                               *)
(***************************************************************************)
LEMMA DeleteRevokeStep ==
    ASSUME TypeOK, Rest, NEW how \in Outcomes, DeleteRevoke(how)
    PROVE  Rest'
  <1>1. /\ file' \in {file, Revoked(file)} /\ fileOld' \subseteq fileOld \cup {file}
        /\ how = "ok" => file' = Revoked(file) /\ fileOld' = {}
    BY FilesTyped, WriteFileEffect DEF DeleteRevoke, TypeOK
  <1>2. Revoked(file).marker = None /\ Revoked(file).pending = Backend
    BY DEF Revoked, TypeOK, File
  <1>3. keyring' = keyring /\ Vaults' = Vaults /\ promised' = None
    BY DEF DeleteRevoke, vaults, Vaults
  <1>4. Kept'
    BY <1>3 DEF Kept
  <1>5. CASE how = "ok"
    <2>1. op' = [Idle EXCEPT !.step = "cleaning", !.draft = file', !.targets = file'.pending]
      BY <1>5 DEF DeleteRevoke, CleanUp
    <2>2. op'.step = "cleaning" /\ op'.draft = file'
      BY <2>1 DEF Idle
    <2>3. Secrets'
      BY <1>1, <1>2, <1>5, SecretsUnmarked DEF Files
    <2>4. Journal'
      BY <1>1, <1>2, <1>5, <2>2 DEF Journal, Journaled, Files, Backend, RestoreSteps
    <2>5. Saving' /\ Written' /\ Following' /\ Restoring'
      BY <2>2 DEF Saving, Written, Following, Restoring, RestoreSteps
    <2>6. QED
      BY <1>4, <2>3, <2>4, <2>5 DEF Rest
  <1>6. CASE how # "ok"
    <2>1. op'.step = "idle" /\ current' = current
      BY <1>6 DEF DeleteRevoke, At
    <2>2. Secrets'
      BY <1>1, <1>2, <1>3, <2>1, SecretsKept DEF Rest, Files
    <2>3. Journal'
      BY <1>1, <1>2, <1>3, <2>1, JournalIdle DEF Rest, Files
    <2>4. QED
      BY <1>4, <2>1, <2>2, <2>3, IdleStep DEF Rest
  <1>7. QED
    BY <1>5, <1>6

LEMMA RetryStep == ASSUME TypeOK, Rest, Retry PROVE Rest'
  <1>1. op' = [Idle EXCEPT !.step = "cleaning", !.draft = file, !.targets = file.pending]
    BY DEF Retry, CleanUp
  <1>2. op'.step = "cleaning" /\ op'.draft = file
    BY <1>1 DEF Idle
  <1>3. /\ file' = file /\ Files' = Files /\ keyring' = keyring /\ Vaults' = Vaults
        /\ current' = current /\ promised' = promised
    BY DEF Retry, files, vaults, ghosts, Files, Vaults
  <1>4. Secrets'
    BY <1>3, SecretsKept DEF Rest
  <1>5. QED
    BY <1>2, <1>3, <1>4 DEF Rest, Saving, Written, Following, Restoring, Journal, Journaled, Kept,
                            RestoreSteps, Files

LEMMA CleanOneStep ==
    ASSUME TypeOK, Rest, NEW b \in Backend, NEW ok \in BOOLEAN, CleanOne(b, ok)
    PROVE  Rest'
  <1>1. op.step = "cleaning" /\ op.draft \in File
    BY DEF CleanOne, At, TypeOK, Operation
  <1>2. op.draft.marker = file.marker /\ Journaled(op.draft)
    BY <1>1 DEF Rest, Following, Journal
  <1>3. /\ file' = file /\ fileOld' = fileOld /\ current' = current /\ promised' = promised
    BY DEF CleanOne, files, ghosts
  <1>4. op' = [op EXCEPT !.targets = @ \ {b}, !.draft.pending = IF ok THEN @ \ {b} ELSE @]
    BY DEF CleanOne
  <1>5. /\ op'.step = "cleaning" /\ op'.draft.marker = op.draft.marker
        /\ op'.draft.pending \in {op.draft.pending, op.draft.pending \ {b}}
        /\ ~ok => op'.draft.pending = op.draft.pending
    BY <1>1, <1>4 DEF TypeOK, Operation, File
  <1>6. CASE b = file.marker
    <2>1. keyring' = keyring /\ Vaults' = Vaults
      BY <1>2, <1>6 DEF CleanOne, Spared, vaults, Vaults
    <2>2. Secrets'
      BY <1>3, <2>1, SecretsKept DEF Rest, Files
    <2>3. Journaled(op.draft)'
      BY <1>2, <1>5, <1>6, <2>1 DEF Journaled
    <2>4. QED
      BY <1>2, <1>3, <1>5, <2>1, <2>2, <2>3
      DEF Rest, Saving, Written, Following, Restoring, Journal, Journaled, Kept, RestoreSteps, Files
  <1>7. CASE b # file.marker
    <2>1. /\ b = "keyring" => UNCHANGED vaults /\ keyring' \in {keyring, None}
                              /\ (ok => keyring' = None)
          /\ b = "vault" => keyring' = keyring /\ Vaults' \subseteq Vaults \cup {None}
      BY <1>2, <1>7, DeleteEffect DEF CleanOne, Spared
    <2>2. keyring' \in {keyring, None} /\ Vaults' \subseteq Vaults \cup {None}
      BY <2>1 DEF Backend, vaults, Vaults
    <2>3. Secrets'
      BY <1>3, <2>2, SecretsKept DEF Rest, Files
    <2>4. Kept'
      BY <1>3, <1>7, <2>1 DEF Rest, Kept, Backend, vaults, Vaults
    <2>5. Journaled(op.draft)'
      BY <1>2, <1>5, <1>7, <2>1, <2>2 DEF Journaled, Backend
    <2>6. Journal'
      BY <1>3, <1>5, <2>2, <2>5 DEF Rest, Journal, Journaled, Files, RestoreSteps
    <2>7. Saving' /\ Written' /\ Following' /\ Restoring'
      BY <1>2, <1>3, <1>5 DEF Saving, Written, Following, Restoring, RestoreSteps
    <2>8. QED
      BY <2>3, <2>4, <2>6, <2>7 DEF Rest
  <1>8. QED
    BY <1>6, <1>7

LEMMA CleanedStep == ASSUME TypeOK, Rest, Cleaned PROVE Rest'
  <1>1. op.step = "cleaning"
    BY DEF Cleaned, At
  <1>2. op'.step = "idle" \/ (op'.step = "recording" /\ op'.draft = op.draft)
    <2>1. CASE Goto("recording")
      BY <2>1, GotoTyped DEF TypeOK, Steps
    <2>2. CASE Done
      BY <2>2 DEF Done, Idle
    <2>3. QED
      BY <2>1, <2>2 DEF Cleaned
  <1>3. /\ file' = file /\ Files' = Files /\ keyring' = keyring /\ Vaults' = Vaults
        /\ current' = current /\ promised' = promised
    BY DEF Cleaned, files, vaults, ghosts, Files, Vaults
  <1>4. Secrets'
    BY <1>3, SecretsKept DEF Rest
  <1>5. QED
    BY <1>1, <1>2, <1>3, <1>4 DEF Rest, Saving, Written, Following, Restoring, Journal, Journaled,
                                  Kept, RestoreSteps

(***************************************************************************)
(* Restoring.                                                              *)
(***************************************************************************)
LEMMA RestoreRevokeStep ==
    ASSUME TypeOK, Rest, NEW b \in Backend, NEW how \in Outcomes, RestoreRevoke(b, how)
    PROVE  Rest'
  <1> DEFINE new == [backend |-> b, marker |-> None, pending |-> Backend]
  <1>1. new \in File /\ new.marker = None /\ new.pending = Backend
    BY DEF File
  <1>2. WriteFile(new, how) /\ memory = Locked /\ promised' = None /\ current' = current
    BY DEF RestoreRevoke
  <1> HIDE DEF new
  <1>3. /\ file' \in {file, new} /\ fileOld' \subseteq fileOld \cup {file}
        /\ how = "ok" => file' = new /\ fileOld' = {}
    BY <1>1, <1>2, WriteFileEffect
  <1>4. keyring' = keyring /\ memory' = memory /\ vault' = vault /\ vaultOld' = vaultOld
    BY DEF RestoreRevoke, vaults
  <1>5. /\ op'.step = IF how = "ok" THEN "replacing" ELSE "rolling back"
        /\ op'.before.file = file /\ op'.before.vault = vault
    BY DEF RestoreRevoke, Idle
  <1>6. Secrets'
    BY <1>1, <1>2, <1>3, <1>4, SecretsKept DEF Rest, Files, Vaults
  <1>7. Kept'
    BY <1>2 DEF Kept
  <1>8. Journal'
    BY <1>1, <1>3, <1>4, <1>5 DEF Rest, Journal, Journaled, Files, RestoreSteps, Backend
  <1>9. Restoring'
    <2>1. file.marker = "keyring" => KeyringClean'
      BY <1>2, <1>4 DEF Rest, Secrets, Files, KeyringClean
    <2>2. vault # Locked
      BY VaultHolds DEF TypeOK
    <2>3. \A f \in Files' \cup {file} : f.marker = "vault" => vault \in {None, NoVault, current}
      BY <1>1, <1>3, <2>2 DEF Rest, Secrets, Files, VaultClean, Vaults
    <2>4. QED
      BY <1>1, <1>2, <1>3, <1>4, <1>5, <2>1, <2>3 DEF Restoring, RestoreSteps
  <1>10. Saving' /\ Written' /\ Following'
    BY <1>5 DEF Saving, Written, Following
  <1>11. QED
    BY <1>6, <1>7, <1>8, <1>9, <1>10 DEF Rest

LEMMA RestoreVaultStep ==
    ASSUME TypeOK, Rest, NEW v \in {NoVault, None} \cup used, NEW how \in Outcomes,
           RestoreVault(v, how)
    PROVE  Rest'
  <1>1. op.step = "replacing" /\ v \in Vault
    BY DEF RestoreVault, At, TypeOK, Vault, Entry
  <1>2. /\ file' = file /\ fileOld' = fileOld /\ keyring' = keyring /\ memory' = memory
        /\ current' = current /\ promised' = promised
    BY DEF RestoreVault, files, ghosts
  <1>3. file.marker = None /\ fileOld = {} /\ memory = Locked /\ promised = None
    BY <1>1 DEF Rest, Restoring, RestoreSteps
  <1>4. op'.step \in {"loading", "rolling back"} /\ op'.before = op.before
    BY GotoTyped DEF RestoreVault, TypeOK, Steps
  <1>5. Secrets' /\ Kept'
    BY <1>2, <1>3, SecretsUnmarked DEF Files, Kept
  <1>6. Journal'
    BY <1>1, <1>2, <1>4 DEF Rest, Journal, Journaled, Files, RestoreSteps
  <1>7. Restoring'
    BY <1>1, <1>2, <1>3, <1>4 DEF Rest, Restoring, Files, KeyringClean, RestoreSteps
  <1>8. QED
    BY <1>4, <1>5, <1>6, <1>7 DEF Rest, Saving, Written, Following

LEMMA RestoreLoadsStep ==
    ASSUME TypeOK, Rest, NEW ok \in BOOLEAN, RestoreLoads(ok)
    PROVE  Rest'
  <1>1. op.step = "loading"
    BY DEF RestoreLoads, At
  <1>2. /\ file' = file /\ fileOld' = fileOld /\ keyring' = keyring /\ promised' = promised
        /\ vault' = vault /\ vaultOld' = vaultOld /\ memory' = memory
    BY DEF RestoreLoads, files, vaults
  <1>3. file.marker = None /\ fileOld = {} /\ promised = None
    BY <1>1 DEF Rest, Restoring, RestoreSteps
  <1>4. Secrets' /\ Kept'
    BY <1>2, <1>3, SecretsUnmarked DEF Files, Kept
  <1>5. CASE ok
    <2>1. op'.step = "idle"
      BY <1>5 DEF RestoreLoads, Done, Idle
    <2>2. Journal'
      BY <1>2, <2>1, JournalIdle DEF Rest, Files
    <2>3. QED
      BY <1>4, <2>1, <2>2, IdleStep DEF Rest
  <1>6. CASE ~ok
    <2>1. op'.step = "rolling back" /\ op'.before = op.before /\ current' = current
      BY <1>6, GotoTyped DEF RestoreLoads, TypeOK, Steps
    <2>2. QED
      BY <1>1, <1>2, <1>4, <2>1 DEF Rest, Saving, Written, Following, Restoring, Journal, Journaled,
                                    Files, KeyringClean, RestoreSteps
  <1>7. QED
    BY <1>5, <1>6

LEMMA RollBackVaultStep ==
    ASSUME TypeOK, Rest, NEW how \in Outcomes, RollBackVault(how)
    PROVE  Rest'
  <1>1. op.step = "rolling back" /\ op.before.vault \in Vault
    BY DEF RollBackVault, At, TypeOK, Operation
  <1>2. /\ file' = file /\ fileOld' = fileOld /\ keyring' = keyring /\ memory' = memory
        /\ current' = current /\ promised' = promised
    BY DEF RollBackVault, files, ghosts
  <1>3. /\ vault' \in {vault, op.before.vault} /\ vaultOld' \subseteq vaultOld \cup {vault}
        /\ how = "ok" => vault' = op.before.vault /\ vaultOld' = {}
    BY <1>1, WriteVaultEffect DEF RollBackVault
  <1>4. /\ memory = Locked /\ promised = None
        /\ op.before.file.marker = "keyring" => KeyringClean
        /\ \A f \in Files \cup {op.before.file} :
               f.marker = "vault" => op.before.vault \in {None, NoVault, current}
    BY <1>1 DEF Rest, Restoring, RestoreSteps
  <1>5. Secrets'
    <2>1. ASSUME NEW f \in Files, f.marker = "vault" PROVE VaultClean'
      BY <1>2, <1>3, <1>4, <2>1 DEF Rest, Secrets, VaultClean, Vaults
    <2>2. QED
      BY <1>2, <2>1 DEF Rest, Secrets, Files, KeyringClean
  <1>6. Kept'
    BY <1>2, <1>4 DEF Kept
  <1>7. CASE how = "ok"
    <2>1. op'.step = "rolled back" /\ op'.before = op.before
      BY <1>7, GotoTyped DEF RollBackVault, TypeOK, Steps
    <2>2. Restoring'
      BY <1>2, <1>3, <1>4, <1>7, <2>1 DEF Restoring, Files, KeyringClean, RestoreSteps
    <2>3. Journal'
      BY <1>1, <1>2, <2>1 DEF Rest, Journal, Journaled, Files, RestoreSteps
    <2>4. QED
      BY <1>5, <1>6, <2>1, <2>2, <2>3 DEF Rest, Saving, Written, Following
  <1>8. CASE how # "ok"
    <2>1. op'.step = "idle"
      <3>1. op' = Idle
        BY <1>8 DEF RollBackVault, Done
      <3>2. QED
        BY <3>1 DEF Idle
    <2>2. Journal'
      BY <1>2, <2>1, JournalIdle DEF Rest, Files
    <2>3. QED
      BY <1>5, <1>6, <2>1, <2>2, IdleStep DEF Rest
  <1>9. QED
    BY <1>7, <1>8

LEMMA RollBackMarkerStep ==
    ASSUME TypeOK, Rest, NEW how \in Outcomes, RollBackMarker(how)
    PROVE  Rest'
  <1>1. op.step = "rolled back" /\ op.before.file \in File /\ op'.step = "idle"
    BY DEF RollBackMarker, At, Done, Idle, TypeOK, Operation
  <1>2. file' \in {file, op.before.file} /\ fileOld' \subseteq fileOld \cup {file}
    BY <1>1, WriteFileEffect DEF RollBackMarker
  <1>3. /\ keyring' = keyring /\ memory' = memory /\ vault' = vault /\ vaultOld' = vaultOld
        /\ current' = current /\ promised' = promised
    BY DEF RollBackMarker, vaults, ghosts
  <1>4. /\ memory = Locked /\ promised = None
        /\ op.before.file.marker = "keyring" => KeyringClean
        /\ op.before.file.marker = "vault" => op.before.vault \in {None, NoVault, current}
        /\ vault = op.before.vault /\ vaultOld = {}
        /\ Journaled(op.before.file)
    BY <1>1 DEF Rest, Restoring, RestoreSteps, Journal
  <1>5. Secrets'
    BY <1>2, <1>3, <1>4 DEF Rest, Secrets, Files, KeyringClean, VaultClean, Vaults
  <1>6. Kept'
    BY <1>3, <1>4 DEF Kept
  <1>7. Journal'
    BY <1>1, <1>2, <1>3, <1>4 DEF Rest, Journal, Journaled, Files, RestoreSteps
  <1>8. QED
    BY <1>1, <1>5, <1>6, <1>7, IdleStep DEF Rest

(***************************************************************************)
(* Beside the operations.                                                  *)
(***************************************************************************)
LEMMA SetPreferredStep ==
    ASSUME TypeOK, Rest, NEW b \in Backend, NEW how \in Outcomes, SetPreferred(b, how)
    PROVE  Rest'
  <1> DEFINE new == [file EXCEPT !.backend = b]
  <1>1. new \in File /\ new.marker = file.marker /\ new.pending = file.pending
    BY DEF TypeOK, File
  <1>2. WriteFile(new, how) /\ op.step = "idle" /\ op' = op
    BY DEF SetPreferred, At
  <1>3. /\ keyring' = keyring /\ Vaults' = Vaults
        /\ current' = current /\ promised' = promised
    BY DEF SetPreferred, vaults, Vaults, ghosts
  <1> HIDE DEF new
  <1>4. file' \in {file, new} /\ fileOld' \subseteq fileOld \cup {file}
    BY <1>1, <1>2, WriteFileEffect
  <1>5. Secrets'
    BY <1>1, <1>3, <1>4, SecretsKept DEF Rest, Files
  <1>6. Kept'
    BY <1>1, <1>3, <1>4 DEF Rest, Kept
  <1>7. Journal'
    BY <1>1, <1>2, <1>3, <1>4 DEF Rest, Journal, Journaled, Files, RestoreSteps
  <1>8. QED
    BY <1>2, <1>5, <1>6, <1>7, IdleStep DEF Rest

\* The vault is locked, opened or written with what it already holds.
LEMMA VaultStep ==
    ASSUME Rest, VaultFree, Vaults' \subseteq Vaults \cup {Locked},
           UNCHANGED <<files, keyring, op, ghosts>>
    PROVE  Rest'
  <1>1. /\ file' = file /\ Files' = Files /\ fileOld' = fileOld /\ keyring' = keyring /\ op' = op
        /\ current' = current /\ promised' = promised
    BY DEF files, ghosts, Files
  <1>2. op.step \notin RestoreSteps
    BY DEF VaultFree, RestoreSteps
  <1>3. Secrets'
    BY <1>1, SecretsKept DEF Rest
  <1>4. Saving' /\ Written' /\ Following' /\ Restoring'
    BY <1>1, <1>2 DEF Rest, Saving, Written, Following, Restoring
  <1>5. Journal' /\ Kept'
    BY <1>1, <1>2 DEF Rest, Journal, Journaled, Kept
  <1>6. QED
    BY <1>3, <1>4, <1>5 DEF Rest

\* There was no vault, so no password is promised in it.
LEMMA CreateVaultStep ==
    ASSUME TypeOK, Rest, NEW how \in Outcomes, CreateVault(how)
    PROVE  Rest'
  <1>1. /\ file' = file /\ Files' = Files /\ fileOld' = fileOld /\ keyring' = keyring /\ op' = op
        /\ current' = current /\ promised' = promised
    BY DEF CreateVault, files, ghosts, Files
  <1>2. op.step \notin RestoreSteps /\ vault = NoVault
    BY DEF CreateVault, VaultFree, RestoreSteps
  <1>3. Vaults' \subseteq Vaults \cup {None}
    <2>1. vault' \in {vault, None} /\ vaultOld' \subseteq vaultOld \cup {vault}
      BY VaultHolds, WriteVaultEffect DEF CreateVault
    <2>2. QED
      BY <2>1 DEF CreateVault, Vaults
  <1>4. Secrets'
    BY <1>1, <1>3, SecretsKept DEF Rest
  <1>5. Written'
    BY <1>1, <1>2, VaultHolds DEF Rest, Written, Vaults, TypeOK
  <1>6. Saving' /\ Following' /\ Restoring'
    BY <1>1, <1>2 DEF Rest, Saving, Following, Restoring
  <1>7. Journal'
    BY <1>1, <1>2 DEF Rest, Journal, Journaled
  <1>8. Kept'
    BY <1>1, <1>2 DEF Rest, Kept, Vaults, TypeOK, Entry
  <1>9. QED
    BY <1>4, <1>5, <1>6, <1>7, <1>8 DEF Rest

LEMMA CrashStep == ASSUME TypeOK, Rest, Crash PROVE Rest'
  <1>1. /\ file' = file /\ Files' = Files /\ keyring' = keyring /\ op'.step = "idle"
        /\ current' = current /\ promised' = promised
        /\ Vaults' \subseteq Vaults \cup {Locked}
    BY DEF Crash, Done, Idle, files, ghosts, Files, Vaults
  <1>2. Secrets'
    BY <1>1, SecretsKept DEF Rest
  <1>3. Journal'
    BY <1>1, JournalIdle DEF Rest
  <1>4. Kept'
    BY <1>1 DEF Rest, Kept
  <1>5. QED
    BY <1>1, <1>2, <1>3, <1>4, IdleStep DEF Rest

LEMMA PowerLossStep == ASSUME TypeOK, Rest, PowerLoss PROVE Rest'
  <1>1. /\ file' \in Files /\ fileOld' = {} /\ keyring' = keyring /\ op'.step = "idle"
        /\ current' = current /\ Vaults' \subseteq Vaults \cup {Locked}
    BY DEF PowerLoss, Done, Idle, Files, Vaults
  <1>2. Secrets'
    BY <1>1, SecretsKept DEF Rest, Files
  <1>3. Journal'
    BY <1>1, JournalIdle DEF Rest, Files
  <1>4. Kept'
    <2>1. promised' # None => promised' = promised /\ file' = file
      BY <1>1 DEF PowerLoss, Files
    <2>2. QED
      BY <1>1, <2>1 DEF Rest, Kept
  <1>5. QED
    BY <1>1, <1>2, <1>3, <1>4, IdleStep DEF Rest

(***************************************************************************)
(* The invariant.                                                          *)
(***************************************************************************)
LEMMA RestInit == Init => Rest
  BY DEF Init, Rest, Secrets, Saving, Written, Following, Restoring, Journal, Journaled, Kept,
         Files, Vaults, Idle, Empty, RestoreSteps, Backend

LEMMA RestStep == TypeOK /\ Rest /\ [Next]_vars => Rest'
  <1> SUFFICES ASSUME TypeOK, Rest, [Next]_vars PROVE Rest'
    OBVIOUS
  <1>1. CASE SaveNext
    BY <1>1, StoreRevokeStep, StoreSecretStep, ActivateStep, UndoStep, TidyStep, RecordStep
    DEF SaveNext
  <1>2. CASE CleanNext
    BY <1>2, DeleteRevokeStep, RetryStep, CleanOneStep, CleanedStep DEF CleanNext
  <1>3. CASE RestoreNext
    BY <1>3, RestoreRevokeStep, RestoreVaultStep, RestoreLoadsStep, RollBackVaultStep,
       RollBackMarkerStep DEF RestoreNext
  <1>4. CASE Unlock \/ Lock
    BY <1>4, VaultStep DEF Unlock, Lock, Vaults, files, ghosts
  <1>5. ASSUME NEW how \in Outcomes, VaultRewritten(how) \/ ChangePassword(how)
        PROVE  Rest'
    <2>1. CASE VaultRewritten(how)
      <3>1. memory \in Vault
        BY <2>1, VaultHolds DEF VaultRewritten, TypeOK
      <3>2. vault' \in {vault, memory} /\ vaultOld' \subseteq vaultOld \cup {vault}
        BY <2>1, <3>1, WriteVaultEffect DEF VaultRewritten
      <3>3. QED
        BY <2>1, <3>2, VaultStep DEF VaultRewritten, Vaults
    <2>2. CASE ChangePassword(how)
      <3>1. vault' = vault /\ vaultOld' \subseteq vaultOld \cup {vault}
        BY <2>2, WriteVaultEffect DEF ChangePassword, TypeOK
      <3>2. QED
        BY <2>2, <3>1, VaultStep DEF ChangePassword, Vaults
    <2>3. QED
      BY <1>5, <2>1, <2>2
  <1>6. ASSUME NEW how \in Outcomes, CreateVault(how) PROVE Rest'
    BY <1>6, CreateVaultStep
  <1>7. CASE Crash \/ PowerLoss
    BY <1>7, CrashStep, PowerLossStep
  <1>8. ASSUME NEW b \in Backend, NEW how \in Outcomes, SetPreferred(b, how) PROVE Rest'
    BY <1>8, SetPreferredStep
  <1>9. CASE UNCHANGED vars
    BY ZenonT(60), <1>9 DEF vars, files, vaults, ghosts, Rest, Secrets, KeyringClean, VaultClean, Saving,
                Written, Following, Restoring, Journal, Journaled, Kept, Files, Vaults
  <1>10. QED
    BY <1>1, <1>2, <1>3, <1>4, <1>5, <1>6, <1>7, <1>8, <1>9 DEF Next, VaultNext

LEMMA IInvInvariant == Spec => [](TypeOK /\ Rest)
  BY TypeInit, TypeStep, RestInit, RestStep, PTL DEF Spec

LEMMA CurrentState == TypeOK /\ Rest => OnlyCurrentLoads
  <1> SUFFICES ASSUME TypeOK, Rest, file.marker # None PROVE Copy(file.marker) \in {None, current}
    BY DEF OnlyCurrentLoads, Authority
  <1>1. file.marker \in Backend /\ vault # Locked
    BY VaultHolds DEF TypeOK, File
  <1>2. CASE file.marker = "keyring"
    BY <1>2 DEF Rest, Secrets, Files, KeyringClean, Copy
  <1>3. CASE file.marker = "vault"
    BY <1>1, <1>3 DEF Rest, Secrets, Files, VaultClean, Vaults, Copy
  <1>4. QED
    BY <1>1, <1>2, <1>3 DEF Backend

LEMMA SavedState == TypeOK /\ Rest => SavedStays
  <1> SUFFICES ASSUME TypeOK, Rest, promised # None PROVE Authority = promised
    BY DEF SavedStays
  <1>1. file.marker \in {"keyring", "vault"} /\ vault # Locked
    BY VaultHolds DEF Rest, Kept, TypeOK, File, Backend
  <1>2. promised # NoVault
    BY DEF TypeOK, Entry
  <1>3. QED
    BY <1>1, <1>2 DEF Rest, Kept, Vaults, Authority, Copy

(***************************************************************************)
(* Theorems.                                                               *)
(***************************************************************************)
\* Every variable, and the locals of the operation that holds the lock, hold
\* what the code can put there.
THEOREM TypeCorrect == Spec => []TypeOK
  BY IInvInvariant, PTL

\* Whatever fails, crashes or loses power between the writes of saving,
\* deleting and restoring, the stores give a host the current password or none.
THEOREM CurrentCorrect == Spec => []OnlyCurrentLoads
  BY CurrentState, IInvInvariant, PTL

\* A password reported as saved can be loaded until something tries to revoke
\* it: no clean-up, retry, rollback or write of the vault takes it away.
THEOREM SavedCorrect == Spec => []SavedStays
  BY SavedState, IInvInvariant, PTL

\* A stray password in the keyring is never forgotten: the journal names the
\* keyring until the deletion was seen to succeed.
THEOREM JournalCorrect == Spec => []KeyringJournaled
  <1>1. TypeOK /\ Rest => KeyringJournaled
    BY DEF Rest, Journal, Journaled, Files, KeyringJournaled, Stray, Copy
  <1>2. QED
    BY <1>1, IInvInvariant, PTL

(***************************************************************************)
(* The refinement.                                                         *)
(***************************************************************************)
LEMMA UnmarkedGivesNone == file.marker = None => Authority = None
  BY DEF Authority

LEMMA NothingUnderway ==
    op.step \notin {"storing", "activating"} => Underway = None
  BY DEF Underway

\* While a password is being saved nothing is given.
LEMMA UnderwayState ==
    ASSUME TypeOK, Rest, op.step \in {"storing", "activating"}
    PROVE  /\ Underway = op.password /\ Underway # None
           /\ file.marker = None /\ fileOld = {} /\ Authority = None
  BY UnmarkedGivesNone DEF Underway, Rest, Saving, Written

\* Outside a saving, a step that leaves the ghosts alone only hides or shows.
LEMMA WaverStep ==
    ASSUME OnlyCurrentLoads', current' = current, used' = used,
           op.step \notin {"storing", "activating"}, op'.step \notin {"storing", "activating"}
    PROVE  HA!Next
  <1>1. Underway = None /\ Underway' = None
    BY DEF Underway
  <1>2. Authority' \in {None, current'}
    BY DEF OnlyCurrentLoads
  <1>3. QED
    BY <1>1, <1>2 DEF HA!Next, HA!Waver

\* A saving that ends without a marker.
LEMMA AbandonStep ==
    ASSUME TypeOK, Rest, current' = current, used' = used, file' = file,
           op.step \in {"storing", "activating"}, op'.step \notin {"storing", "activating"}
    PROVE  HA!Next
  <1>1. Underway # None /\ Underway' = None /\ Authority = None /\ Authority' = None
    BY UnderwayState DEF Underway, Authority
  <1>2. QED
    BY <1>1 DEF HA!Next, HA!Abandon

\* A step beside the operations.
LEMMA BesideStep ==
    ASSUME TypeOK, Rest, OnlyCurrentLoads', UNCHANGED <<files, op, ghosts>>
    PROVE  [HA!Next]_(HA!vars)
  <1>1. current' = current /\ used' = used /\ op' = op /\ file' = file
    BY DEF ghosts, files
  <1>2. CASE op.step \in {"storing", "activating"}
    <2>1. Underway' = Underway /\ Authority = None /\ Authority' = None
      BY <1>1, <1>2, UnderwayState DEF Underway, Authority
    <2>2. QED
      BY <1>1, <2>1 DEF HA!vars
  <1>3. CASE op.step \notin {"storing", "activating"}
    BY <1>1, <1>3, WaverStep
  <1>4. QED
    BY <1>2, <1>3

LEMMA RevokeStep ==
    ASSUME op.step \notin {"storing", "activating"}, op'.step \notin {"storing", "activating"},
           file'.marker = None, current' = None, used' = used
    PROVE  HA!Next
  <1>1. Underway = None /\ Underway' = None /\ Authority' = None
    BY DEF Underway, Authority
  <1>2. QED
    BY <1>1 DEF HA!Next, HA!Revoke

LEMMA SaveMaps ==
    ASSUME TypeOK, Rest, OnlyCurrentLoads', SavedStays', SaveNext
    PROVE  [HA!Next]_(HA!vars)
  <1>1. ASSUME NEW s \in Password, NEW how \in Outcomes, StoreRevoke(s, how)
        PROVE  HA!Next
    <2>1. /\ op.step = "idle" /\ s \notin used /\ used' = used \cup {s}
          /\ file' \in {file, Revoked(file)} /\ keyring' = keyring /\ vault' = vault
          /\ how = "ok" => file' = Revoked(file)
      BY <1>1, FilesTyped, WriteFileEffect DEF StoreRevoke, At, TypeOK, vaults
    <2>2. Revoked(file).marker = None
      BY DEF Revoked, TypeOK, File
    <2>3. Underway = None
      BY <2>1, NothingUnderway
    <2>4. CASE how = "ok"
      <3>1. op' = [Idle EXCEPT !.step = "storing", !.store = file.backend,
                               !.password = s, !.draft = file'] /\ current' = None
        BY <1>1, <2>4 DEF StoreRevoke
      <3>2. Underway' = s
        BY <3>1 DEF Underway, Idle
      <3>3. Authority' = None
        BY <2>1, <2>2, <2>4 DEF Authority
      <3>4. QED
        BY <2>1, <2>3, <3>1, <3>2, <3>3 DEF HA!Next, HA!Begin
    <2>5. CASE how # "ok"
      <3>1. op' = op /\ current' = current
        BY <1>1, <2>5 DEF StoreRevoke
      <3>2. Underway' = Underway
        BY <3>1 DEF Underway
      <3>3. Authority' \in {Authority, None}
        BY <2>1, <2>2 DEF Authority, Copy
      <3>4. QED
        BY <2>1, <2>3, <3>1, <3>2, <3>3 DEF HA!Next, HA!Try
    <2>6. QED
      BY <2>4, <2>5
  <1>2. ASSUME NEW ok \in BOOLEAN, StoreSecret(ok)
        PROVE  [HA!Next]_(HA!vars)
    <2>1. op.step = "storing" /\ file' = file /\ current' = current /\ used' = used
      BY <1>2 DEF StoreSecret, At, files, ghosts
    <2>2. CASE ok
      <3>1. op'.step = "activating" /\ op'.password = op.password
        BY <1>2, <2>2, GotoTyped DEF StoreSecret, TypeOK, Steps
      <3>2. Underway' = Underway /\ Authority = None /\ Authority' = None
        BY <2>1, <3>1, UnderwayState DEF Underway, Authority
      <3>3. QED
        BY <2>1, <3>2 DEF HA!vars
    <2>3. CASE ~ok
      <3>1. op'.step = "idle"
        BY <1>2, <2>3 DEF StoreSecret, Done, Idle
      <3>2. QED
        BY <2>1, <3>1, AbandonStep
    <2>4. QED
      BY <2>2, <2>3
  <1>3. ASSUME NEW how \in Outcomes, Activate(how)
        PROVE  HA!Next
    <2>1. op.step = "activating" /\ used' = used
      BY <1>3 DEF Activate, At
    <2>2. CASE how = "before"
      <3>1. op'.step = "undoing" /\ current' = current /\ file' = file
        BY <1>3, <2>2, GotoTyped DEF Activate, TypeOK, Steps, WriteFile
      <3>2. QED
        BY <2>1, <3>1, AbandonStep
    <2>3. CASE how # "before"
      <3>1. /\ op' = [op EXCEPT !.step = "tidying", !.draft = file']
            /\ current' = op.password /\ promised' = op.password
        BY <1>3, <2>3 DEF Activate
      <3>2. Underway' = None
        BY <3>1 DEF Underway, TypeOK, Operation
      <3>3. Underway = op.password /\ Underway # None /\ Authority = None
        BY <2>1, UnderwayState
      <3>4. Authority' = op.password
        BY <3>1, <3>3 DEF SavedStays
      <3>5. QED
        BY <2>1, <3>1, <3>2, <3>3, <3>4 DEF HA!Next, HA!Commit
    <2>4. QED
      BY <2>2, <2>3
  <1>4. ASSUME NEW ok \in BOOLEAN, Undo(ok) \/ Tidy(ok)
        PROVE  HA!Next
    <2>1. op.step \in {"undoing", "tidying"} /\ current' = current /\ used' = used
      BY <1>4 DEF Undo, Tidy, At, ghosts
    <2>2. op'.step \in {"idle", "recording"}
      <3>1. CASE op' = Idle
        BY <3>1 DEF Idle
      <3>2. CASE op' = [op EXCEPT !.step = "recording",
                                  !.draft.pending = @ \ {Other(op.store)}]
        BY <3>2 DEF TypeOK, Operation
      <3>3. QED
        BY <1>4, <3>1, <3>2 DEF Undo, Tidy, Done
    <2>3. QED
      BY <2>1, <2>2, WaverStep
  <1>5. ASSUME NEW how \in Outcomes, Record(how)
        PROVE  HA!Next
    <2>1. op.step = "recording" /\ op'.step = "idle" /\ current' = current /\ used' = used
      BY <1>5 DEF Record, At, Done, Idle, ghosts
    <2>2. QED
      BY <2>1, WaverStep
  <1>6. QED
    BY <1>1, <1>2, <1>3, <1>4, <1>5 DEF SaveNext

LEMMA CleanMaps ==
    ASSUME TypeOK, Rest, OnlyCurrentLoads', SavedStays', CleanNext
    PROVE  HA!Next
  <1>1. CASE Retry
    <2>1. op.step = "idle" /\ op'.step = "cleaning" /\ current' = current /\ used' = used
      BY <1>1 DEF Retry, CleanUp, At, Idle, ghosts
    <2>2. QED
      BY <2>1, WaverStep
  <1>2. CASE Cleaned
    <2>1. op.step = "cleaning" /\ current' = current /\ used' = used
      BY <1>2 DEF Cleaned, At, ghosts
    <2>2. op'.step \in {"idle", "recording"}
      BY <1>2 DEF Cleaned, Goto, Done, Idle, TypeOK, Operation
    <2>3. QED
      BY <2>1, <2>2, WaverStep
  <1>3. ASSUME NEW how \in Outcomes, DeleteRevoke(how)
        PROVE  HA!Next
    <2>1. /\ op.step = "idle" /\ used' = used
          /\ how = "ok" => file' = Revoked(file)
      BY <1>3, FilesTyped, WriteFileEffect DEF DeleteRevoke, At, TypeOK
    <2>2. CASE how = "ok"
      <3>1. op'.step = "cleaning" /\ current' = None
        BY <1>3, <2>2 DEF DeleteRevoke, CleanUp, Idle
      <3>2. file'.marker = None
        BY <2>1, <2>2 DEF Revoked, TypeOK, File
      <3>3. QED
        BY <2>1, <3>1, <3>2, RevokeStep
    <2>3. CASE how # "ok"
      <3>1. op' = op /\ current' = current
        BY <1>3, <2>3 DEF DeleteRevoke
      <3>2. QED
        BY <2>1, <3>1, WaverStep
    <2>4. QED
      BY <2>2, <2>3
  <1>4. ASSUME NEW b \in Backend, NEW ok \in BOOLEAN, CleanOne(b, ok)
        PROVE  HA!Next
    <2>1. op.step = "cleaning" /\ current' = current /\ used' = used
      BY <1>4 DEF CleanOne, At, ghosts
    <2>2. op'.step = "cleaning"
      BY <1>4, <2>1 DEF CleanOne, TypeOK, Operation
    <2>3. QED
      BY <2>1, <2>2, WaverStep
  <1>5. QED
    BY <1>1, <1>2, <1>3, <1>4 DEF CleanNext

LEMMA RestoreMaps ==
    ASSUME TypeOK, Rest, OnlyCurrentLoads', SavedStays', RestoreNext
    PROVE  HA!Next
  <1>1. ASSUME NEW b \in Backend, NEW how \in Outcomes, RestoreRevoke(b, how)
        PROVE  HA!Next
    <2>1. /\ op.step = "idle" /\ op'.step \in {"replacing", "rolling back"}
          /\ current' = current /\ used' = used
      BY <1>1 DEF RestoreRevoke, At, Idle
    <2>2. QED
      BY <2>1, WaverStep
  <1>2. ASSUME NEW v, NEW how \in Outcomes, RestoreVault(v, how)
        PROVE  HA!Next
    <2>1. op.step = "replacing" /\ current' = current /\ used' = used
      BY <1>2 DEF RestoreVault, At, ghosts
    <2>2. op'.step \in {"loading", "rolling back"}
      BY <1>2, GotoTyped DEF RestoreVault, TypeOK, Steps
    <2>3. QED
      BY <2>1, <2>2, WaverStep
  <1>3. ASSUME NEW ok \in BOOLEAN, RestoreLoads(ok)
        PROVE  HA!Next
    <2>1. op.step = "loading" /\ used' = used /\ file' = file
      BY <1>3 DEF RestoreLoads, At, files
    <2>2. file.marker = None
      BY <2>1 DEF Rest, Restoring, RestoreSteps
    <2>3. CASE ok
      <3>1. op'.step = "idle" /\ current' = None
        BY <1>3, <2>3 DEF RestoreLoads, Done, Idle
      <3>2. QED
        BY <2>1, <2>2, <3>1, RevokeStep
    <2>4. CASE ~ok
      <3>1. op'.step = "rolling back" /\ current' = current
        BY <1>3, <2>4, GotoTyped DEF RestoreLoads, TypeOK, Steps
      <3>2. QED
        BY <2>1, <3>1, WaverStep
    <2>5. QED
      BY <2>3, <2>4
  <1>4. ASSUME NEW how \in Outcomes, RollBackVault(how)
        PROVE  HA!Next
    <2>1. op.step = "rolling back" /\ current' = current /\ used' = used
      BY <1>4 DEF RollBackVault, At, ghosts
    <2>2. CASE how = "ok"
      <3>1. op'.step = "rolled back"
        BY <1>4, <2>2, GotoTyped DEF RollBackVault, TypeOK, Steps
      <3>2. QED
        BY <2>1, <3>1, WaverStep
    <2>3. CASE how # "ok"
      <3> op' = Idle
        BY <1>4, <2>3 DEF RollBackVault, Done
      <3>1. op'.step = "idle"
        BY DEF Idle
      <3>2. QED
        BY <2>1, <3>1, WaverStep
    <2>4. QED
      BY <2>2, <2>3
  <1>5. ASSUME NEW how \in Outcomes, RollBackMarker(how)
        PROVE  HA!Next
    <2>1. op.step = "rolled back" /\ op'.step = "idle" /\ current' = current /\ used' = used
      BY <1>5 DEF RollBackMarker, At, Done, Idle, ghosts
    <2>2. QED
      BY <2>1, WaverStep
  <1>6. QED
    BY <1>1, <1>2, <1>3, <1>4, <1>5 DEF RestoreNext

LEMMA StoppedMaps ==
    ASSUME TypeOK, Rest, OnlyCurrentLoads', SavedStays', Crash \/ PowerLoss
    PROVE  HA!Next
  <1>1. op'.step = "idle" /\ current' = current /\ used' = used /\ file' \in Files
    BY DEF Crash, PowerLoss, Done, Idle, ghosts, files, Files
  <1>2. CASE op.step \in {"storing", "activating"}
    BY <1>1, <1>2, UnderwayState, AbandonStep DEF Files
  <1>3. CASE op.step \notin {"storing", "activating"}
    BY <1>1, <1>3, WaverStep
  <1>4. QED
    BY <1>2, <1>3

\* Every step of the stores is a step of HostAuthority, or invisible to it.
LEMMA StepMaps ==
    /\ TypeOK /\ Rest
    /\ OnlyCurrentLoads' /\ SavedStays' /\ [Next]_vars
    => [HA!Next]_(HA!vars)
  <1> SUFFICES ASSUME TypeOK, Rest, OnlyCurrentLoads', SavedStays', [Next]_vars
               PROVE  [HA!Next]_(HA!vars)
    OBVIOUS
  <1>1. CASE SaveNext
    BY <1>1, SaveMaps
  <1>2. CASE CleanNext
    BY <1>2, CleanMaps
  <1>3. CASE RestoreNext
    BY <1>3, RestoreMaps
  <1>4. CASE VaultNext
    BY <1>4, BesideStep DEF VaultNext, Unlock, Lock, CreateVault, VaultRewritten, ChangePassword,
                            files, ghosts
  <1>5. CASE Crash \/ PowerLoss
    BY <1>5, StoppedMaps
  <1>6. ASSUME NEW b \in Backend, NEW how \in Outcomes, SetPreferred(b, how)
        PROVE  HA!Next
    <2>1. op.step = "idle" /\ op' = op /\ current' = current /\ used' = used
      BY <1>6 DEF SetPreferred, At, ghosts
    <2>2. QED
      BY <2>1, WaverStep
  <1>7. CASE UNCHANGED vars
    BY <1>7 DEF vars, files, vaults, ghosts, HA!vars, Authority, Copy, Underway
  <1>8. QED
    BY <1>1, <1>2, <1>3, <1>4, <1>5, <1>6, <1>7 DEF Next

\* Saving, deleting and restoring implement HostAuthority: a host is given one
\* password at a time, none between two, and none that was reported revoked.
THEOREM AuthorityCorrect == Spec => KeepsAuthority
  <1>1. Init => HA!Init
    BY DEF Init, HA!Init, Authority, Underway, Idle, Empty
  <1>2. QED
    BY <1>1, StepMaps, IInvInvariant, CurrentCorrect, SavedCorrect, PTL
       DEF Spec, KeepsAuthority, HA!Spec

\* A password whose saving was tried, that is not being saved and is not the current one:
\* its saving failed, or an operation reported it revoked, or a later one took its place.
Dead(s) == s \in used /\ s # current /\ s # Underway

\* No step brings such a password back: it stays dead, and no host is given it.
DeadStay == \A s \in Password : Dead(s) => Dead(s)' /\ Authority' # s

\* Over any number of later savings, restores of old backups, retries, crashes and power
\* losses, a password that was revoked, or replaced, is never loaded again.
THEOREM RevokedStays == Spec => [][DeadStay]_vars
  <1>1. ASSUME TypeOK, OnlyCurrentLoads', [HA!Next]_(HA!vars) PROVE DeadStay
    <2> SUFFICES ASSUME NEW s \in Password, Dead(s)
                 PROVE  Dead(s)' /\ Authority' # s
      BY DEF DeadStay
    <2>1. s \in used /\ s # current /\ s # Underway /\ s # None
      BY DEF Dead
    <2>2. s \in used' /\ s # current' /\ s # Underway'
      BY <1>1, <2>1 DEF HA!Next, HA!vars, HA!Try, HA!Begin, HA!Commit, HA!Abandon, HA!Revoke,
                        HA!Waver
    <2>3. Authority' # s
      BY <1>1, <2>1, <2>2 DEF OnlyCurrentLoads
    <2>4. QED
      BY <2>2, <2>3 DEF Dead
  <1>2. TypeOK /\ Rest /\ OnlyCurrentLoads' /\ SavedStays' /\ [Next]_vars => DeadStay
    BY <1>1, StepMaps
  <1>3. QED
    BY <1>2, IInvInvariant, CurrentCorrect, SavedCorrect, PTL DEF Spec

(***************************************************************************)
(* The agents: their sessions and the attempts they charge.                *)
(***************************************************************************)
Counting == granted \ (proved \cup freed)
Contents == {attempts} \cup replaced

Tried  == \A t \in Tickets : stage[t] = "pairing" => t \in granted
Budget == \A v \in Contents : Cardinality(v) <= MaxAttempts /\ Counting \subseteq v

IInv == AgentsTypeOK /\ Tried /\ Budget

(***************************************************************************)
(* The budget.                                                             *)
(***************************************************************************)

LEMMA SmallSets ==
    ASSUME NEW S \in SUBSET Tickets
    PROVE  IsFiniteSet(S) /\ Cardinality(S) \in Nat
BY PairingConstants, FS_Subset, FS_CardinalityType

\* Charging an attempt for which there is room keeps the budget.
LEMMA ChargedFits ==
    ASSUME LimitTypeOK, Budget, NEW t \in Tickets, MayCharge(t)
    PROVE  /\ Charged(t) \subseteq Tickets
           /\ Cardinality(Charged(t)) <= MaxAttempts
           /\ (granted \cup {t}) \ (proved \cup (freed \cup Past(date[t]))) \subseteq Charged(t)
<1>1. Retained(date[t]) \in SUBSET Tickets
  BY DEF LimitTypeOK, Retained
<1>2. IsFiniteSet(Retained(date[t])) /\ Cardinality(Retained(date[t])) \in Nat
  BY <1>1, SmallSets
<1>3. Cardinality(Charged(t)) <= Cardinality(Retained(date[t])) + 1
  <2>1. Cardinality(Charged(t)) = IF t \in Retained(date[t]) THEN Cardinality(Retained(date[t]))
                                  ELSE Cardinality(Retained(date[t])) + 1
    BY <1>2, FS_AddElement DEF Charged
  <2> QED  BY <2>1, <1>2
<1>4. Cardinality(Charged(t)) <= MaxAttempts
  <2>1. Cardinality(Charged(t)) \in Nat
    BY <1>1, SmallSets DEF Charged
  <2> QED  BY <1>2, <1>3, <2>1, PairingConstants DEF MayCharge
<1>5. ASSUME NEW g \in granted, g \notin proved, g \notin freed, g \notin Past(date[t])
      PROVE  g \in Charged(t)
  <2>1. g \in attempts
    BY <1>5 DEF Budget, Counting, Contents
  <2>2. ~(date[t] - date[g] >= Window)
    BY <1>5 DEF Past
  <2>3. date[t] \in Int /\ date[g] \in Int /\ Window \in Int
    BY <2>1, PairingConstants DEF LimitTypeOK
  <2>4. date[t] - date[g] < Window
    BY <2>2, <2>3
  <2> QED  BY <2>1, <2>4 DEF Charged, Retained
<1> QED  BY <1>1, <1>4, <1>5 DEF Charged

\* A content written to disk replaces all others; one that is only visible joins them.
LEMMA SaveKeeps ==
    ASSUME LimitTypeOK, Budget, NEW new \in SUBSET Tickets,
           Save(new) \/ SaveUnsynced(new),
           Cardinality(new) <= MaxAttempts, Counting' \subseteq new,
           SaveUnsynced(new) => Counting' \subseteq Counting
    PROVE  /\ Budget'
           /\ attempts' \subseteq Tickets /\ replaced' \subseteq SUBSET Tickets
<1>1. CASE Save(new)
  BY <1>1 DEF Save, Budget, Contents, LimitTypeOK
<1>2. CASE SaveUnsynced(new)
  <2>1. attempts' = new /\ replaced' = replaced \cup {attempts}
    BY <1>2 DEF SaveUnsynced
  <2>2. ASSUME NEW v \in Contents'
        PROVE  Cardinality(v) <= MaxAttempts /\ Counting' \subseteq v
    <3>1. v = new \/ v \in Contents
      BY <2>1 DEF Contents
    <3> QED  BY <3>1, <1>2 DEF Budget
  <2> QED  BY <2>1, <2>2 DEF Budget, LimitTypeOK
<1> QED  BY <1>1, <1>2

\* What an operation of the budget leaves.
LimitKept == LimitTypeOK' /\ Budget'

LEMMA ReadClockKeeps ==
    ASSUME LimitTypeOK, Budget, NEW t \in Tickets, ReadClock(t)
    PROVE  LimitKept
BY DEF ReadClock, LimitKept, LimitTypeOK, Budget, Counting, Contents

LEMMA ReserveKeeps ==
    ASSUME LimitTypeOK, Budget, NEW t \in Tickets, Reserve(t)
    PROVE  LimitKept
<1>1. MayCharge(t) /\ Save(Charged(t)) /\ granted' = granted \cup {t}
      /\ freed' = freed \cup Past(date[t]) /\ UNCHANGED <<clock, date, proved>>
  BY DEF Reserve
<1>2. Charged(t) \in SUBSET Tickets /\ Cardinality(Charged(t)) <= MaxAttempts
      /\ Counting' \subseteq Charged(t)
  BY <1>1, ChargedFits DEF Counting
<1>3. Budget' /\ attempts' \subseteq Tickets /\ replaced' \subseteq SUBSET Tickets
  BY <1>1, <1>2 DEF Save, Budget, Contents
<1>4. Past(date[t]) \subseteq Tickets
  BY DEF Past, LimitTypeOK
<1> QED  BY <1>1, <1>3, <1>4 DEF LimitKept, LimitTypeOK

LEMMA ReserveFailsKeeps ==
    ASSUME LimitTypeOK, Budget, NEW t \in Tickets, ReserveFails(t)
    PROVE  LimitKept
<1>1. UNCHANGED <<clock, date, granted, proved>>
  BY DEF ReserveFails
<1>2. CASE UNCHANGED <<attempts, replaced, freed>>
  BY <1>1, <1>2 DEF LimitKept, LimitTypeOK, Budget, Counting, Contents
<1>3. CASE /\ MayCharge(t)
           /\ SaveUnsynced(Charged(t))
           /\ freed' = freed \cup Past(date[t])
  <2>1. Charged(t) \in SUBSET Tickets /\ Cardinality(Charged(t)) <= MaxAttempts
        /\ Counting' \subseteq Charged(t)
    BY <1>1, <1>3, ChargedFits DEF Counting
  <2>2. Counting' \subseteq Counting
    BY <1>1, <1>3 DEF Counting
  <2>3. Budget' /\ attempts' \subseteq Tickets /\ replaced' \subseteq SUBSET Tickets
    BY <1>3, <2>1, <2>2, SaveKeeps
  <2>4. Past(date[t]) \subseteq Tickets
    BY DEF Past, LimitTypeOK
  <2> QED  BY <1>1, <1>3, <2>3, <2>4 DEF LimitKept, LimitTypeOK
<1> QED  BY <1>2, <1>3 DEF ReserveFails

\* Taking one's own charge back leaves those of the attempts that still count.
LEMMA UnchargedFits ==
    ASSUME LimitTypeOK, Budget, NEW t \in Tickets,
           proved' = proved \cup {t}, UNCHANGED <<granted, freed>>
    PROVE  /\ Uncharged(t) \in SUBSET Tickets
           /\ Cardinality(Uncharged(t)) <= MaxAttempts
           /\ Counting' \subseteq Uncharged(t)
           /\ Counting' \subseteq Counting
<1>1. attempts \in SUBSET Tickets /\ Uncharged(t) \in SUBSET Tickets
  BY DEF Uncharged, LimitTypeOK
<1>2. Cardinality(Uncharged(t)) <= Cardinality(attempts)
  <2>1. IsFiniteSet(attempts)
    BY <1>1, SmallSets
  <2> QED  BY <2>1, FS_Subset DEF Uncharged
<1>3. Cardinality(attempts) <= MaxAttempts /\ Counting \subseteq attempts
  BY DEF Budget, Contents
<1>4. Cardinality(Uncharged(t)) <= MaxAttempts
  <2>1. Cardinality(attempts) \in Nat /\ Cardinality(Uncharged(t)) \in Nat
    BY <1>1, SmallSets
  <2> QED  BY <1>2, <1>3, <2>1, PairingConstants
<1> QED  BY <1>1, <1>3, <1>4 DEF Counting, Uncharged

LEMMA AuthenticatedKeeps ==
    ASSUME LimitTypeOK, Budget, NEW t \in granted, Authenticated(t) \/ AuthenticatedFails(t)
    PROVE  LimitKept
<1>1. t \in Tickets
  BY DEF LimitTypeOK
<1>2. proved' = proved \cup {t} /\ UNCHANGED <<clock, date, granted, freed>>
  BY DEF Authenticated, AuthenticatedFails
<1>3. /\ Uncharged(t) \in SUBSET Tickets /\ Cardinality(Uncharged(t)) <= MaxAttempts
      /\ Counting' \subseteq Uncharged(t) /\ Counting' \subseteq Counting
  BY <1>1, <1>2, UnchargedFits
<1>4. CASE UNCHANGED <<attempts, replaced>>
  <2>1. Budget'
    BY <1>3, <1>4 DEF Budget, Contents
  <2> QED  BY <1>2, <1>4, <2>1 DEF LimitKept, LimitTypeOK
<1>5. CASE Save(Uncharged(t)) \/ SaveUnsynced(Uncharged(t))
  <2>1. Budget' /\ attempts' \subseteq Tickets /\ replaced' \subseteq SUBSET Tickets
    BY <1>3, <1>5, SaveKeeps
  <2> QED  BY <1>2, <2>1 DEF LimitKept, LimitTypeOK
<1> QED  BY <1>4, <1>5 DEF Authenticated, AuthenticatedFails

LEMMA ClockKeeps ==
    ASSUME LimitTypeOK, Budget, SetClock \/ LosePower \/ UNCHANGED limitVars
    PROVE  LimitKept
<1>1. CASE SetClock
  BY <1>1 DEF SetClock, LimitKept, LimitTypeOK, Budget, Counting, Contents
<1>2. CASE LosePower
  <2>1. Contents' \subseteq Contents /\ Counting' = Counting
    BY <1>2 DEF LosePower, Contents, Counting
  <2>2. attempts' \subseteq Tickets
    BY <1>2 DEF LosePower, LimitTypeOK
  <2> QED  BY <1>2, <2>1, <2>2 DEF LosePower, LimitKept, LimitTypeOK, Budget
<1>3. CASE UNCHANGED limitVars
  BY <1>3 DEF limitVars, LimitKept, LimitTypeOK, Budget, Counting, Contents
<1> QED  BY <1>1, <1>2, <1>3

(***************************************************************************)
(* The agents.                                                             *)
(***************************************************************************)

\* Who serves a session: nobody before and after, and an agent that runs.
Owned ==
    \A t \in Tickets :
        /\ stage[t] \in {"idle", "gone"} <=> agentOf[t] = NoAgent
        /\ agentOf[t] # NoAgent => mode[agentOf[t]] # "stopped"

Sharing ==
    /\ mode \in [Agents -> Modes]
    /\ failures \in [Agents -> 0..(MaxPairingFailures - 1)]
    /\ stage \in [Tickets -> SessionStages]
    /\ agentOf \in [Tickets -> Agents \cup {NoAgent}]
    /\ Owned

Capped == \A p \in Agents : Cardinality(SessionsOf(p)) <= MaxConcurrentSessions

LEMMA TypeParts == AgentsTypeOK <=> LimitTypeOK /\ Sharing /\ Capped
BY DEF AgentsTypeOK, Sharing, Owned, Capped

\* No session begins to be asked for the password.
NoNewTry == \A t \in Tickets : stage'[t] = "pairing" => stage[t] = "pairing"

\* An agent that serves no more sessions than before has not too many.
LEMMA FewerFit ==
    ASSUME Capped, agentOf \in [Tickets -> Agents \cup {NoAgent}],
           \A t \in Tickets : agentOf'[t] \in {agentOf[t], NoAgent}
    PROVE  Capped'
<1> SUFFICES ASSUME NEW p \in Agents
             PROVE  Cardinality(SessionsOf(p)') <= MaxConcurrentSessions
  BY DEF Capped
<1>1. SessionsOf(p)' \subseteq SessionsOf(p)
  BY AgentConstants DEF SessionsOf
<1>2. SessionsOf(p) \in SUBSET Tickets /\ SessionsOf(p)' \in SUBSET Tickets
  BY DEF SessionsOf
<1>3. IsFiniteSet(SessionsOf(p)) /\ Cardinality(SessionsOf(p)) \in Nat
      /\ Cardinality(SessionsOf(p)') \in Nat
  BY <1>2, SmallSets
<1>4. Cardinality(SessionsOf(p)') <= Cardinality(SessionsOf(p))
  BY <1>1, <1>3, FS_Subset
<1> QED  BY <1>3, <1>4, AgentConstants DEF Capped

\* A session that comes to an agent with room fits.
LEMMA OneMoreFits ==
    ASSUME Capped, agentOf \in [Tickets -> Agents \cup {NoAgent}],
           NEW p \in Agents, NEW t \in Tickets, HasRoom(p), agentOf[t] = NoAgent,
           agentOf' = [agentOf EXCEPT ![t] = p]
    PROVE  Capped'
<1> SUFFICES ASSUME NEW q \in Agents
             PROVE  Cardinality(SessionsOf(q)') <= MaxConcurrentSessions
  BY DEF Capped
<1>1. SessionsOf(q) \in SUBSET Tickets
  BY DEF SessionsOf
<1>2. IsFiniteSet(SessionsOf(q)) /\ Cardinality(SessionsOf(q)) \in Nat
  BY <1>1, SmallSets
<1>3. CASE q = p
  <2>1. SessionsOf(q)' = SessionsOf(q) \cup {t} /\ t \notin SessionsOf(q)
    BY <1>3, AgentConstants DEF SessionsOf
  <2>2. Cardinality(SessionsOf(q)') = Cardinality(SessionsOf(q)) + 1
    BY <1>2, <2>1, FS_AddElement
  <2> QED  BY <1>2, <1>3, <2>2, AgentConstants DEF HasRoom
<1>4. CASE q # p
  <2>1. SessionsOf(q)' = SessionsOf(q)
    BY <1>4, AgentConstants DEF SessionsOf
  <2> QED  BY <2>1 DEF Capped
<1> QED  BY <1>3, <1>4

\* What a step of an agent leaves.
SharingKept == Sharing' /\ Capped' /\ NoNewTry

LEMMA EndKeeps ==
    ASSUME Sharing, Capped, NEW P \in SUBSET Agents, End(P)
    PROVE  SharingKept
<1> DEFINE over == {t \in Tickets : agentOf[t] \in P}
<1>1. /\ mode' = [p \in Agents |-> IF p \in P THEN "stopped" ELSE mode[p]]
      /\ failures' = [p \in Agents |-> IF p \in P THEN 0 ELSE failures[p]]
      /\ stage' = [t \in Tickets |-> IF t \in over THEN "gone" ELSE stage[t]]
      /\ agentOf' = [t \in Tickets |-> IF t \in over THEN NoAgent ELSE agentOf[t]]
  BY DEF End
<1>2. Capped'
  <2>1. \A t \in Tickets : agentOf'[t] \in {agentOf[t], NoAgent}
    BY <1>1
  <2> QED  BY <2>1, FewerFit DEF Sharing
<1>3. mode' \in [Agents -> Modes] /\ failures' \in [Agents -> 0..(MaxPairingFailures - 1)]
  BY <1>1, AgentConstants DEF Sharing, Modes
<1>4. /\ stage' \in [Tickets -> SessionStages]
      /\ agentOf' \in [Tickets -> Agents \cup {NoAgent}]
  BY <1>1 DEF Sharing, SessionStages
<1>5. Owned'
  <2> SUFFICES ASSUME NEW t \in Tickets
               PROVE  /\ stage'[t] \in {"idle", "gone"} <=> agentOf'[t] = NoAgent
                      /\ agentOf'[t] # NoAgent => mode'[agentOf'[t]] # "stopped"
    BY DEF Owned
  <2>1. CASE t \in over
    BY <1>1, <2>1
  <2>2. CASE t \notin over
    <3>1. stage'[t] = stage[t] /\ agentOf'[t] = agentOf[t] /\ agentOf[t] \notin P
      BY <1>1, <2>2
    <3> QED  BY <1>1, <3>1 DEF Sharing, Owned
  <2> QED  BY <2>1, <2>2
<1>6. NoNewTry
  BY <1>1 DEF NoNewTry
<1> HIDE DEF over
<1> QED  BY <1>2, <1>3, <1>4, <1>5, <1>6 DEF SharingKept, Sharing

\* One session changes its stage, leaves or both; its agent does not stop.
LEMMA StageKeeps ==
    ASSUME Sharing, Capped, NEW t \in Tickets, NEW s \in SessionStages,
           agentOf[t] # NoAgent, stage' = [stage EXCEPT ![t] = s],
           \/ s \notin {"idle", "gone"} /\ agentOf' = agentOf
           \/ s = "gone" /\ agentOf' = [agentOf EXCEPT ![t] = NoAgent],
           mode' \in [Agents -> Modes],
           \A p \in Agents : mode[p] # "stopped" => mode'[p] # "stopped",
           failures' \in [Agents -> 0..(MaxPairingFailures - 1)],
           s = "pairing" => stage[t] = "pairing"
    PROVE  SharingKept
<1>1. agentOf' \in [Tickets -> Agents \cup {NoAgent}] /\ stage' \in [Tickets -> SessionStages]
  BY DEF Sharing
<1>2. \A u \in Tickets : agentOf'[u] \in {agentOf[u], NoAgent}
  BY DEF Sharing
<1>3. Capped'
  BY <1>2, FewerFit DEF Sharing
<1>4. Owned'
  BY DEF Sharing, Owned
<1>5. NoNewTry
  BY DEF NoNewTry, Sharing
<1> QED  BY <1>1, <1>3, <1>4, <1>5 DEF SharingKept, Sharing

\* A session comes to an agent.
LEMMA BeginKeeps ==
    ASSUME Sharing, Capped, NEW p \in Agents, NEW t \in Tickets,
           NEW s \in {"joining", "dated"},
           HasRoom(p), mode[p] = "open", stage[t] = "idle",
           stage' = [stage EXCEPT ![t] = s], agentOf' = [agentOf EXCEPT ![t] = p],
           UNCHANGED <<mode, failures>>
    PROVE  SharingKept
<1>1. agentOf[t] = NoAgent
  BY DEF Sharing, Owned
<1>2. Capped'
  BY <1>1, OneMoreFits DEF Sharing
<1>3. Owned'
  BY AgentConstants DEF Sharing, Owned
<1>4. NoNewTry
  BY DEF NoNewTry, Sharing
<1> QED  BY <1>2, <1>3, <1>4 DEF SharingKept, Sharing, SessionStages

LEMMA ModeKeeps ==
    ASSUME Sharing, Capped, NEW p \in Agents, NEW m \in Modes \ {"stopped"},
           mode' = [mode EXCEPT ![p] = m], UNCHANGED <<failures, stage, agentOf>>
    PROVE  SharingKept
<1>1. \A t \in Tickets : agentOf'[t] \in {agentOf[t], NoAgent}
  OBVIOUS
<1>2. Capped'
  BY <1>1, FewerFit DEF Sharing
<1>3. Owned'
  BY DEF Sharing, Owned
<1> QED  BY <1>2, <1>3 DEF SharingKept, Sharing, NoNewTry

LEMMA StillKeeps ==
    ASSUME Sharing, Capped, UNCHANGED sharingVars
    PROVE  SharingKept
BY DEF sharingVars, SharingKept, Sharing, Capped, Owned, NoNewTry, SessionsOf

\* A session is turned away.
LEMMA TurnAwayKeeps ==
    ASSUME Sharing, Capped, NEW t \in Tickets, agentOf[t] # NoAgent, TurnAway(t)
    PROVE  SharingKept
<1>1. agentOf[t] \in Agents
  BY DEF Sharing
<1>2. CASE agentOf[t] \in Relayed
  <2>1. SetStage(t, "rejected") /\ UNCHANGED <<mode, failures, agentOf>>
    BY <1>2 DEF TurnAway
  <2> QED  BY <2>1, StageKeeps DEF SetStage, Sharing, SessionStages, Concluded
<1>3. CASE agentOf[t] \notin Relayed
  <2>1. SetMode(agentOf[t], "draining") /\ Leave(t) /\ UNCHANGED failures
    BY <1>3 DEF TurnAway
  <2>2. stage' = [stage EXCEPT ![t] = "gone"] /\ agentOf' = [agentOf EXCEPT ![t] = NoAgent]
    BY <2>1 DEF Leave, SetStage
  <2>3. mode' \in [Agents -> Modes] /\ \A p \in Agents : mode[p] # "stopped" => mode'[p] # "stopped"
    BY <1>1, <2>1 DEF SetMode, Sharing, Modes
  <2> QED  BY <2>1, <2>2, <2>3, StageKeeps DEF Sharing, SessionStages
<1> QED  BY <1>2, <1>3

(***************************************************************************)
(* The steps.                                                              *)
(***************************************************************************)

\* A session that somebody serves.
LEMMA Served ==
    ASSUME Sharing, NEW t \in Tickets, stage[t] \notin {"idle", "gone"}
    PROVE  agentOf[t] \in Agents /\ agentOf[t] # NoAgent /\ mode[agentOf[t]] # "stopped"
BY AgentConstants DEF Sharing, Owned

LEMMA LoopKeeps ==
    ASSUME AgentsTypeOK, Tried, Budget, NEW p \in Agents, AgentLoop(p)
    PROVE  LimitKept /\ SharingKept /\ granted \subseteq granted'
<1>0. LimitTypeOK /\ Sharing /\ Capped
  BY TypeParts
<1> DEFINE Holds == LimitKept /\ SharingKept /\ granted \subseteq granted'
<1>1. ASSUME UNCHANGED limitVars, SharingKept
      PROVE  Holds
  <2>1. LimitKept
    BY <1>0, <1>1, ClockKeeps
  <2> QED  BY <1>1, <2>1 DEF limitVars
<1>2. CASE AgentStarts(p)
  <2>1. UNCHANGED limitVars /\ UNCHANGED <<failures, stage, agentOf>>
    BY <1>2 DEF AgentStarts
  <2> DEFINE m == IF p \in Relayed THEN "connecting" ELSE "open"
  <2>2. m \in Modes \ {"stopped"} /\ mode' = [mode EXCEPT ![p] = m]
    BY <1>2 DEF AgentStarts, SetMode, Modes
  <2> HIDE DEF m
  <2> QED  BY <1>0, <1>1, <2>1, <2>2, ModeKeeps
<1>3. CASE RelayAnswers(p) \/ RelayLost(p) \/ CodeExpires(p)
  <2>1. UNCHANGED limitVars /\ UNCHANGED <<failures, stage, agentOf>>
    BY <1>3 DEF RelayAnswers, RelayLost, CodeExpires
  <2>2. \E m \in Modes \ {"stopped"} : mode' = [mode EXCEPT ![p] = m]
    BY <1>3 DEF RelayAnswers, RelayLost, CodeExpires, SetMode, Modes
  <2> QED  BY <1>0, <1>1, <2>1, <2>2, ModeKeeps
<1>4. CASE RelayRefuses(p) \/ Drained(p) \/ AgentCrashes(p)
  <2>1. UNCHANGED limitVars /\ End({p})
    BY <1>4 DEF RelayRefuses, Drained, AgentCrashes
  <2>2. SharingKept
    BY <1>0, <2>1, EndKeeps
  <2> QED  BY <1>1, <2>1, <2>2
<1>5. ASSUME NEW t \in Tickets, Invited(p, t)
      PROVE  Holds
  <2>1. UNCHANGED limitVars
    BY <1>5 DEF Invited
  <2>2. SharingKept
    BY <1>0, <1>5, BeginKeeps DEF Invited, SetStage
  <2> QED  BY <1>1, <2>1, <2>2
<1>6. ASSUME NEW t \in Tickets, Accepted(p, t)
      PROVE  Holds
  <2>1. LimitKept
    BY <1>0, <1>6, ReadClockKeeps DEF Accepted
  <2>2. SharingKept
    BY <1>0, <1>6, BeginKeeps DEF Accepted, SetStage
  <2> QED  BY <1>6, <2>1, <2>2 DEF Accepted, ReadClock
<1>7. ASSUME NEW t \in Tickets, Collect(p, t)
      PROVE  Holds
  <2>1. UNCHANGED limitVars /\ agentOf[t] = p /\ stage[t] \in Concluded
    BY <1>7 DEF Collect
  <2>2. CASE stage[t] = "rejected" /\ LastFailure(p)
    <3>1. End({p})
      BY <1>7, <2>2 DEF Collect
    <3> QED  BY <1>0, <1>1, <2>1, <3>1, EndKeeps
  <2>3. CASE ~(stage[t] = "rejected" /\ LastFailure(p))
    <3>1. /\ failures' = [failures EXCEPT ![p] = CASE stage[t] = "rejected" -> @ + 1
                                                 [] stage[t] = "ended" -> 0
                                                 [] OTHER -> @]
          /\ Leave(t)
          /\ UNCHANGED mode
      BY <1>7, <2>3 DEF Collect
    <3>2. failures' \in [Agents -> 0..(MaxPairingFailures - 1)]
      <4>1. failures[p] \in 0..(MaxPairingFailures - 1)
        BY <1>0 DEF Sharing
      <4>2. stage[t] = "rejected" => failures[p] + 1 \in 0..(MaxPairingFailures - 1)
        BY <2>3, <4>1, AgentConstants DEF LastFailure
      <4>3. failures'[p] \in 0..(MaxPairingFailures - 1)
        BY <1>0, <3>1, <4>1, <4>2, AgentConstants DEF Sharing
      <4> QED  BY <1>0, <3>1, <4>3 DEF Sharing
    <3>3. agentOf[t] # NoAgent
      BY <2>1, AgentConstants
    <3>4. SharingKept
      BY <1>0, <3>1, <3>2, <3>3, StageKeeps DEF Leave, SetStage, Sharing, SessionStages
    <3> QED  BY <1>1, <2>1, <3>4
  <2> QED  BY <2>2, <2>3
<1> QED  BY <1>2, <1>3, <1>4, <1>5, <1>6, <1>7 DEF AgentLoop

\* What a step of a session leaves; it is asked for the password once it has a charge.
LEMMA SessionKeeps ==
    ASSUME AgentsTypeOK, Tried, Budget, NEW t \in Tickets, Session(t)
    PROVE  LimitKept /\ Sharing' /\ Capped' /\ Tried'
<1>0. LimitTypeOK /\ Sharing /\ Capped
  BY TypeParts
<1> DEFINE Holds == LimitKept /\ Sharing' /\ Capped' /\ Tried'
<1>1. ASSUME LimitKept, SharingKept, UNCHANGED granted
      PROVE  Holds
  BY <1>1 DEF SharingKept, NoNewTry, Tried
<1>2. ASSUME UNCHANGED limitVars, SharingKept
      PROVE  Holds
  <2>1. LimitKept
    BY <1>0, <1>2, ClockKeeps
  <2> QED  BY <1>1, <1>2, <2>1 DEF limitVars
<1>3. stage[t] \notin {"idle", "gone"} /\ agentOf[t] \in Agents /\ agentOf[t] # NoAgent
      /\ mode[agentOf[t]] # "stopped"
  <2>1. stage[t] \notin {"idle", "gone"}
    BY DEF Session, JoinFails, Joined, Granted, Denied, HandshakeFails, Paired,
           PairedUnrefunded, SessionEnds
  <2> QED  BY <1>0, <2>1, Served
<1>4. CASE JoinFails(t)
  <2>1. SharingKept
    BY <1>0, <1>3, <1>4, StageKeeps DEF JoinFails, SetStage, Sharing, SessionStages, Concluded
  <2> QED  BY <1>2, <1>4, <2>1 DEF JoinFails
<1>5. CASE Joined(t)
  <2>1. SharingKept
    BY <1>0, <1>3, <1>5, StageKeeps DEF Joined, SetStage, Sharing, SessionStages, Concluded
  <2>2. LimitKept
    BY <1>0, <1>5, ReadClockKeeps DEF Joined
  <2> QED  BY <1>1, <1>5, <2>1, <2>2 DEF Joined, ReadClock
<1>6. CASE Granted(t)
  <2>1. LimitKept
    BY <1>0, <1>6, ReserveKeeps DEF Granted
  <2>2. /\ stage' = [stage EXCEPT ![t] = "pairing"] /\ UNCHANGED <<mode, failures, agentOf>>
        /\ granted' = granted \cup {t}
    BY <1>6 DEF Granted, SetStage, Reserve
  <2>3. Capped'
    BY <1>0, <2>2, FewerFit DEF Sharing
  <2>4. Sharing'
    BY <1>0, <1>3, <2>2 DEF Sharing, Owned, SessionStages
  <2>5. Tried'
    BY <1>0, <2>2 DEF Tried, Sharing
  <2> QED  BY <2>1, <2>3, <2>4, <2>5
<1>7. CASE Denied(t)
  <2>1. LimitKept
    BY <1>0, <1>7, ReserveFailsKeeps DEF Denied
  <2>2. SharingKept
    BY <1>0, <1>3, <1>7, TurnAwayKeeps DEF Denied
  <2> QED  BY <1>1, <1>7, <2>1, <2>2 DEF Denied, ReserveFails
<1>8. CASE HandshakeFails(t)
  <2> DEFINE p == agentOf[t]
  <2>1. UNCHANGED limitVars
    BY <1>8 DEF HandshakeFails
  <2>2. CASE TurnAway(t)
    BY <1>0, <1>2, <1>3, <2>1, <2>2, TurnAwayKeeps
  <2>3. CASE ~TurnAway(t)
    <3>1. /\ ~LastFailure(p)
          /\ failures' = [failures EXCEPT ![p] = @ + 1]
          /\ Leave(t)
          /\ UNCHANGED mode
      BY <1>8, <2>3 DEF HandshakeFails
    <3>2. failures' \in [Agents -> 0..(MaxPairingFailures - 1)]
      <4>1. failures[p] \in 0..(MaxPairingFailures - 1)
        BY <1>0, <1>3 DEF Sharing
      <4>2. failures[p] + 1 \in 0..(MaxPairingFailures - 1)
        BY <3>1, <4>1, AgentConstants DEF LastFailure
      <4> QED  BY <1>0, <3>1, <4>2 DEF Sharing
    <3>3. SharingKept
      BY <1>0, <1>3, <3>1, <3>2, StageKeeps DEF Leave, SetStage, Sharing, SessionStages
    <3> QED  BY <1>2, <2>1, <3>3
  <2> QED  BY <2>2, <2>3
<1>9. CASE Paired(t)
  <2>1. t \in granted
    BY <1>9 DEF Paired, Tried
  <2>2. LimitKept
    BY <1>0, <1>9, <2>1, AuthenticatedKeeps DEF Paired
  <2>3. /\ stage' = [stage EXCEPT ![t] = "serving"] /\ UNCHANGED <<failures, agentOf>>
        /\ UNCHANGED mode \/ mode' = [mode EXCEPT ![agentOf[t]] = "draining"]
    BY <1>9 DEF Paired, SetStage, SetMode
  <2>4. mode' \in [Agents -> Modes] /\ \A p \in Agents : mode[p] # "stopped" => mode'[p] # "stopped"
    BY <1>0, <1>3, <2>3 DEF Sharing, Modes
  <2>5. SharingKept
    BY <1>0, <1>3, <2>3, <2>4, StageKeeps DEF Sharing, SessionStages
  <2> QED  BY <1>1, <1>9, <2>2, <2>5 DEF Paired, Authenticated
<1>10. CASE PairedUnrefunded(t)
  <2>1. t \in granted
    BY <1>10 DEF PairedUnrefunded, Tried
  <2>2. LimitKept
    BY <1>0, <1>10, <2>1, AuthenticatedKeeps DEF PairedUnrefunded
  <2>3. SharingKept
    BY <1>0, <1>3, <1>10, TurnAwayKeeps DEF PairedUnrefunded
  <2> QED  BY <1>1, <1>10, <2>2, <2>3 DEF PairedUnrefunded, AuthenticatedFails
<1>11. CASE SessionEnds(t)
  <2>1. UNCHANGED <<limitVars, mode, failures>>
    BY <1>11 DEF SessionEnds
  <2>2. \/ SetStage(t, "ended") /\ UNCHANGED agentOf
        \/ Leave(t)
    BY <1>11 DEF SessionEnds
  <2>3. SharingKept
    BY <1>0, <1>3, <2>1, <2>2, StageKeeps DEF Leave, SetStage, Sharing, SessionStages, Concluded
  <2> QED  BY <1>2, <2>1, <2>3
<1> QED  BY <1>4, <1>5, <1>6, <1>7, <1>8, <1>9, <1>10, <1>11 DEF Session

LEMMA InitOK == AgentsInit => IInv
<1> SUFFICES ASSUME AgentsInit PROVE IInv
  OBVIOUS
<1>1. LimitTypeOK /\ Sharing
  BY PairingConstants, AgentConstants
     DEF AgentsInit, LimitInit, LimitTypeOK, Sharing, Owned, Modes, SessionStages
<1>2. Capped
  <2>1. \A p \in Agents : SessionsOf(p) = {}
    BY AgentConstants DEF AgentsInit, SessionsOf
  <2> QED  BY <2>1, FS_EmptySet, AgentConstants DEF Capped
<1>3. Tried
  BY DEF AgentsInit, Tried
<1>4. Budget
  BY FS_EmptySet, PairingConstants DEF AgentsInit, LimitInit, Budget, Contents, Counting
<1> QED  BY <1>1, <1>2, <1>3, <1>4, TypeParts DEF IInv

LEMMA StepOK == IInv /\ [AgentsNext]_agentVars => IInv'
<1> SUFFICES ASSUME IInv, [AgentsNext]_agentVars PROVE IInv'
  OBVIOUS
<1>0. AgentsTypeOK /\ Tried /\ Budget /\ LimitTypeOK /\ Sharing /\ Capped
  BY TypeParts DEF IInv
<1>1. ASSUME LimitKept, SharingKept, granted \subseteq granted'
      PROVE  LimitKept /\ Sharing' /\ Capped' /\ Tried'
  BY <1>0, <1>1 DEF SharingKept, NoNewTry, Tried
<1>2. LimitKept /\ Sharing' /\ Capped' /\ Tried'
  <2>1. ASSUME NEW p \in Agents, AgentLoop(p)
        PROVE  LimitKept /\ Sharing' /\ Capped' /\ Tried'
    BY <1>0, <1>1, <2>1, LoopKeeps
  <2>2. ASSUME NEW t \in Tickets, Session(t)
        PROVE  LimitKept /\ Sharing' /\ Capped' /\ Tried'
    BY <1>0, <2>2, SessionKeeps
  <2>3. CASE PowerFails
    <3>1. LimitKept
      BY <1>0, <2>3, ClockKeeps DEF PowerFails
    <3>2. SharingKept
      BY <1>0, <2>3, EndKeeps DEF PowerFails
    <3> QED  BY <1>1, <2>3, <3>1, <3>2 DEF PowerFails, LosePower
  <2>4. CASE TimeSet
    <3>1. LimitKept
      BY <1>0, <2>4, ClockKeeps DEF TimeSet
    <3>2. SharingKept
      BY <1>0, <2>4, StillKeeps DEF TimeSet
    <3> QED  BY <1>1, <2>4, <3>1, <3>2 DEF TimeSet, SetClock
  <2>5. CASE UNCHANGED agentVars
    <3>1. UNCHANGED limitVars /\ UNCHANGED sharingVars
      BY <2>5 DEF agentVars
    <3>2. LimitKept /\ SharingKept
      BY <1>0, <3>1, ClockKeeps, StillKeeps
    <3> QED  BY <1>1, <3>1, <3>2 DEF limitVars
  <2> QED  BY <2>1, <2>2, <2>3, <2>4, <2>5 DEF AgentsNext
<1>3. AgentsTypeOK' <=> (LimitTypeOK /\ Sharing /\ Capped)'
  BY DEF AgentsTypeOK, Sharing, Owned, Capped, SessionsOf
<1> QED  BY <1>2, <1>3 DEF IInv, LimitKept

THEOREM Invariance == AgentsSpec => []IInv
BY InitOK, StepOK, PTL DEF AgentsSpec

\* What the budget, the agents and their sessions hold: no agent serves more sessions than it
\* may, reconnects included, and none that is not running serves one.
THEOREM AgentsTypeCorrect == AgentsSpec => []AgentsTypeOK
BY Invariance, PTL DEF IInv

\* No more failed attempts count at a time than the budget allows, whatever the processes of
\* the device, their crashes, the power and the clock do.
THEOREM AttemptsCorrect == AgentsSpec => []AttemptsBounded
<1>1. IInv => AttemptsBounded
  <2> SUFFICES ASSUME IInv PROVE AttemptsBounded
    OBVIOUS
  <2>1. attempts \in SUBSET Tickets /\ Counting \subseteq attempts
        /\ Cardinality(attempts) <= MaxAttempts
    BY DEF IInv, AgentsTypeOK, LimitTypeOK, Budget, Contents
  <2>2. IsFiniteSet(attempts) /\ Cardinality(attempts) \in Nat /\ Cardinality(Counting) \in Nat
    BY <2>1, SmallSets
  <2>3. Cardinality(Counting) <= Cardinality(attempts)
    BY <2>1, <2>2, FS_Subset
  <2> QED  BY <2>1, <2>2, <2>3, PairingConstants DEF AttemptsBounded, Counting
<1> QED  BY <1>1, Invariance, PTL

=============================================================================
