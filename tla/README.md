# LatticeTerm: verification project

TLA+ models of the concurrent core of LatticeTerm, the TLC runs that check them
on small instances, and TLAPS proofs of the properties that matter most, for
every instance. Every definition is translated from the source; `PROJECT.json`
names the lines each one stands for (`map`), the runs, the mutants that show each
property can fail, the hazards the properties are aimed at, and the theorems.

Run a model with `tlc -config <cfg> <module>`, check the proofs of a module with
`tlapm <module>.tla`.

## The system

LatticeTerm is a desktop terminal and remote-work application: a Tauri
application (`src-tauri/src`, Rust; `src`, TypeScript) and three crates
(`crates/lattice-remote`, `crates/lattice-rdp`, `crates/lattice-vnc`).

| Component | State | Operations | Talks to | What is hard |
|---|---|---|---|---|
| Relay server (`relay_server.rs`) | permits, agents table, pending dials, device claims | accept, register, dial, invite, join, decline, link | agents and viewers over TCP/WebSocket; its tasks meet in locked tables | races between tasks, state copied out of a lock, timers against late answers, permits that change owner |
| Device claim registry (same file) | tokens in memory, one file | claim, verify, save, load | called under a lock by the relay's tasks | failed saves, crash between staging and rename, unreadable file |
| Rate limiter (same file) | one window of instants per address | allow | the accept loop | boundaries of the window, bucket limit |
| Sharing agent (`bin/lattice-agent.rs`) | control connection, sessions, input floor, file jobs | register, reconnect, serve, decline, stop | relay, viewers, host resources | reconnect while sessions live, caps, jobs against cancellation and shutdown |
| Pairing limit (`pairing_limit.rs`) | attempts in a locked file | reserve, authenticated | agent processes sharing the file | two processes, crash between reserve and outcome |
| Scheduled automations (`agent_daemon/automations.rs`) | list, last runs, running marks, queue of finished runs on disk | replace, due, execute, finish, take_runs | daemon loop, the window through the socket | list replaced under a running task, marks keyed by id, restart, requests that fail while the service lives |
| Background daemon (`agent_daemon/server.rs`) | sessions, observers, grants, operation ledger | attach, share, control, launch, retry | CLI, window, external clients | retries of operations already done, grants revoked mid-way |
| Credential authority (`credentials.rs`) | two secret stores, one marker, a clean-up journal | save, load, delete, retry, restore | remote host start, settings, backup | crash and failure between the durable steps |
| SSH tunnels (`tunnel.rs`) | admissions, tunnels, connection permits | start, cancel, stop, finish | SSH sessions, settings, backup restore | start against stop, permits held past the fence |
| Viewer's remote files (`remote_files.rs`) | maps of transfers, an outbound queue | begin, chunk, finish, cancel, dismiss, close | the sharing agent's file jobs | a cancel, a completion and a close that meet outside the lock |
| SFTP transfers and text editor (`sftp_transfers.rs`, `sftp_text.rs`) | transfers, staged files, the gate of a path | start, cancel, dismiss, promote, save | SFTP sessions | no atomic replacement, lost answers, cancel against promotion |
| Agent sessions and chat (`agent.rs`, `agent_chat.rs`) | PTYs, prompt queues, approvals | launch, write, approve, close | third-party CLIs | text recognition, child processes |
| Remote viewer, RDP, VNC, databases, proxy, shell, frontend | sessions | see `PROJECT.json` | third-party stacks | mostly data and I/O |

`PROJECT.json` lists every component with its status and the reason a part is
left out.

What makes each of them correct:

* Relay: a device is listed exactly while its newest control serves it; a dial is answered
  once, by a carrier of the dialed device, and never after it gave up; permits and pending
  entries come back on every path; nobody waits forever.
* Claim registry: a claim that was refused is never loaded later, and an unreadable file
  refuses everything.
* Sharing agent: a session cap that reconnects do not evade; one terminal answer per file
  operation; a shutdown that waits for every job.
* Pairing limit: no more than five unrefunded attempts in a window, by all processes together.
* Automations: a due mark is started once by the service; the two sides do not run one automation at the
  same time as long as they hear of each other; progress is not undone; a mark never outlives its run.
* Daemon and prompt queues: an operation runs at most once per request id, a prompt is written
  once; a revoked grant stops what it allowed.
* Credential authority and vault: a host is given the password saved last or none; what is left
  of an older one is journaled until it is gone; a restore changes everything or nothing.
* Tunnels: one run per tunnel id; a stop that returned is a boundary; permits come back.
* Transfers, remote and over SFTP: an operation ends in one state, which is the truth about the
  file; no version of a file is lost without its user being told.

The components modelled are those in which several tasks, two processes, a lost answer or
a failing disk meet in shared state, and in which the order of the steps decides whether
a promise made in a comment or a doc is kept.

## Modules

| Module | What it is |
|---|---|
| `RelayServer` | the relay's four tables and every task that touches them |
| `Rendezvous` | abstract: what the relay promises its clients, with no task, table or timer |
| `RelayRendezvous` | the refinement mapping from `RelayServer` to `Rendezvous` |
| `RelayServerProofs` | the inductive invariant of `RelayServer`, its theorems and the proof of the refinement |
| `MCRelayRendezvous` | instances of both for TLC |
| `Automations` | the window's and the service's automation runners and the messages between them |
| `AutomationsProofs` | its inductive invariant and theorems |
| `MCAutomations` | instances for TLC |
| `HostPassword` | the saved host password in two secret stores, its marker and its clean-up journal |
| `HostAuthority` | abstract: which password a host may be given |
| `PairingLimit` | the shared file of pairing attempts |
| `AgentSessions` | extends it: the loops of relayed and direct sharing agents, and their sessions |
| `HostProofs` | the inductive invariants of `HostPassword` and of `AgentSessions`, their theorems and the proof of the refinement |
| `MCHostPassword` | instances of `HostPassword` and of `AgentSessions`, one case at a time |
| `FileJobs` | the agent's side of file operations: receive loop, threads, permits, shutdown |
| `Publication` | abstract: what the agent promises about an upload, with no thread, session or permit |
| `RemoteFiles` | the viewer's side: the commands of the window and the reader of the connection |
| `FileTransfers` | the composition of both over one connection |
| `FileJobsProofs`, `FileTransfersProofs` | the inductive invariant of `FileJobs` and its refinement of `Publication`; the composition implements `FileJobs`, and its window tells the truth |
| `MCFileTransfers` | instance: the agent against any peer, and against this viewer |
| `StopBoundary` | abstract: what a stop of a tunnel promises, with no registry, worker, transport or permit |
| `Tunnels`, `TunnelsProofs` | SSH tunnels from reservation to clean-up, stop, exit and restore; they implement `StopBoundary` |
| `PromptQueue` | the prompts of an agent session, its input lock and its queue |
| `McpOperations`, `McpOperationsProofs` | extends it: the daemon's ledger, the grants and the launches of observers; it implements `OnceLedger` |
| `OnceLedger` | abstract: what the daemon promises to clients that retry, with no queue, grant or lock |
| `SftpFiles`, `SftpFilesProofs` | uploads to, and text saves of, one path of an SFTP server |
| `MCDesktop` | instances of `Tunnels`, `McpOperations` and `SftpFiles`, one case at a time |

No module declares a RECURSIVE operator. An operator whose comment begins with
"Mutant of" is a plausible mistake in the definition after it: no specification
uses it. `PROJECT.json` pairs every property of every passing run with one of
them, and with the mistake in place TLC finds the property violated.

### RelayServer

A connection is one value of `Conns` and is used once. `phase[c]` says where the
task of `run_connection` is; the tables of `RelayState` are `slots` (the
connection semaphore), `tokens` (device claims), `agents` and `joins` (pending
dials). A channel id is 256 random bits drawn for one dial, so the dialing
connection stands for its own channel, and a collision of ids is left out.

One action is one critical section or one await whose outcome matters:

* `Accept`, `AcceptRefused`, `OpeningEnds`, `BadRequest`, `Refused`: the accept
  loop and the ends of a task. `OpeningEnds` stands for the rate limiter, a failed
  handshake, the first-message timer and a lone ping, which all end the same way.
* `Register`, `RegisterRefused`, `RegisteredUnwritten`, `Number`, `List`: claiming,
  answering, numbering and listing a control connection are four steps, because the
  code takes the generation and inserts the entry under different locks.
* `Forward`, `ForwardFails`, `ControlLost`, `ControlStopped`, `Unlist`, `Decline`: the
  control loop and the forwarder task it spawned.
* `Dial`, `DialOffline`, `ReserveDial`, `ReserveBusy`, `Invite`, `InviteFails`,
  `DialTimesOut`, `DialDeclined`, `DialJoined`, `Link`, `LinkAgentLost`, `DialEnds`:
  `run_dial` and the destructor of its reservation. `target[c]` is the sender copied
  out of the table; it is used after the lock is gone.
* `Join`, `JoinRefused`, `HandOver`, `HandOverLate`: taking the sender and sending the
  socket through it are two steps, and the dial may give up between them.

A time-out is an action that may always happen while its timer runs; a write to a
peer may succeed or fail at any time.

`Rendezvous` keeps only claims, and viewers and carriers that ask, offer, are
paired and part. The mapping of `RelayRendezvous` reads a client's role off what
it presented: a viewer named a device and no token, a carrier took a sender.

### Automations

The window and the service are two programs that each keep the whole list. `now` is the clock both
sides read. The window (`useAgentAutomations.ts`) owns
`mine`, its copy of the list, and the runs it remembers; the service
(`agent_daemon/automations.rs`) owns `kept`, `disk` (`state.json`), the running
marks and the records of finished runs. `pushes`, `answers` and `taken` are requests
and replies on their way; they are sets, so they may arrive in any order.
`Open` .. `Tick` are the mount, the sync and the interval of the window,
`FinishHere` the end of a turn; `RunNow`, `SetEnabled`, `Edit`, `Remove` are the
person's; `ServiceStarts`, `ServiceStops`, `Replace`, `LookForWindow`, `StartDue`, `SaveRecord`,
`Finish` are the service's.

The window takes every failed request for "no service": one that found none, but also one
that ran into the 5 s of an attach or the 30 s of an answer, or whose connection was lost, while the
service lives and may be running what the window is about to start. So
`ImportNothing` and `SyncFails` may happen to any request, at any moment, and the mount goes on;
`ConnectionBreaks` and `Close` end the connection and leave the service up. What was on its way is
not taken back: a push of which the window gave up the answer (`awaited`) may still be handled, at
any later time, and only its answer goes nowhere. `SyncFails` has three forms: nothing was sent, the push
was given up, or the answer comes too late. `MaxOutages` bounds these failures and the stops
of the service together; with `MaxOutages = 0` a request fails only where no service runs.

The service's ticker counts the attached windows (`server.rs:225`) and takes the lock of the
scheduler later, in `due` (`automations.rs:298`), on another thread: `LookForWindow` and
`StartDue` are two steps, and a window may attach, take the records, sync and tick between them.
`SaveRecord` and `Finish` are two steps because a push
may fall between the record's file and the mark. Closing the window ends its own
runs and drops the answers on the wire; a dead service ends its runs and drops its
marks, which are kept in memory only.

Three ghosts state properties: `served`, the due marks the service started since the last push;
`alone`, that the window went on without the service's word, because a request failed or the
connection was lost since its last answer; `late`, the service's runs that were planned on a look for windows
that was over when one had attached.

### HostPassword

`file` is `credential_backend.json`: the preferred store, the marker that names
the store a host may load from, and the journal of stores that may hold an old
copy. `keyring` and `vault` are the stores, `memory` the open vault. Each durable
write has three outcomes (`durable_file.rs`): done; failed before the file was
replaced; failed after it, when the new content is visible and not yet synced. The
replaced content then stays in `fileOld` or `vaultOld` until a later write
succeeds, and `PowerLoss` may bring any of it back. `op` is the operation that holds
`BACKEND_FILE_LOCK` and its local variables: saving
(`StoreRevoke`, `StoreSecret`, `Activate`, `Undo`, `Tidy`, `Record`), deleting and
retrying (`DeleteRevoke`, `Retry`, `CleanOne`, `Cleaned`, `Record`), and restoring a
backup with its rollback (`RestoreRevoke`, `RestoreVault`, `RestoreLoads`,
`RollBackVault`, `RollBackMarker`). `SetPreferred`, `CreateVault`, `Unlock`, `Lock`,
`VaultRewritten`, `ChangePassword` are the other commands, which may run between the
steps of an operation as far as the code's locks let them. `Crash` closes the vault
and forgets `op`.

Three ghost variables state the properties: `used` (passwords whose saving was
tried), `current` (the last one activated, until an operation revoked it) and
`promised` (the same, until an operation tries to).

### PairingLimit and AgentSessions

`attempts` is the file beside the identity that all agent processes of a device share;
`replaced` are its earlier contents that a power loss may bring back while a replacement
is not synced. A change happens under a file lock that the end of a process releases, so it
is one step: `Reserve` charges an attempt before its password is tried, `Authenticated`
refunds it, and each may fail before or after the file was replaced (`ReserveFails`,
`AuthenticatedFails`). The clock is read *before* the lock is taken (`ReadClock`) and may be set
to anything (`SetClock`).

`AgentSessions` adds the processes. `mode[p]` is what the loop of an agent does: a relayed
agent registers, serves invites, loses the relay and reconnects while its sessions go on; a
direct agent pairs one viewer after the other until its code expires, then drains. `stage[t]`
follows a session to its `SessionOutcome`, which the relay loop collects later (`Collect`).
All tasks of an agent share one thread, which blocks on the lock of the budget: `Blocked(p)` is
a guard of every other step of that process.

### FileJobs, RemoteFiles and FileTransfers

`receiver` and `feeding` are the receive loop of the session served now, `worker[t]` the detached
thread of a job; they meet in `control[t]` (`FileJobState`: active, committing, a reason to
cancel, terminal), in the session's registry (`operations`, the byte counts, `inFlight` and the
permit stored in its `Notify`), in `targets` (the folders reserved for uploads, for the whole
process), in the command queue of an upload and in `outgoing`. `Admit`, `Refuse` and
`SpawnFails` are the admission, `HandleCommand` .. `HandleCancel` the other requests, `EndSession`,
`Drain`, `Wake` and `DrainTimesOut` the shutdown, whose check of the count and wait for the
notification are two steps. A thread that outlives its session keeps its permit and its folder
into the next one.

`Publication` keeps of an upload that it is open, sealed, placed, failed or called off, what its client
was told, and whose turn it is in a folder. `StageOf` reads the stage off `published`, `signalled`,
`worker[t]` and `control[t]`: an upload is sealed by its own commit alone, and called off by whatever sets a
reason before.

`RemoteFiles` has one locked map (`shown`, `entry`, `ready`, `finishing`) and everybody who uses
it: the command that carries a transfer out (`caller`), `Cancel`, `Dismiss`, `Close` and the reader.
Nobody holds the lock while waiting for the queue or writing a file, so registering and sending
are two steps (`BeginFinish`, `RequestFinish`), and so are taking a complete transfer out of the
map and putting its file in place (`HandleComplete`, `Settle`).

`FileTransfers` joins them: `Serve` takes the oldest request to the receive loop, `Respond` the
oldest message to the reader, and the end of the connection loses what is under way.

### Tunnels

A run is one start of a tunnel and stands for its generation. `row`, `previous`, `status` and
`completed` are the registry; `phase[r]` is the start future and then the worker; `permit[r]` says
who holds the admission: the reservation, the detached keyring job, or the SSH session, which
shares it with its transport's handler. `Prepare` .. `CommitStart` are the start with a failure at
each stage, `DropLocals` and `CancelStart` what a failed start leaves to its destructors, in their
order; `ServeEnds` .. `Finish` the worker's end; `Arrive`, `TakePermits`, `Recheck`, `EndLease` a
connection, which looks at the stop watch before and after it takes its permits. `Stop`,
`SealRegistry` and `StopRows` (the exit stores its flag first and takes the lock afterwards) and the
restore of a backup come from outside.

`StopBoundary` keeps the life of a run, whether it has a listener or a session with the host, its open
connections, who was told to stop, the exit and the restore. `LifeOf` reads the life off `status` and
`completed`: a run begins when it is reserved, is up when it is published, and is over when its completion is
set, which is the moment a stop command hears of.

### PromptQueue and McpOperations

`at[p]` follows a prompt through `send_prompt` and the delivery; `input[s]` is the input lock of a
session. `Enter` remembers the epoch of the grant before the lock is waited for, and the epoch is
compared at every later step (`TakeInput`, `Place`, `Check`, `Hand`), because a revocation takes no
lock. `Deliver` pops under the lock what `Hand` and `TypeQueued` write afterwards; a failed delivery
puts a person's prompt back and drops an observer's.

`McpOperations` adds `once`: `Look` (lookup and preflight), `Reserve` (the lookup again under the
lock), `Repeat` and `WaitTimesOut` of a retry, `Expire` after the retention. `Share`, `Grant`, `Revoke`
and their second halves are a person's changes, in the code's order: the epoch, the queue, the
grant. A launch checks limit and plan, spawns, and authorises again under the grant lock and the
plans lock before control is handed over (`CheckLimits` .. `Note`).

`OnceLedger` keeps the result of a request, for how long it is kept, who waits for it, what each client was
told and the effect a call had. `EffectOf` reads the effect off the state: a prompt that was written, a session that a
launch started and that lives. A launch that is refused after it spawned is `Do` and `Undo` there, and its
client hears of a failure only afterwards.

### SftpFiles

Each request to the server is carried out or not, and answered or not: `Asked` says which
combinations there are, and a caller without an answer takes the request for refused. `work[t]` is
where the thread of an upload, of its cancellation, or of a save is; `gate` is `target_gate`, which
nobody waits for, `slot[u]` the lock of an upload. An upload looks, compares, renames the file aside,
renames its own into place and then removes the other one, or puts it back; a save does the same
with a revision, suspects a rename without an answer, and keeps the previous file. A publication
that fails and cannot put the file back leaves the upload `"stranded"`: the place of the
original is in the error of that thread, and `told[u]`, the report, has it only if this thread is the
one that ends the upload (`AbortUpload`). A cancel that waited for the lock may be first, and then
the error is dropped. The lock is fair, so a cancel that already waits *is* first; the model lets either
be. `Outsider` is
another program, once.

## Runs

States are distinct states found by TLC.

| Run | Instance | Checks | States |
|---|---|---|---|
| `relay` | `MCRelayRendezvous.cfg`: 4 connections, 2 devices and 2 tokens, or 5 connections and 1 device; 4 permits, 2 pending dials, 2 claims, invite queues of 1 | `TypeOK`, `ListingIsExact`, `LinkedWithOwner`, `DialsAccounted`, `CarriersAccounted`, `KeepsPromise`, `NoLateLink` | 240,989 |
| `relay_liveness` | `MCRelayLive.cfg`: 3 connections, 1 device, fair | `EveryTaskSettles`, `SupersededLeaves`, `KeepsPromiseInTime` | 20,102 |
| `automations` | `MCAutomations.cfg`: `report` after `nightly`, clock to 2, 1 message, 1 change of the list, 1 outage | `TypeOK`, `RunsCounted`, `ServiceNeverRepeats`, `ProgressStays`, `DueChainStays` | 1,645,001 |
| `automations_takeover` | `MCAutomationsTakeover.cfg`: the same chain, clock to 2, no changes, 1 outage, fair | `TakeoverClean`, `DueRuns` | 349,789 |
| `host_password` | `MCHostPassword.cfg`: 2 passwords, 2 unsynced replacements of each file; beside it a relayed and a direct agent with 4 attempts on a budget of 2 | `TypeOK`, `OnlyCurrentLoads`, `SavedStays`, `KeyringJournaled`, `KeepsAuthority`, `AttemptsBounded` | 647,445 |
| `file_transfers` | `MCFileTransfers.cfg`: 2 sessions one after the other, 2 permits, queues of 1; 2 uploads to one folder from any peer, or one transfer of either kind from the viewer | `TypeOK`, `PublishesAsPromised`, `AnswersHonest`, `BytesAccounted`, `ResourcesOwned`, `DrainedClean`, `NoLostWakeup`, `ShownIsReal` | 1.33 million |
| `desktop` | `MCDesktop.cfg`: 2 of 3 tunnel runs with 2 connections; or 2 prompts, or 3 launches, of observers and a person; or 2 uploads, or an upload and an editor, at one path | `StopIsBoundary`, `OneOwner`, `SlotsCovered`, `StopsAsPromised`, `EveryStopAnswered`, `AtMostOnce`, `RunsOnceAsPromised`, `GrantsHonoured`, `NothingLostUntold` | 288,367 |

What they show:

* `relay`: with two devices and two tokens, registrations of one device
  supersede each other in every order, and a dial is only ever answered by a carrier
  that proved the token of the dialed device. With two dials of one device, joins, declines and
  time-outs come in every order: a sender is used once, pending entries and permits come back on
  every path, and a dial that gave up is not answered later. `KeepsPromise` says that every step is
  a step of `Rendezvous` or invisible to it.
* `relay_liveness`: every task ends, serves or carries a link; a control that was
  superseded, or whose forwarder ended while it serves, leaves; no viewer asks forever.
* `automations`: whatever is removed, pushed, crashed or restarted, a running mark
  has a run, the runs of listed automations stay under the cap, the service does not start one due mark twice, and no push takes a
  start or a chained due mark back.
* `automations_takeover`: the two clocks come to run one automation at once in two ways only: the
  window went on alone (`alone`), or the service's look for windows was over when one attached
  (`late`); and what is due in a service without a window is started. Both exceptions are needed: without
  `alone`, TLC finds a window whose connection breaks behind its push: the service has the list and sees
  no window, and both start what is due; without `late`, a window that attaches, syncs and ticks
  between the service's look and its plan.
* `host_password`: through any failed write, crash and power loss a host is given the
  password activated last or none, a saved password stays loadable, a stray copy in
  the keyring is journaled, and the whole follows `HostAuthority`. However agents crash, reconnect
  and pair at once, and whatever clock and disk do, no more failed attempts count than the budget.
* `file_transfers`: every step of the agent is a step of `Publication` or invisible to it (a cancelled upload
  is never published, a sealed one never called off), an answer says what happened, no permit,
  folder, byte or wake-up is lost, also across a thread left behind by an earlier session, and
  the viewer shows as done only what is. The first half has no viewer in it: the agent keeps this
  against any peer that sends what it likes.
* `desktop`: whoever was told that a tunnel stopped finds nothing of it, whatever start, exit or restore
  it met, a tunnel that was told to stop opens nothing more and runs again only when it is over (the promise of
  `StopBoundary`), and every stop is answered; a request an observer retries runs once, which is the
  promise of `OnceLedger`, and what a person
  revoked neither waits nor is repeated; no version of a remote file is lost by two operations
  that meet, by a cancellation or by a lost answer, but it is set aside and the report says where; the two
  uploads that do not say so are named in `KeptAside`, and one of them is a finding.

### Findings

Five runs expect a violation; each checks one sentence of the repository.

* `automations_repeat`, `ServiceRunNotRepeated`: the window takes the service's
  records in before it compares marks. That raises its `lastRunAt` to the record's,
  and the marks of the service then no longer count as newer, so the window keeps its
  old due time and runs what the service already ran, against the comment at
  `useAgentAutomations.ts:197`.
* `automations_chain`, `DueMarkConsumed`: an empty mark of a chained automation means
  "never due" and "just started". The service restores the mark that the window
  consumed by starting, and the run is started again (`agentAutomations.ts:378`).
* `automations_cap`, `CapHolds`: removing an automation drops its running mark while
  its run goes on, and the cap counts marks (`automations.rs:24`). `CountedCorrect` shows that this is the
  only way past the cap: the runs of automations that are still listed keep to it.
* `host_password_vault`, `CopiesJournaled`: `VaultManager::store` restores its memory
  after a failed write, also when the file was already replaced. A later delete finds
  nothing in memory, writes nothing and answers success, and the clean-up takes the
  vault off the journal with the copy still in `vault.json` (`credentials.rs:62`). It
  remains unreachable: `OnlyCurrentLoads` holds.
* `sftp_cancelled`, `OriginalErrorKept`: an upload that replaces a file sets it aside, cannot publish
  its own and cannot put the other one back. The error of `promote_upload` says where the original is. A cancel
  issued meanwhile gets the lock of the upload first, ends it as cancelled without a detail, and the error of
  the publication is dropped (`sftp_transfers.rs:381-392`). The path is empty and nothing names the hidden
  backup, against `docs/SFTP_UPLOADS.zh-TW.md:47-48`, which says that a cancellation does not hide an
  error and that the original error is kept.

The runs of `Automations` among them have no outages: what they show needs no failure. In
`automations_repeat` the service fires after it looked and before a window attaches (`PromptDue`), so the
repetition is not the one of a window that came late.

That the two clocks never run one automation at once, as the comment at `agentAutomations.ts:304` reads ("one
that is still running is skipped rather than started twice"), does not hold of the code when a request fails
or a look is late, so no run claims it; `TakeoverClean` says how far it does hold.

### Bounds, symmetry, views

* Relay: a scenario needs a control, a dial and a carrier; a superseding control makes
  four, a second dial with a joining carrier five. `Instances` says which state is extended to the fifth
  connection: those with one device, one token, at most two controls and no connection turned away.
  `MaxConnections` is one below their number, so that refusals and full tables occur. Connections are
  interchangeable and nothing orders them, so `SYMMETRY` is sound for the safety run, and of devices and
  tokens the first one used is `d1` and `t1`; the liveness run has neither. `CHECK_DEADLOCK FALSE`: once every connection
  has been used the relay has nothing left to do.
* Automations: the clock is `1..Horizon` with a period of 1: with 2, what is due after the first period is
  started on either side, handed over, ended and followed by what is chained after it. `MaxPushes` bounds
  requests and answers under way, `MaxEdits` the person's changes, `MaxOutages` the failures and stops. `OutageMeetsRemoval` lets an outage meet
  the one change that takes a run out of the list, and no other; `PromptDue`, in one violation run, leaves the late
  looks out. The theorems hold for every value of these bounds.
  `VIEW ButHistory` drops the window's memory of past runs, which nothing reads but the two
  properties of the violation runs, and the ghosts of the takeover; `ButPast` drops that memory and `served`. Deadlock is checked: a window can
  always be opened or closed.
* HostPassword: two passwords are enough for a rotation and for a backup of either age;
  `MaxUnsynced = 2` lets a power loss choose among three versions of a file. Passwords
  are interchangeable.
* AgentSessions, in the same run: `MaxAttempts = 2` is reached with two attempts left of four, so one can
  be refused, refunded or expire and another follow. The clock has two values a window apart,
  `MaxReplaced = 1`, each agent has room for two sessions and ends with its second failed pairing, and
  `OneOnItsWay` bounds the sessions between the relay and a loop. Neither part of the run reads the
  other's state, so `MCHostPassword` lets one of them move and the other stand still. `VIEW Observed` counts
  the sessions in each place instead of naming them, and drops dates nothing reads.
* FileTransfers: one folder, so that two uploads meet in it; one permit per upload, so that a thread
  left behind takes one from the next session; queues of one message, so that they fill; two
  sessions, the later of which is there for what the other leaves behind (`LaterSession`: one upload of
  its own at most, and a link that stays; two uploads and a lost link meet in the first). `MaxBegun = 1`: the viewer begins one
  transfer, the race of two uploads is in the other half. `VIEW Observed` drops what no step and no
  property reads any more (the progress of a thread that ended, the kinds of messages no viewer
  reads). `CHECK_DEADLOCK FALSE`: after the last session nothing is left to do.
* Desktop: two runs are a start against the end of the one before, or two tunnels against the
  limit of connections. Two calls are a retry; a third prompt would only wait longer, and the
  third launch is there to find the ledger full. Two uploads of one path and one cancellation are
  every pair of writers; one unheard answer is the fault the recovery code is written for. The
  cases of `MCDesktop` say who acts, and keep apart what multiplies without meeting: the second
  tunnel starts once the first serves a connection, control is given twice and an outcome forgotten
  only where something is retried, and a person ends the sharing itself only in the case of their
  own prompts. No module reads the state of another. `sftp_cancelled` is the case of
  two uploads alone (`TwoUploads`). `CHECK_DEADLOCK FALSE`: every run, call and
  upload is used once.

### Fairness

* Relay (`Fairness`): weak fairness of each task's own steps (`Serve`) and of the end of
  an opening. Tokio runs every ready task and every timer, and a connection that says
  nothing meets its first-message timer. Small writes without a time-out of their own
  are taken to return, because they fit the socket buffer. Nothing is assumed of peers:
  what clients send, when they vanish and how long a link lasts is left open.
* Automations (`FairSpec`): the clock passes, the service's ticker looks for windows and goes on to
  `due`, and a run ends, at the latest at `RUN_DEADLINE`; its record and its end follow. Nothing is
  assumed of the window or of the person.
* Tunnels (`TunnelsFairness`): a run's own steps, the end of a transport whose socket was shut,
  its handler's drop, and a connection of a run that was told to stop. Tokio runs ready tasks,
  every stage of a start and of the clean-up has a deadline, and the select of a connection is
  biased to the stop watch. Nothing is assumed of the keyring, the SSH host, the peers or the
  person.
* The other modules have safety properties only: an operation that fails simply stops.

## Proofs

TLAPS proves the following for every value of the constants (any number of connections, devices,
automations, passwords, jobs, sessions, tunnels, calls and attempts, any cap, any chain).
Assumptions are the named `ASSUME` of each module: finite sets, positive limits, and distinct
special values (`NoneApart`: no upload is called none; `SftpConstants`: an upload, the call that cancels
it, a version and a content are told apart). No theorem bounds the number of steps, and none assumes more
than these.

| Module | Theorem | States |
|---|---|---|
| `RelayServerProofs` | `TypeCorrect` | `[]TypeOK` |
| | `ListingCorrect` | `[]ListingIsExact` |
| | `LinkCorrect` | `[]LinkedWithOwner` |
| | `PendingCorrect`, `PermitsCorrect` | `[]DialsAccounted`, `[]CarriersAccounted` |
| | `LateCorrect` | `NoLateLink` |
| | `FinalCorrect` | `Final`: a claim is never replaced, and what a dial was answered is never exchanged |
| | `PromiseCorrect` | `Spec => KeepsPromise` |
| `AutomationsProofs` | `TypeCorrect`, `MarksCorrect` | `[]TypeOK`, `[]EveryMarkHasRun` |
| | `CountedCorrect` | `[]RunsCounted`: marks have runs, and only runs of removed automations come on top of the cap |
| | `RepeatsCorrect`, `ProgressCorrect`, `DueChainCorrect` | `ServiceNeverRepeats`, `ProgressStays`, `DueChainStays` |
| | `TakeoverCorrect` | `TakeoverClean`: both clocks run one automation only after the window went on alone or on a late look |
| `HostProofs` | `TypeCorrect`, `CurrentCorrect`, `SavedCorrect`, `JournalCorrect` | the four invariants of its run |
| | `AuthorityCorrect` | `Spec => KeepsAuthority` |
| | `RevokedStays` | `[][DeadStay]_vars`: a password that was revoked or replaced is never loaded again |
| | `AgentsTypeCorrect`, `AttemptsCorrect` | `[]AgentsTypeOK`, `[]AttemptsBounded` |
| `FileJobsProofs` | `JobsTypeCorrect`, `CancelledCorrect`, `AnswersCorrect` | `[]JobsTypeOK`, `[]CancelledNotPublished`, `[]AnswersHonest` |
| | `BytesCorrect` | `[]BytesAccounted` |
| | `ResourcesCorrect`, `DrainedCorrect`, `WakeupCorrect` | `[]ResourcesOwned`, `[]DrainedClean`, `[]NoLostWakeup` |
| | `PublicationCorrect` | `JobsSpec => PublishesAsPromised`, the refinement of `Publication` |
| | `OutcomeFinal` | `[][OutcomeKept]_jobVars`: what was answered, published or counted for a job stands |
| `FileTransfersProofs` | `JobsRefined` | `Spec => JobsSpec`: with this viewer the agent does nothing it may not do with any |
| | `TypeCorrect`, `TransfersHonest` | `[]TypeOK`, and the properties of `FileJobs`, `PublishesAsPromised` among them, carried over |
| | `ShownCorrect` | `[]ShownIsReal` |
| `TunnelsProofs` | `TunnelsTypeCorrect`, `StopCorrect`, `OwnerCorrect` | `[]TunnelsTypeOK`, `[]StopIsBoundary`, `[]OneOwner` |
| | `SlotsCorrect`, `SealCorrect` | `[]SlotsCovered`, `[]SealedStops` |
| | `BoundaryKept` | `TunnelsSpec => StopsAsPromised`, the refinement of `StopBoundary` |
| | `StopFinal` | `[][StopSticks]_tunnelVars`: a stopped run is not published and opens no connection; what is over stays over |
| `McpOperationsProofs` | `OperationsTypeCorrect`, `OnceCorrect`, `GrantsCorrect` | `[]OperationsTypeOK`, `[]AtMostOnce`, `[]GrantsHonoured` |
| | `PromiseKept` | `OperationsSpec => RunsOnceAsPromised`, the refinement of `OnceLedger` |
| | `StaleNeverWritten` | `[][StaleKept]_operationVars`: what was sent under a grant that was taken back is not written under a later one |
| `SftpFilesProofs` | `FilesTypeCorrect`, `NothingLostCorrect` | `[]FilesTypeOK`, `[]NothingLostUntold` |
| | `EndFinal` | `[][EndStands]_fileVars`: a result stands, and nothing of its operation is published afterwards |

**Relay.** The invariant has four layers, each proved from the ones before. *Shape*: what
the variables hold. *Listing*: a generation is handed out once, which `ListingIsExact`
needs because a leaving task compares generations, not connections. *Channels*: what a
join that took a sender knows about its dial, and what an answer implies about both
ends; without it `LinkedWithOwner` is not preserved by `HandOver`, whose token was
checked several steps earlier. *Permits*: free permits plus live carriers make the cap;
it needs *Channels*, because a returning dial gives back the permit of the carrier it
was handed and of no other. For the refinement, *Roles* says that what a connection presented
tells its role by the time its task acts in it; `StepMaps` then has one step per relay action, which
is a step of `Rendezvous` (`Register` claims, `Dial` asks, `Join` offers, `HandOver` pairs, a returning dial
parts or gives up) or changes nothing `Rendezvous` sees of any connection (*Unseen*).

**Automations.** *Scalars*, *Copies* and *RunsPast* say that no list, in a storage or on
the wire, and no run is ahead of the clock. *Durable* says that `state.json` is the list
of the running service and that each mark served since the last push is already passed
there: that is what survives a crash. `EveryMarkHasRun` is part of the invariant. The
action properties follow from it and from what `Newer` returns (`NewerFacts`). `TakeoverCorrect` has an
invariant of its own, *Handover*, which is about windows that are not `alone` and runs that are not
`late`. What the service runs such a window knows of by the time its clock starts, or has
removed (*Known*, for the service's marks, for the answers under way and for what the window
believes: *Told*); a list under way holds all that the window still lists (*Pushed*); *Connected*, *Ready* and
*Single* tie these to the stages of the window. A window that hears the service's answer is no longer
alone, because the answer names what runs there; one that lost its connection is, because a service
without a window starts what it likes.

`CountedCorrect` is about every window. *Bounded* says that there are no more marks than the cap. *Counted*
adds that each run of the service has a mark or an automation that was removed (*Covered*), and that no automation
has two runs there (*Single*); mapping runs to marks then bounds them. *Covered* survives a push only
because a list on its way holds all the window still lists (*Pushed*), and *Single* survives a start only
because of *Covered*: the service looks at marks, not at runs. A stopped service has no runs and no marks, so
its restarts cost nothing.

**HostPassword.** What can be loaded after the next power loss depends on files no reader
sees, so the invariant speaks of all of them. *Secrets*: whichever marker may come back,
the store it names holds nothing but the current password. *Saving*, *Written*, *Following*
and *Restoring* say what each operation has made sure of by its next step: that nothing is
marked and nothing unsynced while a password is written, that a clean-up's draft keeps the
marker, that a rollback brings back what was there. *Journal* extends `KeyringJournaled` to
every journal that may be read or written. *Kept* is `SavedStays` for every file. The
refinement has one lemma per kind of step, over `Begin`, `Commit`, `Abandon`, `Revoke`,
`Waver` and `Try` of `HostAuthority`; `RevokedStays` then needs the six actions of `HostAuthority` and
no more of the stores.

**Pairing attempts.** *Budget* is about every content the file has or may have again after a power
loss: each holds all attempts that count and at most as many as the budget. That is why a refund
or a reservation that was replaced but not synced does no harm. *Tried* ties it to the
sessions: whoever is asked for the password was charged. Cardinalities go through
`FiniteSetTheorems`.

**File jobs.** *Controls* relates where a thread is to the state of its job, *Answers* what it will say
to what it did, *Files* its staging file to its folder, and *Counts* says that the permits and the
threads that hold one make up the limit and that `inFlight` counts the registrations of the session.
*Counts* needs *Sessions*, because a thread left behind must not be counted twice. For the quota, `Bytes`
is a function over the sets of uploads that takes one element after the other; that it is defined on
every finite set, and that adding or removing one upload adds or removes its size, is proved
from the smallest set for which it would fail (well-foundedness of strict inclusion, without an
induction theorem). *CountedLast*: counting is the last thing
the thread of an upload does before it answers, so an upload that is counted is not counted again.

For `Publication` three more facts are inductive: *Admitted* (a command under way belongs to a job that was begun),
*Decided* (how far a control is, how far its thread, and that a published upload answers `Complete`) and *Homed* (a
folder is reserved for an upload into it). `StepPublishes` has one step per action of the code: it is the step of
`Publication` it looks like, or leaves the three variables alone (`Unseen`, `UnseenThread`, `UnseenDownload`); a
cancellation calls off one upload (`CancelMaps`), the end of a session all that are still open.

**What the window shows.** Three facts about a transfer are carried from one end to the other: it is
*Known* from its begin on, once its entry is *Gone* it stays gone, and who waits for the end of an
upload is registered as *Finishing* as long as the entry is there. *OnTheWay* says which of them each
request, command and message under way implies, *AskedFor* the same of the agent's threads and *Viewed* of
the window's commands. `ShownCorrect` combines them with the agent's invariant, which holds by `JobsRefined`.

**Tunnels.** *Listing* says what a run in each phase is listed as; *Listeners*, *Transports*, *Permits* and
*Connections* what it owns there; *Stops*, *Restores* and *Completions* that a run past its sealing has its
stop set, that nothing runs during a restore, and that a completion comes last.
`StopIsBoundary` follows from *Completions* and from what a run that is over owns.
`StopFinal` looks at the guards of the steps and needs no more than the types.

`BoundaryKept` adds that whoever is about to announce an end was told to stop (*Settling*), that a connection not yet
let in came to a published run (*Arrived*), and that the leases keep to both limits (*Capped*, which the
second look at the stop watch needs when it turns a lease into an open connection). Its lemmas follow the actions
of `StopBoundary`, from `BeginMaps` to `EndMaps`; `StepKeeps` assigns each step of the code to one of them.

**Operations.** *Queued*, *WrittenOnce* and *Carried* follow a prompt, *Ledger*, *Unique* and *Heard* the operations,
*Fresh*, *Apart* and *Agree* the grants of a session between the steps of a change, and *Holding*, *Counting* and
*Limit* the launches. `AtMostOnce` follows from the first two groups: *Unique* holds because `Reserve` looks
the request up again, and outcomes are never dropped before their retention. `StaleNeverWritten` rests on
epochs that only grow (`EpochGrows`): a later grant never has the number of an earlier one.

What `PromiseKept` adds to the invariant: what is *Forgotten* by the ledger has an outcome; a call has
*Settled* when its prompt is (a prompt was sent by a call that runs, and none that failed is on its way); a launch
that is over without success *LeavesNone* of its sessions alive. `Waits` carries, besides the id, that the operations
are equal, without which a retry could hear the result of another request. One lemma per group of actions
(`LookKeeps`, `RetryKeeps`, `PromptKeeps`, `FailureKeeps`) and `Unseen`, for all that touch none of it, make up
`StepKeeps`.

**SFTP.** The invariant says of each place of an operation at work what the server has of its private
file (*Private*), where the version it set aside is (*Aside*, *AsSeen*), and that it holds the lock of
the upload and the gate of the path meanwhile (*InCharge*). What is set aside is *Reported* once nobody works on
it, and that includes the two uploads that say nothing; that only a cancel can have silenced one is in *Shown*.
`NothingLostUntold` is *Honest*, about the
operation's own version, and *Somewhere*, about everybody else's: *Somewhere* survives a step only because
*InCharge* leaves no second writer at the path, and *AsSeen* is what the code's comparison before
the rename is for. `EndFinal` needs *Shown*: whoever publishes holds the lock of an upload that is still shown
as running, so nobody else can have ended it.

**Model-checked only.** Liveness (`EveryTaskSettles`, `SupersededLeaves`, `KeepsPromiseInTime`,
`DueRuns`, `EveryStopAnswered`): fairness and ENABLED are out of the prover's reach.
No invariant, action property or refinement of a passing run is without a proof. The types of the three modules of
`MCDesktop` are theorems (`TunnelsTypeCorrect`, `OperationsTypeCorrect`, `FilesTypeCorrect`), and so are
`SealedStops` and `CancelledNotPublished`, which the promises of `StopBoundary` and `Publication` contain;
`desktop` and `file_transfers` do not check them again. `EveryStopAnswered` reads as "each stop is answered" because
its two sets only grow, which is part of `StopFinal`. The action properties `Final`, `DeadStay`, `OutcomeKept`,
`StopSticks`, `StaleKept` and `EndStands` are stated in the proof modules and checked by no run.
The properties of the violation runs are false.

## Not modelled

* Relay: the rate limiter's window, the claim registry's file (its outcome is in), the bytes
  of a linked pair, and a write that never returns on a connection without a write limit.
* Automations: prompts, targets and the chat a run streams into; daily schedules, which
  differ from a period in the time they compute; failed writes of `state.json`; the fifty-run
  limit of the remembered history; a second window (the application runs once).
* HostPassword: the binding to a device id, the sharing agent, which keeps the password it was
  started with, the credentials of ordinary connections, a keyring call that fails after it took
  effect, and the status a window shows after a visible but unsynced revocation.
* AgentSessions and PairingLimit: the Unix build; collisions of tickets, the checks of the file's path, and
  what a session carries (capture, the input floor, terminals, commands). `AttemptsBounded` counts by the
  dates in the file. A process that is held up between reading the clock and taking the lock writes an
  old date, so in real time its attempt expires early and one more may follow than
  `docs/PAIRING_PASSWORD.zh-TW.md:86` says.
* FileTransfers: sessions run one after the other, with threads left behind, although the code allows
  eight at a time; a file is one chunk; listings, text reads and text saves take the same admission,
  control and answers and have no actions of their own. `finish_transfer` (`remote_files.rs:706`) sets "done" over
  "cancelled" although the comment at 745 speaks of preserving what the person did; the file is in
  its place then, so `ShownIsReal` holds. A transfer begun while its client closes stays listed as running in a
  client nobody lists any more.
* Tunnels: byte counters, errors, SOCKS and the traffic of a connection; the polite cancel and
  disconnect with their time-outs, which are part of `Drained`; a keyring job that panics; two runs of one
  listener's operating-system port.
* PromptQueue and McpOperations: the order of the queue (it is a set), except that an undelivered prompt
  blocks what is behind it; chains and the limit of active sessions, which are a choice to wait; the limit
  per client, the cancel operation, folder authorisation, project launches and the startup seed; panics.
  Killing a process is taken to succeed.
* SftpFiles: downloads, and the user's own deletes and renames, which are what `Outsider` does. A version is
  content with size, time and permissions; changes that keep all of them are not told apart, as
  `docs/SFTP_UPLOADS.zh-TW.md` says, and no protocol over SFTP protects a file that somebody else changes
  between an upload's comparison and its rename, so `Outsider` does not act there. An upload takes a lost answer
  to its first rename for a refusal and names no backup, unlike the editor (`sftp_text.rs:397`):
  `KeptAside` admits that case, beside the one of the finding, and says so. The fairness of the lock between a
  cancel and the publisher is left open (either may be first). An upload whose creation was carried out unheard leaves a staging
  file nobody names.
* The other components: `PROJECT.json` gives each one's reason. Most of the repository by size is the
  frontend, third-party protocol engines, the recognition of other programs' screens and formats; what is
  modelled is the part whose order of steps matters.

## Plan

Done: the relay, automations, the host password, pairing and agent sessions, file jobs with their viewer,
tunnels, prompts and operations, uploads and saves over SFTP, and the proofs listed above. Left, in this order:

1. `RelayRegistry`: the claims file, with failed saves and crashes between staging and rename; and the rate
   limiter's window as a pure module.
2. Downloads over SFTP and over a remote session to one local folder.
3. Device pins (trust on first use of a peer's key) and the daemon's audit log with its rotation.
4. The remote host's life cycle: start, stop and supervision of the sharing agent as a child process, which
   composes `HostPassword` with `AgentSessions`.
