----------------------------- MODULE MCDesktop -----------------------------
\* Instances of Tunnels, of McpOperations and of SftpFiles for TLC, side by side: none
\* reads the state of another.  A case says who acts; the rest stands still.
EXTENDS Tunnels, McpOperations, SftpFiles, TLC

CONSTANTS r1, r2, r3, local, remote, c1, c2,
          s1, s2, s3, s4, s5, first, again, now, person, l1, l2, l3, reused,
          dropped, other, fresh, text

ThreeRuns  == {r1, r2, r3}
TwoTunnels == {local, remote}
OneRemote  == {remote}
TunnelOf   == r1 :> local @@ r2 :> local @@ r3 :> remote
TwoConns   == {c1, c2}
RunOf      == c1 :> r1 @@ c2 :> r3

FiveSessions  == {s1, s2, s3, s4, s5}
FourPrompts   == {first, again, now, person}
OnePerson     == {person}
OneImmediate  == {now}
FourLaunches  == {l1, l2, l3, reused}
SessionOf     == l1 :> s2 @@ l2 :> s3 @@ l3 :> s4 @@ reused :> s5 @@ [p \in FourPrompts |-> s1]
\* One prompt is a retry of another, and one launch reuses an id for something else.
RequestId     == again :> first @@ reused :> l1 @@ [c \in {first, now, l1, l2, l3} |-> c]
Operation     == reused :> reused @@ RequestId

ThreeUploads == {dropped, other, fresh}
OneDropped   == {dropped}
TwoOverwrite == {dropped, other}
OneSave      == {text}

VARIABLE case

\* Who calls the daemon, enqueues a prompt, uploads or saves in each case.
Acting ==
    [retries |-> {first, again}, people |-> {first, person}, immediate |-> {now, person},
     launches |-> {l1, l2, l3}, mistakes |-> {l1, reused}, tunnels |-> {},
     uploads |-> {dropped, other}, appears |-> {dropped, fresh}, edits |-> {dropped, text}]

FileCases == {"uploads", "appears", "edits"}

MCInit ==
    /\ TunnelsInit /\ OperationsInit /\ FilesInit
    /\ case \in DOMAIN Acting
    /\ alive = IF Acting[case] \cap Prompts = {} THEN {} ELSE {s1}
    /\ alive # {} => plans
    /\ case \notin FileCases => target = NoFile
    /\ \A s \in Sessions \ alive : cli[s] = "free"

\* Two of the three runs begin: the second start of a tunnel follows the first, and the
\* start of the other tunnel meets one that serves a connection.
TunnelsCase ==
    /\ case = "tunnels"
    /\ TunnelsNext
    /\ Cardinality({r \in Runs : phase'[r] # "idle"}) <= 2
    /\ phase'[r2] # "idle" => phase'[r1] # "idle"
    /\ phase[r3] = "idle" /\ phase'[r3] # "idle" => conn[c1] = "open"
    /\ UNCHANGED <<operationVars, fileVars>>

\* A launched session is left to its launch, and its terminal stands still.  The person
\* types, and takes the sharing back with the control, in one case; where something is
\* retried control is given a second time and an outcome may be forgotten.  The third
\* launch is there to find the ledger full.
OperationsCase ==
    /\ case \notin FileCases \cup {"tunnels"}
    /\ OperationsNext
    /\ \A p \in Prompts \ Acting[case] : at'[p] = "idle"
    /\ \A c \in Calls \ Acting[case] : step'[c] = "idle"
    /\ \A s \in Sessions \ {s1} : changing'[s] \in {"no", "launching"} /\ cli'[s] = "free"
    /\ changing'[s1] # (IF case = "people" THEN "revoking" ELSE "unsharing")
    /\ case \in {"people", "immediate"} => epoch'[s1] <= 2 /\ expired' = {}
    /\ draft' \subseteq (IF case = "people" THEN {s1} ELSE {})
    /\ Acting[case] \cap Prompts # {} => generation' = generation
    /\ step'[l3] # "idle" => step'[l2] # "idle"
    /\ step'[l3] # "running"
    /\ UNCHANGED <<tunnelVars, fileVars>>

\* Two uploads race and one is cancelled in one case; another program meets them, and an
\* editor, in the others.
FilesCase ==
    /\ case \in FileCases
    /\ FilesNext
    /\ \A o \in Operations \ Acting[case] : work'[o] = "idle"
    /\ case = "uploads" => "foreign" \notin placed' /\ outside' = {}
    /\ Cardinality({u \in Uploads : work'[Cancels(u)] # "idle"}) <= 1
    /\ case # "uploads" => flagged' \subseteq {u \in Uploads : transfer'[u] # "running"}
    /\ UNCHANGED <<tunnelVars, operationVars>>

\* The instance of one run is the case of two uploads alone.
TwoUploads == case = "uploads"

MCNext == (TunnelsCase \/ OperationsCase \/ FilesCase) /\ UNCHANGED case

MCSpec ==
    MCInit /\ [][MCNext]_<<tunnelVars, operationVars, fileVars, case>> /\ TunnelsFairness
=============================================================================
