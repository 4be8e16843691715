-------------------------- MODULE MCFileTransfers --------------------------
\* Instances of FileTransfers for TLC.  Any peer that is allowed to write may send
\* the agent anything: one half of the run lets it, with two uploads to one folder;
\* the other half puts the client of this repository there, with a transfer of
\* either kind.
EXTENDS FileTransfers, TLC

CONSTANTS up1, up2, down, docs

TwoUploads  == {up1, up2}
OneDownload == {down}
OneFolder   == {docs}
SameFolder  == [t \in TwoUploads |-> docs]
OneByte     == [t \in TwoUploads |-> 1]

VARIABLE anyViewer

MCInit == Init /\ anyViewer \in BOOLEAN

\* The second session is there to meet what the first one left behind: it has one upload
\* of its own at most, and keeps its link.
LaterSession ==
    /\ {t \in Uploads : sessionOf'[t] = MaxSessions} # Uploads
    /\ session' = MaxSessions /\ ~linked' => receiver' \in {"drained", "abandoned"}

MCNext ==
    \/ /\ anyViewer
       /\ JobsNext
       /\ worker'[down] = "none"
       /\ LaterSession
       /\ UNCHANGED <<viewerVars, anyViewer>>
    \/ /\ ~anyViewer
       /\ Next
       /\ UNCHANGED anyViewer

MCSpec == MCInit /\ [][MCNext]_<<vars, anyViewer>>

\* Nothing orders the uploads.
Symmetry == Permutations(TwoUploads)

\* What no step and no property reads: the progress of a thread that is gone, a
\* failure or a stored wake-up after the loop that waits for it, and, where no
\* viewer reads them, the messages of the queue (but not their number).
Thread(t) ==
    IF worker[t] \in {"none", "gone"} THEN "none"
    ELSE <<control[t], progress[t], IF t \in Uploads THEN commands[t] ELSE <<>> >>

Observed ==
    <<anyViewer, viewerVars, session, receiver, feeding, linked, registryVars, inFlight,
      failed /\ receiver = "open",
      settled /\ receiver \in {"open", "draining", "waiting"},
      IF anyViewer THEN Len(outgoing) ELSE outgoing,
      worker, sessionOf, signalled, answer, permits, targets, staged, published,
      [t \in Ops |-> Thread(t)]>>
=============================================================================
