-------------------------- MODULE RelayRendezvous --------------------------
(***************************************************************************)
(* RelayServer implements Rendezvous.  A connection that named a device    *)
(* without presenting a token is a viewer; one that took the sender of a   *)
(* channel is a carrier; a control connection takes part in neither role.  *)
(* A viewer counts as paired from the moment a carrier is handed to it,    *)
(* before either side has read Linked.                                     *)
(***************************************************************************)
EXTENDS RelayServer

IsViewer(c)  == device[c] # None /\ token[c] = None
IsCarrier(c) == token[c] # None /\ target[c] # None

ViewerStage(c) ==
    IF phase[c] = "closed" THEN "over"
    ELSE IF answer[c] \in Conns THEN "paired" ELSE "asking"

CarrierStage(c) ==
    CASE phase[c] = "closed"  -> "over"
      [] phase[c] = "handed"  -> "paired"
      [] OTHER                -> "offering"

StageOf(c) ==
    CASE IsViewer(c)  -> ViewerStage(c)
      [] IsCarrier(c) -> CarrierStage(c)
      [] OTHER        -> "idle"

R == INSTANCE Rendezvous WITH
    Clients <- Conns,
    claim   <- tokens,
    stage   <- [c \in Conns |-> StageOf(c)],
    wanted  <- [c \in Conns |-> IF IsViewer(c) \/ IsCarrier(c) THEN device[c] ELSE None],
    shown   <- [c \in Conns |-> IF IsCarrier(c) THEN token[c] ELSE None],
    partner <- [c \in Conns |-> IF answer[c] \in Conns THEN answer[c] ELSE None]

\* The relay keeps the promise of Rendezvous: every step of its tasks is a step
\* of the abstract specification or invisible to it (run_connection, run_dial).
KeepsPromise == R!SafeSpec

\* ... and no viewer is left asking, no carrier left offering itself.
KeepsPromiseInTime == R!Spec
=============================================================================
