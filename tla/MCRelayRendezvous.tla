------------------------- MODULE MCRelayRendezvous -------------------------
\* Instances of RelayRendezvous for TLC.
EXTENDS RelayRendezvous, TLC

CONSTANTS c1, c2, c3, c4, c5, d1, d2, t1, t2

ThreeConns == {c1, c2, c3}
FiveConns  == {c1, c2, c3, c4, c5}
TwoDevices == {d1, d2}
TwoTokens  == {t1, t2}
OneDevice  == {d1}

\* Connections are interchangeable: nothing orders them.
Symmetry == Permutations(FiveConns)

\* So are devices and tokens: the first one used is the first of its kind.  The fifth
\* connection is there for two dials of one device, their carriers and its control, or two
\* that follow each other: it does not come where two devices, or a device and somebody
\* else's token, are at work, nor where a connection was turned away at its first message.
Instances ==
    LET claimed  == {d \in Devices : tokens[d] # None}
        used     == {token[c] : c \in Conns} \ {None}
        controls == {c \in Conns : token[c] # None /\ target[c] = None}
        away     == {c \in Conns : device[c] = None /\ phase[c] \in {"refusing", "closed"}} IN
    /\ claimed # {} => d1 \in claimed
    /\ used # {} => tokens[d1] = t1
    /\ Cardinality(claimed) > 1 \/ Cardinality(used) > 1 \/ Cardinality(controls) > 2
          \/ away # {}
       => \E c \in Conns : phase[c] = "unopened"
=============================================================================
