----------------------------- MODULE MCTcpRecv -----------------------------
(***************************************************************************)
(* Small streams for TcpRecv: which segments the peer and the network may  *)
(* produce.                                                                *)
(***************************************************************************)
EXTENDS TcpRecv

CONSTANTS
    N,          \* bytes of the peer's stream
    EmptyPush,  \* the peer may send PSH without text
    Fins,       \* the peer ends its stream
    Resets,     \* the peer may reset
    Cuts        \* where the segments of the stream may begin and end

\* Slices of the stream; the last byte is pushed, others may be
Slices == {g \in [seq : 0..N, len : 0..N, psh : BOOLEAN, fin : {FALSE}, rst : {FALSE}] :
             /\ {g.seq, g.seq + g.len} \subseteq Cuts
             /\ g.len = 0 => g.psh /\ EmptyPush /\ g.seq < N
             /\ g.len > 0 /\ g.seq + g.len = N => g.psh}

\* The FIN follows the last byte, alone or with text before it
FinSlices == {[seq |-> N - n, len |-> n, psh |-> n > 0, fin |-> TRUE, rst |-> FALSE] :
                n \in IF Fins THEN {N - s : s \in Cuts} ELSE {}}

Rsts == {[seq |-> s, len |-> 0, psh |-> FALSE, fin |-> FALSE, rst |-> TRUE] :
           s \in IF Resets THEN 0..N ELSE {}}

\* A peer that never sends a byte in two different segments
DisjointSegs == Rsts \cup {g \in Slices \cup FinSlices :
                            \A s \in Cuts : ~(g.seq < s /\ s < End(g))}

AllSegs == Slices \cup FinSlices \cup Rsts
=============================================================================
