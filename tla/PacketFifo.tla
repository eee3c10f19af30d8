----------------------------- MODULE PacketFifo -----------------------------
(***************************************************************************)
(* What one direction of the shared memory interface promises: a lossless  *)
(* first-in first-out queue from the moment a write has succeeded.         *)
(***************************************************************************)
EXTENDS Sequences

CONSTANT Packets

VARIABLES queue, delivered

Init == queue = <<>> /\ delivered = <<>>

Write(p) == queue' = Append(queue, p) /\ UNCHANGED delivered

Deliver ==
    /\ queue # <<>>
    /\ delivered' = Append(delivered, Head(queue))
    /\ queue' = Tail(queue)

Next == (\E p \in Packets : Write(p)) \/ Deliver

Spec == Init /\ [][Next]_<<queue, delivered>>
=============================================================================
