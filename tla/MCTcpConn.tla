----------------------------- MODULE MCTcpConn -----------------------------
(***************************************************************************)
(* What happens in the small instances of TcpConn.                         *)
(***************************************************************************)
EXTENDS TcpConn

MkPlan(cli, srv, close, faults, local) ==
    [text |-> [x \in Ends |-> IF x = "cli" THEN cli ELSE srv], close |-> close,
     faults |-> faults, local |-> local]

(***************************************************************************)
(* Text both ways and both close; more text than the window, both close;   *)
(* a fault of the network while one end writes, or before any text, and    *)
(* both close; a fault among several segments of text; a local connection. *)
(***************************************************************************)
RemotePlans == {MkPlan(1, 1, Ends, 0, FALSE), MkPlan(3, 0, Ends, 0, FALSE),
                MkPlan(1, 0, Ends, 1, FALSE), MkPlan(0, 1, Ends, 1, FALSE),
                MkPlan(2, 1, {}, 1, FALSE), MkPlan(2, 0, {}, 2, FALSE)}
LocalPlans == {MkPlan(1, 1, Ends, 0, TRUE)}
AllPlans == RemotePlans \cup LocalPlans
=============================================================================
