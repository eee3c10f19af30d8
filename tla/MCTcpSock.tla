----------------------------- MODULE MCTcpSock -----------------------------
(***************************************************************************)
(* TcpSock for TLC: the socket structures and the peers are interchangeable*)
(* (no operator of TcpSock chooses one of them).                           *)
(***************************************************************************)
EXTENDS TcpSock, TLC

Symmetry == Permutations(Socks) \cup Permutations(Peers \ NoRoute)
=============================================================================
