------------------------------ MODULE MCIpFrag ------------------------------
(***************************************************************************)
(* Small sets of datagrams for IpFrag.                                     *)
(***************************************************************************)
EXTENDS IpFrag

\* Two datagrams on the way at once, cut by a link of two units
TwoDatagrams == <<5, 3>>

\* A fragment of four units and one of three, cut again by a link of two
LongDatagram == <<7>>
=============================================================================
