------------------------------- MODULE MCShell ------------------------------
(* Addresses of Width bits; loopback is the upper half of them.            *)
EXTENDS Shell

MCLoopback == [net |-> 2^(Width - 1), len |-> 1]
MCTargets == {[ip |-> 0, bits |-> 0], [ip |-> 2^(Width - 1), bits |-> 1]}
MCDevices == {[ip |-> 0, bits |-> 1]}
=============================================================================
