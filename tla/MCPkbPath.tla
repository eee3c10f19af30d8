----------------------------- MODULE MCPkbPath -----------------------------
(* Small sets of packets for PkbPath *)
EXTENDS PkbPath

Ip(kinds, tos, links, frags) == [kind : kinds, to : tos, link : links, frag : frags]
Arp == [kind : {"arp request", "arp reply"}, to : {"me"}, link : {"local", "other", "multi"},
        frag : {"whole"}]

\* Every kind of frame from the wire, to us, to forward and without a route
MCAllArrivals ==
    Arp \cup Ip({"echo", "icmp error", "tcp", "rst", "other"}, {"me"}, {"local"}, {"whole"})
        \cup Ip({"udp"}, Hosts, {"local", "multi"}, {"whole"})
        \cup Ip({"icmp error"}, {"peer"}, {"local"}, {"whole"})
        \cup Ip({"udp"}, {"me"}, {"local"}, {"first", "later"})
MCRarp == Ip({"rarp"}, {"me"}, {"multi"}, {"whole"})
MCAllFrames == MCAllArrivals \cup MCRarp
\* What sockets send to this host, and one packet to another
MCLocalSends == [kind : {"udp", "echo"}, to : {"me"}] \cup [kind : {"tcp"}, to : {"peer", "nowhere"}]
=============================================================================
