------------------------------ MODULE PkbPath ------------------------------
(***************************************************************************)
(* Who owns a packet buffer (struct pkbuf) on its way through the stack.   *)
(* A handler consumes the reference it is called with: it frees it, puts   *)
(* the buffer on a list, or passes it on.  The loopback device delivers a  *)
(* packet inside the call that sends it, so handlers nest; `stack` is the  *)
(* C call stack of the thread inside the stack, top first.  A frame names  *)
(* the function that runs next and its buffer.                             *)
(*                                                                         *)
(* What handlers read from a packet (lengths, checksums, lookups) is a     *)
(* choice, except for what this module's properties depend on.  How the    *)
(* handlers of several threads interleave is the subject of RecvQueue,     *)
(* ArpCache and IpFrag; here one runs at a time, next to applications that *)
(* take packets off lists.                                                 *)
(***************************************************************************)
EXTENDS Integers, Sequences, FiniteSets, Functions

CONSTANTS
    Pkbs,        \* packet buffers; a bound on alloc_pkbs - free_pkbs
    Arrivals,    \* packets a device receives: kind, to, link, frag
    Sends,       \* packets a socket sends: kind, to
    HeaderSize,  \* sizeof(struct pkbuf)
    Length       \* pk_len of every packet

Kinds == {"arp request", "arp reply", "rarp", "echo", "icmp error", "icmp info",
          "udp", "tcp", "rst", "other"}
IpKinds == Kinds \ {"arp request", "arp reply", "rarp"}
Hosts == {"me", "peer", "nowhere"}
Lists == {"arp", "frag", "udp", "raw", "tcp"}

ASSUME PkbsAssumption == IsFiniteSet(Pkbs)
ASSUME SizesAssumption == HeaderSize \in Nat \ {0} /\ Length \in Nat \ {0}
ASSUME InputsAssumption ==
    /\ Arrivals \subseteq [kind : Kinds, to : Hosts, link : {"local", "other", "multi"},
                           frag : {"whole", "first", "later"}]
    /\ Sends \subseteq [kind : IpKinds, to : Hosts]

VARIABLES
    heap,        \* each buffer: its references and what the handlers read in it
    lists,       \* the buffers on each list: ae_list, frag_pkb, recv_queue, rcv_reass
    arp,         \* the ARP entry of the peer
    stack

vars == <<heap, lists, arp, stack>>

Unused == [ref |-> 0, kind |-> "other", from |-> "me", to |-> "nowhere", order |-> "net",
           link |-> "none", type |-> "none", frag |-> "whole", rt |-> "none", room |-> 0,
           lost |-> FALSE]   \* history: the handler returned and left it allocated

Calls == {"net_in", "arp_in", "ip_in", "ip_recv_route", "ip_recv_local", "raw_in",
          "icmp_in", "udp_in", "tcp_in", "icmp_send", "ip_forward", "forward_dev",
          "tcp_send_out", "ip_send_out", "ip_send_frag", "send_last_frag",
          "ip_send_dev", "netdev_tx", "free_pkb", "delete_frag"}
Frame == [at : Calls, p : Pkbs]

Buffer == [ref : Nat, kind : Kinds, from : Hosts, to : Hosts, order : {"net", "host"},
           link : {"none", "local", "other", "multi"},
           type : {"none", "local", "other", "multi"}, frag : {"whole", "first", "later"},
           rt : {"none", "lo", "eth"}, room : {0, Length, Length - HeaderSize}, lost : BOOLEAN]

Init ==
    /\ heap = [p \in Pkbs |-> Unused]
    /\ lists = [l \in Lists |-> {}]
    /\ arp = "none"
    /\ stack = <<>>

-----------------------------------------------------------------------------
(* Calls and buffers *)

Fr(at, p) == [at |-> at, p |-> p]
In(at) == stack # <<>> /\ Head(stack).at = at
P == Head(stack).p
Call(frames) == stack' = frames \o Tail(stack)

\* ip_hton() and ip_ntoh() swap the same bytes
Swapped(order) == IF order = "net" THEN "host" ELSE "net"

HasRoom == \E q \in Pkbs : heap[q].ref = 0
alloc_pkb == CHOOSE q \in Pkbs : heap[q].ref = 0

New(kind, from, to) == [Unused EXCEPT !.ref = 1, !.kind = kind, !.from = from, !.to = to,
                                      !.room = Length]

Released(b) == IF b.ref = 1 THEN Unused ELSE [b EXCEPT !.ref = @ - 1]

\* free_pkb() of every buffer of S
Freed(S) == [p \in Pkbs |-> IF p \in S THEN Released(heap[p]) ELSE heap[p]]

Drop == Call(<<Fr("free_pkb", P)>>) /\ UNCHANGED <<heap, lists, arp>>
PassTo(at) == Call(<<Fr(at, P)>>) /\ UNCHANGED <<lists, arp>>

free_pkb ==
    /\ In("free_pkb")
    /\ heap' = Freed({P})
    /\ Call(<<>>)
    /\ UNCHANGED <<lists, arp>>

\* rt_lookup(): the loopback route, the route to the peer's network, or none
rt_lookup(to) == CASE to = "me" -> "lo" [] to = "peer" -> "eth" [] OTHER -> "none"

-----------------------------------------------------------------------------
(* Link layer *)

net_in ==
    /\ In("net_in")
    /\ \/ Drop                                           \* too small, or unknown type
       \/ /\ heap' = [heap EXCEPT ![P].type = heap[P].link, ![P].lost = heap[P].kind = "rarp"]
          /\ UNCHANGED <<lists, arp>>
          /\ Call(CASE heap[P].kind = "rarp" -> <<>>
                    [] heap[P].kind \in IpKinds -> <<Fr("ip_in", P)>>
                    [] OTHER -> <<Fr("arp_in", P)>>)

\* The packets that wait for the peer's address, as calls of netdev_tx()
Waiting == {[i \in DOMAIN s |-> Fr("netdev_tx", s[i])] :
            s \in Bijection(1..Cardinality(lists["arp"]), lists["arp"])}

\* arp_recv() of a packet for us: learn the address, flush the queue, reply
arp_recv ==
    /\ \/ arp' = (IF arp = "none" /\ heap[P].kind = "arp reply" THEN "none" ELSE "resolved")
       \/ arp = "none" /\ arp' = "none"                  \* arp_insert() finds no room
    /\ lists' = [lists EXCEPT !["arp"] = IF arp = "waiting" THEN {} ELSE @]
    /\ \E flush \in IF arp = "waiting" THEN Waiting ELSE {<<>>} :
       IF heap[P].kind = "arp request"
       THEN /\ heap' = [heap EXCEPT ![P].kind = "arp reply"]
            /\ Call(flush \o <<Fr("netdev_tx", P)>>)
       ELSE /\ Call(flush \o <<Fr("free_pkb", P)>>)
            /\ UNCHANGED heap

arp_in ==
    /\ In("arp_in")
    /\ \/ Drop                                           \* malformed, or not for us
       \/ heap[P].type # "other" /\ arp_recv

loop_xmit_unreferenced(p) == [heap EXCEPT ![p].link = "local"]
\* loop_xmit() takes a reference for the receive path
loop_xmit(p) == [heap EXCEPT ![p].link = "local", ![p].ref = @ + 1]

\* Buffers without a route are ARP packets and leave by the wire
netdev_tx ==
    /\ In("netdev_tx")
    /\ IF heap[P].rt = "lo"
       THEN heap' = loop_xmit(P) /\ Call(<<Fr("net_in", P), Fr("free_pkb", P)>>)
       ELSE heap' = heap /\ Call(<<Fr("free_pkb", P)>>)
    /\ UNCHANGED <<lists, arp>>

-----------------------------------------------------------------------------
(* Network layer, input *)

\* Every check comes before ip_ntoh() but the one of the sizes
ip_in ==
    /\ In("ip_in")
    /\ \/ Drop
       \/ /\ heap[P].type # "other"
          /\ heap' = [heap EXCEPT ![P].order = Swapped(@)]
          /\ \/ PassTo("free_pkb")
             \/ PassTo("ip_recv_route")

IcmpThen(next) == Call(<<Fr("icmp_send", P), Fr(next, P)>>) /\ UNCHANGED <<lists, arp>>

ip_recv_route_host ==
    LET rt == rt_lookup(heap[P].to) IN
    /\ In("ip_recv_route")
    /\ heap' = [heap EXCEPT ![P].rt = rt]
    /\ CASE rt = "none" -> IcmpThen("free_pkb")
         [] rt = "lo"   -> PassTo("ip_recv_local")
         [] OTHER       -> PassTo("ip_forward")
\* With rt_input(); what leaves again is put back into network order
ip_recv_route ==
    LET rt == rt_lookup(heap[P].to) IN
    /\ In("ip_recv_route")
    /\ heap' = [heap EXCEPT ![P].rt = rt, ![P].order = IF rt = "lo" THEN @ ELSE Swapped(@)]
    /\ CASE rt = "none" -> IcmpThen("free_pkb")
         [] rt = "lo"   -> PassTo("ip_recv_local")
         [] OTHER       -> PassTo("ip_forward")

\* The fragments on the list are of the datagram of b; one is reassembled at a time
SameDatagram(b) == \A f \in lists["frag"] : heap[f].kind = b.kind /\ heap[f].from = b.from

\* ip_reass(): the fragment is refused, kept, or the last one that was missing
ip_reass ==
    \/ Drop
    \/ /\ SameDatagram(heap[P])
       /\ lists' = [lists EXCEPT !["frag"] = @ \cup {P}]
       /\ Call(<<>>)
       /\ UNCHANGED <<heap, arp>>
    \/ LET used == lists["frag"] \cup {P}
           q == alloc_pkb
       IN  /\ lists["frag"] # {} /\ SameDatagram(heap[P])
           /\ lists' = [lists EXCEPT !["frag"] = {}]
           /\ \/ /\ HasRoom
                 /\ heap' = [Freed(used) EXCEPT ![q] =
                       [New(heap[P].kind, heap[P].from, heap[P].to) EXCEPT !.order = "host"]]
                 /\ Call(<<Fr("raw_in", q)>>)
              \/ heap' = Freed(used) /\ Call(<<>>)       \* more than 65535 bytes
           /\ UNCHANGED arp

ip_recv_local ==
    /\ In("ip_recv_local")
    /\ IF heap[P].frag = "whole" THEN PassTo("raw_in") /\ UNCHANGED heap ELSE ip_reass

Upper(kind) == CASE kind \in {"echo", "icmp error", "icmp info"} -> "icmp_in"
                 [] kind \in {"tcp", "rst"} -> "tcp_in"
                 [] kind = "udp" -> "udp_in"
                 [] OTHER -> "free_pkb"

raw_in_shared ==
    /\ In("raw_in")
    /\ Call(<<Fr(Upper(heap[P].kind), P)>>)
    /\ UNCHANGED arp
    /\ \/ UNCHANGED <<heap, lists>>
       \/ /\ heap' = [heap EXCEPT ![P].ref = @ + 1]
          /\ lists' = [lists EXCEPT !["raw"] = @ \cup {P}]
\* A matching raw socket gets a copy; copy_pkb() allocates pk_len bytes in all
raw_in ==
    /\ In("raw_in")
    /\ Call(<<Fr(Upper(heap[P].kind), P)>>)
    /\ UNCHANGED arp
    /\ \/ UNCHANGED <<heap, lists>>
       \/ /\ HasRoom
          /\ heap' = [heap EXCEPT ![alloc_pkb] =
                [heap[P] EXCEPT !.ref = 1, !.room = Length - HeaderSize]]
          /\ lists' = [lists EXCEPT !["raw"] = @ \cup {alloc_pkb}]

-----------------------------------------------------------------------------
(* ICMP *)

icmp_echo_request_kept(b) ==
    [b EXCEPT !.to = b.from, !.order = Swapped(@), !.rt = "none", !.type = "none"]
\* The request becomes the reply, in the same buffer
icmp_echo_request(b) ==
    [b EXCEPT !.kind = "icmp info", !.to = b.from, !.order = Swapped(@),
              !.rt = "none", !.type = "none"]

icmp_in ==
    /\ In("icmp_in")
    /\ \/ Drop
       \/ /\ heap[P].kind = "echo"
          /\ heap' = [heap EXCEPT ![P] = icmp_echo_request(@)]
          /\ PassTo("ip_send_out")

\* The packets about which icmp_send() may report an error
Reportable(b) == b.type = "local" /\ b.frag # "later" /\ b.kind # "icmp error"

\* P stays with the caller
icmp_send ==
    /\ In("icmp_send")
    /\ UNCHANGED <<lists, arp>>
    /\ \/ Call(<<>>) /\ UNCHANGED heap                   \* not reportable, or too short
       \/ /\ HasRoom /\ Reportable(heap[P])
          /\ heap' = [heap EXCEPT ![alloc_pkb] = New("icmp error", "me", heap[P].from)]
          /\ Call(<<Fr("ip_send_out", alloc_pkb)>>)

-----------------------------------------------------------------------------
(* UDP and TCP input *)

\* udp_recv(): no socket, a callback (which borrows the packet), or the queue
udp_in ==
    /\ In("udp_in")
    /\ \/ Drop
       \/ IcmpThen("free_pkb") /\ UNCHANGED heap
       \/ /\ lists' = [lists EXCEPT !["udp"] = @ \cup {P}]
          /\ Call(<<>>)
          /\ UNCHANGED <<heap, arp>>

\* tcp_process() answers a reset with nothing, other segments with a segment, a
\* reset or nothing
Answers(b) == IF b.kind = "rst" THEN {} ELSE {"tcp", "rst"}

\* get_pkb() for a segment that is kept
tcp_segment_reass(keep) == [heap EXCEPT ![P].ref = IF keep THEN @ + 1 ELSE @]

\* The last disjunct is the return of tcp_synsent() on a simultaneous open
tcp_in ==
    /\ In("tcp_in")
    /\ \/ Drop
       \/ \E keep \in BOOLEAN :
          /\ keep => heap[P].kind = "tcp"
          /\ lists' = [lists EXCEPT !["tcp"] = IF keep THEN @ \cup {P} ELSE @]
          /\ UNCHANGED arp
          /\ \/ heap' = tcp_segment_reass(keep) /\ Call(<<Fr("free_pkb", P)>>)
             \/ \E a \in Answers(heap[P]) :
                /\ HasRoom
                /\ heap' = [tcp_segment_reass(keep) EXCEPT ![alloc_pkb] = New(a, "me", heap[P].from)]
                /\ Call(<<Fr("tcp_send_out", alloc_pkb), Fr("free_pkb", P)>>)
       \/ /\ HasRoom /\ heap[P].kind = "tcp"
          /\ heap' = [heap EXCEPT ![alloc_pkb] = New("tcp", "me", heap[P].from), ![P].lost = TRUE]
          /\ Call(<<Fr("tcp_send_out", alloc_pkb)>>)
          /\ UNCHANGED <<lists, arp>>

-----------------------------------------------------------------------------
(* Network layer, output *)

\* An expired TTL; a redirect; and then forward_dev
ip_forward ==
    /\ In("ip_forward")
    /\ UNCHANGED heap
    /\ \/ IcmpThen("free_pkb")
       \/ IcmpThen("forward_dev")
       \/ PassTo("forward_dev")

\* The packets that may be longer than an MTU: TCP segments are cut to it and
\* ICMP errors to 576 bytes
MayBeLong(b) == b.kind \in {"udp", "echo", "icmp info", "other"}

\* The end of ip_forward(): refuse to fragment, fragment or send
forward_dev ==
    /\ In("forward_dev")
    /\ UNCHANGED heap
    /\ \/ IcmpThen("free_pkb")
       \/ PassTo("ip_send_frag")
       \/ PassTo("ip_send_dev")

\* ip_send_out() and its rt_output(), which also sets the source address
ip_send_out ==
    LET rt == IF heap[P].rt # "none" THEN heap[P].rt ELSE rt_lookup(heap[P].to) IN
    /\ In("ip_send_out")
    /\ IF rt = "none" THEN Drop
       ELSE /\ heap' = [heap EXCEPT ![P].rt = rt, ![P].from = "me"]
            /\ \/ MayBeLong(heap[P]) /\ PassTo("ip_send_frag")
               \/ PassTo("ip_send_dev")

\* tcp_init_pkb() looks up the route
tcp_send_out ==
    LET rt == rt_lookup(heap[P].to) IN
    /\ In("tcp_send_out")
    /\ IF rt = "none" THEN Drop
       ELSE heap' = [heap EXCEPT ![P].rt = rt] /\ PassTo("ip_send_out")

\* ip_frag() copies the packet's fields into a buffer of its own
ip_frag(frag) == [heap EXCEPT ![alloc_pkb] = [heap[P] EXCEPT !.ref = 1, !.frag = frag, !.link = "none"]]

SendFrag(frag, next) ==
    /\ HasRoom
    /\ heap' = ip_frag(IF heap[P].frag = "later" THEN "later" ELSE frag)
    /\ Call(<<Fr("ip_send_dev", alloc_pkb), Fr(next, P)>>)
    /\ UNCHANGED <<lists, arp>>

\* The loop of ip_send_frag(): two fragments
ip_send_frag ==
    \/ In("ip_send_frag") /\ SendFrag("first", "send_last_frag")
    \/ In("send_last_frag") /\ SendFrag("later", "free_pkb")

\* The packet waits for the address of its next hop; arp_request() asks for it
Queue ==
    /\ lists' = [lists EXCEPT !["arp"] = @ \cup {P}]
    /\ IF arp = "waiting" THEN Call(<<>>) /\ UNCHANGED <<heap, arp>>
       ELSE /\ HasRoom
            /\ heap' = [heap EXCEPT ![alloc_pkb] = New("arp request", "me", "peer")]
            /\ Call(<<Fr("netdev_tx", alloc_pkb)>>)
            /\ arp' = "waiting"

ip_send_dev ==
    /\ In("ip_send_dev")
    /\ \/ heap[P].rt = "lo" /\ PassTo("netdev_tx") /\ UNCHANGED heap
       \/ heap[P].rt # "lo" /\ arp = "resolved" /\ PassTo("netdev_tx") /\ UNCHANGED heap
       \/ heap[P].rt # "lo" /\ arp # "resolved" /\ Queue
       \/ heap[P].rt # "lo" /\ arp = "none" /\ Drop        \* the cache is full

-----------------------------------------------------------------------------
(* Where packets come from and where they go *)

Enter(b, at) ==
    /\ stack = <<>> /\ HasRoom
    /\ heap' = [heap EXCEPT ![alloc_pkb] = b]
    /\ stack' = <<Fr(at, alloc_pkb)>>
    /\ UNCHANGED <<lists, arp>>

\* A device's receive thread calls net_in()
Arrive(a) ==
    Enter([New(a.kind, "peer", a.to) EXCEPT !.link = a.link, !.frag = a.frag], "net_in")

\* A socket's send_buf(); udp_init_pkb() looks up the route, as tcp_init_pkb() does
Send(s) ==
    Enter(New(s.kind, "me", s.to), IF s.kind \in {"udp", "tcp"} THEN "tcp_send_out" ELSE "ip_send_out")

\* A read of the application, or a TCP read or close, frees a queued packet
Consume(l) ==
    \E p \in lists[l] :
    /\ heap' = Freed({p})
    /\ lists' = [lists EXCEPT ![l] = @ \ {p}]
    /\ UNCHANGED <<arp, stack>>

\* arp_timer() gives up on the peer, or its entry expires
arp_timer ==
    /\ stack = <<>>
    /\ arp # "none" /\ arp' = "none"
    /\ heap' = Freed(lists["arp"])
    /\ lists' = [lists EXCEPT !["arp"] = {}]
    /\ UNCHANGED stack

\* ip_timer(): report the first fragment of the list, then delete_frag()
ip_timer ==
    /\ stack = <<>>
    /\ \E p \in lists["frag"] :
       /\ heap' = [heap EXCEPT ![p].order = Swapped(@)]
       /\ stack' = <<Fr("icmp_send", p), Fr("delete_frag", p)>>
    /\ UNCHANGED <<lists, arp>>

delete_frag ==
    /\ In("delete_frag")
    /\ heap' = Freed(lists["frag"])
    /\ lists' = [lists EXCEPT !["frag"] = {}]
    /\ Call(<<>>)
    /\ UNCHANGED arp

Handler ==
    \/ net_in \/ arp_in \/ netdev_tx \/ free_pkb
    \/ ip_in \/ ip_recv_route \/ ip_recv_local \/ raw_in
    \/ icmp_in \/ icmp_send \/ udp_in \/ tcp_in
    \/ ip_forward \/ forward_dev \/ ip_send_out \/ tcp_send_out
    \/ ip_send_frag \/ ip_send_dev \/ delete_frag

Next ==
    \/ Handler
    \/ \E a \in Arrivals : Arrive(a)
    \/ \E s \in Sends : Send(s)
    \/ \E l \in {"udp", "raw", "tcp"} : Consume(l)
    \/ arp_timer \/ ip_timer

Spec == Init /\ [][Next]_vars

-----------------------------------------------------------------------------
\* The type invariant.  A buffer's room is what alloc_pkb() or copy_pkb()
\* allocated, and every call on the stack is one of the handlers'.
TypeOK ==
    /\ heap \in [Pkbs -> Buffer]
    /\ lists \in [Lists -> SUBSET Pkbs]
    /\ arp \in {"none", "waiting", "resolved"}
    /\ stack \in Seq(Frame)

\* The calls that own a reference: icmp_send() borrows its caller's, and
\* delete_frag() frees those of the list
Owning == Calls \ {"icmp_send", "delete_frag"}
Owners(p) == Cardinality({i \in DOMAIN stack : stack[i].p = p /\ stack[i].at \in Owning})
             + Cardinality({l \in Lists : p \in lists[l]})

\* Types are kept, and pk_refcnt is the number of calls and lists that hold the buffer, however
\* deep the loopback device nests the handlers: none is freed twice or used
\* after it is freed.  None leaks either, apart from the one reference that
\* net_in() forgets with a RARP frame and tcp_synsent() on a simultaneous open.
RefsMatchOwners ==
    /\ TypeOK
    /\ \A p \in Pkbs : heap[p].ref = Owners(p) + (IF heap[p].lost THEN 1 ELSE 0)

\* Once a packet is on a list for another thread, the calls beneath only drop
\* their reference: none changes or forwards it.
QueuedIsQuiet ==
    \A i \in DOMAIN stack :
        stack[i].p \in UNION {lists[l] : l \in {"arp", "udp", "raw", "tcp"}} => stack[i].at = "free_pkb"

\* The byte order that rt_input(), rt_output(), ip_send_out() and ip_forward()
\* assert in their comments, for a packet that goes in and out several times
ByteOrder ==
    \A i \in DOMAIN stack : LET order == heap[stack[i].p].order IN
        /\ stack[i].at \in {"ip_recv_route", "ip_recv_local", "raw_in", "icmp_in", "udp_in", "tcp_in"}
              => order = "host"
        /\ stack[i].at \in {"ip_in", "ip_forward", "forward_dev", "ip_send_out", "tcp_send_out",
                            "ip_send_frag", "send_last_frag", "ip_send_dev"}
              => order = "net"

\* A packet to ourselves is answered once: its buffer is at most held by the
\* sender, by the delivery that answers it and by the delivery of the answer.
RepliesEnd == \A p \in Pkbs : heap[p].ref <= 3

-----------------------------------------------------------------------------
(* What the comments say; the code does not keep these *)

\* Every buffer a handler is called with is released in the end: pkb_safe()
\* reports a difference of alloc_pkbs and free_pkbs as an error.
NothingLost == \A p \in Pkbs : ~heap[p].lost

\* The length that icmp_send() takes from the header with _ntohs() is the
\* length of the packet: the header is in network order.
IcmpPayloadLength == In("icmp_send") => heap[P].order = "net"

\* The copy of a packet that a raw socket gets has room for the packet.
CopyHoldsPacket == \A p \in lists["raw"] : heap[p].room >= Length
=============================================================================
