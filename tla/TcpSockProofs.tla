--------------------------- MODULE TcpSockProofs ---------------------------
(***************************************************************************)
(* Proofs about the ports of TcpSock: bfree and the bind hash table agree  *)
(* for any number of sockets, peers and ports, and the search for a free   *)
(* port in tcp_get_port() ends.                                            *)
(***************************************************************************)
EXTENDS TcpSock, FiniteSetTheorems, WellFoundedInduction, TLAPS

Fields == {"mem", "ref", "state", "sport", "dst", "parent", "backlog",
           "accept_backlog", "lq", "aq", "wait", "rwait", "timeout", "fd", "call",
           "dead", "notified", "ehash", "lhash", "bhash", "bfree", "defport",
           "timers", "panic"}

PortTypes(w) ==
    /\ DOMAIN w = Fields
    /\ w.mem \in [Socks -> {"unused", "live", "freed"}]
    /\ w.sport \in [Socks -> Ports \cup {0}]
    /\ w.bhash \in SUBSET Socks
    /\ w.bfree \in Int
    /\ w.defport \in BMin..BMax

\* A bound socket has a port and has been allocated: binding is for a socket
\* without a port, and a new child takes a sock that was never used.
Bound(w) == \A s \in w.bhash : w.sport[s] # 0 /\ w.mem[s] # "unused"

Counted(w) == w.bfree + Cardinality(w.bhash) = NPorts
Distinct(w) == \A s, t \in w.bhash : s # t => w.sport[s] # w.sport[t]

PortInv(w) == PortTypes(w) /\ Bound(w) /\ Counted(w) /\ Distinct(w)

\* v differs from w in nothing the ports depend on.
SamePorts(w, v) ==
    /\ DOMAIN v = Fields
    /\ v.sport = w.sport /\ v.bhash = w.bhash /\ v.bfree = w.bfree
    /\ v.defport = w.defport
    /\ v.mem \in [Socks -> {"unused", "live", "freed"}]
    /\ \A s \in Socks : w.mem[s] # "unused" => v.mem[s] # "unused"

-----------------------------------------------------------------------------
(* Operators that leave the ports alone.                                   *)

\* The invariant depends only on the fields SamePorts keeps.
LEMMA Frame ==
    ASSUME NEW w, NEW v, PortInv(w), SamePorts(w, v)
    PROVE  PortInv(v)
BY DEF PortInv, PortTypes, Bound, Counted, Distinct, SamePorts

\* The parts of the invariant that the lemmas below use one at a time.
LEMMA Shape ==
    ASSUME NEW w, PortInv(w)
    PROVE  DOMAIN w = Fields /\ w.mem \in [Socks -> {"unused", "live", "freed"}]
BY DEF PortInv, PortTypes

\* Taking and dropping references frees memory and touches no port.
LEMMA PutPorts ==
    ASSUME NEW w, PortInv(w), NEW n
    PROVE  PortInv(Put(w, n))
<1>1. DOMAIN w = Fields /\ w.mem \in [Socks -> {"unused", "live", "freed"}]
  BY Shape
<1>2. SamePorts(w, Put(w, n))
  BY <1>1 DEF SamePorts, Fields, Put
<1> QED BY <1>2, Frame

\* free_sock() touches no port.
LEMMA FreePorts ==
    ASSUME NEW w, PortInv(w), NEW S
    PROVE  PortInv(free_sock(w, S))
BY PutPorts DEF free_sock

\* get_sock() touches no port.
LEMMA GetPorts ==
    ASSUME NEW w, PortInv(w), NEW s
    PROVE  PortInv(get_sock(w, s))
<1>1. DOMAIN w = Fields /\ w.mem \in [Socks -> {"unused", "live", "freed"}]
  BY Shape
<1>2. SamePorts(w, get_sock(w, s))
  BY <1>1 DEF SamePorts, Fields, get_sock
<1> QED BY <1>2, Frame

\* The established and the listen hash table.
LEMMA HashPorts ==
    ASSUME NEW w, PortInv(w), NEW s, NEW S
    PROVE  /\ PortInv(tcp_ehash(w, s))
           /\ PortInv(tcp_lhash(w, s))
           /\ PortInv(tcp_unhash(w, S))
<1>1. DOMAIN w = Fields /\ w.mem \in [Socks -> {"unused", "live", "freed"}]
  BY Shape
<1>2. PortInv(tcp_ehash(w, s))
  <2> DEFINE v == [w EXCEPT !.ehash = @ \cup {s}]
  <2>1. SamePorts(w, v)
    BY <1>1 DEF SamePorts, Fields
  <2> QED BY <2>1, Frame, GetPorts DEF tcp_ehash
<1>3. PortInv(tcp_lhash(w, s))
  <2> DEFINE v == [w EXCEPT !.lhash = Push(@, s), !.panic = @ \/ s \in Hashed(w)]
  <2>1. SamePorts(w, v)
    BY <1>1 DEF SamePorts, Fields
  <2> QED BY <2>1, Frame, GetPorts DEF tcp_lhash
<1>4. PortInv(tcp_unhash(w, S))
  <2> DEFINE v == [w EXCEPT !.ehash = @ \ S,
                            !.lhash = SelectSeq(@, LAMBDA t : t \notin S)]
  <2>1. SamePorts(w, v)
    BY <1>1 DEF SamePorts, Fields
  <2>2. PortInv(v)
    BY <2>1, Frame
  <2> HIDE DEF v
  <2>3. PortInv(free_sock(v, S \cap Hashed(w)))
    BY <2>2, FreePorts
  <2> QED BY <2>3 DEF tcp_unhash, v
<1> QED BY <1>2, <1>3, <1>4

\* A step into undefined behaviour is the last one and touches no port.
LEMMA PanicPorts ==
    ASSUME NEW w, PortInv(w)
    PROVE  PortInv(Panic(w))
<1>1. DOMAIN w = Fields /\ w.mem \in [Socks -> {"unused", "live", "freed"}]
  BY Shape
<1>2. SamePorts(w, Panic(w))
  BY <1>1 DEF SamePorts, Fields, Panic
<1> QED BY <1>2, Frame

\* wake_up() and tcp_recv_notify() touch no port.
LEMMA WakePorts ==
    ASSUME NEW w, PortInv(w), NEW s
    PROVE  PortInv(wake_up(w, s)) /\ PortInv(tcp_recv_notify(w, s))
<1>1. DOMAIN w = Fields /\ w.mem \in [Socks -> {"unused", "live", "freed"}]
  BY Shape
<1>2. PortInv(wake_up(w, s))
  <2> DEFINE v == [w EXCEPT !.notified[s] = @ \/ ~w.dead[s]]
  <2>1. SamePorts(w, v)
    BY <1>1 DEF SamePorts, Fields
  <2> QED BY <2>1, Frame, PanicPorts DEF wake_up
<1> QED BY <1>2 DEF tcp_recv_notify

-----------------------------------------------------------------------------
(* The bind hash table.                                                    *)

\* The bind hash table is finite: it holds sockets of Socks.
LEMMA BhashFinite ==
    ASSUME NEW w, PortInv(w)
    PROVE  IsFiniteSet(w.bhash) /\ Cardinality(w.bhash) \in Nat
BY SocksAssumption, FS_Subset, FS_CardinalityType DEF PortInv, PortTypes

\* tcp_unbhash() gives back as many ports as it unlinks sockets.
LEMMA UnbhashPorts ==
    ASSUME NEW w, PortInv(w), NEW S
    PROVE  PortInv(tcp_unbhash(w, S))
<1> DEFINE v == [w EXCEPT !.bhash = @ \ S, !.bfree = @ + Cardinality(S \cap w.bhash)]
<1>1. PortTypes(w) /\ DOMAIN w = Fields
  BY DEF PortInv, PortTypes
<1>2. IsFiniteSet(w.bhash) /\ Cardinality(w.bhash) \in Nat
  BY BhashFinite
<1>3. /\ IsFiniteSet(w.bhash \cap S)
      /\ Cardinality(w.bhash \cap S) \in Nat
      /\ Cardinality(w.bhash \ S) = Cardinality(w.bhash) - Cardinality(w.bhash \cap S)
  BY <1>2, FS_Difference, FS_Intersection, FS_CardinalityType
<1>4. S \cap w.bhash = w.bhash \cap S
  OBVIOUS
<1>5. /\ DOMAIN v = Fields /\ v.mem = w.mem /\ v.sport = w.sport
      /\ v.defport = w.defport /\ v.bhash = w.bhash \ S
      /\ v.bfree = w.bfree + Cardinality(w.bhash \cap S)
  BY <1>1, <1>4 DEF Fields
<1>6. PortTypes(v)
  BY <1>1, <1>3, <1>5 DEF PortTypes
<1>7. Counted(v)
  BY <1>1, <1>2, <1>3, <1>5 DEF PortInv, PortTypes, Counted
<1>8. Bound(v) /\ Distinct(v)
  BY <1>5 DEF PortInv, Bound, Distinct
<1>9. PortInv(v)
  BY <1>6, <1>7, <1>8 DEF PortInv
<1> HIDE DEF v
<1>10. PortInv(free_sock(v, S \cap w.bhash))
  BY <1>9, FreePorts
<1> QED BY <1>10 DEF tcp_unbhash, v

\* tcp_get_port() returns an unused port of the range when there is one.
LEMMA GetPortUnused ==
    ASSUME NEW w, PortInv(w), UnusedPorts(w) # {}
    PROVE  tcp_get_port(w) \in UnusedPorts(w)
<1> DEFINE d(r) == (r - w.defport) % NPorts
           T == {d(r) : r \in UnusedPorts(w)}
<1>1. NPorts \in Nat /\ NPorts > 0
  BY PortsAssumption DEF NPorts
<1>2. UnusedPorts(w) \subseteq Int /\ w.defport \in Int
  BY PortsAssumption DEF UnusedPorts, PortInv, PortTypes
<1>3. \A p \in UnusedPorts(w) : d(p) \in Nat
  BY <1>1, <1>2
<1>4. T \subseteq Nat /\ T # {}
  BY <1>3
<1>5. PICK x \in T : \A y \in T : ~ (<<y, x>> \in OpToRel(<, Nat))
  BY <1>4, WFMin, NatLessThanWellFounded
<1>6. \A y \in T : ~ (y < x)
  BY <1>4, <1>5 DEF OpToRel
<1>7. PICK p \in UnusedPorts(w) : x = d(p)
  BY <1>5
<1>8. ASSUME NEW q \in UnusedPorts(w)
      PROVE  d(p) <= d(q)
  <2>1. d(q) \in T /\ d(q) \in Nat /\ d(p) \in Nat
    BY <1>3
  <2>2. ~ (d(q) < d(p))
    BY <1>6, <1>7, <2>1
  <2> HIDE DEF d
  <2> QED BY <2>1, <2>2
<1> QED BY <1>7, <1>8 DEF tcp_get_port

\* A free port exists as long as bfree is positive: fewer sockets are bound than
\* the range has ports.
LEMMA FreePortExists ==
    ASSUME NEW w, PortInv(w), w.bfree > 0
    PROVE  UnusedPorts(w) # {}
<1> SUFFICES ASSUME UnusedPorts(w) = {} PROVE FALSE
  OBVIOUS
<1> DEFINE R == BMin..BMax
           f == [p \in R |-> CHOOSE s \in w.bhash : w.sport[s] = p]
<1>1. IsFiniteSet(w.bhash) /\ Cardinality(w.bhash) \in Nat
  BY BhashFinite
<1>2. IsFiniteSet(R) /\ Cardinality(R) = NPorts
  BY PortsAssumption, FS_Interval DEF NPorts
<1>3. w.bfree \in Int /\ NPorts \in Int /\ w.bfree + Cardinality(w.bhash) = NPorts
  BY PortsAssumption DEF PortInv, PortTypes, Counted, NPorts
<1>4. Cardinality(w.bhash) < Cardinality(R)
  BY <1>1, <1>2, <1>3
<1>5. ASSUME NEW p \in R
      PROVE  f[p] \in w.bhash /\ w.sport[f[p]] = p
  BY DEF UnusedPorts, tcp_port_used
<1>6. f \in [R -> w.bhash]
  BY <1>5
<1> HIDE DEF f, R
<1>7. PICK x, y \in R : x # y /\ f[x] = f[y]
  BY <1>1, <1>2, <1>4, <1>6, FS_PigeonHole
<1> QED BY <1>5, <1>7

\* Binding a socket that has no port takes a port nobody has.
LEMMA SetSportPorts ==
    ASSUME NEW w, PortInv(w), NEW s \in Socks, NEW p \in Ports \cup {0},
           w.sport[s] = 0, w.mem[s] # "unused", set_sport_ok(w, p)
    PROVE  PortInv(tcp_set_sport(w, s, p))
<1> DEFINE port == IF p = 0 THEN tcp_get_port(w) ELSE p
           v == [w EXCEPT !.bfree = @ - 1, !.sport[s] = port, !.bhash = @ \cup {s},
                          !.defport = IF p = 0 THEN NextPort(port) ELSE @]
<1>1. PortTypes(w) /\ DOMAIN w = Fields
  BY DEF PortInv, PortTypes
<1>2. port \in Ports /\ port # 0 /\ ~tcp_port_used(w, port)
  <2>1. CASE p = 0
    <3>1. tcp_get_port(w) \in UnusedPorts(w)
      BY <2>1, GetPortUnused DEF set_sport_ok
    <3> QED BY <2>1, <3>1, PortsAssumption DEF UnusedPorts
  <2>2. CASE p # 0
    BY <2>2 DEF set_sport_ok
  <2> QED BY <2>1, <2>2
<1>3. p = 0 => NextPort(port) \in BMin..BMax
  <2> SUFFICES ASSUME p = 0 PROVE NextPort(port) \in BMin..BMax
    OBVIOUS
  <2>1. port \in BMin..BMax
    BY GetPortUnused DEF set_sport_ok, UnusedPorts
  <2> HIDE DEF port
  <2> QED BY <2>1, PortsAssumption DEF NextPort
<1> HIDE DEF port
<1>4. /\ DOMAIN v = Fields /\ v.mem = w.mem
      /\ v.sport = [w.sport EXCEPT ![s] = port]
      /\ v.defport \in BMin..BMax
      /\ v.bhash = w.bhash \cup {s} /\ v.bfree = w.bfree - 1
  BY <1>1, <1>3 DEF Fields, PortTypes
<1> HIDE DEF v
<1>5. s \notin w.bhash
  BY DEF PortInv, Bound
<1>6. /\ Cardinality(w.bhash) \in Nat
      /\ Cardinality(v.bhash) = Cardinality(w.bhash) + 1
  <2>1. IsFiniteSet(w.bhash) /\ Cardinality(w.bhash) \in Nat
    BY BhashFinite
  <2>2. Cardinality(w.bhash \cup {s}) = Cardinality(w.bhash) + 1
    BY <2>1, <1>5, FS_AddElement, Zenon
  <2> QED BY <2>1, <2>2, <1>4
<1>7. PortTypes(v)
  BY <1>1, <1>2, <1>4 DEF PortTypes
<1>8. Counted(v)
  BY <1>1, <1>4, <1>6 DEF PortInv, PortTypes, Counted
<1>9. Bound(v)
  BY <1>1, <1>2, <1>4 DEF PortInv, PortTypes, Bound
<1>10. Distinct(v)
  BY <1>1, <1>2, <1>4, <1>5 DEF PortInv, PortTypes, Distinct, tcp_port_used
<1>11. PortInv(v)
  BY <1>7, <1>8, <1>9, <1>10 DEF PortInv
<1>12. PortInv(get_sock(v, s))
  BY <1>11, GetPorts
<1> QED BY <1>12 DEF tcp_set_sport, v, port

-----------------------------------------------------------------------------
(* Closing and the steps of the segment handler.                           *)

\* tcp_clear_listen_queue() unhashes and releases children; it touches no port.
LEMMA ClearListenQueuePorts ==
    ASSUME NEW w, PortInv(w), NEW s
    PROVE  PortInv(tcp_clear_listen_queue(w, s))
<1> DEFINE half == {c \in w.lq[s] : w.state[c] = "SYN_RECV"}
           w1 == [w EXCEPT !.lq[s] = {},
                           !.parent = [c \in Socks |-> IF c \in half THEN None ELSE @[c]],
                           !.panic = @ \/ \E c \in w.lq[s] : w.mem[c] # "live"]
           n == [c \in Socks |-> IF c = s THEN Cardinality(half) ELSE 0]
<1>1. DOMAIN w = Fields /\ w.mem \in [Socks -> {"unused", "live", "freed"}]
  BY Shape
<1>2. SamePorts(w, w1)
  BY <1>1 DEF SamePorts, Fields
<1>3. PortInv(w1)
  BY <1>2, Frame
<1> HIDE DEF w1, n, half
<1>4. PortInv(Put(w1, n))
  BY <1>3, PutPorts
<1>5. PortInv(tcp_unhash(Put(w1, n), half))
  BY <1>4, HashPorts
<1>6. PortInv(free_sock(tcp_unhash(Put(w1, n), half), half))
  BY <1>5, FreePorts
<1> QED BY <1>6 DEF tcp_clear_listen_queue, w1, n, half

\* Changes of the state alone.
LEMMA StatePorts ==
    ASSUME NEW w, PortInv(w), NEW s, NEW x
    PROVE  PortInv([w EXCEPT !.state[s] = x])
<1>1. DOMAIN w = Fields /\ w.mem \in [Socks -> {"unused", "live", "freed"}]
  BY Shape
<1>2. SamePorts(w, [w EXCEPT !.state[s] = x])
  BY <1>1 DEF SamePorts, Fields
<1> QED BY <1>2, Frame

\* tcp_close() keeps the accounting in every state of the socket.
LEMMA ClosePorts ==
    ASSUME NEW w, PortInv(w), NEW s
    PROVE  PortInv(tcp_close(w, s))
<1> DEFINE v == tcp_unbhash(tcp_unhash(tcp_clear_listen_queue(w, s), {s}), {s})
<1>1. PortInv(v)
  <2>1. PortInv(tcp_unhash(tcp_clear_listen_queue(w, s), {s}))
    BY ClearListenQueuePorts, HashPorts
  <2> QED BY <2>1, UnbhashPorts
<1> HIDE DEF v
<1>2. PortInv([v EXCEPT !.state[s] = "CLOSED"])
  BY <1>1, StatePorts
<1>3. /\ PortInv([w EXCEPT !.state[s] = "FIN_WAIT1"])
      /\ PortInv([w EXCEPT !.state[s] = "LAST_ACK"])
  BY StatePorts
<1> USE DEF v
<1>4. CASE w.state[s] = "LISTEN"
  BY <1>2, <1>4 DEF tcp_close
<1>5. CASE w.state[s] = "ESTABLISHED"
  BY <1>3, <1>5 DEF tcp_close
<1>6. CASE w.state[s] = "CLOSE_WAIT"
  BY <1>3, <1>6 DEF tcp_close
<1>7. CASE w.state[s] \notin {"LISTEN", "ESTABLISHED", "CLOSE_WAIT"}
  BY <1>7 DEF tcp_close
<1> QED BY <1>4, <1>5, <1>6, <1>7

\* inet_close() and free_socket() keep it too.
LEMMA InetClosePorts ==
    ASSUME NEW w, PortInv(w), NEW s
    PROVE  PortInv(inet_close(w, s)) /\ PortInv(free_socket(w, s))
<1>1. ASSUME NEW u, PortInv(u)
      PROVE  PortInv(inet_close(u, s))
  <2> DEFINE c == tcp_close(u, s)
             v == [c EXCEPT !.fd[s] = "gone"]
  <2>1. PortInv(c)
    BY <1>1, ClosePorts
  <2> HIDE DEF c
  <2>2. DOMAIN c = Fields /\ c.mem \in [Socks -> {"unused", "live", "freed"}]
    BY <2>1, Shape
  <2>3. SamePorts(c, v)
    BY <2>2 DEF SamePorts, Fields
  <2>4. PortInv(v)
    BY <2>1, <2>3, Frame
  <2> HIDE DEF v
  <2>5. PortInv(free_sock(v, {s}))
    BY <2>4, FreePorts
  <2> QED BY <2>5 DEF inet_close, v, c
<1> DEFINE w1 == [w EXCEPT !.call[s] = "none"]
<1>2. DOMAIN w = Fields /\ w.mem \in [Socks -> {"unused", "live", "freed"}]
  BY Shape
<1>3. SamePorts(w, w1)
  BY <1>2 DEF SamePorts, Fields
<1>4. PortInv(w1)
  BY <1>3, Frame
<1> HIDE DEF w1
<1>5. PortInv(inet_close(w1, s))
  BY <1>1, <1>4
<1>6. PortInv(free_socket(w, s))
  BY <1>4, <1>5 DEF free_socket, w1
<1> QED BY <1>1, <1>6

\* Moving a finished handshake to the accept queue, and the TIME-WAIT timer.
LEMMA QueuePorts ==
    ASSUME NEW w, PortInv(w), NEW s
    PROVE  /\ PortInv(tcp_synrecv_ack(w, s))
           /\ PortInv(tcp_set_timewait_timer(w, s))
<1>1. DOMAIN w = Fields /\ w.mem \in [Socks -> {"unused", "live", "freed"}]
  BY Shape
<1>2. PortInv(tcp_synrecv_ack(w, s))
  <2> DEFINE p == w.parent[s]
             v == [w EXCEPT !.lq[p] = @ \ {s}, !.aq[p] = Push(@, s),
                            !.accept_backlog[s] = @ + 1]
  <2>1. SamePorts(w, v)
    BY <1>1 DEF SamePorts, Fields
  <2>2. PortInv(v)
    BY <2>1, Frame
  <2> HIDE DEF v
  <2>3. PortInv(wake_up(v, p)) /\ PortInv(Panic(w))
    BY <2>2, WakePorts, PanicPorts
  <2> QED BY <2>3 DEF tcp_synrecv_ack, tcp_accept_enqueue, v
<1>3. PortInv(tcp_set_timewait_timer(w, s))
  <2> DEFINE v == [w EXCEPT !.state[s] = "TIME_WAIT", !.timeout[s] = TimewaitTicks,
                            !.timers = Push(@, s)]
  <2>1. SamePorts(w, v)
    BY <1>1 DEF SamePorts, Fields
  <2>2. PortInv(v)
    BY <2>1, Frame
  <2> HIDE DEF v
  <2>3. PortInv(get_sock(v, s))
    BY <2>2, GetPorts
  <2> QED BY <2>3 DEF tcp_set_timewait_timer, v
<1> QED BY <1>2, <1>3

\* Leaving a connection: RST, and the last ACK.
LEMMA UnhashedPorts ==
    ASSUME NEW w, PortInv(w), NEW s
    PROVE  PortInv(tcp_unbhash(tcp_unhash([w EXCEPT !.state[s] = "CLOSED"], {s}), {s}))
<1> DEFINE v == [w EXCEPT !.state[s] = "CLOSED"]
<1>1. PortInv(v)
  BY StatePorts
<1> HIDE DEF v
<1>2. PortInv(tcp_unbhash(tcp_unhash(v, {s}), {s}))
  BY <1>1, HashPorts, UnbhashPorts
<1> QED BY <1>2 DEF v

\* The ACK step of tcp_process() keeps the accounting.
LEMMA AckStepPorts ==
    ASSUME NEW w, PortInv(w), NEW g, NEW s
    PROVE  PortInv(AckStep(w, g, s))
<1> DEFINE a == tcp_synrecv_ack(w, s)
           last == tcp_unbhash(tcp_unhash([w EXCEPT !.state[s] = "CLOSED"], {s}), {s})
<1>1. PortInv(a) /\ PortInv(tcp_set_timewait_timer(w, s))
  BY QueuePorts
<1>2. PortInv(last) /\ PortInv(Panic(w))
  BY UnhashedPorts, PanicPorts
<1> HIDE DEF a
<1>3. PortInv([a EXCEPT !.state[s] = "ESTABLISHED"])
  BY <1>1, StatePorts
<1>4. PortInv([w EXCEPT !.state[s] = "FIN_WAIT2"])
  BY StatePorts
<1> HIDE DEF last
<1>5. \/ AckStep(w, g, s) = Panic(w)
      \/ AckStep(w, g, s) = [a EXCEPT !.state[s] = "ESTABLISHED"]
      \/ AckStep(w, g, s) = [w EXCEPT !.state[s] = "FIN_WAIT2"]
      \/ AckStep(w, g, s) = tcp_set_timewait_timer(w, s)
      \/ AckStep(w, g, s) = last
      \/ AckStep(w, g, s) = w
  BY Zenon DEF AckStep, a, last
<1> QED BY <1>1, <1>2, <1>3, <1>4, <1>5

\* The FIN step of tcp_process() keeps the accounting.
LEMMA FinStepPorts ==
    ASSUME NEW w, PortInv(w), NEW g, NEW s
    PROVE  PortInv(FinStep(w, g, s)) /\ PortInv(TextStep(w, g, s))
<1> DEFINE v == [w EXCEPT !.state[s] = "CLOSE_WAIT"]
           r == [w EXCEPT !.timeout[s] = TimewaitTicks]
<1>1. DOMAIN w = Fields /\ w.mem \in [Socks -> {"unused", "live", "freed"}]
  BY Shape
<1>2. PortInv(v) /\ PortInv([w EXCEPT !.state[s] = "CLOSING"])
  BY StatePorts
<1>3. SamePorts(w, r)
  BY <1>1 DEF SamePorts, Fields
<1>4. PortInv(r)
  BY <1>3, Frame
<1> HIDE DEF v, r
<1>5. PortInv(tcp_recv_notify(v, s)) /\ PortInv(tcp_recv_notify(w, s))
  BY <1>2, WakePorts
<1>6. PortInv(tcp_set_timewait_timer(w, s))
  BY QueuePorts
<1>7. \/ FinStep(w, g, s) = w
      \/ FinStep(w, g, s) = tcp_recv_notify(v, s)
      \/ FinStep(w, g, s) = [w EXCEPT !.state[s] = "CLOSING"]
      \/ FinStep(w, g, s) = tcp_set_timewait_timer(w, s)
      \/ FinStep(w, g, s) = r
  BY Zenon DEF FinStep, v, r
<1>8. PortInv(TextStep(w, g, s))
  BY <1>5 DEF TextStep
<1> QED BY <1>2, <1>4, <1>5, <1>6, <1>7, <1>8

-----------------------------------------------------------------------------
(* The calls of applications.                                              *)

\* _socket() creates a socket without a port.
LEMMA SocketStep ==
    ASSUME PortInv(k), NEW s \in Socks, Socket(s)
    PROVE  PortInv(k')
<1>1. DOMAIN k = Fields /\ k.mem \in [Socks -> {"unused", "live", "freed"}]
  BY Shape
<1>2. SamePorts(k, k')
  BY <1>1 DEF SamePorts, Fields, Socket
<1> QED BY <1>2, Frame

\* _bind() takes the port it is given, if nobody has it.
LEMMA BindStep ==
    ASSUME PortInv(k), NEW s \in Socks, NEW p \in Ports \cup {0}, Bind(s, p)
    PROVE  PortInv(k')
<1> DEFINE w == tcp_set_sport(k, s, p)
<1>1. k.mem[s] # "unused"
  BY DEF Bind, Idle
<1>2. PortInv(w)
  BY <1>1, SetSportPorts DEF Bind
<1>3. k' = [w EXCEPT !.dst[s] = None]
  BY DEF Bind
<1> HIDE DEF w
<1>4. SamePorts(w, k')
  BY <1>2, <1>3, Shape DEF SamePorts, Fields
<1> QED BY <1>2, <1>4, Frame

\* _listen() keeps the port of the socket.
LEMMA ListenStep ==
    ASSUME PortInv(k), NEW s \in Socks, NEW b, Listen(s, b)
    PROVE  PortInv(k')
<1> DEFINE w == [k EXCEPT !.backlog[s] = b, !.state[s] = "LISTEN"]
<1>1. SamePorts(k, w)
  BY Shape DEF SamePorts, Fields
<1>2. PortInv(w)
  BY <1>1, Frame
<1>3. k' = w \/ k' = tcp_lhash(w, s)
  BY Zenon DEF Listen
<1> HIDE DEF w
<1> QED BY <1>2, <1>3, HashPorts

\* _connect() binds a socket without a port and keeps its port when it fails.
LEMMA ConnectStep ==
    ASSUME PortInv(k), NEW s \in Socks, NEW d,
           ConnectNoRoute(s, d) \/ Connect(s, d)
    PROVE  PortInv(k')
<1> DEFINE a == Autobound(s)
           w == [a EXCEPT !.dst[s] = d]
           h == tcp_ehash(w, s)
<1>1. k.mem[s] # "unused" /\ (k.sport[s] = 0 => set_sport_ok(k, 0))
  BY DEF ConnectNoRoute, Connect, CanConnect, Idle
<1>2. PortInv(a)
  BY <1>1, SetSportPorts DEF Autobound
<1>3. \/ k' = a \/ k' = w
      \/ k' = [h EXCEPT !.state[s] = "SYN_SENT", !.wait[s] = "connect",
                        !.call[s] = "connect"]
  BY Zenon DEF ConnectNoRoute, Connect
<1> HIDE DEF a
<1>4. SamePorts(a, w)
  BY <1>2, Shape DEF SamePorts, Fields
<1>5. PortInv(w)
  BY <1>2, <1>4, Frame
<1> HIDE DEF w
<1>6. PortInv(h)
  BY <1>5, HashPorts
<1> HIDE DEF h
<1>7. SamePorts(h, [h EXCEPT !.state[s] = "SYN_SENT", !.wait[s] = "connect",
                             !.call[s] = "connect"])
  BY <1>6, Shape DEF SamePorts, Fields
<1> QED BY <1>2, <1>3, <1>5, <1>6, <1>7, Frame

\* A connect() that wakes up touches no port.
LEMMA ConnectWakeStep ==
    ASSUME PortInv(k), NEW s \in Socks, ConnectWake(s)
    PROVE  PortInv(k')
<1>1. SamePorts(k, k')
  BY Shape DEF SamePorts, Fields, ConnectWake
<1> QED BY <1>1, Frame

\* A connect() that returns drops its reference.
LEMMA ConnectReturnStep ==
    ASSUME PortInv(k), NEW s \in Socks, ConnectReturn(s)
    PROVE  PortInv(k')
<1> DEFINE u == tcp_unbhash(tcp_unhash(k, {s}), {s})
           fail == [u EXCEPT !.state[s] = "CLOSED"]
<1>1. PortInv(u)
  BY HashPorts, UnbhashPorts
<1>2. k' = free_socket(k, s) \/ k' = free_socket(fail, s)
  BY Zenon DEF ConnectReturn
<1> HIDE DEF u
<1>3. PortInv(fail)
  BY <1>1, StatePorts
<1> HIDE DEF fail
<1> QED BY <1>2, <1>3, InetClosePorts

\* _accept() takes a child off the queue, with the port it has.
LEMMA AcceptStep ==
    ASSUME PortInv(k), NEW s \in Socks, Accept(s)
    PROVE  PortInv(k')
<1> DEFINE c == Head(k.aq[s])
           w1 == [k EXCEPT !.aq[s] = Tail(@), !.accept_backlog[s] = @ - 1]
           w2 == free_sock(w1, {c})
           f3 == free_sock(w2, {k.parent[c]})
           w3 == [f3 EXCEPT !.parent[c] = Dead]
           g4 == get_sock(w3, c)
           w4 == [g4 EXCEPT !.fd[c] = "open"]
           sleep == [k EXCEPT !.wait[s] = "accept", !.call[s] = "accept"]
<1>1. k' = Panic(w2) \/ k' = free_socket(w4, s) \/ k' = sleep \/ k' = Panic(k)
  BY Zenon DEF Accept, Dequeue
<1>2. SamePorts(k, w1) /\ SamePorts(k, sleep)
  BY Shape DEF SamePorts, Fields
<1>3. PortInv(w1) /\ PortInv(sleep)
  BY <1>2, Frame
<1> HIDE DEF w1, sleep, c
<1>4. PortInv(w2)
  BY <1>3, FreePorts
<1> HIDE DEF w2
<1>5. PortInv(f3)
  BY <1>4, FreePorts
<1> HIDE DEF f3
<1>6. SamePorts(f3, w3)
  BY <1>5, Shape DEF SamePorts, Fields
<1>7. PortInv(w3)
  BY <1>5, <1>6, Frame
<1> HIDE DEF w3
<1>8. PortInv(g4)
  BY <1>7, GetPorts
<1> HIDE DEF g4
<1>9. SamePorts(g4, w4)
  BY <1>8, Shape DEF SamePorts, Fields
<1>10. PortInv(w4)
  BY <1>8, <1>9, Frame
<1> HIDE DEF w4
<1>11. PortInv(free_socket(w4, s)) /\ PortInv(Panic(w2)) /\ PortInv(Panic(k))
  BY <1>4, <1>10, InetClosePorts, PanicPorts
<1> QED BY <1>1, <1>3, <1>11

\* An accept() that wakes up takes a child or fails.
LEMMA AcceptWakeStep ==
    ASSUME PortInv(k), NEW s \in Socks, AcceptWake(s)
    PROVE  PortInv(k')
<1> DEFINE w == [k EXCEPT !.notified[s] = FALSE, !.wait[s] = "none"]
           r == [w EXCEPT !.call[s] = "retry"]
<1>1. k' = free_socket(w, s) \/ k' = r
  BY Zenon DEF AcceptWake
<1>2. SamePorts(k, w)
  BY Shape DEF SamePorts, Fields
<1>3. PortInv(w)
  BY <1>2, Frame
<1> HIDE DEF w
<1>4. SamePorts(w, r)
  BY <1>3, Shape DEF SamePorts, Fields
<1> QED BY <1>1, <1>3, <1>4, Frame, InetClosePorts

\* _close() keeps the accounting, whichever state the socket is in.
LEMMA CloseStep ==
    ASSUME PortInv(k), NEW s \in Socks, Close(s)
    PROVE  PortInv(k')
<1> DEFINE w == [k EXCEPT !.dead[s] = TRUE]
           c == [w EXCEPT !.fd[s] = "closing"]
<1>1. k' = inet_close(w, s) \/ k' = c
  BY Zenon DEF Close
<1>2. SamePorts(k, w)
  BY Shape DEF SamePorts, Fields
<1>3. PortInv(w)
  BY <1>2, Frame
<1> HIDE DEF w
<1>4. SamePorts(w, c)
  BY <1>3, Shape DEF SamePorts, Fields
<1> QED BY <1>1, <1>3, <1>4, Frame, InetClosePorts

-----------------------------------------------------------------------------
(* The segment handler and the timer.                                      *)

\* The reference that tcp_recv() takes touches no port.
LEMMA HeldPorts ==
    ASSUME PortInv(k), NEW s
    PROVE  PortInv(Held(s))
BY GetPorts DEF Held

\* Nor does the one it drops.
LEMMA HandledPorts ==
    ASSUME NEW w, PortInv(w), NEW s, Handled(w, s)
    PROVE  PortInv(k')
BY FreePorts DEF Handled, Dropped

\* The port of a listener is copied to a child that was not in use before.
LEMMA ListenSynStep ==
    ASSUME PortInv(k), NEW s \in Socks, NEW g, NEW peer, NEW c \in Socks,
           ListenSyn(g, s, peer, c)
    PROVE  PortInv(k')
<1> DEFINE h == Held(s)
           w == [h EXCEPT !.mem[c] = "live", !.state[c] = "SYN_RECV",
                          !.sport[c] = k.sport[s], !.dst[c] = peer,
                          !.parent[c] = s, !.lq[s] = @ \cup {c}]
           v == get_sock(get_sock(tcp_ehash(w, c), c), s)
<1>1. k.mem[c] = "unused" /\ Handled(v, s)
  BY Zenon DEF ListenSyn
<1>2. PortInv(h)
  BY HeldPorts
<1>3. h.mem = k.mem /\ h.sport = k.sport /\ k.sport[s] \in Ports \cup {0}
  BY Shape DEF Held, get_sock, Fields, PortInv, PortTypes
<1> HIDE DEF h
<1>4. /\ DOMAIN w = Fields /\ w.mem = [h.mem EXCEPT ![c] = "live"]
      /\ w.sport = [h.sport EXCEPT ![c] = k.sport[s]]
      /\ w.bhash = h.bhash /\ w.bfree = h.bfree /\ w.defport = h.defport
  BY <1>2, Shape DEF Fields
<1> HIDE DEF w
<1>5. c \notin h.bhash
  BY <1>1, <1>2, <1>3 DEF PortInv, Bound
<1>6. PortTypes(w)
  BY <1>2, <1>3, <1>4 DEF PortInv, PortTypes
<1>7. Bound(w) /\ Distinct(w)
  BY <1>2, <1>4, <1>5 DEF PortInv, PortTypes, Bound, Distinct
<1>8. Counted(w)
  BY <1>2, <1>4 DEF PortInv, Counted
<1>9. PortInv(w)
  BY <1>6, <1>7, <1>8 DEF PortInv
<1>10. PortInv(tcp_ehash(w, c))
  BY <1>9, HashPorts
<1>11. PortInv(v)
  BY <1>10, GetPorts
<1> HIDE DEF v
<1> QED BY <1>1, <1>11, HandledPorts

\* The three answers to a segment in SYN_SENT.
LEMMA SynSentStep ==
    ASSUME PortInv(k), NEW s \in Socks, NEW g,
           SynSentReset(g, s) \/ SynSentAck(g, s) \/ SimultaneousOpen(g, s)
    PROVE  PortInv(k')
<1> DEFINE h == Held(s)
           a == [h EXCEPT !.state[s] = "CLOSED"]
           b == [h EXCEPT !.state[s] = "ESTABLISHED"]
           c == [h EXCEPT !.state[s] = "SYN_RECV"]
<1>1. \/ Handled(a, s) \/ Handled(wake_up(a, s), s) \/ Handled(Panic(b), s)
      \/ Handled(wake_up(b, s), s) \/ Handled(c, s)
  BY Zenon DEF SynSentReset, SynSentAck, SimultaneousOpen
<1>2. PortInv(h)
  BY HeldPorts
<1> HIDE DEF h
<1>3. PortInv(a) /\ PortInv(b) /\ PortInv(c)
  BY <1>2, StatePorts
<1> HIDE DEF a, b, c
<1>4. PortInv(wake_up(a, s)) /\ PortInv(wake_up(b, s)) /\ PortInv(Panic(b))
  BY <1>3, WakePorts, PanicPorts
<1> QED BY <1>1, <1>3, <1>4, HandledPorts

\* A RST unlinks the socket from the bind hash table once.
LEMMA ResetStep ==
    ASSUME PortInv(k), NEW s \in Socks, Reset(s)
    PROVE  PortInv(k')
<1> DEFINE h == Held(s)
           u(w) == tcp_unbhash(tcp_unhash([w EXCEPT !.state[s] = "CLOSED"], {s}), {s})
<1>1. Handled(u(h), s) \/ Handled(u(wake_up(h, s)), s)
  BY Zenon DEF Reset
<1>2. PortInv(h)
  BY HeldPorts
<1> HIDE DEF h
<1>3. PortInv(wake_up(h, s))
  BY <1>2, WakePorts
<1>4. PortInv(u(h)) /\ PortInv(u(wake_up(h, s)))
  BY <1>2, <1>3, UnhashedPorts
<1> HIDE DEF u
<1> QED BY <1>1, <1>4, HandledPorts

\* A SYN in a synchronised state deletes the socket and keeps the accounting.
LEMMA UnexpectedSynStep ==
    ASSUME PortInv(k), NEW s \in Socks, NEW g, UnexpectedSyn(g, s)
    PROVE  PortInv(k')
<1> DEFINE h == Held(s)
           u == tcp_unhash(h, {s})
           f(w) == free_sock([w EXCEPT !.state[s] = "CLOSED"], {s})
<1>1. Handled(f(h), s) \/ Handled(f(u), s)
  BY Zenon DEF UnexpectedSyn
<1>2. PortInv(h)
  BY HeldPorts
<1> HIDE DEF h
<1>3. PortInv(u)
  BY <1>2, HashPorts
<1> HIDE DEF u
<1>4. PortInv(f(h)) /\ PortInv(f(u))
  <2>1. /\ PortInv([h EXCEPT !.state[s] = "CLOSED"])
        /\ PortInv([u EXCEPT !.state[s] = "CLOSED"])
    BY <1>2, <1>3, StatePorts
  <2> QED BY <2>1, FreePorts
<1> HIDE DEF f
<1> QED BY <1>1, <1>4, HandledPorts

\* A segment with an ACK: its ACK, text and FIN steps in order.
LEMMA AckedStep ==
    ASSUME PortInv(k), NEW s \in Socks, Acked(s)
    PROVE  PortInv(k')
<1>0. PICK g \in Acks : k' = Processed(g, s)
  BY Zenon DEF Acked
<1> DEFINE h == Held(s)
           w == AckStep(h, g, s)
           f == FinStep(TextStep(w, g, s), g, s)
<1>1. Handled(w, s) \/ Handled(f, s)
  BY <1>0, Zenon DEF Processed, Handled
<1>2. PortInv(h)
  BY HeldPorts
<1> HIDE DEF h
<1>3. PortInv(w)
  BY <1>2, AckStepPorts
<1> HIDE DEF w
<1>4. PortInv(TextStep(w, g, s))
  BY <1>3, FinStepPorts
<1>5. PortInv(f)
  BY <1>4, FinStepPorts
<1> HIDE DEF f
<1> QED BY <1>1, <1>3, <1>5, HandledPorts

\* tcp_timewait_timer() gives back the ports of the sockets it expires.
LEMMA TimerStep ==
    ASSUME PortInv(k), tcp_timewait_timer
    PROVE  PortInv(k')
<1> DEFINE on   == Elems(k.timers)
           over == {s \in on : Expired(s)}
           w1 == [k EXCEPT !.timeout = [s \in Socks |-> IF s \in on THEN @[s] - 1 ELSE @[s]],
                           !.timers = Relinked(@),
                           !.state = [s \in Socks |-> IF s \in over THEN "CLOSED" ELSE @[s]]]
           act == {s \in over : k.parent[s] = None}
           w2 == tcp_unbhash(w1, act)
           w3 == tcp_unhash(w2, over)
<1>1. k' = free_sock(w3, over)
  BY Zenon DEF tcp_timewait_timer
<1>2. SamePorts(k, w1)
  BY Shape DEF SamePorts, Fields
<1>3. PortInv(w1)
  BY <1>2, Frame
<1> HIDE DEF w1, over, act
<1>4. PortInv(w2)
  BY <1>3, UnbhashPorts
<1> HIDE DEF w2
<1>5. PortInv(w3)
  BY <1>4, HashPorts
<1> HIDE DEF w3
<1> QED BY <1>1, <1>5, FreePorts

-----------------------------------------------------------------------------
\* Every step keeps the invariant.
LEMMA PortStep ==
    ASSUME PortInv(k), [Next]_vars
    PROVE  PortInv(k')
<1>1. CASE UNCHANGED vars
  BY <1>1 DEF vars
<1>2. ASSUME NEW s \in Socks, AppStep(s) PROVE PortInv(k')
  BY <1>2, SocketStep, BindStep, ListenStep, ConnectStep, ConnectWakeStep,
     ConnectReturnStep, AcceptStep, AcceptWakeStep, CloseStep DEF AppStep
<1>3. ASSUME NEW s \in Socks, NEW peer \in Peers, Segment(s, peer)
      PROVE  PortInv(k')
  BY <1>3, ListenSynStep, SynSentStep, ResetStep, UnexpectedSynStep, AckedStep
  DEF Segment
<1>4. CASE tcp_timewait_timer
  BY <1>4, TimerStep
<1> QED BY <1>1, <1>2, <1>3, <1>4 DEF Next

\* The invariant holds when no socket exists: every port is free.
LEMMA PortInit ==
    ASSUME Init
    PROVE  PortInv(k)
<1>1. /\ DOMAIN k = Fields
      /\ k.mem = [s \in Socks |-> "unused"] /\ k.sport = [s \in Socks |-> 0]
      /\ k.bhash = {} /\ k.bfree = NPorts /\ k.defport = BMin
  BY DEF Init, Fields
<1>2. NPorts \in Int /\ BMin \in BMin..BMax
  BY PortsAssumption DEF NPorts
<1>3. Cardinality(k.bhash) = 0
  BY <1>1, FS_EmptySet
<1> QED BY <1>1, <1>2, <1>3
        DEF PortInv, PortTypes, Bound, Counted, Distinct

\* The inductive invariant of the ports holds in every reachable state.
THEOREM PortInvariant == Spec => []PortInv(k)
<1>1. Init => PortInv(k)
  BY PortInit
<1>2. PortInv(k) /\ [Next]_vars => PortInv(k)'
  BY PortStep
<1> QED BY <1>1, <1>2, PTL DEF Spec

\* For any number of sockets and ports, and whatever the peers send: bfree is the
\* size of the range less the bound sockets, and a port has one bound socket
\* (FAQ: two sockets cannot be bound to one port).
THEOREM PortsAreAccounted == Spec => []PortsAccounted
<1>1. PortInv(k) => PortsAccounted
  BY DEF PortInv, Counted, Distinct, PortsAccounted
<1> QED BY <1>1, PortInvariant, PTL

\* The comment of tcp_get_port(), "assert that we can break the loop", is right:
\* whenever bfree is positive some port of the range is unused.
THEOREM PortSearchEnds == Spec => []PortLoopEnds
<1>1. PortInv(k) => PortLoopEnds
  BY FreePortExists DEF PortLoopEnds
<1> QED BY <1>1, PortInvariant, PTL

=============================================================================
