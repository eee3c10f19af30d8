------------------------------ MODULE TcpSock ------------------------------
(***************************************************************************)
(* The life of TCP sockets in the stack: the socket calls of applications, *)
(* the segment handler of the receive thread and the TIME-WAIT timer work  *)
(* on the same tcp_sock structures, hash tables and queues without a lock. *)
(*                                                                         *)
(* The state is one record k, the memory the three kinds of thread share;  *)
(* an operator named after a function of the code maps the memory before a *)
(* call to the memory after it.  A segment is handled in one step, as is a *)
(* tick of the timer; a blocking call is split where it sleeps.  Sequence  *)
(* numbers are abstracted to how an acknowledgment compares with SND.UNA   *)
(* and SND.NXT; a segment outside the window changes nothing modelled here *)
(* and is left out.                                                        *)
(***************************************************************************)
EXTENDS Integers, Sequences, FiniteSets

CONSTANTS
    Socks,        \* struct tcp_sock allocations, each used once
    Peers,        \* remote (address, port) pairs
    NoRoute,      \* the peers rt_lookup() finds no route to
    Ports,        \* the local ports a program may bind
    BMin, BMax,   \* TCP_BPORT_MIN, TCP_BPORT_MAX: the range of tcp_get_port()
    Backlogs,     \* the arguments of _listen() a program uses
    None,         \* the NULL pointer, an unset address
    Dead,         \* TCP_DEAD_PARENT
    SynInWindow,  \* peers may send a SYN inside the window of a connection
    Spurious      \* pthread_cond_wait() may return without a signal

ASSUME SocksAssumption == IsFiniteSet(Socks) /\ None \notin Socks /\ Dead \notin Socks
                          /\ None # Dead
ASSUME PeersAssumption == NoRoute \subseteq Peers /\ None \notin Peers
ASSUME PortsAssumption ==
    /\ Ports \subseteq Nat \ {0} /\ BMin \in Nat \ {0} /\ BMax \in Nat /\ BMin <= BMax
    /\ BMin..BMax \subseteq Ports
ASSUME BoundsAssumption == Backlogs \subseteq Nat /\ SynInWindow \in BOOLEAN
                           /\ Spurious \in BOOLEAN

VARIABLE k

vars == <<k>>

NPorts == BMax - BMin + 1
TimewaitTicks == 2    \* TCP_TIMEWAIT_TIMEOUT in ticks of tcp_timewait_timer()

Waiting == {"SYN_RECV", "SYN_SENT"}
Transfer == {"ESTABLISHED", "FIN_WAIT1", "FIN_WAIT2"}
States == Waiting \cup Transfer \cup
          {"CLOSED", "LISTEN", "CLOSE_WAIT", "LAST_ACK", "CLOSING", "TIME_WAIT"}
Synchronised == States \ {"CLOSED", "LISTEN", "SYN_SENT"}

(***************************************************************************)
(* Per tcp_sock: mem, ref (sk.refcnt), state, sport, dst (daddr and        *)
(* dport), parent, backlog, accept_backlog, lq and aq (listen_queue and    *)
(* accept_queue), wait (which of wait_connect, wait_accept is set), rwait  *)
(* (recv_wait is set), timeout.  Per struct socket: fd ("closing": closed  *)
(* inside a call, "gone": freed), call (where the call is), dead,          *)
(* notified.  Global: the three hash tables, bfree, defport, the timer     *)
(* list and panic (a NULL or freed pointer was used).                      *)
(***************************************************************************)
Init == k = [
    mem     |-> [s \in Socks |-> "unused"], ref    |-> [s \in Socks |-> 0],
    state   |-> [s \in Socks |-> "CLOSED"], sport  |-> [s \in Socks |-> 0],
    dst     |-> [s \in Socks |-> None],     parent |-> [s \in Socks |-> None],
    backlog |-> [s \in Socks |-> 0], accept_backlog |-> [s \in Socks |-> 0],
    lq      |-> [s \in Socks |-> {}],       aq     |-> [s \in Socks |-> <<>>],
    wait    |-> [s \in Socks |-> "none"],   rwait  |-> [s \in Socks |-> FALSE],
    timeout |-> [s \in Socks |-> 0],        fd     |-> [s \in Socks |-> "none"],
    call    |-> [s \in Socks |-> "none"],   dead   |-> [s \in Socks |-> FALSE],
    notified |-> [s \in Socks |-> FALSE],
    ehash |-> {}, lhash |-> <<>>, bhash |-> {}, bfree |-> NPorts, defport |-> BMin,
    timers |-> <<>>, panic |-> FALSE]

Elems(q) == {q[i] : i \in 1..Len(q)}
Push(q, s) == <<s>> \o q
One(S) == [s \in Socks |-> IF s \in S THEN 1 ELSE 0]

-----------------------------------------------------------------------------
(* References: get_sock() and free_sock().                                 *)

get_sock(w, s) == [w EXCEPT !.ref[s] = @ + 1]

\* Drop n[s] references to each s; the last one frees it
Put(w, n) ==
    [w EXCEPT !.ref = [s \in Socks |-> w.ref[s] - n[s]],
              !.mem = [s \in Socks |-> IF n[s] > 0 /\ w.ref[s] - n[s] <= 0
                                       THEN "freed" ELSE w.mem[s]],
              !.panic = @ \/ \E s \in Socks : n[s] > 0 /\ w.mem[s] # "live"]

free_sock(w, S) == Put(w, One(S))

-----------------------------------------------------------------------------
(* The hash tables of tcp_sock.c; each membership is a reference.          *)

Hashed(w) == w.ehash \cup Elems(w.lhash)

tcp_ehash_conflict_never(w, s) == FALSE
tcp_ehash_conflict(w, s) ==
    \E t \in w.ehash : w.sport[t] = w.sport[s] /\ w.dst[t] = w.dst[s]

tcp_ehash(w, s) == get_sock([w EXCEPT !.ehash = @ \cup {s}], s)
\* A sock has one link for both tables: hashing it twice corrupts a chain
tcp_lhash(w, s) == get_sock([w EXCEPT !.lhash = Push(@, s),
                                      !.panic = @ \/ s \in Hashed(w)], s)

tcp_unhash_listener_kept(w, S) ==
    free_sock([w EXCEPT !.ehash = @ \ S], S \cap w.ehash)
tcp_unhash(w, S) ==
    free_sock([w EXCEPT !.ehash = @ \ S,
                        !.lhash = SelectSeq(@, LAMBDA s : s \notin S)],
              S \cap Hashed(w))

tcp_port_used(w, p) == \E s \in w.bhash : w.sport[s] = p

NextPort(p) == IF p + 1 > BMax THEN BMin ELSE p + 1

\* The loop of tcp_get_port(): the first unused port from defport on
UnusedPorts(w) == {p \in BMin..BMax : ~tcp_port_used(w, p)}
tcp_get_port(w) ==
    CHOOSE p \in UnusedPorts(w) :
        \A q \in UnusedPorts(w) : (p - w.defport) % NPorts <= (q - w.defport) % NPorts

\* tcp_set_sport() with port p, 0 to choose one: whether it succeeds, its effect
set_sport_ok(w, p) == IF p = 0 THEN w.bfree > 0 /\ UnusedPorts(w) # {}
                               ELSE ~tcp_port_used(w, p)
tcp_set_sport_uncounted(w, s, p) ==
    LET port == IF p = 0 THEN tcp_get_port(w) ELSE p IN
    get_sock([w EXCEPT !.sport[s] = port, !.bhash = @ \cup {s},
                       !.defport = IF p = 0 THEN NextPort(port) ELSE @], s)
tcp_set_sport(w, s, p) ==
    LET port == IF p = 0 THEN tcp_get_port(w) ELSE p IN
    get_sock([w EXCEPT !.bfree = @ - 1, !.sport[s] = port,
                       !.bhash = @ \cup {s},
                       !.defport = IF p = 0 THEN NextPort(port) ELSE @], s)

tcp_unbhash_unchecked(w, S) ==
    free_sock([w EXCEPT !.bhash = @ \ S, !.bfree = @ + Cardinality(S)],
              S \cap w.bhash)
tcp_unbhash(w, S) ==
    free_sock([w EXCEPT !.bhash = @ \ S,
                        !.bfree = @ + Cardinality(S \cap w.bhash)],
              S \cap w.bhash)

\* A connection first, then the newest listener of the port
tcp_lookup_sock(w, peer, port) ==
    LET conn == {s \in w.ehash : w.sport[s] = port /\ w.dst[s] = peer}
        lsn  == SelectSeq(w.lhash, LAMBDA s : w.sport[s] = port)
    IN  IF conn # {} THEN conn ELSE IF lsn # <<>> THEN {lsn[1]} ELSE {}

-----------------------------------------------------------------------------
(* wake_up() on the tapip_wait inside the struct socket of s.              *)

Panic(w) == [w EXCEPT !.panic = TRUE]

wake_up(w, s) ==
    IF w.fd[s] \notin {"open", "closing"} THEN Panic(w)
    ELSE [w EXCEPT !.notified[s] = @ \/ ~w.dead[s]]

Awake_deaf_to_close(s) == k.notified[s]
\* sleep_on() returns when it was notified or closed; it may for no reason
Awake(s) == k.notified[s] \/ k.dead[s]
MayWake(s) == Awake(s) \/ Spurious

tcp_recv_notify(w, s) == IF w.rwait[s] THEN wake_up(w, s) ELSE w

-----------------------------------------------------------------------------
(* Closing: inet_close() and tcp_close().                                  *)

tcp_clear_listen_queue(w, s) ==
    LET half == {c \in w.lq[s] : w.state[c] = "SYN_RECV"}
        w1 == [w EXCEPT !.lq[s] = {},
                        !.parent = [c \in Socks |-> IF c \in half THEN None ELSE @[c]],
                        !.panic = @ \/ \E c \in w.lq[s] : w.mem[c] # "live"]
        w2 == Put(w1, [c \in Socks |-> IF c = s THEN Cardinality(half) ELSE 0])
    IN  free_sock(tcp_unhash(w2, half), half)

tcp_close(w, s) ==
    CASE w.state[s] = "LISTEN" ->
           [tcp_unbhash(tcp_unhash(tcp_clear_listen_queue(w, s), {s}), {s})
               EXCEPT !.state[s] = "CLOSED"]
      [] w.state[s] = "ESTABLISHED" -> [w EXCEPT !.state[s] = "FIN_WAIT1"]
      [] w.state[s] = "CLOSE_WAIT"  -> [w EXCEPT !.state[s] = "LAST_ACK"]
      [] OTHER -> w

inet_close(w, s) == free_sock([tcp_close(w, s) EXCEPT !.fd[s] = "gone"], {s})

\* free_socket() at the end of a call: the last reference closes the sock
free_socket(w, s) ==
    LET w1 == [w EXCEPT !.call[s] = "none"]
    IN  IF w.fd[s] = "closing" THEN inet_close(w1, s) ELSE w1

-----------------------------------------------------------------------------
(* The socket calls of an application; a socket is used by one thread, and *)
(* _close() may come from another (a signal handler) during a call.  What  *)
(* a call does with a sock freed under it is undefined and left out.       *)

Idle(s) == k.fd[s] = "open" /\ k.call[s] = "none" /\ k.mem[s] = "live"

Socket(s) ==
    /\ k.mem[s] = "unused"
    /\ k' = [k EXCEPT !.mem[s] = "live", !.ref[s] = 1, !.fd[s] = "open",
                      !.rwait[s] = TRUE]

Bind(s, p) ==
    /\ Idle(s) /\ k.sport[s] = 0 /\ set_sport_ok(k, p)
    /\ k' = [tcp_set_sport(k, s, p) EXCEPT !.dst[s] = None]

Listen(s, backlog) ==
    /\ Idle(s) /\ k.sport[s] # 0 /\ k.state[s] \in {"CLOSED", "LISTEN"}
    /\ LET w == [k EXCEPT !.backlog[s] = backlog, !.state[s] = "LISTEN"]
       IN  k' = IF k.state[s] = "LISTEN" THEN w ELSE tcp_lhash(w, s)

\* inet_connect() up to the route: a socket without a port gets one
Autobound(s) == IF k.sport[s] = 0 THEN tcp_set_sport(k, s, 0) ELSE k
CanConnect(s) == Idle(s) /\ k.dst[s] = None /\ (k.sport[s] = 0 => set_sport_ok(k, 0))

ConnectNoRoute(s, d) ==
    /\ CanConnect(s) /\ d \in NoRoute
    /\ k' = Autobound(s)

\* tcp_connect() up to sleep_on()
Connect(s, d) ==
    /\ CanConnect(s) /\ d \notin NoRoute /\ k.state[s] = "CLOSED"
    /\ LET w == [Autobound(s) EXCEPT !.dst[s] = d]
       IN  k' = IF tcp_ehash_conflict(w, s) THEN w
                ELSE [tcp_ehash(w, s) EXCEPT !.state[s] = "SYN_SENT",
                                             !.wait[s] = "connect",
                                             !.call[s] = "connect"]

\* tcp_wait_connect() returns with its error
ConnectWake(s) ==
    /\ k.call[s] = "connect" /\ MayWake(s)
    /\ k' = [k EXCEPT !.notified[s] = FALSE, !.wait[s] = "none",
                      !.call[s] = IF k.dead[s] THEN "failed" ELSE "woken"]

\* The rest of tcp_connect() and of _connect()
ConnectReturn(s) ==
    /\ k.call[s] \in {"woken", "failed"}
    /\ LET fail == [tcp_unbhash(tcp_unhash(k, {s}), {s}) EXCEPT !.state[s] = "CLOSED"]
           ok == k.call[s] = "woken" /\ k.state[s] = "ESTABLISHED"
       IN  k' = free_socket(IF ok THEN k ELSE fail, s)

\* tcp_accept_dequeue() and the end of tcp_accept(), inet_accept(), _accept()
Dequeue(s) ==
    LET c  == Head(k.aq[s])
        w1 == [k EXCEPT !.aq[s] = Tail(@), !.accept_backlog[s] = @ - 1]
        w2 == free_sock(w1, {c})
        w3 == [free_sock(w2, {k.parent[c]}) EXCEPT !.parent[c] = Dead]
        w4 == [get_sock(w3, c) EXCEPT !.fd[c] = "open"]
    IN  IF w2.mem[c] = "freed" THEN Panic(w2) ELSE free_socket(w4, s)

\* The loop test of tcp_accept(): take a child or go to sleep
Accept(s) ==
    /\ Idle(s) \/ k.call[s] = "retry"
    /\ k' = IF k.aq[s] # <<>> THEN Dequeue(s)
            ELSE IF k.rwait[s]
                 THEN [k EXCEPT !.wait[s] = "accept", !.call[s] = "accept"]
            ELSE Panic(k)    \* sk.sock of an accepted sock is NULL

\* tcp_wait_accept() returns
AcceptWake(s) ==
    /\ k.call[s] = "accept" /\ MayWake(s)
    /\ LET w == [k EXCEPT !.notified[s] = FALSE, !.wait[s] = "none"]
       IN  k' = IF k.dead[s] THEN free_socket(w, s) ELSE [w EXCEPT !.call[s] = "retry"]

\* _close(): wait_exit(), then the application's reference
Close(s) ==
    /\ k.fd[s] = "open"
    /\ LET w == [k EXCEPT !.dead[s] = TRUE]
       IN  k' = IF k.call[s] = "none" THEN inet_close(w, s)
                ELSE [w EXCEPT !.fd[s] = "closing"]

-----------------------------------------------------------------------------
(* tcp_process(): a segment from a peer to the port of socket s.  A field  *)
(* num says where SEG.ACK lies: at SND.UNA, in (SND.UNA, SND.NXT], or      *)
(* ahead of it; one below SND.UNA is treated as one ahead in SYN_RECV and  *)
(* as one at SND.UNA elsewhere.  rst and syn segments end before the text  *)
(* and FIN steps; a segment with none of rst, syn and ack does nothing.    *)

AckNums == {"una", "new", "ahead"}
Flags(rst, syn, ack, fin, psh) == [rst : rst, syn : syn, ack : ack, fin : fin,
                                   psh : psh, num : AckNums]
\* Without ACK there is no SEG.ACK
Sent(kinds) == {g \in kinds : g.ack \/ g.num = "una"}
Resets == Sent(Flags({TRUE}, {FALSE}, BOOLEAN, {FALSE}, {FALSE}))
Syns == Sent(Flags({FALSE}, {TRUE}, BOOLEAN, {FALSE}, {FALSE}))
Acks == Flags({FALSE}, {FALSE}, {TRUE}, BOOLEAN, BOOLEAN)

\* The lookup of tcp_recv() takes a reference, its end drops it
Held(s) == get_sock(k, s)
Dropped(w, s) == free_sock(w, {s})
Handled(w, s) == k' = Dropped(w, s)

\* tcp_listen_child_sock()
ListenSyn(g, s, peer, c) ==
    /\ k.state[s] = "LISTEN" /\ ~g.rst /\ ~g.ack /\ g.syn
    /\ k.mem[c] = "unused"
    /\ LET w == [Held(s) EXCEPT !.mem[c] = "live", !.state[c] = "SYN_RECV",
                                !.sport[c] = k.sport[s], !.dst[c] = peer,
                                !.parent[c] = s, !.lq[s] = @ \cup {c}]
       IN  /\ ~tcp_ehash_conflict(w, c)
           /\ Handled(get_sock(get_sock(tcp_ehash(w, c), c), s), s)

Acceptable(g) == g.ack => g.num = "new"

\* tcp_synsent(): a reset refuses the connection
SynSentReset(g, s) ==
    /\ k.state[s] = "SYN_SENT" /\ g.rst /\ g.ack /\ Acceptable(g)
    /\ LET w == [Held(s) EXCEPT !.state[s] = "CLOSED"]
       IN  Handled(IF k.wait[s] = "connect" THEN wake_up(w, s) ELSE w, s)

\* tcp_synsent(): SYN and ACK; wait_connect is used without a test
SynSentAck(g, s) ==
    /\ k.state[s] = "SYN_SENT" /\ g.syn /\ g.ack /\ Acceptable(g)
    /\ LET w == [Held(s) EXCEPT !.state[s] = "ESTABLISHED"]
       IN  Handled(IF k.wait[s] = "connect" THEN wake_up(w, s) ELSE Panic(w), s)

SimultaneousOpen(g, s) ==
    /\ k.state[s] = "SYN_SENT" /\ g.syn /\ ~g.ack
    /\ Handled([Held(s) EXCEPT !.state[s] = "SYN_RECV"], s)

\* Second step of tcp_process(): RST, with or without ACK
Reset(s) ==
    /\ k.state[s] \in Synchronised
    /\ LET refused == k.state[s] = "SYN_RECV" /\ k.parent[s] = None
                      /\ k.wait[s] = "connect"
           w == IF refused THEN wake_up(Held(s), s) ELSE Held(s)
       IN  Handled(tcp_unbhash(tcp_unhash([w EXCEPT !.state[s] = "CLOSED"], {s}), {s}), s)

\* Fourth step: a SYN in the window
UnexpectedSyn(g, s) ==
    /\ SynInWindow /\ k.state[s] \in Synchronised /\ g.syn
    /\ LET w == IF k.state[s] = "SYN_RECV" /\ k.parent[s] # None
                THEN tcp_unhash(Held(s), {s}) ELSE Held(s)
       IN  Handled(free_sock([w EXCEPT !.state[s] = "CLOSED"], {s}), s)

tcp_accept_queue_full(w, s) == w.accept_backlog[s] >= w.backlog[s]

tcp_accept_enqueue_kept_listed(w, s) ==
    LET p == w.parent[s] IN
    [w EXCEPT !.aq[p] = Push(@, s), !.accept_backlog[s] = @ + 1]
\* tcp_accept_enqueue(): to the head of the queue, and the child's own counter
tcp_accept_enqueue(w, s) ==
    LET p == w.parent[s] IN
    [w EXCEPT !.lq[p] = @ \ {s}, !.aq[p] = Push(@, s), !.accept_backlog[s] = @ + 1]

\* tcp_synrecv_ack() on success; wait_accept is used without a test
tcp_synrecv_ack(w, s) ==
    LET p == w.parent[s] IN
    IF w.wait[p] = "accept" THEN wake_up(tcp_accept_enqueue(w, s), p) ELSE Panic(w)

tcp_set_timewait_timer_unreferenced(w, s) ==
    [w EXCEPT !.state[s] = "TIME_WAIT", !.timeout[s] = TimewaitTicks,
              !.timers = Push(@, s)]
tcp_set_timewait_timer(w, s) ==
    get_sock([w EXCEPT !.state[s] = "TIME_WAIT", !.timeout[s] = TimewaitTicks,
                       !.timers = Push(@, s)], s)

\* Fifth step: whether the ACK field lets the segment go on to text and FIN
AckGoesOn(w, g, s) ==
    CASE w.state[s] = "SYN_RECV" ->
           /\ g.num \in {"una", "new"}
           /\ w.parent[s] # None => /\ w.state[w.parent[s]] = "LISTEN"
                                    /\ ~tcp_accept_queue_full(w, w.parent[s])
      [] w.state[s] \in {"CLOSING", "LAST_ACK"} -> g.num \notin {"new", "ahead"}
      [] w.state[s] \in {"ESTABLISHED", "CLOSE_WAIT", "FIN_WAIT1"} -> g.num # "ahead"
      [] OTHER -> TRUE

AckStep(w, g, s) ==
    CASE w.state[s] = "SYN_RECV" /\ AckGoesOn(w, g, s) ->
           IF w.parent[s] = None THEN Panic(w)
           ELSE [tcp_synrecv_ack(w, s) EXCEPT !.state[s] = "ESTABLISHED"]
      [] w.state[s] = "FIN_WAIT1" /\ g.num = "new" -> [w EXCEPT !.state[s] = "FIN_WAIT2"]
      [] w.state[s] = "CLOSING" /\ g.num = "new" -> tcp_set_timewait_timer(w, s)
      [] w.state[s] = "LAST_ACK" /\ g.num = "new" ->
           tcp_unbhash(tcp_unhash([w EXCEPT !.state[s] = "CLOSED"], {s}), {s})
      [] OTHER -> w

\* Seventh step: pushed text wakes the reader
TextStep(w, g, s) ==
    IF g.psh /\ w.state[s] \in Transfer THEN tcp_recv_notify(w, s) ELSE w

\* Eighth step: FIN
FinStep(w, g, s) ==
    IF ~g.fin THEN w
    ELSE CASE w.state[s] = "ESTABLISHED" ->
                tcp_recv_notify([w EXCEPT !.state[s] = "CLOSE_WAIT"], s)
           [] w.state[s] = "FIN_WAIT1" -> [w EXCEPT !.state[s] = "CLOSING"]
           [] w.state[s] = "FIN_WAIT2" -> tcp_set_timewait_timer(w, s)
           [] w.state[s] = "TIME_WAIT" -> [w EXCEPT !.timeout[s] = TimewaitTicks]
           [] OTHER -> w

\* The memory after tcp_recv() of an acknowledgment g that passes the first four steps
Processed(g, s) ==
    LET w == AckStep(Held(s), g, s)
    IN  Dropped(IF AckGoesOn(k, g, s) THEN FinStep(TextStep(w, g, s), g, s) ELSE w, s)

Acked(s) == k.state[s] \in Synchronised /\ k' \in {Processed(g, s) : g \in Acks}

\* tcp_recv() with the sock it finds
Segment(s, peer) ==
    \/ \E g \in Resets : SynSentReset(g, s)
    \/ Reset(s)
    \/ \E g \in Syns : \/ \E c \in Socks : ListenSyn(g, s, peer, c)
                       \/ SynSentAck(g, s)
                       \/ SimultaneousOpen(g, s)
                       \/ UnexpectedSyn(g, s)
    \/ Acked(s)

-----------------------------------------------------------------------------
(* tcp_timewait_timer(), once a second.  It sets the link of every entry   *)
(* it visits to NULL and restores it only when the next one expires, so    *)
(* the list ends at the first kept entry that a kept entry follows.        *)

Expired(s) == k.timeout[s] - 1 <= 0

Relinked(q) ==
    LET cuts == {i \in 1..Len(q) - 1 : ~Expired(q[i]) /\ ~Expired(q[i + 1])}
        last == CHOOSE i \in cuts \cup {Len(q)} : \A j \in cuts \cup {Len(q)} : i <= j
    IN  SelectSeq(SubSeq(q, 1, last), LAMBDA s : ~Expired(s))

tcp_timewait_timer ==
    /\ k.timers # <<>>
    /\ LET on   == Elems(k.timers)
           over == {s \in on : Expired(s)}
           w1 == [k EXCEPT !.timeout = [s \in Socks |-> IF s \in on THEN @[s] - 1 ELSE @[s]],
                           !.timers = Relinked(@),
                           !.state = [s \in Socks |-> IF s \in over THEN "CLOSED" ELSE @[s]]]
           w2 == tcp_unbhash(w1, {s \in over : k.parent[s] = None})
       IN  k' = free_sock(tcp_unhash(w2, over), over)

-----------------------------------------------------------------------------
AppStep(s) ==
    \/ Socket(s)
    \/ \E p \in Ports \cup {0} : Bind(s, p)
    \/ \E b \in Backlogs : Listen(s, b)
    \/ \E d \in Peers : ConnectNoRoute(s, d)
    \/ \E d \in Peers : Connect(s, d)
    \/ ConnectWake(s)
    \/ ConnectReturn(s)
    \/ Accept(s)
    \/ AcceptWake(s)
    \/ Close(s)

\* Every lookup walks a hash chain: nothing is said of the program once a chain
\* holds a freed sock, or a NULL or freed pointer was used
Defined == ~k.panic /\ \A s \in Hashed(k) \cup k.bhash : k.mem[s] # "freed"

Next ==
    /\ Defined
    /\ \/ \E s \in Socks : AppStep(s)
       \/ \E s \in Socks, peer \in Peers, port \in Ports :
             s \in tcp_lookup_sock(k, peer, port) /\ Segment(s, peer)
       \/ tcp_timewait_timer

Spec == Init /\ [][Next]_vars
-----------------------------------------------------------------------------
\* What the memory may hold.
Memory == [
    mem     : [Socks -> {"unused", "live", "freed"}], ref : [Socks -> Int],
    state   : [Socks -> States],  sport : [Socks -> Ports \cup {0}],
    dst     : [Socks -> Peers \cup {None}],
    parent  : [Socks -> Socks \cup {None, Dead}],
    backlog : [Socks -> Backlogs \cup {0}], accept_backlog : [Socks -> Int],
    lq      : [Socks -> SUBSET Socks], aq : [Socks -> Seq(Socks)],
    wait    : [Socks -> {"none", "connect", "accept"}], rwait : [Socks -> BOOLEAN],
    timeout : [Socks -> Int],
    fd      : [Socks -> {"none", "open", "closing", "gone"}],
    call    : [Socks -> {"none", "connect", "woken", "failed", "accept", "retry"}],
    dead    : [Socks -> BOOLEAN], notified : [Socks -> BOOLEAN],
    ehash : SUBSET Socks, lhash : Seq(Socks), bhash : SUBSET Socks, bfree : Int,
    defport : BMin..BMax, timers : Seq(Socks), panic : BOOLEAN]

\* Every field of the shared memory keeps its type in every handler and call.
TypeOK == k \in Memory

\* The pointers to s the stack and the applications keep
Occurrences(q, s) == Cardinality({i \in 1..Len(q) : q[i] = s})
Count(b) == IF b THEN 1 ELSE 0
Pointers(s) ==
    Count(k.fd[s] \in {"open", "closing"}) + Count(s \in k.ehash)
    + Occurrences(k.lhash, s) + Count(s \in k.bhash) + Occurrences(k.timers, s)
    + Cardinality({c \in Socks : k.parent[c] = s})
    + Cardinality({l \in Socks : s \in k.lq[l]})
    + Cardinality({l \in Socks : Occurrences(k.aq[l], s) > 0})

\* Types are kept, and free_sock() frees a sock only when no table, queue, timer, child or
\* application still points to it: every kept pointer has its reference.
NoDanglingPointer == TypeOK /\ (~k.panic => \A s \in Socks : Pointers(s) <= k.ref[s])

\* bfree is TCP_BPORT_MAX - TCP_BPORT_MIN + 1 less the bound sockets, and no two
\* of them share a port.
PortsAccounted ==
    /\ k.bfree + Cardinality(k.bhash) = NPorts
    /\ \A s, t \in k.bhash : s # t => k.sport[s] # k.sport[t]

\* "assert that we can break the loop": tcp_get_port() finds an unused port
\* whenever bfree lets it start searching.
PortLoopEnds == k.bfree > 0 => UnusedPorts(k) # {}

\* A connection that is not closed can be found by its segments, and a closed
\* one is found only while its connect call is still to clean up.
HashMatchesState ==
    ~k.panic => \A s \in Socks :
        /\ k.mem[s] = "live" /\ k.state[s] \notin {"CLOSED", "LISTEN"} => s \in k.ehash
        /\ k.state[s] = "LISTEN" => s \in Elems(k.lhash)
        /\ s \in k.ehash /\ k.state[s] = "CLOSED" => k.call[s] \in {"connect", "woken", "failed"}
        /\ s \in Elems(k.lhash) => k.state[s] = "LISTEN"

\* A child waits in at most one queue, the one of the listener it refers to.
QueuesMatchParents ==
    \A l \in Socks :
        /\ \A c \in k.lq[l] \cup Elems(k.aq[l]) : k.parent[c] = l
        /\ k.lq[l] \cap Elems(k.aq[l]) = {}
        /\ \A i, j \in 1..Len(k.aq[l]) : i # j => k.aq[l][i] # k.aq[l][j]

\* The connection a segment belongs to is never ambiguous: no two hashed
\* connections have the same local port and peer.
UniqueConnections ==
    \A s, t \in k.ehash : s # t => k.sport[s] # k.sport[t] \/ k.dst[s] # k.dst[t]

\* Weak fairness of the thread inside a call on s, written with the condition
\* for its next step: the thread is scheduled when it is not asleep.
Runnable(s) == ~k.panic /\ \/ k.call[s] \in {"woken", "failed", "retry"}
                           \/ k.call[s] \in {"connect", "accept"} /\ Awake(s)
CallStep(s) == \/ ConnectWake(s) \/ ConnectReturn(s) \/ AcceptWake(s)
               \/ k.call[s] = "retry" /\ Accept(s)
Fairness == \A s \in Socks : []<>~Runnable(s) \/ []<><<CallStep(s)>>_vars

FairSpec == Spec /\ Fairness

\* "If sock is waited on recv/accept, we wake it up first": a connect or an
\* accept in progress ends after _close(), whatever it was waiting for.
CloseEndsCall ==
    \A s \in Socks : (k.dead[s] /\ k.call[s] # "none") ~> (k.call[s] = "none" \/ k.panic)

-----------------------------------------------------------------------------
(* What comments of the code say and the code does not do.                 *)

\* tcp_timer.c: "TIME-WAIT expires: tcb deletion" -- a sock in TIME-WAIT is on
\* the timer's list.
TimeWaitIsTimed ==
    \A s \in Socks : k.mem[s] = "live" /\ k.state[s] = "TIME_WAIT" => s \in Elems(k.timers)

\* tcp.h: accept_backlog is the "current entries of accept queue", backlog the
\* "size of accept queue" -- the queue never holds more.
AcceptQueueBounded == \A s \in Socks : Len(k.aq[s]) <= k.backlog[s]

\* inet.c: "this reference for inet_close()" -- a child accept() can hand out is
\* kept by more than the queue's reference, which accept() drops before using it.
QueuedChildIsKept ==
    \A s \in Socks : \A c \in Elems(k.aq[s]) : k.ref[c] > 1

\* tcp_state.c: "We delete child tsk directly" -- a deleted child is in no queue.
NoDeletedChildQueued ==
    \A s \in Socks : \A c \in k.lq[s] \cup Elems(k.aq[s]) : k.mem[c] = "live"

\* inet.c: "if connect error happen, it will auto unbind".
ConnectErrorUnbinds ==
    [][\A s \in Socks, d \in Peers :
         (Connect(s, d) \/ ConnectNoRoute(s, d)) /\ k'.call[s] = "none"
         => s \notin k'.bhash]_vars

\* tcp_sock.c: "We dont need to check conflict of listen hash / bind hash has
\* done it for us" -- no two sockets listen on a port.
OneListenerPerPort ==
    \A i, j \in 1..Len(k.lhash) : i # j => k.sport[k.lhash[i]] # k.sport[k.lhash[j]]

\* tcp.h: accept_queue is for finished handshakes, wait.h: "If wake_up() is
\* called before sleep_on(), @notified can skip next waiting" -- the ACK that
\* finishes a handshake may come while no thread is inside accept().
HandshakeNeedsNoAccepter ==
    [][\A s \in Socks : k.state[s] = "SYN_RECV" /\ k.parent[s] \in Socks
                        /\ Acked(s) => ~k'.panic]_vars

\* tcp_hash.h: bfree is about "[bmin, bmax]" -- it counts the free ports there.
BfreeCountsRange == k.bfree = Cardinality(UnusedPorts(k))

\* socket.c: "Now sock has nothing to do with net stack, we can free it
\* directly" -- text that comes after _close() does not touch the struct socket.
LateTextIsHarmless ==
    [][\A s \in Socks : k.state[s] \in {"FIN_WAIT1", "FIN_WAIT2"}
                        /\ Acked(s) => ~k'.panic]_vars

=============================================================================
