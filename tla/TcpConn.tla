------------------------------ MODULE TcpConn ------------------------------
(***************************************************************************)
(* One TCP connection between two stacks: a client that connects, writes,  *)
(* reads and closes, and a server that accepts and does the same, over a   *)
(* network that loses, repeats and delays segments.  TcpSock has the       *)
(* memory of many sockets and no numbers; here are the numbers of one      *)
(* connection: sequence and acknowledgment numbers, windows and the text.  *)
(*                                                                         *)
(* Both initial sequence numbers are 0 and a byte of text is its sequence  *)
(* number.  No segment is ever sent again: the code has no retransmission. *)
(* An application thread and the receive thread of an end interleave       *)
(* between a send and the code after it; a segment is handled in one step. *)
(* With a local plan both ends are in one stack and a send delivers the    *)
(* segment, and the answers to it, before it returns.                      *)
(*                                                                         *)
(* The server is in _accept() when the handshake ends and closes its       *)
(* listening socket before the connection, as snc.c does.  A bare SYN to   *)
(* an end in SYN_SENT (simultaneous open) does not occur; it is in TcpSock.*)
(***************************************************************************)
EXTENDS TcpText

CONSTANTS
    Window,     \* TCP_DEFAULT_WINDOW
    Mss,        \* the segsize of tcp_send_text()
    Lens,       \* the lengths passed to _write()
    Plans       \* what may happen; a behaviour follows one of them

Ends == {"cli", "srv"}

\* text: bytes each end may write; close: the ends that may close; faults: losses,
\* repetitions and delays of the network; local: one stack has both ends
Plan == [text : [Ends -> Nat], close : SUBSET Ends, faults : Nat, local : BOOLEAN]

ASSUME ConnAssumption ==
    /\ Window \in Nat \ {0} /\ Mss \in Nat \ {0} /\ Lens \subseteq Nat \ {0}
    /\ Plans \subseteq Plan

VARIABLES
    ep,      \* the tcp_sock of each end, and where its application is
    net,     \* net[x]: the segments on their way to x
    read,    \* history: read[x], how many bytes _read() has returned
    hurt,    \* history: what has happened that the code does not repair
    plan,    \* the plan of this behaviour, its faults those still to come
    panic    \* "": running; otherwise what ended the program

vars == <<ep, net, read, hurt, plan, panic>>

Peer(x) == IF x = "cli" THEN "srv" ELSE "cli"

(***************************************************************************)
(* An end.  una, nxt, wnd, wl1, wl2: the fields snd_...; rcv: the          *)
(* receiving half; ackf: TCP_F_ACKNOW or TCP_F_ACKDELAY, which nothing     *)
(* clears; after: the code after a send that has still to run; left: what  *)
(* tcp_send_text() has still to send.                                      *)
(***************************************************************************)
NewEnd(state) ==
    [state |-> state, hashed |-> state # "CLOSED", una |-> 0, nxt |-> 0,
     wnd |-> 0, wl1 |-> 0, wl2 |-> 0, rcv |-> NewHalf(0, Window),
     ackf |-> FALSE, app |-> "none", after |-> "none", left |-> 0]

Init ==
    /\ ep = [x \in Ends |-> NewEnd(IF x = "srv" THEN "LISTEN" ELSE "CLOSED")]
    /\ net = [x \in Ends |-> <<>>]
    /\ read = [x \in Ends |-> 0]
    /\ hurt = {} /\ plan \in Plans /\ panic = ""

-----------------------------------------------------------------------------
(* tcp_out.c and tcp_init_text(): the segments.                            *)

Segment == [seq |-> 0, len |-> 0, ackn |-> 0, wnd |-> 0,
            ack |-> FALSE, syn |-> FALSE, fin |-> FALSE, rst |-> FALSE, psh |-> FALSE]

\* The len of a tcp_segment
SegLen(g) == g.len + (IF g.syn THEN 1 ELSE 0) + (IF g.fin THEN 1 ELSE 0)

tcp_send_ack(e) ==
    [Segment EXCEPT !.seq = e.nxt, !.ackn = e.rcv.nxt, !.ack = TRUE, !.wnd = e.rcv.wnd]
tcp_send_syn(e) == [Segment EXCEPT !.syn = TRUE, !.wnd = e.rcv.wnd]
tcp_send_synack(e) ==
    [Segment EXCEPT !.ackn = e.rcv.nxt, !.syn = TRUE, !.ack = TRUE, !.wnd = e.rcv.wnd]
tcp_send_fin_without_ack(e) == [tcp_send_ack(e) EXCEPT !.fin = TRUE, !.ack = FALSE, !.ackn = 0]
tcp_send_fin(e) == [tcp_send_ack(e) EXCEPT !.fin = TRUE]
tcp_init_text(e, n) == [tcp_send_ack(e) EXCEPT !.len = n, !.psh = n = e.left]

\* Nothing answers a reset
tcp_send_reset(g) ==
    CASE g.rst -> <<>>
      [] ~g.rst /\ g.ack -> <<[Segment EXCEPT !.seq = g.ackn, !.rst = TRUE]>>
      [] OTHER -> <<[Segment EXCEPT !.ackn = g.seq + SegLen(g), !.ack = TRUE, !.rst = TRUE]>>

-----------------------------------------------------------------------------
(* tcp_state.c.  A handler returns the end e and the answers.              *)

Done(e, answers) == [e |-> e, answers |-> answers]

tcp_listen(e, g) ==
    IF g.rst THEN Done(e, <<>>)
    ELSE IF g.ack THEN Done(e, tcp_send_reset(g))
    ELSE IF ~g.syn THEN Done(e, <<>>)
    ELSE LET child == [NewEnd("SYN_RECV") EXCEPT !.rcv = NewHalf(g.seq + 1, Window),
                                                 !.after = "synack"]
         IN  Done(child, <<tcp_send_synack(child)>>)

Unacceptable_at_nxt(e, g) == g.ackn <= 0 \/ g.ackn >= e.nxt
\* SEG.ACK =< ISS or SEG.ACK > SND.NXT
Unacceptable(e, g) == g.ackn <= 0 \/ g.ackn > e.nxt

tcp_synsent(e, g) ==
    IF g.ack /\ Unacceptable(e, g) THEN Done(e, tcp_send_reset(g))
    ELSE IF g.rst THEN Done(IF g.ack THEN [e EXCEPT !.state = "CLOSED"] ELSE e, <<>>)
    ELSE IF ~(g.syn /\ g.ack) THEN Done(e, <<>>)
    ELSE LET f == [e EXCEPT !.state = "ESTABLISHED", !.una = g.ackn, !.rcv.nxt = g.seq + 1,
                            !.wnd = g.wnd, !.wl1 = g.seq, !.wl2 = g.ackn]
         IN  Done(f, <<tcp_send_ack(f)>>)

\* The label drop: every later segment is answered once the flag is set
Drop(e, g, answers) ==
    Done(e, answers \o IF e.ackf /\ ~g.rst THEN <<tcp_send_ack(e)>> ELSE <<>>)

tcp_update_window(e, g) ==
    IF /\ e.una <= g.ackn /\ g.ackn <= e.nxt
       /\ e.wl1 < g.seq \/ (e.wl1 = g.seq /\ e.wl2 <= g.ackn)
    THEN [e EXCEPT !.wnd = g.wnd, !.wl1 = g.seq, !.wl2 = g.ackn] ELSE e

Advances(e, g) == e.una < g.ackn /\ g.ackn <= e.nxt

AckedState_no_fin_wait(s) ==
    CASE s \in {"FIN_WAIT1", "CLOSING"} -> "TIME_WAIT"
      [] s = "LAST_ACK" -> "CLOSED"     [] OTHER -> s
\* The state after an acknowledgment of something new
AckedState(s) ==
    CASE s = "FIN_WAIT1" -> "FIN_WAIT2" [] s = "CLOSING" -> "TIME_WAIT"
      [] s = "LAST_ACK" -> "CLOSED"     [] OTHER -> s

(***************************************************************************)
(* Fifth step, the ACK field: the end, whether the segment goes on, and    *)
(* the answers.  An acknowledgment of what was not sent changes nothing.   *)
(***************************************************************************)
AckNew(e, g, s) ==
    [e EXCEPT !.una = g.ackn, !.state = s, !.hashed = s # "CLOSED"]
GoOn(e, on, answers) == [e |-> e, on |-> on, answers |-> answers]

AckStep(e, g) ==
    CASE e.state = "SYN_RECV" /\ e.una <= g.ackn /\ g.ackn <= e.nxt ->
           GoOn([e EXCEPT !.state = "ESTABLISHED", !.una = g.ackn,
                          !.wnd = g.wnd, !.wl1 = g.seq, !.wl2 = g.ackn], TRUE, <<>>)
      [] e.state = "SYN_RECV" /\ ~(e.una <= g.ackn /\ g.ackn <= e.nxt) ->
           GoOn(e, FALSE, tcp_send_reset(g))
      [] e.state \in {"FIN_WAIT2", "TIME_WAIT"} -> GoOn(e, TRUE, <<>>)
      [] e.state \in {"CLOSING", "LAST_ACK"} /\ Advances(e, g) ->
           GoOn(AckNew(e, g, AckedState(e.state)), FALSE, <<>>)
      [] e.state \in {"ESTABLISHED", "CLOSE_WAIT", "FIN_WAIT1"} /\ Advances(e, g) ->
           GoOn(tcp_update_window(AckNew(e, g, AckedState(e.state)), g), TRUE, <<>>)
      [] OTHER -> GoOn(tcp_update_window(e, g), g.ackn <= e.nxt, <<>>)

Received(e, r) == [e |-> [e EXCEPT !.rcv = r.w, !.ackf = @ \/ r.ack], seq |-> r.seq]

TakesText(e, g) ==
    e.state \in {"ESTABLISHED", "FIN_WAIT1", "FIN_WAIT2"} /\ (g.psh \/ g.len > 0)

\* Seventh step: the end, and the sequence number left in the segment
TextStep(e, g) ==
    IF TakesText(e, g)
    THEN Received(e, tcp_recv_text(e.rcv, g))
    ELSE [e |-> e, seq |-> g.seq]

FinState(s) ==
    CASE s = "ESTABLISHED" -> "CLOSE_WAIT" [] s = "FIN_WAIT1" -> "CLOSING"
      [] s = "FIN_WAIT2" -> "TIME_WAIT"    [] OTHER -> s

\* Eighth step: FIN
FinStep(e, g, seq) ==
    IF ~g.fin THEN e
    ELSE [e EXCEPT !.state = FinState(@), !.rcv.nxt = seq + 1, !.ackf = TRUE,
                   !.rcv.push = @ \/ e.state = "ESTABLISHED"]

Acceptable(e, g) == seq_check(e.rcv, g.seq, SegLen(g))

\* Steps seven and eight, when the fifth lets the segment go on
AfterText(t, g) == Drop(FinStep(t.e, g, t.seq), g, <<>>)
AfterAck(a, g) == IF a.on THEN AfterText(TextStep(a.e, g), g) ELSE Drop(a.e, g, a.answers)

(***************************************************************************)
(* A segment of a synchronised connection.  The fourth step, of a SYN that *)
(* passes the sequence check, is in TcpSock: here NoFalseReset shows that  *)
(* there is no such SYN.                                                   *)
(***************************************************************************)
tcp_process(e, g) ==
    IF ~Acceptable(e, g) THEN Drop([e EXCEPT !.ackf = @ \/ ~g.rst], g, <<>>)
    ELSE IF g.rst THEN Done([e EXCEPT !.state = "CLOSED", !.hashed = FALSE], <<>>)
    ELSE IF ~g.ack THEN Drop(e, g, <<>>)
    ELSE AfterAck(AckStep(e, g), g)

-----------------------------------------------------------------------------
(* Calls of the applications.  A call of a thread of x that sends adds to  *)
(* the network; only a segment that arrives changes the other end.         *)

Send(x, segs) == net' = [net EXCEPT ![Peer(x)] = @ \o segs]

\* The code after a send runs when the send has returned
SendReturned == plan.local => \A x \in Ends : net[x] = <<>>

\* tcp_connect() until it sleeps
Connect ==
    /\ ep["cli"].state = "CLOSED" /\ ep["cli"].app = "none"
    /\ LET e == [ep["cli"] EXCEPT !.state = "SYN_SENT", !.nxt = 1, !.hashed = TRUE,
                                  !.app = "connecting"]
       IN  ep' = [ep EXCEPT !["cli"] = e] /\ Send("cli", <<tcp_send_syn(e)>>)
    /\ UNCHANGED <<read, hurt, plan, panic>>

\* ... and once it was woken, which every step out of SYN_SENT does
ConnectReturn ==
    /\ ep["cli"].app = "connecting" /\ ep["cli"].state # "SYN_SENT"
    /\ SendReturned
    /\ ep' = [ep EXCEPT !["cli"] =
                IF @.state = "ESTABLISHED" THEN [@ EXCEPT !.app = "open"]
                ELSE [@ EXCEPT !.app = "failed", !.state = "CLOSED", !.hashed = FALSE]]
    /\ UNCHANGED <<net, read, hurt, plan, panic>>

Accept ==
    /\ ep["srv"].app = "none" /\ ep["srv"].state \notin {"LISTEN", "SYN_RECV"}
    /\ SendReturned
    /\ ep' = [ep EXCEPT !["srv"].app = "open"]
    /\ UNCHANGED <<net, read, hurt, plan, panic>>

\* The application of x is outside any call
Ready(x) == ep[x].app = "open" /\ ep[x].after = "none" /\ ep[x].left = 0 /\ SendReturned

(***************************************************************************)
(* tcp_send_text(): at most the window; with none tcp_send_ack() is given  *)
(* no segment to answer, and uses it.  The plan bounds the stream.         *)
(***************************************************************************)
Write(x, n) ==
    /\ Ready(x) /\ ep[x].state \in {"ESTABLISHED", "CLOSE_WAIT"}
    /\ ep[x].nxt + n <= plan.text[x] + 1
    /\ LET len == Least(n, ep[x].wnd) IN
       IF len <= 0 THEN panic' = "window" /\ UNCHANGED ep
       ELSE ep' = [ep EXCEPT ![x].left = len] /\ UNCHANGED panic
    /\ UNCHANGED <<net, read, hurt, plan>>

\* One round of its loop
SendText(x) ==
    /\ ep[x].left > 0 /\ SendReturned
    /\ LET n == Least(Mss, ep[x].left) IN
       /\ Send(x, <<tcp_init_text(ep[x], n)>>)
       /\ ep' = [ep EXCEPT ![x].nxt = @ + n, ![x].wnd = @ - n, ![x].left = @ - n]
    /\ UNCHANGED <<read, hurt, plan, panic>>

\* A _read() that returns what the buffer holds; TcpRecv has its steps
Read(x) ==
    /\ Ready(x) /\ ep[x].state \in {"ESTABLISHED", "CLOSE_WAIT"}
    /\ LET used == CBUFUSED(ep[x].rcv.buf)
           r == read_cbuf(ep[x].rcv.buf, used)
       IN  /\ used > 0
           /\ ep' = [ep EXCEPT ![x].rcv = [@ EXCEPT !.wnd = @ + used, !.push = FALSE,
                                 !.buf = IF AtEnd(r.b) THEN UpdatePoint(r.b) ELSE r.b]]
           /\ read' = [read EXCEPT ![x] = @ + used]
    /\ UNCHANGED <<net, hurt, plan, panic>>

\* tcp_free_buf() and tcp_free_reass_head()
Freed(w) == [w EXCEPT !.buf = alloc_cbuf(0), !.reass = <<>>]

\* tcp_close() until the FIN is sent
Close(x) ==
    /\ Ready(x) /\ x \in plan.close
    /\ ep' = [ep EXCEPT ![x] =
         CASE @.state = "ESTABLISHED" ->
                [@ EXCEPT !.app = "closed", !.state = "FIN_WAIT1", !.after = "fin"]
           [] @.state = "CLOSE_WAIT" ->
                [@ EXCEPT !.app = "closed", !.state = "LAST_ACK", !.after = "fin"]
           [] OTHER -> [@ EXCEPT !.app = "closed", !.rcv = Freed(@)]]
    /\ Send(x, IF ep'[x].after = "fin" THEN <<tcp_send_fin(ep[x])>> ELSE <<>>)
    /\ UNCHANGED <<read, hurt, plan, panic>>

AfterSend_fin_uncounted(x) ==
    /\ ep[x].after # "none" /\ SendReturned
    /\ ep' = [ep EXCEPT ![x] =
         IF @.after = "fin" THEN [@ EXCEPT !.rcv = Freed(@), !.after = "none"]
         ELSE [@ EXCEPT !.nxt = 1, !.una = 0, !.after = "none"]]
    /\ UNCHANGED <<net, read, hurt, plan, panic>>

\* What tcp_close() and the listener do after the send
AfterSend(x) ==
    /\ ep[x].after # "none" /\ SendReturned
    /\ ep' = [ep EXCEPT ![x] =
         IF @.after = "fin" THEN [@ EXCEPT !.nxt = @ + 1, !.rcv = Freed(@), !.after = "none"]
         ELSE [@ EXCEPT !.nxt = 1, !.una = 0, !.after = "none"]]
    /\ UNCHANGED <<net, read, hurt, plan, panic>>

-----------------------------------------------------------------------------
(* The receive thread, the timer and the network.                          *)

\* tcp_recv(): a sock that is closed but hashed answers nothing
Handle(e, g) ==
    CASE ~e.hashed -> Done(e, tcp_send_reset(g))
      [] e.hashed /\ e.state = "CLOSED" -> Done(e, <<>>)
      [] e.state = "LISTEN" -> tcp_listen(e, g)
      [] e.state = "SYN_SENT" -> tcp_synsent(e, g)
      [] OTHER -> tcp_process(e, g)

Synchronised(e) == e.state \notin {"CLOSED", "LISTEN", "SYN_SENT"}

(***************************************************************************)
(* What segment g does to end e for good, f being e afterwards: text for   *)
(* which there is no room, an acknowledgment of a FIN that snd_nxt does    *)
(* not count yet.                                                          *)
(***************************************************************************)
Harm(e, g, f) ==
    {h \in {"overrun", "early"} :
       /\ Synchronised(e)
       /\ CASE h = "overrun" -> g.len > 0 /\ f.rcv.nxt < g.seq + g.len
            [] h = "early" -> e.after = "fin" /\ g.ackn > e.nxt}

\* The segment comes as far as tcp_recv_text(), a being what its ACK does
ReachesText(e, g, a) ==
    /\ Synchronised(e) /\ Acceptable(e, g) /\ ~g.rst /\ g.ack
    /\ a.on /\ TakesText(a.e, g)

\* tcp_recv_notify() of the client's socket, which _close() has freed
NotifiesFreed(x, g, f) ==
    /\ x = "cli" /\ f.app = "closed" /\ f.after = "none" /\ f.rcv.push
    /\ ReachesText(ep[x], g, AckStep(ep[x], g))

Deliver(x) ==
    /\ net[x] # <<>>
    /\ plan.local \/ ep[x].after # "synack"
    /\ \E d \in {Handle(ep[x], Head(net[x]))} :
       /\ ep' = [ep EXCEPT ![x] = d.e]
       /\ net' = [net EXCEPT ![x] = Tail(@), ![Peer(x)] = @ \o d.answers]
       /\ hurt' = hurt \cup Harm(ep[x], Head(net[x]), d.e)
       /\ panic' = CASE d.e.rcv.bad -> "assert"
                     [] ~d.e.rcv.bad /\ NotifiesFreed(x, Head(net[x]), d.e) -> "notify"
                     [] OTHER -> ""
    /\ UNCHANGED <<read, plan>>

\* tcp_timewait_timer()
TimeWaitOver(x) ==
    /\ ep[x].state = "TIME_WAIT"
    /\ ep' = [ep EXCEPT ![x].state = "CLOSED", ![x].hashed = FALSE]
    /\ UNCHANGED <<net, read, hurt, plan, panic>>

\* A segment is lost or delayed, which counts as harm, or repeated
Fault(x) ==
    /\ net[x] # <<>> /\ plan.faults > 0
    /\ \/ net' = [net EXCEPT ![x] = Tail(@)] /\ hurt' = hurt \cup {"net"}
       \/ net' = [net EXCEPT ![x] = Append(Tail(@), Head(@))] /\ hurt' = hurt \cup {"net"}
       \/ net' = [net EXCEPT ![x] = Append(@, Head(@))] /\ UNCHANGED hurt
    /\ plan' = [plan EXCEPT !.faults = @ - 1]
    /\ UNCHANGED <<ep, read, panic>>

Next ==
    /\ panic = ""
    /\ \/ Connect \/ ConnectReturn \/ Accept
       \/ \E x \in Ends : \/ \E n \in Lens : Write(x, n)
                          \/ SendText(x) \/ Read(x) \/ Close(x) \/ AfterSend(x)
                          \/ Deliver(x) \/ TimeWaitOver(x) \/ Fault(x)

Spec == Init /\ [][Next]_vars

(***************************************************************************)
(* Fairness: threads inside a call run on, a woken connect() returns, and  *)
(* the receive thread takes what has arrived (weak fairness of Deliver,    *)
(* with the condition that enables it written out).  Nothing forces an     *)
(* application to accept, read, write or close.                            *)
(***************************************************************************)
CanDeliver(x) == panic = "" /\ net[x] # <<>> /\ (plan.local \/ ep[x].after # "synack")
CallRuns(x) == panic = "" /\ (SendText(x) \/ AfterSend(x))

FairSpec ==
    /\ Spec
    /\ WF_vars(panic = "" /\ ConnectReturn)
    /\ \A x \in Ends : /\ WF_vars(CallRuns(x))
                       /\ []<>~CanDeliver(x) \/ []<><<Deliver(x)>>_vars

-----------------------------------------------------------------------------
(* Properties.                                                             *)

States == {"CLOSED", "LISTEN", "SYN_RECV", "SYN_SENT", "ESTABLISHED", "CLOSE_WAIT",
           "LAST_ACK", "FIN_WAIT1", "FIN_WAIT2", "CLOSING", "TIME_WAIT"}

\* Each variable holds a value the code's fields can hold.
TypeOK ==
    /\ \A x \in Ends : /\ ep[x].state \in States /\ ep[x].una \in Nat /\ ep[x].nxt \in Nat
                       /\ ep[x].wnd \in Int /\ ep[x].rcv.wnd \in 0..Window
                       /\ ep[x].app \in {"none", "connecting", "open", "failed", "closed"}
                       /\ ep[x].after \in {"none", "synack", "fin"} /\ ep[x].left \in Nat
    /\ hurt \subseteq {"net", "overrun", "early"} /\ panic \in {"", "window", "notify", "assert"}

(***************************************************************************)
(* Whatever is lost, repeated or reordered, each application has read, and *)
(* has waiting in its buffer, a prefix of what the other wrote; until the  *)
(* FIN, rcv_nxt is the number of the byte after it.                        *)
(***************************************************************************)
StreamPrefix ==
    /\ TypeOK
    /\ \A x \in Ends :
        LET e == ep[x]
            n == read[x] + CBUFUSED(e.rcv.buf)
        IN  Synchronised(e) /\ e.app # "closed" =>
              /\ \A i \in 1..CBUFUSED(e.rcv.buf) : Contents(e.rcv.buf)[i] = read[x] + i
              /\ n < ep[Peer(x)].nxt \/ n = 0
              /\ e.state = "ESTABLISHED" => e.rcv.nxt = n + 1

(***************************************************************************)
(* What an end takes for acknowledged, the other has counted in rcv_nxt;   *)
(* and rcv_nxt never runs ahead of what was sent (snd_nxt, and the FIN     *)
(* that tcp_close() counts only after it is sent).                         *)
(***************************************************************************)
SentNxt(e) == e.nxt + (IF e.after = "fin" THEN 1 ELSE 0)
AckedWasReceived ==
    \A x \in Ends : Synchronised(ep[x]) /\ Synchronised(ep[Peer(x)]) /\ ep[x].after # "synack" =>
        /\ ep[x].una <= ep[Peer(x)].rcv.nxt
        /\ ep[Peer(x)].rcv.nxt <= SentNxt(ep[x])

(***************************************************************************)
(* The states of the two ends fit: an end that has seen a FIN has a peer   *)
(* whose application closed, and an end only becomes established when the  *)
(* other has taken part in the handshake.                                  *)
(***************************************************************************)
StatesAgree ==
    \A x \in Ends :
        /\ ep[x].state \in {"CLOSE_WAIT", "LAST_ACK", "CLOSING", "TIME_WAIT"} =>
              ep[Peer(x)].app = "closed"
        /\ ep[x].state = "ESTABLISHED" => ep[Peer(x)].state \notin {"LISTEN", "SYN_SENT"}

(***************************************************************************)
(* No end is reset by mistake: a reset that it would accept is on its way  *)
(* only when the other has no connection any more (or, in the same stack,  *)
(* has not counted its SYN yet), and no SYN, however often repeated or     *)
(* late, passes the sequence check.                                        *)
(***************************************************************************)
NoFalseReset ==
    \A x \in Ends : \A i \in 1..Len(net[x]) :
        LET g == net[x][i] IN
        Synchronised(ep[x]) /\ Acceptable(ep[x], g) =>
            ~g.syn /\ (g.rst => ~ep[Peer(x)].hashed \/ ep[Peer(x)].after = "synack")

(***************************************************************************)
(* tcp_connect() returns with the connection established, unless the       *)
(* network lost or delayed a segment, the server closed before, or client  *)
(* and server are in one stack.                                            *)
(***************************************************************************)
ConnectEnds ==
    ep["cli"].app = "connecting" ~>
        (ep["cli"].app = "open" \/ ep["srv"].app = "closed" \/ "net" \in hurt \/ plan.local)

(***************************************************************************)
(* When both applications have closed, both ends reach CLOSED or           *)
(* TIME_WAIT, unless the network lost or delayed a segment, text found no  *)
(* room, or a FIN was acknowledged before snd_nxt counted it.              *)
(***************************************************************************)
CloseEnds ==
    (\A x \in Ends : ep[x].app = "closed") ~>
        ((\A x \in Ends : ep[x].state \in {"CLOSED", "TIME_WAIT"}) \/ hurt # {} \/ panic # "")

-----------------------------------------------------------------------------
(* What comments of the code say and the code does not do.                 *)

(***************************************************************************)
(* "If we connect to localhost ... Fix: set wait_connect before sending    *)
(* syn" (tcp_sock.c): _connect() to a listening socket of the own stack    *)
(* succeeds.                                                               *)
(***************************************************************************)
LocalConnectSucceeds == plan.local => ep["cli"].app # "failed"

(***************************************************************************)
(* "SND.WND is an offset from SND.UNA" (tcp_state.c): text is only sent    *)
(* that lies within the window the other end offered, so that it fits.     *)
(* (tcp_send_text() takes it for an offset from SND.NXT.)                  *)
(***************************************************************************)
WindowIsOffset == "net" \notin hurt => "overrun" \notin hurt

(***************************************************************************)
(* "zero window: request window update" (tcp_text.c): a _write() that      *)
(* finds no window asks for one, and the stack goes on.                    *)
(***************************************************************************)
ZeroWindowAsks == panic # "window"

(***************************************************************************)
(* "The only thing that can arrive in this state is a retransmission of    *)
(* the remote FIN" (tcp_state.c), of TIME_WAIT.                            *)
(***************************************************************************)
TimeWaitSeesFin ==
    \A x \in Ends : ep[x].state = "TIME_WAIT" /\ net[x] # <<>> => Head(net[x]).fin
=============================================================================
