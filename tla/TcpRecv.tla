------------------------------ MODULE TcpRecv ------------------------------
(***************************************************************************)
(* The receiving side of one established TCP connection: the receive       *)
(* thread trims, reassembles and buffers the text of segments, and an      *)
(* application thread in _read() drains the buffer and sleeps when it is   *)
(* empty.                                                                  *)
(*                                                                         *)
(* Byte n of the peer's stream is the number n; its sequence number is n   *)
(* too (the wrap of sequence numbers is not modelled).  The network may    *)
(* deliver any of the peer's segments, in any order, any number of times.  *)
(* The handling of a segment is one step; _read() is split at every access *)
(* to the flags and the buffer that the receive thread also changes.  No   *)
(* lock orders the two threads: where both update the same counters, the   *)
(* updates may be lost ("race"), and the model follows such a run no more. *)
(***************************************************************************)
EXTENDS TcpText

CONSTANTS
    Window,    \* TCP_DEFAULT_WINDOW: the first rcv_wnd, the size of the cbuf
    Segs,      \* the peer's segments, records [seq, len, psh, fin, rst]
    Lens,      \* the lengths an application passes to _read()
    Accepted,  \* the socket was returned by _accept()
    MaxReass   \* bound on the entries of the reassembly list (the code has none)

ASSUME WindowAssumption == Window \in Nat \ {0} /\ MaxReass \in Nat
ASSUME SegsAssumption ==
    Segs \subseteq [seq : Nat, len : Nat, psh : BOOLEAN, fin : BOOLEAN, rst : BOOLEAN]
ASSUME ReaderAssumption == Lens \subseteq Nat \ {0} /\ Accepted \in BOOLEAN

VARIABLES
    state,     \* tsk->state
    c,         \* rcv_nxt, rcv_wnd, rcv_buf, rcv_reass and TCP_F_PUSH of the tcp_sock
    notified,  \* sock->sleep.notified
    pc,        \* where _read() is
    want,      \* the len of tcp_recv_buf()
    got,       \* the rlen of tcp_recv_buf()
    cur,       \* the curlen of tcp_recv_buf(), until it is added to rcv_wnd
    out,       \* history: every byte copied to the application
    panic      \* "": running; otherwise what ended the program

vars == <<state, c, notified, pc, want, got, cur, out, panic>>

Init ==
    /\ state = "ESTABLISHED"
    /\ c = NewHalf(0, Window)
    /\ notified = FALSE /\ pc = "idle" /\ want = 0 /\ got = 0 /\ cur = 0
    /\ out = <<>> /\ panic = ""

(***************************************************************************)
(* The receive thread: tcp_process() for an acceptable segment.            *)
(***************************************************************************)
InWindow(g) == seq_check(c, g.seq, g.len + (IF g.fin THEN 1 ELSE 0))

HasText(g) == state = "ESTABLISHED" /\ (g.psh \/ g.len > 0)

Text(g) ==
    /\ ~g.rst
    /\ LET r == IF HasText(g) THEN tcp_recv_text(c, g) ELSE [w |-> c, seq |-> g.seq]
           closing == g.fin /\ state = "ESTABLISHED"
           raced == pc = "update" /\ r.w.wnd # c.wnd
       IN  /\ Len(r.w.reass) <= MaxReass
           /\ panic' \in IF r.w.bad THEN {"assert"} ELSE IF raced THEN {"", "race"} ELSE {""}
           /\ c' = [r.w EXCEPT !.push = @ \/ closing,
                               !.nxt = IF g.fin THEN r.seq + 1 ELSE @]
           /\ state' = IF closing THEN "CLOSE_WAIT" ELSE state
           /\ notified' = (notified \/ (~Accepted /\ ((HasText(g) /\ r.w.push) \/ closing)))
    /\ UNCHANGED <<pc, want, got, cur, out>>

\* A reset closes the connection; nobody is woken
Reset(g) ==
    /\ g.rst
    /\ state' = "CLOSED"
    /\ UNCHANGED <<c, notified, pc, want, got, cur, out, panic>>

Segment == \E g \in Segs : state # "CLOSED" /\ InWindow(g) /\ (Text(g) \/ Reset(g))

(***************************************************************************)
(* The application thread: tcp_recv_buf() and sleep_on().                  *)
(***************************************************************************)
Empty == CBUFUSED(c.buf) = 0

\* The states in which the call goes on; in the others it returns -1 at once
Call(n) ==
    /\ pc = "idle"
    /\ state = "ESTABLISHED" \/ (state = "CLOSE_WAIT" /\ ~Empty)
    /\ pc' = "read" /\ want' = n /\ got' = 0
    /\ UNCHANGED <<state, c, notified, cur, out, panic>>

Read ==
    /\ pc = "read"
    /\ LET r == read_cbuf(c.buf, want - got) IN
       /\ c' = [c EXCEPT !.buf = r.b]
       /\ out' = out \o r.s
       /\ cur' = Len(r.s)
    /\ pc' = "update"
    /\ UNCHANGED <<state, notified, want, got, panic>>

\* "update I/O point" of read_cbuf(), "update windown" of tcp_recv_buf()
Update_point_kept ==
    /\ pc = "update"
    /\ c' = [c EXCEPT !.wnd = @ + cur, !.buf = IF AtEnd(@) THEN [@ EXCEPT !.tail = @ - c.buf.size] ELSE @]
    /\ got' = got + cur /\ cur' = 0
    /\ pc' = "test"
    /\ UNCHANGED <<state, notified, want, out, panic>>

Update ==
    /\ pc = "update"
    /\ c' = [c EXCEPT !.wnd = @ + cur, !.buf = IF AtEnd(@) THEN UpdatePoint(@) ELSE @]
    /\ got' = got + cur /\ cur' = 0
    /\ pc' = "test"
    /\ UNCHANGED <<state, notified, want, out, panic>>

\* The condition of the inner loop
Test ==
    /\ pc = "test"
    /\ pc' = IF c.push \/ ~Empty \/ got >= want THEN "check" ELSE "sleep"
    /\ UNCHANGED <<state, c, notified, want, got, cur, out, panic>>

\* sleep_on() until pthread_cond_wait(); an accepted sock has no recv_wait
sleep_on_forgets_notify ==
    /\ pc = "sleep"
    /\ pc' = "asleep" /\ notified' = FALSE
    /\ panic' = IF Accepted THEN "null" ELSE panic
    /\ UNCHANGED <<state, c, want, got, cur, out>>

sleep_on ==
    /\ pc = "sleep"
    /\ pc' = IF notified THEN "test" ELSE "asleep"
    /\ notified' = FALSE
    /\ panic' = IF Accepted THEN "null" ELSE panic
    /\ UNCHANGED <<state, c, want, got, cur, out>>

\* sleep_on() after pthread_cond_wait()
Wake ==
    /\ pc = "asleep" /\ notified
    /\ pc' = "test" /\ notified' = FALSE
    /\ UNCHANGED <<state, c, want, got, cur, out, panic>>

\* pthread_cond_wait() may return although nobody signalled
SpuriousWake ==
    /\ pc = "asleep"
    /\ pc' = "test" /\ notified' = FALSE
    /\ UNCHANGED <<state, c, want, got, cur, out, panic>>

\* "read as mush as data before PUSH to user"
Check ==
    /\ pc = "check"
    /\ pc' = CASE c.push /\ Empty -> "clear"
               [] ~(c.push /\ Empty) /\ got < want -> "read"
               [] OTHER -> "idle"
    /\ UNCHANGED <<state, c, notified, want, got, cur, out, panic>>

\* tsk->flags &= ~TCP_F_PUSH, and return to the application
Clear ==
    /\ pc = "clear"
    /\ c' = [c EXCEPT !.push = FALSE]
    /\ pc' = "idle"
    /\ UNCHANGED <<state, notified, want, got, cur, out, panic>>

ReadStep == Read \/ Update \/ Test \/ sleep_on \/ Wake \/ Check \/ Clear

Next ==
    /\ panic = ""
    /\ Segment \/ (\E n \in Lens : Call(n)) \/ ReadStep \/ SpuriousWake

Spec == Init /\ [][Next]_vars

(***************************************************************************)
(* Fairness: a thread inside _read() that can run is eventually scheduled. *)
(* Nothing forces segments, calls or spurious wakeups.                     *)
(***************************************************************************)
FairSpec == Spec /\ WF_vars(panic = "" /\ ReadStep)

-----------------------------------------------------------------------------
Bytes == out \o Contents(c.buf)
StreamLen == CHOOSE n \in {End(g) : g \in Segs} : \A g \in Segs : End(g) <= n
InRead == pc # "idle"

(***************************************************************************)
(* Each variable holds a value the code's fields can hold.  rcv_wnd, an    *)
(* unsigned int, wraps only between the two updates of a read, when text   *)
(* went to room that read_cbuf() had freed (-1 stands for 2^32 - 1).       *)
(***************************************************************************)
TypeOK ==
    /\ state \in {"ESTABLISHED", "CLOSE_WAIT", "CLOSED"}
    /\ c.nxt \in Nat /\ c.wnd \in (-cur)..Window /\ c.buf.head >= c.buf.tail
    /\ c.reass \in Seq([seq : Nat, len : Int])
    /\ {c.push, c.bad, notified} \subseteq BOOLEAN
    /\ pc \in {"idle", "read", "update", "test", "sleep", "asleep", "check", "clear"}
    /\ want \in Nat /\ got \in 0..want /\ cur \in 0..want /\ out \in Seq(Nat)
    /\ panic \in {"", "assert", "null", "race"}

(***************************************************************************)
(* Whatever the network reorders, repeats or overlaps, the application     *)
(* reads the bytes of the peer's stream in order, each once and none       *)
(* skipped; until the FIN, rcv_nxt is the next byte of it.                 *)
(***************************************************************************)
StreamInOrder ==
    /\ \A i \in 1..Len(Bytes) : Bytes[i] = i - 1
    /\ state = "ESTABLISHED" => c.nxt = Len(Bytes)

(***************************************************************************)
(* The window the peer is told is the free room of the circular buffer,    *)
(* whichever thread changed either last and however its two counters have  *)
(* wrapped (less what the reader has copied and not yet returned to it),   *)
(* so that text inside the window always fits; the buffer has the size of  *)
(* the whole window.                                                       *)
(***************************************************************************)
WindowIsRoom ==
    /\ TypeOK
    /\ c.buf.size \in {0, Window}
    /\ c.wnd + cur = Window - CBUFUSED(c.buf)

(***************************************************************************)
(* A reader inside _read() returns to the application once text has been   *)
(* pushed, however the clearing of TCP_F_PUSH and the arrival of more text *)
(* interleave.                                                             *)
(***************************************************************************)
PushReturnsRead == (InRead /\ c.push) ~> (~InRead \/ panic # "")

-----------------------------------------------------------------------------
(* What comments of the code say and the code does not do.                 *)

(***************************************************************************)
(* "current received stream: seg ... waiting received stream: cbuf ...     *)
(* only received seg & cbuf" (tcp_text.c): a segment that covers the next  *)
(* byte is received when there is room, whatever the reassembly list holds.*)
(***************************************************************************)
InOrderTextAdvances ==
    state = "ESTABLISHED" /\ c.wnd > 0 /\ panic = "" =>
        \A g \in Segs :
            ~g.rst /\ g.seq <= c.nxt /\ c.nxt < End(g) =>
                LET w == tcp_recv_text(c, g).w IN w.nxt > c.nxt \/ w.bad

(***************************************************************************)
(* assert(trh->seq == tsk->rcv_nxt) (tcp_reass.c) never fails.             *)
(***************************************************************************)
ReassAssertHolds == panic # "assert"

(***************************************************************************)
(* "advance rcv.nxt over fin" (tcp_state.c): rcv_nxt never moves back.     *)
(***************************************************************************)
RcvNxtAdvances == [][c'.nxt >= c.nxt]_vars

(***************************************************************************)
(* "FIN implies PUSH for any segment text not yet delivered to the user"   *)
(* (tcp_state.c): when the application is told the stream has ended, it    *)
(* has been given all the text before the FIN.                             *)
(***************************************************************************)
EofAfterAllText ==
    state = "CLOSE_WAIT" /\ Empty => Len(out) = StreamLen

(***************************************************************************)
(* "wait buffer filled" (tcp_sock.c): a reader does not stay asleep on a   *)
(* buffer that is full, when no more text can arrive to wake it.           *)
(***************************************************************************)
FullBufferWakes == pc = "asleep" /\ c.wnd = 0 => notified

(***************************************************************************)
(* "return any pending RECEIVEs with same message" (tcp_state.c): after a  *)
(* FIN a pending _read() returns.                                          *)
(***************************************************************************)
FinEndsRead == (state = "CLOSE_WAIT" /\ InRead) ~> (~InRead \/ panic # "" \/ state = "CLOSED")

(***************************************************************************)
(* "RECEIVE and SEND receive reset response" (tcp_state.c): after a reset  *)
(* a pending _read() returns.                                              *)
(***************************************************************************)
ResetEndsRead == (state = "CLOSED" /\ InRead) ~> (~InRead \/ panic # "")

(***************************************************************************)
(* "simulating thread blocking(used for _accept(), _read(), _recv())"      *)
(* (wait.h): _read() of an accepted socket has a wait to block on.         *)
(***************************************************************************)
AcceptedReadBlocks == panic # "null"
=============================================================================
