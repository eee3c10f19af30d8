------------------------------ MODULE TcpText ------------------------------
(***************************************************************************)
(* What tcp_text.c and tcp_reass.c do with the text of a segment: operators*)
(* that take the receiving half of a tcp_sock and return it.               *)
(*                                                                         *)
(* The half is a record: nxt (rcv_nxt), wnd (rcv_wnd), buf (rcv_buf),      *)
(* reass (rcv_reass), push (TCP_F_PUSH) and bad (an assert() failed).  A   *)
(* byte of the peer's stream is a number, which is its sequence number too.*)
(***************************************************************************)
EXTENDS Cbuf

CONSTANT
    HeadSum    \* snd_wnd + snd_up, read through the head of the reass list

ASSUME HeadSumAssumption == HeadSum \in Nat

\* The receiving half as tcp_alloc_sock() leaves it, with the next byte n
NewHalf(n, window) == [nxt |-> n, wnd |-> window, buf |-> alloc_cbuf(0), reass |-> <<>>,
                       push |-> FALSE, bad |-> FALSE]

\* A tcp_reass_head, the text of a segment that is queued
Entry(g) == [seq |-> g.seq, len |-> g.len]
End(e) == e.seq + e.len

(***************************************************************************)
(* tcp_write_buf(): as much of the text as the circular buffer has room    *)
(* for.  A length is an unsigned int; one above INT_MAX, written here as a *)
(* negative number, makes write_cbuf() copy nothing.                       *)
(***************************************************************************)
rcv_buf(w) == IF w.buf.size = 0 THEN alloc_cbuf(w.wnd) ELSE w.buf
Written(w, e) == Writable(rcv_buf(w), e.len)
TextOf(e) == [i \in 1..e.len |-> e.seq + i - 1]

Buffered(w, b, n, e) ==
    IF n <= 0 THEN [w EXCEPT !.buf = b]
    ELSE [w EXCEPT !.wnd = @ - n, !.nxt = @ + n, !.buf = write_cbuf(b, TextOf(e))]

tcp_write_buf(w, e) == Buffered(w, rcv_buf(w), Written(w, e), e)

\* ADJACENT_SEGMENT_HEAD(): cut off what precedes n; nothing left is "out"
ADJACENT_SEGMENT_HEAD(e, n) ==
    IF n > e.seq THEN [seq |-> n, len |-> e.len - (n - e.seq)] ELSE e

Obsolete(e, n) == n > e.seq /\ e.len <= n - e.seq

(***************************************************************************)
(* The last loop of tcp_segment_reass(): move queued text that has become  *)
(* the next of the stream to the buffer.  An entry leaves the list when    *)
(* any of it was written.  assert() ends the program.                      *)
(***************************************************************************)
DrainEntry(d, e) ==
    IF ~d.go \/ e.seq > d.w.nxt
    THEN [d EXCEPT !.go = FALSE, !.w.reass = Append(@, e)]
    ELSE IF e.seq # d.w.nxt THEN [d EXCEPT !.go = FALSE, !.w.bad = TRUE]
    ELSE IF Written(d.w, e) <= 0
    THEN [d EXCEPT !.go = FALSE, !.w = [tcp_write_buf(d.w, e) EXCEPT !.reass = Append(@, e)]]
    ELSE [d EXCEPT !.w = tcp_write_buf(d.w, e)]

Drain(w) ==
    FoldLeft(DrainEntry, [w |-> [w EXCEPT !.reass = <<>>], go |-> TRUE], w.reass).w

(***************************************************************************)
(* tcp_segment_reass(): the entry goes before the first queued one that    *)
(* starts after it, the i-th (0: none).  The head is trimmed by the entry  *)
(* before that one (by the list head itself, read as an entry, when there  *)
(* is none); an entry that starts after all others is appended as it is.   *)
(* Entries it covers are deleted, its tail is trimmed by the next.         *)
(* Returns the connection and the sequence number left in the segment.     *)
(***************************************************************************)
PrevEnd(q, i) == IF i = 0 THEN 0 ELSE IF i = 1 THEN HeadSum ELSE End(q[i - 1])

\* The entries of rest from the first that ends after f; the others are deleted
Uncovered(rest, f) ==
    LET k == SelectInSeq(rest, LAMBDA t : End(f) < End(t)) IN
    IF k = 0 THEN <<>> ELSE SubSeq(rest, k, Len(rest))

TailTrimmed(f, after) ==
    IF after # <<>> /\ End(f) > Head(after).seq
    THEN [f EXCEPT !.len = Head(after).seq - f.seq] ELSE f

\* The second part, of which nothing is inserted when nothing of f is left
Insert(w, before, f, after) ==
    IF after # <<>> /\ f.len > 0 /\ f.seq = Head(after).seq
    THEN [w EXCEPT !.reass = before \o after]
    ELSE Drain([w EXCEPT !.reass = before \o <<TailTrimmed(f, after)>> \o after])

InsertAfter(w, f, k) ==
    Insert(w, SubSeq(w.reass, 1, k), f, Uncovered(SubSeq(w.reass, k + 1, Len(w.reass)), f))

ReassAt(w, e, i) ==
    IF Obsolete(e, PrevEnd(w.reass, i)) THEN [w |-> w, seq |-> e.seq]
    ELSE LET f == ADJACENT_SEGMENT_HEAD(e, PrevEnd(w.reass, i)) IN
         [w |-> InsertAfter(w, f, IF i = 0 THEN Len(w.reass) ELSE i - 1), seq |-> f.seq]

tcp_segment_reass(w, e) == ReassAt(w, e, SelectInSeq(w.reass, LAMBDA t : e.seq < t.seq))

RecvTrimmed_any_order(w, e) ==
    IF w.reass = <<>> THEN [w |-> tcp_write_buf(w, e), seq |-> e.seq]
    ELSE tcp_segment_reass(w, e)

\* tcp_recv_text() up to the label out, the text trimmed to e
RecvTrimmed(w, e) ==
    IF e.seq = w.nxt /\ w.reass = <<>> THEN [w |-> tcp_write_buf(w, e), seq |-> e.seq]
    ELSE tcp_segment_reass(w, e)

Ignored(w, g) == w.wnd = 0 \/ Obsolete(g, w.nxt)

RecvText(w, g) ==
    IF Ignored(w, g) THEN [w |-> w, seq |-> g.seq]
    ELSE RecvTrimmed(w, ADJACENT_SEGMENT_HEAD(Entry(g), w.nxt))

(***************************************************************************)
(* ... with TCP_F_PUSH, set when PSH came with text that reached the       *)
(* buffer.  ack: TCP_F_ACKNOW or TCP_F_ACKDELAY was set.                   *)
(***************************************************************************)
Pushed(w, g, r) ==
    [w |-> [r.w EXCEPT !.push = w.push \/ (g.psh /\ r.w.nxt > w.nxt)],
     seq |-> r.seq, ack |-> ~Ignored(w, g)]

tcp_recv_text(w, g) == Pushed(w, g, RecvText(w, g))

seq_check_start(w, seq, n) == seq < w.nxt + (IF w.wnd = 0 THEN 1 ELSE w.wnd)

\* seq_check(); lastseq as tcp_segment_init() computes it, n is the length
seq_check(w, seq, n) ==
    LET lastseq == IF n = 0 THEN seq ELSE seq + n - 1 IN
    /\ seq < w.nxt + (IF w.wnd = 0 THEN 1 ELSE w.wnd)
    /\ w.nxt <= lastseq
=============================================================================
