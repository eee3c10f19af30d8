-------------------------------- MODULE Cbuf --------------------------------
(***************************************************************************)
(* The circular buffer of cbuf.h and cbuf.c.  A buffer is a record: head   *)
(* and tail count bytes and may exceed size, cells is the memory.  size 0  *)
(* stands for the NULL pointer, which both operations accept.              *)
(***************************************************************************)
EXTENDS Integers, Sequences, SequencesExt

Least(m, n) == IF m < n THEN m ELSE n

CBUFUSED(b) == b.head - b.tail
CBUFFREE(b) == b.size - CBUFUSED(b)
HeadAt(b) == b.head % b.size
TailAt(b) == b.tail % b.size

\* "head right space for writing", "tail righ space for reading"
CBUFHEADRIGHT_free(b) == CBUFFREE(b)

CBUFHEADRIGHT(b) ==
    IF HeadAt(b) >= TailAt(b) THEN b.size - HeadAt(b) ELSE TailAt(b) - HeadAt(b)

CBUFTAILRIGHT(b) ==
    IF HeadAt(b) > TailAt(b) THEN CBUFUSED(b) ELSE b.size - TailAt(b)

alloc_cbuf(n) == [head |-> 0, tail |-> 0, size |-> n, cells |-> [i \in 0..(n - 1) |-> 0]]

(***************************************************************************)
(* One memcpy() of write_cbuf(): d.s is what is left to copy to d.b.  n    *)
(* bytes go to the memory from position at.                                *)
(***************************************************************************)
CopiedIn(d, n, at) ==
    [b |-> [d.b EXCEPT !.head = @ + n,
                       !.cells = [p \in DOMAIN @ |->
                                    IF p \in at..(at + n - 1) THEN d.s[p - at + 1] ELSE @[p]]],
     s |-> SubSeq(d.s, n + 1, Len(d.s))]

CopyIn(d, i) ==
    IF d.s = <<>> THEN d
    ELSE CopiedIn(d, Least(CBUFHEADRIGHT(d.b), Len(d.s)), HeadAt(d.b))

\* How much write_cbuf() and read_cbuf() return
Writable(b, n) == IF b.size = 0 THEN 0 ELSE Least(CBUFFREE(b), n)
Readable(b, n) == IF b.size = 0 THEN 0 ELSE Least(CBUFUSED(b), n)

\* The loop ends within as many rounds as bytes
write_all(b, s) == FoldLeft(CopyIn, [b |-> b, s |-> s], s).b
write_cbuf(b, s) == write_all(b, SubSeq(s, 1, Writable(b, Len(s))))

\* One memcpy() of read_cbuf(): d.n is what is left to copy from d.b
CopiedOut(d, n, at) ==
    [b |-> [d.b EXCEPT !.tail = @ + n],
     n |-> d.n - n,
     s |-> d.s \o [j \in 1..n |-> d.b.cells[at + j - 1]]]

CopyOut(d, i) ==
    IF d.n = 0 THEN d ELSE CopiedOut(d, Least(CBUFTAILRIGHT(d.b), d.n), TailAt(d.b))

\* read_cbuf() up to "update I/O point": the buffer b, the bytes s
read_all(b, n) == FoldLeft(CopyOut, [b |-> b, n |-> n, s |-> <<>>], [j \in 1..n |-> j])
read_cbuf(b, n) == read_all(b, Readable(b, n))

\* "update I/O point"
AtEnd(b) == b.size > 0 /\ b.tail >= b.size
UpdatePoint(b) == [b EXCEPT !.head = @ - b.size, !.tail = @ - b.size]

\* Reference: the bytes written and not yet read
Contents(b) == [j \in 1..CBUFUSED(b) |-> b.cells[(b.tail + j - 1) % b.size]]
=============================================================================
