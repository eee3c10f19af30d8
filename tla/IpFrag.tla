------------------------------- MODULE IpFrag -------------------------------
(***************************************************************************)
(* IP fragmentation and reassembly: a sender and a router cut datagrams    *)
(* with ip_send_frag(), the network loses, repeats and reorders the        *)
(* fragments, and the receive threads of a host (one per device) put them  *)
(* together in ip_reass() while ip_timer() throws out what stays           *)
(* incomplete.  frag_head has no lock: a receive thread is split where it  *)
(* holds a pointer to a struct fragment.                                   *)
(*                                                                         *)
(* Lengths and offsets are in units of eight bytes, as in the header; the  *)
(* payload of datagram d is the sequence of pairs <<d, 0>>, <<d, 1>>, ...  *)
(* All fragments of a datagram have headers of the same length.            *)
(***************************************************************************)
EXTENDS Integers, Sequences, FiniteSets, SequencesExt

CONSTANTS
    Size,       \* the payload length of each datagram, a function
    Mtu,        \* (net_mtu - hlen) & ~7 of the sender's device
    PathMtu,    \* the same of the router's device; Mtu: no smaller link
    MaxSize,    \* the longest payload a header can state (65535 bytes)
    Threads,    \* the receive threads
    FragTime,   \* FRAG_TIME in ticks of ip_timer()
    MaxFrags    \* bound on the struct fragments allocated

ASSUME SizesAssumption == \A d \in DOMAIN Size : Size[d] \in Nat \ {0}
ASSUME MtuAssumption == {Mtu, PathMtu, FragTime} \subseteq Nat \ {0} /\ MaxSize \in Nat
ASSUME BoundAssumption == MaxFrags \in Nat /\ IsFiniteSet(Threads)

Datagrams == DOMAIN Size    \* (id, protocol, source, destination) tells them apart
Ids == 1..MaxFrags

VARIABLES
    wire,       \* the fragments in the network; any may arrive at any time
    frags,      \* the struct fragments allocated so far
    rx,         \* each receive thread: where it is, its packet, its fragment
    doomed,     \* the fragments ip_timer() found expired and has yet to delete
    delivered,  \* what ip_reass() returned: <<datagram of the header, payload>>
    panic       \* a freed struct fragment was used

vars == <<wire, frags, rx, doomed, delivered, panic>>

(***************************************************************************)
(* A packet: its datagram, the place of its data in the payload, and the   *)
(* length, offset and MF bit of its header.                                *)
(***************************************************************************)
Whole(d) == [dgram |-> d, start |-> 0, len |-> Size[d], off |-> 0, mf |-> FALSE]
Payload(p) == [i \in 1..p.len |-> <<p.dgram, p.start + i - 1>>]
IsFragment(p) == p.off # 0 \/ p.mf

\* iphdr->ip_fragoff & IP_FRAG_MF on a header in network order: bit 5 of the offset
LastMF(p) == (p.off \div 32) % 2 = 1

(***************************************************************************)
(* ip_send_frag(): pieces of m units while more than m remain, then the    *)
(* rest.  The offsets count from the start of the packet that is cut.      *)
(***************************************************************************)
ip_send_frag(p, m) ==
    LET k == (p.len - 1) \div m IN
    {[dgram |-> p.dgram, start |-> p.start + i * m, off |-> i * m, len |-> m,
      mf |-> TRUE] : i \in 0..(k - 1)} \cup
    {[dgram |-> p.dgram, start |-> p.start + k * m, off |-> k * m,
      len |-> p.len - k * m, mf |-> LastMF(p)]}

\* The size test before it in ip_send_out() and ip_forward()
Fragments(p, m) == IF p.len > m THEN ip_send_frag(p, m) ELSE {p}

Init ==
    /\ wire = {} /\ frags = <<>> /\ doomed = {} /\ delivered = {} /\ panic = FALSE
    /\ rx = [t \in Threads |-> [pc |-> "idle"]]

ip_send_out(d) ==
    /\ wire' = wire \cup Fragments(Whole(d), Mtu)
    /\ UNCHANGED <<frags, rx, doomed, delivered, panic>>

ip_forward(p) ==
    /\ p.len > PathMtu
    /\ wire' = wire \cup Fragments(p, PathMtu)
    /\ UNCHANGED <<frags, rx, doomed, delivered, panic>>

(***************************************************************************)
(* struct fragment.  list is frag_pkb; live until delete_frag().           *)
(***************************************************************************)
new_frag(p) == [dgram |-> p.dgram, ttl |-> FragTime, size |-> 0, rsize |-> 0,
                first |-> FALSE, last |-> FALSE, list |-> <<>>, live |-> TRUE]

full_frag(f) == f.first /\ f.last /\ f.rsize = f.size

lookup_frag(p) == {i \in DOMAIN frags : frags[i].live /\ frags[i].dgram = p.dgram}

\* The search from the end of the list for the place of a packet with MF
Place(f, p) == SelectLastInSeq(f.list, LAMBDA q : q.off <= p.off)

\* insert_frag() drops the packet
Duplicate_last_unseen(f, p) ==
    p.mf /\ Place(f, p) > 0 /\ f.list[Place(f, p)].off = p.off

Duplicate(f, p) ==
    IF p.mf THEN Place(f, p) > 0 /\ f.list[Place(f, p)].off = p.off ELSE f.last

Overlap(f, p) ==
    LET b == Place(f, p) IN
    p.mf /\ b > 0 /\ f.list[b].off + f.list[b].len > p.off

Dropped(f, p) == full_frag(f) \/ Duplicate(f, p) \/ Overlap(f, p)

\* The last packet goes to the end of the list, whatever its offset
insert_frag(f, p) ==
    [f EXCEPT !.list = InsertAt(@, IF p.mf THEN Place(f, p) + 1 ELSE Len(@) + 1, p),
              !.rsize = @ + p.len,
              !.first = @ \/ (p.mf /\ p.off = 0),
              !.last = @ \/ ~p.mf,
              !.size = IF p.mf THEN @ ELSE p.off + p.len]

\* reass_frag(): the payloads in the order of the list, after the first header
Joined(f) == FlattenSeq([i \in 1..Len(f.list) |-> Payload(f.list[i])])

(***************************************************************************)
(* A receive thread: ip_recv_local() and ip_reass().                       *)
(***************************************************************************)
Lookup(t, p) ==
    /\ rx[t].pc = "idle" /\ IsFragment(p)
    /\ rx' = [rx EXCEPT ![t] = IF lookup_frag(p) = {} THEN [pc |-> "new", pkb |-> p]
                               ELSE [pc |-> "insert", pkb |-> p,
                                     frag |-> CHOOSE i \in lookup_frag(p) :
                                                \A j \in lookup_frag(p) : j <= i]]
    /\ UNCHANGED <<wire, frags, doomed, delivered, panic>>

\* new_frag() puts the fragment at the head of frag_head
New(t) ==
    /\ rx[t].pc = "new" /\ Len(frags) < MaxFrags
    /\ frags' = Append(frags, new_frag(rx[t].pkb))
    /\ rx' = [rx EXCEPT ![t] = [pc |-> "insert", pkb |-> rx[t].pkb, frag |-> Len(frags')]]
    /\ UNCHANGED <<wire, doomed, delivered, panic>>

\* insert_frag(); the caller goes on only if the datagram is complete
Insert(t) ==
    /\ rx[t].pc = "insert" /\ frags[rx[t].frag].live
    /\ LET i == rx[t].frag
           f == frags[i]
           g == insert_frag(f, rx[t].pkb)
       IN  IF Dropped(f, rx[t].pkb)
           THEN rx' = [rx EXCEPT ![t] = [pc |-> "idle"]] /\ UNCHANGED frags
           ELSE /\ frags' = [frags EXCEPT ![i] = g]
                /\ rx' = [rx EXCEPT ![t] = IF full_frag(g) THEN [pc |-> "reass", frag |-> i]
                                           ELSE [pc |-> "idle"]]
    /\ UNCHANGED <<wire, doomed, delivered, panic>>

delete_frag(i) == frags' = [frags EXCEPT ![i].live = FALSE, ![i].list = <<>>]

reass_frag(t) ==
    /\ rx[t].pc = "reass" /\ frags[rx[t].frag].live
    /\ LET f == frags[rx[t].frag] IN
       delivered' = IF f.size > MaxSize THEN delivered
                    ELSE delivered \cup {<<f.dgram, Joined(f)>>}
    /\ delete_frag(rx[t].frag)
    /\ rx' = [rx EXCEPT ![t] = [pc |-> "idle"]]
    /\ UNCHANGED <<wire, doomed, panic>>

\* The thread's next access is to a fragment another thread has freed
UseAfterFree(t) ==
    /\ rx[t].pc \in {"insert", "reass"} /\ ~frags[rx[t].frag].live
    /\ panic' = TRUE
    /\ UNCHANGED <<wire, frags, rx, doomed, delivered>>

(***************************************************************************)
(* ip_timer(1): every fragment that is not full gets older.                *)
(***************************************************************************)
Tick_skips_partial ==
    /\ doomed = {}
    /\ LET old == {i \in DOMAIN frags : frags[i].live /\ ~(frags[i].first /\ frags[i].last)} IN
       /\ old # {}
       /\ frags' = [i \in DOMAIN frags |->
                      IF i \in old THEN [frags[i] EXCEPT !.ttl = @ - 1] ELSE frags[i]]
       /\ doomed' = {i \in old : frags[i].ttl <= 1}
    /\ UNCHANGED <<wire, rx, delivered, panic>>

Tick ==
    /\ doomed = {}
    /\ LET old == {i \in DOMAIN frags : frags[i].live /\ ~full_frag(frags[i])} IN
       /\ old # {}
       /\ frags' = [i \in DOMAIN frags |->
                      IF i \in old THEN [frags[i] EXCEPT !.ttl = @ - 1] ELSE frags[i]]
       /\ doomed' = {i \in old : frags[i].ttl <= 1}
    /\ UNCHANGED <<wire, rx, delivered, panic>>

Expire(i) ==
    /\ IF frags[i].live THEN delete_frag(i) /\ UNCHANGED panic
       ELSE panic' = TRUE /\ UNCHANGED frags
    /\ doomed' = doomed \ {i}
    /\ UNCHANGED <<wire, rx, delivered>>

RxStep(t) == New(t) \/ Insert(t) \/ reass_frag(t) \/ UseAfterFree(t)
ip_timer == Tick \/ \E i \in doomed : Expire(i)

Next ==
    /\ ~panic
    /\ \/ \E d \in Datagrams : ip_send_out(d)
       \/ \E p \in wire : ip_forward(p) \/ \E t \in Threads : Lookup(t, p)
       \/ \E t \in Threads : RxStep(t)
       \/ ip_timer

Spec == Init /\ [][Next]_vars

(***************************************************************************)
(* Fairness: a receive thread finishes the packet it has, and net_timer()  *)
(* runs for ever.  Nothing forces packets to be sent or to arrive.         *)
(***************************************************************************)
FairSpec ==
    /\ Spec
    /\ \A t \in Threads : WF_vars(~panic /\ RxStep(t))
    /\ WF_vars(~panic /\ ip_timer)

-----------------------------------------------------------------------------
\* Each variable holds a value the code's structures can hold.
TypeOK ==
    /\ \A p \in wire : p.dgram \in Datagrams /\ p.off \in Nat /\ p.len \in Nat \ {0}
    /\ Len(frags) <= MaxFrags
    /\ \A i \in DOMAIN frags : frags[i].ttl \in 0..FragTime /\ frags[i].rsize \in Nat
                               /\ frags[i].size \in Nat
    /\ \A t \in Threads : rx[t].pc \in {"insert", "reass"} => rx[t].frag \in DOMAIN frags
    /\ doomed \subseteq DOMAIN frags /\ panic \in BOOLEAN

(***************************************************************************)
(* Types are kept, and:                                                    *)
(* what ip_reass() returns is the payload of one datagram, whole and in    *)
(* order, although full_frag() only compares the number of bytes received  *)
(* with the end of the last fragment, fragments arrive in any order and    *)
(* several times, and another thread or the timer works on the same list.  *)
(***************************************************************************)
Reassembled == TypeOK /\ \A r \in delivered : r[2] = Payload(Whole(r[1]))

(***************************************************************************)
(* No fragment stays for ever: each is delivered or timed out, although    *)
(* ip_timer() passes over the ones that are full.                          *)
(***************************************************************************)
FragsLeave ==
    \A i \in Ids : (i \in DOMAIN frags /\ frags[i].live) ~>
                   (panic \/ (i \in DOMAIN frags /\ ~frags[i].live))

-----------------------------------------------------------------------------
(* What comments of the code say and the code does not do.                 *)

(***************************************************************************)
(* "condition race: if (full_frag(frag)) continue" (ip_frag.c): skipping   *)
(* the full ones keeps ip_timer() away from what a receive thread uses.    *)
(***************************************************************************)
NoFreedFragment == ~panic

(***************************************************************************)
(* "fragment offset(in 8-octet's)" (ip.h): the offset in the header of a   *)
(* packet is the place of its data in the datagram, also after a router    *)
(* has cut a fragment again.                                               *)
(***************************************************************************)
OffsetIsPlace == \A p \in wire : p.off = p.start
=============================================================================
