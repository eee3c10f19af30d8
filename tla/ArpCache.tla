------------------------------ MODULE ArpCache ------------------------------
(***************************************************************************)
(* The ARP cache (arp/arp_cache.c, arp/arp.c) and ip_send_dev(), which     *)
(* queues packets on an entry until its address is resolved.  The mutex is *)
(* held inside arp_alloc(), arp_lookup() and arp_timer(); their callers    *)
(* use the entry they return without it.                                   *)
(*                                                                         *)
(* Hosts answer for themselves: the hardware address of a host is written  *)
(* as its IP address.                                                      *)
(***************************************************************************)
EXTENDS Integers, Sequences, Functions

CONSTANTS
    Hosts,       \* next hops on the link
    None,
    Size,        \* ARP_CACHE_SZ
    Timeout,     \* ARP_TIMEOUT
    Retry,       \* ARP_REQ_RETRY
    Packets,     \* packets to send; a bound on the run
    Senders,     \* threads that call ip_send_dev()
    MaxOverlaps  \* bound on the handlers that begin while another is under way

ASSUME CacheAssumption == Size \in Nat \ {0} /\ Timeout \in Nat \ {0} /\ Retry \in Nat
ASSUME ThreadsAssumption == /\ None \notin Hosts \cup Packets \cup Senders
                            /\ MaxOverlaps \in Nat

VARIABLES
    cache,       \* arp_cache[]
    next,        \* the static variable of arp_alloc()
    pkt,         \* each packet: its next hop, where it is, the address it left with
    snd,         \* each sender: where it is in ip_send_dev(), its packet and entry
    rx,          \* the receive thread: where it is in arp_recv()
    tick,        \* the entry that arp_timer() is to visit; Size when it is idle
    overlaps,    \* history: handlers that began while another was under way
    panic        \* arp_request() used a NULL device

vars == <<cache, next, pkt, snd, rx, tick, overlaps, panic>>

Entries == 0..(Size - 1)
WaitTime == 1    \* ARP_WAITTIME, in ticks of net_timer()

MaybeHost == Hosts \cup {None}
Entry == [state : {"FREE", "WAITING", "RESOLVED"}, ip : MaybeHost, hw : MaybeHost,
          dev : BOOLEAN, ttl : 0..(Timeout + WaitTime), retry : 0..Retry, list : Seq(Packets)]
PacketState == [dst : MaybeHost, via : MaybeHost,
                at : {"app", "held", "queued", "sent", "dropped"}]
Sender == [pc : {"idle", "missing", "allocated", "found", "append", "transmit"},
           pkt : Packets \cup {None}, ae : Entries]
Receiver == [pc : {"idle", "found", "resolve", "insert", "fill", "address"},
             ip : MaybeHost, ae : Entries]

IdleSender == [pc |-> "idle", pkt |-> None, ae |-> 0]
IdleRx == [pc |-> "idle", ip |-> None, ae |-> 0]

\* arp_cache_init() on static storage
Init ==
    /\ cache = [e \in Entries |-> [state |-> "FREE", ip |-> None, hw |-> None, dev |-> FALSE,
                                   ttl |-> 0, retry |-> 0, list |-> <<>>]]
    /\ next = 0
    /\ pkt = [p \in Packets |-> [dst |-> None, at |-> "app", via |-> None]]
    /\ snd = [t \in Senders |-> IdleSender]
    /\ rx = IdleRx
    /\ tick = Size
    /\ overlaps = 0 /\ panic = FALSE

\* A thread begins a handler, alone or while others are in theirs
Begin ==
    LET alone == (\A t \in Senders : snd[t] = IdleSender) /\ rx = IdleRx /\ tick = Size
    IN  /\ alone \/ overlaps < MaxOverlaps
        /\ overlaps' = IF alone THEN overlaps ELSE overlaps + 1

-----------------------------------------------------------------------------
arp_lookup_any(ip) ==
    LET match == {e \in Entries : cache[e].state # "FREE"}
    IN  {e \in match : \A f \in match : e <= f}
\* The entries that arp_lookup() may return: the first match, or none
arp_lookup(ip) ==
    LET match == {e \in Entries : cache[e].state # "FREE" /\ cache[e].ip = ip}
    IN  {e \in match : \A f \in match : e <= f}

\* The entry that arp_alloc() takes: the first free one from next on
FreeEntry ==
    LET free == {e \in Entries : cache[e].state = "FREE"}
    IN  {e \in free : \A f \in free : (e - next) % Size <= (f - next) % Size}

\* arp_alloc() on entry e; the old address stays in it
arp_alloc(e) == [cache[e] EXCEPT !.state = "WAITING", !.dev = FALSE, !.ttl = WaitTime,
                                 !.retry = Retry, !.list = <<>>]

Moved(S, at, via) ==
    [p \in Packets |-> IF p \in S THEN [pkt[p] EXCEPT !.at = at, !.via = via] ELSE pkt[p]]

-----------------------------------------------------------------------------
(* ip_send_dev() *)

Done(t) == snd' = [snd EXCEPT ![t] = IdleSender]
At(t, pc, e) == snd' = [snd EXCEPT ![t].pc = pc, ![t].ae = e]

\* It begins with arp_lookup()
Send(t, p, d) ==
    /\ Begin /\ snd[t].pc = "idle" /\ pkt[p].at = "app"
    /\ pkt' = [pkt EXCEPT ![p].dst = d, ![p].at = "held"]
    /\ snd' = [snd EXCEPT ![t] =
           IF arp_lookup(d) = {} THEN [pc |-> "missing", pkt |-> p, ae |-> 0]
           ELSE [pc |-> "found", pkt |-> p, ae |-> CHOOSE e \in arp_lookup(d) : TRUE]]
    /\ UNCHANGED <<cache, next, rx, tick, panic>>

\* No entry: allocate one, or drop the packet when the cache is full
Allocate(t) ==
    /\ snd[t].pc = "missing"
    /\ IF FreeEntry = {}
       THEN /\ pkt' = Moved({snd[t].pkt}, "dropped", None)
            /\ Done(t)
            /\ UNCHANGED <<cache, next>>
       ELSE \E e \in FreeEntry :
            /\ cache' = [cache EXCEPT ![e] = arp_alloc(e)]
            /\ next' = (e + 1) % Size
            /\ At(t, "allocated", e)
            /\ UNCHANGED pkt
    /\ UNCHANGED <<rx, tick, overlaps, panic>>

\* The new entry gets its address, device and first packet; arp_request() follows
Fill(t) ==
    LET p == snd[t].pkt IN
    /\ snd[t].pc = "allocated"
    /\ cache' = [cache EXCEPT ![snd[t].ae].ip = pkt[p].dst, ![snd[t].ae].dev = TRUE,
                              ![snd[t].ae].list = Append(@, p)]
    /\ pkt' = Moved({p}, "queued", None)
    /\ Done(t)
    /\ UNCHANGED <<next, rx, tick, overlaps, panic>>

\* An entry was found: the test of its state
Test(t) ==
    /\ snd[t].pc = "found"
    /\ At(t, IF cache[snd[t].ae].state = "WAITING" THEN "append" ELSE "transmit", snd[t].ae)
    /\ UNCHANGED <<cache, next, pkt, rx, tick, overlaps, panic>>

Wait(t) ==
    /\ snd[t].pc = "append"
    /\ cache' = [cache EXCEPT ![snd[t].ae].list = Append(@, snd[t].pkt)]
    /\ pkt' = Moved({snd[t].pkt}, "queued", None)
    /\ Done(t)
    /\ UNCHANGED <<next, rx, tick, overlaps, panic>>

Transmit(t) ==
    /\ snd[t].pc = "transmit"
    /\ pkt' = Moved({snd[t].pkt}, "sent", cache[snd[t].ae].hw)
    /\ Done(t)
    /\ UNCHANGED <<cache, next, rx, tick, overlaps, panic>>
-----------------------------------------------------------------------------
(* arp_recv(): a request for our address or a reply, from host ip.         *)

RxAt(pc) == rx' = [rx EXCEPT !.pc = pc]

arp_in(request, ip) ==
    /\ Begin /\ rx = IdleRx
    /\ \/ \E e \in arp_lookup(ip) : rx' = [pc |-> "found", ip |-> ip, ae |-> e]
       \/ /\ arp_lookup(ip) = {} /\ request
          /\ rx' = [pc |-> "insert", ip |-> ip, ae |-> 0]
    /\ UNCHANGED <<cache, next, pkt, snd, tick, panic>>

Unlinked_none(a) == a.list
Unlinked(a) == IF a.state = "WAITING" THEN <<>> ELSE a.list

Flushed_none(a) == {}
Flushed(a) == IF a.state = "WAITING" THEN Range(a.list) ELSE {}

\* The entry learns the address, and arp_queue_send() if it is waiting
Learn(e) ==
    /\ rx.pc = "found" /\ rx.ae = e
    /\ cache' = [cache EXCEPT ![e].hw = rx.ip, ![e].list = Unlinked(cache[e])]
    /\ pkt' = Moved(Flushed(cache[e]), "sent", rx.ip)
    /\ RxAt("resolve")
    /\ UNCHANGED <<next, snd, tick, overlaps, panic>>

Resolve(e) ==
    /\ rx.pc = "resolve" /\ rx.ae = e
    /\ cache' = [cache EXCEPT ![e].state = "RESOLVED", ![e].ttl = Timeout]
    /\ rx' = IdleRx
    /\ UNCHANGED <<next, pkt, snd, tick, overlaps, panic>>

\* arp_insert(): allocate, fill, and only then the hardware address
Insert ==
    /\ rx.pc = "insert"
    /\ IF FreeEntry = {} THEN rx' = IdleRx /\ UNCHANGED <<cache, next>>
       ELSE \E e \in FreeEntry :
            /\ cache' = [cache EXCEPT ![e] = arp_alloc(e)]
            /\ next' = (e + 1) % Size
            /\ rx' = [rx EXCEPT !.pc = "fill", !.ae = e]
    /\ UNCHANGED <<pkt, snd, tick, overlaps, panic>>

InsertFill(e) ==
    /\ rx.pc = "fill" /\ rx.ae = e
    /\ cache' = [cache EXCEPT ![e].dev = TRUE, ![e].ttl = Timeout, ![e].ip = rx.ip,
                              ![e].state = "RESOLVED"]
    /\ RxAt("address")
    /\ UNCHANGED <<next, pkt, snd, tick, overlaps, panic>>

InsertAddress(e) ==
    /\ rx.pc = "address" /\ rx.ae = e
    /\ cache' = [cache EXCEPT ![e].hw = rx.ip]
    /\ rx' = IdleRx
    /\ UNCHANGED <<next, pkt, snd, tick, overlaps, panic>>

-----------------------------------------------------------------------------
(* arp_timer(), called by net_timer() once a second.                       *)

Tick ==
    /\ Begin /\ tick = Size
    /\ \E e \in Entries : cache[e].state # "FREE"
    /\ tick' = 0
    /\ UNCHANGED <<cache, next, pkt, snd, rx, panic>>

Over(a) == a.state # "FREE" /\ a.ttl - 1 <= 0
GivesUp(a) == Over(a) /\ (a.state = "RESOLVED" \/ a.retry - 1 < 0)

Emptied_kept(a) == {}
\* arp_queue_drop(), for an entry that was never resolved
Emptied(a) == IF GivesUp(a) /\ a.state = "WAITING" THEN Range(a.list) ELSE {}

Aged(a) ==
    CASE a.state = "FREE" -> a
      [] a.state # "FREE" /\ ~Over(a) -> [a EXCEPT !.ttl = @ - 1]
      [] GivesUp(a) -> [a EXCEPT !.ttl = 0, !.state = "FREE",
                                 !.list = IF a.state = "WAITING" THEN <<>> ELSE @]
      [] Over(a) /\ ~GivesUp(a) -> [a EXCEPT !.ttl = WaitTime, !.retry = @ - 1]

\* One turn of the loop, with arp_request() when the entry is tried again
Visit ==
    LET a == cache[tick] IN
    /\ tick < Size
    /\ cache' = [cache EXCEPT ![tick] = Aged(a)]
    /\ pkt' = Moved(Emptied(a), "dropped", None)
    /\ panic' = (Over(a) /\ ~GivesUp(a) /\ ~a.dev)
    /\ tick' = tick + 1
    /\ UNCHANGED <<next, snd, rx, overlaps>>

-----------------------------------------------------------------------------
SendStep(t) ==
    Allocate(t) \/ Fill(t) \/ Test(t) \/ Wait(t) \/ Transmit(t)
RecvStep ==
    \/ Insert
    \/ \E e \in Entries : Learn(e) \/ Resolve(e) \/ InsertFill(e) \/ InsertAddress(e)

Next ==
    /\ ~panic
    /\ \/ \E t \in Senders, p \in Packets, d \in Hosts : Send(t, p, d)
       \/ \E t \in Senders : SendStep(t)
       \/ \E request \in BOOLEAN, ip \in Hosts : arp_in(request, ip)
       \/ RecvStep
       \/ Tick
       \/ Visit

Spec == Init /\ [][Next]_vars

\* The timer thread runs once a second and every thread finishes its handler;
\* nobody promises that a host answers
FairSpec == /\ Spec
            /\ SF_vars(Tick) /\ WF_vars(Visit) /\ WF_vars(RecvStep)
            /\ \A t \in Senders : WF_vars(SendStep(t))

-----------------------------------------------------------------------------
Linked(e) == 1..Len(cache[e].list)
Queued(e) == Range(cache[e].list)

\* Type invariant: entries, packets and threads hold values of their types; the
\* counters of an entry stay between 0 and the values arp_alloc() gives them.
TypeOK ==
    /\ cache \in [Entries -> Entry] /\ next \in Entries
    /\ pkt \in [Packets -> PacketState]
    /\ snd \in [Senders -> Sender] /\ rx \in Receiver /\ tick \in 0..Size
    /\ overlaps \in 0..MaxOverlaps /\ panic \in BOOLEAN

\* Types are kept; a packet waits in at most one entry, once, and no packet that was
\* transmitted or freed is still linked: arp_queue_send() and arp_queue_drop() unlink
\* what they use.
QueuedOnce ==
    /\ TypeOK
    /\ \A e, f \in Entries : \A i \in Linked(e), j \in Linked(f) :
          cache[e].list[i] = cache[f].list[j] => e = f /\ i = j
    /\ \A e \in Entries : \A i \in Linked(e) : pkt[cache[e].list[i]].at = "queued"

\* A packet leaves with the hardware address of its own next hop: ip_send_dev() uses
\* an entry that it has looked up for that address.  A handler that runs while another
\* is between its lookup and its use of the entry ends this and the next claims.
SentToNextHop ==
    overlaps = 0 => \A p \in Packets : pkt[p].at = "sent" => pkt[p].via = pkt[p].dst

\* arp_recv() sends the waiting packets of the entry it resolves ("send waiting
\* packet"): a queued packet is in the list of a waiting entry for its next hop, and no
\* two entries hold the same address, as arp_lookup() precedes every arp_alloc().
WaitsForItsHop ==
    overlaps = 0 =>
        /\ \A p \in Packets : pkt[p].at = "queued" =>
              \E e \in Entries : /\ p \in Queued(e) /\ cache[e].ip = pkt[p].dst
                                 /\ cache[e].state = "WAITING"
        /\ \A e, f \in Entries :
              /\ cache[e].state # "FREE" /\ cache[f].state # "FREE"
              /\ cache[e].dev /\ cache[f].dev /\ cache[e].ip = cache[f].ip
              => e = f

\* arp_timer() bounds the wait: a queued packet is sent or dropped in the end.
WaitEnds ==
    \A p \in Packets : (pkt[p].at = "queued")
                           ~> (pkt[p].at \in {"sent", "dropped"} \/ overlaps # 0)

-----------------------------------------------------------------------------
(* What the comments say of every interleaving.                            *)

\* "next-hop: default route or remote dst" (ip_out.c): packets leave to their hop.
AlwaysToNextHop == \A p \in Packets : pkt[p].at = "sent" => pkt[p].via = pkt[p].dst

\* "send waiting packet (maybe we receive arp reply)" (arp.c): no packet is left in the
\* list of an entry that is resolved already.
NoPacketLeftWaiting ==
    \A e \in Entries : cache[e].state = "RESOLVED" => cache[e].list = <<>>

\* arp_timer() retries the request of a waiting entry ("retry arp request"), which
\* needs the entry's device.
RetryHasDevice == ~panic
=============================================================================
