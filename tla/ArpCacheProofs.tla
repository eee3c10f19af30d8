--------------------------- MODULE ArpCacheProofs ---------------------------
(***************************************************************************)
(* Proofs about the ARP cache (module ArpCache), for every cache size,     *)
(* timeout, number of senders and of packets: no packet is ever linked     *)
(* twice, however the handlers interleave (LinkInv), and what holds as     *)
(* long as one handler runs at a time (CalmInv): a packet leaves to its    *)
(* next hop, and the one that waits is where the reply for its hop goes.   *)
(***************************************************************************)
EXTENDS ArpCache, TLAPS

-----------------------------------------------------------------------------
(* The invariant of the links.                                             *)

\* A sender that is in ip_send_dev() holds a packet that no other sender has and
\* that is in no list
Holding ==
    /\ \A t \in Senders : snd[t].pc # "idle" =>
           snd[t].pkt \in Packets /\ pkt[snd[t].pkt].at = "held"
    /\ \A t, u \in Senders : snd[t].pc # "idle" /\ snd[u].pc # "idle"
                             /\ snd[t].pkt = snd[u].pkt => t = u

LinkInv == QueuedOnce /\ Holding

\* The entries in use
Used(e) == cache[e].state # "FREE"

-----------------------------------------------------------------------------
(* Lists.                                                                  *)

\* The members of a list are its elements.
LEMMA ListMembers ==
    ASSUME NEW s \in Seq(Packets)
    PROVE  Range(s) = {s[i] : i \in 1..Len(s)}
BY DEF Range

\* What an appended packet does to a list.
LEMMA ListAppend ==
    ASSUME NEW s \in Seq(Packets), NEW p \in Packets
    PROVE  /\ Append(s, p) \in Seq(Packets) /\ Len(Append(s, p)) = Len(s) + 1
           /\ Append(s, p)[Len(s) + 1] = p
           /\ \A i \in 1..Len(s) : Append(s, p)[i] = s[i]
           /\ Range(Append(s, p)) = Range(s) \cup {p}
<1>1. /\ Append(s, p) \in Seq(Packets) /\ Len(Append(s, p)) = Len(s) + 1
      /\ Append(s, p)[Len(s) + 1] = p
      /\ \A i \in 1..Len(s) : Append(s, p)[i] = s[i]
    OBVIOUS
<1>2. Len(s) \in Nat
    OBVIOUS
<1>3. Range(Append(s, p)) = {Append(s, p)[i] : i \in 1..(Len(s) + 1)}
    BY <1>1, ListMembers, Zenon
<1> QED BY <1>1, <1>2, <1>3, ListMembers

\* A set of naturals that is not empty has a least element: a fact of the library.  The
\* lemmas below assume it where they use it; the library comes in once they are proved.
LeastNatural == \A T \in SUBSET Nat : T # {} => \E x \in T : \A y \in T : x <= y

-----------------------------------------------------------------------------
(* What the operators of the cache return.                                 *)

\* A turn of arp_timer() keeps an entry an entry.
LEMMA AgedEntry ==
    ASSUME NEW a \in Entry
    PROVE  /\ Aged(a) \in Entry /\ Aged(a).ip = a.ip /\ Aged(a).hw = a.hw /\ Aged(a).dev = a.dev
           /\ Aged(a).state \in {a.state, "FREE"}
           /\ Aged(a).list = IF Aged(a).state = "FREE" /\ a.state = "WAITING" THEN <<>> ELSE a.list
           /\ Emptied(a) = IF Aged(a).state = "FREE" /\ a.state = "WAITING" THEN Range(a.list)
                           ELSE {}
<1> USE CacheAssumption
<1>1. CASE a.state = "FREE"
  <2>1. Aged(a) = a /\ ~GivesUp(a)
      BY <1>1, Zenon DEF Aged, GivesUp, Over
  <2> QED BY <2>1, <1>1, Zenon DEF Emptied
<1>2. CASE a.state # "FREE" /\ ~Over(a)
  <2>1. Aged(a) = [a EXCEPT !.ttl = @ - 1] /\ ~GivesUp(a)
      BY <1>2, Zenon DEF Aged, GivesUp
  <2>2. a.ttl - 1 \in 0..(Timeout + WaitTime)
      BY <1>2 DEF Over, Entry, WaitTime
  <2> QED BY <2>1, <2>2, <1>2, Zenon DEF Entry, Emptied
<1>3. CASE GivesUp(a)
  <2>1. a.state # "FREE" /\ Over(a)
      BY <1>3, Zenon DEF GivesUp, Over
  <2>2. Aged(a) = [a EXCEPT !.ttl = 0, !.state = "FREE",
                            !.list = IF a.state = "WAITING" THEN <<>> ELSE @]
      BY <1>3, <2>1, Zenon DEF Aged
  <2>3. 0 \in 0..(Timeout + WaitTime) /\ <<>> \in Seq(Packets)
      BY DEF WaitTime
  <2> QED BY <2>2, <2>3, <1>3, Zenon DEF Entry, Emptied
<1>4. CASE Over(a) /\ ~GivesUp(a)
  <2>1. a.state # "FREE"
      BY <1>4, Zenon DEF Over
  <2>2. Aged(a) = [a EXCEPT !.ttl = WaitTime, !.retry = @ - 1]
      BY <1>4, <2>1, Zenon DEF Aged
  <2>3. a.retry - 1 \in 0..Retry /\ WaitTime \in 0..(Timeout + WaitTime)
      BY <1>4 DEF GivesUp, Entry, WaitTime
  <2> QED BY <2>1, <2>2, <2>3, <1>4, Zenon DEF Entry, Emptied
<1> QED BY <1>1, <1>2, <1>3, <1>4, Zenon DEF Over

\* The entry that arp_alloc() returns was free; the next search begins behind it.
LEMMA FreeEntryFree ==
    ASSUME TypeOK, NEW e \in FreeEntry
    PROVE  /\ e \in Entries /\ cache[e].state = "FREE" /\ (e + 1) % Size \in Entries
           /\ arp_alloc(e) \in Entry /\ arp_alloc(e).ip = cache[e].ip
           /\ arp_alloc(e).hw = cache[e].hw
           /\ arp_alloc(e).state = "WAITING" /\ ~arp_alloc(e).dev /\ arp_alloc(e).list = <<>>
<1>1. e \in Entries /\ cache[e].state = "FREE"
    BY Zenon DEF FreeEntry
<1>2. (e + 1) % Size \in Entries
    BY <1>1, CacheAssumption DEF Entries
<1>3. cache[e] \in Entry
    BY <1>1, Zenon DEF TypeOK
<1>4. WaitTime \in 0..(Timeout + WaitTime) /\ Retry \in 0..Retry /\ <<>> \in Seq(Packets)
    BY CacheAssumption DEF WaitTime
<1> QED BY <1>1, <1>2, <1>3, <1>4, Zenon DEF arp_alloc, Entry

\* arp_lookup() returns an entry for the address, and none only when there is none.
LEMMA LookupFinds ==
    ASSUME LeastNatural, NEW d
    PROVE  /\ \A e \in arp_lookup(d) : e \in Entries /\ Used(e) /\ cache[e].ip = d
           /\ arp_lookup(d) = {} => \A e \in Entries : Used(e) => cache[e].ip # d
<1> DEFINE match == {e \in Entries : cache[e].state # "FREE" /\ cache[e].ip = d}
<1>1. match \in SUBSET Nat
    BY DEF Entries
<1>2. match # {} => \E x \in match : \A y \in match : x <= y
    BY <1>1, Zenon DEF LeastNatural
<1>3. arp_lookup(d) = {e \in match : \A f \in match : e <= f}
    BY Zenon DEF arp_lookup
<1> QED BY <1>2, <1>3, Zenon DEF Used

-----------------------------------------------------------------------------
(* Every packet is in one place.                                           *)

\* No address is an address or none.
LEMMA NoneMaybe == None \in MaybeHost
BY Zenon DEF MaybeHost

\* A handler that has not begun is in one of the handlers' states.
LEMMA IdleTypes == IdleSender \in Sender /\ IdleRx \in Receiver
<1>1. 0 \in Entries
    BY CacheAssumption DEF Entries
<1> QED BY <1>1, NoneMaybe, Zenon DEF IdleSender, IdleRx, Sender, Receiver

\* A sender that returns from ip_send_dev() becomes idle, and no other moves.
LEMMA DoneSenders ==
    ASSUME TypeOK, NEW t \in Senders, Done(t)
    PROVE  /\ snd' \in [Senders -> Sender] /\ snd'[t] = IdleSender
           /\ \A u \in Senders \ {t} : snd'[u] = snd[u]
BY IdleTypes, Zenon DEF Done, TypeOK

\* A sender that goes on inside it keeps its packet, and no other moves.
LEMMA AtSenders ==
    ASSUME TypeOK, NEW t \in Senders, NEW e \in Entries, NEW pc, At(t, pc, e),
           pc \in {"idle", "missing", "allocated", "found", "append", "transmit"}
    PROVE  /\ snd' \in [Senders -> Sender]
           /\ snd'[t].pc = pc /\ snd'[t].ae = e /\ snd'[t].pkt = snd[t].pkt
           /\ \A u \in Senders \ {t} : snd'[u] = snd[u]
<1>1. snd' \in [Senders -> Sender]
    BY Zenon DEF At, TypeOK, Sender
<1>2. snd'[t].pc = pc /\ snd'[t].ae = e /\ snd'[t].pkt = snd[t].pkt
    BY Zenon DEF At, TypeOK, Sender
<1>3. \A u \in Senders \ {t} : snd'[u] = snd[u]
    BY Zenon DEF At, TypeOK
<1> QED BY <1>1, <1>2, <1>3, Zenon

\* Emptying lists keeps the links right when no packet that stays linked moves.
LEMMA LinksShrink ==
    ASSUME LinkInv, TypeOK',
           \A e \in Entries : cache'[e].list = cache[e].list \/ cache'[e].list = <<>>,
           \A e \in Entries : \A i \in Linked(e) :
               cache'[e].list = cache[e].list => pkt'[cache[e].list[i]].at = "queued"
    PROVE  QueuedOnce'
<1>1. ASSUME NEW e \in Entries, NEW i \in Linked(e)'
      PROVE  i \in Linked(e) /\ cache'[e].list = cache[e].list
    BY <1>1 DEF Linked
<1>2. ASSUME NEW e \in Entries, NEW f \in Entries, NEW i \in Linked(e)', NEW j \in Linked(f)',
             cache'[e].list[i] = cache'[f].list[j]
      PROVE  e = f /\ i = j
    BY <1>1, <1>2 DEF LinkInv, QueuedOnce
<1>3. ASSUME NEW e \in Entries, NEW i \in Linked(e)'
      PROVE  pkt'[cache'[e].list[i]].at = "queued"
    BY <1>1, <1>3, Zenon
<1> QED BY <1>2, <1>3, Zenon DEF QueuedOnce

\* Appending a packet that a sender held keeps them right.
LEMMA LinksAppend ==
    ASSUME LinkInv, TypeOK', NEW e \in Entries, NEW p \in Packets, pkt[p].at = "held",
           cache'[e].list = Append(cache[e].list, p),
           \A f \in Entries \ {e} : cache'[f].list = cache[f].list,
           pkt'[p].at = "queued", \A q \in Packets \ {p} : pkt'[q].at = pkt[q].at
    PROVE  QueuedOnce'
<1>1. TypeOK /\ \A f \in Entries : cache[f].list \in Seq(Packets)
    BY Zenon DEF LinkInv, QueuedOnce, TypeOK, Entry
<1>2. ASSUME NEW f \in Entries, NEW i \in Linked(f)
      PROVE  /\ cache[f].list[i] \in Packets /\ cache[f].list[i] # p
             /\ pkt[cache[f].list[i]].at = "queued"
  <2>1. pkt[cache[f].list[i]].at = "queued"
      BY Zenon DEF LinkInv, QueuedOnce
  <2>2. cache[f].list[i] \in Packets
      BY <1>1 DEF Linked
  <2> QED BY <2>1, <2>2, Zenon
\* A link of the new lists is an old one or the new last one of e
<1>3. ASSUME NEW f \in Entries, NEW i \in Linked(f)'
      PROVE  \/ i \in Linked(f) /\ cache'[f].list[i] = cache[f].list[i]
             \/ f = e /\ i = Len(cache[e].list) + 1 /\ cache'[f].list[i] = p
  <2>1. CASE f # e
      BY <2>1, <1>3, Zenon DEF Linked
  <2>2. CASE f = e
    <3> DEFINE s == cache[e].list
    <3>1. s \in Seq(Packets) /\ Len(s) \in Nat
        BY <1>1
    <3> HIDE DEF s
    <3>2. i \in 1..(Len(s) + 1)
        BY <3>1, <2>2, <1>3, ListAppend DEF Linked, s
    <3>3. i \in 1..Len(s) \/ i = Len(s) + 1
        BY <3>1, <3>2
    <3>4. i \in 1..Len(s) => Append(s, p)[i] = s[i]
        BY <3>1, ListAppend, Zenon
    <3>5. Append(s, p)[Len(s) + 1] = p
        BY <3>1, ListAppend, Zenon
    <3> QED BY <3>3, <3>4, <3>5, <2>2, Zenon DEF Linked, s
  <2> QED BY <2>1, <2>2, Zenon
<1>4. ASSUME NEW f \in Entries, NEW g \in Entries, NEW i \in Linked(f)', NEW j \in Linked(g)',
             cache'[f].list[i] = cache'[g].list[j]
      PROVE  f = g /\ i = j
  <2>1. CASE i \in Linked(f) /\ cache'[f].list[i] = cache[f].list[i]
             /\ j \in Linked(g) /\ cache'[g].list[j] = cache[g].list[j]
    <3>1. cache[f].list[i] = cache[g].list[j]
        BY <2>1, <1>4, Zenon
    <3>2. \A a, b \in Entries : \A k \in Linked(a), l \in Linked(b) :
              cache[a].list[k] = cache[b].list[l] => a = b /\ k = l
        BY Zenon DEF LinkInv, QueuedOnce
    <3> QED BY <3>1, <3>2, <2>1
  <2>2. CASE i \in Linked(f) /\ cache'[f].list[i] = cache[f].list[i]
             /\ g = e /\ j = Len(cache[e].list) + 1 /\ cache'[g].list[j] = p
      BY <2>2, <1>2, <1>4, Zenon
  <2>3. CASE f = e /\ i = Len(cache[e].list) + 1 /\ cache'[f].list[i] = p
             /\ j \in Linked(g) /\ cache'[g].list[j] = cache[g].list[j]
      BY <2>3, <1>2, <1>4, Zenon
  <2>4. CASE f = e /\ i = Len(cache[e].list) + 1 /\ g = e /\ j = Len(cache[e].list) + 1
      BY <2>4, Zenon
  <2> QED BY <2>1, <2>2, <2>3, <2>4, <1>3, Zenon
<1>5. ASSUME NEW f \in Entries, NEW i \in Linked(f)'
      PROVE  pkt'[cache'[f].list[i]].at = "queued"
    BY <1>2, <1>3, <1>5
<1> QED BY <1>4, <1>5, Zenon DEF QueuedOnce

\* Senders that stay in ip_send_dev() keep the packets they held.
LEMMA HoldingKept ==
    ASSUME LinkInv,
           \A t \in Senders : snd'[t].pc # "idle" =>
               /\ snd[t].pc # "idle" /\ snd'[t].pkt = snd[t].pkt
               /\ pkt'[snd[t].pkt].at = pkt[snd[t].pkt].at
    PROVE  Holding'
BY DEF LinkInv, Holding

\* No two senders hold one packet, and a packet that is held is not linked.
LEMMA HeldApart ==
    ASSUME LinkInv, NEW t \in Senders, snd[t].pc # "idle"
    PROVE  /\ snd[t].pkt \in Packets /\ pkt[snd[t].pkt].at = "held"
           /\ \A u \in Senders \ {t} : snd[u].pc # "idle" => snd[u].pkt # snd[t].pkt
           /\ \A e \in Entries : \A i \in Linked(e) :
                  /\ cache[e].list[i] \in Packets /\ cache[e].list[i] # snd[t].pkt
                  /\ cache[e].list[i] \in Range(cache[e].list)
<1>1. snd[t].pkt \in Packets /\ pkt[snd[t].pkt].at = "held"
    BY Zenon DEF LinkInv, Holding
<1>2. \A u \in Senders \ {t} : snd[u].pc # "idle" => snd[u].pkt # snd[t].pkt
    BY Zenon DEF LinkInv, Holding
<1>3. ASSUME NEW e \in Entries, NEW i \in Linked(e)
      PROVE  /\ cache[e].list[i] \in Packets /\ pkt[cache[e].list[i]].at = "queued"
             /\ cache[e].list[i] \in Range(cache[e].list)
  <2>1. cache[e].list \in Seq(Packets)
      BY Zenon DEF LinkInv, QueuedOnce, TypeOK, Entry
  <2>2. pkt[cache[e].list[i]].at = "queued"
      BY Zenon DEF LinkInv, QueuedOnce
  <2> QED BY <2>1, <2>2, ListMembers DEF Linked
<1> QED BY <1>1, <1>2, <1>3, Zenon

\* The initial cache has no links.
LEMMA InitLink == Init => LinkInv
<1> SUFFICES ASSUME Init PROVE LinkInv
    BY Zenon
<1> USE CacheAssumption, ThreadsAssumption
<1>1. TypeOK
  <2>1. 0 \in Entries /\ 0 \in 0..(Timeout + WaitTime) /\ 0 \in 0..Retry /\ <<>> \in Seq(Packets)
      BY DEF Entries, WaitTime
  <2>2. cache \in [Entries -> Entry]
      BY <2>1, Zenon DEF Init, Entry, MaybeHost
  <2>3. pkt \in [Packets -> PacketState]
      BY Zenon DEF Init, PacketState, MaybeHost
  <2>4. IdleSender \in Sender /\ IdleRx \in Receiver
      BY <2>1, Zenon DEF IdleSender, IdleRx, Sender, Receiver, MaybeHost
  <2>5. snd \in [Senders -> Sender] /\ rx \in Receiver
      BY <2>4, Zenon DEF Init
  <2>6. next \in Entries /\ tick \in 0..Size /\ overlaps \in 0..MaxOverlaps /\ panic \in BOOLEAN
    <3>1. Size \in 0..Size /\ 0 \in 0..MaxOverlaps
        OBVIOUS
    <3> QED BY <3>1, <2>1, Zenon DEF Init
  <2> QED BY <2>2, <2>3, <2>5, <2>6, Zenon DEF TypeOK
<1>2. \A e \in Entries : Linked(e) = {}
    BY DEF Init, Linked
<1>3. Holding
    BY Zenon DEF Init, Holding, IdleSender
<1> QED BY <1>1, <1>2, <1>3, Zenon DEF LinkInv, QueuedOnce

\* A sender takes a packet from its application.
LEMMA SendLink ==
    ASSUME LeastNatural, LinkInv, NEW t \in Senders, NEW p \in Packets, NEW d \in Hosts,
           Send(t, p, d)
    PROVE  LinkInv'
<1> USE CacheAssumption
<1>0. TypeOK
    BY Zenon DEF LinkInv, QueuedOnce
<1>1. /\ Begin /\ snd[t].pc = "idle" /\ pkt[p].at = "app"
      /\ pkt' = [pkt EXCEPT ![p].dst = d, ![p].at = "held"]
      /\ UNCHANGED <<cache, next, rx, tick, panic>>
    BY Zenon DEF Send
<1>2. snd'[t] \in Sender /\ snd'[t].pkt = p /\ snd' = [snd EXCEPT ![t] = snd'[t]]
  <2>1. 0 \in Entries
      BY DEF Entries
  <2>2. arp_lookup(d) # {} => (CHOOSE e \in arp_lookup(d) : TRUE) \in Entries
      BY LookupFinds, Zenon
  <2> QED BY <2>1, <2>2, <1>0, Zenon DEF Send, TypeOK, Sender
<1>3. overlaps' \in 0..MaxOverlaps
    BY <1>0, <1>1, ThreadsAssumption DEF Begin, TypeOK
<1>4. /\ pkt' \in [Packets -> PacketState] /\ pkt'[p].at = "held"
      /\ \A q \in Packets \ {p} : pkt'[q] = pkt[q]
    BY <1>0, <1>1 DEF TypeOK, PacketState, MaybeHost
<1>5. TypeOK'
    BY <1>0, <1>1, <1>2, <1>3, <1>4, Zenon DEF TypeOK
<1>6. ASSUME NEW e \in Entries, NEW i \in Linked(e)
      PROVE  pkt'[cache[e].list[i]].at = "queued"
  <2>1. pkt[cache[e].list[i]].at = "queued"
      BY Zenon DEF LinkInv, QueuedOnce
  <2>2. cache[e].list[i] \in Packets
      BY <1>0 DEF Linked, TypeOK, Entry
  <2> QED BY <2>1, <2>2, <1>1, <1>4, Zenon
<1>7. QueuedOnce'
    BY <1>1, <1>5, <1>6, LinksShrink, Zenon
<1>8. Holding'
  <2>1. \A u \in Senders \ {t} : snd'[u] = snd[u]
      BY <1>2, <1>0, Zenon DEF TypeOK
  <2>2. \A u \in Senders : snd[u].pc # "idle" => snd[u].pkt \in Packets /\ snd[u].pkt # p
      BY <1>1, Zenon DEF LinkInv, Holding
  <2> QED BY <2>1, <2>2, <1>2, <1>4 DEF LinkInv, Holding
<1> QED BY <1>7, <1>8, Zenon DEF LinkInv

\* It allocates an entry, or drops the packet it holds.
LEMMA AllocateLink ==
    ASSUME LinkInv, NEW t \in Senders, Allocate(t)
    PROVE  LinkInv'
<1> DEFINE p == snd[t].pkt
<1>0. TypeOK
    BY Zenon DEF LinkInv, QueuedOnce
<1>1. snd[t].pc = "missing" /\ UNCHANGED <<rx, tick, overlaps, panic>>
    BY Zenon DEF Allocate
<1>2. /\ p \in Packets /\ pkt[p].at = "held"
      /\ \A u \in Senders \ {t} : snd[u].pc # "idle" => snd[u].pkt # p
      /\ \A e \in Entries : \A i \in Linked(e) :
             cache[e].list[i] \in Packets /\ cache[e].list[i] # p
    BY <1>1, HeldApart, Zenon
<1>3. \A e \in Entries : \A i \in Linked(e) : pkt[cache[e].list[i]].at = "queued"
    BY Zenon DEF LinkInv, QueuedOnce
<1>4. CASE FreeEntry = {}
  <2>1. pkt' = Moved({p}, "dropped", None) /\ Done(t) /\ UNCHANGED <<cache, next>>
      BY <1>4, Zenon DEF Allocate
  <2>2. pkt' \in [Packets -> PacketState] /\ \A q \in Packets \ {p} : pkt'[q] = pkt[q]
    <3> HIDE DEF p
    <3>1. /\ Moved({p}, "dropped", None) \in [Packets -> PacketState]
          /\ \A q \in Packets \ {p} : Moved({p}, "dropped", None)[q] = pkt[q]
        BY <1>0, <1>2, NoneMaybe, Zenon DEF Moved, TypeOK, PacketState
    <3> QED BY <3>1, <2>1, Zenon
  <2>3. /\ snd' \in [Senders -> Sender] /\ snd'[t].pc = "idle"
        /\ \A u \in Senders \ {t} : snd'[u] = snd[u]
      BY <2>1, <1>0, DoneSenders DEF IdleSender
  <2>4. TypeOK'
      BY <2>1, <2>2, <2>3, <1>0, <1>1, Zenon DEF TypeOK
  <2>5. QueuedOnce'
    <3>1. \A e \in Entries : \A i \in Linked(e) : pkt'[cache[e].list[i]].at = "queued"
        BY <2>2, <1>2, <1>3
    <3> QED BY <3>1, <2>1, <2>4, LinksShrink, Zenon
  <2>6. Holding'
    <3>1. \A u \in Senders : snd[u].pc # "idle" => snd[u].pkt \in Packets
        BY Zenon DEF LinkInv, Holding
    <3> QED BY <3>1, <2>2, <2>3, <1>2, HoldingKept
  <2> QED BY <2>5, <2>6, Zenon DEF LinkInv
<1>5. CASE FreeEntry # {}
  <2>1. PICK e \in FreeEntry : /\ cache' = [cache EXCEPT ![e] = arp_alloc(e)]
                               /\ next' = (e + 1) % Size /\ At(t, "allocated", e)
                               /\ UNCHANGED pkt
      BY <1>5, Zenon DEF Allocate
  <2>2. /\ e \in Entries /\ next' \in Entries /\ arp_alloc(e) \in Entry
        /\ arp_alloc(e).list = <<>>
      BY <2>1, <1>0, FreeEntryFree, Zenon
  <2>3. /\ snd' \in [Senders -> Sender]
        /\ \A u \in Senders : snd'[u].pkt = snd[u].pkt
        /\ \A u \in Senders : snd'[u].pc # "idle" => snd[u].pc # "idle"
      BY <2>1, <2>2, <1>0, <1>1, AtSenders, Zenon
  <2>4. TypeOK'
      BY <2>1, <2>2, <2>3, <1>0, <1>1, Zenon DEF TypeOK
  <2>5. \A f \in Entries : cache'[f].list = cache[f].list \/ cache'[f].list = <<>>
      BY <2>1, <2>2, <1>0, Zenon DEF TypeOK
  <2>6. QueuedOnce'
      BY <2>1, <2>4, <2>5, <1>3, LinksShrink, Zenon
  <2>7. Holding'
      BY <2>1, <2>3, HoldingKept, Zenon
  <2> QED BY <2>6, <2>7, Zenon DEF LinkInv
<1> QED BY <1>4, <1>5, Zenon

\* It links its packet to the entry it has allocated or found.
LEMMA LinkLink ==
    ASSUME LinkInv, NEW t \in Senders, Fill(t) \/ Wait(t)
    PROVE  LinkInv'
<1> DEFINE p == snd[t].pkt
           e == snd[t].ae
<1>0. TypeOK
    BY Zenon DEF LinkInv, QueuedOnce
<1>1. /\ snd[t].pc # "idle" /\ pkt' = Moved({p}, "queued", None) /\ Done(t)
      /\ UNCHANGED <<next, rx, tick, overlaps, panic>>
    BY Zenon DEF Fill, Wait
<1>2. /\ p \in Packets /\ pkt[p].at = "held"
      /\ \A u \in Senders \ {t} : snd[u].pc # "idle" => snd[u].pkt # p
    BY <1>1, HeldApart, Zenon
<1>3. e \in Entries /\ cache[e] \in Entry /\ cache[e].list \in Seq(Packets)
    BY <1>0, Zenon DEF TypeOK, Sender, Entry
<1>4. Append(cache[e].list, p) \in Seq(Packets)
    BY <1>2, <1>3, ListAppend, Zenon
<1>5. /\ cache' \in [Entries -> Entry] /\ cache'[e].list = Append(cache[e].list, p)
      /\ \A f \in Entries \ {e} : cache'[f] = cache[f]
  <2>1. CASE Fill(t)
    <3>1. pkt[p].dst \in MaybeHost
        BY <1>0, <1>2, Zenon DEF TypeOK, PacketState
    <3>2. cache' = [cache EXCEPT ![e] = [cache[e] EXCEPT !.ip = pkt[p].dst, !.dev = TRUE,
                                         !.list = Append(cache[e].list, p)]]
        BY <2>1, <1>0, <1>3, Zenon DEF Fill, TypeOK, Entry
    <3> HIDE DEF e, p
    <3> QED BY <3>1, <3>2, <1>0, <1>3, <1>4, Zenon DEF TypeOK, Entry
  <2>2. CASE Wait(t)
    <3>2. cache' = [cache EXCEPT ![e] = [cache[e] EXCEPT !.list = Append(cache[e].list, p)]]
        BY <2>2, <1>0, <1>3, Zenon DEF Wait, TypeOK, Entry
    <3> HIDE DEF e, p
    <3> QED BY <3>2, <1>0, <1>3, <1>4, Zenon DEF TypeOK, Entry
  <2> QED BY <2>1, <2>2, Zenon
<1>6. /\ pkt' \in [Packets -> PacketState] /\ pkt'[p].at = "queued"
      /\ \A q \in Packets \ {p} : pkt'[q] = pkt[q]
  <2> HIDE DEF p
  <2>1. /\ Moved({p}, "queued", None) \in [Packets -> PacketState]
        /\ Moved({p}, "queued", None)[p].at = "queued"
        /\ \A q \in Packets \ {p} : Moved({p}, "queued", None)[q] = pkt[q]
      BY <1>0, <1>2, NoneMaybe, Zenon DEF Moved, TypeOK, PacketState
  <2> QED BY <2>1, <1>1, Zenon
<1>7. /\ snd' \in [Senders -> Sender] /\ snd'[t].pc = "idle"
      /\ \A u \in Senders \ {t} : snd'[u] = snd[u]
    BY <1>0, <1>1, DoneSenders DEF IdleSender
<1> HIDE DEF e, p
<1>8. TypeOK'
    BY <1>0, <1>1, <1>5, <1>6, <1>7, Zenon DEF TypeOK
<1>9. QueuedOnce'
    BY <1>2, <1>3, <1>5, <1>6, <1>8, LinksAppend
<1>10. Holding'
  <2>1. \A u \in Senders : snd[u].pc # "idle" => snd[u].pkt \in Packets
      BY Zenon DEF LinkInv, Holding
  <2> QED BY <2>1, <1>2, <1>6, <1>7, HoldingKept
<1> QED BY <1>9, <1>10, Zenon DEF LinkInv

\* Testing the state of the entry leaves the lists alone.
LEMMA TestLink ==
    ASSUME LinkInv, NEW t \in Senders, Test(t)
    PROVE  LinkInv'
<1>0. TypeOK
    BY Zenon DEF LinkInv, QueuedOnce
<1>1. snd[t].pc = "found" /\ UNCHANGED <<cache, next, pkt, rx, tick, overlaps, panic>>
    BY Zenon DEF Test
<1>2. /\ snd' \in [Senders -> Sender] /\ \A u \in Senders : snd'[u].pkt = snd[u].pkt
      /\ \A u \in Senders : snd'[u].pc # "idle" => snd[u].pc # "idle"
  <2>1. PICK pc \in {"append", "transmit"} : At(t, pc, snd[t].ae)
      BY Zenon DEF Test
  <2>2. snd[t].ae \in Entries
      BY <1>0, Zenon DEF TypeOK, Sender
  <2> QED BY <2>1, <2>2, <1>0, <1>1, AtSenders
<1>3. TypeOK'
    BY <1>0, <1>1, <1>2, Zenon DEF TypeOK
<1>4. QueuedOnce'
    BY <1>1, <1>3 DEF LinkInv, QueuedOnce, Linked
<1>5. Holding'
    BY <1>1, <1>2, HoldingKept, Zenon
<1> QED BY <1>4, <1>5, Zenon DEF LinkInv

\* Transmitting takes the packet that the sender holds, which no list has.
LEMMA TransmitLink ==
    ASSUME LinkInv, NEW t \in Senders, Transmit(t)
    PROVE  LinkInv'
<1> DEFINE p == snd[t].pkt
           h == cache[snd[t].ae].hw
<1>0. TypeOK
    BY Zenon DEF LinkInv, QueuedOnce
<1>1. /\ snd[t].pc = "transmit" /\ pkt' = Moved({p}, "sent", h) /\ Done(t)
      /\ UNCHANGED <<cache, next, rx, tick, overlaps, panic>>
    BY Zenon DEF Transmit
<1>2. /\ p \in Packets /\ pkt[p].at = "held"
      /\ \A u \in Senders \ {t} : snd[u].pc # "idle" => snd[u].pkt # p
      /\ \A e \in Entries : \A i \in Linked(e) :
             cache[e].list[i] \in Packets /\ cache[e].list[i] # p
    BY <1>1, HeldApart, Zenon
<1>3. h \in MaybeHost
    BY <1>0, Zenon DEF TypeOK, Sender, Entry
<1> HIDE DEF p, h
<1>4. pkt' \in [Packets -> PacketState] /\ \A q \in Packets \ {p} : pkt'[q] = pkt[q]
  <2>1. /\ Moved({p}, "sent", h) \in [Packets -> PacketState]
        /\ \A q \in Packets \ {p} : Moved({p}, "sent", h)[q] = pkt[q]
      BY <1>0, <1>2, <1>3, Zenon DEF Moved, TypeOK, PacketState
  <2> QED BY <2>1, <1>1, Zenon
<1>5. /\ snd' \in [Senders -> Sender] /\ snd'[t].pc = "idle"
      /\ \A u \in Senders \ {t} : snd'[u] = snd[u]
    BY <1>0, <1>1, DoneSenders DEF IdleSender
<1>6. TypeOK'
    BY <1>0, <1>1, <1>4, <1>5, Zenon DEF TypeOK
<1>7. QueuedOnce'
  <2>1. \A e \in Entries : \A i \in Linked(e) : pkt[cache[e].list[i]].at = "queued"
      BY Zenon DEF LinkInv, QueuedOnce
  <2>2. \A e \in Entries : \A i \in Linked(e) : pkt'[cache[e].list[i]].at = "queued"
      BY <2>1, <1>2, <1>4
  <2> QED BY <2>2, <1>1, <1>6, LinksShrink, Zenon
<1>8. Holding'
  <2>1. \A u \in Senders : snd[u].pc # "idle" => snd[u].pkt \in Packets
      BY Zenon DEF LinkInv, Holding
  <2> QED BY <2>1, <1>2, <1>4, <1>5, HoldingKept
<1> QED BY <1>7, <1>8, Zenon DEF LinkInv

\* The packets of an emptied list move together; the others keep their links.
LEMMA EmptiedLink ==
    ASSUME LinkInv, TypeOK', NEW e \in Entries, UNCHANGED snd,
           NEW at \in {"sent", "dropped"}, NEW via \in MaybeHost,
           \A f \in Entries \ {e} : cache'[f].list = cache[f].list,
           \/ /\ cache'[e].list = <<>>
              /\ pkt' = Moved(Range(cache[e].list), at, via)
           \/ cache'[e].list = cache[e].list /\ pkt' = Moved({}, at, via)
    PROVE  LinkInv'
<1>0. TypeOK
    BY Zenon DEF LinkInv, QueuedOnce
<1>1. \A f \in Entries : cache[f].list \in Seq(Packets)
    BY <1>0, Zenon DEF TypeOK, Entry
<1>2. ASSUME NEW f \in Entries, NEW i \in Linked(f)
      PROVE  cache[f].list[i] \in Packets /\ pkt[cache[f].list[i]].at = "queued"
  <2>1. cache[f].list[i] \in Packets
      BY <1>1 DEF Linked
  <2> QED BY <2>1, Zenon DEF LinkInv, QueuedOnce
<1>3. ASSUME NEW t \in Senders, snd[t].pc # "idle"
      PROVE  pkt'[snd[t].pkt] = pkt[snd[t].pkt]
  <2>1. snd[t].pkt \in Packets /\ pkt[snd[t].pkt].at = "held"
      BY <1>3, Zenon DEF LinkInv, Holding
  <2>2. Range(cache[e].list) = {cache[e].list[i] : i \in Linked(e)}
      BY <1>1, ListMembers, Zenon DEF Linked
  <2>3. snd[t].pkt \notin Range(cache[e].list)
      BY <2>1, <2>2, <1>2, Zenon
  <2> QED BY <2>1, <2>3, Zenon DEF Moved
<1>4. ASSUME NEW f \in Entries, NEW i \in Linked(f), cache'[f].list = cache[f].list
      PROVE  pkt'[cache[f].list[i]].at = "queued"
  <2> DEFINE q == cache[f].list[i]
  <2>1. q \in Packets /\ pkt[q].at = "queued"
      BY <1>2, Zenon
  <2>2. CASE pkt' = Moved({}, at, via)
      BY <2>1, <2>2, Zenon DEF Moved
  <2>3. CASE cache'[e].list = <<>> /\ pkt' = Moved(Range(cache[e].list), at, via)
    <3>1. f # e
        BY <2>3, <1>4 DEF Linked
    <3>2. Range(cache[e].list) = {cache[e].list[j] : j \in Linked(e)}
        BY <1>1, ListMembers, Zenon DEF Linked
    <3>3. \A j \in Linked(e) : cache[e].list[j] # q
        BY <3>1 DEF LinkInv, QueuedOnce
    <3>4. q \notin Range(cache[e].list)
        BY <3>2, <3>3, Zenon
    <3> QED BY <3>4, <2>1, <2>3, Zenon DEF Moved
  <2> QED BY <2>2, <2>3, Zenon
<1>5. QueuedOnce'
    BY <1>4, LinksShrink, Zenon
<1>6. Holding'
    BY <1>3, HoldingKept, Zenon
<1> QED BY <1>5, <1>6, Zenon DEF LinkInv

\* What arp_recv() writes into the entry it resolves; its list stays.
LEMMA ResolveWrites ==
    ASSUME TypeOK, NEW e \in Entries, Resolve(e)
    PROVE  /\ cache' \in [Entries -> Entry] /\ \A f \in Entries \ {e} : cache'[f] = cache[f]
           /\ cache'[e].state = "RESOLVED" /\ cache'[e].list = cache[e].list
           /\ cache'[e].ip = cache[e].ip /\ cache'[e].hw = cache[e].hw
           /\ cache'[e].dev = cache[e].dev
<1> DEFINE r == [cache[e] EXCEPT !.state = "RESOLVED", !.ttl = Timeout]
<1>1. cache[e] \in Entry /\ Timeout \in 0..(Timeout + WaitTime)
    BY CacheAssumption DEF TypeOK, WaitTime
<1>2. /\ r \in Entry /\ r.state = "RESOLVED" /\ r.list = cache[e].list /\ r.ip = cache[e].ip
      /\ r.hw = cache[e].hw /\ r.dev = cache[e].dev
    BY <1>1, Zenon DEF Entry
<1>3. cache' = [cache EXCEPT ![e] = r]
    BY <1>1, Zenon DEF Resolve, TypeOK, Entry
<1> QED BY <1>2, <1>3, Zenon DEF TypeOK

\* What arp_insert() writes into the entry it allocated.
LEMMA InsertFillWrites ==
    ASSUME TypeOK, NEW e \in Entries, InsertFill(e)
    PROVE  /\ cache' \in [Entries -> Entry] /\ \A f \in Entries \ {e} : cache'[f] = cache[f]
           /\ cache'[e].state = "RESOLVED" /\ cache'[e].list = cache[e].list
           /\ cache'[e].ip = rx.ip /\ cache'[e].hw = cache[e].hw /\ cache'[e].dev
<1> DEFINE r == [cache[e] EXCEPT !.dev = TRUE, !.ttl = Timeout, !.ip = rx.ip,
                                 !.state = "RESOLVED"]
<1>1. cache[e] \in Entry /\ Timeout \in 0..(Timeout + WaitTime) /\ rx.ip \in MaybeHost
    BY CacheAssumption DEF TypeOK, WaitTime, Receiver
<1>2. /\ r \in Entry /\ r.state = "RESOLVED" /\ r.list = cache[e].list /\ r.ip = rx.ip
      /\ r.hw = cache[e].hw /\ r.dev
    BY <1>1, Zenon DEF Entry
<1>3. cache' = [cache EXCEPT ![e] = r]
    BY <1>1, Zenon DEF InsertFill, TypeOK, Entry
<1> QED BY <1>2, <1>3, Zenon DEF TypeOK

\* The hardware address comes last.
LEMMA InsertAddressWrites ==
    ASSUME TypeOK, NEW e \in Entries, InsertAddress(e)
    PROVE  /\ cache' \in [Entries -> Entry] /\ \A f \in Entries \ {e} : cache'[f] = cache[f]
           /\ cache'[e].state = cache[e].state /\ cache'[e].list = cache[e].list
           /\ cache'[e].ip = cache[e].ip /\ cache'[e].hw = rx.ip
           /\ cache'[e].dev = cache[e].dev
<1>1. rx.ip \in MaybeHost
    BY Zenon DEF TypeOK, Receiver
<1>2. cache' = [cache EXCEPT ![e].hw = rx.ip]
    BY Zenon DEF InsertAddress
<1> QED BY <1>1, <1>2, Zenon DEF TypeOK, Entry

\* arp_recv(): looking up an entry touches nothing; using it empties at most its list.
LEMMA RecvLink ==
    ASSUME LinkInv, RecvStep
    PROVE  LinkInv'
<1> USE CacheAssumption
<1>0. TypeOK
    BY Zenon DEF LinkInv, QueuedOnce
<1>1. ASSUME TypeOK', UNCHANGED <<pkt, snd>>,
             \A f \in Entries : cache'[f].list = cache[f].list \/ cache'[f].list = <<>>
      PROVE  LinkInv'
  <2>1. \A f \in Entries : \A i \in Linked(f) : pkt'[cache[f].list[i]].at = "queued"
      BY <1>1, Zenon DEF LinkInv, QueuedOnce
  <2>2. QueuedOnce'
      BY <2>1, <1>1, LinksShrink, Zenon
  <2>3. Holding'
      BY <1>1, HoldingKept, Zenon
  <2> QED BY <2>2, <2>3, Zenon DEF LinkInv
<1>2. CASE Insert
  <2>1. rx.pc = "insert" /\ UNCHANGED <<pkt, snd, tick, overlaps, panic>>
      BY <1>2, Zenon DEF Insert
  <2>2. CASE FreeEntry = {}
    <3>1. rx' = IdleRx /\ UNCHANGED <<cache, next>>
        BY <1>2, <2>2, Zenon DEF Insert
    <3>2. rx' \in Receiver
        BY <3>1, NoneMaybe DEF IdleRx, Receiver, Entries
    <3>3. TypeOK'
        BY <3>1, <3>2, <2>1, <1>0, Zenon DEF TypeOK
    <3> QED BY <3>1, <3>3, <2>1, <1>1, Zenon
  <2>3. CASE FreeEntry # {}
    <3>1. PICK e \in FreeEntry : /\ cache' = [cache EXCEPT ![e] = arp_alloc(e)]
                                 /\ next' = (e + 1) % Size
                                 /\ rx' = [rx EXCEPT !.pc = "fill", !.ae = e]
        BY <1>2, <2>3, Zenon DEF Insert
    <3>2. /\ e \in Entries /\ next' \in Entries /\ arp_alloc(e) \in Entry
          /\ arp_alloc(e).list = <<>>
        BY <3>1, <1>0, FreeEntryFree, Zenon
    <3>3. rx' \in Receiver
        BY <3>1, <3>2, <1>0, Zenon DEF TypeOK, Receiver
    <3>4. TypeOK'
        BY <3>1, <3>2, <3>3, <2>1, <1>0, Zenon DEF TypeOK
    <3>5. \A f \in Entries : cache'[f].list = cache[f].list \/ cache'[f].list = <<>>
        BY <3>1, <3>2, <1>0, Zenon DEF TypeOK
    <3> QED BY <3>4, <3>5, <2>1, <1>1, Zenon
  <2> QED BY <2>2, <2>3, Zenon
<1>3. ASSUME NEW e \in Entries, Learn(e) PROVE LinkInv'
  <2>1. /\ cache' = [cache EXCEPT ![e].hw = rx.ip, ![e].list = Unlinked(cache[e])]
        /\ pkt' = Moved(Flushed(cache[e]), "sent", rx.ip) /\ rx' = [rx EXCEPT !.pc = "resolve"]
        /\ UNCHANGED <<next, snd, tick, overlaps, panic>>
      BY <1>3, Zenon DEF Learn, RxAt
  <2>2. rx.ip \in MaybeHost /\ rx' \in Receiver
      BY <2>1, <1>0, Zenon DEF TypeOK, Receiver
  <2>3. Unlinked(cache[e]) \in Seq(Packets)
      BY <1>0 DEF Unlinked, TypeOK, Entry
  <2>4. /\ cache' \in [Entries -> Entry] /\ cache'[e].list = Unlinked(cache[e])
        /\ \A f \in Entries \ {e} : cache'[f] = cache[f]
    <3>1. PICK u \in Seq(Packets), h \in MaybeHost : u = Unlinked(cache[e]) /\ h = rx.ip
        BY <2>2, <2>3, Zenon
    <3>2. cache[e] \in Entry /\ cache \in [Entries -> Entry]
        BY <1>0, Zenon DEF TypeOK
    <3>3. [cache[e] EXCEPT !.hw = h, !.list = u] \in Entry
        BY <3>2, Zenon DEF Entry
    <3>4. cache' = [cache EXCEPT ![e] = [cache[e] EXCEPT !.hw = h, !.list = u]]
        BY <3>1, <3>2, <2>1, Zenon
    <3> QED BY <3>1, <3>2, <3>3, <3>4, Zenon DEF Entry
  <2>5. pkt' \in [Packets -> PacketState]
      BY <2>1, <2>2, <1>0, Zenon DEF Moved, TypeOK, PacketState
  <2>6. TypeOK'
      BY <2>1, <2>2, <2>4, <2>5, <1>0, Zenon DEF TypeOK
  <2>7. \/ cache'[e].list = <<>> /\ pkt' = Moved(Range(cache[e].list), "sent", rx.ip)
        \/ cache'[e].list = cache[e].list /\ pkt' = Moved({}, "sent", rx.ip)
      BY <2>1, <2>4, Zenon DEF Unlinked, Flushed
  <2> QED BY <2>1, <2>2, <2>4, <2>6, <2>7, EmptiedLink, Zenon
<1>4. ASSUME NEW e \in Entries, Resolve(e) \/ InsertFill(e) \/ InsertAddress(e)
      PROVE  LinkInv'
  <2>1. UNCHANGED <<next, pkt, snd, tick, overlaps, panic>>
      BY <1>4, Zenon DEF Resolve, InsertFill, InsertAddress
  <2>2. rx' \in Receiver
    <3>1. rx' = IdleRx \/ RxAt("address")
        BY <1>4, Zenon DEF Resolve, InsertFill, InsertAddress
    <3> QED BY <3>1, <1>0, IdleTypes, Zenon DEF RxAt, TypeOK, Receiver
  <2>3. cache' \in [Entries -> Entry] /\ \A f \in Entries : cache'[f].list = cache[f].list
    <3>1. CASE Resolve(e)
        BY <3>1, <1>0, ResolveWrites, Zenon
    <3>2. CASE InsertFill(e)
        BY <3>2, <1>0, InsertFillWrites, Zenon
    <3>3. CASE InsertAddress(e)
        BY <3>3, <1>0, InsertAddressWrites, Zenon
    <3> QED BY <3>1, <3>2, <3>3, <1>4, Zenon
  <2>4. TypeOK'
      BY <2>1, <2>2, <2>3, <1>0, Zenon DEF TypeOK
  <2> QED BY <2>1, <2>3, <2>4, <1>1, Zenon
<1> QED BY <1>2, <1>3, <1>4, Zenon DEF RecvStep

\* The beginning of a handler touches neither lists nor packets.
LEMMA BeginLink ==
    ASSUME LeastNatural, LinkInv, Tick \/ \E request \in BOOLEAN, ip \in Hosts : arp_in(request, ip)
    PROVE  LinkInv'
<1> USE CacheAssumption, ThreadsAssumption
<1>0. TypeOK
    BY Zenon DEF LinkInv, QueuedOnce
<1>1. Begin /\ UNCHANGED <<cache, next, pkt, snd, panic>>
    BY Zenon DEF Tick, arp_in
<1>2. overlaps' \in 0..MaxOverlaps
    BY <1>0, <1>1 DEF Begin, TypeOK
<1>3. tick' \in 0..Size
    BY <1>0 DEF Tick, arp_in, TypeOK
<1>4. rx' \in Receiver
  <2>1. CASE Tick
      BY <2>1, <1>0, Zenon DEF Tick, TypeOK
  <2>2. ASSUME NEW request \in BOOLEAN, NEW ip \in Hosts, arp_in(request, ip)
        PROVE  rx' \in Receiver
    <3>1. 0 \in Entries /\ \A e \in arp_lookup(ip) : e \in Entries
        BY LookupFinds DEF Entries
    <3> QED BY <3>1, <2>2 DEF arp_in, Receiver, MaybeHost
  <2> QED BY <2>1, <2>2, Zenon
<1>5. TypeOK'
    BY <1>0, <1>1, <1>2, <1>3, <1>4, Zenon DEF TypeOK
<1>6. QueuedOnce'
    BY <1>1, <1>5 DEF LinkInv, QueuedOnce, Linked
<1>7. Holding'
    BY <1>1, HoldingKept, Zenon
<1> QED BY <1>6, <1>7, Zenon DEF LinkInv

\* A turn of arp_timer() empties at most the list of the entry it gives up.
LEMMA VisitLink ==
    ASSUME LinkInv, Visit
    PROVE  LinkInv'
<1> USE CacheAssumption
<1> DEFINE a == cache[tick]
<1>0. TypeOK
    BY Zenon DEF LinkInv, QueuedOnce
<1>1. /\ tick < Size /\ cache' = [cache EXCEPT ![tick] = Aged(a)]
      /\ pkt' = Moved(Emptied(a), "dropped", None)
      /\ panic' = (Over(a) /\ ~GivesUp(a) /\ ~a.dev) /\ tick' = tick + 1
      /\ UNCHANGED <<next, snd, rx, overlaps>>
    BY Zenon DEF Visit
<1>2. tick \in Entries /\ tick' \in 0..Size
    BY <1>0, <1>1 DEF TypeOK, Entries
<1>3. a \in Entry
    BY <1>0, <1>2, Zenon DEF TypeOK
<1> HIDE DEF a
<1>4. Aged(a) \in Entry
    BY <1>3, AgedEntry, Zenon
<1>5. /\ cache' \in [Entries -> Entry] /\ cache'[tick] = Aged(a)
      /\ \A f \in Entries \ {tick} : cache'[f] = cache[f]
    BY <1>0, <1>1, <1>2, <1>4, Zenon DEF TypeOK
<1>6. pkt' \in [Packets -> PacketState]
    BY <1>0, <1>1, NoneMaybe, Zenon DEF Moved, TypeOK, PacketState
<1>7. panic' \in BOOLEAN
    BY <1>1, Zenon
<1>8. TypeOK'
    BY <1>0, <1>1, <1>2, <1>5, <1>6, <1>7, Zenon DEF TypeOK
<1>9. \/ cache'[tick].list = <<>> /\ pkt' = Moved(Range(a.list), "dropped", None)
      \/ cache'[tick].list = a.list /\ pkt' = Moved({}, "dropped", None)
    BY <1>1, <1>3, <1>5, AgedEntry, Zenon
<1> QED BY <1>1, <1>2, <1>5, <1>8, <1>9, NoneMaybe, EmptiedLink, Zenon DEF a

\* Every step keeps the links right.
LEMMA NextLink ==
    ASSUME LeastNatural
    PROVE  LinkInv /\ [Next]_vars => LinkInv'
<1> SUFFICES ASSUME LinkInv, [Next]_vars PROVE LinkInv'
    BY Zenon
<1>1. ASSUME NEW t \in Senders, NEW p \in Packets, NEW d \in Hosts, Send(t, p, d)
      PROVE  LinkInv'
    BY <1>1, SendLink, Zenon
<1>2. ASSUME NEW t \in Senders, SendStep(t) PROVE LinkInv'
    BY <1>2, AllocateLink, LinkLink, TestLink, TransmitLink, Zenon DEF SendStep
<1>3. CASE Tick \/ \E request \in BOOLEAN, ip \in Hosts : arp_in(request, ip)
    BY <1>3, BeginLink, Zenon
<1>4. CASE RecvStep
    BY <1>4, RecvLink, Zenon
<1>5. CASE Visit
    BY <1>5, VisitLink, Zenon
<1>6. CASE UNCHANGED vars
    BY <1>6 DEF vars, LinkInv, QueuedOnce, Holding, TypeOK, Linked
<1> QED BY <1>1, <1>2, <1>3, <1>4, <1>5, <1>6, Zenon DEF Next

-----------------------------------------------------------------------------
(* The invariant that holds as long as one handler runs at a time.         *)

\* At most one handler is under way
Busy(t) == snd[t].pc # "idle"
Solo ==
    /\ \A t \in Senders : snd[t].pc = "idle" => snd[t] = IdleSender
    /\ rx.pc = "idle" => rx = IdleRx
    /\ \A t, u \in Senders : Busy(t) /\ Busy(u) => t = u
    /\ \A t \in Senders : Busy(t) => rx.pc = "idle" /\ tick = Size
    /\ rx.pc # "idle" => tick = Size

\* An entry that arp_alloc() has handed out and its caller has not filled yet
Raw(e) ==
    \/ \E t \in Senders : snd[t].pc = "allocated" /\ snd[t].ae = e
    \/ rx.pc = "fill" /\ rx.ae = e

Unknown(ip) == \A e \in Entries : Used(e) /\ ~Raw(e) => cache[e].ip # ip

\* The entries, between two handlers and inside one
EntryInv ==
    /\ \A e \in Entries : Raw(e) =>
           cache[e].state = "WAITING" /\ ~cache[e].dev /\ cache[e].list = <<>>
    /\ \A e \in Entries : Used(e) /\ ~Raw(e) => cache[e].dev
    /\ \A e, f \in Entries :
           Used(e) /\ Used(f) /\ ~Raw(e) /\ ~Raw(f) /\ cache[e].ip = cache[f].ip => e = f
    /\ \A e \in Entries : cache[e].state = "RESOLVED" =>
           cache[e].hw = cache[e].ip \/ (rx.pc = "address" /\ rx.ae = e)
    /\ \A e \in Entries : \A i \in Linked(e) :
           cache[e].state = "WAITING" /\ cache[e].ip = pkt[cache[e].list[i]].dst

\* The entry that a handler works on is still the one it looked up
HandlerInv ==
    /\ \A t \in Senders :
           LET e == snd[t].ae
               d == pkt[snd[t].pkt].dst
           IN  /\ snd[t].pc \in {"missing", "allocated"} => Unknown(d)
               /\ snd[t].pc \in {"found", "append", "transmit"} => Used(e) /\ cache[e].ip = d
               /\ snd[t].pc = "append" => cache[e].state = "WAITING"
               /\ snd[t].pc = "transmit" => cache[e].state = "RESOLVED"
    /\ rx.pc \in {"insert", "fill"} => Unknown(rx.ip)
    /\ rx.pc \in {"found", "resolve", "address"} => Used(rx.ae) /\ cache[rx.ae].ip = rx.ip
    /\ rx.pc = "resolve" => cache[rx.ae].hw = rx.ip /\ cache[rx.ae].list = <<>>

PacketInv ==
    /\ \A p \in Packets : pkt[p].at = "sent" => pkt[p].via = pkt[p].dst
    /\ \A p \in Packets : pkt[p].at = "queued" =>
           \E e \in Entries : \E i \in Linked(e) : cache[e].list[i] = p

Calm == ~panic /\ Solo /\ EntryInv /\ HandlerInv /\ PacketInv
CalmInv == overlaps = 0 => Calm

-----------------------------------------------------------------------------
(* One handler at a time: CalmInv.                                         *)

\* The handler of a sender is alone under way.
LEMMA SenderAlone ==
    ASSUME Calm, NEW t \in Senders, Busy(t)
    PROVE  /\ \A u \in Senders \ {t} : snd[u] = IdleSender
           /\ rx = IdleRx /\ tick = Size
           /\ \A e \in Entries : Raw(e) <=> (snd[t].pc = "allocated" /\ snd[t].ae = e)
<1>1. (\A u \in Senders \ {t} : snd[u] = IdleSender) /\ rx = IdleRx /\ tick = Size
    BY Zenon DEF Calm, Solo, Busy
<1> QED BY <1>1 DEF Raw, IdleSender, IdleRx

\* So is the handler of the receive thread.
LEMMA ReceiverAlone ==
    ASSUME Calm, rx.pc # "idle"
    PROVE  /\ \A u \in Senders : snd[u] = IdleSender
           /\ tick = Size
           /\ \A e \in Entries : Raw(e) <=> (rx.pc = "fill" /\ rx.ae = e)
<1>1. (\A u \in Senders : snd[u] = IdleSender) /\ tick = Size
    BY Zenon DEF Calm, Solo, Busy
<1> QED BY <1>1 DEF Raw, IdleSender

\* A handler that begins while overlaps stays 0 begins alone.
LEMMA BeginAlone ==
    ASSUME TypeOK, CalmInv, Begin, overlaps' = 0
    PROVE  /\ Calm /\ (\A u \in Senders : snd[u] = IdleSender) /\ rx = IdleRx /\ tick = Size
           /\ \A e \in Entries : ~Raw(e)
<1>1. overlaps \in Nat
    BY ThreadsAssumption DEF TypeOK
<1>2. (\A u \in Senders : snd[u] = IdleSender) /\ rx = IdleRx /\ tick = Size /\ overlaps = 0
    BY <1>1 DEF Begin
<1> QED BY <1>2 DEF CalmInv, Raw, IdleSender, IdleRx

\* Between two handlers no entry is raw and no handler has an entry.
LEMMA Quiet ==
    ASSUME \A u \in Senders : snd'[u] = IdleSender, rx' = IdleRx
    PROVE  Solo' /\ HandlerInv' /\ \A e \in Entries : ~Raw(e)'
BY DEF Solo, HandlerInv, Raw, Busy, IdleSender, IdleRx

\* Linked packets are packets, and they are waiting.
LEMMA LinkedPackets ==
    ASSUME LinkInv
    PROVE  /\ TypeOK
           /\ \A e \in Entries : cache[e].list \in Seq(Packets)
           /\ \A e \in Entries : \A i \in Linked(e) :
                  /\ cache[e].list[i] \in Packets /\ pkt[cache[e].list[i]].at = "queued"
                  /\ cache[e].list[i] \in Range(cache[e].list)
<1>1. TypeOK /\ \A e \in Entries : cache[e].list \in Seq(Packets)
    BY Zenon DEF LinkInv, QueuedOnce, TypeOK, Entry
<1>2. ASSUME NEW e \in Entries, NEW i \in Linked(e)
      PROVE  /\ cache[e].list[i] \in Packets /\ pkt[cache[e].list[i]].at = "queued"
             /\ cache[e].list[i] \in Range(cache[e].list)
  <2>1. cache[e].list[i] \in Packets
      BY <1>1 DEF Linked
  <2>2. cache[e].list[i] \in Range(cache[e].list)
      BY <1>1, ListMembers, Zenon DEF Linked
  <2> QED BY <2>1, <2>2, Zenon DEF LinkInv, QueuedOnce
<1> QED BY <1>1, <1>2, Zenon

\* The entries stay right when none is raw, none is written and the packets that
\* wait keep their next hops.
LEMMA EntriesKept ==
    ASSUME EntryInv, UNCHANGED cache, rx.pc = "idle",
           \A e \in Entries : ~Raw(e) /\ ~Raw(e)',
           \A e \in Entries : \A i \in Linked(e) :
               pkt'[cache[e].list[i]] = pkt[cache[e].list[i]]
    PROVE  EntryInv'
<1>1. \A e \in Entries : Used(e)' = Used(e) /\ Linked(e)' = Linked(e)
    BY Zenon DEF Used, Linked
<1>2. \A e \in Entries : \A i \in Linked(e)' :
          cache'[e].state = "WAITING" /\ cache'[e].ip = pkt'[cache'[e].list[i]].dst
    BY <1>1 DEF EntryInv
<1>3. \A e, f \in Entries : Used(e)' /\ Used(f)' /\ cache'[e].ip = cache'[f].ip => e = f
    BY <1>1, Zenon DEF EntryInv
<1>4. \A e \in Entries : /\ Used(e)' => cache'[e].dev
                         /\ cache'[e].state = "RESOLVED" => cache'[e].hw = cache'[e].ip
    BY <1>1, Zenon DEF EntryInv
<1> QED BY <1>2, <1>3, <1>4, Zenon DEF EntryInv

\* The initial cache is empty.
LEMMA InitCalm == Init => CalmInv
<1> SUFFICES ASSUME Init PROVE Calm
    BY Zenon DEF CalmInv
<1>1. /\ \A t \in Senders : snd[t] = IdleSender
      /\ rx = IdleRx /\ ~panic
      /\ \A e \in Entries : cache[e].state = "FREE" /\ Linked(e) = {}
      /\ \A p \in Packets : pkt[p].at = "app"
    BY DEF Init, Linked
<1>2. Solo /\ HandlerInv /\ \A e \in Entries : ~Raw(e)
    BY <1>1 DEF Solo, HandlerInv, Raw, Busy, IdleSender, IdleRx
<1>3. EntryInv
    BY <1>1, <1>2, Zenon DEF EntryInv, Used
<1>4. PacketInv
    BY <1>1, Zenon DEF PacketInv
<1> QED BY <1>1, <1>2, <1>3, <1>4, Zenon DEF Calm

\* ip_send_dev() begins: what arp_lookup() returned is an entry for the next hop, or
\* there is none.
LEMMA SendCalm ==
    ASSUME LeastNatural, LinkInv, CalmInv, overlaps' = 0,
           NEW t \in Senders, NEW p \in Packets, NEW d \in Hosts, Send(t, p, d)
    PROVE  Calm'
<1>0. TypeOK
    BY LinkedPackets, Zenon
<1>1. /\ Calm /\ (\A u \in Senders : snd[u] = IdleSender) /\ rx = IdleRx /\ tick = Size
      /\ \A e \in Entries : ~Raw(e)
    BY <1>0, BeginAlone, Zenon DEF Send
<1>2. pkt[p].at = "app" /\ UNCHANGED <<cache, next, rx, tick, panic>>
    BY Zenon DEF Send
<1>3. /\ snd'[t].pkt = p /\ \A u \in Senders \ {t} : snd'[u] = IdleSender
      /\ \/ snd'[t].pc = "missing" /\ arp_lookup(d) = {}
         \/ snd'[t].pc = "found" /\ snd'[t].ae \in arp_lookup(d)
    BY <1>0, <1>1, Zenon DEF Send, TypeOK
<1>4. pkt'[p].dst = d /\ pkt'[p].at = "held" /\ \A q \in Packets \ {p} : pkt'[q] = pkt[q]
    BY <1>0, Zenon DEF Send, TypeOK, PacketState
<1>5. /\ \A e \in arp_lookup(d) : e \in Entries /\ Used(e) /\ cache[e].ip = d
      /\ arp_lookup(d) = {} => \A e \in Entries : Used(e) => cache[e].ip # d
    BY LookupFinds, Zenon
<1>6. \A e \in Entries : ~Raw(e)' /\ Linked(e)' = Linked(e) /\ Used(e)' = Used(e)
    BY <1>1, <1>2, <1>3 DEF Raw, IdleSender, IdleRx, Linked, Used
<1>7. Solo'
    BY <1>1, <1>2, <1>3 DEF Solo, Busy, IdleSender, IdleRx
<1>8. EntryInv'
  <2>1. \A e \in Entries : \A i \in Linked(e) : pkt'[cache[e].list[i]] = pkt[cache[e].list[i]]
      BY <1>2, <1>4, LinkedPackets, Zenon
  <2> QED BY <2>1, <1>1, <1>2, <1>6, EntriesKept, Zenon DEF Calm, IdleRx
<1>9. HandlerInv'
  <2>1. Unknown(d)' <=> \A e \in Entries : Used(e) => cache[e].ip # d
      BY <1>2, <1>6, Zenon DEF Unknown
  <2>2. rx'.pc = "idle" /\ \A u \in Senders \ {t} : snd'[u].pc = "idle"
      BY <1>1, <1>2, <1>3 DEF IdleRx, IdleSender
  <2> QED BY <2>1, <2>2, <1>2, <1>3, <1>4, <1>5, <1>6 DEF HandlerInv, Used
<1>10. PacketInv'
    BY <1>1, <1>2, <1>4, <1>6 DEF Calm, PacketInv
<1> QED BY <1>1, <1>2, <1>7, <1>8, <1>9, <1>10, Zenon DEF Calm

\* It allocates an entry for a next hop that no entry has.
LEMMA AllocateCalm ==
    ASSUME LinkInv, Calm, NEW t \in Senders, Allocate(t)
    PROVE  Calm'
<1> DEFINE p == snd[t].pkt
<1>0. TypeOK
    BY LinkedPackets, Zenon
<1>1. snd[t].pc = "missing" /\ UNCHANGED <<rx, tick, overlaps, panic>>
    BY Zenon DEF Allocate
<1>2. /\ \A u \in Senders \ {t} : snd[u] = IdleSender
      /\ rx = IdleRx /\ tick = Size /\ \A e \in Entries : ~Raw(e)
    BY <1>1, SenderAlone, Zenon DEF Busy
<1>3. p \in Packets /\ pkt[p].at = "held"
      /\ \A e \in Entries : \A i \in Linked(e) :
             cache[e].list[i] \in Packets /\ cache[e].list[i] # p
    BY <1>1, HeldApart
<1>4. CASE FreeEntry = {}
  <2>1. pkt' = Moved({p}, "dropped", None) /\ Done(t) /\ UNCHANGED <<cache, next>>
      BY <1>4, Zenon DEF Allocate
  <2>2. pkt'[p].at = "dropped" /\ \A q \in Packets \ {p} : pkt'[q] = pkt[q]
    <3> HIDE DEF p
    <3> QED BY <2>1, <1>0, <1>3, Zenon DEF Moved, TypeOK, PacketState
  <2>3. \A u \in Senders : snd'[u] = IdleSender
      BY <2>1, <1>0, <1>2, DoneSenders, Zenon
  <2>4. Solo' /\ HandlerInv' /\ \A e \in Entries : ~Raw(e)'
      BY <2>3, <1>1, <1>2, Quiet, Zenon
  <2>5. \A e \in Entries : Linked(e)' = Linked(e) /\ Used(e)' = Used(e)
      BY <2>1, Zenon DEF Linked, Used
  <2>6. EntryInv'
    <3>1. \A e \in Entries : \A i \in Linked(e) :
              pkt'[cache[e].list[i]] = pkt[cache[e].list[i]]
        BY <2>2, <1>3, Zenon
    <3> QED BY <3>1, <2>1, <2>4, <1>2, EntriesKept, Zenon DEF Calm, IdleRx
  <2>7. PacketInv'
    <3> HIDE DEF p
    <3> QED BY <2>1, <2>2, <2>5, <1>3 DEF Calm, PacketInv
  <2> QED BY <2>4, <2>6, <2>7, <1>1, Zenon DEF Calm
<1>5. CASE FreeEntry # {}
  <2>1. PICK e \in FreeEntry : /\ cache' = [cache EXCEPT ![e] = arp_alloc(e)]
                               /\ At(t, "allocated", e) /\ UNCHANGED pkt
      BY <1>5, Zenon DEF Allocate
  <2>0. pkt' = pkt
      BY <2>1, Zenon
  <2>2. /\ e \in Entries /\ cache[e].state = "FREE" /\ arp_alloc(e).list = <<>>
        /\ arp_alloc(e).state = "WAITING" /\ ~arp_alloc(e).dev
      BY <1>0, FreeEntryFree, Zenon
  <2>3. cache'[e] = arp_alloc(e) /\ \A f \in Entries \ {e} : cache'[f] = cache[f]
      BY <2>1, <2>2, <1>0, Zenon DEF TypeOK
  <2>4. /\ snd'[t].pc = "allocated" /\ snd'[t].ae = e /\ snd'[t].pkt = p
        /\ \A u \in Senders \ {t} : snd'[u] = IdleSender
      BY <2>1, <2>2, <1>0, <1>2, AtSenders
  <2>5. \A f \in Entries : Raw(f)' <=> f = e
      BY <2>4, <1>1, <1>2 DEF Raw, IdleSender, IdleRx
  <2>6. \A f \in Entries \ {e} : Linked(f)' = Linked(f) /\ Used(f)' = Used(f)
      BY <2>3, Zenon DEF Linked, Used
  <2>7. Linked(e)' = {} /\ Used(e)' /\ Linked(e) = {}
    <3>1. \A i \in Linked(e) : cache[e].state = "WAITING"
        BY <2>2, Zenon DEF Calm, EntryInv
    <3> QED BY <3>1, <2>2, <2>3 DEF Linked, Used
  <2>8. Solo'
      BY <2>4, <1>1, <1>2 DEF Solo, Busy, IdleSender, IdleRx
  <2>9. EntryInv'
    <3>1. rx'.pc = "idle" /\ rx.pc = "idle"
        BY <1>1, <1>2, Zenon DEF IdleRx
    <3> QED BY <3>1, <2>0, <2>2, <2>3, <2>5, <2>6, <2>7, <1>2 DEF Calm, EntryInv
  <2>10. HandlerInv'
    <3>1. Unknown(pkt[p].dst)
        BY <1>1, Zenon DEF Calm, HandlerInv
    <3>2. Unknown(pkt[snd[t].pkt].dst)'
        BY <3>1, <2>0, <2>3, <2>4, <2>5, <2>6, <1>2 DEF Unknown
    <3>3. rx'.pc = "idle" /\ \A u \in Senders \ {t} : snd'[u].pc = "idle"
        BY <2>4, <1>1, <1>2 DEF IdleRx, IdleSender
    <3> QED BY <3>2, <3>3, <2>4, Zenon DEF HandlerInv
  <2>11. PacketInv'
      BY <2>0, <2>3, <2>6, <2>7 DEF Calm, PacketInv
  <2> QED BY <2>8, <2>9, <2>10, <2>11, <1>1, Zenon DEF Calm
<1> QED BY <1>4, <1>5, Zenon

\* A sender links its packet to the entry it allocated, which becomes the only one for
\* its next hop, or to the waiting entry it found for it.
LEMMA LinkCalm ==
    ASSUME LinkInv, Calm, NEW t \in Senders, Fill(t) \/ Wait(t)
    PROVE  Calm'
<1>0. TypeOK /\ Busy(t) /\ snd[t].pkt \in Packets
    BY LinkedPackets, HeldApart, Zenon DEF Fill, Wait, Busy
<1>a. snd[t].ae \in Entries
    BY <1>0, Zenon DEF TypeOK, Sender
<1>p. PICK p \in Packets, e \in Entries : p = snd[t].pkt /\ e = snd[t].ae
    BY <1>0, <1>a, Zenon
<1>d. PICK d \in MaybeHost : d = pkt[p].dst
    BY <1>0, Zenon DEF TypeOK, PacketState
<1>1. pkt' = Moved({p}, "queued", None) /\ Done(t) /\ UNCHANGED <<next, rx, tick, panic>>
    BY <1>p, Zenon DEF Fill, Wait
<1>2. /\ \A u \in Senders \ {t} : snd[u] = IdleSender
      /\ rx = IdleRx /\ tick = Size
      /\ \A f \in Entries : Raw(f) <=> (snd[t].pc = "allocated" /\ e = f)
    BY <1>0, <1>p, SenderAlone, Zenon
<1>3. /\ p \in Packets /\ pkt[p].at = "held"
      /\ \A f \in Entries : \A i \in Linked(f) :
             cache[f].list[i] \in Packets /\ cache[f].list[i] # p
    BY <1>0, <1>p, HeldApart DEF Busy
<1>4. /\ pkt'[p].at = "queued" /\ pkt'[p].dst = d
      /\ \A q \in Packets \ {p} : pkt'[q] = pkt[q]
    BY <1>0, <1>1, <1>3, <1>d, Zenon DEF Moved, TypeOK, PacketState
<1>5. \A u \in Senders : snd'[u] = IdleSender
    BY <1>0, <1>1, <1>2, DoneSenders, Zenon
<1>6. Solo' /\ HandlerInv' /\ \A f \in Entries : ~Raw(f)'
    BY <1>1, <1>2, <1>5, Quiet, Zenon
<1>7. e \in Entries /\ cache[e] \in Entry /\ cache[e].list \in Seq(Packets)
    BY <1>0, Zenon DEF TypeOK, Sender, Entry
<1>8. /\ cache'[e].list = Append(cache[e].list, p)
      /\ cache'[e].state = "WAITING" /\ cache'[e].ip = d /\ cache'[e].dev
      /\ \A f \in Entries \ {e} : cache'[f] = cache[f]
      /\ \A f \in Entries \ {e} : Used(f) => cache[f].ip # d
      /\ \A i \in Linked(e) : pkt[cache[e].list[i]].dst = d
  <2>1. CASE Fill(t)
    <3>1. snd[t].pc = "allocated" /\ Raw(e)
        BY <2>1, <1>2, <1>7, Zenon DEF Fill
    <3>2. cache[e].state = "WAITING" /\ cache[e].list = <<>> /\ Linked(e) = {}
        BY <3>1, <1>7 DEF Calm, EntryInv, Linked
    <3>3. \A f \in Entries \ {e} : Used(f) => cache[f].ip # d
        BY <3>1, <1>2, <1>p, <1>d, Zenon DEF Calm, HandlerInv, Unknown
    <3>4. cache' = [cache EXCEPT ![e] = [cache[e] EXCEPT !.ip = d, !.dev = TRUE,
                                         !.list = Append(cache[e].list, p)]]
        BY <2>1, <1>0, <1>7, <1>p, <1>d, Zenon DEF Fill, TypeOK, Entry
    <3> QED BY <3>2, <3>3, <3>4, <1>0, <1>7, Zenon DEF TypeOK, Entry
  <2>2. CASE Wait(t)
    <3>1. snd[t].pc = "append"
        BY <2>2, Zenon DEF Wait
    <3>2. /\ Used(e) /\ cache[e].ip = d /\ cache[e].state = "WAITING"
          /\ \A f \in Entries : ~Raw(f)
        BY <3>1, <1>2, <1>p, <1>d, Zenon DEF Calm, HandlerInv
    <3>3. cache[e].dev /\ \A f \in Entries \ {e} : Used(f) => cache[f].ip # d
        BY <3>2, <1>7, Zenon DEF Calm, EntryInv
    <3>4. \A i \in Linked(e) : pkt[cache[e].list[i]].dst = d
        BY <3>2, <1>7 DEF Calm, EntryInv
    <3>5. cache' = [cache EXCEPT ![e] = [cache[e] EXCEPT !.list = Append(cache[e].list, p)]]
        BY <2>2, <1>0, <1>7, <1>p, Zenon DEF Wait, TypeOK, Entry
    <3> QED BY <3>2, <3>3, <3>4, <3>5, <1>0, <1>7, Zenon DEF TypeOK, Entry
  <2> QED BY <2>1, <2>2, Zenon
<1>s. PICK s \in Seq(Packets), n \in Nat : s = cache[e].list /\ n = Len(s)
    BY <1>7
<1>9. /\ Linked(e) = 1..n /\ Linked(e)' = 1..(n + 1)
      /\ cache'[e].list[n + 1] = p /\ \A i \in 1..n : cache'[e].list[i] = cache[e].list[i]
  <2>1. /\ Len(Append(s, p)) = n + 1 /\ Append(s, p)[n + 1] = p
        /\ \A i \in 1..n : Append(s, p)[i] = s[i]
      BY <1>s, ListAppend
  <2>2. cache'[e].list = Append(s, p)
      BY <1>8, <1>s, Zenon
  <2> QED BY <2>1, <2>2, <1>s, Zenon DEF Linked
<1>10. /\ Used(e)'
       /\ \A f \in Entries \ {e} : Linked(f)' = Linked(f) /\ Used(f)' = Used(f)
    BY <1>8, Zenon DEF Linked, Used
<1>11. EntryInv'
  <2>1. rx.pc = "idle"
      BY <1>2, Zenon DEF IdleRx
  <2>2. \A f \in Entries \ {e} : ~Raw(f)
      BY <1>2
  <2>3. ASSUME NEW f \in Entries, NEW i \in Linked(f)'
        PROVE  cache'[f].state = "WAITING" /\ cache'[f].ip = pkt'[cache'[f].list[i]].dst
    <3>1. CASE f # e
      <4>1. i \in Linked(f) /\ cache'[f] = cache[f]
          BY <3>1, <2>3, <1>8, <1>10, Zenon
      <4> QED BY <4>1, <1>3, <1>4 DEF Calm, EntryInv
    <3>2. CASE f = e /\ i = n + 1
        BY <3>2, <1>4, <1>8, <1>9, Zenon
    <3>3. CASE f = e /\ i \in 1..n
      <4>1. cache'[e].list[i] = cache[e].list[i] /\ i \in Linked(e)
          BY <3>3, <1>9, Zenon
      <4>2. cache[e].list[i] \in Packets \ {p} /\ pkt[cache[e].list[i]].dst = d
          BY <4>1, <1>3, <1>8, Zenon
      <4> QED BY <4>1, <4>2, <3>3, <1>4, <1>8, Zenon
    <3> QED BY <3>1, <3>2, <3>3, <1>9
  <2>4. ASSUME NEW f \in Entries, NEW g \in Entries, Used(f)', Used(g)',
               cache'[f].ip = cache'[g].ip
        PROVE  f = g
    <3>1. \A h \in Entries \ {e} : Used(h)' => Used(h) /\ ~Raw(h) /\ cache'[h].ip # d
        BY <2>2, <1>8, <1>10, Zenon
    <3>2. CASE f # e /\ g # e
      <4>1. Used(f) /\ Used(g) /\ ~Raw(f) /\ ~Raw(g) /\ cache[f].ip = cache[g].ip
          BY <3>1, <3>2, <2>4, <1>8, Zenon
      <4> QED BY <4>1, Zenon DEF Calm, EntryInv
    <3>3. CASE f = e \/ g = e
        BY <3>1, <3>3, <2>4, <1>8, Zenon
    <3> QED BY <3>2, <3>3, Zenon
  <2>5. \A f \in Entries : Used(f)' => cache'[f].dev
      BY <2>2, <1>8, <1>10 DEF Calm, EntryInv
  <2>6. ASSUME NEW f \in Entries, cache'[f].state = "RESOLVED"
        PROVE  cache'[f].hw = cache'[f].ip
    <3>1. f # e /\ cache'[f] = cache[f]
        BY <2>6, <1>8, Zenon
    <3> QED BY <3>1, <2>1, <2>6 DEF Calm, EntryInv
  <2> QED BY <2>3, <2>4, <2>5, <2>6, <1>6, Zenon DEF EntryInv
<1>12. PacketInv'
  <2>1. \A q \in Packets : pkt'[q].at = "sent" => pkt'[q].via = pkt'[q].dst
      BY <1>3, <1>4 DEF Calm, PacketInv
  <2>2. ASSUME NEW q \in Packets, pkt'[q].at = "queued"
        PROVE  \E f \in Entries : \E i \in Linked(f)' : cache'[f].list[i] = q
    <3>1. CASE q = p
      <4>1. n + 1 \in Linked(e)'
          BY <1>9
      <4> QED BY <4>1, <3>1, <1>9, Zenon
    <3>2. CASE q # p
      <4>1. PICK f \in Entries : \E i \in Linked(f) : cache[f].list[i] = q
          BY <3>2, <2>2, <1>4, Zenon DEF Calm, PacketInv
      <4>2. PICK i \in Linked(f) : cache[f].list[i] = q
          BY <4>1, Zenon
      <4>3. CASE f = e
        <5>1. i \in Linked(e)' /\ cache'[e].list[i] = q
            BY <4>2, <4>3, <1>9
        <5> QED BY <5>1, Zenon
      <4>4. CASE f # e
        <5>1. i \in Linked(f)' /\ cache'[f].list[i] = q
            BY <4>2, <4>4, <1>8, <1>10, Zenon
        <5> QED BY <5>1, Zenon
      <4> QED BY <4>3, <4>4, Zenon
    <3> QED BY <3>1, <3>2, Zenon
  <2> QED BY <2>1, <2>2, Zenon DEF PacketInv
<1> QED BY <1>1, <1>6, <1>11, <1>12, Zenon DEF Calm

\* The test of the state still holds when the sender acts on it.
LEMMA TestCalm ==
    ASSUME LinkInv, Calm, NEW t \in Senders, Test(t)
    PROVE  Calm'
<1> DEFINE e == snd[t].ae
<1>0. TypeOK
    BY LinkedPackets, Zenon
<1>1. snd[t].pc = "found" /\ UNCHANGED <<cache, next, pkt, rx, tick, panic>>
    BY Zenon DEF Test
<1>2. /\ \A u \in Senders \ {t} : snd[u] = IdleSender
      /\ rx = IdleRx /\ tick = Size /\ \A f \in Entries : ~Raw(f)
    BY <1>1, SenderAlone, Zenon DEF Busy
<1>3. e \in Entries /\ Used(e) /\ cache[e].ip = pkt[snd[t].pkt].dst
    BY <1>0, <1>1 DEF Calm, HandlerInv, TypeOK, Sender
<1>4. /\ snd'[t].ae = e /\ snd'[t].pkt = snd[t].pkt
      /\ snd'[t].pc = IF cache[e].state = "WAITING" THEN "append" ELSE "transmit"
      /\ \A u \in Senders \ {t} : snd'[u] = IdleSender
  <2>1. PICK pc \in {"append", "transmit"} :
            pc = (IF cache[e].state = "WAITING" THEN "append" ELSE "transmit") /\ At(t, pc, e)
      BY Zenon DEF Test
  <2> QED BY <2>1, <1>0, <1>2, <1>3, AtSenders
<1>5. \A f \in Entries : ~Raw(f)' /\ Used(f)' = Used(f) /\ Linked(f)' = Linked(f)
    BY <1>1, <1>2, <1>4 DEF Raw, IdleSender, IdleRx, Used, Linked
<1>6. Solo'
    BY <1>1, <1>2, <1>4 DEF Solo, Busy, IdleSender, IdleRx
<1>7. EntryInv'
    BY <1>1, <1>2, <1>5 DEF Calm, EntryInv
<1>8. HandlerInv'
  <2>1. cache[e].state # "WAITING" => cache[e].state = "RESOLVED"
      BY <1>0, <1>3, Zenon DEF Used, TypeOK, Entry
  <2>2. rx'.pc = "idle" /\ \A u \in Senders \ {t} : snd'[u].pc = "idle"
      BY <1>1, <1>2, <1>4 DEF IdleRx, IdleSender
  <2> QED BY <2>1, <2>2, <1>1, <1>3, <1>4 DEF HandlerInv, Used
<1>9. PacketInv'
    BY <1>1, <1>5 DEF Calm, PacketInv
<1> QED BY <1>1, <1>6, <1>7, <1>8, <1>9, Zenon DEF Calm

\* It transmits to the address of the resolved entry it found for the next hop.
LEMMA TransmitCalm ==
    ASSUME LinkInv, Calm, NEW t \in Senders, Transmit(t)
    PROVE  Calm'
<1> DEFINE p == snd[t].pkt
           h == cache[snd[t].ae].hw
<1>0. TypeOK
    BY LinkedPackets, Zenon
<1>1. /\ snd[t].pc = "transmit" /\ pkt' = Moved({p}, "sent", h) /\ Done(t)
      /\ UNCHANGED <<cache, next, rx, tick, panic>>
    BY Zenon DEF Transmit
<1>a. UNCHANGED <<cache, rx>>
    BY <1>1, Zenon
<1>2. /\ \A u \in Senders \ {t} : snd[u] = IdleSender
      /\ rx = IdleRx /\ tick = Size /\ \A f \in Entries : ~Raw(f)
    BY <1>1, SenderAlone, Zenon DEF Busy
<1>3. /\ p \in Packets /\ pkt[p].at = "held"
      /\ \A f \in Entries : \A i \in Linked(f) :
             cache[f].list[i] \in Packets /\ cache[f].list[i] # p
    BY <1>1, HeldApart, Zenon
<1>4. h = pkt[p].dst
  <2>1. /\ snd[t].ae \in Entries /\ cache[snd[t].ae].state = "RESOLVED"
        /\ cache[snd[t].ae].ip = pkt[p].dst /\ rx.pc = "idle"
      BY <1>0, <1>1, <1>2, Zenon DEF Calm, HandlerInv, TypeOK, Sender, IdleRx
  <2> QED BY <2>1, Zenon DEF Calm, EntryInv
<1> HIDE DEF p, h
<1>5. /\ pkt'[p].at = "sent" /\ pkt'[p].via = h /\ pkt'[p].dst = pkt[p].dst
      /\ \A q \in Packets \ {p} : pkt'[q] = pkt[q]
    BY <1>0, <1>1, <1>3, Zenon DEF Moved, TypeOK, PacketState
<1>6. \A u \in Senders : snd'[u] = IdleSender
    BY <1>0, <1>1, <1>2, DoneSenders, Zenon
<1>7. Solo' /\ HandlerInv' /\ \A e \in Entries : ~Raw(e)'
    BY <1>1, <1>2, <1>6, Quiet, Zenon
<1>8. \A e \in Entries : Linked(e)' = Linked(e) /\ Used(e)' = Used(e)
    BY <1>a, Zenon DEF Linked, Used
<1>9. EntryInv'
  <2>1. \A e \in Entries : \A i \in Linked(e) : pkt'[cache[e].list[i]] = pkt[cache[e].list[i]]
      BY <1>3, <1>5, Zenon
  <2> QED BY <2>1, <1>a, <1>2, <1>7, EntriesKept, Zenon DEF Calm, IdleRx
<1>10. PacketInv'
    BY <1>a, <1>3, <1>4, <1>5, <1>8 DEF Calm, PacketInv
<1> QED BY <1>1, <1>7, <1>9, <1>10, Zenon DEF Calm

-----------------------------------------------------------------------------
(* arp_recv() and arp_timer().                                             *)

\* arp_recv() and arp_timer() begin.
LEMMA BeginCalm ==
    ASSUME LeastNatural, LinkInv, CalmInv, overlaps' = 0,
           Tick \/ \E request \in BOOLEAN, ip \in Hosts : arp_in(request, ip)
    PROVE  Calm'
<1>0. TypeOK
    BY LinkedPackets, Zenon
<1>1. Begin /\ UNCHANGED <<cache, pkt, snd, panic>>
    BY Zenon DEF Tick, arp_in
<1>2. /\ Calm /\ (\A u \in Senders : snd[u] = IdleSender) /\ rx = IdleRx /\ tick = Size
      /\ \A e \in Entries : ~Raw(e)
    BY <1>0, <1>1, BeginAlone, Zenon
<1>3. \A e \in Entries : Linked(e)' = Linked(e) /\ Used(e)' = Used(e)
    BY <1>1, Zenon DEF Linked, Used
<1>4. PacketInv'
    BY <1>1, <1>2, <1>3 DEF Calm, PacketInv
<1>5. CASE Tick
  <2>1. Solo' /\ HandlerInv' /\ \A e \in Entries : ~Raw(e)'
      BY <1>1, <1>2, <1>5, Quiet, Zenon DEF Tick
  <2>2. EntryInv'
      BY <2>1, <1>1, <1>2, EntriesKept, Zenon DEF Calm, IdleRx
  <2> QED BY <2>1, <2>2, <1>1, <1>2, <1>4, Zenon DEF Calm
<1>6. ASSUME NEW request \in BOOLEAN, NEW ip \in Hosts, arp_in(request, ip)
      PROVE  Calm'
  <2>1. /\ tick' = tick
        /\ \/ \E e \in arp_lookup(ip) : rx' = [pc |-> "found", ip |-> ip, ae |-> e]
           \/ arp_lookup(ip) = {} /\ rx' = [pc |-> "insert", ip |-> ip, ae |-> 0]
      BY <1>6, Zenon DEF arp_in
  <2>2. /\ rx'.ip = ip /\ rx'.pc \in {"found", "insert"}
        /\ rx'.pc = "found" => rx'.ae \in arp_lookup(ip)
        /\ rx'.pc = "insert" => arp_lookup(ip) = {}
      BY <2>1
  <2>3. \A e \in Entries : ~Raw(e)'
      BY <2>2, <1>1, <1>2, Zenon DEF Raw, IdleSender
  <2>4. Solo'
      BY <2>1, <2>2, <1>1, <1>2 DEF Solo, Busy, IdleSender
  <2>5. EntryInv'
      BY <2>3, <1>1, <1>2, EntriesKept, Zenon DEF Calm, IdleRx
  <2>6. HandlerInv'
    <3>1. arp_lookup(ip) = {} => Unknown(rx.ip)'
        BY <2>2, <1>1, <1>3, LookupFinds, Zenon DEF Unknown
    <3>2. \A e \in arp_lookup(ip) : e \in Entries /\ Used(e) /\ cache[e].ip = ip
        BY LookupFinds, Zenon
    <3>3. \A u \in Senders : snd'[u].pc = "idle"
        BY <1>1, <1>2 DEF IdleSender
    <3> QED BY <3>1, <3>2, <3>3, <2>2, <1>1, <1>3, Zenon DEF HandlerInv
  <2> QED BY <2>4, <2>5, <2>6, <1>1, <1>2, <1>4, Zenon DEF Calm
<1> QED BY <1>5, <1>6, Zenon

\* arp_recv() sends the packets that wait in the entry it found: their next hop is the
\* host whose address has arrived.
LEMMA LearnCalm ==
    ASSUME LinkInv, Calm, NEW e \in Entries, Learn(e)
    PROVE  Calm'
<1>0. TypeOK /\ \A f \in Entries : cache[f].list \in Seq(Packets)
    BY LinkedPackets, Zenon
<1>1. /\ rx.pc = "found" /\ rx.ae = e
      /\ cache' = [cache EXCEPT ![e].hw = rx.ip, ![e].list = Unlinked(cache[e])]
      /\ pkt' = Moved(Flushed(cache[e]), "sent", rx.ip) /\ rx' = [rx EXCEPT !.pc = "resolve"]
      /\ UNCHANGED <<next, snd, tick, panic>>
    BY Zenon DEF Learn, RxAt
<1>2. /\ \A u \in Senders : snd[u] = IdleSender
      /\ tick = Size /\ \A f \in Entries : ~Raw(f)
    BY <1>1, ReceiverAlone, Zenon
<1>3. rx'.pc = "resolve" /\ rx'.ae = e /\ rx'.ip = rx.ip
    BY <1>0, <1>1, Zenon DEF TypeOK, Receiver
<1>4. Used(e) /\ cache[e].ip = rx.ip
    BY <1>1, Zenon DEF Calm, HandlerInv
<1>5. Unlinked(cache[e]) = <<>>
  <2>1. CASE cache[e].state = "WAITING"
      BY <2>1, Zenon DEF Unlinked
  <2>2. CASE cache[e].state # "WAITING"
    <3>1. Linked(e) = {}
        BY <2>2, Zenon DEF Calm, EntryInv
    <3>2. Len(cache[e].list) = 0
        BY <3>1, <1>0 DEF Linked
    <3> QED BY <3>2, <2>2, <1>0 DEF Unlinked
  <2> QED BY <2>1, <2>2, Zenon
<1>6. /\ cache'[e].hw = rx.ip /\ cache'[e].list = <<>> /\ cache'[e].state = cache[e].state
      /\ cache'[e].ip = cache[e].ip /\ cache'[e].dev = cache[e].dev
      /\ \A f \in Entries \ {e} : cache'[f] = cache[f]
    BY <1>0, <1>1, <1>5 DEF TypeOK, Entry
<1>7. /\ Linked(e)' = {} /\ \A f \in Entries \ {e} : Linked(f)' = Linked(f)
      /\ \A f \in Entries : Used(f)' = Used(f) /\ ~Raw(f)'
  <2>1. Linked(e)' = {} /\ \A f \in Entries \ {e} : Linked(f)' = Linked(f)
      BY <1>6 DEF Linked
  <2>2. \A f \in Entries : Used(f)' = Used(f)
      BY <1>6, Zenon DEF Used
  <2>3. \A f \in Entries : ~Raw(f)'
      BY <1>1, <1>2, <1>3, Zenon DEF Raw, IdleSender
  <2> QED BY <2>1, <2>2, <2>3, Zenon
<1>8. /\ \A q \in Packets : pkt'[q].dst = pkt[q].dst
      /\ \A q \in Flushed(cache[e]) : q \in Packets => pkt'[q].at = "sent" /\ pkt'[q].via = rx.ip
      /\ \A q \in Packets \ Flushed(cache[e]) : pkt'[q] = pkt[q]
    BY <1>0, <1>1, Zenon DEF Moved, TypeOK, PacketState
<1>9. \A q \in Flushed(cache[e]) : \E i \in Linked(e) : q = cache[e].list[i]
    BY <1>0, ListMembers, Zenon DEF Flushed, Linked
<1>10. \A i \in Linked(e) : cache[e].list[i] \in Flushed(cache[e])
  <2>1. ASSUME NEW i \in Linked(e) PROVE cache[e].list[i] \in Flushed(cache[e])
    <3>1. cache[e].state = "WAITING"
        BY Zenon DEF Calm, EntryInv
    <3> QED BY <3>1, LinkedPackets, Zenon DEF Flushed
  <2> QED BY <2>1, Zenon
<1>11. Solo'
    BY <1>1, <1>2, <1>3 DEF Solo, Busy, IdleSender
<1>12. EntryInv'
  <2>1. ASSUME NEW f \in Entries, NEW i \in Linked(f)'
        PROVE  cache'[f].state = "WAITING" /\ cache'[f].ip = pkt'[cache'[f].list[i]].dst
    <3>1. f # e /\ cache'[f] = cache[f] /\ i \in Linked(f)
        BY <2>1, <1>6, <1>7, Zenon
    <3>2. cache[f].list[i] \in Packets
        BY <3>1, LinkedPackets, Zenon
    <3> QED BY <3>1, <3>2, <1>8 DEF Calm, EntryInv
  <2>2. \A f \in Entries : cache'[f].state = cache[f].state /\ cache'[f].ip = cache[f].ip
                           /\ cache'[f].dev = cache[f].dev
      BY <1>6, Zenon
  <2>3. \A f, g \in Entries : Used(f)' /\ Used(g)' /\ cache'[f].ip = cache'[g].ip => f = g
      BY <2>2, <1>2, <1>7 DEF Calm, EntryInv
  <2>4. \A f \in Entries : Used(f)' => cache'[f].dev
      BY <2>2, <1>2, <1>7, Zenon DEF Calm, EntryInv
  <2>5. ASSUME NEW f \in Entries, cache'[f].state = "RESOLVED"
        PROVE  cache'[f].hw = cache'[f].ip
    <3>1. CASE f = e
        BY <3>1, <1>4, <1>6, Zenon
    <3>2. CASE f # e
      <4>1. cache[f].state = "RESOLVED" /\ cache'[f] = cache[f] /\ rx.pc # "address"
          BY <3>2, <2>5, <1>1, <1>6, Zenon
      <4> QED BY <4>1, Zenon DEF Calm, EntryInv
    <3> QED BY <3>1, <3>2, Zenon
  <2> QED BY <2>1, <2>3, <2>4, <2>5, <1>7, Zenon DEF EntryInv
<1>13. HandlerInv'
  <2>1. \A u \in Senders : snd'[u].pc = "idle"
      BY <1>1, <1>2 DEF IdleSender
  <2>2. cache'[e].ip = rx.ip /\ Used(e)'
      BY <1>4, <1>6, <1>7, Zenon
  <2> QED BY <2>1, <2>2, <1>3, <1>6, Zenon DEF HandlerInv
<1>14. PacketInv'
  <2>1. ASSUME NEW q \in Packets, pkt'[q].at = "sent" PROVE pkt'[q].via = pkt'[q].dst
    <3>1. CASE q \in Flushed(cache[e])
      <4>1. pkt[q].dst = rx.ip
          BY <3>1, <1>4, <1>9 DEF Calm, EntryInv
      <4> QED BY <4>1, <3>1, <1>8, Zenon
    <3>2. CASE q \notin Flushed(cache[e])
        BY <3>2, <2>1, <1>8, Zenon DEF Calm, PacketInv
    <3> QED BY <3>1, <3>2, Zenon
  <2>2. ASSUME NEW q \in Packets, pkt'[q].at = "queued"
        PROVE  \E f \in Entries : \E i \in Linked(f)' : cache'[f].list[i] = q
    <3>1. q \notin Flushed(cache[e]) /\ pkt[q].at = "queued"
        BY <2>2, <1>8, Zenon
    <3>2. PICK f \in Entries : \E i \in Linked(f) : cache[f].list[i] = q
        BY <3>1, Zenon DEF Calm, PacketInv
    <3>3. f # e
        BY <3>1, <3>2, <1>10, Zenon
    <3> QED BY <3>2, <3>3, <1>6, <1>7, Zenon
  <2> QED BY <2>1, <2>2, Zenon DEF PacketInv
<1> QED BY <1>1, <1>11, <1>12, <1>13, <1>14, Zenon DEF Calm

\* The entry is resolved when nothing is left in its list.
LEMMA ResolveCalm ==
    ASSUME LinkInv, Calm, NEW e \in Entries, Resolve(e)
    PROVE  Calm'
<1>0. TypeOK
    BY LinkedPackets, Zenon
<1>1. rx.pc = "resolve" /\ rx.ae = e /\ rx' = IdleRx /\ UNCHANGED <<next, pkt, snd, tick, panic>>
    BY Zenon DEF Resolve
<1>2. /\ \A u \in Senders : snd[u] = IdleSender
      /\ tick = Size /\ \A f \in Entries : ~Raw(f)
    BY <1>1, ReceiverAlone, Zenon
<1>3. /\ Used(e) /\ cache[e].ip = rx.ip /\ cache[e].hw = rx.ip /\ cache[e].list = <<>>
    BY <1>1, Zenon DEF Calm, HandlerInv
<1>4. /\ \A f \in Entries \ {e} : cache'[f] = cache[f]
      /\ cache'[e].state = "RESOLVED" /\ cache'[e].list = <<>> /\ cache'[e].hw = rx.ip
      /\ \A f \in Entries : cache'[f].ip = cache[f].ip /\ cache'[f].dev = cache[f].dev
    BY <1>0, <1>3, ResolveWrites, Zenon
<1>5. Solo' /\ HandlerInv' /\ \A f \in Entries : ~Raw(f)'
    BY <1>1, <1>2, Quiet, Zenon
<1>6. /\ \A f \in Entries : Linked(f)' = Linked(f) /\ Used(f)' = Used(f)
      /\ Linked(e) = {}
    BY <1>3, <1>4 DEF Linked, Used
<1>7. EntryInv'
  <2>1. \A f \in Entries : \A i \in Linked(f)' :
            cache'[f].state = "WAITING" /\ cache'[f].ip = pkt'[cache'[f].list[i]].dst
      BY <1>1, <1>4, <1>6 DEF Calm, EntryInv
  <2>2. \A f, g \in Entries : Used(f)' /\ Used(g)' /\ cache'[f].ip = cache'[g].ip => f = g
      BY <1>2, <1>4, <1>6 DEF Calm, EntryInv
  <2>3. \A f \in Entries : Used(f)' => cache'[f].dev
      BY <1>2, <1>4, <1>6, Zenon DEF Calm, EntryInv
  <2>4. \A f \in Entries : cache'[f].state = "RESOLVED" => cache'[f].hw = cache'[f].ip
      BY <1>1, <1>3, <1>4 DEF Calm, EntryInv
  <2> QED BY <2>1, <2>2, <2>3, <2>4, <1>5, Zenon DEF EntryInv
<1>8. PacketInv'
  <2>1. \A f \in Entries : cache'[f].list = cache[f].list
      BY <1>3, <1>4, Zenon
  <2> QED BY <2>1, <1>1, <1>6 DEF Calm, PacketInv
<1> QED BY <1>1, <1>5, <1>7, <1>8, Zenon DEF Calm

\* arp_insert() allocates an entry for a host that no entry has.
LEMMA InsertCalm ==
    ASSUME LinkInv, Calm, Insert
    PROVE  Calm'
<1>0. TypeOK
    BY LinkedPackets, Zenon
<1>1. rx.pc = "insert" /\ UNCHANGED <<pkt, snd, tick, panic>>
    BY Zenon DEF Insert
<1>2. /\ \A u \in Senders : snd[u] = IdleSender
      /\ tick = Size /\ \A f \in Entries : ~Raw(f)
    BY <1>1, ReceiverAlone, Zenon
<1>3. CASE FreeEntry = {}
  <2>1. rx' = IdleRx /\ UNCHANGED cache
      BY <1>3, Zenon DEF Insert
  <2>2. Solo' /\ HandlerInv' /\ \A f \in Entries : ~Raw(f)'
      BY <2>1, <1>1, <1>2, Quiet, Zenon
  <2>3. \A f \in Entries : Linked(f)' = Linked(f) /\ Used(f)' = Used(f)
      BY <2>1, Zenon DEF Linked, Used
  <2>4. EntryInv'
      BY <2>1, <2>2, <2>3, <1>1, <1>2 DEF Calm, EntryInv
  <2>5. PacketInv'
      BY <2>1, <2>3, <1>1 DEF Calm, PacketInv
  <2> QED BY <2>2, <2>4, <2>5, <1>1, Zenon DEF Calm
<1>4. CASE FreeEntry # {}
  <2>1. PICK e \in FreeEntry : /\ cache' = [cache EXCEPT ![e] = arp_alloc(e)]
                               /\ rx' = [rx EXCEPT !.pc = "fill", !.ae = e]
      BY <1>4, Zenon DEF Insert
  <2>2. /\ e \in Entries /\ cache[e].state = "FREE" /\ arp_alloc(e).list = <<>>
        /\ arp_alloc(e).state = "WAITING" /\ ~arp_alloc(e).dev
      BY <1>0, FreeEntryFree, Zenon
  <2>3. cache'[e] = arp_alloc(e) /\ \A f \in Entries \ {e} : cache'[f] = cache[f]
      BY <2>1, <2>2, <1>0, Zenon DEF TypeOK
  <2>4. rx'.pc = "fill" /\ rx'.ae = e /\ rx'.ip = rx.ip
      BY <2>1, <1>0, Zenon DEF TypeOK, Receiver
  <2>5. \A f \in Entries : Raw(f)' <=> f = e
      BY <2>4, <1>1, <1>2, Zenon DEF Raw, IdleSender
  <2>6. \A f \in Entries \ {e} : Linked(f)' = Linked(f) /\ Used(f)' = Used(f)
      BY <2>3, Zenon DEF Linked, Used
  <2>7. Linked(e)' = {} /\ Used(e)' /\ Linked(e) = {}
    <3>1. \A i \in Linked(e) : cache[e].state = "WAITING"
        BY <2>2, Zenon DEF Calm, EntryInv
    <3> QED BY <3>1, <2>2, <2>3 DEF Linked, Used
  <2>8. Solo'
      BY <2>4, <1>1, <1>2 DEF Solo, Busy, IdleSender
  <2>9. EntryInv'
      BY <2>2, <2>3, <2>4, <2>5, <2>6, <2>7, <1>1, <1>2 DEF Calm, EntryInv
  <2>10. HandlerInv'
    <3>1. Unknown(rx.ip)
        BY <1>1, Zenon DEF Calm, HandlerInv
    <3>2. Unknown(rx.ip)'
        BY <3>1, <2>3, <2>4, <2>5, <2>6, <1>2, Zenon DEF Unknown
    <3>3. \A u \in Senders : snd'[u].pc = "idle"
        BY <1>1, <1>2 DEF IdleSender
    <3> QED BY <3>2, <3>3, <2>4, Zenon DEF HandlerInv
  <2>11. PacketInv'
      BY <2>3, <2>6, <2>7, <1>1 DEF Calm, PacketInv
  <2> QED BY <2>8, <2>9, <2>10, <2>11, <1>1, Zenon DEF Calm
<1> QED BY <1>3, <1>4, Zenon

\* It fills the entry, which has no waiting packets and is the only one for the host.
LEMMA InsertFillCalm ==
    ASSUME LinkInv, Calm, NEW e \in Entries, InsertFill(e)
    PROVE  Calm'
<1>0. TypeOK
    BY LinkedPackets, Zenon
<1>1. /\ rx.pc = "fill" /\ rx.ae = e /\ rx' = [rx EXCEPT !.pc = "address"]
      /\ UNCHANGED <<pkt, snd, tick, panic>>
    BY Zenon DEF InsertFill, RxAt
<1>2. /\ \A u \in Senders : snd[u] = IdleSender
      /\ tick = Size /\ \A f \in Entries : Raw(f) <=> f = e
    BY <1>1, ReceiverAlone, Zenon
<1>3. rx'.pc = "address" /\ rx'.ae = e /\ rx'.ip = rx.ip
    BY <1>0, <1>1, Zenon DEF TypeOK, Receiver
<1>4. cache[e].list = <<>> /\ cache[e].state = "WAITING" /\ Linked(e) = {}
    BY <1>2 DEF Calm, EntryInv, Linked
<1>5. \A f \in Entries \ {e} : Used(f) => cache[f].ip # rx.ip
    BY <1>1, <1>2, Zenon DEF Calm, HandlerInv, Unknown
<1>6. /\ \A f \in Entries \ {e} : cache'[f] = cache[f]
      /\ cache'[e].state = "RESOLVED" /\ cache'[e].list = cache[e].list
      /\ cache'[e].ip = rx.ip /\ cache'[e].dev
    BY <1>0, InsertFillWrites, Zenon
<1>7. /\ \A f \in Entries : Linked(f)' = Linked(f)
      /\ \A f \in Entries : Used(f)' = Used(f)
  <2>1. \A f \in Entries : cache'[f].list = cache[f].list
      BY <1>6, Zenon
  <2>2. \A f \in Entries : cache'[f].state # "FREE" <=> cache[f].state # "FREE"
      BY <1>4, <1>6, Zenon
  <2> QED BY <2>1, <2>2, Zenon DEF Linked, Used
<1>8. \A f \in Entries : ~Raw(f)'
    BY <1>1, <1>2, <1>3 DEF Raw, IdleSender
<1>9. Solo'
    BY <1>1, <1>2, <1>3 DEF Solo, Busy, IdleSender
<1>10. EntryInv'
  <2>1. \A f \in Entries : \A i \in Linked(f)' :
            cache'[f].state = "WAITING" /\ cache'[f].ip = pkt'[cache'[f].list[i]].dst
      BY <1>1, <1>4, <1>6, <1>7 DEF Calm, EntryInv
  <2>2. ASSUME NEW f \in Entries, NEW g \in Entries, Used(f)', Used(g)',
               cache'[f].ip = cache'[g].ip
        PROVE  f = g
    <3>1. \A h \in Entries \ {e} : Used(h)' => Used(h) /\ ~Raw(h) /\ cache'[h].ip # rx.ip
        BY <1>2, <1>5, <1>6, <1>7, Zenon
    <3>2. CASE f # e /\ g # e
      <4>1. Used(f) /\ Used(g) /\ ~Raw(f) /\ ~Raw(g) /\ cache[f].ip = cache[g].ip
          BY <3>1, <3>2, <2>2, <1>6, Zenon
      <4> QED BY <4>1, Zenon DEF Calm, EntryInv
    <3>3. CASE f = e \/ g = e
        BY <3>1, <3>3, <2>2, <1>6, Zenon
    <3> QED BY <3>2, <3>3, Zenon
  <2>3. \A f \in Entries : Used(f)' => cache'[f].dev
      BY <1>2, <1>6, <1>7 DEF Calm, EntryInv
  <2>4. \A f \in Entries \ {e} : cache'[f].state = "RESOLVED" => cache'[f].hw = cache'[f].ip
      BY <1>1, <1>6 DEF Calm, EntryInv
  <2> QED BY <2>1, <2>2, <2>3, <2>4, <1>3, <1>8, Zenon DEF EntryInv
<1>11. HandlerInv'
  <2>1. \A u \in Senders : snd'[u].pc = "idle"
      BY <1>1, <1>2 DEF IdleSender
  <2>2. Used(e)'
      BY <1>6, Zenon DEF Used
  <2> QED BY <2>1, <2>2, <1>3, <1>6, Zenon DEF HandlerInv
<1>12. PacketInv'
  <2>1. \A f \in Entries : cache'[f].list = cache[f].list
      BY <1>6, Zenon
  <2> QED BY <2>1, <1>1, <1>7 DEF Calm, PacketInv
<1> QED BY <1>1, <1>9, <1>10, <1>11, <1>12, Zenon DEF Calm

\* The hardware address completes it.
LEMMA InsertAddressCalm ==
    ASSUME LinkInv, Calm, NEW e \in Entries, InsertAddress(e)
    PROVE  Calm'
<1>0. TypeOK
    BY LinkedPackets, Zenon
<1>1. rx.pc = "address" /\ rx.ae = e /\ rx' = IdleRx /\ UNCHANGED <<pkt, snd, tick, panic>>
    BY Zenon DEF InsertAddress
<1>2. /\ \A u \in Senders : snd[u] = IdleSender
      /\ tick = Size /\ \A f \in Entries : ~Raw(f)
    BY <1>1, ReceiverAlone, Zenon
<1>3. cache[e].ip = rx.ip
    BY <1>1, Zenon DEF Calm, HandlerInv
<1>4. /\ \A f \in Entries : /\ cache'[f].state = cache[f].state /\ cache'[f].ip = cache[f].ip
                            /\ cache'[f].dev = cache[f].dev /\ cache'[f].list = cache[f].list
      /\ \A f \in Entries \ {e} : cache'[f] = cache[f]
      /\ cache'[e].hw = rx.ip
    BY <1>0, InsertAddressWrites, Zenon
<1>5. Solo' /\ HandlerInv' /\ \A f \in Entries : ~Raw(f)'
    BY <1>1, <1>2, Quiet, Zenon
<1>6. \A f \in Entries : Linked(f)' = Linked(f) /\ Used(f)' = Used(f)
    BY <1>4, Zenon DEF Linked, Used
<1>7. EntryInv'
  <2>1. \A f \in Entries : \A i \in Linked(f)' :
            cache'[f].state = "WAITING" /\ cache'[f].ip = pkt'[cache'[f].list[i]].dst
      BY <1>1, <1>4, <1>6 DEF Calm, EntryInv
  <2>2. \A f, g \in Entries : Used(f)' /\ Used(g)' /\ cache'[f].ip = cache'[g].ip => f = g
      BY <1>2, <1>4, <1>6 DEF Calm, EntryInv
  <2>3. \A f \in Entries : Used(f)' => cache'[f].dev
      BY <1>2, <1>4, <1>6, Zenon DEF Calm, EntryInv
  <2>4. ASSUME NEW f \in Entries, cache'[f].state = "RESOLVED"
        PROVE  cache'[f].hw = cache'[f].ip
    <3>1. CASE f = e
        BY <3>1, <1>3, <1>4, Zenon
    <3>2. CASE f # e
        BY <3>2, <2>4, <1>1, <1>4 DEF Calm, EntryInv
    <3> QED BY <3>1, <3>2, Zenon
  <2> QED BY <2>1, <2>2, <2>3, <2>4, <1>5, Zenon DEF EntryInv
<1>8. PacketInv'
    BY <1>1, <1>4, <1>6 DEF Calm, PacketInv
<1> QED BY <1>1, <1>5, <1>7, <1>8, Zenon DEF Calm

\* arp_timer() gives an entry up with its packets, and has the device of the one it
\* tries again.
LEMMA VisitCalm ==
    ASSUME LinkInv, Calm, Visit
    PROVE  Calm'
<1>0. TypeOK /\ \A f \in Entries : cache[f].list \in Seq(Packets)
    BY LinkedPackets, Zenon
<1>t. tick \in Entries
    BY <1>0, CacheAssumption DEF Visit, TypeOK, Entries
<1>e. PICK e \in Entries : e = tick
    BY <1>t, Zenon
<1>a. PICK a \in Entry : a = cache[e]
    BY <1>0, Zenon DEF TypeOK
<1>1. /\ e < Size /\ cache' = [cache EXCEPT ![e] = Aged(a)]
      /\ pkt' = Moved(Emptied(a), "dropped", None)
      /\ panic' = (Over(a) /\ ~GivesUp(a) /\ ~a.dev)
      /\ UNCHANGED <<snd, rx>>
    BY <1>e, <1>a, Zenon DEF Visit
<1>2. (\A u \in Senders : snd[u] = IdleSender) /\ rx = IdleRx /\ \A f \in Entries : ~Raw(f)
  <2>1. tick # Size
      BY <1>e, <1>1, CacheAssumption DEF Entries
  <2>2. (\A u \in Senders : snd[u] = IdleSender) /\ rx = IdleRx
      BY <2>1, Zenon DEF Calm, Solo, Busy
  <2> QED BY <2>2 DEF Raw, IdleSender, IdleRx
<1>3. Solo' /\ HandlerInv' /\ \A f \in Entries : ~Raw(f)'
    BY <1>1, <1>2, Quiet, Zenon
<1>4. ~panic'
  <2>1. Over(a) => a.dev
      BY <1>a, <1>2, Zenon DEF Over, Calm, EntryInv, Used
  <2> QED BY <2>1, <1>1, Zenon
<1>5. cache'[e] = Aged(a) /\ \A f \in Entries \ {e} : cache'[f] = cache[f]
    BY <1>0, <1>1, Zenon DEF TypeOK
<1>6. \/ /\ cache'[e].state = "FREE" /\ a.state = "WAITING" /\ cache'[e].list = <<>>
         /\ Emptied(a) = Range(a.list)
      \/ /\ cache'[e].state = "FREE" /\ a.state # "WAITING" /\ cache'[e].list = a.list
         /\ Emptied(a) = {}
      \/ cache'[e].state = a.state /\ cache'[e].list = a.list /\ Emptied(a) = {}
    BY <1>5, AgedEntry
<1>7. cache'[e].ip = a.ip /\ cache'[e].hw = a.hw /\ cache'[e].dev = a.dev
    BY <1>5, AgedEntry, Zenon
<1>8. /\ \A q \in Packets : pkt'[q].dst = pkt[q].dst
      /\ \A q \in Emptied(a) : q \in Packets => pkt'[q].at = "dropped"
      /\ \A q \in Packets \ Emptied(a) : pkt'[q] = pkt[q]
    BY <1>0, <1>1, Zenon DEF Moved, TypeOK, PacketState
<1>9. \A f \in Entries \ {e} : Linked(f)' = Linked(f) /\ Used(f)' = Used(f)
    BY <1>5, Zenon DEF Linked, Used
<1>10. \A i \in Linked(e)' : /\ i \in Linked(e) /\ cache'[e].list = a.list
                             /\ cache'[e].state = "WAITING"
  <2>1. ASSUME NEW i \in Linked(e)'
        PROVE  i \in Linked(e) /\ cache'[e].list = a.list /\ cache'[e].state = "WAITING"
    <3>1. cache'[e].list # <<>>
        BY <2>1 DEF Linked
    <3>2. cache'[e].list = a.list /\ i \in Linked(e)
        BY <3>1, <2>1, <1>6, <1>a, Zenon DEF Linked
    <3>3. a.state = "WAITING"
        BY <3>2, <1>a, Zenon DEF Calm, EntryInv
    <3> QED BY <3>1, <3>2, <3>3, <1>6, Zenon
  <2> QED BY <2>1, Zenon
<1>11. EntryInv'
  <2>1. ASSUME NEW f \in Entries, NEW i \in Linked(f)'
        PROVE  cache'[f].state = "WAITING" /\ cache'[f].ip = pkt'[cache'[f].list[i]].dst
    <3>1. i \in Linked(f) /\ cache'[f].list = cache[f].list /\ cache'[f].ip = cache[f].ip
        BY <2>1, <1>5, <1>7, <1>9, <1>10, <1>a, Zenon
    <3>2. cache[f].list[i] \in Packets /\ cache[f].ip = pkt[cache[f].list[i]].dst
          /\ cache[f].state = "WAITING"
        BY <3>1, LinkedPackets, Zenon DEF Calm, EntryInv
    <3>3. cache'[f].state = "WAITING"
        BY <3>2, <2>1, <1>5, <1>10, Zenon
    <3> QED BY <3>1, <3>2, <3>3, <1>8, Zenon
  <2>2. \A f \in Entries : /\ Used(f)' => Used(f)
                           /\ cache'[f].ip = cache[f].ip /\ cache'[f].dev = cache[f].dev
      BY <1>5, <1>6, <1>7, <1>9, <1>a, Zenon DEF Used
  <2>3. \A f, g \in Entries : Used(f)' /\ Used(g)' /\ cache'[f].ip = cache'[g].ip => f = g
      BY <2>2, <1>2 DEF Calm, EntryInv
  <2>4. \A f \in Entries : Used(f)' => cache'[f].dev
      BY <2>2, <1>2, Zenon DEF Calm, EntryInv
  <2>5. ASSUME NEW f \in Entries, cache'[f].state = "RESOLVED"
        PROVE  cache'[f].hw = cache'[f].ip
    <3>1. cache[f].state = "RESOLVED" /\ cache'[f].hw = cache[f].hw /\ cache'[f].ip = cache[f].ip
        BY <2>5, <1>5, <1>6, <1>7, <1>a, Zenon
    <3> QED BY <3>1, <1>2, Zenon DEF Calm, EntryInv, IdleRx
  <2> QED BY <2>1, <2>3, <2>4, <2>5, <1>3, Zenon DEF EntryInv
<1>12. PacketInv'
  <2>1. \A q \in Packets : pkt'[q].at = "sent" => pkt'[q].via = pkt'[q].dst
      BY <1>8, Zenon DEF Calm, PacketInv
  <2>2. ASSUME NEW q \in Packets, pkt'[q].at = "queued"
        PROVE  \E f \in Entries : \E i \in Linked(f)' : cache'[f].list[i] = q
    <3>1. q \notin Emptied(a) /\ pkt[q].at = "queued"
        BY <2>2, <1>8, Zenon
    <3>f. PICK f \in Entries : \E i \in Linked(f) : cache[f].list[i] = q
        BY <3>1, Zenon DEF Calm, PacketInv
    <3>2. PICK i \in Linked(f) : cache[f].list[i] = q
        BY <3>f, Zenon
    <3>3. CASE f # e
        BY <3>2, <3>3, <1>5, <1>9, Zenon
    <3>4. CASE f = e
      <4>1. q \in Range(a.list)
          BY <3>2, <3>4, <1>a, LinkedPackets, Zenon
      <4>2. cache'[e].list = a.list
          BY <4>1, <3>1, <1>6, Zenon
      <4>3. i \in Linked(e)' /\ cache'[e].list[i] = q
          BY <4>2, <3>2, <3>4, <1>a, Zenon DEF Linked
      <4> QED BY <4>3, Zenon
    <3> QED BY <3>3, <3>4, Zenon
  <2> QED BY <2>1, <2>2, Zenon DEF PacketInv
<1> QED BY <1>3, <1>4, <1>11, <1>12, Zenon DEF Calm

\* Every step keeps the cache calm as long as no handler begins beside another.
LEMMA NextCalm ==
    ASSUME LeastNatural
    PROVE  LinkInv /\ CalmInv /\ [Next]_vars => CalmInv'
<1> SUFFICES ASSUME LinkInv, CalmInv, [Next]_vars, overlaps' = 0 PROVE Calm'
    BY Zenon DEF CalmInv
<1>1. ASSUME NEW t \in Senders, NEW p \in Packets, NEW d \in Hosts, Send(t, p, d)
      PROVE  Calm'
    BY <1>1, SendCalm, Zenon
<1>2. ASSUME NEW t \in Senders, SendStep(t) PROVE Calm'
  <2>1. Calm
      BY <1>2, Zenon DEF SendStep, Allocate, Fill, Test, Wait, Transmit, CalmInv
  <2> QED BY <2>1, <1>2, AllocateCalm, LinkCalm, TestCalm, TransmitCalm, Zenon DEF SendStep
<1>3. CASE Tick \/ \E request \in BOOLEAN, ip \in Hosts : arp_in(request, ip)
    BY <1>3, BeginCalm, Zenon
<1>4. CASE RecvStep
  <2>1. Calm
      BY <1>4, Zenon DEF RecvStep, Insert, Learn, Resolve, InsertFill, InsertAddress, CalmInv
  <2> QED BY <2>1, <1>4, InsertCalm, LearnCalm, ResolveCalm, InsertFillCalm,
             InsertAddressCalm, Zenon
          DEF RecvStep
<1>5. CASE Visit
  <2>1. Calm
      BY <1>5, Zenon DEF Visit, CalmInv
  <2> QED BY <2>1, <1>5, VisitCalm, Zenon
<1>6. CASE UNCHANGED vars
  <2>1. Calm
      BY <1>6, Zenon DEF vars, CalmInv
  <2>2. Solo'
      BY <2>1, <1>6, Zenon DEF vars, Calm, Solo, Busy
  <2>3. EntryInv'
      BY <2>1, <1>6 DEF vars, Calm, EntryInv, Raw, Used, Linked
  <2>4. HandlerInv'
      BY <2>1, <1>6 DEF vars, Calm, HandlerInv, Unknown, Raw, Used
  <2>5. PacketInv'
      BY <2>1, <1>6, Zenon DEF vars, Calm, PacketInv, Linked
  <2> QED BY <2>1, <2>2, <2>3, <2>4, <2>5, <1>6, Zenon DEF vars, Calm
<1> QED BY <1>1, <1>2, <1>3, <1>4, <1>5, <1>6, Zenon DEF Next

-----------------------------------------------------------------------------
(* The theorems.                                                           *)

INSTANCE WellFoundedInduction

\* The fact about natural numbers that the lemmas assume follows from the library's.
LEMMA LeastNumber == LeastNatural
<1> SUFFICES ASSUME NEW T \in SUBSET Nat, T # {} PROVE \E x \in T : \A y \in T : x <= y
    BY Zenon DEF LeastNatural
<1>1. PICK x \in T : \A y \in T : ~ (<<y, x>> \in OpToRel(<, Nat))
    BY NatLessThanWellFounded, WFMin, Zenon
<1>2. \A y \in T : ~ (y < x)
    BY <1>1, Zenon DEF OpToRel
<1> QED BY <1>2

\* The links are right in every reachable state, however the handlers interleave.
THEOREM LinksAlwaysRight == Spec => []LinkInv
<1>1. Init => LinkInv
    BY InitLink, Zenon
<1>2. LinkInv /\ [Next]_vars => LinkInv'
    BY NextLink, LeastNumber, Zenon
<1> QED BY <1>1, <1>2, PTL DEF Spec

\* However ip_send_dev(), arp_recv() and arp_timer() interleave between their uses of
\* the mutex, a packet is linked at most once, in one entry, and no packet that was
\* transmitted or freed is still linked.
THEOREM NeverLinkedTwice == Spec => []QueuedOnce
<1>1. LinkInv => QueuedOnce
    BY Zenon DEF LinkInv
<1> QED BY <1>1, LinksAlwaysRight, PTL

\* Both invariants hold in every reachable state.
LEMMA CacheInvariant == Spec => [](LinkInv /\ CalmInv)
<1>1. Init => LinkInv /\ CalmInv
    BY InitLink, InitCalm, Zenon
<1>2. LinkInv /\ CalmInv /\ [Next]_vars => (LinkInv /\ CalmInv)'
    BY NextLink, NextCalm, LeastNumber, Zenon
<1> QED BY <1>1, <1>2, PTL DEF Spec

\* A packet leaves with the hardware address of its own next hop, whether ip_send_dev()
\* transmits it or arp_queue_send() does, as long as no handler has begun while another
\* was between its lookup and its use of the entry.
THEOREM LeavesToItsHop == Spec => []SentToNextHop
<1>1. CalmInv => SentToNextHop
    BY Zenon DEF CalmInv, Calm, PacketInv, SentToNextHop
<1> QED BY <1>1, CacheInvariant, PTL

\* Under the same condition a queued packet is in the list of a waiting entry for its
\* next hop, and no two entries in use have one address.
THEOREM QueuedWhereItsReplyGoes == Spec => []WaitsForItsHop
<1>1. LinkInv /\ CalmInv => WaitsForItsHop
  <2> SUFFICES ASSUME LinkInv, Calm PROVE WaitsForItsHop
      BY Zenon DEF CalmInv, WaitsForItsHop
  <2>1. ASSUME NEW p \in Packets, pkt[p].at = "queued"
        PROVE  \E e \in Entries : /\ p \in Queued(e) /\ cache[e].ip = pkt[p].dst
                                  /\ cache[e].state = "WAITING"
    <3>1. PICK e \in Entries : \E i \in Linked(e) : cache[e].list[i] = p
        BY <2>1, Zenon DEF Calm, PacketInv
    <3>2. PICK i \in Linked(e) : cache[e].list[i] = p
        BY <3>1, Zenon
    <3>3. p \in Queued(e)
        BY <3>2, LinkedPackets, Zenon DEF Queued
    <3>4. cache[e].ip = pkt[p].dst /\ cache[e].state = "WAITING"
        BY <3>2 DEF Calm, EntryInv
    <3> QED BY <3>3, <3>4, Zenon
  <2>2. ASSUME NEW e \in Entries, NEW f \in Entries, Used(e), Used(f),
               cache[e].dev, cache[f].dev, cache[e].ip = cache[f].ip
        PROVE  e = f
    <3>1. ~Raw(e) /\ ~Raw(f)
        BY <2>2, Zenon DEF Calm, EntryInv
    <3> QED BY <3>1, <2>2, Zenon DEF Calm, EntryInv
  <2> QED BY <2>1, <2>2, Zenon DEF WaitsForItsHop, Used
<1> QED BY <1>1, CacheInvariant, PTL

\* What the comments of ip_out.c, arp.c and arp_cache.c say of the cache, and other
\* interleavings break, holds as long as every handler runs alone: packets leave to
\* their hop, no packet is left in a resolved entry, and a retried entry has its device.
THEOREM OneHandlerAtATime ==
    Spec => [](overlaps = 0 => AlwaysToNextHop /\ NoPacketLeftWaiting /\ RetryHasDevice)
<1>1. LinkInv /\ CalmInv
      => (overlaps = 0 => AlwaysToNextHop /\ NoPacketLeftWaiting /\ RetryHasDevice)
  <2> SUFFICES ASSUME LinkInv, Calm
               PROVE  AlwaysToNextHop /\ NoPacketLeftWaiting /\ RetryHasDevice
      BY Zenon DEF CalmInv
  <2>1. ASSUME NEW e \in Entries, cache[e].state = "RESOLVED" PROVE cache[e].list = <<>>
    <3>1. Linked(e) = {}
        BY <2>1, Zenon DEF Calm, EntryInv
    <3>2. cache[e].list \in Seq(Packets)
        BY LinkedPackets, Zenon
    <3>n. PICK n \in Nat : n = Len(cache[e].list)
        BY <3>2
    <3>l. 1 \notin 1..n
        BY <3>1, <3>n, Zenon DEF Linked
    <3>3. n = 0
        BY <3>l
    <3> QED BY <3>2, <3>3, <3>n
  <2> QED BY <2>1, Zenon DEF Calm, PacketInv, AlwaysToNextHop, NoPacketLeftWaiting, RetryHasDevice
<1> QED BY <1>1, CacheInvariant, PTL
=============================================================================
