--------------------------- MODULE UdpPortsProofs ---------------------------
(***************************************************************************)
(* Proofs about UdpPorts: its type invariant, that udp_lookup_sock() can   *)
(* reach every bound sock, and that ports are unique and counted as long   *)
(* as the run is plain: the stack chooses the ports, without its slow      *)
(* path, and one thread at a time binds or closes a bound socket.          *)
(***************************************************************************)
EXTENDS UdpPorts, FiniteSetTheorems, WellFoundedInduction, TLAPS

-----------------------------------------------------------------------------
(* Arithmetic of ports.                                                    *)

\* The bytes of a port: quotient and remainder are again bytes.
LEMMA Byte ==
    ASSUME NEW p \in Ports
    PROVE  p % Base \in 0..(Base - 1) /\ p \div Base \in 0..(Base - 1)
<1>1. p \in Nat /\ p < Base * Base /\ Base \in Nat \ {0}
  BY PortsAssumption DEF Ports
<1>2. p % Base \in 0..(Base - 1) BY <1>1
<1>3. p = Base * (p \div Base) + (p % Base) /\ p \div Base \in Nat BY <1>1
<1>4. p \div Base < Base
  <2>1. SUFFICES ASSUME p \div Base >= Base PROVE FALSE BY <1>1, <1>3
  <2> DEFINE q == p \div Base
  <2>2. q \in Nat /\ q >= Base BY <1>3, <2>1
  <2>3. Base * q >= Base * Base BY <2>2, <1>1
  <2> QED BY <1>1, <1>2, <1>3, <2>3
<1> QED BY <1>1, <1>2, <1>3, <1>4

\* _htons() of a port is a port.
LEMMA SwappedPort ==
    ASSUME NEW p \in Ports
    PROVE  Swapped(p) \in Ports
<1> DEFINE r == p % Base
           q == p \div Base
<1>1. r \in 0..(Base - 1) /\ q \in 0..(Base - 1) BY Byte
<1>2. Base \in Nat \ {0} BY PortsAssumption
<1>3. r * Base <= (Base - 1) * Base BY <1>1, <1>2
<1>4. (Base - 1) * Base + (Base - 1) = Base * Base - 1 BY <1>2
<1>5. r * Base \in Nat BY <1>1, <1>2
<1>6. Base * Base \in Nat BY <1>2
<1>7. (Base - 1) * Base \in Nat BY <1>2
<1> HIDE DEF r, q
<1>8. r * Base + q \in 0..(Base * Base - 1) BY <1>1, <1>2, <1>3, <1>4, <1>5, <1>6, <1>7
<1> QED BY <1>8 DEF Swapped, Ports, r, q

\* The slot of a port is a slot.
LEMMA SlotOfPort == \A p \in Nat : p % H \in Slots
BY PortsAssumption DEF Slots

\* The first port of slot i is in the range and belongs to it.
LEMMA FirstPort ==
    ASSUME NEW i \in Slots
    PROVE  PortMin + i \in PortsOf(i)
<1>1. PortMin + i \in PortMin..(PortMax - 1) BY PortsAssumption DEF Slots
<1>2. (PortMin + i) % H = i
  <2> DEFINE n == PortMin + i
             q == PortMin \div H
             r == n % H
             d == n \div H
  <2>1. H \in Nat \ {0} /\ PortMin = H * q /\ q \in Nat /\ i \in 0..(H - 1)
    BY PortsAssumption DEF Slots
  <2>2. n \in Nat /\ n = H * d + r /\ d \in Int /\ r \in 0..(H - 1)
    BY <2>1, PortsAssumption
  <2>3. H * q + i = H * d + r BY <2>1, <2>2
  <2> HIDE DEF n, q, r, d
  <2>4. H * (q - d) = r - i BY <2>1, <2>2, <2>3
  <2>5. r - i < H /\ r - i > -H BY <2>1, <2>2
  <2>6. ~(q - d >= 1)
    <3>1. SUFFICES ASSUME q - d >= 1 PROVE FALSE OBVIOUS
    <3>2. H * (q - d) >= H BY <3>1, <2>1, <2>2
    <3> QED BY <3>2, <2>1, <2>2, <2>4, <2>5
  <2>7. ~(q - d <= -1)
    <3>1. SUFFICES ASSUME q - d <= -1 PROVE FALSE OBVIOUS
    <3>2. H * (q - d) <= -H BY <3>1, <2>1, <2>2
    <3> QED BY <3>2, <2>1, <2>2, <2>4, <2>5
  <2>8. q = d BY <2>1, <2>2, <2>6, <2>7
  <2>9. r = i BY <2>1, <2>2, <2>3, <2>8
  <2> QED BY <2>9 DEF r, n
<1> QED BY <1>1, <1>2 DEF PortsOf

\* A nonempty set of numbers has a least element.
LEMMA LeastOf ==
    ASSUME NEW S, S \subseteq Nat, S # {}
    PROVE  \E x \in S : \A y \in S : x <= y
<1>1. PICK x \in S : \A y \in S : ~ (<<y, x>> \in OpToRel(<, Nat))
  BY WFMin, NatLessThanWellFounded
<1>2. \A y \in S : ~ (y < x)
  BY <1>1 DEF OpToRel
<1> QED BY <1>2

\* What udp_get_best_port() returns: 0, or a port of the slot in the range; when the
\* slot is searched, one that no sock has.
LEMMA BestPort ==
    ASSUME NEW i \in Slots
    PROVE  \/ udp_get_best_port(i) = 0
           \/ /\ udp_get_best_port(i) \in PortsOf(i)
              /\ used[i] # 0 => ~port_used(udp_get_best_port(i))
<1> DEFINE free == {p \in PortsOf(i) : ~port_used(p)}
<1>1. CASE used[i] = 0
  BY <1>1, FirstPort DEF udp_get_best_port
<1>2. CASE used[i] # 0 /\ free = {}
  BY <1>2 DEF udp_get_best_port
<1>3. CASE used[i] # 0 /\ free # {}
  <2>1. free \subseteq Nat BY PortsAssumption DEF PortsOf
  <2>2. \E x \in free : \A y \in free : x <= y BY <1>3, <2>1, LeastOf
  <2>3. udp_get_best_port(i) = CHOOSE p \in free : \A q \in free : p <= q
    BY <1>3 DEF udp_get_best_port
  <2>4. udp_get_best_port(i) \in free BY <2>2, <2>3
  <2> QED BY <2>4
<1> QED BY <1>1, <1>2, <1>3

\* A port of the range is a port, and not 0.
LEMMA RangePort ==
    ASSUME NEW i \in Slots, NEW p \in PortsOf(i)
    PROVE  p \in Ports /\ p \in Nat /\ p # 0 /\ p % H = i /\ p \in PortMin..(PortMax - 1)
<1>1. Base * Base \in Nat BY PortsAssumption
<1> QED BY <1>1, PortsAssumption DEF PortsOf, Ports

\* The scan of udp_get_port() ends at a slot.
LEMMA BetterSlot ==
    ASSUME NEW u, NEW b \in Slots
    PROVE  Better(u, b) \in Slots
<1> DEFINE less == {i \in Slots : u[i] < u[b]}
<1>1. CASE less = {} BY <1>1 DEF Better
<1>2. CASE less # {}
  <2>1. less \subseteq Nat BY DEF Slots
  <2>2. \E x \in less : \A y \in less : x <= y BY <1>2, <2>1, LeastOf
  <2> QED BY <1>2, <2>2 DEF Better
<1> QED BY <1>1, <1>2

-----------------------------------------------------------------------------
(* Types.                                                                  *)

\* The initial state of udp_init() has the right types.
LEMMA TypeInit == Init => TypeOK
<1> SUFFICES ASSUME Init PROVE TypeOK OBVIOUS
<1>1. 0 \in Slots /\ 0 \in Ports
  <2>1. Base * Base \in Nat \ {0} BY PortsAssumption
  <2> QED BY <2>1, PortsAssumption DEF Slots, Ports
<1>2. NoPick \in Picks /\ NoPick.sock = None BY <1>1 DEF NoPick, Picks
<1> QED BY <1>1, <1>2, SocksAssumption, UsageAssumption DEF Init, TypeOK, Locations

\* The sock that holds the mutex is the one that is choosing.
LEMMA NoHolder ==
    ASSUME TypeOK, pick = NoPick
    PROVE  \A s \in Socks : st[s] # "choosing"
BY SocksAssumption DEF TypeOK, NoPick

\* Every step keeps the types.
LEMMA TypeStep ==
    ASSUME TypeOK, [Next]_vars
    PROVE  TypeOK'
<1> USE DEF TypeOK
<1>0. NoPick \in Picks /\ NoPick.sock = None
  <2>1. Base * Base \in Nat \ {0} BY PortsAssumption
  <2> QED BY <2>1, PortsAssumption DEF NoPick, Picks, Slots, Ports
<1>1. CASE UNCHANGED vars BY <1>1 DEF vars, Picks
<1>2. ASSUME NEW s \in Socks, udp_alloc_sock(s) PROVE TypeOK'
  BY <1>2 DEF udp_alloc_sock, Locations
<1>3. ASSUME NEW s \in Socks, NEW p \in Explicit, Bind(s, p) PROVE TypeOK'
  <2>1. p \in Ports /\ p \in Nat
    <3>1. Base * Base \in Nat BY PortsAssumption
    <3> QED BY <3>1, UsageAssumption DEF Ports
  <2>2. p % H \in Slots BY <2>1, SlotOfPort
  <2>3. best_slot' \in Slots BY <1>3, <2>2 DEF Bind, udp_update_best
  <2> QED BY <1>3, <2>1, <2>2, <2>3 DEF Bind, udp_hash, Locations
<1>4. ASSUME NEW s \in Socks, Choose(s) PROVE TypeOK'
  <2>1. udp_get_best_port(best_slot) \in Ports BY <1>4, BestPort, RangePort DEF Choose
  <2>2. pick' \in Picks /\ pick'.sock = s BY <1>4, <2>1 DEF Choose, Picks
  <2>3. \A t \in Socks : st[t] # "choosing" BY <1>4, NoHolder DEF Choose
  <2> QED BY <1>4, <2>2, <2>3 DEF Choose, Locations
<1>5. ASSUME NEW s \in Socks, ChooseSlow(s) PROVE TypeOK'
  <2>1. PICK i \in Slots :
            /\ best_slot' = i /\ best_update' = BestUpdate
            /\ IF udp_get_best_port(i) = 0 THEN UNCHANGED <<st, pick>>
               ELSE /\ st' = [st EXCEPT ![s] = "choosing"]
                    /\ pick' = [sock |-> s, port |-> Swapped(udp_get_best_port(i)), slot |-> i,
                                used |-> used[i], slow |-> TRUE]
    BY <1>5 DEF ChooseSlow
  <2>2. UNCHANGED <<sport, hash, loaded, used>> /\ plain' \in BOOLEAN BY <1>5 DEF ChooseSlow
  <2>3. CASE udp_get_best_port(i) = 0
    BY <2>1, <2>2, <2>3, UsageAssumption
  <2>4. CASE udp_get_best_port(i) # 0
    <3>1. Swapped(udp_get_best_port(i)) \in Ports
      BY <2>4, BestPort, RangePort, SwappedPort
    <3>2. pick' \in Picks /\ pick'.sock = s
      <4>1. pick' = [sock |-> s, port |-> Swapped(udp_get_best_port(i)), slot |-> i,
                     used |-> used[i], slow |-> TRUE]
        BY <2>1, <2>4
      <4>2. used[i] \in Int OBVIOUS
      <4> HIDE DEF TypeOK
      <4> QED BY <3>1, <4>1, <4>2 DEF Picks
    <3>3. \A t \in Socks : st[t] # "choosing" BY <1>5, NoHolder DEF ChooseSlow
    <3> QED BY <2>1, <2>2, <2>4, <3>2, <3>3, UsageAssumption DEF Locations
  <2> QED BY <2>3, <2>4
<1>6. ASSUME NEW s \in Socks, Commit(s) PROVE TypeOK'
  <2>1. pick.port \in Ports /\ pick.port \in Nat /\ pick.slot \in Slots /\ pick.used \in Int
        /\ pick.slow \in BOOLEAN
    BY DEF Picks, Ports
  <2>2. pick.port % H \in Slots BY <2>1, SlotOfPort
  <2>3. used' \in [Slots -> Int] BY <1>6, <2>1 DEF Commit
  <2>4. best_slot' \in Slots
    BY <1>6, <2>1, <2>2, BetterSlot DEF Commit, udp_update_best
  <2>5. best_update' \in 0..BestUpdate
    BY <1>6, <2>1, UsageAssumption DEF Commit, NextUpdate
  <2>6. pick' = NoPick /\ pick.sock = s BY <1>6 DEF Commit
  <2>7. \A t \in Socks : st'[t] # "choosing"
    BY <1>6, <2>6 DEF Commit, udp_hash
  <2> QED BY <1>0, <1>6, <2>1, <2>2, <2>3, <2>4, <2>5, <2>6, <2>7, SocksAssumption
          DEF Commit, udp_hash, Locations
<1>7. ASSUME NEW s \in Socks, Close(s) PROVE TypeOK'
  <2>1. st[s] # "choosing" BY <1>7 DEF Close
  <2> QED BY <1>7, <2>1 DEF Close, Locations
<1>8. ASSUME NEW s \in Socks, udp_unset_sport(s) PROVE TypeOK'
  <2>1. best_slot' \in Slots BY <1>8 DEF udp_unset_sport, udp_update_best
  <2> QED BY <1>8, <2>1 DEF udp_unset_sport, Locations
<1>9. ASSUME NEW s \in Socks, sock_del_hash(s) PROVE TypeOK'
  <2>1. 0 \in Slots /\ 0 \in Ports
    <3>1. Base * Base \in Nat \ {0} BY PortsAssumption
    <3> QED BY <3>1, PortsAssumption DEF Slots, Ports
  <2> QED BY <1>9, <2>1 DEF sock_del_hash, Locations
<1> QED BY <1>1, <1>2, <1>3, <1>4, <1>5, <1>6, <1>7, <1>8, <1>9 DEF Next

\* In every state the port table has the types the code declares, and the mutex of
\* udp_set_sport() has one holder.
THEOREM TypeCorrect == Spec => []TypeOK
BY TypeInit, TypeStep, PTL DEF Spec

-----------------------------------------------------------------------------
(* Every bound sock can be found by its port.                              *)

\* A sock that is not bound has no port, and a bound one lies in its port's slot
SlotInv ==
    /\ \A s \in Socks : st[s] \in {"none", "new", "choosing"} => sport[s] = 0
    /\ \A s \in Linked : hash[s] = sport[s] % H

\* Every step keeps sk->hash equal to the slot of the port.
LEMMA SlotStep ==
    ASSUME TypeOK, SlotInv, [Next]_vars
    PROVE  SlotInv'
<1> USE DEF TypeOK, SlotInv, Linked
<1>1. CASE UNCHANGED vars BY <1>1 DEF vars
<1>2. ASSUME NEW s \in Socks, udp_alloc_sock(s) PROVE SlotInv'
  BY <1>2 DEF udp_alloc_sock
<1>3. ASSUME NEW s \in Socks, NEW p \in Explicit, Bind(s, p) PROVE SlotInv'
  BY <1>3 DEF Bind, udp_hash
<1>4. ASSUME NEW s \in Socks, Choose(s) PROVE SlotInv'
  BY <1>4 DEF Choose
<1>5. ASSUME NEW s \in Socks, ChooseSlow(s) PROVE SlotInv'
  <2>1. st' = st \/ st' = [st EXCEPT ![s] = "choosing"] BY <1>5 DEF ChooseSlow
  <2> QED BY <1>5, <2>1 DEF ChooseSlow
<1>6. ASSUME NEW s \in Socks, Commit(s) PROVE SlotInv'
  BY <1>6 DEF Commit, udp_hash
<1>7. ASSUME NEW s \in Socks, Close(s) PROVE SlotInv'
  BY <1>7 DEF Close
<1>8. ASSUME NEW s \in Socks, udp_unset_sport(s) PROVE SlotInv'
  BY <1>8 DEF udp_unset_sport
<1>9. ASSUME NEW s \in Socks, sock_del_hash(s) PROVE SlotInv'
  BY <1>9 DEF sock_del_hash
<1> QED BY <1>1, <1>2, <1>3, <1>4, <1>5, <1>6, <1>7, <1>8, <1>9 DEF Next

\* In every state, udp_lookup_sock() searches the slot that holds the sock: the port
\* and the hash value of a bound sock agree, even for a port from the slow path.
THEOREM LookupReachesAll == Spec => []LookupReaches
<1>1. Init => SlotInv BY DEF Init, SlotInv, Linked
<1>2. SlotInv => LookupReaches BY DEF SlotInv, LookupReaches, port_used
<1> QED BY <1>1, <1>2, SlotStep, TypeInit, TypeStep, PTL DEF Spec

-----------------------------------------------------------------------------
(* Ports are unique and counted in plain runs.                             *)

\* There are not more sockets than ports in a slot
Roomy == \A i \in Slots : Cardinality(PortsOf(i)) >= Cardinality(Socks)

\* The socks of slot i that are counted in slot[i].used
CountedIn(i) == {s \in Socks : st[s] \in {"bound", "loaded"} /\ hash[s] = i}

Busy == {s \in Socks : st[s] \in {"loaded", "unset"}}

\* One thread at a time is inside udp_set_sport() or udp_unhash()
Serial ==
    /\ pick # NoPick => Busy = {}
    /\ \A s, t \in Busy : s = t
    /\ \A s \in Socks : st[s] = "loaded" => loaded[s] = used[hash[s]]

\* Bound socks have a port of the range, and no port has two of them
RangeInv ==
    /\ \A s \in Socks : st[s] \in {"bound", "loaded", "unset"} =>
            /\ sport[s] \in PortMin..(PortMax - 1)
            /\ hash[s] = sport[s] % H
    /\ \A s, t \in Socks :
            /\ st[s] \in {"bound", "loaded", "unset"} /\ st[t] \in {"bound", "loaded", "unset"}
            /\ sport[s] = sport[t]
            => s = t

\* slot->used counts the socks of the slot
CountInv == \A i \in Slots : used[i] = Cardinality(CountedIn(i))

\* The port that udp_get_port() has chosen is in the range and unused
PickInv ==
    pick # NoPick =>
        /\ pick.sock \in Socks /\ ~pick.slow
        /\ pick.port \in PortsOf(pick.slot)
        /\ pick.used = used[pick.slot]
        /\ \A s \in Socks : st[s] \in {"bound", "loaded", "unset"} => sport[s] # pick.port

IInv == TypeOK /\ Serial /\ RangeInv /\ CountInv /\ PickInv

PlainInv == plain => IInv

\* Between binds and closes, a port that udp_get_best_port() gives is not in use, also
\* when it skips the search because the slot is counted as empty.
LEMMA FreshPort ==
    ASSUME IInv, Quiet, NEW i \in Slots, udp_get_best_port(i) # 0,
           NEW s \in Socks, st[s] \in {"bound", "loaded", "unset"}
    PROVE  udp_get_best_port(i) \in PortsOf(i) /\ sport[s] # udp_get_best_port(i)
<1> DEFINE p == udp_get_best_port(i)
<1>1. p \in PortsOf(i) /\ (used[i] # 0 => ~port_used(p)) BY BestPort
<1> HIDE DEF p
<1>2. p % H = i /\ p # 0 BY <1>1, RangePort
<1>3. SUFFICES ASSUME sport[s] = p PROVE FALSE BY <1>1 DEF p
<1>4. st[s] = "bound" /\ hash[s] = i BY <1>2, <1>3 DEF Quiet, IInv, RangeInv
<1>5. used[i] = 0 BY <1>1, <1>2, <1>3, <1>4 DEF port_used, Linked
<1>6. IsFiniteSet(CountedIn(i)) BY SocksAssumption, FS_Subset DEF CountedIn
<1>7. CountedIn(i) = {} BY <1>5, <1>6, FS_EmptySet DEF IInv, CountInv
<1> QED BY <1>4, <1>7 DEF CountedIn

\* With fewer socks than ports in a slot, udp_get_best_port() finds one, by a pigeonhole
\* argument: the slow path of udp_get_port() is not taken.
LEMMA NeverSlow ==
    ASSUME Roomy, IInv, NEW s \in Socks, st[s] = "new"
    PROVE  udp_get_best_port(best_slot) # 0
<1> DEFINE S == PortsOf(best_slot)
           T == Socks \ {s}
           f == [p \in S |-> CHOOSE t \in Linked : sport[t] = p]
<1>1. best_slot \in Slots BY DEF IInv, TypeOK
<1>2. SUFFICES ASSUME udp_get_best_port(best_slot) = 0 PROVE FALSE OBVIOUS
<1>3. \A p \in S : port_used(p)
  <2>1. PortMin + best_slot # 0 BY <1>1, FirstPort, RangePort
  <2>2. used[best_slot] # 0 BY <1>2, <2>1 DEF udp_get_best_port
  <2>3. SUFFICES ASSUME {p \in S : ~port_used(p)} # {} PROVE FALSE OBVIOUS
  <2> DEFINE free == {p \in S : ~port_used(p)}
  <2>4. free \subseteq Nat BY <1>1, RangePort
  <2>5. \E x \in free : \A y \in free : x <= y BY <2>3, <2>4, LeastOf
  <2>6. udp_get_best_port(best_slot) = CHOOSE p \in free : \A q \in free : p <= q
    BY <2>2, <2>3 DEF udp_get_best_port
  <2>7. udp_get_best_port(best_slot) \in S BY <2>5, <2>6
  <2> QED BY <1>1, <1>2, <2>7, RangePort
<1>4. ASSUME NEW p \in S PROVE f[p] \in T /\ sport[f[p]] = p
  <2>1. PICK t \in Linked : sport[t] = p BY <1>3 DEF port_used
  <2>2. f[p] \in Linked /\ sport[f[p]] = p BY <2>1
  <2>3. s \notin Linked BY DEF Linked
  <2> QED BY <2>2, <2>3 DEF Linked
<1>5. f \in [S -> T] BY <1>4
<1>6. IsFiniteSet(S)
  <2>1. IsFiniteSet(PortMin..(PortMax - 1)) BY PortsAssumption, FS_Interval
  <2> QED BY <2>1, FS_Subset DEF PortsOf
<1>7. IsFiniteSet(T) /\ Cardinality(T) = Cardinality(Socks) - 1
  BY SocksAssumption, FS_RemoveElement
<1>8. Cardinality(T) < Cardinality(S)
  <2>1. Cardinality(S) >= Cardinality(Socks) BY <1>1 DEF Roomy
  <2>2. Cardinality(S) \in Nat /\ Cardinality(Socks) \in Nat
    BY <1>6, SocksAssumption, FS_CardinalityType
  <2> HIDE DEF S, T
  <2> QED BY <1>7, <2>1, <2>2
<1>9. \E x, y \in S : x # y /\ f[x] = f[y]
  <2> HIDE DEF S, T, f
  <2> QED BY <1>5, <1>6, <1>7, <1>8, FS_PigeonHole
<1> QED BY <1>4, <1>9

\* A sock enters or leaves the count of one slot at a time.
LEMMA CountChange ==
    ASSUME NEW i \in Slots, NEW s \in Socks
    PROVE  /\ IsFiniteSet(CountedIn(i)) /\ Cardinality(CountedIn(i)) \in Nat
           /\ s \notin CountedIn(i) =>
                Cardinality(CountedIn(i) \cup {s}) = Cardinality(CountedIn(i)) + 1
           /\ s \in CountedIn(i) =>
                Cardinality(CountedIn(i) \ {s}) = Cardinality(CountedIn(i)) - 1
<1>1. IsFiniteSet(CountedIn(i)) BY SocksAssumption, FS_Subset DEF CountedIn
<1> QED BY <1>1, FS_CardinalityType, FS_AddElement, FS_RemoveElement

\* The empty table satisfies the invariant.
LEMMA IInit == Init => IInv
<1> SUFFICES ASSUME Init PROVE IInv OBVIOUS
<1>1. TypeOK BY TypeInit
<1>2. Serial BY DEF Init, Serial, Busy
<1>3. RangeInv BY DEF Init, RangeInv
<1>4. CountInv
  <2>1. \A i \in Slots : CountedIn(i) = {} BY DEF Init, CountedIn
  <2> QED BY <2>1, FS_EmptySet DEF Init, CountInv
<1>5. PickInv BY DEF Init, PickInv
<1> QED BY <1>1, <1>2, <1>3, <1>4, <1>5 DEF IInv

\* The number of counted socks and used do not change when neither does.
LEMMA CountKept ==
    ASSUME CountInv, used' = used, \A i \in Slots : CountedIn(i)' = CountedIn(i)
    PROVE  CountInv'
BY DEF CountInv

\* udp_set_sport() up to the load of best->used keeps the invariant: the port that it
\* has chosen is unused.
LEMMA ChooseKeeps ==
    ASSUME plain', IInv, TypeOK', NEW s \in Socks, Choose(s)
    PROVE  IInv'
<1>1. Quiet BY DEF Choose
<1>2. best_slot \in Slots BY DEF IInv, TypeOK
<1> DEFINE p == udp_get_best_port(best_slot)
<1>3. p \in PortsOf(best_slot) BY <1>2, BestPort DEF Choose
<1>4. \A t \in Socks : st[t] \in {"bound", "loaded", "unset"} => sport[t] # p
  BY <1>1, <1>2, FreshPort DEF Choose
<1>5. /\ st[s] = "new" /\ st' = [st EXCEPT ![s] = "choosing"]
      /\ pick' = [sock |-> s, port |-> p, slot |-> best_slot,
                  used |-> used[best_slot], slow |-> FALSE]
      /\ UNCHANGED <<sport, hash, loaded, used>>
  BY DEF Choose
<1> HIDE DEF p
<1>6. st \in [Socks -> Locations] BY DEF IInv, TypeOK
<1>7. Serial' BY <1>1, <1>5, <1>6 DEF Serial, Busy, Quiet
<1>8. RangeInv' BY <1>5, <1>6 DEF IInv, RangeInv
<1>9. CountInv'
  <2>1. \A i \in Slots : CountedIn(i)' = CountedIn(i) BY <1>5, <1>6 DEF CountedIn
  <2> QED BY <1>5, <2>1, CountKept DEF IInv
<1>10. PickInv' BY <1>3, <1>4, <1>5, <1>6 DEF PickInv, PortsOf
<1> QED BY <1>7, <1>8, <1>9, <1>10 DEF IInv

\* The rest of udp_set_sport() keeps the invariant: the sock takes the unused port and
\* is counted in the slot that holds it.
LEMMA CommitKeeps ==
    ASSUME IInv, TypeOK', NEW s \in Socks, Commit(s)
    PROVE  IInv'
<1>1. pick.sock = s /\ pick # NoPick /\ pick' = NoPick
  BY SocksAssumption DEF Commit, NoPick
<1>2. /\ st \in [Socks -> Locations] /\ st[s] = "choosing" /\ used \in [Slots -> Int]
      /\ sport \in [Socks -> Ports] /\ hash \in [Socks -> Slots] /\ pick.slot \in Slots
  BY <1>1 DEF IInv, TypeOK, Picks
<1>3. /\ pick.port \in PortsOf(pick.slot) /\ pick.used = used[pick.slot]
      /\ \A t \in Socks : st[t] \in {"bound", "loaded", "unset"} => sport[t] # pick.port
  BY <1>1 DEF IInv, PickInv
<1>4. pick.port % H = pick.slot /\ pick.port \in PortMin..(PortMax - 1)
  BY <1>2, <1>3, RangePort
<1>5. /\ st' = [st EXCEPT ![s] = "bound"] /\ sport' = [sport EXCEPT ![s] = pick.port]
      /\ hash' = [hash EXCEPT ![s] = pick.slot] /\ loaded' = loaded
      /\ used' = [used EXCEPT ![pick.slot] = used[pick.slot] + 1]
  BY <1>3, <1>4 DEF Commit, udp_hash
<1>6. Serial'
  <2>1. Busy = {} BY <1>1 DEF IInv, Serial
  <2>2. Busy' = {} BY <1>2, <1>5, <2>1 DEF Busy
  <2> QED BY <1>1, <2>2 DEF Serial, Busy
<1>7. RangeInv' BY <1>2, <1>3, <1>4, <1>5 DEF IInv, RangeInv
<1>8. CountInv'
  <2>1. PICK b \in Slots : b = pick.slot BY <1>2
  <2>2. \A i \in Slots \ {b} : CountedIn(i)' = CountedIn(i)
    BY <1>2, <1>5, <2>1 DEF CountedIn
  <2>3. CountedIn(b)' = CountedIn(b) \cup {s} /\ s \notin CountedIn(b)
    BY <1>2, <1>5, <2>1 DEF CountedIn
  <2>4. Cardinality(CountedIn(b)') = Cardinality(CountedIn(b)) + 1
    BY <2>3, CountChange
  <2> SUFFICES ASSUME NEW i \in Slots PROVE used'[i] = Cardinality(CountedIn(i)')
    BY DEF CountInv
  <2>5. CASE i = b BY <1>2, <1>5, <2>1, <2>4, <2>5 DEF IInv, CountInv
  <2>6. CASE i # b BY <1>2, <1>5, <2>1, <2>2, <2>6 DEF IInv, CountInv
  <2> QED BY <2>5, <2>6
<1>9. PickInv' BY <1>1 DEF PickInv
<1> QED BY <1>6, <1>7, <1>8, <1>9 DEF IInv

\* The load of slot->used in udp_unset_sport() keeps the invariant: no thread changes
\* the counter before it is stored.
LEMMA CloseKeeps ==
    ASSUME plain', IInv, TypeOK', NEW s \in Socks, Close(s)
    PROVE  IInv'
<1>1. Quiet /\ st[s] = "bound" BY DEF Close
<1>2. /\ st' = [st EXCEPT ![s] = "loaded"] /\ loaded' = [loaded EXCEPT ![s] = used[hash[s]]]
      /\ UNCHANGED <<sport, hash, used, pick>>
  BY DEF Close
<1>3. /\ st \in [Socks -> Locations] /\ loaded \in [Socks -> Int]
  BY DEF IInv, TypeOK
<1>4. Serial' BY <1>1, <1>2, <1>3 DEF Serial, Busy, Quiet
<1>5. RangeInv' BY <1>1, <1>2, <1>3 DEF IInv, RangeInv
<1>6. CountInv'
  <2>1. \A i \in Slots : CountedIn(i)' = CountedIn(i) BY <1>1, <1>2, <1>3 DEF CountedIn
  <2> QED BY <1>2, <2>1, CountKept DEF IInv
<1>7. PickInv' BY <1>1, <1>2 DEF PickInv, Quiet
<1> QED BY <1>4, <1>5, <1>6, <1>7 DEF IInv

\* The store of slot->used-- keeps the invariant: the sock leaves the count.
LEMMA UnsetKeeps ==
    ASSUME IInv, TypeOK', NEW s \in Socks, udp_unset_sport(s)
    PROVE  IInv'
<1>1. /\ st \in [Socks -> Locations] /\ st[s] = "loaded" /\ used \in [Slots -> Int]
      /\ hash \in [Socks -> Slots] /\ loaded \in [Socks -> Int]
  BY DEF IInv, TypeOK, udp_unset_sport
<1>2. loaded[s] = used[hash[s]] /\ pick = NoPick BY <1>1 DEF IInv, Serial, Busy
<1>3. /\ st' = [st EXCEPT ![s] = "unset"] /\ loaded' = [loaded EXCEPT ![s] = 0]
      /\ used' = [used EXCEPT ![hash[s]] = used[hash[s]] - 1]
      /\ UNCHANGED <<sport, hash, pick>>
  BY <1>2 DEF udp_unset_sport
<1>4. Serial'
  <2>1. Busy' = Busy BY <1>1, <1>3 DEF Busy
  <2>2. \A t \in Socks : t # s => st[t] # "loaded" BY <1>1 DEF IInv, Serial, Busy
  <2> QED BY <1>1, <1>2, <1>3, <2>1, <2>2 DEF IInv, Serial
<1>5. RangeInv' BY <1>1, <1>3 DEF IInv, RangeInv
<1>6. CountInv'
  <2>1. \A i \in Slots \ {hash[s]} : CountedIn(i)' = CountedIn(i)
    BY <1>1, <1>3 DEF CountedIn
  <2>2. CountedIn(hash[s])' = CountedIn(hash[s]) \ {s} /\ s \in CountedIn(hash[s])
    BY <1>1, <1>3 DEF CountedIn
  <2>3. Cardinality(CountedIn(hash[s])') = Cardinality(CountedIn(hash[s])) - 1
    BY <1>1, <2>2, CountChange
  <2> SUFFICES ASSUME NEW i \in Slots PROVE used'[i] = Cardinality(CountedIn(i)')
    BY DEF CountInv
  <2>4. CASE i = hash[s] BY <1>1, <1>3, <2>3, <2>4 DEF IInv, CountInv
  <2>5. CASE i # hash[s] BY <1>1, <1>3, <2>1, <2>5 DEF IInv, CountInv
  <2> QED BY <2>4, <2>5
<1>7. PickInv' BY <1>2, <1>3 DEF PickInv
<1> QED BY <1>4, <1>5, <1>6, <1>7 DEF IInv

\* Every step of a run that stays plain keeps the invariant.
LEMMA IStep ==
    ASSUME plain', IInv, [Next]_vars
    PROVE  IInv'
<1>0. TypeOK /\ TypeOK' BY TypeStep DEF IInv
<1>1. CASE UNCHANGED vars
  BY <1>0, <1>1 DEF vars, IInv, Serial, RangeInv, CountInv, PickInv, Busy, CountedIn
<1>2. ASSUME NEW s \in Socks, udp_alloc_sock(s) PROVE IInv'
  <2>1. /\ st \in [Socks -> Locations] /\ st[s] = "none" /\ st' = [st EXCEPT ![s] = "new"]
        /\ UNCHANGED <<sport, hash, loaded, used, pick>>
    BY <1>0, <1>2 DEF TypeOK, udp_alloc_sock
  <2>2. Busy' = Busy /\ \A i \in Slots : CountedIn(i)' = CountedIn(i)
    BY <2>1 DEF Busy, CountedIn
  <2>3. CountInv' BY <2>1, <2>2, CountKept DEF IInv
  <2>4. Serial' BY <2>1, <2>2 DEF IInv, Serial
  <2>5. RangeInv' BY <2>1 DEF IInv, RangeInv
  <2>6. PickInv' BY <2>1 DEF IInv, PickInv
  <2> QED BY <1>0, <2>3, <2>4, <2>5, <2>6 DEF IInv
<1>3. ASSUME NEW s \in Socks, ChooseSlow(s) PROVE FALSE
  BY <1>3 DEF ChooseSlow
<1>4. ASSUME NEW s \in Socks, sock_del_hash(s) PROVE IInv'
  <2>1. /\ st \in [Socks -> Locations] /\ st[s] = "unset" /\ st' = [st EXCEPT ![s] = "none"]
        /\ hash \in [Socks -> Slots] /\ sport \in [Socks -> Ports]
        /\ sport' = [sport EXCEPT ![s] = 0] /\ hash' = [hash EXCEPT ![s] = 0]
        /\ UNCHANGED <<loaded, used, pick>>
    BY <1>0, <1>4 DEF TypeOK, sock_del_hash
  <2>2. Busy = {s} /\ pick = NoPick BY <2>1 DEF IInv, Serial, Busy
  <2>3. Busy' = {} BY <2>1, <2>2 DEF Busy
  <2>4. \A i \in Slots : CountedIn(i)' = CountedIn(i) BY <2>1 DEF CountedIn
  <2>5. CountInv' BY <2>1, <2>4, CountKept DEF IInv
  <2>6. Serial' BY <2>3 DEF Serial, Busy
  <2>7. RangeInv' BY <2>1 DEF IInv, RangeInv
  <2>8. PickInv' BY <2>1, <2>2 DEF PickInv
  <2> QED BY <1>0, <2>5, <2>6, <2>7, <2>8 DEF IInv
<1>5. ASSUME NEW s \in Socks, NEW p \in Explicit, Bind(s, p) PROVE FALSE
  BY <1>5 DEF Bind
<1> QED
  BY <1>0, <1>1, <1>2, <1>3, <1>4, <1>5, ChooseKeeps, CommitKeeps, CloseKeeps, UnsetKeeps
  DEF Next

\* The history only ever leaves the plain runs.
LEMMA PlainStep ==
    ASSUME [Next]_vars, plain' PROVE plain
BY DEF Next, udp_alloc_sock, Bind, Choose, ChooseSlow, Commit, Close, udp_unset_sport,
       sock_del_hash, vars

\* The invariant holds in every state that a plain run reaches.
LEMMA PlainInvariant == Spec => []PlainInv
<1>1. Init => PlainInv BY IInit DEF PlainInv
<1>2. PlainInv /\ [Next]_vars => PlainInv' BY IStep, PlainStep DEF PlainInv
<1> QED BY <1>1, <1>2, PTL DEF Spec

\* While the stack chooses the ports and no bind or close overlaps another, no port
\* belongs to two sockets of the table.
THEOREM ChosenPortsAreUnique == Spec => []PortsUnique
<1>1. PlainInv => PortsUnique BY DEF PlainInv, IInv, RangeInv, PortsUnique, Linked
<1> QED BY <1>1, PlainInvariant, PTL

\* For the same runs slot->used is the length of the slot's chain whenever no bind or
\* close is under way, so that skipping the search of an empty slot is right.
THEOREM UsedIsExact == Spec => []UsedCounts
<1>1. PlainInv => UsedCounts
  <2> SUFFICES ASSUME IInv, Quiet, NEW i \in Slots
               PROVE  used[i] = Cardinality({s \in Linked : hash[s] = i})
    BY DEF UsedCounts, PlainInv
  <2>1. \A s \in Socks : st[s] = "bound" => sport[s] # 0
    BY PortsAssumption DEF IInv, RangeInv
  <2>2. {s \in Linked : hash[s] = i} = CountedIn(i)
    BY <2>1 DEF Linked, CountedIn, Quiet
  <2> QED BY <2>2 DEF IInv, CountInv
<1> QED BY <1>1, PlainInvariant, PTL

\* A plain run needs the slow path only when a slot is full: with as many ports in a
\* slot as there are sockets, udp_get_best_port() always finds a port.
THEOREM SlowPathIsForFullSlots ==
    ASSUME Roomy
    PROVE  Spec => [](plain => \A s \in Socks : st[s] = "new" =>
                                    udp_get_best_port(best_slot) # 0)
<1>1. PlainInv => (plain => \A s \in Socks : st[s] = "new" => udp_get_best_port(best_slot) # 0)
  BY NeverSlow DEF PlainInv
<1> QED BY <1>1, PlainInvariant, PTL
=============================================================================
