------------------------------ MODULE UdpPorts ------------------------------
(***************************************************************************)
(* The port table of UDP (udp/udp_sock.c): which socket owns which port.   *)
(* udp_set_sport() runs under the table's mutex; it checks a port that the *)
(* program names, or chooses one from the slot that is thought to be least *)
(* used.  udp_unhash(), called by sock_close(), takes no lock.             *)
(*                                                                         *)
(* Ports are kept in host order.  The counter slot->used is loaded and     *)
(* stored in separate steps, so that a close can fall between them.        *)
(***************************************************************************)
EXTENDS Integers, FiniteSets

CONSTANTS
    Socks,          \* UDP socks
    None,           \* no sock
    H,              \* UDP_HASH_SIZE
    PortMin,        \* UDP_PORT_MIN, also BEST_PORT_MIN
    PortMax,        \* UDP_PORT_MAX, not a port of the range
    Base,           \* values of a byte: a port is a pair of bytes
    BestUpdate,     \* UDP_BEST_UPDATE
    Explicit,       \* ports that programs name in _bind()
    MaxDrift        \* bound on how far slot->used leaves 0..Cardinality(Socks)

ASSUME SocksAssumption == IsFiniteSet(Socks) /\ None \notin Socks
ASSUME PortsAssumption ==
    /\ H \in Nat \ {0} /\ PortMin \in Nat \ {0} /\ PortMax \in Nat /\ Base \in Nat \ {0}
    /\ PortMin % H = 0 /\ PortMin + H <= PortMax /\ PortMax <= Base * Base
ASSUME UsageAssumption ==
    /\ Explicit \subseteq 1..(Base * Base - 1) /\ BestUpdate \in Nat
    /\ MaxDrift \in Nat

VARIABLES
    st,             \* what each sock is doing
    sport, hash,    \* sk_sport and sk->hash
    loaded,         \* slot->used as its closer has read it
    used,           \* slot[i].used
    best_slot, best_update,
    pick,           \* the choice of the thread that holds the mutex
    plain           \* history: so far the stack chose every port without the slow
                    \* path, only bound sockets were closed, and one thread at a
                    \* time was in udp_set_sport() or udp_unhash()

vars == <<st, sport, hash, loaded, used, best_slot, best_update, pick, plain>>

Slots == 0..(H - 1)
Ports == 0..(Base * Base - 1)
Locations == {"none", "new", "choosing", "bound", "loaded", "unset"}

NoPick == [sock |-> None, port |-> 0, slot |-> 0, used |-> 0, slow |-> FALSE]

Init ==
    /\ st = [s \in Socks |-> "none"]
    /\ sport = [s \in Socks |-> 0] /\ hash = [s \in Socks |-> 0]
    /\ loaded = [s \in Socks |-> 0]
    /\ used = [i \in Slots |-> 0]
    /\ best_slot = 0 /\ best_update = BestUpdate
    /\ pick = NoPick /\ plain = TRUE

-----------------------------------------------------------------------------
\* _htons() and _ntohs(): exchange the bytes
Swapped(p) == (p % Base) * Base + p \div Base

\* The socks in the table
Linked == {s \in Socks : st[s] \in {"bound", "loaded", "unset"} /\ sport[s] # 0}

\* The chain of the port's slot holds a sock with this port
port_used(p) == \E s \in Linked : hash[s] = p % H /\ sport[s] = p

\* The ports that udp_get_best_port() tries in slot i
PortsOf(i) == {p \in PortMin..(PortMax - 1) : p % H = i}

udp_get_best_port_unsearched(i) ==
    IF Cardinality(PortsOf(i)) > used[i] THEN PortMin + i ELSE 0
\* udp_get_best_port() in slot i; an empty slot is not searched
udp_get_best_port(i) ==
    LET free == {p \in PortsOf(i) : ~port_used(p)}
    IN  IF used[i] = 0 THEN PortMin + i
        ELSE IF free = {} THEN 0
        ELSE CHOOSE p \in free : \A q \in free : p <= q

udp_update_best(h, u, b) == IF u[h] < u[b] THEN h ELSE b

\* The scan of udp_get_port_slow(): the first of the least used slots
Least(i) == \A j \in Slots : used[i] < used[j] \/ (used[i] = used[j] /\ i <= j)

\* The scan of udp_get_port(): the first slot used less than slot b
Better(u, b) ==
    LET less == {i \in Slots : u[i] < u[b]}
    IN  IF less = {} THEN b ELSE CHOOSE i \in less : \A j \in less : i <= j

-----------------------------------------------------------------------------
\* No thread is in udp_set_sport() or udp_unhash()
Quiet == pick = NoPick /\ \A s \in Socks : st[s] \notin {"loaded", "unset"}

Bounded(i) == used[i] < Cardinality(Socks) + MaxDrift

\* udp_alloc_sock(): a zeroed sock
udp_alloc_sock(s) ==
    /\ st[s] = "none"
    /\ st' = [st EXCEPT ![s] = "new"]
    /\ UNCHANGED <<sport, hash, loaded, used, best_slot, best_update, pick, plain>>

udp_hash_in_best(s, p) ==
    /\ st' = [st EXCEPT ![s] = "bound"]
    /\ sport' = [sport EXCEPT ![s] = p]
    /\ hash' = [hash EXCEPT ![s] = best_slot]
\* The end of udp_set_sport(): the sock gets the port and its slot
udp_hash(s, p) ==
    /\ st' = [st EXCEPT ![s] = "bound"]
    /\ sport' = [sport EXCEPT ![s] = p]
    /\ hash' = [hash EXCEPT ![s] = p % H]

\* udp_set_sport() with a port: it is not counted in used
Bind(s, p) ==
    /\ st[s] = "new" /\ pick = NoPick
    /\ ~port_used(p)
    /\ best_slot' = udp_update_best(p % H, used, best_slot)
    /\ udp_hash(s, p)
    /\ plain' = FALSE
    /\ UNCHANGED <<loaded, used, best_update, pick>>

\* udp_set_sport() without one, up to the load of best->used
Choose(s) ==
    /\ st[s] = "new" /\ pick = NoPick
    /\ udp_get_best_port(best_slot) # 0 /\ Bounded(best_slot)
    /\ st' = [st EXCEPT ![s] = "choosing"]
    /\ pick' = [sock |-> s, port |-> udp_get_best_port(best_slot), slot |-> best_slot,
                used |-> used[best_slot], slow |-> FALSE]
    /\ plain' = (plain /\ Quiet)
    /\ UNCHANGED <<sport, hash, loaded, used, best_slot, best_update>>

\* udp_get_port_slow(), up to the same load; the port stays in host order
ChooseSlow(s) ==
    /\ st[s] = "new" /\ pick = NoPick
    /\ udp_get_best_port(best_slot) = 0
    /\ \E i \in Slots :
          /\ Least(i) /\ used[i] < used[best_slot] /\ Bounded(i)
          /\ best_slot' = i /\ best_update' = BestUpdate
          /\ LET p == udp_get_best_port(i)
             IN  IF p = 0 THEN UNCHANGED <<st, pick>>
                 ELSE /\ st' = [st EXCEPT ![s] = "choosing"]
                      /\ pick' = [sock |-> s, port |-> Swapped(p), slot |-> i,
                                  used |-> used[i], slow |-> TRUE]
    /\ plain' = FALSE
    /\ UNCHANGED <<sport, hash, loaded, used>>

NextUpdate(scan) == IF scan THEN BestUpdate ELSE best_update - 1

\* best->used++ and the rest of udp_set_sport()
Commit(s) ==
    /\ pick.sock = s
    /\ LET u == [used EXCEPT ![pick.slot] = pick.used + 1]
           scan == ~pick.slow /\ best_update - 1 <= 0
           b == IF scan THEN Better(u, pick.slot) ELSE best_slot
       IN  /\ used' = u
           /\ best_update' = IF pick.slow THEN best_update ELSE NextUpdate(scan)
           /\ best_slot' = udp_update_best(pick.port % H, u, b)
    /\ udp_hash(s, pick.port)
    /\ pick' = NoPick
    /\ UNCHANGED <<loaded, plain>>

\* sock_close(): udp_unset_sport() loads slot->used, bound or not
Close(s) ==
    /\ st[s] \in {"new", "bound"}
    /\ used[hash[s]] > -MaxDrift
    /\ st' = [st EXCEPT ![s] = "loaded"]
    /\ loaded' = [loaded EXCEPT ![s] = used[hash[s]]]
    /\ plain' = (plain /\ Quiet /\ st[s] = "bound")
    /\ UNCHANGED <<sport, hash, used, best_slot, best_update, pick>>

udp_unset_sport_uncounted(s) ==
    /\ st[s] = "loaded"
    /\ st' = [st EXCEPT ![s] = "unset"]
    /\ best_slot' = udp_update_best(hash[s], used, best_slot)
    /\ loaded' = [loaded EXCEPT ![s] = 0]
    /\ UNCHANGED <<sport, hash, used, best_update, pick, plain>>
\* The store of slot->used--, then udp_update_best()
udp_unset_sport(s) ==
    /\ st[s] = "loaded"
    /\ st' = [st EXCEPT ![s] = "unset"]
    /\ used' = [used EXCEPT ![hash[s]] = loaded[s] - 1]
    /\ best_slot' = udp_update_best(hash[s], used', best_slot)
    /\ loaded' = [loaded EXCEPT ![s] = 0]
    /\ UNCHANGED <<sport, hash, best_update, pick, plain>>

\* sock_del_hash(); the memory is freed
sock_del_hash(s) ==
    /\ st[s] = "unset"
    /\ st' = [st EXCEPT ![s] = "none"]
    /\ sport' = [sport EXCEPT ![s] = 0] /\ hash' = [hash EXCEPT ![s] = 0]
    /\ UNCHANGED <<loaded, used, best_slot, best_update, pick, plain>>

Next ==
    \E s \in Socks :
        \/ udp_alloc_sock(s)
        \/ \E p \in Explicit : Bind(s, p)
        \/ Choose(s)
        \/ ChooseSlow(s)
        \/ Commit(s)
        \/ Close(s)
        \/ udp_unset_sport(s)
        \/ sock_del_hash(s)

Spec == Init /\ [][Next]_vars

-----------------------------------------------------------------------------
Picks == [sock : Socks \cup {None}, port : Ports, slot : Slots, used : Int, slow : BOOLEAN]

\* Type invariant: the table and the socks hold values of their types, and the
\* mutex of udp_set_sport() has one holder, the sock that is choosing a port.
TypeOK ==
    /\ st \in [Socks -> Locations]
    /\ sport \in [Socks -> Ports] /\ hash \in [Socks -> Slots]
    /\ loaded \in [Socks -> Int] /\ used \in [Slots -> Int]
    /\ best_slot \in Slots /\ best_update \in 0..BestUpdate
    /\ pick \in Picks /\ plain \in BOOLEAN
    /\ \A s \in Socks : st[s] = "choosing" <=> pick.sock = s

\* udp_lookup_sock() finds every sock of the table: the slot that udp_set_sport()
\* and udp_get_port_slow() leave in sk->hash is the one the lookup searches.
LookupReaches == \A s \in Linked : hash[s] = sport[s] % H /\ port_used(sport[s])

\* No port belongs to two sockets, until a program names a port, closes an unbound
\* socket or closes while another thread binds, or a slot is full.
PortsUnique == plain => \A s, t \in Linked : sport[s] = sport[t] => s = t

\* As long, slot->used, on which udp_get_best_port() relies when it leaves a slot
\* unsearched, is the length of the chain whenever no thread is between load and store.
UsedCounts ==
    plain /\ Quiet => \A i \in Slots : used[i] = Cardinality({s \in Linked : hash[s] = i})

-----------------------------------------------------------------------------
(* What the comments and the documentation say of every program.           *)

\* "Can one port be bound to two different sockets? NO" (doc/FAQ).
OneSocketPerPort == \A s, t \in Linked : sport[s] = sport[t] => s = t

\* "return net order port" and "default prot range [UDP_PORT_MIN, UDP_PORT_MAX)": a port
\* that udp_get_port() chooses lies in the range.
ChosenInRange == pick # NoPick => pick.port \in PortMin..(PortMax - 1)

\* "Assert that we can get one valid port!" (udp_get_port_slow): the slot that the
\* scan has selected has a port to give.
SlowFindsPort ==
    [][\A s \in Socks : ChooseSlow(s) => pick' # NoPick]_vars

\* "Not found, table is full" (udp_get_port_slow): a search that gives up means that
\* every port of the range is in use.
GivesUpOnlyWhenFull ==
    udp_get_best_port(best_slot) = 0 /\ (\A i \in Slots : used[i] >= used[best_slot])
        => \A p \in PortMin..(PortMax - 1) : port_used(p)
=============================================================================
