--------------------------- MODULE PkbPathProofs ---------------------------
(***************************************************************************)
(* Proofs about the packet buffers (module PkbPath), for every number of   *)
(* buffers, every set of packets that arrive and every depth of the call   *)
(* stack: pk_refcnt counts the holders of a buffer, a buffer on a list is  *)
(* left alone, and every handler finds the byte order it expects.          *)
(*                                                                         *)
(* pk_refcnt alone does not show that a handler works on its own buffer:   *)
(* the invariant says that of two calls with one buffer the outer one only *)
(* frees it (OneUser), that icmp_send() borrows from the call right below  *)
(* it (Borrowed), that no handler works on a buffer that is on a list      *)
(* (Good), and that the report that ip_timer() sends does not come back to *)
(* the fragments that it is about to delete (Reports).                     *)
(***************************************************************************)
EXTENDS PkbPath, TLAPS

-----------------------------------------------------------------------------
(* The inductive invariant.                                                *)

HostCalls == {"ip_recv_route", "ip_recv_local", "raw_in", "icmp_in", "udp_in", "tcp_in"}
NetCalls == {"net_in", "arp_in", "ip_in", "ip_forward", "forward_dev", "tcp_send_out",
             "ip_send_out", "ip_send_frag", "send_last_frag", "ip_send_dev", "netdev_tx"}
Working == HostCalls \cup NetCalls

\* A call that works on a buffer finds it in its byte order, on no list
Good(f) ==
    /\ f.at \in HostCalls => heap[f.p].order = "host"
    /\ f.at \in NetCalls => heap[f.p].order = "net"
    /\ f.at \in Working => ~heap[f.p].lost /\ \A l \in Lists : f.p \notin lists[l]
    /\ f.at \in {"icmp_send", "delete_frag"} => \A l \in Lists \ {"frag"} : f.p \notin lists[l]
    /\ f.at = "delete_frag" => f.p \in lists["frag"]

FramesGood == \A i \in DOMAIN stack : Good(stack[i])

\* Of two calls with one buffer the lower one only frees it, or has lent it to icmp_send()
Alone(s) ==
    \A i, j \in DOMAIN s : i < j /\ s[i].p = s[j].p =>
        s[j].at = "free_pkb" \/ s[i].at = "icmp_send"
Lent(s) ==
    \A i \in DOMAIN s : s[i].at = "icmp_send" =>
        /\ i = 1 /\ 2 \in DOMAIN s /\ s[2].p = s[1].p
        /\ s[2].at \in {"free_pkb", "forward_dev", "delete_frag"}

OneUser == Alone(stack)
Borrowed == Lent(stack)

\* The calls that may be on the stack of ip_timer(): those of an ICMP error on its way
\* out, or in by the loopback device, and of the ARP request it may cause
Says(at, d) ==
    \/ at \in {"free_pkb", "icmp_send", "delete_frag"}
    \/ at = "netdev_tx" /\ d.rt = "none"
    \/ /\ d.kind = "icmp error" /\ d.frag = "whole"
       /\ at \in {"ip_send_out", "ip_send_dev", "netdev_tx", "net_in", "ip_in",
                  "ip_recv_route", "ip_recv_local", "raw_in", "icmp_in"}
       /\ at = "ip_send_out" => d.rt = "none"
       /\ at \in {"ip_send_dev", "netdev_tx"} /\ d.rt = "lo" => d.to = "me"
       /\ at \in {"net_in", "ip_in", "ip_recv_route", "ip_recv_local"} => d.to = "me"
Report(f) == Says(f.at, heap[f.p])

Reports ==
    \A i \in DOMAIN stack : stack[i].at = "delete_frag" =>
        i = Len(stack) /\ \A k \in DOMAIN stack : Report(stack[k])

\* A buffer is on one list, not forgotten, and in network order if it waits for ARP
Waits ==
    \A l \in Lists : \A p \in lists[l] :
        /\ ~heap[p].lost /\ \A m \in Lists : p \in lists[m] => m = l
        /\ l = "arp" => heap[p].order = "net"

IInv == RefsMatchOwners /\ FramesGood /\ OneUser /\ Borrowed /\ Reports /\ Waits

-----------------------------------------------------------------------------
(* Facts of the library about finite sets.  The lemmas below assume the    *)
(* ones that they use (Sizes); the library comes in once they are proved.  *)

SizeEmpty == /\ IsFiniteSet({}) /\ Cardinality({}) = 0
             /\ \A S : IsFiniteSet(S) => (Cardinality(S) = 0 <=> S = {})
SizeOne == \A x : IsFiniteSet({x}) /\ Cardinality({x}) = 1
SizeNat == \A S : IsFiniteSet(S) => Cardinality(S) \in Nat
SizeAdd == \A S, x : IsFiniteSet(S) =>
               /\ IsFiniteSet(S \cup {x})
               /\ x \notin S => Cardinality(S \cup {x}) = Cardinality(S) + 1
SizePart == \A S : \A T \in SUBSET S : IsFiniteSet(S) => IsFiniteSet(T)
SizeUnion == \A S, T : IsFiniteSet(S) /\ IsFiniteSet(T) =>
                 Cardinality(S \cup T) = Cardinality(S) + Cardinality(T) - Cardinality(S \cap T)
SizeRange == \A a, b \in Int : IsFiniteSet(a..b)
SizeSame == \A S, T : IsFiniteSet(S) /\ ExistsBijection(S, T) =>
                IsFiniteSet(T) /\ Cardinality(T) = Cardinality(S)
Sizes == /\ SizeEmpty /\ SizeOne /\ SizeNat /\ SizeAdd
         /\ SizePart /\ SizeUnion /\ SizeRange /\ SizeSame

-----------------------------------------------------------------------------
(* Counting the holders of a buffer.                                       *)

Own(f, p) == f.p = p /\ f.at \in Owning
Bit(b) == IF b THEN 1 ELSE 0
Forgot(b) == IF b.lost THEN 1 ELSE 0
Count(s, p) == Cardinality({i \in DOMAIN s : Own(s[i], p)})
Listed(p) == Cardinality({l \in Lists : p \in lists[l]})

\* The calls that own a buffer are finitely many.
LEMMA CountFinite ==
    ASSUME Sizes, NEW s \in Seq(Frame), NEW p
    PROVE  IsFiniteSet({i \in DOMAIN s : Own(s[i], p)}) /\ Count(s, p) \in Nat
<1>1. DOMAIN s = 1..Len(s) /\ Len(s) \in Int /\ 1 \in Int
    OBVIOUS
<1>2. IsFiniteSet(1..Len(s))
    BY <1>1, Zenon DEF Sizes, SizeRange
<1>3. {i \in DOMAIN s : Own(s[i], p)} \in SUBSET (1..Len(s))
    BY <1>1, Zenon
<1>4. IsFiniteSet({i \in DOMAIN s : Own(s[i], p)})
    BY <1>2, <1>3, Zenon DEF Sizes, SizePart
<1> QED BY <1>4, Zenon DEF Sizes, SizeNat, Count

\* The owners among calls put on top of others are those of both.
LEMMA CountConcat ==
    ASSUME Sizes, NEW s \in Seq(Frame), NEW t \in Seq(Frame), NEW p
    PROVE  Count(s \o t, p) = Count(s, p) + Count(t, p)
<1> DEFINE n == Len(s)
           m == Len(t)
           A == {i \in DOMAIN s : Own(s[i], p)}
           B == {i \in DOMAIN t : Own(t[i], p)}
           C == {i \in DOMAIN (s \o t) : Own((s \o t)[i], p)}
           D == {i \in C : i > n}
           f == [i \in B |-> i + n]
<1>1. n \in Nat /\ m \in Nat /\ DOMAIN s = 1..n /\ DOMAIN t = 1..m
    OBVIOUS
<1>2. /\ DOMAIN (s \o t) = 1..(n + m) /\ \A i \in 1..n : (s \o t)[i] = s[i]
      /\ \A i \in 1..m : (s \o t)[i + n] = t[i]
    OBVIOUS
<1> HIDE DEF n, m
<1>3. A \subseteq 1..n /\ B \subseteq 1..m /\ D \subseteq (n + 1)..(n + m)
    BY <1>1, <1>2
<1>4. C = A \cup D /\ A \cap D = {}
    BY <1>1, <1>2
<1>5. \A i \in B : i + n \in D
    BY <1>1, <1>2
<1>6. \A d \in D : d - n \in B /\ (d - n) + n = d
    BY <1>1, <1>2
<1>7. IsFiniteSet(A) /\ IsFiniteSet(B) /\ Cardinality(A) \in Nat /\ Cardinality(B) \in Nat
    BY CountFinite, Zenon DEF Sizes, SizeNat, Count
<1> HIDE DEF A, B, C, D
<1>8. f \in Bijection(B, D)
  <2>1. f \in [B -> D]
      BY <1>5, Zenon
  <2>2. \A i, j \in B : f[i] = f[j] => i = j
      BY <1>1, <1>3
  <2>3. \A d \in D : \E i \in B : f[i] = d
      BY <1>6, Zenon
  <2> QED BY <2>1, <2>2, <2>3, Zenon DEF Bijection, Injection, Surjection, IsInjective
<1>9. IsFiniteSet(D) /\ Cardinality(D) = Cardinality(B)
    BY <1>7, <1>8, Zenon DEF Sizes, SizeSame, ExistsBijection
<1>10. Cardinality(A \cup D) = Cardinality(A) + Cardinality(D) - Cardinality(A \cap D)
    BY <1>7, <1>9, Zenon DEF Sizes, SizeUnion
<1>11. Cardinality(C) = Cardinality(A) + Cardinality(B)
  <2>1. Cardinality({}) = 0
      BY Zenon DEF Sizes, SizeEmpty
  <2>2. Cardinality(C) = Cardinality(A) + Cardinality(B) - 0
      BY <2>1, <1>4, <1>9, <1>10, Zenon
  <2> QED BY <2>2, <1>7
<1> QED BY <1>11, Zenon DEF A, B, C, Count

\* No call owns nothing.
LEMMA CountNone ==
    ASSUME Sizes
    PROVE  \A p : Count(<<>>, p) = 0
<1> TAKE p
<1>1. {i \in DOMAIN <<>> : Own(<<>>[i], p)} = {}
    OBVIOUS
<1> QED BY <1>1, Zenon DEF Sizes, SizeEmpty, Count

\* One call is an owner or not.
LEMMA CountOne ==
    ASSUME Sizes
    PROVE  \A f \in Frame : \A p : Count(<<f>>, p) = Bit(Own(f, p))
<1> TAKE f \in Frame
<1> TAKE p
<1>1. {i \in DOMAIN <<f>> : Own(<<f>>[i], p)} = IF Own(f, p) THEN {1} ELSE {}
    OBVIOUS
<1> QED BY <1>1, Zenon DEF Sizes, SizeEmpty, SizeOne, Count, Bit

\* The owners among two calls.
LEMMA CountTwo ==
    ASSUME Sizes
    PROVE  \A f, g \in Frame : \A p : Count(<<f, g>>, p) = Bit(Own(f, p)) + Bit(Own(g, p))
<1> TAKE f, g \in Frame
<1> TAKE p
<1>1. <<f>> \in Seq(Frame) /\ <<g>> \in Seq(Frame)
    OBVIOUS
<1>2. /\ DOMAIN (<<f>> \o <<g>>) = 1..2
      /\ (<<f>> \o <<g>>)[1] = f /\ (<<f>> \o <<g>>)[2] = g
    OBVIOUS
<1>3. DOMAIN <<f, g>> = 1..2 /\ <<f, g>>[1] = f /\ <<f, g>>[2] = g
    OBVIOUS
<1>4. Count(<<f>> \o <<g>>, p) = Count(<<f, g>>, p)
  <2>1. \A i \in 1..2 : i = 1 \/ i = 2
      OBVIOUS
  <2>2. {i \in DOMAIN (<<f>> \o <<g>>) : Own((<<f>> \o <<g>>)[i], p)}
            = {i \in DOMAIN <<f, g>> : Own(<<f, g>>[i], p)}
      BY <1>2, <1>3, <2>1, Zenon
  <2> QED BY <2>2, Zenon DEF Count
<1>5. Count(<<f>> \o <<g>>, p) = Count(<<f>>, p) + Count(<<g>>, p)
    BY <1>1, CountConcat, Zenon
<1> QED BY <1>4, <1>5, CountOne, Zenon

\* What is on the stack after a call that replaces itself by others.
LEMMA CallFrames ==
    ASSUME stack \in Seq(Frame), stack # <<>>, NEW frames \in Seq(Frame), Call(frames)
    PROVE  /\ stack' \in Seq(Frame) /\ Head(stack) = stack[1] /\ stack[1] \in Frame
           /\ Len(frames) \in Nat /\ Len(stack) \in Nat /\ Len(stack) >= 1
           /\ DOMAIN stack = 1..Len(stack) /\ DOMAIN frames = 1..Len(frames)
           /\ Len(stack') = Len(frames) + Len(stack) - 1 /\ DOMAIN stack' = 1..Len(stack')
           /\ \A i \in 1..Len(frames) : stack'[i] = frames[i]
           /\ \A i \in (Len(frames) + 1)..Len(stack') :
                  /\ i - Len(frames) + 1 \in 2..Len(stack)
                  /\ stack'[i] = stack[i - Len(frames) + 1]
<1>1. /\ Tail(stack) \in Seq(Frame) /\ Len(stack) \in Nat /\ Len(stack) >= 1
      /\ Len(Tail(stack)) = Len(stack) - 1
      /\ \A i \in 1..(Len(stack) - 1) : Tail(stack)[i] = stack[i + 1]
    OBVIOUS
<1>2. stack' = frames \o Tail(stack)
    BY Zenon DEF Call
<1> QED BY <1>1, <1>2

\* What a call does to the number of calls that own a buffer.
LEMMA CallCount ==
    ASSUME Sizes, stack \in Seq(Frame), stack # <<>>, NEW frames \in Seq(Frame), Call(frames), NEW p
    PROVE  /\ Count(stack', p) + Bit(Own(Head(stack), p)) = Count(frames, p) + Count(stack, p)
           /\ Count(stack, p) \in Nat /\ Count(stack', p) \in Nat /\ Count(frames, p) \in Nat
           /\ Count(stack, p) >= Bit(Own(Head(stack), p))
<1>1. /\ Tail(stack) \in Seq(Frame) /\ Head(stack) \in Frame /\ <<Head(stack)>> \in Seq(Frame)
      /\ <<Head(stack)>> \o Tail(stack) = stack
    OBVIOUS
<1>2. stack' = frames \o Tail(stack) /\ stack' \in Seq(Frame)
    BY CallFrames, Zenon DEF Call
<1>3. Count(stack', p) = Count(frames, p) + Count(Tail(stack), p)
  <2>1. Count(frames \o Tail(stack), p) = Count(frames, p) + Count(Tail(stack), p)
      BY <1>1, CountConcat, ZenonT(30)
  <2> QED BY <2>1, <1>2, Zenon
<1>4. Count(stack, p) = Count(<<Head(stack)>>, p) + Count(Tail(stack), p)
  <2>1. Count(<<Head(stack)>> \o Tail(stack), p)
            = Count(<<Head(stack)>>, p) + Count(Tail(stack), p)
      BY <1>1, CountConcat, Zenon
  <2> QED BY <2>1, <1>1, Zenon
<1>5. Count(<<Head(stack)>>, p) = Bit(Own(Head(stack), p))
    BY <1>1, CountOne, Zenon
<1>6. /\ Count(stack, p) \in Nat /\ Count(stack', p) \in Nat /\ Count(frames, p) \in Nat
      /\ Count(Tail(stack), p) \in Nat
    BY <1>1, <1>2, CountFinite, Zenon
<1> HIDE DEF Count, Own
<1>7. Bit(Own(Head(stack), p)) \in Nat
    BY Zenon DEF Bit
<1> QED BY <1>3, <1>4, <1>5, <1>6, <1>7

\* A buffer that no call owns is in no frame that owns.
LEMMA CountZero ==
    ASSUME Sizes, NEW s \in Seq(Frame), NEW p, Count(s, p) = 0
    PROVE  \A i \in DOMAIN s : ~Own(s[i], p)
<1>1. {i \in DOMAIN s : Own(s[i], p)} = {}
    BY CountFinite, Zenon DEF Sizes, SizeEmpty, Count
<1> QED BY <1>1, Zenon

\* The lists are five.
LEMMA ListsFinite ==
    ASSUME Sizes
    PROVE  IsFiniteSet(Lists)
<1>1. IsFiniteSet({"arp"})
    BY Zenon DEF Sizes, SizeOne
<1>2. IsFiniteSet({"arp"} \cup {"frag"})
    BY <1>1, Zenon DEF Sizes, SizeAdd
<1>3. IsFiniteSet(({"arp"} \cup {"frag"}) \cup {"udp"})
    BY <1>2, Zenon DEF Sizes, SizeAdd
<1>4. IsFiniteSet((({"arp"} \cup {"frag"}) \cup {"udp"}) \cup {"raw"})
    BY <1>3, Zenon DEF Sizes, SizeAdd
<1>5. IsFiniteSet(((({"arp"} \cup {"frag"}) \cup {"udp"}) \cup {"raw"}) \cup {"tcp"})
    BY <1>4, Zenon DEF Sizes, SizeAdd
<1>6. ((({"arp"} \cup {"frag"}) \cup {"udp"}) \cup {"raw"}) \cup {"tcp"} = Lists
    BY Zenon DEF Lists
<1> QED BY <1>5, <1>6, Zenon

\* The number of lists that hold a buffer.
LEMMA HoldersNat ==
    ASSUME Sizes, NEW f, NEW p
    PROVE  /\ Cardinality({l \in Lists : p \in f[l]}) \in Nat
           /\ Cardinality({l \in Lists : p \in f[l]}) = 0 <=> \A l \in Lists : p \notin f[l]
<1> DEFINE S == {l \in Lists : p \in f[l]}
<1>1. IsFiniteSet(S)
  <2>1. S \in SUBSET Lists
      BY Zenon
  <2> QED BY <2>1, ListsFinite, Zenon DEF Sizes, SizePart
<1>2. Cardinality(S) \in Nat /\ (Cardinality(S) = 0 <=> S = {})
    BY <1>1, Zenon DEF Sizes, SizeNat, SizeEmpty
<1> QED BY <1>2, Zenon

\* A buffer is on no list if and only if it is on none of the five.
LEMMA ListedNat ==
    ASSUME Sizes, NEW p
    PROVE  /\ Listed(p) \in Nat /\ Listed(p)' \in Nat
           /\ Listed(p) = 0 <=> \A l \in Lists : p \notin lists[l]
           /\ Listed(p)' = 0 <=> \A l \in Lists : p \notin lists'[l]
BY HoldersNat, Zenon DEF Listed

\* One list changes.
LEMMA ListedChange ==
    ASSUME Sizes, NEW k \in Lists, \A m \in Lists \ {k} : lists'[m] = lists[m], NEW p
    PROVE  /\ Listed(p)' + Bit(p \in lists[k]) = Listed(p) + Bit(p \in lists'[k])
           /\ Listed(p) \in Nat /\ Listed(p)' \in Nat
<1> DEFINE S == {l \in Lists : p \in lists[l]}
           U == {l \in Lists : p \in lists'[l]}
           R == {l \in Lists \ {k} : p \in lists[l]}
<1>1. S \in SUBSET Lists /\ U \in SUBSET Lists /\ R \in SUBSET Lists
    BY Zenon
<1>2. S = (IF p \in lists[k] THEN R \cup {k} ELSE R) /\ k \notin R
    BY Zenon
<1>3. U = (IF p \in lists'[k] THEN R \cup {k} ELSE R)
    BY Zenon
<1>4. Listed(p) = Cardinality(S) /\ Listed(p)' = Cardinality(U)
    BY Zenon DEF Listed
<1> HIDE DEF S, U, R
<1>5. IsFiniteSet(R) /\ Cardinality(R) \in Nat /\ Cardinality(R \cup {k}) = Cardinality(R) + 1
  <2>1. IsFiniteSet(R)
      BY <1>1, ListsFinite, Zenon DEF Sizes, SizePart
  <2> QED BY <2>1, <1>2, Zenon DEF Sizes, SizeNat, SizeAdd
<1>6. Cardinality(S) = Cardinality(R) + Bit(p \in lists[k])
    BY <1>2, <1>5 DEF Bit
<1>7. Cardinality(U) = Cardinality(R) + Bit(p \in lists'[k])
    BY <1>3, <1>5 DEF Bit
<1>8. Bit(p \in lists[k]) \in Nat /\ Bit(p \in lists'[k]) \in Nat
    BY Zenon DEF Bit
<1> QED BY <1>4, <1>5, <1>6, <1>7, <1>8

-----------------------------------------------------------------------------
(* What a step has to show.                                                *)

\* The calls below the one that runs only free p
Loose(p) == \A j \in 2..Len(stack) : stack[j].p = p => stack[j].at = "free_pkb"

\* The calls below come from ip_timer()
Timer == \E j \in 2..Len(stack) : stack[j].at = "delete_frag"

\* The calls that come on top of those of ip_timer() belong to its report
Told(frames) == Timer => \A k \in DOMAIN frames : Report(frames[k])'

\* Nothing that p's holders rely on changes
Kept(p) == heap'[p] = heap[p] /\ \A l \in Lists : p \in lists'[l] <=> p \in lists[l]

\* The calls that are left after a call returned or passed its buffers on are good.
LEMMA StackStep ==
    ASSUME TypeOK, FramesGood, OneUser, Borrowed, Reports, stack # <<>>,
           NEW frames \in Seq(Frame), Call(frames),
           \A p \in Pkbs : Loose(p) \/ Kept(p),
           \A k \in DOMAIN frames : /\ Loose(frames[k].p) /\ Good(frames[k])'
                                    /\ frames[k].at # "delete_frag",
           Alone(frames), Lent(frames), Told(frames)
    PROVE  FramesGood' /\ OneUser' /\ Borrowed' /\ Reports'
<1> DEFINE n == Len(frames)
           N == Len(stack)
           M == Len(stack')
<1>1. /\ stack \in Seq(Frame) /\ stack' \in Seq(Frame) /\ n \in Nat /\ N \in Nat /\ N >= 1
      /\ DOMAIN stack = 1..N /\ DOMAIN frames = 1..n /\ M = n + N - 1 /\ DOMAIN stack' = 1..M
      /\ \A i \in 1..n : stack'[i] = frames[i]
      /\ \A i \in (n + 1)..M : i - n + 1 \in 2..N /\ stack'[i] = stack[i - n + 1]
    BY CallFrames, Zenon DEF TypeOK
<1>2. \A i \in DOMAIN stack' : i \in 1..n \/ i \in (n + 1)..M
    BY <1>1
<1> HIDE DEF n, N, M
\* The calls below are as good as they were
<1>3. ASSUME NEW j \in 2..N, NEW f \in Frame, f = stack[j]
      PROVE  Good(f)' /\ (Report(f) => Report(f)')
  <2>1. j \in DOMAIN stack
      BY <1>1
  <2>2. CASE f.at = "free_pkb"
      BY <2>2, Zenon DEF Good, Report, Says, Working, HostCalls, NetCalls
  <2>3. CASE f.at # "free_pkb"
    <3>1. Kept(f.p)
        BY <1>3, <2>1, <2>3, Zenon DEF Loose, N, Frame
    <3>2. Good(f)
        BY <1>3, <2>1, Zenon DEF FramesGood
    <3>3. "frag" \in Lists
        BY Zenon DEF Lists
    <3> QED BY <3>1, <3>2, <3>3, Zenon DEF Good, Report, Kept
  <2> QED BY <2>2, <2>3, Zenon
<1>4. FramesGood'
  <2> SUFFICES ASSUME NEW i \in DOMAIN stack', NEW f \in Frame, f = stack'[i]
               PROVE  Good(f)'
      BY <1>1 DEF FramesGood
  <2>1. CASE i \in 1..n
      BY <2>1, <1>1, Zenon
  <2>2. CASE i \in (n + 1)..M
      BY <2>2, <1>1, <1>3, Zenon
  <2> QED BY <2>1, <2>2, <1>2, Zenon
<1>5. OneUser'
  <2> SUFFICES ASSUME NEW i \in DOMAIN stack', NEW j \in DOMAIN stack', i < j,
                      stack'[i].p = stack'[j].p
               PROVE  stack'[j].at = "free_pkb" \/ stack'[i].at = "icmp_send"
      BY Zenon DEF OneUser, Alone
  <2>1. CASE i \in 1..n /\ j \in 1..n
      BY <2>1, <1>1, Zenon DEF Alone
  <2>2. CASE i \in 1..n /\ j \in (n + 1)..M
    <3>1. /\ stack'[i] = frames[i] /\ j - n + 1 \in 2..Len(stack)
          /\ stack'[j] = stack[j - n + 1] /\ i \in DOMAIN frames
        BY <2>2, <1>1, Zenon DEF N
    <3> QED BY <3>1, Zenon DEF Loose
  <2>3. CASE i \in (n + 1)..M /\ j \in (n + 1)..M
    <3>1. /\ i - n + 1 \in DOMAIN stack /\ j - n + 1 \in DOMAIN stack /\ i - n + 1 < j - n + 1
          /\ stack'[i] = stack[i - n + 1] /\ stack'[j] = stack[j - n + 1]
        BY <2>3, <1>1
    <3> QED BY <3>1, Zenon DEF OneUser, Alone
  <2> QED BY <2>1, <2>2, <2>3, <1>1, <1>2
<1>6. Borrowed'
  <2> SUFFICES ASSUME NEW i \in DOMAIN stack', stack'[i].at = "icmp_send"
               PROVE  /\ i = 1 /\ 2 \in DOMAIN stack' /\ stack'[2].p = stack'[1].p
                      /\ stack'[2].at \in {"free_pkb", "forward_dev", "delete_frag"}
      BY Zenon DEF Borrowed, Lent
  <2>1. CASE i \in 1..n
      BY <2>1, <1>1 DEF Lent
  <2>2. CASE i \in (n + 1)..M
    <3>1. i - n + 1 \in DOMAIN stack /\ i - n + 1 # 1 /\ stack'[i] = stack[i - n + 1]
        BY <2>2, <1>1
    <3> QED BY <3>1, Zenon DEF Borrowed, Lent
  <2> QED BY <2>1, <2>2, <1>2, Zenon
<1>7. Reports'
  <2> SUFFICES ASSUME NEW i \in DOMAIN stack', stack'[i].at = "delete_frag"
               PROVE  i = M /\ \A k \in DOMAIN stack' : \A f \in Frame :
                                  f = stack'[k] => Report(f)'
      BY <1>1 DEF Reports, M
  <2>1. i \in (n + 1)..M
      BY <1>1, <1>2, Zenon
  <2>2. /\ i - n + 1 \in 2..N /\ i - n + 1 \in DOMAIN stack
        /\ stack[i - n + 1].at = "delete_frag"
      BY <2>1, <1>1
  <2>3. i - n + 1 = N /\ \A k \in DOMAIN stack : Report(stack[k])
      BY <2>2, Zenon DEF Reports, N
  <2>4. Timer
      BY <2>2, Zenon DEF Timer, N
  <2>5. ASSUME NEW k \in DOMAIN stack', NEW f \in Frame, f = stack'[k] PROVE Report(f)'
    <3>1. CASE k \in 1..n
        BY <3>1, <2>4, <2>5, <1>1, Zenon DEF Told
    <3>2. CASE k \in (n + 1)..M
      <4>1. k - n + 1 \in 2..N /\ k - n + 1 \in DOMAIN stack /\ f = stack[k - n + 1]
          BY <3>2, <2>5, <1>1
      <4> QED BY <4>1, <2>3, <1>3, Zenon
    <3> QED BY <3>1, <3>2, <1>2, Zenon
  <2> QED BY <2>1, <2>3, <2>5, <1>1
<1> QED BY <1>4, <1>5, <1>6, <1>7, Zenon

\* The references stay right when the change of each is that of its holders.
LEMMA RefStep ==
    ASSUME Sizes, RefsMatchOwners, TypeOK', stack # <<>>, NEW frames \in Seq(Frame), Call(frames),
           \A p \in Pkbs :
               heap'[p].ref + Bit(Own(Head(stack), p)) + Listed(p) + Forgot(heap[p])
                   = heap[p].ref + Count(frames, p) + Listed(p)' + Forgot(heap'[p])
    PROVE  RefsMatchOwners'
<1> SUFFICES ASSUME NEW p \in Pkbs
             PROVE  heap'[p].ref = Owners(p)' + (IF heap'[p].lost THEN 1 ELSE 0)
    BY Zenon DEF RefsMatchOwners
<1>1. Owners(p) = Count(stack, p) + Listed(p) /\ Owners(p)' = Count(stack', p) + Listed(p)'
    BY Zenon DEF Owners, Count, Listed, Own
<1>2. heap[p].ref = Count(stack, p) + Listed(p) + Forgot(heap[p])
    BY <1>1, Zenon DEF RefsMatchOwners, Forgot
<1>3. /\ Count(stack', p) + Bit(Own(Head(stack), p)) = Count(frames, p) + Count(stack, p)
      /\ Count(stack, p) \in Nat /\ Count(stack', p) \in Nat /\ Count(frames, p) \in Nat
    BY CallCount, Zenon DEF RefsMatchOwners, TypeOK
<1>4. Listed(p) \in Nat /\ Listed(p)' \in Nat /\ heap'[p].ref \in Nat
  <2>1. heap'[p].ref \in Nat
      BY Zenon DEF TypeOK, Buffer
  <2> QED BY <2>1, ListedNat, Zenon
<1>5. Bit(Own(Head(stack), p)) \in Nat /\ Forgot(heap[p]) \in Nat /\ Forgot(heap'[p]) \in Nat
    BY Zenon DEF Bit, Forgot
<1>6. heap'[p].ref + Bit(Own(Head(stack), p)) + Listed(p) + Forgot(heap[p])
          = heap[p].ref + Count(frames, p) + Listed(p)' + Forgot(heap'[p])
    BY Zenon
<1>7. heap'[p].ref = Count(stack', p) + Listed(p)' + Forgot(heap'[p])
  <2>1. PICK ref \in Nat, calls \in Nat, calls2 \in Nat, new \in Nat, on \in Nat, on2 \in Nat :
            /\ ref = heap'[p].ref /\ calls = Count(stack, p) /\ calls2 = Count(stack', p)
            /\ new = Count(frames, p) /\ on = Listed(p) /\ on2 = Listed(p)'
      BY <1>3, <1>4, Zenon
  <2>2. PICK own \in Nat, lost \in Nat, lost2 \in Nat :
            own = Bit(Own(Head(stack), p)) /\ lost = Forgot(heap[p]) /\ lost2 = Forgot(heap'[p])
      BY <1>5, Zenon
  <2>3. calls2 + own = new + calls
      BY <2>1, <2>2, <1>3, Zenon
  <2>4. ref + own + on + lost = (calls + on + lost) + new + on2 + lost2
      BY <2>1, <2>2, <1>2, <1>6, Zenon
  <2>5. ref = calls2 + on2 + lost2
      BY <2>3, <2>4
  <2> QED BY <2>1, <2>2, <2>5, Zenon
<1> QED BY <1>1, <1>7, Zenon DEF Forgot

\* What the invariant says about the call that runs.
LEMMA Runs ==
    ASSUME Sizes, IInv, NEW at \in Working \cup {"free_pkb"}, In(at)
    PROVE  /\ TypeOK /\ stack # <<>> /\ P \in Pkbs /\ Head(stack) = Fr(at, P) /\ Loose(P)
           /\ \A p : Own(Head(stack), p) <=> p = P
           /\ heap[P].ref >= 1 + Listed(P) + Forgot(heap[P]) /\ heap[P].ref \in Nat \ {0}
           /\ Good(Head(stack))
           /\ Timer => Report(Head(stack))
<1>1. TypeOK /\ stack \in Seq(Frame) /\ stack # <<>>
    BY Zenon DEF IInv, RefsMatchOwners, TypeOK, In
<1>2. /\ Head(stack) \in Frame /\ Head(stack) = stack[1] /\ 1 \in DOMAIN stack
      /\ DOMAIN stack = 1..Len(stack) /\ Len(stack) \in Nat
    BY <1>1
<1>3. Head(stack) = Fr(at, P) /\ P \in Pkbs
    BY <1>2, Zenon DEF P, Fr, In, Frame
<1>4. at \in Owning /\ at # "icmp_send"
    BY Zenon DEF Owning, Calls, Working, HostCalls, NetCalls
<1>5. \A p : Own(Head(stack), p) <=> p = P
    BY <1>3, <1>4 DEF Own, Fr
<1>6. Loose(P)
  <2> SUFFICES ASSUME NEW j \in 2..Len(stack), stack[j].p = P PROVE stack[j].at = "free_pkb"
      BY Zenon DEF Loose
  <2>1. j \in DOMAIN stack /\ 1 < j
      BY <1>2
  <2>2. stack[1].at = at /\ stack[1].p = P
      BY <1>2, <1>3 DEF Fr
  <2> QED BY <2>1, <2>2, <1>2, <1>4, Zenon DEF IInv, OneUser, Alone
<1>7. heap[P].ref >= 1 + Listed(P) + Forgot(heap[P]) /\ heap[P].ref \in Nat \ {0}
  <2>1. heap[P].ref = Count(stack, P) + Listed(P) + Forgot(heap[P])
      BY <1>3, Zenon DEF IInv, RefsMatchOwners, Owners, Count, Own, Listed, Forgot
  <2>2. Count(stack, P) # 0
      BY <1>1, <1>2, <1>5, CountZero, Zenon
  <2>3. Count(stack, P) \in Nat /\ Listed(P) \in Nat /\ Forgot(heap[P]) \in Nat
      BY <1>1, CountFinite, ListedNat, Zenon DEF Forgot
  <2> QED BY <2>1, <2>2, <2>3
<1>8. Good(Head(stack))
    BY <1>2, Zenon DEF IInv, FramesGood
<1>9. Timer => Report(Head(stack))
    BY <1>2 DEF IInv, Reports, Timer
<1> QED BY <1>1, <1>3, <1>5, <1>6, <1>7, <1>8, <1>9, Zenon

\* alloc_pkb() returns a buffer that nobody holds.
LEMMA Fresh ==
    ASSUME Sizes, IInv, HasRoom
    PROVE  /\ alloc_pkb \in Pkbs /\ heap[alloc_pkb].ref = 0 /\ ~heap[alloc_pkb].lost
           /\ \A l \in Lists : alloc_pkb \notin lists[l]
           /\ \A i \in DOMAIN stack : stack[i].p # alloc_pkb
           /\ Loose(alloc_pkb)
<1>1. PICK q \in Pkbs : q = alloc_pkb /\ heap[q].ref = 0
    BY Zenon DEF HasRoom, alloc_pkb
<1>2. stack \in Seq(Frame) /\ DOMAIN stack = 1..Len(stack) /\ Len(stack) \in Nat
    BY DEF IInv, RefsMatchOwners, TypeOK
<1>3. Count(stack, q) = 0 /\ Listed(q) = 0 /\ Forgot(heap[q]) = 0
  <2>1. 0 = Count(stack, q) + Listed(q) + Forgot(heap[q])
      BY <1>1, Zenon DEF IInv, RefsMatchOwners, Owners, Count, Own, Listed, Forgot
  <2>2. Count(stack, q) \in Nat /\ Listed(q) \in Nat /\ Forgot(heap[q]) \in Nat
      BY <1>2, CountFinite, ListedNat, Zenon DEF Forgot
  <2> QED BY <2>1, <2>2
<1>4. ~heap[q].lost /\ \A l \in Lists : q \notin lists[l]
    BY <1>3, ListedNat DEF Forgot
<1>5. ASSUME NEW i \in DOMAIN stack PROVE stack[i].p # q
  <2> SUFFICES ASSUME stack[i].p = q PROVE FALSE
      BY Zenon
  <2>1. stack[i] \in Frame /\ ~Own(stack[i], q)
      BY <1>2, <1>3, CountZero
  <2>2. CASE stack[i].at = "delete_frag"
    <3>1. q \in lists["frag"]
        BY <2>2, Zenon DEF IInv, FramesGood, Good
    <3> QED BY <3>1, <1>4, Zenon DEF Lists
  <2>3. CASE stack[i].at = "icmp_send"
    <3>1. /\ 2 \in DOMAIN stack /\ stack[2].p = q
          /\ stack[2].at \in {"free_pkb", "forward_dev", "delete_frag"}
        BY <2>3, Zenon DEF IInv, Borrowed, Lent
    <3>2. ~Own(stack[2], q)
        BY <3>1, <1>2, <1>3, CountZero, Zenon
    <3>3. stack[2].at = "delete_frag"
        BY <3>1, <3>2, Zenon DEF Own, Owning, Calls
    <3>4. q \in lists["frag"]
        BY <3>1, <3>3, Zenon DEF IInv, FramesGood, Good
    <3> QED BY <3>4, <1>4, Zenon DEF Lists
  <2> QED BY <2>1, <2>2, <2>3, Zenon DEF Own, Owning, Frame
<1>6. Loose(q)
    BY <1>2, <1>5 DEF Loose
<1> QED BY <1>1, <1>4, <1>5, <1>6, Zenon

\* A call finds its buffer d as it expects it
Fits(at, d) ==
    /\ at \in HostCalls => d.order = "host"
    /\ at \in NetCalls => d.order = "net"
    /\ at \in Working => ~d.lost
    /\ at # "delete_frag"

\* What a working call may count on.
LEMMA Starts ==
    ASSUME Sizes, IInv, NEW at \in Working, In(at)
    PROVE  /\ TypeOK /\ P \in Pkbs /\ heap[P] \in Buffer /\ heap[P].ref \in Nat \ {0}
           /\ Fits(at, heap[P]) /\ (Timer => Says(at, heap[P]))
<1>1. /\ TypeOK /\ P \in Pkbs /\ heap[P].ref \in Nat \ {0} /\ Good(Head(stack))
      /\ (Timer => Report(Head(stack))) /\ Head(stack).at = at
    BY Runs, Zenon DEF In
<1>2. at # "delete_frag"
    BY Zenon DEF Working, HostCalls, NetCalls
<1> QED BY <1>1, <1>2, Zenon DEF TypeOK, Good, Fits, Report, P

\* p becomes b, the new buffer q becomes c, and those of X go on the list k
Changes(p, q, b, c, k, X) ==
    /\ heap' = [heap EXCEPT ![q] = c, ![p] = b] /\ lists' = [lists EXCEPT ![k] = @ \cup X]
    /\ arp' \in {"none", "waiting", "resolved"}
    /\ \A r \in X : ~heap'[r].lost /\ (k = "arp" => heap'[r].order = "net")

Hands(frames, p, q, X) ==
    \A i \in DOMAIN frames :
        /\ frames[i].p \in {p, q} /\ Fits(frames[i].at, heap'[frames[i].p])
        /\ frames[i].at = "free_pkb" \/ frames[i].p \notin X

\* Every reference that p and q have now belongs to one of their holders
Balanced(frames, p, q, b, c, X) ==
    /\ b.ref + 1 = heap[p].ref + Count(frames, p) + Bit(p \in X) + Forgot(b)
    /\ q # p => c.ref = Count(frames, q) + Bit(q \in X) + Forgot(c)

\* A call that works on p turns it into b, allocates at most one buffer q, puts at most
\* these on one list, and passes them on.
LEMMA WorkStep ==
    ASSUME Sizes, IInv, NEW at \in Working, In(at), NEW p \in Pkbs, p = P,
           NEW q \in Pkbs, q = p \/ (HasRoom /\ q = alloc_pkb),
           NEW b \in Buffer, NEW c \in Buffer, NEW k \in Lists, NEW X \in SUBSET {p, q},
           Changes(p, q, b, c, k, X), NEW frames \in Seq(Frame), Call(frames),
           Hands(frames, p, q, X), Alone(frames), Lent(frames), Told(frames),
           Balanced(frames, p, q, b, c, X)
    PROVE  IInv'
<1>1. /\ TypeOK /\ stack # <<>> /\ Loose(p) /\ \A r : Own(Head(stack), r) <=> r = p
      /\ ~heap[p].lost /\ \A l \in Lists : p \notin lists[l]
  <2>1. at \in Working \cup {"free_pkb"} /\ Fr(at, p).at = at /\ Fr(at, p).p = p
      BY Zenon DEF Fr
  <2> QED BY <2>1, Runs, Zenon DEF Good
<1>2. q # p => /\ heap[q].ref = 0 /\ ~heap[q].lost /\ Loose(q)
               /\ \A l \in Lists : q \notin lists[l]
    BY Fresh, Zenon
<1>3. /\ heap' \in [Pkbs -> Buffer] /\ heap'[p] = b /\ (q # p => heap'[q] = c)
      /\ \A r \in Pkbs \ {p, q} : heap'[r] = heap[r]
    BY <1>1, Zenon DEF TypeOK, Changes
<1>4. /\ lists' \in [Lists -> SUBSET Pkbs] /\ lists'[k] = lists[k] \cup X
      /\ \A l \in Lists \ {k} : lists'[l] = lists[l]
    BY <1>1 DEF TypeOK, Changes
<1>5. TypeOK'
    BY <1>1, <1>3, <1>4, CallFrames, Zenon DEF TypeOK, Changes
<1>6. \A r \in Pkbs : Loose(r) \/ Kept(r)
    BY <1>1, <1>2, <1>3, <1>4 DEF Kept
<1>7. ASSUME NEW i \in DOMAIN frames
      PROVE  Loose(frames[i].p) /\ Good(frames[i])' /\ frames[i].at # "delete_frag"
  <2>1. /\ frames[i].p \in {p, q} /\ Fits(frames[i].at, heap'[frames[i].p])
        /\ frames[i].at = "free_pkb" \/ frames[i].p \notin X
      BY Zenon DEF Hands
  <2>2. \A l \in Lists : frames[i].p \notin lists[l]
      BY <2>1, <1>1, <1>2, Zenon
  <2>3. frames[i].at # "free_pkb" => \A l \in Lists : frames[i].p \notin lists'[l]
      BY <2>1, <2>2, <1>4, Zenon
  <2>4. Loose(frames[i].p)
      BY <2>1, <1>1, <1>2, Zenon
  <2>5. Good(frames[i])'
      BY <2>1, <2>3, Zenon DEF Good, Fits, Working, HostCalls, NetCalls
  <2> QED BY <2>1, <2>4, <2>5, Zenon DEF Fits
<1>8. FramesGood' /\ OneUser' /\ Borrowed' /\ Reports'
    BY <1>1, <1>6, <1>7, StackStep, Zenon DEF IInv
<1>9. RefsMatchOwners'
  <2>1. ASSUME NEW r \in Pkbs
        PROVE  heap'[r].ref + Bit(Own(Head(stack), r)) + Listed(r) + Forgot(heap[r])
                   = heap[r].ref + Count(frames, r) + Listed(r)' + Forgot(heap'[r])
    <3>1. Listed(r)' + Bit(r \in lists[k]) = Listed(r) + Bit(r \in lists'[k])
          /\ Listed(r) \in Nat /\ Listed(r)' \in Nat
        BY <1>4, ListedChange, Zenon
    <3>2. heap[r].ref \in Nat /\ Count(frames, r) \in Nat
        BY <1>1, CountFinite, Zenon DEF TypeOK, Buffer
    <3>3. CASE r = p
      <4>1. Listed(r) = 0 /\ Forgot(heap[r]) = 0 /\ Bit(Own(Head(stack), r)) = 1
          BY <3>3, <1>1, ListedNat, Zenon DEF Forgot, Bit
      <4>2. Listed(r)' = Bit(p \in X) /\ Bit(p \in X) \in Nat
          BY <3>1, <3>3, <4>1, <1>1, <1>4 DEF Bit
      <4>3. b.ref \in Nat /\ Forgot(b) \in Nat
          BY Zenon DEF Buffer, Forgot
      <4> HIDE DEF Bit, Forgot
      <4> QED BY <4>1, <4>2, <4>3, <3>2, <3>3, <1>3 DEF Balanced
    <3>4. CASE r # p /\ r = q
      <4>1. /\ Listed(r) = 0 /\ Forgot(heap[r]) = 0 /\ Bit(Own(Head(stack), r)) = 0
            /\ heap[r].ref = 0
          BY <3>4, <1>1, <1>2, ListedNat, Zenon DEF Forgot, Bit
      <4>2. Listed(r)' = Bit(q \in X) /\ Bit(q \in X) \in Nat
          BY <3>1, <3>4, <4>1, <1>2, <1>4 DEF Bit
      <4>3. c.ref \in Nat /\ Forgot(c) \in Nat
          BY Zenon DEF Buffer, Forgot
      <4> QED BY <4>1, <4>2, <4>3, <3>2, <3>4, <1>3 DEF Balanced
    <3>5. CASE r # p /\ r # q
      <4>1. heap'[r] = heap[r] /\ Bit(Own(Head(stack), r)) = 0 /\ Listed(r)' = Listed(r)
          BY <3>1, <3>5, <1>1, <1>3, <1>4 DEF Bit
      <4>2. Count(frames, r) = 0
        <5>1. {i \in DOMAIN frames : Own(frames[i], r)} = {}
            BY <3>5, Zenon DEF Own, Hands
        <5> QED BY <5>1, Zenon DEF Sizes, SizeEmpty, Count
      <4>3. Forgot(heap[r]) \in Nat
          BY Zenon DEF Forgot
      <4> QED BY <4>1, <4>2, <4>3, <3>1, <3>2, Zenon
    <3> QED BY <3>3, <3>4, <3>5, Zenon
  <2> QED BY <2>1, <1>1, <1>5, RefStep, Zenon DEF IInv
<1>10. Waits'
  <2> SUFFICES ASSUME NEW l \in Lists, NEW r \in lists'[l]
               PROVE  /\ ~heap'[r].lost /\ \A m \in Lists : r \in lists'[m] => m = l
                      /\ l = "arp" => heap'[r].order = "net"
      BY Zenon DEF Waits
  <2>1. CASE r \in X
    <3>1. \A m \in Lists : r \notin lists[m]
        BY <2>1, <1>1, <1>2, Zenon
    <3>2. \A m \in Lists : r \in lists'[m] => m = k
        BY <3>1, <1>4, Zenon
    <3> QED BY <2>1, <3>2, Zenon DEF Changes
  <2>2. CASE r \notin X
    <3>1. r \in lists[l] /\ \A m \in Lists : r \in lists'[m] => r \in lists[m]
        BY <2>2, <1>4, Zenon
    <3>2. r \in Pkbs \ {p, q}
        BY <3>1, <1>1, <1>2, Zenon DEF TypeOK
    <3> QED BY <3>1, <3>2, <1>3 DEF IInv, Waits
  <2> QED BY <2>1, <2>2, Zenon
<1> QED BY <1>8, <1>9, <1>10, Zenon DEF IInv

-----------------------------------------------------------------------------
(* The shapes of what a call passes on.                                    *)

\* A frame that a call working on p may push
Fine(f, p, q, X) ==
    /\ f \in Frame /\ f.p \in {p, q} /\ Fits(f.at, heap'[f.p])
    /\ f.at = "free_pkb" \/ f.p \notin X
    /\ Timer => Report(f)'

\* A call that passes nothing on.
LEMMA NoCall ==
    ASSUME NEW p, NEW q, NEW X
    PROVE  /\ <<>> \in Seq(Frame) /\ Hands(<<>>, p, q, X)
           /\ Alone(<<>>) /\ Lent(<<>>) /\ Told(<<>>)
BY DEF Hands, Alone, Lent, Told

\* A call that passes a buffer to one handler.
LEMMA OneCall ==
    ASSUME NEW p, NEW q, NEW X, NEW f \in Frame, Fine(f, p, q, X), f.at # "icmp_send"
    PROVE  /\ <<f>> \in Seq(Frame) /\ Hands(<<f>>, p, q, X)
           /\ Alone(<<f>>) /\ Lent(<<f>>) /\ Told(<<f>>)
<1>1. <<f>> \in Seq(Frame) /\ DOMAIN <<f>> = {1} /\ <<f>>[1] = f
    OBVIOUS
<1>2. Hands(<<f>>, p, q, X) /\ Told(<<f>>)
    BY <1>1, Zenon DEF Hands, Told, Fine
<1>3. Alone(<<f>>) /\ Lent(<<f>>)
    BY <1>1 DEF Alone, Lent
<1> QED BY <1>1, <1>2, <1>3, Zenon

\* A call that passes buffers to two handlers, one after the other.
LEMMA TwoCalls ==
    ASSUME NEW p, NEW q, NEW X, NEW f \in Frame, NEW g \in Frame,
           Fine(f, p, q, X), Fine(g, p, q, X), g.at # "icmp_send",
           f.p # g.p \/ g.at = "free_pkb" \/ f.at = "icmp_send",
           f.at = "icmp_send" => f.p = g.p /\ g.at \in {"free_pkb", "forward_dev"}
    PROVE  /\ <<f, g>> \in Seq(Frame) /\ Hands(<<f, g>>, p, q, X)
           /\ Alone(<<f, g>>) /\ Lent(<<f, g>>) /\ Told(<<f, g>>)
<1>1. /\ <<f, g>> \in Seq(Frame) /\ DOMAIN <<f, g>> = {1, 2}
      /\ <<f, g>>[1] = f /\ <<f, g>>[2] = g
    OBVIOUS
<1>2. Hands(<<f, g>>, p, q, X) /\ Told(<<f, g>>)
    BY <1>1, Zenon DEF Hands, Told, Fine
<1>3. Alone(<<f, g>>) /\ Lent(<<f, g>>)
    BY <1>1 DEF Alone, Lent
<1> QED BY <1>1, <1>2, <1>3, Zenon

\* The call passes its buffer on, or frees it.
LEMMA PassStep ==
    ASSUME Sizes, IInv, NEW at \in Working, In(at), NEW p \in Pkbs, p = P,
           NEW b \in Buffer, heap' = [heap EXCEPT ![p] = b], b.ref = heap[p].ref, ~b.lost,
           UNCHANGED <<lists, arp>>, NEW next \in Working \cup {"free_pkb"},
           Call(<<Fr(next, p)>>), Fits(next, b), Timer => Says(next, b)
    PROVE  IInv'
<1>1. TypeOK
    BY Zenon DEF IInv, RefsMatchOwners
<1>2. PICK f \in Frame : f = Fr(next, p) /\ f.p = p /\ f.at # "icmp_send" /\ Own(f, p)
    BY DEF Fr, Frame, Own, Owning, Calls, Working, HostCalls, NetCalls
<1>3. Changes(p, p, b, b, "frag", {}) /\ heap'[p] = b /\ "frag" \in Lists
    BY <1>1, Zenon DEF Changes, TypeOK, Lists
<1>4. Fine(f, p, p, {})
    BY <1>2, <1>3, Zenon DEF Fine, Fr, Report
<1>5. Balanced(<<f>>, p, p, b, b, {})
  <2>1. Count(<<f>>, p) = 1 /\ Bit(p \in {}) = 0 /\ Forgot(b) = 0
      BY <1>2, CountOne, Zenon DEF Bit, Forgot
  <2>2. b.ref \in Nat
      BY Zenon DEF Buffer
  <2> QED BY <2>1, <2>2 DEF Balanced
<1>6. /\ <<f>> \in Seq(Frame) /\ Hands(<<f>>, p, p, {})
      /\ Alone(<<f>>) /\ Lent(<<f>>) /\ Told(<<f>>)
    BY <1>2, <1>4, OneCall, Zenon
<1> QED BY <1>2, <1>3, <1>5, <1>6, WorkStep, Zenon

\* The call frees its buffer unchanged.
LEMMA DropStep ==
    ASSUME Sizes, IInv, NEW at \in Working, In(at), Drop
    PROVE  IInv'
<1>1. PICK p \in Pkbs : p = P /\ TypeOK /\ heap[p] \in Buffer /\ Fits(at, heap[p])
    BY Starts, Zenon
<1>2. /\ heap' = [heap EXCEPT ![p] = heap[p]] /\ UNCHANGED <<lists, arp>>
      /\ Call(<<Fr("free_pkb", p)>>)
    BY <1>1, Zenon DEF Drop, TypeOK
<1>3. ~heap[p].lost
    BY <1>1, Zenon DEF Fits
<1>4. Fits("free_pkb", heap[p]) /\ Says("free_pkb", heap[p])
    BY Zenon DEF Fits, Says, Working, HostCalls, NetCalls
<1> QED BY <1>1, <1>2, <1>3, <1>4, PassStep, Zenon

\* The call lends its buffer to icmp_send() and then passes it on.
LEMMA LendStep ==
    ASSUME Sizes, IInv, NEW at \in Working, In(at), NEW p \in Pkbs, p = P,
           NEW b \in Buffer, heap' = [heap EXCEPT ![p] = b], b.ref = heap[p].ref, ~b.lost,
           UNCHANGED <<lists, arp>>, NEW next \in {"free_pkb", "forward_dev"},
           Call(<<Fr("icmp_send", p), Fr(next, p)>>),
           next = "forward_dev" => b.order = "net" /\ ~Timer
    PROVE  IInv'
<1>1. TypeOK
    BY Zenon DEF IInv, RefsMatchOwners
<1>2. PICK f \in Frame, g \in Frame : f = Fr("icmp_send", p) /\ g = Fr(next, p)
    BY Zenon DEF Fr, Frame, Calls
<1>3. Changes(p, p, b, b, "frag", {}) /\ heap'[p] = b /\ "frag" \in Lists
    BY <1>1, Zenon DEF Changes, TypeOK, Lists
<1>4. Fine(f, p, p, {}) /\ Fine(g, p, p, {})
    BY <1>2, <1>3, Zenon DEF Fine, Fr, Fits, Report, Says, Working, HostCalls, NetCalls
<1>5. Balanced(<<f, g>>, p, p, b, b, {})
  <2>1. ~Own(f, p) /\ Own(g, p)
      BY <1>2, Zenon DEF Fr, Own, Owning, Calls
  <2>2. Count(<<f, g>>, p) = 1 /\ Bit(p \in {}) = 0 /\ Forgot(b) = 0
      BY <2>1, CountTwo DEF Bit, Forgot
  <2>3. b.ref \in Nat
      BY Zenon DEF Buffer
  <2> QED BY <2>2, <2>3 DEF Balanced
<1>6. /\ <<f, g>> \in Seq(Frame) /\ Hands(<<f, g>>, p, p, {})
      /\ Alone(<<f, g>>) /\ Lent(<<f, g>>) /\ Told(<<f, g>>)
  <2>1. f.at = "icmp_send" /\ f.p = p /\ g.p = p /\ g.at = next
      BY <1>2, Zenon DEF Fr
  <2> QED BY <2>1, <1>4, TwoCalls
<1> QED BY <1>2, <1>3, <1>5, <1>6, WorkStep, Zenon

\* The call puts its buffer on a list.
LEMMA KeepStep ==
    ASSUME Sizes, IInv, NEW at \in Working, In(at), NEW p \in Pkbs, p = P, NEW k \in Lists,
           lists' = [lists EXCEPT ![k] = @ \cup {p}], UNCHANGED <<heap, arp>>, Call(<<>>),
           k = "arp" => at \in NetCalls
    PROVE  IInv'
<1>1. TypeOK /\ heap[p] \in Buffer /\ heap[p].ref \in Nat /\ Fits(at, heap[p])
    BY Starts, Zenon
<1>2. ~heap[p].lost /\ (at \in NetCalls => heap[p].order = "net")
    BY <1>1, Zenon DEF Fits
<1>3. Changes(p, p, heap[p], heap[p], k, {p})
    BY <1>1, <1>2, Zenon DEF Changes, TypeOK
<1>4. Balanced(<<>>, p, p, heap[p], heap[p], {p})
  <2>1. Count(<<>>, p) = 0 /\ Bit(p \in {p}) = 1 /\ Forgot(heap[p]) = 0
      BY <1>2, CountNone, Zenon DEF Bit, Forgot
  <2> QED BY <1>1, <2>1 DEF Balanced
<1>5. PICK d \in Buffer : d = heap[p]
    BY <1>1, Zenon
<1>6. Changes(p, p, d, d, k, {p}) /\ Balanced(<<>>, p, p, d, d, {p})
    BY <1>3, <1>4, <1>5
<1> QED BY <1>6, NoCall, WorkStep, Zenon

\* The call allocates a buffer and sends it, before it goes on with its own.
LEMMA SendStep ==
    ASSUME Sizes, IInv, NEW at \in Working, In(at), NEW p \in Pkbs, p = P,
           HasRoom, NEW q \in Pkbs, q = alloc_pkb, NEW b \in Buffer, NEW c \in Buffer,
           NEW X \in SUBSET {p}, heap' = [heap EXCEPT ![q] = c, ![p] = b],
           lists' = [lists EXCEPT !["tcp"] = @ \cup X], UNCHANGED arp, ~Timer,
           ~b.lost, b.ref = heap[p].ref + Bit(p \in X), c.ref = 1, ~c.lost, c.order = "net",
           NEW first \in NetCalls, NEW next \in Working \cup {"free_pkb"},
           Fits(next, b), X # {} => next = "free_pkb",
           Call(<<Fr(first, q), Fr(next, p)>>)
    PROVE  IInv'
<1>1. TypeOK /\ heap[p].ref \in Nat /\ heap[p].ref # 0 /\ heap[q].ref = 0
  <2>1. TypeOK /\ heap[p].ref \in Nat \ {0}
      BY Runs, Zenon
  <2> QED BY <2>1, Fresh, Zenon
<1>2. q # p
    BY <1>1, Zenon
<1>3. PICK f \in Frame, g \in Frame : f = Fr(first, q) /\ g = Fr(next, p)
    BY DEF Fr, Frame, Calls, Working, HostCalls, NetCalls
<1>4. Changes(p, q, b, c, "tcp", X) /\ heap'[p] = b /\ heap'[q] = c /\ "tcp" \in Lists
    BY <1>1, <1>2, Zenon DEF Changes, TypeOK, Lists
<1>5. Fine(f, p, q, X) /\ Fine(g, p, q, X)
  <2>1. Fits(f.at, c)
      BY <1>3, Zenon DEF Fr, Fits, Working, HostCalls, NetCalls
  <2> QED BY <1>2, <1>3, <1>4, <2>1, Zenon DEF Fine, Fr
<1>6. Balanced(<<f, g>>, p, q, b, c, X)
  <2>1. ~Own(f, p) /\ Own(g, p) /\ Own(f, q) /\ ~Own(g, q)
      BY <1>2, <1>3 DEF Fr, Own, Owning, Calls, Working, HostCalls, NetCalls
  <2>2. /\ Count(<<f, g>>, p) = 1 /\ Count(<<f, g>>, q) = 1 /\ Bit(q \in X) = 0
        /\ Forgot(b) = 0 /\ Forgot(c) = 0 /\ Bit(p \in X) \in Nat
      BY <1>2, <2>1, CountTwo DEF Bit, Forgot
  <2> QED BY <1>1, <2>2 DEF Balanced
<1>7. /\ <<f, g>> \in Seq(Frame) /\ Hands(<<f, g>>, p, q, X)
      /\ Alone(<<f, g>>) /\ Lent(<<f, g>>) /\ Told(<<f, g>>)
  <2>1. f.at # "icmp_send" /\ g.at # "icmp_send" /\ f.p # g.p
      BY <1>2, <1>3, Zenon DEF Fr, Working, HostCalls, NetCalls
  <2> QED BY <2>1, <1>5, TwoCalls, Zenon
<1> QED BY <1>3, <1>4, <1>6, <1>7, WorkStep, Zenon

-----------------------------------------------------------------------------
(* The link layer.                                                         *)

\* net_in() drops the frame, forgets it (RARP), or passes it to arp_in() or ip_in().
LEMMA NetIn ==
    ASSUME Sizes, IInv, net_in
    PROVE  IInv'
<1> DEFINE at == "net_in"
<1>1. at \in Working /\ In(at)
    BY Zenon DEF net_in, Working, HostCalls, NetCalls
<1>2. PICK p \in Pkbs : /\ p = P /\ TypeOK /\ heap[p] \in Buffer /\ heap[p].ref \in Nat \ {0}
                        /\ Fits(at, heap[p]) /\ (Timer => Says(at, heap[p]))
    BY <1>1, Starts, Zenon
<1>3. CASE Drop
    BY <1>1, <1>3, DropStep, Zenon
<1>4. CASE ~Drop
  <2>1. PICK b \in Buffer :
            b = [heap[p] EXCEPT !.type = heap[p].link, !.lost = heap[p].kind = "rarp"]
      BY <1>2, Zenon DEF Buffer
  <2>2. /\ b.ref = heap[p].ref /\ b.order = heap[p].order /\ b.lost = (heap[p].kind = "rarp")
        /\ b.kind = heap[p].kind /\ b.frag = heap[p].frag /\ b.to = heap[p].to /\ b.kind \in Kinds
      BY <1>2, <2>1 DEF Buffer
  <2>3. /\ heap' = [heap EXCEPT ![p] = b] /\ UNCHANGED <<lists, arp>>
        /\ Call(CASE heap[p].kind = "rarp" -> <<>>
                  [] heap[p].kind \in IpKinds -> <<Fr("ip_in", p)>>
                  [] OTHER -> <<Fr("arp_in", p)>>)
      BY <1>2, <1>4, <2>1, Zenon DEF net_in, TypeOK
  <2>4. b.order = "net"
      BY <1>2, <2>2 DEF Fits, NetCalls
  <2>5. CASE heap[p].kind = "rarp"
    <3>1. Call(<<>>) /\ b.lost
        BY <2>2, <2>3, <2>5, Zenon DEF IpKinds
    <3>2. Changes(p, p, b, b, "frag", {}) /\ "frag" \in Lists
        BY <1>2, <2>3, Zenon DEF Changes, TypeOK, Lists
    <3>3. Balanced(<<>>, p, p, b, b, {})
      <4>1. Count(<<>>, p) = 0 /\ Bit(p \in {}) = 0 /\ Forgot(b) = 1
          BY <3>1, CountNone, Zenon DEF Bit, Forgot
      <4> QED BY <1>2, <2>2, <4>1 DEF Balanced
    <3> QED BY <1>1, <1>2, <3>1, <3>2, <3>3, NoCall, WorkStep, Zenon
  <2>6. CASE heap[p].kind \in IpKinds
    <3>1. Call(<<Fr("ip_in", p)>>) /\ ~b.lost
        BY <2>2, <2>3, <2>6, Zenon DEF IpKinds
    <3>2. /\ Fits("ip_in", b) /\ (Timer => Says("ip_in", b))
          /\ "ip_in" \in Working \cup {"free_pkb"}
        BY <1>2, <2>2, <2>4, <3>1, Zenon DEF Fits, Says, Working, HostCalls, NetCalls
    <3> QED BY <1>1, <1>2, <2>2, <2>3, <3>1, <3>2, PassStep, Zenon
  <2>7. CASE heap[p].kind \notin IpKinds \cup {"rarp"}
    <3>1. Call(<<Fr("arp_in", p)>>) /\ ~b.lost
        BY <2>2, <2>3, <2>7, Zenon
    <3>2. ~Timer
        BY <1>2, <2>7, Zenon DEF Says, IpKinds, Kinds
    <3>3. Fits("arp_in", b) /\ "arp_in" \in Working \cup {"free_pkb"}
        BY <2>4, <3>1 DEF Fits, Working, HostCalls, NetCalls
    <3> QED BY <1>1, <1>2, <2>2, <2>3, <3>1, <3>2, <3>3, PassStep, Zenon
  <2> QED BY <2>5, <2>6, <2>7, Zenon
<1> QED BY <1>3, <1>4, Zenon

\* netdev_tx() frees the buffer once the device has it; the loopback device calls net_in()
\* with a reference of its own first.
LEMMA NetdevTx ==
    ASSUME Sizes, IInv, netdev_tx
    PROVE  IInv'
<1> DEFINE at == "netdev_tx"
<1>1. at \in Working /\ In(at)
    BY Zenon DEF netdev_tx, Working, HostCalls, NetCalls
<1>2. PICK p \in Pkbs : /\ p = P /\ TypeOK /\ heap[p] \in Buffer /\ heap[p].ref \in Nat \ {0}
                        /\ Fits(at, heap[p]) /\ (Timer => Says(at, heap[p]))
    BY <1>1, Starts, Zenon
<1>3. CASE heap[p].rt # "lo"
    BY <1>1, <1>2, <1>3, DropStep, Zenon DEF netdev_tx, Drop
<1>4. CASE heap[p].rt = "lo"
  <2>n. PICK n \in Nat : n = heap[p].ref + 1
      BY <1>2
  <2>1. PICK b \in Buffer : b = [heap[p] EXCEPT !.link = "local", !.ref = n]
      BY <1>2, Zenon DEF Buffer
  <2>2. /\ b.ref = heap[p].ref + 1 /\ b.order = heap[p].order /\ b.lost = heap[p].lost
        /\ b.kind = heap[p].kind /\ b.frag = heap[p].frag /\ b.to = heap[p].to
      BY <1>2, <2>n, <2>1 DEF Buffer
  <2>3. /\ heap' = [heap EXCEPT ![p] = b] /\ UNCHANGED <<lists, arp>>
        /\ Call(<<Fr("net_in", p), Fr("free_pkb", p)>>)
      BY <1>2, <1>4, <2>n, <2>1, Zenon DEF netdev_tx, loop_xmit, TypeOK
  <2>4. PICK f \in Frame, g \in Frame : f = Fr("net_in", p) /\ g = Fr("free_pkb", p)
      BY Zenon DEF Fr, Frame, Calls
  <2>5. /\ Changes(p, p, b, b, "frag", {}) /\ "frag" \in Lists /\ heap'[p] = b
        /\ Call(<<f, g>>)
      BY <1>2, <2>3, <2>4, Zenon DEF Changes, TypeOK, Lists
  <2>6. b.order = "net" /\ ~b.lost /\ (Timer => Says("net_in", b))
      BY <1>2, <1>4, <2>2, Zenon DEF Fits, Says, Working, HostCalls, NetCalls
  <2>7. Balanced(<<f, g>>, p, p, b, b, {})
    <3>1. Own(f, p) /\ Own(g, p)
        BY <2>4, Zenon DEF Fr, Own, Owning, Calls
    <3>2. Count(<<f, g>>, p) = 2 /\ Bit(p \in {}) = 0 /\ Forgot(b) = 0
        BY <2>6, <3>1, CountTwo DEF Bit, Forgot
    <3> QED BY <1>2, <2>2, <3>2 DEF Balanced
  <2>8. Fine(f, p, p, {}) /\ Fine(g, p, p, {})
      BY <2>4, <2>5, <2>6, Zenon DEF Fine, Fr, Fits, Report, Says, Working, HostCalls, NetCalls
  <2>9. /\ <<f, g>> \in Seq(Frame) /\ Hands(<<f, g>>, p, p, {})
        /\ Alone(<<f, g>>) /\ Lent(<<f, g>>) /\ Told(<<f, g>>)
    <3>1. f.at # "icmp_send" /\ g.at = "free_pkb"
        BY <2>4, Zenon DEF Fr
    <3> QED BY <3>1, <2>8, TwoCalls, Zenon
  <2> QED BY <1>1, <1>2, <2>5, <2>7, <2>9, WorkStep, Zenon
<1> QED BY <1>3, <1>4

-----------------------------------------------------------------------------
(* Network layer, input.                                                   *)

\* ip_in() drops the packet, or swaps the header into host order for its receiver.
LEMMA IpIn ==
    ASSUME Sizes, IInv, ip_in
    PROVE  IInv'
<1> DEFINE at == "ip_in"
<1>1. at \in Working /\ In(at)
    BY Zenon DEF ip_in, Working, HostCalls, NetCalls
<1>2. PICK p \in Pkbs : /\ p = P /\ TypeOK /\ heap[p] \in Buffer /\ heap[p].ref \in Nat \ {0}
                        /\ Fits(at, heap[p]) /\ (Timer => Says(at, heap[p]))
    BY <1>1, Starts
<1>3. CASE Drop
    BY <1>1, <1>3, DropStep, Zenon
<1>4. CASE ~Drop
  <2>1. PICK b \in Buffer : b = [heap[p] EXCEPT !.order = Swapped(@)]
      BY <1>2, Zenon DEF Buffer, Swapped
  <2>2. /\ b.ref = heap[p].ref /\ b.order = "host" /\ ~b.lost
        /\ b.kind = heap[p].kind /\ b.frag = heap[p].frag /\ b.to = heap[p].to
      BY <1>2, <2>1 DEF Buffer, Swapped, Fits, Working, NetCalls
  <2>3. PICK next \in {"free_pkb", "ip_recv_route"} :
            /\ heap' = [heap EXCEPT ![p] = b] /\ UNCHANGED <<lists, arp>>
            /\ Call(<<Fr(next, p)>>)
      BY <1>2, <1>4, <2>1, Zenon DEF ip_in, PassTo, TypeOK
  <2>4. Fits(next, b) /\ (Timer => Says(next, b)) /\ next \in Working \cup {"free_pkb"}
      BY <1>2, <2>2, <2>3, Zenon DEF Fits, Says, Working, HostCalls, NetCalls
  <2> QED BY <1>1, <1>2, <2>2, <2>3, <2>4, PassStep, Zenon
<1> QED BY <1>3, <1>4, Zenon

\* rt_input() of a packet, and its byte order after it.
LEMMA Routed ==
    ASSUME NEW d \in Buffer, NEW r \in {"none", "lo", "eth"}, NEW o \in {"net", "host"}
    PROVE  [d EXCEPT !.rt = r, !.order = o] \in Buffer
BY Zenon DEF Buffer

\* ip_recv_route() has the packet delivered, forwarded or reported, in the order that the
\* next handler expects.
LEMMA IpRecvRoute ==
    ASSUME Sizes, IInv, ip_recv_route
    PROVE  IInv'
<1> DEFINE at == "ip_recv_route"
<1>1. at \in Working /\ In(at)
    BY Zenon DEF ip_recv_route, Working, HostCalls, NetCalls
<1>2. PICK p \in Pkbs : /\ p = P /\ TypeOK /\ heap[p] \in Buffer /\ heap[p].ref \in Nat \ {0}
                        /\ Fits(at, heap[p]) /\ (Timer => Says(at, heap[p]))
    BY <1>1, Starts, Zenon
<1>3. PICK rt \in {"none", "lo", "eth"} : rt = rt_lookup(heap[p].to)
    BY Zenon DEF rt_lookup
<1>o. PICK order \in {"net", "host"} :
          /\ order = IF rt = "lo" THEN "host" ELSE "net"
          /\ order = IF rt = "lo" THEN heap[p].order ELSE Swapped(heap[p].order)
    BY <1>2, Zenon DEF Swapped, Fits, HostCalls
<1>4. PICK b \in Buffer : b = [heap[p] EXCEPT !.rt = rt, !.order = order]
    BY <1>2, Routed, Zenon
<1>5. /\ b.ref = heap[p].ref /\ ~b.lost /\ b.order = (IF rt = "lo" THEN "host" ELSE "net")
      /\ b.kind = heap[p].kind /\ b.frag = heap[p].frag /\ b.to = heap[p].to
    BY <1>2, <1>o, <1>4 DEF Buffer, Fits, Working, HostCalls
<1>6. /\ heap' = [heap EXCEPT ![p] = b]
      /\ CASE rt = "none" -> IcmpThen("free_pkb")
           [] rt = "lo"   -> PassTo("ip_recv_local")
           [] OTHER       -> PassTo("ip_forward")
    BY <1>2, <1>3, <1>o, <1>4, Zenon DEF ip_recv_route, TypeOK
<1>7. CASE rt = "none"
  <2>1. Call(<<Fr("icmp_send", p), Fr("free_pkb", p)>>) /\ UNCHANGED <<lists, arp>>
      BY <1>2, <1>6, <1>7, Zenon DEF IcmpThen
  <2> QED BY <1>1, <1>2, <1>5, <1>6, <2>1, LendStep, Zenon
<1>8. CASE rt = "lo"
  <2>1. Call(<<Fr("ip_recv_local", p)>>) /\ UNCHANGED <<lists, arp>>
      BY <1>2, <1>6, <1>8, Zenon DEF PassTo
  <2>2. /\ Fits("ip_recv_local", b) /\ (Timer => Says("ip_recv_local", b))
        /\ "ip_recv_local" \in Working \cup {"free_pkb"}
      BY <1>2, <1>5, <1>8, Zenon DEF Fits, Says, Working, HostCalls, NetCalls
  <2> QED BY <1>1, <1>2, <1>5, <1>6, <2>1, <2>2, PassStep, Zenon
<1>9. CASE rt = "eth"
  <2>1. Call(<<Fr("ip_forward", p)>>) /\ UNCHANGED <<lists, arp>>
      BY <1>2, <1>6, <1>9, Zenon DEF PassTo
  <2>2. ~Timer
      BY <1>2, <1>3, <1>9, Zenon DEF Says, rt_lookup
  <2>3. Fits("ip_forward", b) /\ "ip_forward" \in Working \cup {"free_pkb"}
      BY <1>5, <1>9, Zenon DEF Fits, Working, HostCalls, NetCalls
  <2> QED BY <1>1, <1>2, <1>5, <1>6, <2>1, <2>2, <2>3, PassStep, Zenon
<1> QED BY <1>7, <1>8, <1>9, Zenon

\* raw_in() passes the packet on; a raw socket queues a copy of it.
LEMMA RawIn ==
    ASSUME Sizes, IInv, raw_in
    PROVE  IInv'
<1> DEFINE at == "raw_in"
<1>1. at \in Working /\ In(at)
    BY Zenon DEF raw_in, Working, HostCalls, NetCalls
<1>2. PICK p \in Pkbs : /\ p = P /\ TypeOK /\ heap[p] \in Buffer /\ heap[p].ref \in Nat \ {0}
                        /\ Fits(at, heap[p]) /\ (Timer => Says(at, heap[p]))
    BY <1>1, Starts, Zenon
<1>3. PICK next \in {"icmp_in", "tcp_in", "udp_in", "free_pkb"} : next = Upper(heap[p].kind)
    BY Zenon DEF Upper
<1>4. /\ heap[p].order = "host" /\ ~heap[p].lost /\ Call(<<Fr(next, p)>>) /\ arp' = arp
    BY <1>2, <1>3, Zenon DEF raw_in, Fits, Working, HostCalls
<1>5. Fits(next, heap[p]) /\ next \in Working \cup {"free_pkb"}
    BY <1>4, Zenon DEF Fits, Working, HostCalls, NetCalls
<1>6. Timer => Says(next, heap[p])
    BY <1>2, <1>3, Zenon DEF Says, Upper
<1>7. PICK b \in Buffer : b = heap[p]
    BY <1>2, Zenon
<1>8. CASE UNCHANGED <<heap, lists>>
  <2>1. heap' = [heap EXCEPT ![p] = b]
      BY <1>2, <1>7, <1>8, Zenon DEF TypeOK
  <2> QED BY <1>1, <1>2, <1>4, <1>5, <1>6, <1>7, <1>8, <2>1, PassStep, Zenon
<1>9. CASE ~UNCHANGED <<heap, lists>>
  <2>1. HasRoom /\ heap[alloc_pkb].ref = 0 /\ alloc_pkb \in Pkbs
      BY <1>9, Fresh, Zenon DEF raw_in
  <2>2. PICK q \in Pkbs : q = alloc_pkb /\ q # p
      BY <1>2, <2>1, Zenon
  <2>3. PICK c \in Buffer : c = [heap[p] EXCEPT !.ref = 1, !.room = Length - HeaderSize]
      BY <1>2, Zenon DEF Buffer
  <2>4. c.ref = 1 /\ ~c.lost
      BY <1>2, <1>4, <2>3 DEF Buffer
  <2>5. heap' = [heap EXCEPT ![q] = c, ![p] = b] /\ lists' = [lists EXCEPT !["raw"] = @ \cup {q}]
      BY <1>2, <1>7, <1>9, <2>2, <2>3, Zenon DEF raw_in, TypeOK
  <2>6. /\ Changes(p, q, b, c, "raw", {q}) /\ "raw" \in Lists
        /\ heap'[p] = b /\ heap'[q] = c
      BY <1>2, <1>4, <2>2, <2>4, <2>5, Zenon DEF Changes, TypeOK, Lists
  <2>7. PICK f \in Frame : f = Fr(next, p)
      BY <1>3, Zenon DEF Fr, Frame, Calls
  <2>8. Balanced(<<f>>, p, q, b, c, {q})
    <3>1. Own(f, p) /\ ~Own(f, q)
        BY <1>3, <2>2, <2>7, Zenon DEF Fr, Own, Owning, Calls
    <3>2. /\ Count(<<f>>, p) = 1 /\ Count(<<f>>, q) = 0
          /\ Bit(p \in {q}) = 0 /\ Bit(q \in {q}) = 1 /\ Forgot(b) = 0 /\ Forgot(c) = 0
        BY <1>4, <1>7, <2>2, <2>4, <3>1, CountOne, Zenon DEF Bit, Forgot
    <3> QED BY <1>2, <1>7, <2>4, <3>2 DEF Balanced
  <2>9. Fine(f, p, q, {q}) /\ f.at # "icmp_send"
      BY <1>3, <1>5, <1>6, <1>7, <2>2, <2>6, <2>7, Zenon DEF Fine, Fr, Report
  <2>10. /\ <<f>> \in Seq(Frame) /\ Hands(<<f>>, p, q, {q})
         /\ Alone(<<f>>) /\ Lent(<<f>>) /\ Told(<<f>>)
      BY <2>9, OneCall, Zenon
  <2> QED BY <1>1, <1>2, <1>4, <2>1, <2>2, <2>6, <2>7, <2>8, <2>10, WorkStep, Zenon
<1> QED BY <1>8, <1>9, Zenon

-----------------------------------------------------------------------------
(* ICMP, UDP and TCP input.                                                *)

\* The answer to an echo request is a buffer.
LEMMA Answered ==
    ASSUME NEW d \in Buffer
    PROVE  icmp_echo_request(d) \in Buffer
<1>1. PICK k \in Kinds, h \in Hosts, o \in {"net", "host"} :
          k = "icmp info" /\ h = d.from /\ o = Swapped(d.order)
    BY Zenon DEF Buffer, Kinds, Swapped
<1>2. [d EXCEPT !.kind = k, !.to = h, !.order = o, !.rt = "none", !.type = "none"] \in Buffer
    BY Zenon DEF Buffer
<1> QED BY <1>1, <1>2, Zenon DEF icmp_echo_request

\* icmp_in() drops the packet, or sends the request back as the reply.
LEMMA IcmpIn ==
    ASSUME Sizes, IInv, icmp_in
    PROVE  IInv'
<1> DEFINE at == "icmp_in"
<1>1. at \in Working /\ In(at)
    BY Zenon DEF icmp_in, Working, HostCalls, NetCalls
<1>2. PICK p \in Pkbs : /\ p = P /\ TypeOK /\ heap[p] \in Buffer /\ heap[p].ref \in Nat \ {0}
                        /\ Fits(at, heap[p]) /\ (Timer => Says(at, heap[p]))
    BY <1>1, Starts, Zenon
<1>3. CASE Drop
    BY <1>1, <1>3, DropStep, Zenon
<1>4. CASE ~Drop
  <2>1. icmp_echo_request(heap[p]) \in Buffer
      BY <1>2, Answered, Zenon
  <2>2. PICK b \in Buffer : b = icmp_echo_request(heap[p])
      BY <2>1, Zenon
  <2>3. b.ref = heap[p].ref /\ b.order = "net" /\ ~b.lost
      BY <1>2, <2>2 DEF Buffer, Swapped, Fits, Working, HostCalls, icmp_echo_request
  <2>4. /\ heap' = [heap EXCEPT ![p] = b] /\ UNCHANGED <<lists, arp>>
        /\ Call(<<Fr("ip_send_out", p)>>) /\ heap[p].kind = "echo"
      BY <1>2, <1>4, <2>2, Zenon DEF icmp_in, PassTo, TypeOK
  <2>5. ~Timer /\ Fits("ip_send_out", b) /\ "ip_send_out" \in Working \cup {"free_pkb"}
      BY <1>2, <2>3, <2>4, Zenon DEF Fits, Says, Working, HostCalls, NetCalls
  <2> QED BY <1>1, <1>2, <2>3, <2>4, <2>5, PassStep, Zenon
<1> QED BY <1>3, <1>4, Zenon

\* udp_recv() drops the packet, reports it, or queues it without a reference left to it.
LEMMA UdpIn ==
    ASSUME Sizes, IInv, udp_in
    PROVE  IInv'
<1> DEFINE at == "udp_in"
<1>1. at \in Working /\ In(at)
    BY Zenon DEF udp_in, Working, HostCalls, NetCalls
<1>2. PICK p \in Pkbs : p = P /\ TypeOK /\ heap[p] \in Buffer /\ Fits(at, heap[p])
    BY <1>1, Starts, Zenon
<1>3. CASE Drop
    BY <1>1, <1>3, DropStep, Zenon
<1>4. CASE IcmpThen("free_pkb") /\ UNCHANGED heap
  <2>1. PICK b \in Buffer : b = heap[p] /\ b.ref = heap[p].ref /\ ~b.lost
      BY <1>1, <1>2, Zenon DEF Fits
  <2>2. /\ heap' = [heap EXCEPT ![p] = b] /\ UNCHANGED <<lists, arp>>
        /\ Call(<<Fr("icmp_send", p), Fr("free_pkb", p)>>)
      BY <1>2, <1>4, <2>1, Zenon DEF IcmpThen, TypeOK
  <2> QED BY <1>1, <1>2, <2>1, <2>2, LendStep, Zenon
<1>5. CASE /\ lists' = [lists EXCEPT !["udp"] = @ \cup {P}]
           /\ Call(<<>>) /\ UNCHANGED <<heap, arp>>
  <2>1. "udp" \in Lists /\ "udp" # "arp"
      BY Zenon DEF Lists
  <2> QED BY <1>1, <1>2, <1>5, <2>1, KeepStep, Zenon
<1> QED BY <1>3, <1>4, <1>5, Zenon DEF udp_in

-----------------------------------------------------------------------------
(* Network layer, output.                                                  *)

\* ip_forward() and its end, which forward a packet that another host sent.
LEMMA Forward ==
    ASSUME Sizes, IInv, ip_forward \/ forward_dev
    PROVE  IInv'
<1>1. PICK at \in {"ip_forward", "forward_dev"} : In(at)
    BY Zenon DEF ip_forward, forward_dev
<1>2. at \in Working /\ ~Says(at, heap[P])
    BY Zenon DEF Working, HostCalls, NetCalls, Says
<1>3. PICK p \in Pkbs : p = P /\ TypeOK /\ heap[p] \in Buffer /\ Fits(at, heap[p]) /\ ~Timer
    BY <1>1, <1>2, Starts, Zenon
<1>4. PICK b \in Buffer : b = heap[p] /\ b.ref = heap[p].ref /\ ~b.lost /\ b.order = "net"
    BY <1>1, <1>2, <1>3, Zenon DEF Fits, NetCalls
<1>5. heap' = [heap EXCEPT ![p] = b] /\ UNCHANGED <<lists, arp>>
    BY <1>3, <1>4, Zenon DEF ip_forward, forward_dev, IcmpThen, PassTo, TypeOK
<1>6. CASE \E next \in {"free_pkb", "forward_dev"} : IcmpThen(next)
  <2>1. PICK next \in {"free_pkb", "forward_dev"} : Call(<<Fr("icmp_send", p), Fr(next, p)>>)
      BY <1>3, <1>6, Zenon DEF IcmpThen
  <2> QED BY <1>1, <1>2, <1>3, <1>4, <1>5, <2>1, LendStep, Zenon
<1>7. CASE \E next \in {"forward_dev", "ip_send_frag", "ip_send_dev"} : PassTo(next)
  <2>1. PICK next \in {"forward_dev", "ip_send_frag", "ip_send_dev"} : Call(<<Fr(next, p)>>)
      BY <1>3, <1>7, Zenon DEF PassTo
  <2>2. Fits(next, b) /\ next \in Working \cup {"free_pkb"}
      BY <1>4, <2>1, Zenon DEF Fits, Working, HostCalls, NetCalls
  <2> QED BY <1>1, <1>2, <1>3, <1>4, <1>5, <2>1, <2>2, PassStep, Zenon
<1> QED BY <1>6, <1>7, Zenon DEF ip_forward, forward_dev

\* rt_output() of a packet.
LEMMA Sent ==
    ASSUME NEW d \in Buffer, NEW r \in {"none", "lo", "eth"}
    PROVE  [d EXCEPT !.rt = r, !.from = "me"] \in Buffer /\ [d EXCEPT !.rt = r] \in Buffer
BY Zenon DEF Buffer, Hosts

\* ip_send_out() drops the packet, cuts it, or sends it as it is.
LEMMA IpSendOut ==
    ASSUME Sizes, IInv, ip_send_out
    PROVE  IInv'
<1> DEFINE at == "ip_send_out"
<1>1. at \in Working /\ In(at)
    BY Zenon DEF ip_send_out, Working, HostCalls, NetCalls
<1>2. PICK p \in Pkbs : /\ p = P /\ TypeOK /\ heap[p] \in Buffer /\ heap[p].ref \in Nat \ {0}
                        /\ Fits(at, heap[p]) /\ (Timer => Says(at, heap[p]))
    BY <1>1, Starts, Zenon
<1>3. PICK rt \in {"none", "lo", "eth"} :
          rt = IF heap[p].rt # "none" THEN heap[p].rt ELSE rt_lookup(heap[p].to)
    BY <1>2, Zenon DEF Buffer, rt_lookup
<1>4. CASE rt = "none"
    BY <1>1, <1>2, <1>3, <1>4, DropStep, Zenon DEF ip_send_out
<1>5. CASE rt # "none"
  <2>1. PICK b \in Buffer : b = [heap[p] EXCEPT !.rt = rt, !.from = "me"]
      BY <1>2, Sent, Zenon
  <2>2. /\ b.ref = heap[p].ref /\ b.order = "net" /\ ~b.lost /\ b.rt = rt
        /\ b.kind = heap[p].kind /\ b.frag = heap[p].frag /\ b.to = heap[p].to
      BY <1>2, <2>1 DEF Buffer, Fits, Working, NetCalls
  <2>3. PICK next \in {"ip_send_frag", "ip_send_dev"} :
            /\ heap' = [heap EXCEPT ![p] = b] /\ UNCHANGED <<lists, arp>>
            /\ Call(<<Fr(next, p)>>)
            /\ next = "ip_send_frag" => MayBeLong(heap[p])
      BY <1>2, <1>3, <1>5, <2>1, Zenon DEF ip_send_out, PassTo, TypeOK
  <2>4. Fits(next, b) /\ next \in Working \cup {"free_pkb"}
      BY <2>2, <2>3, Zenon DEF Fits, Working, HostCalls, NetCalls
  <2>5. Timer => Says(next, b)
      BY <1>2, <1>3, <2>2, <2>3, Zenon DEF Says, MayBeLong, rt_lookup
  <2> QED BY <1>1, <1>2, <2>2, <2>3, <2>4, <2>5, PassStep, Zenon
<1> QED BY <1>4, <1>5, Zenon

\* The send functions of TCP and UDP look up the route first.
LEMMA TcpSendOut ==
    ASSUME Sizes, IInv, tcp_send_out
    PROVE  IInv'
<1> DEFINE at == "tcp_send_out"
<1>1. at \in Working /\ In(at) /\ ~Says(at, heap[P])
    BY Zenon DEF tcp_send_out, Working, HostCalls, NetCalls, Says
<1>2. PICK p \in Pkbs : /\ p = P /\ TypeOK /\ heap[p] \in Buffer /\ heap[p].ref \in Nat \ {0}
                        /\ Fits(at, heap[p]) /\ ~Timer
    BY <1>1, Starts, Zenon
<1>3. PICK rt \in {"none", "lo", "eth"} : rt = rt_lookup(heap[p].to)
    BY Zenon DEF rt_lookup
<1>4. CASE rt = "none"
    BY <1>1, <1>2, <1>3, <1>4, DropStep, Zenon DEF tcp_send_out
<1>5. CASE rt # "none"
  <2>1. PICK b \in Buffer : b = [heap[p] EXCEPT !.rt = rt]
      BY <1>2, Sent, Zenon
  <2>2. b.ref = heap[p].ref /\ b.order = "net" /\ ~b.lost
      BY <1>2, <2>1 DEF Buffer, Fits, Working, NetCalls
  <2>3. /\ heap' = [heap EXCEPT ![p] = b] /\ UNCHANGED <<lists, arp>>
        /\ Call(<<Fr("ip_send_out", p)>>)
      BY <1>2, <1>3, <1>5, <2>1, Zenon DEF tcp_send_out, PassTo, TypeOK
  <2>4. Fits("ip_send_out", b) /\ "ip_send_out" \in Working \cup {"free_pkb"}
      BY <2>2, Zenon DEF Fits, Working, HostCalls, NetCalls
  <2> QED BY <1>1, <1>2, <2>2, <2>3, <2>4, PassStep, Zenon
<1> QED BY <1>4, <1>5, Zenon

-----------------------------------------------------------------------------
(* Buffers that are taken, kept and released.                              *)

\* A buffer as its allocation leaves it.
LEMMA NewBuffer ==
    ASSUME NEW kind \in Kinds, NEW from \in Hosts, NEW to \in Hosts
    PROVE  /\ New(kind, from, to) \in Buffer /\ New(kind, from, to).ref = 1
           /\ ~New(kind, from, to).lost /\ New(kind, from, to).order = "net"
           /\ New(kind, from, to).kind = kind /\ New(kind, from, to).frag = "whole"
           /\ New(kind, from, to).rt = "none"
BY Zenon DEF New, Unused, Buffer

\* A buffer with another number of references.
LEMMA Held ==
    ASSUME NEW d \in Buffer, NEW n \in Nat
    PROVE  /\ [d EXCEPT !.ref = n] \in Buffer /\ [d EXCEPT !.ref = n].ref = n
           /\ [d EXCEPT !.ref = n].lost = d.lost /\ [d EXCEPT !.ref = n].order = d.order
BY Zenon DEF Buffer

\* A fragment of a packet.
LEMMA Piece ==
    ASSUME NEW d \in Buffer, NEW g \in {"whole", "first", "later"}
    PROVE  [d EXCEPT !.ref = 1, !.frag = g, !.link = "none"] \in Buffer
BY Zenon DEF Buffer

\* free_pkb() of a buffer gives back one of its references.
LEMMA ReleasedOne ==
    ASSUME NEW d \in Buffer, d.ref >= 1 + Forgot(d)
    PROVE  /\ Released(d) \in Buffer /\ (~d.lost => ~Released(d).lost)
           /\ (d.order = "net" => Released(d).order = "net")
           /\ Released(d).ref + 1 + Forgot(d) = d.ref + Forgot(Released(d))
<1>0. d.ref \in Nat /\ d.lost \in BOOLEAN
    BY Zenon DEF Buffer
<1>1. CASE d.ref = 1
  <2>1. Released(d) = Unused /\ ~d.lost
      BY <1>0, <1>1 DEF Released, Forgot
  <2>2. /\ Unused \in Buffer /\ ~Unused.lost /\ Unused.order = "net" /\ Unused.ref = 0
      BY Zenon DEF Unused, Buffer, Kinds, Hosts
  <2> QED BY <1>1, <2>1, <2>2 DEF Forgot
<1>2. CASE d.ref # 1
  <2>1. PICK n \in Nat : n = d.ref - 1
      BY <1>0 DEF Forgot
  <2>2. Released(d) = [d EXCEPT !.ref = n]
      BY <1>2, <2>1, Zenon DEF Released
  <2>3. Released(d) \in Buffer /\ Released(d).ref = n
        /\ Released(d).lost = d.lost /\ Released(d).order = d.order
      BY <2>2, Held
  <2> QED BY <1>0, <2>1, <2>3 DEF Forgot
<1> QED BY <1>1, <1>2, Zenon

\* The references stay right when the change of each is that of its holders.
LEMMA RefChange ==
    ASSUME Sizes, RefsMatchOwners, TypeOK',
           \A p \in Pkbs : heap'[p].ref + Count(stack, p) + Listed(p) + Forgot(heap[p])
                               = heap[p].ref + Count(stack', p) + Listed(p)' + Forgot(heap'[p])
    PROVE  RefsMatchOwners'
<1> SUFFICES ASSUME NEW p \in Pkbs
             PROVE  heap'[p].ref = Owners(p)' + (IF heap'[p].lost THEN 1 ELSE 0)
    BY Zenon DEF RefsMatchOwners
<1>1. Owners(p) = Count(stack, p) + Listed(p) /\ Owners(p)' = Count(stack', p) + Listed(p)'
    BY Zenon DEF Owners, Count, Listed, Own
<1>2. heap[p].ref = Count(stack, p) + Listed(p) + Forgot(heap[p])
    BY <1>1, Zenon DEF RefsMatchOwners, Forgot
<1>3. /\ Count(stack, p) \in Nat /\ Count(stack', p) \in Nat
      /\ Listed(p) \in Nat /\ Listed(p)' \in Nat
    BY CountFinite, ListedNat, Zenon DEF RefsMatchOwners, TypeOK
<1>4. heap'[p].ref \in Nat /\ Forgot(heap[p]) \in Nat /\ Forgot(heap'[p]) \in Nat
    BY Zenon DEF TypeOK, Buffer, Forgot
<1>5. heap'[p].ref + Count(stack, p) + Listed(p) + Forgot(heap[p])
          = heap[p].ref + Count(stack', p) + Listed(p)' + Forgot(heap'[p])
    BY Zenon
<1>6. heap'[p].ref = Count(stack', p) + Listed(p)' + Forgot(heap'[p])
  <2>1. PICK ref \in Nat, calls \in Nat, calls2 \in Nat, on \in Nat, on2 \in Nat,
             lost \in Nat, lost2 \in Nat :
            /\ ref = heap'[p].ref /\ calls = Count(stack, p) /\ calls2 = Count(stack', p)
            /\ on = Listed(p) /\ on2 = Listed(p)'
            /\ lost = Forgot(heap[p]) /\ lost2 = Forgot(heap'[p])
      BY <1>3, <1>4, Zenon
  <2>2. ref + calls + on + lost = (calls + on + lost) + calls2 + on2 + lost2
      BY <2>1, <1>2, <1>5, Zenon
  <2>3. ref = calls2 + on2 + lost2
      BY <2>2
  <2> QED BY <2>1, <2>3, Zenon
<1> QED BY <1>1, <1>6, Zenon DEF Forgot

\* The calls keep what they rely on when the stack stays, and only those that free a
\* buffer see it change.
LEMMA QuietStep ==
    ASSUME IInv, UNCHANGED stack,
           \A p \in Pkbs : \/ Kept(p)
                           \/ \A i \in DOMAIN stack : stack[i].p = p => stack[i].at = "free_pkb"
    PROVE  FramesGood' /\ OneUser' /\ Borrowed' /\ Reports'
<1>1. stack \in Seq(Frame) /\ "frag" \in Lists
    BY Zenon DEF IInv, RefsMatchOwners, TypeOK, Lists
<1>2. ASSUME NEW i \in DOMAIN stack, NEW f \in Frame, f = stack[i]
      PROVE  Good(f)' /\ (Report(f) => Report(f)')
  <2>1. CASE f.at = "free_pkb"
      BY <2>1, Zenon DEF Good, Report, Says, Working, HostCalls, NetCalls
  <2>2. CASE f.at # "free_pkb"
    <3>1. Kept(f.p)
        BY <1>2, <2>2, Zenon DEF Frame
    <3>2. Good(f)
        BY <1>2, Zenon DEF IInv, FramesGood
    <3> QED BY <3>1, <3>2, <1>1, Zenon DEF Good, Report, Kept
  <2> QED BY <2>1, <2>2, Zenon
<1>3. FramesGood'
    BY <1>1, <1>2 DEF FramesGood
<1>4. OneUser' /\ Borrowed'
    BY Zenon DEF IInv, OneUser, Borrowed
<1>5. Reports'
  <2>1. ASSUME NEW i \in DOMAIN stack, stack[i].at = "delete_frag", NEW k \in DOMAIN stack
        PROVE  i = Len(stack) /\ \A f \in Frame : f = stack[k] => Report(f)'
      BY <1>1, <1>2, <2>1, Zenon DEF IInv, Reports
  <2> QED BY <2>1, <1>1 DEF Reports
<1> QED BY <1>3, <1>4, <1>5, Zenon

\* The buffers of S leave the list k and each loses the reference of the list; those of T
\* are on no list.
LEMMA Discards ==
    ASSUME Sizes, IInv, NEW k \in Lists, NEW S \in SUBSET lists[k], NEW T \in SUBSET Pkbs,
           \A p \in T : \A l \in Lists : p \notin lists[l],
           \A p \in S : heap'[p] = Released(heap[p]),
           \A p \in Pkbs \ (S \cup T) : heap'[p] = heap[p],
           lists' = [lists EXCEPT ![k] = @ \ S]
    PROVE  /\ lists' \in [Lists -> SUBSET Pkbs] /\ Waits'
           /\ \A p \in T : Listed(p) = 0 /\ Listed(p)' = 0
           /\ \A p \in Pkbs \ T :
                  /\ heap'[p] \in Buffer
                  /\ heap'[p].ref + Listed(p) + Forgot(heap[p])
                         = heap[p].ref + Listed(p)' + Forgot(heap'[p])
<1>1. /\ heap \in [Pkbs -> Buffer] /\ lists \in [Lists -> SUBSET Pkbs] /\ Waits
      /\ stack \in Seq(Frame)
    BY Zenon DEF IInv, RefsMatchOwners, TypeOK
<1>2. /\ lists' \in [Lists -> SUBSET Pkbs] /\ lists'[k] = lists[k] \ S
      /\ \A m \in Lists \ {k} : lists'[m] = lists[m]
    BY <1>1, Zenon
<1>3. \A p : /\ Listed(p)' + Bit(p \in lists[k]) = Listed(p) + Bit(p \in lists'[k])
             /\ Listed(p) \in Nat /\ Listed(p)' \in Nat
    BY <1>2, ListedChange, Zenon
<1>4. \A p \in T : Listed(p) = 0 /\ Listed(p)' = 0
    BY <1>2, ListedNat
<1>5. ASSUME NEW l \in Lists, NEW r \in lists'[l]
      PROVE  /\ ~heap'[r].lost /\ \A m \in Lists : r \in lists'[m] => m = l
             /\ l = "arp" => heap'[r].order = "net"
  <2>1. r \in lists[l] /\ \A m \in Lists : r \in lists'[m] => r \in lists[m]
      BY <1>2, Zenon
  <2>2. r \in Pkbs \ (S \cup T)
      BY <2>1, <1>1, <1>2 DEF Waits
  <2> QED BY <2>1, <2>2, <1>1 DEF Waits
<1>6. ASSUME NEW p \in Pkbs \ T
      PROVE  /\ heap'[p] \in Buffer
             /\ heap'[p].ref + Listed(p) + Forgot(heap[p])
                    = heap[p].ref + Listed(p)' + Forgot(heap'[p])
  <2>1. CASE p \in S
    <3>1. Listed(p)' + 1 = Listed(p) /\ Forgot(heap[p]) = 0 /\ ~heap[p].lost
        BY <2>1, <1>1, <1>2, <1>3 DEF Bit, Waits, Forgot
    <3>2. heap[p].ref = Count(stack, p) + Listed(p) + Forgot(heap[p])
        BY Zenon DEF IInv, RefsMatchOwners, Owners, Count, Own, Listed, Forgot
    <3>3. Count(stack, p) \in Nat /\ heap[p] \in Buffer
        BY <1>1, CountFinite, Zenon
    <3>4. heap[p].ref >= 1 + Forgot(heap[p]) /\ heap[p].ref \in Nat
        BY <3>1, <3>2, <3>3, <1>3
    <3>5. /\ heap'[p] \in Buffer /\ ~heap'[p].lost
          /\ heap'[p].ref + 1 + Forgot(heap[p]) = heap[p].ref + Forgot(heap'[p])
        BY <2>1, <3>1, <3>3, <3>4, ReleasedOne
    <3>6. heap'[p].ref \in Nat /\ Forgot(heap'[p]) = 0
        BY <3>5, Zenon DEF Buffer, Forgot
    <3> QED BY <3>1, <3>4, <3>5, <3>6, <1>3
  <2>2. CASE p \notin S
    <3>1. heap'[p] = heap[p] /\ heap[p] \in Buffer /\ Listed(p)' = Listed(p)
        BY <2>2, <1>1, <1>2, <1>3 DEF Bit
    <3> QED BY <3>1
  <2> QED BY <2>1, <2>2, Zenon
<1> QED BY <1>2, <1>4, <1>5, <1>6, Zenon DEF Waits

-----------------------------------------------------------------------------
(* The steps that free buffers.                                            *)

\* A call returns: the calls below it stay good.
LEMMA ReturnStep ==
    ASSUME IInv, stack # <<>>, Call(<<>>), \A p \in Pkbs : Loose(p) \/ Kept(p)
    PROVE  FramesGood' /\ OneUser' /\ Borrowed' /\ Reports'
<1>1. PICK frames \in Seq(Frame) : /\ Call(frames) /\ \A k \in DOMAIN frames : FALSE
                                   /\ Alone(frames) /\ Lent(frames) /\ Told(frames)
  <2>1. \A k \in DOMAIN <<>> : FALSE
      OBVIOUS
  <2> QED BY <2>1, NoCall, Zenon
<1>2. TypeOK /\ FramesGood /\ OneUser /\ Borrowed /\ Reports
    BY Zenon DEF IInv, RefsMatchOwners
<1> QED BY <1>1, <1>2, StackStep, Zenon

\* free_pkb() gives up the reference of its caller.
LEMMA FreePkb ==
    ASSUME Sizes, IInv, free_pkb
    PROVE  IInv'
<1>1. In("free_pkb") /\ heap' = Freed({P}) /\ Call(<<>>) /\ UNCHANGED <<lists, arp>>
    BY Zenon DEF free_pkb
<1>2. PICK p \in Pkbs : /\ p = P /\ TypeOK /\ stack # <<>> /\ Loose(p)
                        /\ heap[p].ref >= 1 + Listed(p) + Forgot(heap[p])
                        /\ \A r : Own(Head(stack), r) <=> r = p
    BY <1>1, Runs, Zenon
<1>3. <<>> \in Seq(Frame)
    OBVIOUS
<1>4. /\ heap'[p] \in Buffer /\ (~heap[p].lost => ~heap'[p].lost)
      /\ (heap[p].order = "net" => heap'[p].order = "net")
      /\ heap'[p].ref + 1 + Forgot(heap[p]) = heap[p].ref + Forgot(heap'[p])
  <2>1. heap[p] \in Buffer /\ heap[p].ref \in Nat /\ Listed(p) \in Nat /\ Forgot(heap[p]) \in Nat
      BY <1>2, ListedNat, Zenon DEF TypeOK, Buffer, Forgot
  <2>2. heap[p].ref >= 1 + Forgot(heap[p])
      BY <1>2, <2>1
  <2>3. heap'[p] = Released(heap[p])
      BY <1>1, <1>2, Zenon DEF Freed
  <2> QED BY <2>1, <2>2, <2>3, ReleasedOne
<1>5. \A r \in Pkbs \ {p} : heap'[r] = heap[r]
    BY <1>1, <1>2, Zenon DEF Freed
<1>6. TypeOK'
  <2>1. heap' \in [Pkbs -> Buffer]
      BY <1>1, <1>2, <1>4, <1>5, Zenon DEF TypeOK, Freed
  <2> QED BY <1>1, <1>2, <1>3, <2>1, CallFrames, Zenon DEF TypeOK
<1>7. FramesGood' /\ OneUser' /\ Borrowed' /\ Reports'
  <2>1. \A r \in Pkbs : Loose(r) \/ Kept(r)
      BY <1>1, <1>2, <1>5, Zenon DEF Kept
  <2> QED BY <1>1, <1>2, <2>1, ReturnStep, Zenon
<1>8. RefsMatchOwners'
  <2>1. ASSUME NEW r \in Pkbs
        PROVE  heap'[r].ref + Bit(Own(Head(stack), r)) + Listed(r) + Forgot(heap[r])
                   = heap[r].ref + Count(<<>>, r) + Listed(r)' + Forgot(heap'[r])
    <3>1. /\ Count(<<>>, r) = 0 /\ Listed(r)' = Listed(r) /\ Listed(r) \in Nat
          /\ Bit(Own(Head(stack), r)) = Bit(r = p)
        BY <1>1, <1>2, CountNone, ListedNat, Zenon DEF Listed, Bit
    <3>2. /\ heap[r].ref \in Nat /\ heap'[r].ref \in Nat
          /\ Forgot(heap[r]) \in Nat /\ Forgot(heap'[r]) \in Nat
        BY <1>2, <1>6, Zenon DEF TypeOK, Buffer, Forgot
    <3>3. CASE r = p
      <4>1. Bit(Own(Head(stack), r)) = 1
          BY <3>1, <3>3 DEF Bit
      <4>2. heap'[r].ref + 1 + Listed(r) + Forgot(heap[r])
                = heap[r].ref + 0 + Listed(r) + Forgot(heap'[r])
        <5>1. PICK ref \in Nat, ref2 \in Nat, on \in Nat, lost \in Nat, lost2 \in Nat :
                  /\ ref = heap[r].ref /\ ref2 = heap'[r].ref /\ on = Listed(r)
                  /\ lost = Forgot(heap[r]) /\ lost2 = Forgot(heap'[r])
            BY <3>1, <3>2, Zenon
        <5>2. ref2 + 1 + lost = ref + lost2
            BY <5>1, <3>3, <1>4, Zenon
        <5>3. ref2 + 1 + on + lost = ref + 0 + on + lost2
            BY <5>2
        <5> QED BY <5>1, <5>3, Zenon
      <4> QED BY <3>1, <4>1, <4>2, Zenon
    <3>4. CASE r # p
      <4>1. Bit(Own(Head(stack), r)) = 0 /\ heap'[r] = heap[r]
          BY <3>1, <3>4, <1>5, Zenon DEF Bit
      <4> QED BY <3>1, <3>2, <4>1, Zenon
    <3> QED BY <3>3, <3>4, Zenon
  <2> QED BY <1>1, <1>2, <1>3, <1>6, <2>1, RefStep, Zenon DEF IInv
<1>9. Waits'
    BY <1>1, <1>2, <1>4, <1>5, ZenonT(30) DEF IInv, Waits, TypeOK
<1> QED BY <1>7, <1>8, <1>9, Zenon DEF IInv

\* Buffers leave a list and are freed, while the calls stay as they are.
LEMMA DiscardStep ==
    ASSUME Sizes, IInv, NEW k \in Lists, NEW S \in SUBSET lists[k], heap' = Freed(S),
           lists' = [lists EXCEPT ![k] = @ \ S], arp' \in {"none", "waiting", "resolved"},
           stack' \in Seq(Frame), \A p \in Pkbs : Count(stack', p) = Count(stack, p),
           FramesGood' /\ OneUser' /\ Borrowed' /\ Reports'
    PROVE  IInv'
<1>1. /\ TypeOK /\ \A p \in S : p \in Pkbs /\ heap'[p] = Released(heap[p])
      /\ \A p \in Pkbs \ (S \cup {}) : heap'[p] = heap[p]
    BY Zenon DEF IInv, RefsMatchOwners, TypeOK, Freed
<1>t. PICK T \in SUBSET Pkbs : T = {}
    BY Zenon
<1>2. /\ lists' \in [Lists -> SUBSET Pkbs] /\ Waits'
      /\ \A p \in Pkbs \ T :
             /\ heap'[p] \in Buffer
             /\ heap'[p].ref + Listed(p) + Forgot(heap[p])
                    = heap[p].ref + Listed(p)' + Forgot(heap'[p])
  <2>1. /\ \A p \in T : \A l \in Lists : p \notin lists[l]
        /\ \A p \in S : heap'[p] = Released(heap[p])
        /\ \A p \in Pkbs \ (S \cup T) : heap'[p] = heap[p]
      BY <1>1, <1>t, Zenon
  <2> QED BY <2>1, Discards, Zenon
<1>3. TypeOK'
    BY <1>t, <1>2, Zenon DEF TypeOK, Freed
<1>4. ASSUME NEW p \in Pkbs
      PROVE  heap'[p].ref + Count(stack, p) + Listed(p) + Forgot(heap[p])
                 = heap[p].ref + Count(stack', p) + Listed(p)' + Forgot(heap'[p])
  <2>1. Count(stack, p) \in Nat /\ Listed(p) \in Nat /\ Listed(p)' \in Nat
      BY <1>1, CountFinite, ListedNat, Zenon DEF TypeOK
  <2>2. /\ heap[p].ref \in Nat /\ heap'[p].ref \in Nat
        /\ Forgot(heap[p]) \in Nat /\ Forgot(heap'[p]) \in Nat
      BY <1>1, <1>3, Zenon DEF TypeOK, Buffer, Forgot
  <2>3. /\ heap'[p].ref + Listed(p) + Forgot(heap[p])
               = heap[p].ref + Listed(p)' + Forgot(heap'[p])
        /\ Count(stack', p) = Count(stack, p)
      BY <1>t, <1>2, Zenon
  <2>4. heap'[p].ref + Count(stack, p) + Listed(p) + Forgot(heap[p])
            = heap[p].ref + Count(stack, p) + Listed(p)' + Forgot(heap'[p])
    <3>1. PICK ref \in Nat, ref2 \in Nat, on \in Nat, on2 \in Nat, lost \in Nat, lost2 \in Nat,
               n \in Nat :
              /\ ref = heap[p].ref /\ ref2 = heap'[p].ref /\ on = Listed(p) /\ on2 = Listed(p)'
              /\ lost = Forgot(heap[p]) /\ lost2 = Forgot(heap'[p]) /\ n = Count(stack, p)
        BY <2>1, <2>2, Zenon
    <3>2. ref2 + on + lost = ref + on2 + lost2
        BY <3>1, <2>3, Zenon
    <3>3. ref2 + n + on + lost = ref + n + on2 + lost2
        BY <3>2
    <3> QED BY <3>1, <3>3, Zenon
  <2> QED BY <2>3, <2>4, Zenon
<1> QED BY <1>2, <1>3, <1>4, RefChange, Zenon DEF IInv

\* A read of the application, next to the calls of the thread inside the stack.
LEMMA Consumed ==
    ASSUME Sizes, IInv, NEW k \in {"udp", "raw", "tcp"}, Consume(k)
    PROVE  IInv'
<1>1. PICK p \in lists[k] : /\ heap' = Freed({p}) /\ lists' = [lists EXCEPT ![k] = @ \ {p}]
                            /\ UNCHANGED <<arp, stack>>
    BY Zenon DEF Consume
<1>2. TypeOK /\ k \in Lists \ {"frag"} /\ {p} \in SUBSET lists[k]
    BY Zenon DEF IInv, RefsMatchOwners, Lists
<1>3. ASSUME NEW i \in DOMAIN stack, stack[i].p = p PROVE stack[i].at = "free_pkb"
  <2>1. Good(stack[i]) /\ stack[i] \in Frame
      BY <1>2 DEF IInv, FramesGood, TypeOK
  <2> QED BY <1>2, <1>3, <2>1, Zenon DEF Good, Working, HostCalls, NetCalls, Frame, Calls
<1>4. \A r \in Pkbs \ {p} : Kept(r)
    BY <1>1, <1>2, Zenon DEF Kept, Freed, TypeOK
<1>5. FramesGood' /\ OneUser' /\ Borrowed' /\ Reports'
    BY <1>1, <1>3, <1>4, QuietStep, Zenon
<1> QED BY <1>1, <1>2, <1>5, DiscardStep, Zenon DEF TypeOK

\* arp_timer() frees the packets that wait for the peer's address.
LEMMA ArpTimer ==
    ASSUME Sizes, IInv, arp_timer
    PROVE  IInv'
<1>1. /\ TypeOK /\ "arp" \in Lists /\ stack = <<>> /\ stack' = <<>> /\ arp' = "none"
      /\ heap' = Freed(lists["arp"])
    BY Zenon DEF arp_timer, IInv, RefsMatchOwners, Lists
<1>2. lists' = [lists EXCEPT !["arp"] = @ \ lists["arp"]]
    BY <1>1, Zenon DEF arp_timer, TypeOK
<1>3. FramesGood' /\ OneUser' /\ Borrowed' /\ Reports'
    BY <1>1 DEF FramesGood, OneUser, Alone, Borrowed, Lent, Reports
<1> QED BY <1>1, <1>2, <1>3, DiscardStep, Zenon DEF TypeOK

\* ip_timer() deletes the fragments when its report is on its way.
LEMMA DeleteFrag ==
    ASSUME Sizes, IInv, delete_frag
    PROVE  IInv'
<1>1. /\ TypeOK /\ "frag" \in Lists /\ In("delete_frag") /\ Call(<<>>) /\ arp' = arp
      /\ heap' = Freed(lists["frag"]) /\ stack \in Seq(Frame) /\ stack # <<>>
    BY Zenon DEF delete_frag, In, IInv, RefsMatchOwners, TypeOK, Lists
<1>2. Len(stack) = 1 /\ Head(stack).at = "delete_frag"
  <2>1. 1 \in DOMAIN stack /\ stack[1].at = "delete_frag" /\ Head(stack) = stack[1]
      BY <1>1 DEF In
  <2> QED BY <2>1, Zenon DEF IInv, Reports
<1>3. stack' = <<>> /\ stack' \in Seq(Frame) /\ arp' \in {"none", "waiting", "resolved"}
    BY <1>1, <1>2 DEF Call, TypeOK
<1>4. \A p \in Pkbs : Count(stack', p) = Count(stack, p)
  <2>1. \A p : ~Own(Head(stack), p)
      BY <1>2, Zenon DEF Own, Owning
  <2>2. ASSUME NEW p \in Pkbs PROVE Count(stack', p) = Count(stack, p)
    <3>1. /\ Count(stack', p) + Bit(Own(Head(stack), p)) = Count(<<>>, p) + Count(stack, p)
          /\ Count(stack, p) \in Nat /\ Count(stack', p) \in Nat
        BY <1>1, NoCall, CallCount, Zenon
    <3>2. Bit(Own(Head(stack), p)) = 0 /\ Count(<<>>, p) = 0
        BY <2>1, CountNone, Zenon DEF Bit
    <3> QED BY <3>1, <3>2
  <2> QED BY <2>2, Zenon
<1>5. lists' = [lists EXCEPT !["frag"] = @ \ lists["frag"]]
    BY <1>1, Zenon DEF delete_frag, TypeOK
<1>6. FramesGood' /\ OneUser' /\ Borrowed' /\ Reports'
    BY <1>3 DEF FramesGood, OneUser, Alone, Borrowed, Lent, Reports
<1> QED BY <1>1, <1>3, <1>4, <1>5, <1>6, DiscardStep, Zenon

-----------------------------------------------------------------------------
(* Where calls begin, and icmp_send().                                     *)

\* A new buffer q enters with one call; no other changes.
LEMMA EnterStep ==
    ASSUME Sizes, IInv, NEW b \in Buffer, NEW at \in NetCalls, Enter(b, at),
           b.ref = 1, b.order = "net", ~b.lost
    PROVE  IInv'
<1>1. PICK q \in Pkbs : /\ q = alloc_pkb /\ heap[q].ref = 0 /\ ~heap[q].lost
                        /\ \A l \in Lists : q \notin lists[l]
    BY Fresh, Zenon DEF Enter
<1>2. PICK f \in Frame : f = Fr(at, q)
    BY Zenon DEF Fr, Frame, Calls, NetCalls
<1>3. /\ TypeOK /\ heap' = [heap EXCEPT ![q] = b] /\ stack = <<>> /\ stack' = <<f>>
      /\ UNCHANGED <<lists, arp>>
    BY <1>1, <1>2, Zenon DEF Enter, IInv, RefsMatchOwners
<1>4. /\ heap' \in [Pkbs -> Buffer] /\ heap'[q] = b /\ \A r \in Pkbs \ {q} : heap'[r] = heap[r]
    BY <1>3, Zenon DEF TypeOK
<1>5. DOMAIN stack' = {1} /\ stack'[1] = f /\ stack' \in Seq(Frame)
    BY <1>3
<1>6. f.at = at /\ f.p = q /\ at \notin {"icmp_send", "delete_frag"} \cup HostCalls /\ Own(f, q)
    BY <1>2, Zenon DEF Fr, NetCalls, HostCalls, Own, Owning, Calls
<1>7. FramesGood'
  <2>1. Good(f)'
      BY <1>1, <1>3, <1>4, <1>6 DEF Good
  <2> QED BY <2>1, <1>5, Zenon DEF FramesGood
<1>8. OneUser' /\ Borrowed' /\ Reports'
    BY <1>5, <1>6 DEF OneUser, Alone, Borrowed, Lent, Reports
<1>9. RefsMatchOwners'
  <2>1. TypeOK'
      BY <1>3, <1>4, <1>5, Zenon DEF TypeOK
  <2>2. ASSUME NEW r \in Pkbs
        PROVE  heap'[r].ref + Count(stack, r) + Listed(r) + Forgot(heap[r])
                   = heap[r].ref + Count(stack', r) + Listed(r)' + Forgot(heap'[r])
    <3>1. /\ Count(stack, r) = 0 /\ Count(stack', r) = Bit(r = q)
          /\ Listed(r)' = Listed(r) /\ Listed(r) \in Nat
      <4>1. Count(stack', r) = Bit(Own(f, r))
          BY <1>3, CountOne, Zenon
      <4>2. Own(f, r) <=> r = q
          BY <1>6, Zenon DEF Own
      <4> QED BY <1>3, <4>1, <4>2, CountNone, ListedNat, Zenon DEF Listed, Bit
    <3>2. CASE r = q
      <4>1. Forgot(heap[r]) = 0 /\ Forgot(heap'[r]) = 0 /\ Bit(r = q) = 1
          BY <3>2, <1>1, <1>4, Zenon DEF Forgot, Bit
      <4> QED BY <3>1, <3>2, <4>1, <1>1, <1>4
    <3>3. CASE r # q
      <4>1. heap'[r] = heap[r] /\ Bit(r = q) = 0
          BY <3>3, <1>4, Zenon DEF Bit
      <4> QED BY <3>1, <4>1, Zenon
    <3> QED BY <3>2, <3>3, Zenon
  <2> QED BY <2>1, <2>2, RefChange, Zenon DEF IInv
<1>10. Waits'
    BY <1>1, <1>3, <1>4 DEF IInv, Waits, TypeOK
<1> QED BY <1>7, <1>8, <1>9, <1>10, Zenon DEF IInv

\* A device's thread, and a socket.
LEMMA Enters ==
    ASSUME Sizes, IInv, (\E a \in Arrivals : Arrive(a)) \/ (\E s \in Sends : Send(s))
    PROVE  IInv'
<1>1. CASE \E a \in Arrivals : Arrive(a)
  <2>1. PICK a \in Arrivals : Arrive(a)
      BY <1>1, Zenon
  <2>2. a.kind \in Kinds /\ a.to \in Hosts /\ "peer" \in Hosts
        /\ a.link \in {"none", "local", "other", "multi"} /\ a.frag \in {"whole", "first", "later"}
      BY InputsAssumption, Zenon DEF Hosts
  <2>3. PICK d \in Buffer : /\ d = New(a.kind, "peer", a.to)
                            /\ d.ref = 1 /\ d.order = "net" /\ ~d.lost
      BY <2>2, NewBuffer
  <2>4. PICK b \in Buffer : b = [d EXCEPT !.link = a.link, !.frag = a.frag]
      BY <2>2, Zenon DEF Buffer
  <2>5. b.ref = 1 /\ b.order = "net" /\ ~b.lost /\ "net_in" \in NetCalls
      BY <2>3, <2>4 DEF Buffer, NetCalls
  <2>6. Enter(b, "net_in")
      BY <2>1, <2>3, <2>4, Zenon DEF Arrive
  <2> QED BY <2>5, <2>6, EnterStep, Zenon
<1>2. CASE \E s \in Sends : Send(s)
  <2>1. PICK s \in Sends : Send(s)
      BY <1>2, Zenon
  <2>2. s.kind \in Kinds /\ s.to \in Hosts /\ "me" \in Hosts
      BY InputsAssumption, Zenon DEF Hosts, IpKinds
  <2>3. PICK b \in Buffer : /\ b = New(s.kind, "me", s.to)
                            /\ b.ref = 1 /\ b.order = "net" /\ ~b.lost
      BY <2>2, NewBuffer
  <2>4. PICK at \in NetCalls :
            at = IF s.kind \in {"udp", "tcp"} THEN "tcp_send_out" ELSE "ip_send_out"
      BY Zenon DEF NetCalls
  <2>5. Enter(b, at)
      BY <2>1, <2>3, <2>4, Zenon DEF Send
  <2> QED BY <2>3, <2>5, EnterStep, Zenon
<1> QED BY <1>1, <1>2, Zenon

\* ip_timer() lends the first fragment to icmp_send() and frees the fragments afterwards.
LEMMA IpTimer ==
    ASSUME Sizes, IInv, ip_timer
    PROVE  IInv'
<1>1. PICK p \in lists["frag"] : /\ heap' = [heap EXCEPT ![p].order = Swapped(@)]
                                 /\ stack' = <<Fr("icmp_send", p), Fr("delete_frag", p)>>
    BY Zenon DEF ip_timer
<1>2. /\ TypeOK /\ stack = <<>> /\ UNCHANGED <<lists, arp>> /\ p \in Pkbs /\ "frag" \in Lists
      /\ heap[p] \in Buffer
    BY Zenon DEF ip_timer, IInv, RefsMatchOwners, TypeOK, Lists
<1>3. PICK b \in Buffer : b = [heap[p] EXCEPT !.order = Swapped(@)]
    BY <1>2, Zenon DEF Buffer, Swapped
<1>4. b.ref = heap[p].ref /\ b.lost = heap[p].lost /\ heap' = [heap EXCEPT ![p] = b]
    BY <1>1, <1>2, <1>3, Zenon DEF TypeOK, Buffer
<1>5. /\ heap' \in [Pkbs -> Buffer] /\ heap'[p] = b /\ \A r \in Pkbs \ {p} : heap'[r] = heap[r]
    BY <1>2, <1>4, Zenon DEF TypeOK
<1>6. PICK f \in Frame, g \in Frame : f = Fr("icmp_send", p) /\ g = Fr("delete_frag", p)
    BY <1>2, Zenon DEF Fr, Frame, Calls
<1>7. /\ stack' \in Seq(Frame) /\ stack' = <<f, g>> /\ Len(stack') = 2
      /\ DOMAIN stack' = {1, 2} /\ stack'[1] = f /\ stack'[2] = g
    BY <1>1, <1>6
<1>8. f.at = "icmp_send" /\ f.p = p /\ g.at = "delete_frag" /\ g.p = p
    BY <1>6, Zenon DEF Fr
<1>9. \A l \in Lists \ {"frag"} : p \notin lists[l]
    BY <1>2, Zenon DEF IInv, Waits
<1>10. FramesGood'
  <2>1. Good(f)' /\ Good(g)'
      BY <1>2, <1>8, <1>9, Zenon DEF Good, Working, HostCalls, NetCalls
  <2> QED BY <2>1, <1>7, Zenon DEF FramesGood
<1>11. OneUser' /\ Borrowed'
    BY <1>7, <1>8 DEF OneUser, Alone, Borrowed, Lent
<1>12. Reports'
  <2>1. Report(f)' /\ Report(g)'
      BY <1>8, Zenon DEF Report, Says
  <2> QED BY <2>1, <1>7, <1>8, Zenon DEF Reports
<1>13. RefsMatchOwners'
  <2>1. TypeOK'
      BY <1>2, <1>5, <1>7, Zenon DEF TypeOK
  <2>2. ASSUME NEW r \in Pkbs
        PROVE  heap'[r].ref + Count(stack, r) + Listed(r) + Forgot(heap[r])
                   = heap[r].ref + Count(stack', r) + Listed(r)' + Forgot(heap'[r])
    <3>1. Count(stack, r) = 0 /\ Count(stack', r) = 0
      <4>1. Count(stack', r) = Bit(Own(f, r)) + Bit(Own(g, r))
          BY <1>7, CountTwo, Zenon
      <4>2. ~Own(f, r) /\ ~Own(g, r)
          BY <1>8, Zenon DEF Own, Owning
      <4> QED BY <1>2, <4>1, <4>2, CountNone DEF Bit
    <3>2. heap'[r].ref = heap[r].ref /\ Forgot(heap'[r]) = Forgot(heap[r])
        BY <1>4, <1>5, Zenon DEF Forgot
    <3>3. Listed(r)' = Listed(r)
        BY <1>2, Zenon DEF Listed
    <3> QED BY <3>1, <3>2, <3>3, Zenon
  <2> QED BY <2>1, <2>2, RefChange, Zenon DEF IInv
<1>14. Waits'
    BY <1>2, <1>4, <1>5, <1>9 DEF IInv, Waits, TypeOK
<1> QED BY <1>10, <1>11, <1>12, <1>13, <1>14, Zenon DEF IInv

\* icmp_send() returns to the caller that lent its packet, or reports an error about it
\* in a buffer of its own.
LEMMA IcmpSend ==
    ASSUME Sizes, IInv, icmp_send
    PROVE  IInv'
<1>1. /\ TypeOK /\ stack \in Seq(Frame) /\ stack # <<>> /\ UNCHANGED <<lists, arp>>
      /\ Head(stack).at = "icmp_send"
    BY Zenon DEF icmp_send, In, IInv, RefsMatchOwners, TypeOK
<1>2. /\ P \in Pkbs /\ heap[P] \in Buffer
      /\ \A r : ~Own(Head(stack), r) /\ Bit(Own(Head(stack), r)) = 0
  <2>1. Head(stack) \in Frame
      BY <1>1
  <2> QED BY <1>1, <2>1, Zenon DEF P, Frame, Own, Owning, TypeOK, Bit
<1>3. CASE Call(<<>>) /\ UNCHANGED heap
  <2>1. FramesGood' /\ OneUser' /\ Borrowed' /\ Reports'
    <3>1. \A r \in Pkbs : Kept(r)
        BY <1>1, <1>3, Zenon DEF Kept
    <3> QED BY <1>1, <1>3, <3>1, ReturnStep, Zenon
  <2>2. RefsMatchOwners'
    <3>1. <<>> \in Seq(Frame) /\ TypeOK'
      <4>1. <<>> \in Seq(Frame)
          OBVIOUS
      <4>2. stack' \in Seq(Frame)
          BY <1>1, <1>3, <4>1, CallFrames, Zenon
      <4> QED BY <1>1, <1>3, <4>1, <4>2, Zenon DEF TypeOK
    <3>2. ASSUME NEW r \in Pkbs
          PROVE  heap'[r].ref + Bit(Own(Head(stack), r)) + Listed(r) + Forgot(heap[r])
                     = heap[r].ref + Count(<<>>, r) + Listed(r)' + Forgot(heap'[r])
      <4>1. heap'[r] = heap[r] /\ Listed(r)' = Listed(r) /\ Count(<<>>, r) = 0
          BY <1>1, <1>3, CountNone, Zenon DEF Listed
      <4> QED BY <1>2, <4>1, Zenon
    <3> QED BY <1>1, <1>3, <3>1, <3>2, RefStep, Zenon DEF IInv
  <2>3. Waits'
      BY <1>1, <1>3, Zenon DEF IInv, Waits
  <2> QED BY <2>1, <2>2, <2>3, Zenon DEF IInv
<1>4. CASE ~(Call(<<>>) /\ UNCHANGED heap)
  <2>1. HasRoom
      BY <1>4, Zenon DEF icmp_send
  <2>2. PICK q \in Pkbs : /\ q = alloc_pkb /\ heap[q].ref = 0 /\ ~heap[q].lost
                          /\ (\A l \in Lists : q \notin lists[l]) /\ Loose(q)
      BY <2>1, Fresh, Zenon
  <2>k. PICK kind \in Kinds, me \in Hosts : kind = "icmp error" /\ me = "me"
      BY Zenon DEF Kinds, Hosts
  <2>c. PICK c : c = New(kind, me, heap[P].from)
      BY Zenon
  <2>3. /\ c \in Buffer /\ c.ref = 1 /\ ~c.lost /\ c.order = "net" /\ c.kind = "icmp error"
        /\ c.frag = "whole" /\ c.rt = "none"
    <3>1. heap[P].from \in Hosts
        BY <1>2, Zenon DEF Buffer
    <3>2. /\ c \in Buffer /\ c.ref = 1 /\ ~c.lost /\ c.order = "net" /\ c.kind = kind
          /\ c.frag = "whole" /\ c.rt = "none"
        BY <2>c, <3>1, NewBuffer
    <3> QED BY <2>k, <3>2, Zenon
  <2>4. PICK f \in Frame : f = Fr("ip_send_out", q)
      BY Zenon DEF Fr, Frame, Calls
  <2>5. heap' = [heap EXCEPT ![q] = c] /\ Call(<<f>>)
      BY <1>4, <2>2, <2>k, <2>c, <2>4, Zenon DEF icmp_send
  <2>6. /\ heap' \in [Pkbs -> Buffer] /\ heap'[q] = c /\ \A r \in Pkbs \ {q} : heap'[r] = heap[r]
      BY <1>1, <2>3, <2>5, Zenon DEF TypeOK
  <2>7. f.at = "ip_send_out" /\ f.p = q /\ \A r : Own(f, r) <=> r = q
      BY <2>4, Zenon DEF Fr, Own, Owning, Calls
  <2>8. <<f>> \in Seq(Frame) /\ Alone(<<f>>) /\ Lent(<<f>>) /\ Told(<<f>>)
    <3>1. Report(f)'
        BY <2>3, <2>6, <2>7, Zenon DEF Report, Says
    <3>2. Fine(f, q, q, {})
        BY <2>3, <2>6, <2>7, <3>1, Zenon DEF Fine, Fits, HostCalls
    <3> QED BY <2>7, <3>2, OneCall, Zenon
  <2>9. FramesGood' /\ OneUser' /\ Borrowed' /\ Reports'
    <3>1. \A r \in Pkbs : Loose(r) \/ Kept(r)
        BY <1>1, <2>2, <2>6, Zenon DEF Kept
    <3>2. Good(f)'
        BY <1>1, <2>2, <2>3, <2>6, <2>7, Zenon DEF Good, HostCalls
    <3>3. DOMAIN <<f>> = {1} /\ <<f>>[1] = f
        OBVIOUS
    <3>4. \A k \in DOMAIN <<f>> : /\ Loose(<<f>>[k].p) /\ Good(<<f>>[k])'
                                  /\ <<f>>[k].at # "delete_frag"
        BY <2>2, <2>7, <3>2, <3>3, Zenon
    <3>5. TypeOK /\ FramesGood /\ OneUser /\ Borrowed /\ Reports
        BY <1>1, Zenon DEF IInv
    <3> QED BY <1>1, <2>5, <2>8, <3>1, <3>4, <3>5, StackStep, Zenon
  <2>10. RefsMatchOwners'
    <3>1. TypeOK'
        BY <1>1, <2>5, <2>6, <2>8, CallFrames, Zenon DEF TypeOK
    <3>2. ASSUME NEW r \in Pkbs
          PROVE  heap'[r].ref + Bit(Own(Head(stack), r)) + Listed(r) + Forgot(heap[r])
                     = heap[r].ref + Count(<<f>>, r) + Listed(r)' + Forgot(heap'[r])
      <4>1. /\ Listed(r)' = Listed(r) /\ Listed(r) \in Nat /\ Bit(Own(Head(stack), r)) = 0
            /\ Count(<<f>>, r) = Bit(r = q)
        <5>1. Count(<<f>>, r) = Bit(Own(f, r))
            BY CountOne, Zenon
        <5> QED BY <1>1, <1>2, <2>7, <5>1, ListedNat, Zenon DEF Listed, Bit
      <4>2. CASE r = q
        <5>1. Forgot(heap[r]) = 0 /\ Forgot(heap'[r]) = 0 /\ Bit(r = q) = 1
            BY <4>2, <2>2, <2>3, <2>6, Zenon DEF Forgot, Bit
        <5>2. heap[r].ref = 0 /\ heap'[r].ref = 1
            BY <4>2, <2>2, <2>3, <2>6, Zenon
        <5> QED BY <4>1, <5>1, <5>2
      <4>3. CASE r # q
        <5>1. heap'[r] = heap[r] /\ Bit(r = q) = 0
            BY <4>3, <2>6, Zenon DEF Bit
        <5> QED BY <4>1, <5>1, Zenon
      <4> QED BY <4>2, <4>3, Zenon
    <3> QED BY <1>1, <2>5, <2>8, <3>1, <3>2, RefStep, Zenon DEF IInv
  <2>11. Waits'
      BY <1>1, <2>2, <2>6 DEF IInv, Waits, TypeOK
  <2> QED BY <2>9, <2>10, <2>11, Zenon DEF IInv
<1> QED BY <1>3, <1>4, Zenon
-----------------------------------------------------------------------------
(* TCP, and the rest of the output.                                        *)

\* tcp_in() drops, keeps, answers or forgets the segment.
LEMMA TcpIn ==
    ASSUME Sizes, IInv, tcp_in
    PROVE  IInv'
<1> DEFINE at == "tcp_in"
<1>1. at \in Working /\ In(at) /\ ~Says(at, heap[P])
    BY Zenon DEF tcp_in, Working, HostCalls, NetCalls, Says
<1>2. PICK p \in Pkbs : /\ p = P /\ TypeOK /\ heap[p] \in Buffer /\ heap[p].ref \in Nat \ {0}
                        /\ ~Timer /\ ~heap[p].lost
    BY <1>1, Starts, Zenon DEF Fits
<1>3. CASE Drop
    BY <1>1, <1>3, DropStep, Zenon
<1>4. ASSUME HasRoom, NEW kind \in {"tcp", "rst"}
      PROVE  \E q \in Pkbs, c \in Buffer :
                 /\ q = alloc_pkb /\ q # p /\ c = New(kind, "me", heap[P].from)
                 /\ c.ref = 1 /\ ~c.lost /\ c.order = "net"
  <2>1. kind \in Kinds /\ "me" \in Hosts /\ heap[P].from \in Hosts
      BY <1>2, Zenon DEF Kinds, Hosts, Buffer
  <2>2. alloc_pkb \in Pkbs /\ alloc_pkb # p
      BY <1>2, <1>4, Fresh, Zenon
  <2>3. PICK c \in Buffer : /\ c = New(kind, "me", heap[P].from)
                            /\ c.ref = 1 /\ ~c.lost /\ c.order = "net"
      BY <2>1, NewBuffer
  <2> QED BY <2>2, <2>3, Zenon
<1>5. ASSUME NEW keep \in BOOLEAN,
             lists' = [lists EXCEPT !["tcp"] = IF keep THEN @ \cup {P} ELSE @], UNCHANGED arp,
             \/ heap' = tcp_segment_reass(keep) /\ Call(<<Fr("free_pkb", P)>>)
             \/ \E a \in Answers(heap[P]) :
                /\ HasRoom
                /\ heap' = [tcp_segment_reass(keep) EXCEPT
                                ![alloc_pkb] = New(a, "me", heap[P].from)]
                /\ Call(<<Fr("tcp_send_out", alloc_pkb), Fr("free_pkb", P)>>)
      PROVE  IInv'
  <2>1. PICK X \in SUBSET {p} : X = IF keep THEN {p} ELSE {}
      BY Zenon
  <2>2. PICK n \in Nat : /\ n = heap[p].ref + Bit(p \in X)
                         /\ n = IF keep THEN heap[p].ref + 1 ELSE heap[p].ref
      BY <1>2, <2>1 DEF Bit
  <2>b. PICK b : b = [heap[p] EXCEPT !.ref = n]
      BY Zenon
  <2>3. b \in Buffer /\ b.ref = n /\ ~b.lost
      BY <1>2, <2>b, Held, Zenon
  <2>4. /\ tcp_segment_reass(keep) = [heap EXCEPT ![p] = b] /\ "tcp" \in Lists
        /\ lists' = [lists EXCEPT !["tcp"] = @ \cup X]
      BY <1>2, <1>5, <2>1, <2>2, <2>b, Zenon DEF tcp_segment_reass, TypeOK, Lists
  <2>5. Fits("free_pkb", b) /\ "free_pkb" \in Working \cup {"free_pkb"}
      BY Zenon DEF Fits, Working, HostCalls, NetCalls
  <2>6. CASE heap' = tcp_segment_reass(keep) /\ Call(<<Fr("free_pkb", P)>>)
    <3>1. PICK f \in Frame : f = Fr("free_pkb", p)
        BY Zenon DEF Fr, Frame, Calls
    <3>2. /\ heap' = [heap EXCEPT ![p] = b] /\ Call(<<f>>) /\ heap'[p] = b
          /\ f.at = "free_pkb" /\ f.p = p /\ Own(f, p)
        BY <1>2, <2>4, <2>6, <3>1, Zenon DEF TypeOK, Fr, Own, Owning, Calls
    <3>3. Changes(p, p, b, b, "tcp", X)
        BY <1>2, <1>5, <2>3, <2>4, <3>2, Zenon DEF Changes, TypeOK
    <3>4. Balanced(<<f>>, p, p, b, b, X)
      <4>1. Count(<<f>>, p) = 1 /\ Forgot(b) = 0 /\ Bit(p \in X) \in Nat
          BY <1>2, <2>3, <3>2, CountOne, Zenon DEF Bit, Forgot
      <4> QED BY <1>2, <2>2, <2>3, <4>1 DEF Balanced
    <3>5. Fine(f, p, p, X)
        BY <1>2, <2>5, <3>2, Zenon DEF Fine
    <3>6. /\ <<f>> \in Seq(Frame) /\ Hands(<<f>>, p, p, X)
          /\ Alone(<<f>>) /\ Lent(<<f>>) /\ Told(<<f>>)
        BY <3>2, <3>5, OneCall, Zenon
    <3> QED BY <1>1, <1>2, <2>3, <2>4, <3>2, <3>3, <3>4, <3>6, WorkStep, Zenon
  <2>7. CASE ~(heap' = tcp_segment_reass(keep) /\ Call(<<Fr("free_pkb", P)>>))
    <3>1. PICK a \in {"tcp", "rst"} :
              /\ HasRoom
              /\ heap' = [tcp_segment_reass(keep) EXCEPT ![alloc_pkb] = New(a, "me", heap[P].from)]
              /\ Call(<<Fr("tcp_send_out", alloc_pkb), Fr("free_pkb", P)>>)
        BY <1>5, <2>7, Zenon DEF Answers
    <3>2. PICK q \in Pkbs, c \in Buffer :
              /\ q = alloc_pkb /\ q # p /\ c = New(a, "me", heap[P].from)
              /\ c.ref = 1 /\ ~c.lost /\ c.order = "net"
        BY <3>1, <1>4, Zenon
    <3>3. /\ heap' = [heap EXCEPT ![q] = c, ![p] = b] /\ "tcp_send_out" \in NetCalls
          /\ Call(<<Fr("tcp_send_out", q), Fr("free_pkb", p)>>) /\ UNCHANGED arp
          /\ lists' = [lists EXCEPT !["tcp"] = @ \cup X] /\ HasRoom
      <4>1. heap' = [[heap EXCEPT ![p] = b] EXCEPT ![q] = c]
          BY <2>4, <3>1, <3>2, Zenon
      <4>2. heap' = [heap EXCEPT ![q] = c, ![p] = b]
          BY <1>2, <3>2, <4>1, Zenon DEF TypeOK
      <4> QED BY <1>2, <1>5, <2>4, <3>1, <3>2, <4>2, Zenon DEF NetCalls
    <3>4. ~b.lost /\ b.ref = heap[p].ref + Bit(p \in X)
        BY <1>2, <2>2, <2>3, Zenon
    <3> QED BY <1>1, <1>2, <2>3, <2>5, <3>2, <3>3, <3>4, SendStep, Zenon
  <2> QED BY <2>6, <2>7, Zenon
<1>6. CASE /\ HasRoom /\ UNCHANGED <<lists, arp>>
           /\ heap' = [heap EXCEPT ![alloc_pkb] = New("tcp", "me", heap[P].from), ![P].lost = TRUE]
           /\ Call(<<Fr("tcp_send_out", alloc_pkb)>>)
  <2>1. PICK q \in Pkbs, c \in Buffer :
            /\ q = alloc_pkb /\ q # p /\ c = New("tcp", "me", heap[P].from)
            /\ c.ref = 1 /\ ~c.lost /\ c.order = "net"
      BY <1>4, <1>6, Zenon
  <2>2. PICK b \in Buffer : b = [heap[p] EXCEPT !.lost = TRUE]
      BY <1>2, Zenon DEF Buffer
  <2>3. b.ref = heap[p].ref /\ b.lost
      BY <1>2, <2>2, Zenon DEF Buffer
  <2>4. PICK f \in Frame : f = Fr("tcp_send_out", q)
      BY Zenon DEF Fr, Frame, Calls
  <2>5. /\ heap' = [heap EXCEPT ![q] = c, ![p] = b] /\ Call(<<f>>) /\ heap'[q] = c
        /\ f.at = "tcp_send_out" /\ f.p = q /\ Own(f, q) /\ ~Own(f, p)
        /\ UNCHANGED <<lists, arp>> /\ HasRoom
      BY <1>2, <1>6, <2>1, <2>2, <2>4, Zenon DEF TypeOK, Fr, Own, Owning, Calls
  <2>6. Changes(p, q, b, c, "tcp", {}) /\ "tcp" \in Lists
      BY <1>2, <2>5, Zenon DEF Changes, TypeOK, Lists
  <2>7. Balanced(<<f>>, p, q, b, c, {})
    <3>1. /\ Count(<<f>>, p) = 0 /\ Count(<<f>>, q) = 1 /\ Forgot(b) = 1 /\ Forgot(c) = 0
          /\ Bit(p \in {}) = 0 /\ Bit(q \in {}) = 0
        BY <2>1, <2>3, <2>5, CountOne, Zenon DEF Bit, Forgot
    <3> QED BY <1>2, <2>1, <2>3, <3>1 DEF Balanced
  <2>8. Fine(f, p, q, {})
      BY <1>2, <2>1, <2>5, Zenon DEF Fine, Fits, HostCalls
  <2>9. /\ <<f>> \in Seq(Frame) /\ Hands(<<f>>, p, q, {})
        /\ Alone(<<f>>) /\ Lent(<<f>>) /\ Told(<<f>>)
      BY <2>5, <2>8, OneCall, Zenon
  <2> QED BY <1>1, <1>2, <2>1, <2>5, <2>6, <2>7, <2>9, WorkStep, Zenon
<1> QED BY <1>3, <1>5, <1>6, Zenon DEF tcp_in

\* ip_send_frag() sends the two fragments and frees the packet.
LEMMA IpSendFrag ==
    ASSUME Sizes, IInv, ip_send_frag
    PROVE  IInv'
<1>1. PICK at \in {"ip_send_frag", "send_last_frag"}, next \in {"send_last_frag", "free_pkb"},
           frag \in {"first", "later"} : In(at) /\ SendFrag(frag, next)
    BY Zenon DEF ip_send_frag
<1>2. at \in Working /\ ~Says(at, heap[P])
    BY Zenon DEF Working, HostCalls, NetCalls, Says
<1>3. PICK p \in Pkbs : /\ p = P /\ TypeOK /\ heap[p] \in Buffer /\ heap[p].ref \in Nat \ {0}
                        /\ ~Timer /\ Fits(at, heap[p])
    BY <1>1, <1>2, Starts, Zenon
<1>4. PICK b \in Buffer : b = heap[p] /\ b.ref = heap[p].ref /\ ~b.lost /\ b.order = "net"
    BY <1>2, <1>3, Zenon DEF Fits, NetCalls
<1>5. PICK q \in Pkbs : HasRoom /\ q = alloc_pkb /\ q # p
    BY <1>1, <1>3, Fresh, Zenon DEF SendFrag
<1>6. PICK g \in {"whole", "first", "later"} : g = IF heap[p].frag = "later" THEN "later" ELSE frag
    BY Zenon
<1>7. PICK c \in Buffer : c = [heap[p] EXCEPT !.ref = 1, !.frag = g, !.link = "none"]
    BY <1>3, Piece, Zenon
<1>8. c.ref = 1 /\ ~c.lost /\ c.order = "net"
    BY <1>3, <1>4, <1>7 DEF Buffer
<1>9. /\ heap' = [heap EXCEPT ![q] = c, ![p] = b] /\ Call(<<Fr("ip_send_dev", q), Fr(next, p)>>)
      /\ UNCHANGED <<lists, arp>>
    BY <1>1, <1>3, <1>4, <1>5, <1>6, <1>7, Zenon DEF SendFrag, ip_frag, TypeOK
<1>x. PICK X \in SUBSET {p} : X = {}
    BY Zenon
<1>10. lists' = [lists EXCEPT !["tcp"] = @ \cup X] /\ b.ref = heap[p].ref + Bit(p \in X)
    BY <1>3, <1>4, <1>9, <1>x DEF TypeOK, Bit
<1>11. "ip_send_dev" \in NetCalls /\ next \in Working \cup {"free_pkb"} /\ Fits(next, b)
    BY <1>4, Zenon DEF Fits, Working, HostCalls, NetCalls
<1> QED BY <1>1, <1>2, <1>3, <1>4, <1>5, <1>8, <1>9, <1>x, <1>10, <1>11, SendStep, Zenon

\* ip_send_dev() hands the packet to the device, or has it wait for the ARP reply.
LEMMA IpSendDev ==
    ASSUME Sizes, IInv, ip_send_dev
    PROVE  IInv'
<1> DEFINE at == "ip_send_dev"
<1>1. at \in Working /\ In(at) /\ at \in NetCalls /\ "arp" \in Lists
    BY Zenon DEF ip_send_dev, Working, HostCalls, NetCalls, Lists
<1>2. PICK p \in Pkbs : /\ p = P /\ TypeOK /\ heap[p] \in Buffer /\ heap[p].ref \in Nat \ {0}
                        /\ Fits(at, heap[p]) /\ (Timer => Says(at, heap[p]))
    BY <1>1, Starts, Zenon
<1>3. PICK b \in Buffer : b = heap[p] /\ b.ref = heap[p].ref /\ ~b.lost /\ b.order = "net"
    BY <1>1, <1>2, Zenon DEF Fits
<1>4. CASE Drop
    BY <1>1, <1>4, DropStep, Zenon
<1>5. CASE PassTo("netdev_tx") /\ UNCHANGED heap
  <2>1. /\ heap' = [heap EXCEPT ![p] = b] /\ UNCHANGED <<lists, arp>>
        /\ Call(<<Fr("netdev_tx", p)>>)
      BY <1>2, <1>3, <1>5, Zenon DEF PassTo, TypeOK
  <2>2. /\ Fits("netdev_tx", b) /\ (Timer => Says("netdev_tx", b))
        /\ "netdev_tx" \in Working \cup {"free_pkb"}
      BY <1>2, <1>3, Zenon DEF Fits, Says, Working, HostCalls, NetCalls
  <2> QED BY <1>1, <1>2, <1>3, <2>1, <2>2, PassStep, Zenon
<1>6. CASE Queue
  <2>1. lists' = [lists EXCEPT !["arp"] = @ \cup {p}]
      BY <1>2, <1>6, Zenon DEF Queue
  <2>2. CASE arp = "waiting"
    <3>1. Call(<<>>) /\ UNCHANGED <<heap, arp>>
        BY <1>6, <2>2, Zenon DEF Queue
    <3> QED BY <1>1, <1>2, <2>1, <3>1, KeepStep, Zenon
  <2>3. CASE arp # "waiting"
    <3>1. HasRoom /\ Call(<<Fr("netdev_tx", alloc_pkb)>>) /\ arp' = "waiting"
          /\ heap' = [heap EXCEPT ![alloc_pkb] = New("arp request", "me", "peer")]
        BY <1>6, <2>3, Zenon DEF Queue
    <3>2. PICK q \in Pkbs : q = alloc_pkb /\ q # p
        BY <1>2, <3>1, Fresh, Zenon
    <3>k. PICK kind \in Kinds, me \in Hosts, to \in Hosts :
              kind = "arp request" /\ me = "me" /\ to = "peer"
        BY Zenon DEF Kinds, Hosts
    <3>c. PICK c : c = New(kind, me, to)
        BY Zenon
    <3>3. c \in Buffer /\ c.ref = 1 /\ ~c.lost /\ c.order = "net" /\ c.rt = "none"
        BY <3>c, NewBuffer
    <3>4. PICK f \in Frame : f = Fr("netdev_tx", q)
        BY Zenon DEF Fr, Frame, Calls
    <3>5. /\ heap' = [heap EXCEPT ![q] = c, ![p] = b] /\ Call(<<f>>)
          /\ heap'[q] = c /\ heap'[p] = b
          /\ f.at = "netdev_tx" /\ f.p = q /\ Own(f, q) /\ ~Own(f, p)
      <4>1. heap' = [heap EXCEPT ![q] = c] /\ Call(<<f>>)
          BY <3>1, <3>2, <3>k, <3>c, <3>4, Zenon
      <4> QED BY <1>2, <1>3, <3>2, <3>4, <4>1, Zenon DEF TypeOK, Fr, Own, Owning, Calls
    <3>6. Changes(p, q, b, c, "arp", {p})
        BY <1>3, <2>1, <3>1, <3>5, Zenon DEF Changes
    <3>7. Balanced(<<f>>, p, q, b, c, {p})
      <4>1. /\ Count(<<f>>, p) = 0 /\ Count(<<f>>, q) = 1 /\ Forgot(b) = 0 /\ Forgot(c) = 0
            /\ Bit(p \in {p}) = 1 /\ Bit(q \in {p}) = 0
          BY <1>3, <3>2, <3>3, <3>5, CountOne, Zenon DEF Bit, Forgot
      <4> QED BY <1>2, <1>3, <3>3, <4>1 DEF Balanced
    <3>8. Fine(f, p, q, {p})
        BY <3>2, <3>3, <3>5, Zenon DEF Fine, Fits, Report, Says, HostCalls
    <3>9. /\ <<f>> \in Seq(Frame) /\ Hands(<<f>>, p, q, {p})
          /\ Alone(<<f>>) /\ Lent(<<f>>) /\ Told(<<f>>)
        BY <3>5, <3>8, OneCall, Zenon
    <3> QED BY <1>1, <1>2, <3>1, <3>2, <3>3, <3>5, <3>6, <3>7, <3>9, WorkStep, Zenon
  <2> QED BY <2>2, <2>3, Zenon
<1> QED BY <1>4, <1>5, <1>6, Zenon DEF ip_send_dev
-----------------------------------------------------------------------------
(* Reassembly.                                                             *)

\* A buffer on a list belongs to no call of a thread that is not ip_timer()'s, but to
\* those that free it.
LEMMA ListedLoose ==
    ASSUME IInv, ~Timer, NEW l \in Lists, NEW r \in lists[l]
    PROVE  Loose(r)
<1> SUFFICES ASSUME NEW j \in 2..Len(stack), stack[j].p = r PROVE stack[j].at = "free_pkb"
    BY Zenon DEF Loose
<1>1. stack \in Seq(Frame) /\ j \in DOMAIN stack /\ j # 1 /\ stack[j] \in Frame
    BY DEF IInv, RefsMatchOwners, TypeOK
<1>2. Good(stack[j]) /\ stack[j].at # "icmp_send" /\ stack[j].at # "delete_frag"
    BY <1>1, Zenon DEF IInv, FramesGood, Borrowed, Lent, Timer
<1> QED BY <1>1, <1>2, Zenon DEF Good, Working, HostCalls, NetCalls, Frame, Calls

\* ip_reass() frees the fragments, and passes the datagram on in a buffer q.
LEMMA ReassStep ==
    ASSUME Sizes, IInv, In("ip_recv_local"), NEW p \in Pkbs, p = P, ~Timer, UNCHANGED arp,
           NEW q \in Pkbs, q = p \/ (HasRoom /\ q = alloc_pkb),
           NEW frames \in Seq(Frame), Call(frames),
           frames = IF q = p THEN <<>> ELSE <<Fr("raw_in", q)>>,
           NEW L \in SUBSET lists["frag"], lists' = [lists EXCEPT !["frag"] = @ \ L],
           heap' \in [Pkbs -> Buffer],
           \A r \in L \cup {p} : heap'[r] = Released(heap[r]),
           q # p => heap'[q].ref = 1 /\ ~heap'[q].lost /\ heap'[q].order = "host",
           \A r \in Pkbs \ (L \cup {p, q}) : heap'[r] = heap[r]
    PROVE  IInv'
<1>1. /\ TypeOK /\ stack # <<>> /\ Loose(p) /\ (\A r : Own(Head(stack), r) <=> r = p)
      /\ heap[p].ref \in Nat \ {0} /\ ~heap[p].lost /\ \A l \in Lists : p \notin lists[l]
  <2>1. "ip_recv_local" \in Working /\ Fr("ip_recv_local", p).at = "ip_recv_local"
        /\ Fr("ip_recv_local", p).p = p
      BY Zenon DEF Working, HostCalls, Fr
  <2> QED BY <2>1, Runs, ZenonT(30) DEF Good
<1>2. q # p => /\ heap[q].ref = 0 /\ ~heap[q].lost /\ Loose(q)
               /\ \A l \in Lists : q \notin lists[l]
    BY Fresh, Zenon
<1>3. "frag" \in Lists
    BY Zenon DEF Lists
<1>4. /\ lists' \in [Lists -> SUBSET Pkbs] /\ Waits'
      /\ \A r \in {p, q} : Listed(r) = 0 /\ Listed(r)' = 0
      /\ \A r \in Pkbs \ {p, q} :
             /\ heap'[r] \in Buffer
             /\ heap'[r].ref + Listed(r) + Forgot(heap[r])
                    = heap[r].ref + Listed(r)' + Forgot(heap'[r])
  <2>1. PICK T \in SUBSET Pkbs : T = {p, q}
      BY Zenon
  <2>2. /\ \A r \in T : \A l \in Lists : r \notin lists[l]
        /\ \A r \in L : heap'[r] = Released(heap[r])
        /\ \A r \in Pkbs \ (L \cup T) : heap'[r] = heap[r]
      BY <1>1, <1>2, <2>1, ZenonT(30)
  <2>3. /\ lists' \in [Lists -> SUBSET Pkbs] /\ Waits'
        /\ \A r \in T : Listed(r) = 0 /\ Listed(r)' = 0
        /\ \A r \in Pkbs \ T :
               /\ heap'[r] \in Buffer
               /\ heap'[r].ref + Listed(r) + Forgot(heap[r])
                      = heap[r].ref + Listed(r)' + Forgot(heap'[r])
      BY <1>3, <2>2, Discards, ZenonT(30)
  <2> QED BY <2>1, <2>3, Zenon
<1>5. ~heap'[p].lost /\ heap'[p].ref + 1 = heap[p].ref
  <2>1. heap[p] \in Buffer /\ heap[p].ref >= 1 + Forgot(heap[p]) /\ Forgot(heap[p]) = 0
      BY <1>1 DEF TypeOK, Forgot
  <2>2. /\ ~heap'[p].lost
        /\ heap'[p].ref + 1 + Forgot(heap[p]) = heap[p].ref + Forgot(heap'[p])
      BY <1>1, <2>1, ReleasedOne, Zenon
  <2>3. heap'[p].ref \in Nat /\ Forgot(heap'[p]) = 0
      BY <2>2, Zenon DEF Buffer, Forgot
  <2> QED BY <1>1, <2>1, <2>2, <2>3
<1>6. TypeOK'
    BY <1>1, <1>4, CallFrames, Zenon DEF TypeOK
<1>7. \A r \in Pkbs : Loose(r) \/ Kept(r)
  <2>1. \A r \in L : Loose(r)
      BY <1>3, ListedLoose, Zenon
  <2>2. \A r \in Pkbs \ (L \cup {p, q}) : Kept(r)
      BY <1>1, Zenon DEF Kept, TypeOK
  <2> QED BY <1>1, <1>2, <2>1, <2>2, Zenon
<1>8. q # p => /\ frames = <<Fr("raw_in", q)>> /\ DOMAIN frames = {1} /\ frames[1].at = "raw_in"
               /\ frames[1].p = q
    BY DEF Fr
<1>9. q = p => frames = <<>> /\ DOMAIN frames = {}
    OBVIOUS
<1>10. \A i \in DOMAIN frames : q # p /\ i = 1 /\ frames[i].at = "raw_in" /\ frames[i].p = q
    BY <1>8, <1>9
<1>11. /\ \A i \in DOMAIN frames : /\ Loose(frames[i].p) /\ Good(frames[i])'
                                   /\ frames[i].at # "delete_frag"
       /\ Alone(frames) /\ Lent(frames) /\ Told(frames)
  <2>1. \A l \in Lists : q # p => q \notin lists'[l]
      BY <1>1, <1>2, <1>3, Zenon DEF TypeOK
  <2>2. Alone(frames) /\ Lent(frames) /\ Told(frames)
      BY <1>10 DEF Alone, Lent, Told
  <2>3. ASSUME NEW i \in DOMAIN frames
        PROVE  /\ Loose(frames[i].p) /\ Good(frames[i])' /\ frames[i].at # "delete_frag"
    <3>1. Good(frames[i])'
        BY <1>10, <2>1, Zenon DEF Good, NetCalls
    <3> QED BY <1>2, <1>10, <3>1, Zenon
  <2> QED BY <2>2, <2>3, Zenon
<1>12. FramesGood' /\ OneUser' /\ Borrowed' /\ Reports'
    BY <1>1, <1>7, <1>11, StackStep, Zenon DEF IInv
<1>13. RefsMatchOwners'
  <2>1. ASSUME NEW r \in Pkbs
        PROVE  heap'[r].ref + Bit(Own(Head(stack), r)) + Listed(r) + Forgot(heap[r])
                   = heap[r].ref + Count(frames, r) + Listed(r)' + Forgot(heap'[r])
    <3>1. Count(frames, r) = Bit(q # p /\ r = q)
      <4>1. CASE q = p
          BY <4>1, <1>9, CountNone, Zenon DEF Bit
      <4>2. CASE q # p
        <5>1. PICK f \in Frame : f = Fr("raw_in", q) /\ frames = <<f>>
            BY <4>2, <1>8, Zenon DEF Fr, Frame, Calls
        <5>2. Count(frames, r) = Bit(Own(f, r))
            BY <5>1, CountOne, Zenon
        <5>3. Own(f, r) <=> r = q
            BY <5>1 DEF Own, Fr, Owning, Calls
        <5> QED BY <4>2, <5>2, <5>3 DEF Bit
      <4> QED BY <4>1, <4>2, Zenon
    <3>2. CASE r = p
      <4>1. /\ Listed(r) = 0 /\ Listed(r)' = 0 /\ Bit(Own(Head(stack), r)) = 1
            /\ Count(frames, r) = 0 /\ Forgot(heap[r]) = 0 /\ Forgot(heap'[r]) = 0
          BY <3>1, <3>2, <1>1, <1>4, <1>5, Zenon DEF Bit, Forgot
      <4>2. heap[r].ref \in Nat /\ heap'[r].ref \in Nat /\ heap'[r].ref + 1 = heap[r].ref
          BY <3>2, <1>1, <1>5, Zenon DEF Buffer
      <4> QED BY <4>1, <4>2
    <3>3. CASE r # p /\ r = q
      <4>1. /\ Listed(r) = 0 /\ Listed(r)' = 0 /\ Bit(Own(Head(stack), r)) = 0
            /\ Count(frames, r) = 1 /\ Forgot(heap[r]) = 0 /\ Forgot(heap'[r]) = 0
          BY <3>1, <3>3, <1>1, <1>2, <1>4, Zenon DEF Bit, Forgot
      <4>2. heap[r].ref = 0 /\ heap'[r].ref = 1
          BY <3>3, <1>2, Zenon
      <4> QED BY <4>1, <4>2
    <3>4. CASE r # p /\ r # q
      <4>1. Bit(Own(Head(stack), r)) = 0 /\ Count(frames, r) = 0
          BY <3>1, <3>4, <1>1, Zenon DEF Bit
      <4>2. /\ Listed(r) \in Nat /\ Listed(r)' \in Nat
            /\ heap[r].ref \in Nat /\ heap'[r].ref \in Nat
            /\ Forgot(heap[r]) \in Nat /\ Forgot(heap'[r]) \in Nat
          BY <1>1, <1>6, ListedNat, Zenon DEF TypeOK, Buffer, Forgot
      <4>3. heap'[r].ref + Listed(r) + Forgot(heap[r])
                = heap[r].ref + Listed(r)' + Forgot(heap'[r])
          BY <3>4, <1>4, Zenon
      <4> QED BY <4>1, <4>2, <4>3
    <3> QED BY <3>2, <3>3, <3>4, Zenon
  <2> QED BY <2>1, <1>1, <1>6, RefStep, Zenon DEF IInv
<1> QED BY <1>4, <1>12, <1>13, Zenon DEF IInv

\* ip_recv_local() passes whole packets on and collects fragments.
LEMMA IpRecvLocal ==
    ASSUME Sizes, IInv, ip_recv_local
    PROVE  IInv'
<1> DEFINE at == "ip_recv_local"
<1>1. at \in Working /\ In(at) /\ "frag" \in Lists
    BY DEF ip_recv_local, Working, HostCalls, NetCalls, Lists
<1>2. PICK p \in Pkbs : /\ p = P /\ TypeOK /\ heap[p] \in Buffer /\ heap[p].ref \in Nat \ {0}
                        /\ Fits(at, heap[p]) /\ (Timer => Says(at, heap[p]))
    BY <1>1, Starts, Zenon
<1>3. CASE heap[p].frag = "whole"
  <2>1. PICK b \in Buffer : b = heap[p] /\ b.ref = heap[p].ref /\ ~b.lost
      BY <1>1, <1>2, Zenon DEF Fits
  <2>2. heap' = [heap EXCEPT ![p] = b] /\ UNCHANGED <<lists, arp>> /\ Call(<<Fr("raw_in", p)>>)
      BY <1>2, <1>3, <2>1, Zenon DEF ip_recv_local, PassTo, TypeOK
  <2>3. /\ Fits("raw_in", b) /\ (Timer => Says("raw_in", b))
        /\ "raw_in" \in Working \cup {"free_pkb"}
      BY <1>2, <2>1, Zenon DEF Fits, Says, Working, HostCalls, NetCalls
  <2> QED BY <1>1, <1>2, <2>1, <2>2, <2>3, PassStep, Zenon
<1>4. CASE heap[p].frag # "whole"
  <2>1. ip_reass /\ ~Timer
      BY <1>2, <1>4, Zenon DEF ip_recv_local, Says
  <2>2. CASE Drop
      BY <1>1, <2>2, DropStep, Zenon
  <2>3. CASE /\ lists' = [lists EXCEPT !["frag"] = @ \cup {P}]
             /\ Call(<<>>) /\ UNCHANGED <<heap, arp>>
      BY <1>1, <1>2, <2>3, KeepStep, Zenon
  <2>4. CASE \/ /\ HasRoom
                /\ heap' = [Freed(lists["frag"] \cup {P}) EXCEPT ![alloc_pkb] =
                      [New(heap[P].kind, heap[P].from, heap[P].to) EXCEPT !.order = "host"]]
                /\ Call(<<Fr("raw_in", alloc_pkb)>>)
                /\ lists' = [lists EXCEPT !["frag"] = {}] /\ UNCHANGED arp
             \/ /\ heap' = Freed(lists["frag"] \cup {P}) /\ Call(<<>>)
                /\ lists' = [lists EXCEPT !["frag"] = {}] /\ UNCHANGED arp
    <3>1. PICK L \in SUBSET lists["frag"] :
              L = lists["frag"] /\ lists' = [lists EXCEPT !["frag"] = @ \ L] /\ L \in SUBSET Pkbs
        BY <1>1, <1>2, <2>4, Zenon DEF TypeOK
    <3>2. PICK h \in [Pkbs -> Buffer] :
              /\ h = Freed(lists["frag"] \cup {P})
              /\ \A r \in L \cup {p} : h[r] = Released(heap[r])
              /\ \A r \in Pkbs \ (L \cup {p}) : h[r] = heap[r]
      <4>1. \A r \in L \cup {p} : r \in Pkbs /\ Released(heap[r]) \in Buffer
        <5>1. ASSUME NEW r \in L \cup {p}
              PROVE  heap[r] \in Buffer /\ heap[r].ref >= 1 + Forgot(heap[r])
          <6>1. CASE r = p
              BY <6>1, <1>1, <1>2 DEF Fits, Forgot
          <6>2. CASE r \in L
            <7>1. r \in Pkbs /\ Listed(r) # 0 /\ Forgot(heap[r]) = 0
                BY <6>2, <1>1, <3>1, ListedNat, Zenon DEF IInv, Waits, Forgot
            <7>2. heap[r].ref = Count(stack, r) + Listed(r) + Forgot(heap[r])
                BY <7>1, Zenon DEF IInv, RefsMatchOwners, Owners, Count, Own, Listed, Forgot
            <7>3. Count(stack, r) \in Nat /\ Listed(r) \in Nat /\ heap[r] \in Buffer
                BY <1>2, <7>1, CountFinite, ListedNat, Zenon DEF TypeOK
            <7> QED BY <7>1, <7>2, <7>3
          <6> QED BY <6>1, <6>2, Zenon
        <5> QED BY <3>1, <5>1, ReleasedOne, Zenon
      <4> QED BY <1>2, <3>1, <4>1, ZenonT(30) DEF Freed, TypeOK
    <3>3. CASE /\ heap' = Freed(lists["frag"] \cup {P}) /\ Call(<<>>)
               /\ lists' = [lists EXCEPT !["frag"] = {}] /\ UNCHANGED arp
      <4>1. PICK frames \in Seq(Frame) : frames = <<>> /\ Call(frames)
          BY <3>3, NoCall, Zenon
      <4>2. /\ heap' \in [Pkbs -> Buffer] /\ \A r \in L \cup {p} : heap'[r] = Released(heap[r])
            /\ \A r \in Pkbs \ (L \cup {p, p}) : heap'[r] = heap[r]
          BY <3>2, <3>3, Zenon
      <4> QED BY <1>1, <1>2, <2>1, <3>1, <3>3, <4>1, <4>2, ReassStep, Zenon
    <3>4. CASE /\ HasRoom
               /\ heap' = [Freed(lists["frag"] \cup {P}) EXCEPT ![alloc_pkb] =
                     [New(heap[P].kind, heap[P].from, heap[P].to) EXCEPT !.order = "host"]]
               /\ Call(<<Fr("raw_in", alloc_pkb)>>)
               /\ lists' = [lists EXCEPT !["frag"] = {}] /\ UNCHANGED arp
      <4>1. PICK q \in Pkbs : q = alloc_pkb /\ q # p /\ \A l \in Lists : q \notin lists[l]
          BY <1>2, <3>4, Fresh, Zenon
      <4>2. PICK d : d = New(heap[P].kind, heap[P].from, heap[P].to)
          BY Zenon
      <4>3. d \in Buffer /\ d.ref = 1 /\ ~d.lost
        <5>1. heap[P].kind \in Kinds /\ heap[P].from \in Hosts /\ heap[P].to \in Hosts
            BY <1>2, Zenon DEF Buffer
        <5> QED BY <4>2, <5>1, NewBuffer
      <4>4. PICK c : c = [d EXCEPT !.order = "host"]
          BY Zenon
      <4>5. c \in Buffer /\ c.ref = 1 /\ ~c.lost /\ c.order = "host"
          BY <4>3, <4>4, Zenon DEF Buffer
      <4>6. heap' = [h EXCEPT ![q] = c] /\ q \notin L
          BY <1>1, <3>1, <3>2, <3>4, <4>1, <4>2, <4>4, Zenon
      <4>7. PICK frames \in Seq(Frame) : /\ frames = (IF q = p THEN <<>> ELSE <<Fr("raw_in", q)>>)
                                         /\ Call(frames)
        <5>1. PICK f \in Frame : f = Fr("raw_in", q)
            BY Zenon DEF Fr, Frame, Calls
        <5>2. <<f>> \in Seq(Frame) /\ Call(<<f>>)
            BY <3>4, <4>1, <5>1
        <5> QED BY <4>1, <5>1, <5>2, Zenon
      <4>8. /\ heap' \in [Pkbs -> Buffer] /\ \A r \in L \cup {p} : heap'[r] = Released(heap[r])
            /\ \A r \in Pkbs \ (L \cup {p, q}) : heap'[r] = heap[r]
            /\ heap'[q].ref = 1 /\ ~heap'[q].lost /\ heap'[q].order = "host"
          BY <3>1, <3>2, <4>1, <4>5, <4>6, ZenonT(30)
      <4>9. HasRoom /\ UNCHANGED arp
          BY <3>4, Zenon
      <4> QED BY <1>1, <1>2, <2>1, <3>1, <4>1, <4>7, <4>8, <4>9, ReassStep, ZenonT(30)
    <3> QED BY <2>4, <3>3, <3>4, Zenon
  <2> QED BY <2>1, <2>2, <2>3, <2>4, Zenon DEF ip_reass
<1> QED BY <1>3, <1>4, Zenon
-----------------------------------------------------------------------------
(* ARP.                                                                    *)

\* The calls that send the packets of L: all that wait, if any may
Flushes(flush, L) ==
    \/ arp = "waiting" /\ L = lists["arp"] /\ flush \in Waiting
    \/ arp # "waiting" /\ L = {} /\ flush = <<>>

\* The packets that arp_queue_send() sends are those of the list, each once.
LEMMA Flushed ==
    ASSUME Sizes, TypeOK, NEW L, NEW flush, Flushes(flush, L)
    PROVE  /\ flush \in Seq(Frame) /\ L \in SUBSET lists["arp"] /\ L \in SUBSET Pkbs
           /\ \A i \in DOMAIN flush : flush[i].at = "netdev_tx" /\ flush[i].p \in L
           /\ \A i, j \in DOMAIN flush : flush[i].p = flush[j].p => i = j
           /\ \A r : Count(flush, r) = Bit(r \in L)
<1>1. lists["arp"] \in SUBSET Pkbs
    BY Zenon DEF TypeOK, Lists
<1>2. CASE arp # "waiting"
  <2>0. flush = <<>> /\ L = {}
      BY <1>2, Zenon DEF Flushes
  <2>1. flush = <<>> /\ flush \in Seq(Frame) /\ DOMAIN flush = {} /\ L = {}
      BY <2>0
  <2> QED BY <1>1, <2>1, CountNone, Zenon DEF Bit
<1>3. CASE arp = "waiting"
  <2>l. L = lists["arp"] /\ flush \in Waiting
      BY <1>3, Zenon DEF Flushes
  <2>1. PICK N \in Nat : N = Cardinality(L)
    <3>1. IsFiniteSet(L)
        BY <1>1, <2>l, PkbsAssumption, Zenon DEF Sizes, SizePart
    <3> QED BY <3>1, Zenon DEF Sizes, SizeNat
  <2>2. PICK s \in Bijection(1..N, L) : flush = [i \in DOMAIN s |-> Fr("netdev_tx", s[i])]
      BY <2>l, <2>1, Zenon DEF Waiting
  <2>3. /\ s \in [1..N -> L] /\ (\A i, j \in 1..N : s[i] = s[j] => i = j)
        /\ \A r \in L : \E i \in 1..N : s[i] = r
      BY <2>2, Zenon DEF Bijection, Injection, Surjection, IsInjective
  <2>4. DOMAIN flush = 1..N /\ \A i \in 1..N : flush[i] = Fr("netdev_tx", s[i])
      BY <2>2, <2>3, Zenon
  <2>5. \A i \in 1..N : flush[i] \in Frame /\ flush[i].at = "netdev_tx" /\ flush[i].p = s[i]
      BY <1>1, <2>l, <2>3, <2>4 DEF Fr, Frame, Calls
  <2>6. flush \in Seq(Frame)
    <3>1. flush \in [1..N -> Frame]
        BY <2>2, <2>3, <2>4, <2>5, Zenon
    <3> QED BY <3>1
  <2>7. ASSUME NEW r PROVE Count(flush, r) = Bit(r \in L)
    <3>1. \A i \in 1..N : Own(flush[i], r) <=> s[i] = r
        BY <2>5, Zenon DEF Own, Owning, Calls
    <3>2. CASE r \in L
      <4>1. PICK i \in 1..N : s[i] = r
          BY <2>3, <3>2, Zenon
      <4>2. {j \in DOMAIN flush : Own(flush[j], r)} = {i}
          BY <2>3, <2>4, <3>1, <4>1, Zenon
      <4> QED BY <3>2, <4>2, Zenon DEF Sizes, SizeOne, Count, Bit
    <3>3. CASE r \notin L
      <4>1. {j \in DOMAIN flush : Own(flush[j], r)} = {}
          BY <2>3, <2>4, <3>1, <3>3
      <4> QED BY <3>3, <4>1, Zenon DEF Sizes, SizeEmpty, Count, Bit
    <3> QED BY <3>2, <3>3, Zenon
  <2> QED BY <1>1, <2>l, <2>3, <2>4, <2>5, <2>6, <2>7
<1> QED BY <1>2, <1>3, Zenon

\* arp_in() drops the packet, or learns the address, sends what waited for it and replies.
LEMMA ArpIn ==
    ASSUME Sizes, IInv, arp_in
    PROVE  IInv'
<1> DEFINE at == "arp_in"
<1>1. at \in Working /\ In(at) /\ ~Says(at, heap[P]) /\ "arp" \in Lists
    BY Zenon DEF arp_in, Working, HostCalls, NetCalls, Says, Lists
<1>2. PICK p \in Pkbs : /\ p = P /\ TypeOK /\ heap[p] \in Buffer /\ heap[p].ref \in Nat \ {0}
                        /\ heap[p].order = "net" /\ ~heap[p].lost /\ ~Timer
    BY <1>1, Starts, Zenon DEF Fits, NetCalls
<1>3. /\ stack # <<>> /\ Loose(p) /\ (\A r : Own(Head(stack), r) <=> r = p)
      /\ \A l \in Lists : p \notin lists[l]
  <2>1. at \in Working \cup {"free_pkb"} /\ Fr(at, p).at = at /\ Fr(at, p).p = p
      BY <1>1, Zenon DEF Fr
  <2> QED BY <1>1, <1>2, <2>1, Runs, Zenon DEF Good
<1>4. CASE Drop
    BY <1>1, <1>4, DropStep, Zenon
<1>5. CASE arp_recv
  <2>1. PICK L : L = IF arp = "waiting" THEN lists["arp"] ELSE {}
      BY Zenon
  <2>2. PICK flush \in IF arp = "waiting" THEN Waiting ELSE {<<>>} :
            IF heap[p].kind = "arp request"
            THEN /\ heap' = [heap EXCEPT ![p].kind = "arp reply"]
                 /\ Call(flush \o <<Fr("netdev_tx", p)>>)
            ELSE Call(flush \o <<Fr("free_pkb", p)>>) /\ heap' = heap
      BY <1>2, <1>5, Zenon DEF arp_recv
  <2>3. /\ flush \in Seq(Frame) /\ L \in SUBSET lists["arp"] /\ L \in SUBSET Pkbs
        /\ \A i \in DOMAIN flush : flush[i].at = "netdev_tx" /\ flush[i].p \in L
        /\ \A i, j \in DOMAIN flush : flush[i].p = flush[j].p => i = j
        /\ \A r : Count(flush, r) = Bit(r \in L)
    <3>1. Flushes(flush, L)
        BY <2>1, <2>2, Zenon DEF Flushes
    <3> QED BY <1>2, <3>1, Flushed, Zenon
  <2>4. PICK b \in Buffer, next \in {"netdev_tx", "free_pkb"} :
            /\ heap' = [heap EXCEPT ![p] = b] /\ Call(flush \o <<Fr(next, p)>>)
            /\ b.ref = heap[p].ref /\ b.order = "net" /\ ~b.lost
    <3>1. CASE heap[p].kind = "arp request"
      <4>1. PICK k \in Kinds : k = "arp reply"
          BY Zenon DEF Kinds
      <4>2. PICK b \in Buffer : b = [heap[p] EXCEPT !.kind = k]
          BY <1>2, Zenon DEF Buffer
      <4>3. heap' = [heap EXCEPT ![p] = b] /\ b.ref = heap[p].ref /\ b.order = "net" /\ ~b.lost
          BY <1>2, <2>2, <3>1, <4>1, <4>2, Zenon DEF Buffer, TypeOK
      <4> QED BY <2>2, <3>1, <4>3, Zenon
    <3>2. CASE heap[p].kind # "arp request"
      <4>1. heap' = [heap EXCEPT ![p] = heap[p]] /\ Call(flush \o <<Fr("free_pkb", p)>>)
          BY <1>2, <2>2, <3>2, Zenon DEF TypeOK
      <4> QED BY <1>2, <4>1, Zenon
    <3> QED BY <3>1, <3>2, Zenon
  <2>5. /\ lists' = [lists EXCEPT !["arp"] = @ \ L]
        /\ arp' \in {"none", "waiting", "resolved"}
      BY <1>2, <1>5, <2>1, Zenon DEF arp_recv, TypeOK
  <2>6. PICK g \in Frame : g = Fr(next, p)
      BY <2>4, Zenon DEF Fr, Frame, Calls
  <2>7. PICK frames \in Seq(Frame) : frames = flush \o <<g>>
    <3>1. <<g>> \in Seq(Frame)
        OBVIOUS
    <3>2. flush \o <<g>> \in Seq(Frame)
        BY <2>3, <3>1
    <3> QED BY <3>2, Zenon
  <2>8. ASSUME NEW i \in DOMAIN frames
        PROVE  \/ i \in DOMAIN flush /\ frames[i] = flush[i]
               \/ i = Len(flush) + 1 /\ frames[i] = g
      BY <2>3, <2>7
  <2>9. /\ \A i \in DOMAIN frames : \/ frames[i].at = "netdev_tx" /\ frames[i].p \in L
                                    \/ frames[i] = g
        /\ \A i, j \in DOMAIN frames : frames[i].p = frames[j].p => i = j
        /\ Call(frames) /\ g.p = p /\ g.at = next /\ Own(g, p) /\ p \notin L
      <3>1. p \notin L /\ g.p = p /\ g.at = next /\ Own(g, p)
          BY <1>1, <1>3, <2>3, <2>4, <2>6, Zenon DEF Fr, Own, Owning, Calls
      <3> QED BY <2>3, <2>4, <2>6, <2>7, <2>8, <3>1
  <2>10. /\ heap' \in [Pkbs -> Buffer] /\ heap'[p] = b /\ \A r \in Pkbs \ {p} : heap'[r] = heap[r]
      BY <1>2, <2>4, Zenon DEF TypeOK
  <2>11. /\ lists' \in [Lists -> SUBSET Pkbs] /\ lists'["arp"] = lists["arp"] \ L
         /\ \A m \in Lists \ {"arp"} : lists'[m] = lists[m]
      BY <1>1, <1>2, <2>5, Zenon DEF TypeOK
  <2>12. TypeOK'
      BY <1>2, <1>3, <2>5, <2>9, <2>10, <2>11, CallFrames, Zenon DEF TypeOK
  <2>13. \A r \in Pkbs : Loose(r) \/ Kept(r)
    <3>1. \A r \in L : Loose(r)
        BY <1>1, <1>2, <2>3, ListedLoose, Zenon
    <3>2. \A r \in Pkbs \ (L \cup {p}) : Kept(r)
        BY <2>10, <2>11, Zenon DEF Kept
    <3> QED BY <1>3, <3>1, <3>2, Zenon
  <2>14. ASSUME NEW i \in DOMAIN frames
         PROVE  Loose(frames[i].p) /\ Good(frames[i])' /\ frames[i].at # "delete_frag"
    <3>1. CASE frames[i] = g
      <4>1. \A l \in Lists : p \notin lists'[l]
          BY <1>3, <2>11, Zenon
      <4> QED BY <1>3, <2>4, <2>9, <2>10, <3>1, <4>1, Zenon DEF Good, Working, HostCalls, NetCalls
    <3>2. CASE frames[i].at = "netdev_tx" /\ frames[i].p \in L
      <4>1. PICK r \in L : r = frames[i].p
          BY <3>2, Zenon
      <4>2. r \in lists["arp"] /\ r \in Pkbs /\ r # p /\ Loose(r)
          BY <1>1, <1>2, <2>3, <2>9, ListedLoose, Zenon
      <4>3. ~heap'[r].lost /\ heap'[r].order = "net" /\ \A m \in Lists : r \notin lists'[m]
          BY <1>1, <4>2, <2>10, <2>11 DEF IInv, Waits
      <4> QED BY <3>2, <4>1, <4>2, <4>3, Zenon DEF Good, HostCalls
    <3> QED BY <2>9, <3>1, <3>2, Zenon
  <2>15. Alone(frames) /\ Lent(frames) /\ Told(frames)
    <3>1. DOMAIN frames \subseteq Int
        BY <2>7
    <3> QED BY <1>2, <2>4, <2>9, <3>1 DEF Alone, Lent, Told
  <2>16. FramesGood' /\ OneUser' /\ Borrowed' /\ Reports'
      BY <1>2, <1>3, <2>9, <2>13, <2>14, <2>15, StackStep, Zenon DEF IInv
  <2>17. RefsMatchOwners'
    <3>1. ASSUME NEW r \in Pkbs
          PROVE  heap'[r].ref + Bit(Own(Head(stack), r)) + Listed(r) + Forgot(heap[r])
                     = heap[r].ref + Count(frames, r) + Listed(r)' + Forgot(heap'[r])
      <4>1. Count(frames, r) = Bit(r \in L) + Bit(r = p)
        <5>1. Count(flush \o <<g>>, r) = Count(flush, r) + Count(<<g>>, r)
          <6>1. <<g>> \in Seq(Frame)
              OBVIOUS
          <6> QED BY <2>3, <6>1, CountConcat, Zenon
        <5>2. Count(<<g>>, r) = Bit(Own(g, r))
            BY CountOne, Zenon
        <5>3. Own(g, r) <=> r = p
            BY <2>9, Zenon DEF Own
        <5> QED BY <2>3, <2>7, <5>1, <5>2, <5>3, Zenon DEF Bit
      <4>2. Listed(r)' + Bit(r \in L) = Listed(r) /\ Listed(r) \in Nat /\ Listed(r)' \in Nat
        <5>1. /\ Listed(r)' + Bit(r \in lists["arp"]) = Listed(r) + Bit(r \in lists'["arp"])
              /\ Listed(r) \in Nat /\ Listed(r)' \in Nat
            BY <1>1, <2>11, ListedChange, Zenon
        <5> QED BY <5>1, <2>3, <2>11 DEF Bit
      <4>3. /\ heap'[r].ref = heap[r].ref /\ heap[r].ref \in Nat
            /\ Forgot(heap'[r]) = Forgot(heap[r]) /\ Forgot(heap[r]) \in Nat
          BY <1>2, <2>4, <2>10 DEF TypeOK, Buffer, Forgot
      <4>4. Bit(Own(Head(stack), r)) = Bit(r = p) /\ Bit(r = p) \in Nat /\ Bit(r \in L) \in Nat
          BY <1>3, Zenon DEF Bit
      <4>5. PICK ref \in Nat, on \in Nat, on2 \in Nat, lost \in Nat, own \in Nat, sent \in Nat :
                /\ ref = heap[r].ref /\ on = Listed(r) /\ on2 = Listed(r)'
                /\ lost = Forgot(heap[r]) /\ own = Bit(r = p) /\ sent = Bit(r \in L)
          BY <4>2, <4>3, <4>4, Zenon
      <4>6. on2 + sent = on
          BY <4>2, <4>5, Zenon
      <4>7. ref + own + on + lost = ref + (sent + own) + on2 + lost
          BY <4>6
      <4> QED BY <4>1, <4>3, <4>4, <4>5, <4>7, Zenon
    <3> QED BY <1>3, <2>9, <2>12, <3>1, RefStep, Zenon DEF IInv
  <2>18. Waits'
    <3> SUFFICES ASSUME NEW l \in Lists, NEW r \in lists'[l]
                 PROVE  /\ ~heap'[r].lost /\ \A m \in Lists : r \in lists'[m] => m = l
                        /\ l = "arp" => heap'[r].order = "net"
        BY Zenon DEF Waits
    <3>1. r \in lists[l] /\ \A m \in Lists : r \in lists'[m] => r \in lists[m]
        BY <2>11, Zenon
    <3>2. r \in Pkbs \ {p}
        BY <1>2, <1>3, <3>1, Zenon DEF TypeOK
    <3> QED BY <2>10, <3>1, <3>2, Zenon DEF IInv, Waits
  <2> QED BY <2>16, <2>17, <2>18, Zenon DEF IInv
<1> QED BY <1>4, <1>5, Zenon DEF arp_in

-----------------------------------------------------------------------------
(* The theorems.                                                           *)

\* The empty stack satisfies the invariant.
LEMMA InitIInv ==
    ASSUME Sizes
    PROVE  Init => IInv
<1> SUFFICES ASSUME Init PROVE IInv
    BY Zenon
<1>1. /\ heap = [p \in Pkbs |-> Unused] /\ lists = [l \in Lists |-> {}] /\ arp = "none"
      /\ stack = <<>>
    BY Zenon DEF Init
<1>2. Unused \in Buffer /\ Unused.ref = 0 /\ ~Unused.lost
    BY Zenon DEF Unused, Buffer, Kinds, Hosts
<1>3. TypeOK
    BY <1>1, <1>2 DEF TypeOK
<1>4. RefsMatchOwners
  <2>1. ASSUME NEW p \in Pkbs PROVE heap[p].ref = Owners(p) + (IF heap[p].lost THEN 1 ELSE 0)
    <3>1. heap[p] = Unused /\ Count(stack, p) = 0 /\ Listed(p) = 0
        BY <1>1, CountNone, ListedNat, Zenon
    <3>2. Owners(p) = 0 + 0
        BY <3>1, Zenon DEF Owners, Count, Own, Listed
    <3> QED BY <1>2, <3>1, <3>2
  <2> QED BY <1>3, <2>1, Zenon DEF RefsMatchOwners
<1>5. FramesGood /\ OneUser /\ Borrowed /\ Reports /\ Waits
    BY <1>1 DEF FramesGood, OneUser, Alone, Borrowed, Lent, Reports, Waits
<1> QED BY <1>4, <1>5, Zenon DEF IInv

\* Every step keeps the invariant.
LEMMA NextIInv ==
    ASSUME Sizes
    PROVE  IInv /\ [Next]_vars => IInv'
<1> SUFFICES ASSUME IInv, [Next]_vars PROVE IInv'
    BY Zenon
<1>1. CASE Handler
    BY Zenon, <1>1, NetIn, ArpIn, NetdevTx, FreePkb, IpIn, IpRecvRoute, IpRecvLocal, RawIn, IcmpIn,
       IcmpSend, UdpIn, TcpIn, Forward, IpSendOut, TcpSendOut, IpSendFrag, IpSendDev, DeleteFrag
       DEF Handler
<1>2. CASE (\E a \in Arrivals : Arrive(a)) \/ (\E s \in Sends : Send(s))
    BY <1>2, Enters, Zenon
<1>3. CASE \E l \in {"udp", "raw", "tcp"} : Consume(l)
    BY <1>3, Consumed, Zenon
<1>4. CASE arp_timer \/ ip_timer
    BY <1>4, ArpTimer, IpTimer, Zenon
<1>5. CASE UNCHANGED vars
  <2>1. heap' = heap /\ lists' = lists /\ arp' = arp /\ stack' = stack
      BY <1>5, Zenon DEF vars
  <2>2. FramesGood' /\ OneUser' /\ Borrowed' /\ Reports'
      BY <2>1, QuietStep, Zenon DEF Kept
  <2>3. RefsMatchOwners' /\ Waits'
      BY <2>1, Zenon DEF IInv, RefsMatchOwners, TypeOK, Owners, Waits
  <2> QED BY <2>2, <2>3, Zenon DEF IInv
<1> QED BY <1>1, <1>2, <1>3, <1>4, <1>5, Zenon DEF Next

INSTANCE FiniteSetTheorems

\* The facts about finite sets that the lemmas assume are those of the library.
LEMMA SizesHold == Sizes
<1>1. SizeEmpty /\ SizeOne
    BY FS_EmptySet, FS_Singleton, Zenon DEF SizeEmpty, SizeOne
<1>2. SizeNat /\ SizePart
    BY FS_CardinalityType, FS_Subset, Zenon DEF SizeNat, SizePart
<1>3. SizeAdd
    BY FS_AddElement, Zenon DEF SizeAdd
<1>4. SizeUnion /\ SizeSame
    BY FS_Union, FS_Bijection, Zenon DEF SizeUnion, SizeSame
<1>5. SizeRange
    BY FS_Interval, Zenon DEF SizeRange
<1> QED BY <1>1, <1>2, <1>3, <1>4, <1>5, Zenon DEF Sizes

\* The invariant holds in every state the packets of any device and socket lead to.
THEOREM HoldersAlwaysRight == Spec => []IInv
<1>1. Init => IInv
    BY SizesHold, InitIInv, Zenon
<1>2. IInv /\ [Next]_vars => IInv'
    BY SizesHold, NextIInv
<1> QED BY <1>1, <1>2, PTL DEF Spec

\* pk_refcnt is the number of the calls and lists that hold the buffer, and the reference
\* that net_in() or tcp_synsent() forgot: no buffer is freed twice or used after it is
\* freed, however deep the loopback device nests the handlers.
THEOREM ReferencesAlwaysMatch == Spec => []RefsMatchOwners
<1>1. IInv => RefsMatchOwners
    BY Zenon DEF IInv
<1> QED BY <1>1, HoldersAlwaysRight, PTL

\* No handler changes or forwards a packet that is on a list for another thread: the calls
\* that still have it only free it.
THEOREM QueuedLeftAlone == Spec => []QueuedIsQuiet
<1>1. IInv => QueuedIsQuiet
  <2> SUFFICES ASSUME IInv, NEW i \in DOMAIN stack,
                      NEW l \in {"arp", "udp", "raw", "tcp"}, stack[i].p \in lists[l]
               PROVE  stack[i].at = "free_pkb"
      BY Zenon DEF QueuedIsQuiet
  <2>1. stack[i] \in Frame /\ Good(stack[i]) /\ l \in Lists \ {"frag"}
      BY DEF IInv, RefsMatchOwners, TypeOK, FramesGood, Lists
  <2> QED BY <2>1, Zenon DEF Good, Working, HostCalls, NetCalls, Frame, Calls
<1> QED BY <1>1, HoldersAlwaysRight, PTL

\* Every handler finds the addresses and lengths of the IP header in the byte order that
\* its comment or its caller promises.
THEOREM OrderAsExpected == Spec => []ByteOrder
<1>1. IInv => ByteOrder
  <2> SUFFICES ASSUME IInv, NEW i \in DOMAIN stack
               PROVE  LET order == heap[stack[i].p].order IN
                      /\ stack[i].at \in {"ip_recv_route", "ip_recv_local", "raw_in", "icmp_in",
                                          "udp_in", "tcp_in"} => order = "host"
                      /\ stack[i].at \in {"ip_in", "ip_forward", "forward_dev", "ip_send_out",
                                          "tcp_send_out", "ip_send_frag", "send_last_frag",
                                          "ip_send_dev"} => order = "net"
      BY Zenon DEF ByteOrder
  <2>1. Good(stack[i])
      BY Zenon DEF IInv, FramesGood
  <2> QED BY <2>1, Zenon DEF Good, HostCalls, NetCalls
<1> QED BY <1>1, HoldersAlwaysRight, PTL
=============================================================================
