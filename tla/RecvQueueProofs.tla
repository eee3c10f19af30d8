-------------------------- MODULE RecvQueueProofs --------------------------
(***************************************************************************)
(* Proofs about RecvQueue for any number of readers, signal handlers and   *)
(* packets.                                                                *)
(*                                                                         *)
(* The lost-wakeup argument rests on WakeInv: a thread blocked in          *)
(* pthread_cond_wait() has seen the queue empty and has left sleep = 1,    *)
(* unless the socket is already dead.  The reference argument rests on     *)
(* RefInv: refcnt counts the calls in progress, the close in progress and  *)
(* the application's own pointer, until a second thread clears it.         *)
(***************************************************************************)
EXTENDS RecvQueue, FiniteSetTheorems, TLAPS

WakeInv ==
    \A t \in Threads : pc[t] = "blocked" => queue = <<>> /\ (sleep \/ dead)

Holders == {t \in Threads : Inside(t) \/ Closing(t)}

\* refcnt counts the calls in progress, the close and the application's pointer
Count ==
    /\ live => refcnt = Cardinality(Holders) + (IF handle THEN 1 ELSE 0)
    /\ ~live => Holders = {} /\ ~handle

RefInv == clears <= 1 => Count

-----------------------------------------------------------------------------
(***************************************************************************)
(* The two ends of a critical section of sock_recv_pkb() keep the types.   *)
(***************************************************************************)
LEMMA SectionTypes ==
    ASSUME TypeOK, NEW t \in Threads, Block(t) \/ TakeFirst(t)
    PROVE  /\ sleep' \in BOOLEAN /\ pc' \in [Threads -> Locations]
           /\ pkb' \in [Threads -> Nat] /\ queue' \in Seq(Nat) /\ taken' \in Seq(Nat)
<1>1. queue # <<>> => /\ Head(queue) \in Nat /\ Tail(queue) \in Seq(Nat)
                      /\ Append(taken, Head(queue)) \in Seq(Nat)
  BY DEF TypeOK
<1>2. pc' \in [Threads -> Locations] /\ sleep' \in BOOLEAN
  BY DEF TypeOK, Block, TakeFirst, Goto, Locations
<1>3. CASE Block(t)
  BY <1>2, <1>3 DEF TypeOK, Block
<1>4. CASE TakeFirst(t) /\ queue = <<>>
  BY <1>2, <1>4 DEF TypeOK, TakeFirst
<1>5. CASE TakeFirst(t) /\ queue # <<>>
  <2>1. pkb' = [pkb EXCEPT ![t] = Head(queue)] /\ queue' = Tail(queue)
        /\ taken' = Append(taken, Head(queue))
    BY <1>5 DEF TakeFirst
  <2>2. pkb' \in [Threads -> Nat]
    BY <1>1, <1>5, <2>1 DEF TypeOK
  <2> QED
    BY <1>1, <1>2, <1>5, <2>1, <2>2
<1> QED
  BY <1>3, <1>4, <1>5

(***************************************************************************)
(* free_socket() keeps the types of what it changes.                       *)
(***************************************************************************)
LEMMA FreeSocketTypes ==
    ASSUME TypeOK, free_socket
    PROVE  /\ refcnt' \in Int /\ live' \in BOOLEAN /\ wait' \in BOOLEAN
           /\ hashed' \in BOOLEAN /\ queue' \in Seq(Nat) /\ skref' \in Int
<1>1. <<>> \in Seq(Nat)
  OBVIOUS
<1>2. refcnt' \in Int /\ skref' \in Int
  BY DEF TypeOK, free_socket
<1>3. live' \in BOOLEAN /\ wait' \in BOOLEAN /\ hashed' \in BOOLEAN
  BY DEF TypeOK, free_socket
<1>4. queue' \in Seq(Nat)
  BY <1>1, Zenon DEF TypeOK, free_socket
<1> QED
  BY <1>2, <1>3, <1>4

(***************************************************************************)
(* Every step of every thread keeps the variables in their types.          *)
(***************************************************************************)
LEMMA TypeStep == TypeOK /\ [Next]_vars => TypeOK'
<1> SUFFICES ASSUME TypeOK, [Next]_vars PROVE TypeOK'
  OBVIOUS
<1>1. ASSUME NEW t \in Threads, RecvCall(t) PROVE TypeOK'
  BY <1>1 DEF TypeOK, RecvCall, Goto, sockVars, skVars, Locations
<1>2. ASSUME NEW t \in Threads, get_socket(t) PROVE TypeOK'
  BY <1>2 DEF TypeOK, get_socket, Goto, skVars, Locations
<1>3. ASSUME NEW t \in Threads, sock_recv_pkb(t) PROVE TypeOK'
  BY <1>3, SectionTypes DEF TypeOK, sock_recv_pkb
<1>4. ASSUME NEW t \in Threads, Resume(t) PROVE TypeOK'
  BY <1>4, SectionTypes DEF TypeOK, Resume
<1>5. ASSUME NEW t \in Threads, SpuriousWake(t) PROVE TypeOK'
  BY <1>5 DEF TypeOK, SpuriousWake, Goto, sockVars, skVars, Locations
<1>6. ASSUME NEW t \in Threads, RecvReturn(t) PROVE TypeOK'
  BY <1>6, FreeSocketTypes DEF TypeOK, RecvReturn, Goto, Locations
<1>7. ASSUME NEW t \in Threads, Interrupt(t) PROVE TypeOK'
  BY <1>7 DEF TypeOK, Interrupt, Goto, sockVars, skVars, Locations
<1>8. ASSUME NEW t \in Threads, TestHandle(t) PROVE TypeOK'
  BY <1>8 DEF TypeOK, TestHandle, Goto, sockVars, skVars, Locations
<1>9. ASSUME NEW t \in Threads, ClearHandle(t) PROVE TypeOK'
  BY <1>9 DEF TypeOK, ClearHandle, Goto, skVars, Locations
<1>10. ASSUME NEW t \in Threads, wait_exit(t) PROVE TypeOK'
  BY <1>10 DEF TypeOK, wait_exit, Broadcast, skVars, Locations
<1>11. ASSUME NEW t \in Threads, CloseFree(t) PROVE TypeOK'
  BY <1>11, FreeSocketTypes DEF TypeOK, CloseFree, Goto, Locations
<1>12. ASSUME NEW t \in Threads, UseAfterFree(t) PROVE TypeOK'
  BY <1>12 DEF TypeOK, UseAfterFree, sockVars, skVars
<1>13. CASE Lookup
  BY <1>13 DEF TypeOK, Lookup, sockVars
<1>14. CASE Lock
  BY <1>14 DEF TypeOK, Lock, sockVars, skVars
<1>15. CASE Enqueue
  <2>1. pc' \in [Threads -> Locations]
    BY <1>15 DEF TypeOK, Enqueue, Broadcast, Locations
  <2>2. queue' \in Seq(Nat) /\ accepted' \in Seq(Nat)
    BY <1>15 DEF TypeOK, Enqueue
  <2> QED
    BY <1>15, <2>1, <2>2 DEF TypeOK, Enqueue, sockVars
<1>16. CASE Release
  BY <1>16 DEF TypeOK, Release, sockVars
<1>17. CASE NullWait
  BY <1>17 DEF TypeOK, NullWait, sockVars, skVars
<1>18. CASE UNCHANGED vars
  BY <1>18 DEF TypeOK, vars
<1> QED
  BY <1>1, <1>2, <1>3, <1>4, <1>5, <1>6, <1>7, <1>8, <1>9, <1>10, <1>11, <1>12,
     <1>13, <1>14, <1>15, <1>16, <1>17, <1>18 DEF Next, AppStep, NetStep

(***************************************************************************)
(* Type correctness of the receive queue's state, for any set of threads.  *)
(***************************************************************************)
THEOREM TypeCorrect == Spec => []TypeOK
<1>1. Init => TypeOK
  <2>1. <<>> \in Seq(Nat)
    OBVIOUS
  <2>2. Init => pc \in [Threads -> Locations] /\ pkb \in [Threads -> Nat]
    BY DEF Init, Locations
  <2>3. Init => clears \in Nat /\ refcnt \in Int /\ skref \in Int
    BY DEF Init
  <2> QED
    BY <2>1, <2>2, <2>3, Zenon DEF Init, TypeOK
<1> QED
  BY <1>1, TypeStep, PTL DEF Spec

-----------------------------------------------------------------------------
(***************************************************************************)
(* WakeInv is inductive.  sock_recv_pkb() clears sleep only when the queue *)
(* is not empty (then nobody is blocked) or the socket is dead, and a      *)
(* packet put into an empty queue wakes every blocked thread.              *)
(***************************************************************************)
LEMMA WakeStep == TypeOK /\ WakeInv /\ [Next]_vars => WakeInv'
<1> SUFFICES ASSUME TypeOK, WakeInv, [Next]_vars PROVE WakeInv'
  OBVIOUS
<1>1. ASSUME NEW t \in Threads, RecvCall(t) PROVE WakeInv'
  BY <1>1 DEF TypeOK, WakeInv, RecvCall, Goto, sockVars, skVars
<1>2. ASSUME NEW t \in Threads, get_socket(t) PROVE WakeInv'
  BY <1>2 DEF TypeOK, WakeInv, get_socket, Goto, skVars
<1>3. ASSUME NEW t \in Threads, sock_recv_pkb(t) PROVE WakeInv'
  BY <1>3 DEF TypeOK, WakeInv, sock_recv_pkb, Block, TakeFirst, Goto
<1>4. ASSUME NEW t \in Threads, Resume(t) PROVE WakeInv'
  BY <1>4 DEF TypeOK, WakeInv, Resume, Block, TakeFirst, Goto
<1>5. ASSUME NEW t \in Threads, SpuriousWake(t) PROVE WakeInv'
  BY <1>5 DEF TypeOK, WakeInv, SpuriousWake, Goto, sockVars, skVars
<1>6. ASSUME NEW t \in Threads, RecvReturn(t) PROVE WakeInv'
  BY <1>6 DEF TypeOK, WakeInv, RecvReturn, free_socket, Goto
<1>7. ASSUME NEW t \in Threads, Interrupt(t) PROVE WakeInv'
  BY <1>7 DEF TypeOK, WakeInv, Interrupt, Goto, sockVars, skVars
<1>8. ASSUME NEW t \in Threads, TestHandle(t) PROVE WakeInv'
  BY <1>8 DEF TypeOK, WakeInv, TestHandle, Goto, sockVars, skVars
<1>9. ASSUME NEW t \in Threads, ClearHandle(t) PROVE WakeInv'
  BY <1>9 DEF TypeOK, WakeInv, ClearHandle, Goto, skVars
<1>10. ASSUME NEW t \in Threads, wait_exit(t) PROVE WakeInv'
  BY <1>10 DEF TypeOK, WakeInv, wait_exit, Broadcast, skVars
<1>11. ASSUME NEW t \in Threads, CloseFree(t) PROVE WakeInv'
  BY <1>11 DEF TypeOK, WakeInv, CloseFree, free_socket, Goto
<1>12. ASSUME NEW t \in Threads, UseAfterFree(t) PROVE WakeInv'
  BY <1>12 DEF WakeInv, UseAfterFree, sockVars, skVars
<1>13. CASE Lookup
  BY <1>13 DEF WakeInv, Lookup, sockVars
<1>14. CASE Lock
  BY <1>14 DEF WakeInv, Lock, sockVars, skVars
<1>15. CASE Enqueue
  BY <1>15 DEF TypeOK, WakeInv, Enqueue, Broadcast, sockVars
<1>16. CASE Release
  BY <1>16 DEF WakeInv, Release, sockVars
<1>17. CASE NullWait
  BY <1>17 DEF WakeInv, NullWait, sockVars, skVars
<1>18. CASE UNCHANGED vars
  BY <1>18 DEF WakeInv, vars
<1> QED
  BY <1>1, <1>2, <1>3, <1>4, <1>5, <1>6, <1>7, <1>8, <1>9, <1>10, <1>11, <1>12,
     <1>13, <1>14, <1>15, <1>16, <1>17, <1>18 DEF Next, AppStep, NetStep

\* WakeInv, which relates the sleepers to the queue, holds in every reachable state.
LEMMA WakeInvariant == Spec => []WakeInv
<1>1. Init => WakeInv
  BY DEF Init, WakeInv
<1> QED
  BY <1>1, WakeStep, TypeCorrect, PTL DEF Spec

(***************************************************************************)
(* No lost wakeup: whatever the number of readers and packets, a queued    *)
(* packet never coexists with a thread blocked in sock_recv_pkb().         *)
(***************************************************************************)
THEOREM NoLostWakeup == Spec => []NoStrandedPacket
<1>1. WakeInv => NoStrandedPacket
  BY DEF WakeInv, NoStrandedPacket
<1> QED
  BY <1>1, WakeInvariant, PTL

(***************************************************************************)
(* _close() frees every reader blocked at that moment: the step of         *)
(* wait_exit() that sets dead leaves no thread blocked.                    *)
(***************************************************************************)
THEOREM CloseWakesReaders == Spec => CloseReleasesBlocked
<1>1. ASSUME TypeOK, WakeInv, [Next]_vars, ~dead, dead'
      PROVE  \A t \in Threads : pc'[t] # "blocked"
  <2>1. PICK t \in Threads : wait_exit(t)
    BY <1>1, Zenon DEF Next, AppStep, NetStep, RecvCall, get_socket, sock_recv_pkb, Resume,
       SpuriousWake, RecvReturn, Interrupt, TestHandle, ClearHandle, CloseFree,
       UseAfterFree, Lookup, Lock, Enqueue, Release, NullWait, sockVars, vars
  <2>2. CASE sleep
    BY <1>1, <2>1, <2>2 DEF TypeOK, wait_exit, Broadcast
  <2>3. CASE ~sleep
    BY <1>1, <2>1, <2>3 DEF TypeOK, WakeInv, wait_exit
  <2> QED
    BY <2>2, <2>3
<1>2. TypeOK /\ WakeInv /\ [Next]_vars
        => [~dead /\ dead' => \A t \in Threads : pc'[t] # "blocked"]_vars
  BY <1>1
<1> QED
  BY <1>2, TypeCorrect, WakeInvariant, PTL DEF Spec, CloseReleasesBlocked

-----------------------------------------------------------------------------
(***************************************************************************)
(* Threads that enter or leave the set of holders change its size by one.  *)
(***************************************************************************)
LEMMA HoldersFinite == IsFiniteSet(Holders)
<1>1. IsFiniteSet(Threads)
  BY ThreadsAssumption, FS_Union DEF Threads
<1> QED
  BY <1>1, FS_Subset DEF Holders

\* The same after a step.
LEMMA HoldersFinite2 == IsFiniteSet(Holders')
<1>1. IsFiniteSet(Threads)
  BY ThreadsAssumption, FS_Union DEF Threads
<1> QED
  BY <1>1, FS_Subset DEF Holders

\* A thread that enters _recv() or _close() adds one holder of the socket.
LEMMA HolderAdded ==
    ASSUME NEW t \in Threads, t \notin Holders, Holders' = Holders \cup {t}
    PROVE  Cardinality(Holders') = Cardinality(Holders) + 1
BY HoldersFinite, FS_AddElement

\* A thread that leaves removes one.
LEMMA HolderRemoved ==
    ASSUME NEW t \in Holders, Holders' = Holders \ {t}
    PROVE  Cardinality(Holders') = Cardinality(Holders) - 1
BY HoldersFinite, FS_RemoveElement

(***************************************************************************)
(* Count survives a free_socket() by a thread that stops being a holder.   *)
(***************************************************************************)
LEMMA FreeSocketRef ==
    ASSUME TypeOK, Count, NEW t \in Holders, live, free_socket,
           Holders' = Holders \ {t}, clears' = clears
    PROVE  Count'
<1> DEFINE h == IF handle THEN 1 ELSE 0
<1>1. h \in {0, 1} /\ (h = 0 => ~handle) /\ h' = h /\ handle' = handle
  BY DEF TypeOK, handle
<1>2. refcnt = Cardinality(Holders) + h /\ refcnt' = refcnt - 1
  BY DEF Count, free_socket
<1>3. Cardinality(Holders') = Cardinality(Holders) - 1
  BY HolderRemoved
<1>4. Cardinality(Holders') \in Nat /\ Cardinality(Holders) \in Nat
  BY HoldersFinite, HoldersFinite2, FS_CardinalityType
<1>5. refcnt' = Cardinality(Holders') + h
  BY <1>1, <1>2, <1>3, <1>4
<1>6. ASSUME ~live' PROVE Holders' = {} /\ ~handle'
  <2>1. refcnt' <= 0
    BY <1>6, <1>2 DEF free_socket
  <2>2. Cardinality(Holders') = 0 /\ h = 0
    BY <2>1, <1>1, <1>4, <1>5
  <2> QED
    BY <2>2, <1>1, HoldersFinite2, FS_EmptySet
<1> QED
  BY <1>1, <1>5, <1>6 DEF Count

(***************************************************************************)
(* Count survives a step that changes neither the holders nor what they    *)
(* are compared with.                                                      *)
(***************************************************************************)
LEMMA SameHolders ==
    ASSUME Count, Holders' = Holders, UNCHANGED <<clears, refcnt, live>>
    PROVE  Count'
BY DEF Count, handle

(***************************************************************************)
(* RefInv is inductive: the second thread that gets past the test of the   *)
(* pointer ends its claim.                                                 *)
(***************************************************************************)
LEMMA RefStep == TypeOK /\ RefInv /\ [Next]_vars => RefInv'
<1> SUFFICES ASSUME TypeOK, RefInv, [Next]_vars, clears' <= 1 PROVE Count'
  BY DEF RefInv
<1>0. clears' \in {clears, clears + 1}
  BY DEF Next, AppStep, NetStep, RecvCall, get_socket, sock_recv_pkb, Resume,
     SpuriousWake, RecvReturn, Interrupt, TestHandle, ClearHandle, wait_exit, CloseFree,
     UseAfterFree, Lookup, Lock, Enqueue, Release, NullWait, sockVars, vars
<1>b. Count
  BY <1>0 DEF TypeOK, RefInv
<1>1. ASSUME NEW t \in Threads, RecvCall(t) PROVE Count'
  <2>1. Holders' = Holders
    BY <1>1 DEF TypeOK, RecvCall, Goto, Holders, Inside, Closing
  <2> QED
    BY <1>b, <1>1, <2>1, SameHolders DEF RecvCall, sockVars
<1>2. ASSUME NEW t \in Threads, get_socket(t) PROVE Count'
  <2>1. t \notin Holders /\ Holders' = Holders \cup {t}
    BY <1>2 DEF TypeOK, get_socket, Goto, Holders, Inside, Closing
  <2>2. Cardinality(Holders') = Cardinality(Holders) + 1
    BY <2>1, HolderAdded
  <2>3. Cardinality(Holders) \in Nat
    BY HoldersFinite, FS_CardinalityType
  <2> QED
    BY <1>b, <1>2, <2>2, <2>3 DEF TypeOK, get_socket, Count, handle
<1>3. ASSUME NEW t \in Threads, sock_recv_pkb(t) PROVE Count'
  <2>1. Holders' = Holders
    BY <1>3 DEF TypeOK, sock_recv_pkb, Block, TakeFirst, Goto, Holders, Inside, Closing
  <2> QED
    BY <1>b, <1>3, <2>1, SameHolders DEF sock_recv_pkb
<1>4. ASSUME NEW t \in Threads, Resume(t) PROVE Count'
  <2>1. Holders' = Holders
    BY <1>4 DEF TypeOK, Resume, Block, TakeFirst, Goto, Holders, Inside, Closing
  <2> QED
    BY <1>b, <1>4, <2>1, SameHolders DEF Resume
<1>5. ASSUME NEW t \in Threads, SpuriousWake(t) PROVE Count'
  <2>1. Holders' = Holders
    BY <1>5 DEF TypeOK, SpuriousWake, Goto, Holders, Inside, Closing
  <2> QED
    BY <1>b, <1>5, <2>1, SameHolders DEF SpuriousWake, sockVars
<1>6. ASSUME NEW t \in Threads, RecvReturn(t) PROVE Count'
  <2>1. t \in Holders /\ Holders' = Holders \ {t}
    BY <1>6 DEF TypeOK, RecvReturn, Goto, Holders, Inside, Closing
  <2> QED
    BY <1>b, <1>6, <2>1, FreeSocketRef DEF RecvReturn
<1>7. ASSUME NEW t \in Threads, Interrupt(t) PROVE Count'
  <2>1. Holders' = Holders
    BY <1>7 DEF TypeOK, Interrupt, Goto, Holders, Inside, Closing
  <2> QED
    BY <1>b, <1>7, <2>1, SameHolders DEF Interrupt, sockVars
<1>8. ASSUME NEW t \in Threads, TestHandle(t) PROVE Count'
  <2>1. Holders' = Holders
    BY <1>8 DEF TypeOK, TestHandle, Goto, Holders, Inside, Closing
  <2> QED
    BY <1>b, <1>8, <2>1, SameHolders DEF TestHandle, sockVars
<1>9. ASSUME NEW t \in Threads, ClearHandle(t) PROVE Count'
  <2>1. handle /\ ~handle'
    BY <1>9 DEF TypeOK, ClearHandle, handle
  <2>2. t \notin Holders /\ Holders' = Holders \cup {t}
    BY <1>9 DEF TypeOK, ClearHandle, Goto, Holders, Inside, Closing
  <2>3. Cardinality(Holders') = Cardinality(Holders) + 1 /\ Cardinality(Holders) \in Nat
    BY <2>2, HolderAdded, HoldersFinite, FS_CardinalityType
  <2> QED
    BY <1>b, <1>9, <2>1, <2>3 DEF TypeOK, ClearHandle, Count
<1>10. ASSUME NEW t \in Threads, wait_exit(t) PROVE Count'
  <2>1. Holders' = Holders
    BY <1>10 DEF TypeOK, wait_exit, Broadcast, Holders, Inside, Closing
  <2> QED
    BY <1>b, <1>10, <2>1, SameHolders DEF wait_exit
<1>11. ASSUME NEW t \in Threads, CloseFree(t) PROVE Count'
  <2>1. t \in Holders /\ Holders' = Holders \ {t}
    BY <1>11 DEF TypeOK, CloseFree, Goto, Holders, Inside, Closing
  <2> QED
    BY <1>b, <1>11, <2>1, FreeSocketRef DEF CloseFree
<1>12. ASSUME NEW t \in Threads, UseAfterFree(t) PROVE Count'
  <2>1. Holders' = Holders
    BY <1>12 DEF TypeOK, UseAfterFree, Holders, Inside, Closing
  <2> QED
    BY <1>b, <1>12, <2>1, SameHolders DEF UseAfterFree, sockVars
<1>13. CASE Lookup \/ Lock \/ Release \/ NullWait
  <2>1. Holders' = Holders
    BY <1>13 DEF Lookup, Lock, Release, NullWait, Holders, Inside, Closing
  <2> QED
    BY <1>b, <1>13, <2>1, SameHolders DEF Lookup, Lock, Release, NullWait, sockVars
<1>14. CASE Enqueue
  <2>1. Holders' = Holders
    BY <1>14 DEF TypeOK, Enqueue, Broadcast, Holders, Inside, Closing
  <2> QED
    BY <1>b, <1>14, <2>1, SameHolders DEF Enqueue, sockVars
<1>15. CASE UNCHANGED vars
  BY <1>b, <1>15 DEF Count, handle, Holders, Inside, Closing, vars
<1> QED
  BY <1>1, <1>2, <1>3, <1>4, <1>5, <1>6, <1>7, <1>8, <1>9, <1>10, <1>11, <1>12,
     <1>13, <1>14, <1>15 DEF Next, AppStep, NetStep

(***************************************************************************)
(* "get reference for _close() safe": the struct socket outlives every     *)
(* _recv() in progress, until two threads get past the test of the         *)
(* application's pointer in close_socket().                                *)
(***************************************************************************)
THEOREM RecvIsCloseSafe == Spec => []RecvHoldsSocket
<1>1. Init => RefInv
  <2> SUFFICES ASSUME Init PROVE RefInv
    OBVIOUS
  <2>1. Holders = {}
    BY DEF Init, Holders, Inside, Closing
  <2>2. Cardinality(Holders) = 0
    BY <2>1, FS_EmptySet
  <2> QED
    BY <2>1, <2>2 DEF Init, RefInv, Count, handle
<1>2. RefInv => RecvHoldsSocket
  BY DEF RefInv, Count, RecvHoldsSocket, Holders
<1> QED
  BY <1>1, <1>2, RefStep, TypeCorrect, PTL DEF Spec

-----------------------------------------------------------------------------
(***************************************************************************)
(* Facts about the two ends of a queue.                                    *)
(***************************************************************************)
\* A packet put at the end of the queue is the last of everything accepted.
LEMMA AppendToSecond ==
    ASSUME NEW s \in Seq(Nat), NEW q \in Seq(Nat), NEW x \in Nat
    PROVE  Append(s \o q, x) = s \o Append(q, x)
OBVIOUS

\* Taking the first packet moves the border between taken and queued by one.
LEMMA MoveFirst ==
    ASSUME NEW s \in Seq(Nat), NEW q \in Seq(Nat), q # <<>>
    PROVE  s \o q = Append(s, Head(q)) \o Tail(q)
OBVIOUS

\* What was taken is a prefix of what was accepted.
LEMMA PrefixOf ==
    ASSUME NEW s \in Seq(Nat), NEW q \in Seq(Nat)
    PROVE  s = SubSeq(s \o q, 1, Len(s)) /\ Len(s) \in 0..Len(s \o q)
OBVIOUS

(***************************************************************************)
(* What sock_close() clears together it clears for good: without recv_wait *)
(* the queue stays empty, so nothing is taken any more.                    *)
(***************************************************************************)
FifoInv ==
    /\ FifoOnce
    /\ ~wait => queue = <<>>

\* A step that leaves the three sequences alone keeps FifoInv, recv_wait set or not.
LEMMA FifoStill ==
    ASSUME FifoInv, UNCHANGED <<accepted, taken, queue, wait>>
    PROVE  FifoInv'
BY DEF FifoInv, FifoOnce

\* So does the critical section of sock_recv_pkb().
LEMMA FifoSection ==
    ASSUME TypeOK, TypeOK', FifoInv, NEW t \in Threads, Block(t) \/ TakeFirst(t),
           UNCHANGED <<accepted, wait>>
    PROVE  FifoInv'
<1>1. CASE UNCHANGED <<queue, taken>>
  BY <1>1, FifoStill
<1>2. CASE queue # <<>> /\ queue' = Tail(queue) /\ taken' = Append(taken, Head(queue))
  <2>1. wait /\ accepted = taken \o queue
    BY <1>2 DEF FifoInv, FifoOnce
  <2>2. accepted' = taken' \o queue'
    BY <1>2, <2>1, MoveFirst DEF TypeOK
  <2>3. wait'
    BY <2>1
  <2>4. taken' = SubSeq(accepted', 1, Len(taken')) /\ Len(taken') \in 0..Len(accepted')
    BY <2>2, PrefixOf DEF TypeOK
  <2> QED
    BY <2>2, <2>3, <2>4 DEF FifoInv, FifoOnce
<1> QED
  BY <1>1, <1>2 DEF Block, TakeFirst

\* And free_socket(), which empties the queue when it clears recv_wait.
LEMMA FifoFree ==
    ASSUME FifoInv, free_socket, UNCHANGED <<accepted, taken>>
    PROVE  FifoInv'
BY DEF FifoInv, FifoOnce, free_socket

\* FifoInv is inductive: only the reader, the producer and the last close touch it.
LEMMA FifoStep == TypeOK /\ FifoInv /\ [Next]_vars => FifoInv'
<1> SUFFICES ASSUME TypeOK, FifoInv, [Next]_vars PROVE FifoInv'
  OBVIOUS
<1>0. TypeOK'
  BY TypeStep
<1>1. ASSUME NEW t \in Threads, sock_recv_pkb(t) \/ Resume(t) PROVE FifoInv'
  BY <1>0, <1>1, FifoSection DEF sock_recv_pkb, Resume
<1>2. ASSUME NEW t \in Threads, RecvReturn(t) \/ CloseFree(t) PROVE FifoInv'
  BY <1>2, FifoFree DEF RecvReturn, CloseFree
<1>3. CASE Enqueue
  <2>1. wait /\ wait' /\ taken' = taken /\ accepted = taken \o queue
    BY <1>3 DEF Enqueue, FifoInv, FifoOnce
  <2>2. taken \in Seq(Nat) /\ queue \in Seq(Nat) /\ Len(accepted) + 1 \in Nat
    BY DEF TypeOK
  <2>3. PICK x \in Nat : queue' = Append(queue, x) /\ accepted' = Append(accepted, x)
    BY <1>3, <2>2, Zenon DEF Enqueue
  <2>4. Append(taken \o queue, x) = taken \o Append(queue, x)
    BY <2>2, AppendToSecond, Zenon
  <2>5. accepted' = taken' \o queue'
    BY <2>1, <2>3, <2>4, Zenon
  <2>6. taken' = SubSeq(accepted', 1, Len(taken')) /\ Len(taken') \in 0..Len(accepted')
    BY <1>0, <2>5, PrefixOf DEF TypeOK
  <2> QED
    BY <2>1, <2>5, <2>6 DEF FifoInv, FifoOnce
<1>4. ASSUME NEW t \in Threads,
             \/ RecvCall(t) \/ get_socket(t) \/ SpuriousWake(t) \/ Interrupt(t)
             \/ TestHandle(t) \/ ClearHandle(t) \/ wait_exit(t) \/ UseAfterFree(t)
      PROVE  FifoInv'
  BY <1>4, FifoStill DEF RecvCall, get_socket, SpuriousWake, Interrupt, TestHandle,
     ClearHandle, wait_exit, UseAfterFree, skVars
<1>5. CASE Lookup \/ Lock \/ Release \/ NullWait
  BY <1>5, FifoStill DEF Lookup, Lock, Release, NullWait, skVars
<1>6. CASE UNCHANGED vars
  BY <1>6, FifoStill DEF vars
<1> QED
  BY <1>1, <1>2, <1>3, <1>4, <1>5, <1>6 DEF Next, AppStep, NetStep

(***************************************************************************)
(* Readers that share a socket take every packet that udp_recv() or        *)
(* raw_recv() queued once and in order of arrival, whatever their number   *)
(* and that of the packets; the last close discards only from the end.     *)
(***************************************************************************)
THEOREM PacketsTakenInOrder == Spec => []FifoOnce
<1>1. Init => FifoInv
  <2> SUFFICES ASSUME Init PROVE FifoInv
    OBVIOUS
  <2>1. accepted = <<>> /\ taken = <<>> /\ queue = <<>> /\ wait
    BY DEF Init
  <2>2. <<>> = <<>> \o <<>> /\ <<>> = SubSeq(<<>>, 1, 0) /\ 0 \in 0..Len(<<>>)
    OBVIOUS
  <2> QED
    BY <2>1, <2>2 DEF FifoInv, FifoOnce
<1>2. FifoInv => FifoOnce
  BY DEF FifoInv
<1> QED
  BY <1>1, <1>2, FifoStep, TypeCorrect, PTL DEF Spec
=============================================================================
