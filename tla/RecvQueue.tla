----------------------------- MODULE RecvQueue -----------------------------
(***************************************************************************)
(* The receive queue of a UDP or raw socket and the threads that share it: *)
(* the application threads blocked in _recv(), the receive thread of the   *)
(* network device that appends packets, and the thread (a signal handler   *)
(* included) that calls _close().                                          *)
(*                                                                         *)
(* A critical section of recv_wait->mutex is one step, except the one of   *)
(* udp_recv()/raw_recv(), which reads sk->recv_wait three times: it is     *)
(* split where sock_close(), which takes no lock, can come between.        *)
(* Packets are numbered in the order of arrival.                           *)
(***************************************************************************)
EXTENDS Integers, Sequences, FiniteSets

CONSTANTS
    Readers,     \* application threads that loop over _recv(sock)
    Interrupts,  \* signal handlers: they run close_socket() once, at any time
    Closers,     \* readers that run close_socket() when their loop ends
    TakesRef,    \* TRUE: udp_lookup_sock(), FALSE: raw_lookup_sock()
    MaxPackets   \* bound on the packets that arrive

ASSUME ThreadsAssumption ==
    /\ IsFiniteSet(Readers) /\ IsFiniteSet(Interrupts)
    /\ Readers \cap Interrupts = {}
    /\ Closers \subseteq Readers
ASSUME BoundAssumption == TakesRef \in BOOLEAN /\ MaxPackets \in Nat

VARIABLES
    clears,    \* times close_socket() set the application's `sock` to NULL
    refcnt,    \* socket->refcnt
    live,      \* the struct socket has not been freed
    dead,      \* socket->sleep.dead
    sleep,     \* socket->sleep.sleep
    locked,    \* the receive thread holds socket->sleep.mutex
    queue,     \* sk->recv_queue
    wait,      \* sk->recv_wait is not NULL
    hashed,    \* sk is in its protocol's hash table
    skref,     \* sk->refcnt (sk is freed at 0)
    net,       \* where the receive thread is
    pc,        \* where each application thread is
    pkb,       \* the packet each thread's _recv() is about to return, 0: NULL
    accepted,  \* history: every packet appended to the queue
    taken,     \* history: every packet removed by a reader
    panic      \* a thread used a NULL or freed pointer: no claim about the rest

sockVars == <<clears, refcnt, live, dead, sleep>>
skVars == <<queue, wait, hashed, skref>>
vars == <<clears, refcnt, live, dead, sleep, locked, queue, wait, hashed,
          skref, net, pc, pkb, accepted, taken, panic>>

Threads == Readers \cup Interrupts

Locations == {"top", "recv", "enter", "blocked", "woken", "leave", "idle",
              "exit", "clear", "kill", "drop", "done"}

\* The application's static pointer `sock` is not NULL
handle == clears = 0

Goto(t, l) == pc' = [pc EXCEPT ![t] = l]

\* pthread_cond_broadcast(): every blocked thread has to take the mutex again
Broadcast(p) == [t \in Threads |-> IF p[t] = "blocked" THEN "woken" ELSE p[t]]

Init ==
    /\ clears = 0 /\ refcnt = 1 /\ live = TRUE
    /\ dead = FALSE /\ sleep = FALSE /\ locked = FALSE
    /\ queue = <<>> /\ wait = TRUE /\ hashed = TRUE /\ skref = 2
    /\ net = "idle"
    /\ pc = [t \in Threads |-> IF t \in Readers THEN "top" ELSE "idle"]
    /\ pkb = [t \in Threads |-> 0]
    /\ accepted = <<>> /\ taken = <<>> /\ panic = FALSE

(***************************************************************************)
(* free_socket(): the last reference closes the sock.  sock_close() clears *)
(* recv_wait, unhashes the sock and drains the queue, inet_close() drops   *)
(* the user's reference to it.                                             *)
(***************************************************************************)
free_socket ==
    /\ refcnt' = refcnt - 1
    /\ IF refcnt - 1 <= 0
       THEN /\ live' = FALSE /\ wait' = FALSE /\ hashed' = FALSE
            /\ queue' = <<>>
            /\ skref' = skref - 1 - (IF hashed THEN 1 ELSE 0)
       ELSE UNCHANGED <<live, wait, hashed, queue, skref>>

(***************************************************************************)
(* The application thread: recv_udp_packet() and _recv().                  *)
(***************************************************************************)
\* The loop passes the value of `sock` to _recv(), which returns for NULL
RecvCall(t) ==
    /\ pc[t] = "top"
    /\ Goto(t, IF handle THEN "recv" ELSE IF t \in Closers THEN "exit" ELSE "done")
    /\ UNCHANGED <<sockVars, skVars, locked, net, pkb, accepted, taken, panic>>

get_socket_uncounted(t) ==
    /\ pc[t] = "recv" /\ live
    /\ Goto(t, "enter")
    /\ UNCHANGED <<sockVars, skVars, locked, net, pkb, accepted, taken, panic>>

get_socket(t) ==
    /\ pc[t] = "recv" /\ live
    /\ refcnt' = refcnt + 1
    /\ Goto(t, "enter")
    /\ UNCHANGED <<clears, live, dead, sleep, skVars, locked, net, pkb, accepted,
                   taken, panic>>

\* What follows the loop of sock_recv_pkb(): take the first packet, if any
TakeFirst(t) ==
    /\ sleep' = FALSE
    /\ Goto(t, "leave")
    /\ IF queue = <<>>
       THEN pkb' = [pkb EXCEPT ![t] = 0] /\ UNCHANGED <<queue, taken>>
       ELSE /\ pkb' = [pkb EXCEPT ![t] = Head(queue)]
            /\ queue' = Tail(queue)
            /\ taken' = Append(taken, Head(queue))

\* The body of the loop: pthread_cond_wait() releases the mutex
Block(t) ==
    /\ sleep' = TRUE
    /\ Goto(t, "blocked")
    /\ UNCHANGED <<pkb, queue, taken>>

\* sock_recv_pkb() up to the first wait or the end.  dead is not read here.
sock_recv_pkb(t) ==
    /\ pc[t] = "enter" /\ live /\ ~locked
    /\ IF queue = <<>> THEN Block(t) ELSE TakeFirst(t)
    /\ UNCHANGED <<clears, refcnt, live, dead, locked, wait, hashed, skref, net,
                   accepted, panic>>

\* sock_recv_pkb() after a return of pthread_cond_wait()
Resume(t) ==
    /\ pc[t] = "woken" /\ live /\ ~locked
    /\ IF ~dead /\ queue = <<>> THEN Block(t) ELSE TakeFirst(t)
    /\ UNCHANGED <<clears, refcnt, live, dead, locked, wait, hashed, skref, net,
                   accepted, panic>>

\* pthread_cond_wait() may return although nobody signalled
SpuriousWake(t) ==
    /\ pc[t] = "blocked"
    /\ Goto(t, "woken")
    /\ UNCHANGED <<sockVars, skVars, locked, net, pkb, accepted, taken, panic>>

(***************************************************************************)
(* _recv() returns.  The loop ends when it returned no packet; the loops   *)
(* that close the socket themselves also end on a count or a write error.  *)
(***************************************************************************)
RecvReturn(t) ==
    /\ pc[t] = "leave" /\ live
    /\ free_socket
    /\ \/ pkb[t] # 0 /\ Goto(t, "top")
       \/ t \in Closers /\ Goto(t, "exit")
       \/ pkb[t] = 0 /\ t \notin Closers /\ Goto(t, "done")
    /\ UNCHANGED <<clears, dead, sleep, locked, net, pkb, accepted, taken, panic>>

(***************************************************************************)
(* close_socket() of the applications, at the end of the loop or in the    *)
(* signal handler: test the pointer, clear it, _close().                   *)
(***************************************************************************)
Interrupt(t) ==
    /\ pc[t] = "idle"
    /\ Goto(t, "exit")
    /\ UNCHANGED <<sockVars, skVars, locked, net, pkb, accepted, taken, panic>>

TestHandle(t) ==
    /\ pc[t] = "exit"
    /\ Goto(t, IF handle THEN "clear" ELSE "done")
    /\ UNCHANGED <<sockVars, skVars, locked, net, pkb, accepted, taken, panic>>

ClearHandle(t) ==
    /\ pc[t] = "clear"
    /\ clears' = clears + 1
    /\ Goto(t, "kill")
    /\ UNCHANGED <<refcnt, live, dead, sleep, skVars, locked, net, pkb, accepted,
                   taken, panic>>

\* wait_exit(&sock->sleep) in _close()
wait_exit_silent(t) ==
    /\ pc[t] = "kill" /\ live /\ ~locked
    /\ dead' = TRUE
    /\ Goto(t, "drop")
    /\ UNCHANGED <<clears, refcnt, live, sleep, skVars, locked, net, pkb, accepted,
                   taken, panic>>

wait_exit(t) ==
    /\ pc[t] = "kill" /\ live /\ ~locked
    /\ dead' = TRUE
    /\ pc' = [(IF ~dead /\ sleep THEN Broadcast(pc) ELSE pc) EXCEPT ![t] = "drop"]
    /\ UNCHANGED <<clears, refcnt, live, sleep, skVars, locked, net, pkb, accepted,
                   taken, panic>>

\* free_socket(sock) in _close()
CloseFree(t) ==
    /\ pc[t] = "drop" /\ live
    /\ free_socket
    /\ Goto(t, "done")
    /\ UNCHANGED <<clears, dead, sleep, locked, net, pkb, accepted, taken, panic>>

\* The next access of the thread is to a struct socket that has been freed
UseAfterFree(t) ==
    /\ pc[t] \in {"recv", "enter", "woken", "leave", "kill", "drop"} /\ ~live
    /\ panic' = TRUE
    /\ UNCHANGED <<sockVars, skVars, locked, net, pc, pkb, accepted, taken>>

(***************************************************************************)
(* The receive thread of the device: udp_recv() and raw_recv().            *)
(***************************************************************************)
Lookup ==
    /\ net = "idle" /\ hashed
    /\ Len(accepted) < MaxPackets
    /\ net' = "found"
    /\ skref' = IF TakesRef THEN skref + 1 ELSE skref
    /\ UNCHANGED <<sockVars, queue, wait, hashed, locked, pc, pkb, accepted, taken,
                   panic>>

\* pthread_mutex_lock(&sk->recv_wait->mutex)
Lock ==
    /\ net = "found" /\ wait
    /\ locked' = TRUE
    /\ net' = "locked"
    /\ UNCHANGED <<sockVars, skVars, pc, pkb, accepted, taken, panic>>

\* Append to the queue, broadcast if it was empty, unlock
Enqueue_lifo ==
    /\ net = "locked" /\ wait
    /\ queue' = <<Len(accepted) + 1>> \o queue
    /\ accepted' = Append(accepted, Len(accepted) + 1)
    /\ pc' = IF queue = <<>> THEN Broadcast(pc) ELSE pc
    /\ locked' = FALSE
    /\ net' = "queued"
    /\ UNCHANGED <<sockVars, wait, hashed, skref, pkb, taken, panic>>

Enqueue_wakes_late ==
    /\ net = "locked" /\ wait
    /\ queue' = Append(queue, Len(accepted) + 1)
    /\ accepted' = Append(accepted, Len(accepted) + 1)
    /\ pc' = IF queue # <<>> THEN Broadcast(pc) ELSE pc
    /\ locked' = FALSE
    /\ net' = "queued"
    /\ UNCHANGED <<sockVars, wait, hashed, skref, pkb, taken, panic>>

Enqueue ==
    /\ net = "locked" /\ wait
    /\ queue' = Append(queue, Len(accepted) + 1)
    /\ accepted' = Append(accepted, Len(accepted) + 1)
    /\ pc' = IF queue = <<>> THEN Broadcast(pc) ELSE pc
    /\ locked' = FALSE
    /\ net' = "queued"
    /\ UNCHANGED <<sockVars, wait, hashed, skref, pkb, taken, panic>>

\* free_sock(sk) in udp_recv(); raw_recv() holds no reference
Release ==
    /\ net = "queued"
    /\ net' = "idle"
    /\ skref' = IF TakesRef THEN skref - 1 ELSE skref
    /\ UNCHANGED <<sockVars, queue, wait, hashed, locked, pc, pkb, accepted, taken,
                   panic>>

\* recv_wait has become NULL, or (raw) sk has been freed, under the thread
NullWait ==
    /\ net \in {"found", "locked"} /\ ~wait
    /\ panic' = TRUE
    /\ UNCHANGED <<sockVars, skVars, locked, net, pc, pkb, accepted, taken>>

AppStep(t) ==
    \/ RecvCall(t) \/ get_socket(t) \/ sock_recv_pkb(t) \/ Resume(t)
    \/ RecvReturn(t) \/ TestHandle(t) \/ ClearHandle(t) \/ wait_exit(t)
    \/ CloseFree(t) \/ UseAfterFree(t)

NetStep == Lock \/ Enqueue \/ Release \/ NullWait

Next ==
    /\ ~panic
    /\ \/ \E t \in Threads : AppStep(t) \/ SpuriousWake(t) \/ Interrupt(t)
       \/ Lookup \/ NetStep

Spec == Init /\ [][Next]_vars

(***************************************************************************)
(* Fairness: a thread that stays runnable is eventually scheduled.         *)
(* Nothing forces packets, interrupts or spurious wakeups.                 *)
(***************************************************************************)
Fairness ==
    /\ \A t \in Threads : WF_vars(~panic /\ AppStep(t))
    /\ WF_vars(~panic /\ NetStep)

FairSpec == Spec /\ Fairness

-----------------------------------------------------------------------------
Inside(t) == pc[t] \in {"enter", "blocked", "woken", "leave"}
Closing(t) == pc[t] \in {"kill", "drop"}

\* Each variable holds a value the code's fields can hold.
TypeOK ==
    /\ clears \in Nat /\ refcnt \in Int /\ live \in BOOLEAN
    /\ dead \in BOOLEAN /\ sleep \in BOOLEAN /\ locked \in BOOLEAN
    /\ queue \in Seq(Nat) /\ wait \in BOOLEAN /\ hashed \in BOOLEAN
    /\ skref \in Int
    /\ net \in {"idle", "found", "locked", "queued"}
    /\ pc \in [Threads -> Locations]
    /\ pkb \in [Threads -> Nat]
    /\ accepted \in Seq(Nat) /\ taken \in Seq(Nat)
    /\ panic \in BOOLEAN

(***************************************************************************)
(* No lost wakeup: while a packet is queued no thread is blocked in        *)
(* pthread_cond_wait(), although udp_recv()/raw_recv() broadcast only when *)
(* they find the queue empty and several readers share the queue.          *)
(***************************************************************************)
NoStrandedPacket == queue # <<>> => \A t \in Threads : pc[t] # "blocked"

(***************************************************************************)
(* The readers of a socket together take every packet once and in the      *)
(* order of arrival, until the socket is closed; closing only discards     *)
(* packets from the end.                                                   *)
(***************************************************************************)
FifoOnce ==
    /\ wait => accepted = taken \o queue
    /\ \E n \in 0..Len(accepted) : taken = SubSeq(accepted, 1, n)

(***************************************************************************)
(* "get reference for _close() safe" (socket.c): between get_socket() and  *)
(* free_socket() of _recv() the struct socket, whose mutex and condition   *)
(* the thread uses, has not been freed by a _close() of another thread, as *)
(* long as only one close_socket() has got past its test of the pointer.   *)
(***************************************************************************)
RecvHoldsSocket == clears <= 1 => \A t \in Threads : Inside(t) => live

(***************************************************************************)
(* wait_exit() frees every thread that is blocked at that moment: the      *)
(* flag `sleep` it reads, which one reader clears on return while others   *)
(* still wait, is never stale in a way that skips the broadcast.           *)
(***************************************************************************)
CloseReleasesBlocked ==
    [][~dead /\ dead' => \A t \in Threads : pc'[t] # "blocked"]_vars

(***************************************************************************)
(* A queued packet is taken by some reader (or discarded by the close),    *)
(* whatever the spurious wakeups and however packets and readers race.     *)
(***************************************************************************)
PacketsLeave == queue # <<>> ~> (queue = <<>> \/ panic)

-----------------------------------------------------------------------------
(* What comments of the code say and the code does not do.                 *)

(***************************************************************************)
(* "If sock is waited on recv/accept, we wake it up first!" (socket.c) and *)
(* "if we dont close socket, then recv still block socket!!" (ping.c): a   *)
(* close ends the calls of _recv() that are in progress.                   *)
(***************************************************************************)
CloseEndsRecv ==
    \A t \in Readers : (dead /\ Inside(t)) ~> (~Inside(t) \/ panic)

(***************************************************************************)
(* "Now sock has nothing to do with net stack, we can free it directly !"  *)
(* (socket.c): when the struct socket is freed, the receive thread is not  *)
(* about to use the mutex inside it.                                       *)
(***************************************************************************)
FreedSocketIsDetached == ~live => net \notin {"found", "locked"}

(***************************************************************************)
(* "It sets sock to NULL before closing it. Otherwise ... double freeing"  *)
(* (ping.c): two threads never both close the same socket.                 *)
(***************************************************************************)
NoDoubleClose == \A s, t \in Threads : Closing(s) /\ Closing(t) => s = t
=============================================================================
