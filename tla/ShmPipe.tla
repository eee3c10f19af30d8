------------------------------- MODULE ShmPipe -------------------------------
(***************************************************************************)
(* One direction of the shared memory interface (net/fast_pipe.c,          *)
(* net/shm_eth.c): a ring of bytes that the transmitting threads of one    *)
(* process fill under a mutex and the receive thread of another process    *)
(* empties without one.  Only the counter `used` is written by both sides, *)
(* by atomic instructions.                                                 *)
(*                                                                         *)
(* A byte of the ring is a pair: its packet, and its place in the packet,  *)
(* where the first Header bytes hold the packet's length.                  *)
(***************************************************************************)
EXTENDS Integers, Sequences

CONSTANTS
    Capacity,    \* CB_CAPACITY
    Header,      \* sizeof(uint32_t)
    Writers,     \* transmitting threads
    Lens,        \* lengths of the packets they send
    BufLen,      \* size of the receive buffer
    MaxPackets,  \* bound on the packets sent
    Together,    \* the two processes may call shmeth_open() at the same time
    None

ASSUME RingAssumption ==
    /\ Capacity \in Nat \ {0} /\ Header \in Nat \ {0} /\ BufLen \in Nat
    /\ MaxPackets \in Nat
ASSUME WritersAssumption == None \notin Writers /\ Lens \subseteq Nat \ {0}
                            /\ Together \in BOOLEAN

VARIABLES
    magic,       \* shmint->magic = SHM_MAGIC
    ring,        \* the struct circular_buffer_t
    opening,     \* how far each process is in shmeth_open()
    mutex,       \* holder of shmeth->mutex
    wpc, out,    \* each writer: where it is, and the packet it sends
    rpc, idx, len, buf,    \* the receive thread: read_index, *pktlen, buf
    sent, got    \* history: the packets added to used, and taken from it

openVars == <<magic, opening>>
writeVars == <<mutex, wpc, out, sent>>
readVars == <<rpc, idx, len, buf, got>>
vars == <<magic, ring, opening, mutex, wpc, out, rpc, idx, len, buf, sent, got>>

Sides == {"writer", "reader"}
Unready == {"capacity", "read_index", "used", "write_index"}
Places == 0..(Capacity - 1)
NoPacket == [id |-> 0, len |-> 0]
NoByte == <<NoPacket, 0>>
Packets == [id : 1..MaxPackets, len : Lens]
PacketBytes == Packets \X (1..Header + Capacity)
Memory == [Places -> {NoByte} \cup PacketBytes]

\* Zeroed shared memory and two processes about to open it
Init ==
    /\ magic = FALSE
    /\ ring = [capacity |-> 0, write_index |-> 0, used |-> 0, read_index |-> 0,
               data |-> [i \in Places |-> NoByte]]
    /\ opening = [p \in Sides |-> "start"]
    /\ mutex = None
    /\ wpc = [w \in Writers |-> "idle"] /\ out = [w \in Writers |-> NoPacket]
    /\ rpc = "poll" /\ idx = 0 /\ len = 0 /\ buf = <<>>
    /\ sent = <<>> /\ got = <<>>

-----------------------------------------------------------------------------
(* shmeth_open(): the first process sets the magic number, then the ring.  *)

Opened(p) == opening[p] = "open"
Alone(p) == Together \/ \A q \in Sides \ {p} : opening[q] \in {"start", "open"}

Goes(p, from, to) == opening[p] = from /\ opening' = [opening EXCEPT ![p] = to]

TestMagic(p) ==
    /\ Alone(p)
    /\ Goes(p, "start", IF magic THEN "open" ELSE "magic")
    /\ UNCHANGED <<magic, ring, writeVars, readVars>>

SetMagic(p) ==
    /\ Goes(p, "magic", "capacity")
    /\ magic' = TRUE
    /\ UNCHANGED <<ring, writeVars, readVars>>

\* cb_init(), one store after the other
cb_init(p) ==
    /\ \/ Goes(p, "capacity", "read_index") /\ ring' = [ring EXCEPT !.capacity = Capacity]
       \/ Goes(p, "read_index", "used")     /\ ring' = [ring EXCEPT !.read_index = 0]
       \/ Goes(p, "used", "write_index")    /\ ring' = [ring EXCEPT !.used = 0]
       \/ Goes(p, "write_index", "open")    /\ ring' = [ring EXCEPT !.write_index = 0]
    /\ UNCHANGED <<magic, writeVars, readVars>>

-----------------------------------------------------------------------------
(* shmeth_write_packet() and cb_put_packet().                              *)

Bytes(p) == [i \in 1..(Header + p.len) |-> <<p, i>>]

cb_push_data_unwrapped(r, i, s) ==
    [r EXCEPT !.data = [j \in Places |-> IF j - i \in 0..(Len(s) - 1) THEN s[j - i + 1]
                                         ELSE @[j]]]
\* cb_push_data(): the bytes of s from index i on, around the end of the ring
cb_push_data(r, i, s) ==
    [r EXCEPT !.data = [j \in Places |->
        LET n == IF j >= i THEN j - i ELSE j - i + Capacity
        IN  IF n < Len(s) THEN s[n + 1] ELSE @[j]]]

\* The index that cb_push_data() and cb_shift_data() return; it may be Capacity
Advanced(i, n) == IF i + n > Capacity THEN i + n - Capacity ELSE i + n

\* shmeth_dev_xmit() takes the mutex for a packet of n bytes
Send(w, n) ==
    /\ Opened("writer") /\ wpc[w] = "idle" /\ mutex = None
    /\ Len(sent) < MaxPackets
    /\ out' = [out EXCEPT ![w] = [id |-> Len(sent) + 1, len |-> n]]
    /\ mutex' = w /\ wpc' = [wpc EXCEPT ![w] = "test"]
    /\ UNCHANGED <<openVars, ring, sent, readVars>>

Fits(w) == ring.capacity - ring.used >= Header + out[w].len

\* No room: the packet is dropped, the device counts a transmit error
Drop(w) ==
    /\ wpc[w] = "test" /\ ~Fits(w)
    /\ wpc' = [wpc EXCEPT ![w] = "idle"] /\ mutex' = None
    /\ out' = [out EXCEPT ![w] = NoPacket]
    /\ UNCHANGED <<openVars, ring, sent, readVars>>

Copy(w) ==
    /\ wpc[w] = "test" /\ Fits(w)
    /\ ring' = cb_push_data(ring, ring.write_index, Bytes(out[w]))
    /\ wpc' = [wpc EXCEPT ![w] = "copied"]
    /\ UNCHANGED <<openVars, mutex, out, sent, readVars>>

StoreWriteIndex(w) ==
    /\ wpc[w] = "copied"
    /\ ring' = [ring EXCEPT !.write_index = Advanced(@, Header + out[w].len)]
    /\ wpc' = [wpc EXCEPT ![w] = "stored"]
    /\ UNCHANGED <<openVars, mutex, out, sent, readVars>>

\* __sync_fetch_and_add(): the packet is visible to the reader
Publish(w) ==
    /\ wpc[w] = "stored"
    /\ ring' = [ring EXCEPT !.used = @ + Header + out[w].len]
    /\ sent' = Append(sent, out[w])
    /\ wpc' = [wpc EXCEPT ![w] = "idle"] /\ mutex' = None
    /\ out' = [out EXCEPT ![w] = NoPacket]
    /\ UNCHANGED <<openVars, readVars>>

-----------------------------------------------------------------------------
(* shmeth_rx_thread() and cb_get_packet().                                 *)

\* cb_shift_data(): n bytes from index i on, around the end of the ring
cb_shift_data(i, n) == [j \in 1..n |-> ring.data[(i + j - 1) % Capacity]]

\* The value of the length field; 0 stands for one that is not a packet's
PktLen(s) ==
    LET p == s[1][1]
    IN  IF s[1] # NoByte /\ s = [i \in 1..Header |-> <<p, i>>] THEN p.len ELSE 0

\* used covers a header: read it
ReadHeader ==
    /\ Opened("reader") /\ rpc = "poll" /\ ring.used >= Header
    /\ len' = PktLen(cb_shift_data(ring.read_index, Header))
    /\ idx' = Advanced(ring.read_index, Header)
    /\ rpc' = "header"
    /\ UNCHANGED <<openVars, ring, writeVars, buf, got>>

TestLength_strict ==
    /\ rpc = "header"
    /\ rpc' = IF ring.used <= len + Header \/ len > BufLen THEN "poll" ELSE "copy"
    /\ UNCHANGED <<openVars, ring, writeVars, idx, len, buf, got>>
\* The second test of used; when it fails, poll again
TestLength ==
    /\ rpc = "header"
    /\ rpc' = IF ring.used < len + Header \/ len > BufLen THEN "poll" ELSE "copy"
    /\ UNCHANGED <<openVars, ring, writeVars, idx, len, buf, got>>

CopyOut ==
    /\ rpc = "copy"
    /\ buf' = cb_shift_data(idx, len)
    /\ idx' = Advanced(idx, len)
    /\ rpc' = "copied"
    /\ UNCHANGED <<openVars, ring, writeVars, len, got>>

\* The packet whose bytes fill the buffer
InBuf ==
    LET p == buf[1][1]
    IN  IF len > 0 /\ buf = [i \in 1..len |-> <<p, Header + i>>] THEN p ELSE NoPacket

\* __sync_fetch_and_sub(): the bytes may be written again
Release ==
    /\ rpc = "copied"
    /\ ring' = [ring EXCEPT !.used = @ - (len + Header)]
    /\ got' = Append(got, InBuf)
    /\ rpc' = "released"
    /\ UNCHANGED <<openVars, writeVars, idx, len, buf>>

StoreReadIndex_headerless ==
    /\ rpc = "released"
    /\ ring' = [ring EXCEPT !.read_index = Advanced(@, len)]
    /\ rpc' = "poll" /\ idx' = 0 /\ len' = 0 /\ buf' = <<>>
    /\ UNCHANGED <<openVars, writeVars, got>>
\* The last store of cb_get_packet(); the buffer goes to net_in()
StoreReadIndex ==
    /\ rpc = "released"
    /\ ring' = [ring EXCEPT !.read_index = idx]
    /\ rpc' = "poll" /\ idx' = 0 /\ len' = 0 /\ buf' = <<>>
    /\ UNCHANGED <<openVars, writeVars, got>>

-----------------------------------------------------------------------------
OpenStep(p) == TestMagic(p) \/ SetMagic(p) \/ cb_init(p)
WriteStep(w) == Drop(w) \/ Copy(w) \/ StoreWriteIndex(w) \/ Publish(w)
ReadStep == ReadHeader \/ TestLength \/ CopyOut \/ Release \/ StoreReadIndex

Next ==
    \/ \E p \in Sides : OpenStep(p)
    \/ \E w \in Writers : (\E n \in Lens : Send(w, n)) \/ WriteStep(w)
    \/ ReadStep

Spec == Init /\ [][Next]_vars

\* The receive thread polls for ever and the scheduler runs it; both processes
\* finish opening the interface
FairSpec == Spec /\ WF_vars(ReadStep) /\ \A p \in Sides : WF_vars(OpenStep(p))

-----------------------------------------------------------------------------
\* Type invariant: the ring, the two processes and the histories hold values of
\* their types; used never exceeds the capacity, and the indices stay in the ring.
TypeOK ==
    /\ magic \in BOOLEAN
    /\ ring \in [capacity : {0, Capacity}, write_index : 0..Capacity,
                used : 0..Capacity, read_index : 0..Capacity, data : Memory]
    /\ opening \in [Sides -> {"start", "magic", "open"} \cup Unready]
    /\ mutex \in Writers \cup {None}
    /\ wpc \in [Writers -> {"idle", "test", "copied", "stored"}]
    /\ out \in [Writers -> Packets \cup {NoPacket}]
    /\ rpc \in {"poll", "header", "copy", "copied", "released"}
    /\ idx \in 0..Capacity /\ len \in 0..Capacity
    /\ buf \in Seq(PacketBytes)
    /\ sent \in Seq(Packets) /\ got \in Seq(Packets)

\* The packets the writers' device has accepted and the receive thread has not
\* taken are exactly the next ones in the ring: cb_put_packet() and cb_get_packet()
\* implement a lossless queue, whatever the order of their stores.
Fifo == INSTANCE PacketFifo
            WITH queue <- SubSeq(sent, Len(got) + 1, Len(sent)), delivered <- got
ImplementsFifo == Fifo!Spec

\* Types are kept, and bytes of packets that are counted in used are never overwritten by a writer
\* that works from an older value of used, and lie where the reader will look.
UnreadIntact ==
    TypeOK /\
    LET start == IF rpc = "released" THEN idx ELSE ring.read_index
        next == Len(got) + 1
    IN  next <= Len(sent) =>
            \A i \in 1..(Header + sent[next].len) :
                ring.data[(start + i - 1) % Capacity] = <<sent[next], i>>

\* Every packet that a writer has published reaches the receive thread.
AllDelivered == \A n \in 1..MaxPackets : (Len(sent) >= n) ~> (Len(got) >= n)

-----------------------------------------------------------------------------
(* What a comment of the code says and the code does not do.               *)

\* shmeth_open() takes the magic number as a sign that the ring is initialised
\* ("not initialized yet" is its other branch): an open interface has its ring ready.
MagicMeansReady ==
    \A p \in Sides : Opened(p) =>
        \A q \in Sides : opening[q] \notin Unready
=============================================================================
