---------------------------- MODULE ShmPipeProofs ----------------------------
(***************************************************************************)
(* Proofs about the shared memory ring (module ShmPipe), for every         *)
(* capacity, header size, set of writers and number of packets: no byte    *)
(* that the reader still needs is overwritten, and the ring implements a   *)
(* lossless queue.  Both need one process to finish shmeth_open() before   *)
(* the other starts it (Together = FALSE).                                 *)
(*                                                                         *)
(* The state does not say where in the ring the unread packets begin.  The *)
(* invariant says that there is a function, off, that tells how many bytes *)
(* after the reader's place each of them starts; every step is then shown  *)
(* to keep, to extend or to shift it.                                      *)
(***************************************************************************)
EXTENDS ShmPipe, SequenceTheorems, TLAPS

\* Where the oldest unread packet starts: between the two stores of Release and
\* StoreReadIndex the new read index is only known to the receive thread
Start == IF rpc = "released" THEN idx ELSE ring.read_index

\* The place of the ring that is n bytes after its beginning, n < 2 * Capacity
Around(n) == IF n < Capacity THEN n ELSE n - Capacity

\* The bytes of p are in the ring from the k-th after Start on
Holds(p, k) ==
    \A i \in 1..(Header + p.len) : ring.data[Around(Start + k + i - 1)] = <<p, i>>

\* Index i of 0..Capacity and the count n of 0..2 * Capacity mean the same place
SamePlace(i, n) == i = n \/ i = n - Capacity \/ i = n - 2 * Capacity

\* The packets published and not yet released
Unread == (Len(got) + 1)..Len(sent)

Layout(off) ==
    /\ off \in [Nat -> Int]
    /\ off[Len(got) + 1] = 0
    /\ off[Len(sent) + 1] = ring.used
    /\ \A n \in Unread : off[n + 1] = off[n] + Header + sent[n].len
    /\ \A m, n \in (Len(got) + 1)..(Len(sent) + 1) : m <= n => off[m] <= off[n]
    /\ \A n \in Unread : Holds(sent[n], off[n])

\* shmeth_open(): while a process initialises the ring the other has not opened
\* it, and nobody uses a ring that is not initialised
OpenInv ==
    /\ \A p \in Sides : opening[p] = "magic" => ~magic
    /\ \A p \in Sides : opening[p] \in {"magic"} \cup Unready =>
           \A q \in Sides \ {p} : opening[q] = "start"
    /\ ~magic => \A p \in Sides : opening[p] \in {"start", "magic"}
    /\ \/ \E p \in Sides : Opened(p) /\ ring.capacity = Capacity
       \/ /\ \A p \in Sides : ~Opened(p)
          /\ \A p \in Sides : opening[p] \in Unready \ {"capacity"} => ring.capacity = Capacity
          /\ (\A p \in Sides : opening[p] = "start") => ~magic
          /\ ring.used = 0 /\ ring.read_index = 0 /\ ring.write_index = 0
          /\ rpc = "poll" /\ \A w \in Writers : wpc[w] = "idle"

\* One writer at a time; its packet comes next, and once it is copied it lies
\* behind the unread ones
WriterInv ==
    /\ \A w \in Writers : wpc[w] # "idle" <=> mutex = w
    /\ \A w \in Writers : wpc[w] # "idle" => out[w] \in Packets /\ Opened("writer")
    /\ \A w \in Writers : wpc[w] \in {"copied", "stored"} =>
           /\ ring.used + Header + out[w].len <= Capacity
           /\ Holds(out[w], ring.used)
    /\ \A w \in Writers : wpc[w] = "stored" =>
           SamePlace(ring.write_index, Start + ring.used + Header + out[w].len)
    /\ (\A w \in Writers : wpc[w] # "stored") =>
           SamePlace(ring.write_index, Start + ring.used)

\* The receive thread works on the oldest unread packet
ReaderInv ==
    /\ Len(got) <= Len(sent)
    /\ rpc # "poll" => Opened("reader")
    /\ rpc \in {"header", "copy", "copied"} =>
           Len(got) < Len(sent) /\ len = sent[Len(got) + 1].len
    /\ rpc \in {"header", "copy"} => idx = Advanced(ring.read_index, Header)
    /\ rpc = "copied" =>
           /\ idx = Advanced(Advanced(ring.read_index, Header), len)
           /\ buf = [i \in 1..len |-> <<sent[Len(got) + 1], Header + i>>]

IInv == TypeOK /\ OpenInv /\ WriterInv /\ ReaderInv /\ \E off \in [Nat -> Int] : Layout(off)

-----------------------------------------------------------------------------
(* Arithmetic of the ring.                                                 *)

\* Below twice the capacity a remainder is at most one subtraction.
LEMMA RemainderAround ==
    ASSUME NEW n \in Nat, n < 2 * Capacity
    PROVE  n % Capacity = Around(n) /\ Around(n) \in Places
<1>1. n < Capacity => n % Capacity = n
    BY RingAssumption
<1>2. n >= Capacity => n % Capacity = n - Capacity
  <2> SUFFICES ASSUME n >= Capacity PROVE n % Capacity = n - Capacity
      OBVIOUS
  <2>1. n - Capacity \in 0..(Capacity - 1)
      BY RingAssumption
  <2>2. (n - Capacity) % Capacity = n - Capacity
      BY <2>1, RingAssumption
  <2>3. n % Capacity = (n - Capacity) % Capacity
      BY RingAssumption
  <2> QED BY <2>2, <2>3
<1> QED BY <1>1, <1>2, RingAssumption DEF Around, Places

\* An index advances by less than a full turn to an index.
LEMMA AdvancedIndex ==
    ASSUME NEW i \in 0..Capacity, NEW n \in 0..Capacity
    PROVE  Advanced(i, n) \in 0..Capacity /\ SamePlace(Advanced(i, n), i + n)
BY RingAssumption DEF Advanced, SamePlace

\* Advancing over the header and then over the packet is one advance.
LEMMA AdvancedTwice ==
    ASSUME NEW i \in 0..Capacity, NEW m \in Nat, NEW n \in Nat, m + n <= Capacity
    PROVE  Advanced(Advanced(i, m), n) = Advanced(i, m + n)
BY RingAssumption DEF Advanced

\* Moving the start by k bytes and the offset back by k keeps the place.
LEMMA AroundShift ==
    ASSUME NEW i \in 0..Capacity, NEW k \in 0..Capacity, NEW o \in k..(Capacity - 1)
    PROVE  Around(Advanced(i, k) + (o - k)) = Around(i + o)
BY RingAssumption DEF Advanced, Around

\* Moving the start by k bytes of the used ones keeps the writer's place.
LEMMA SamePlaceShift ==
    ASSUME NEW i \in 0..Capacity, NEW k \in 0..Capacity, NEW u \in k..Capacity,
           NEW l \in 0..Capacity, u + l <= Capacity,
           NEW w \in 0..Capacity, SamePlace(w, i + u + l)
    PROVE  SamePlace(w, Advanced(i, k) + (u - k) + l)
BY RingAssumption DEF Advanced, SamePlace

\* cb_push_data() of l bytes behind the used ones leaves the used ones alone.
LEMMA UsedUntouched ==
    ASSUME NEW s \in 0..Capacity, NEW u \in 0..Capacity, NEW l \in Nat, u + l <= Capacity,
           NEW w \in 0..Capacity, SamePlace(w, s + u), NEW o \in 0..(u - 1)
    PROVE  LET j == Around(s + o)
           IN  (IF j >= w THEN j - w ELSE j - w + Capacity) >= l
BY RingAssumption DEF Around, SamePlace

-----------------------------------------------------------------------------
(* What the invariant says of the packets in the ring.                     *)

\* An unread packet lies within the used bytes.
LEMMA UnreadWithinUsed ==
    ASSUME TypeOK, NEW off, Layout(off), NEW n \in Unread
    PROVE  /\ n \in Nat /\ sent[n] \in Packets /\ sent[n].len \in Nat \ {0}
           /\ off[n] \in Nat /\ off[n] + Header + sent[n].len <= ring.used
<1>1. n \in Nat /\ n \in 1..Len(sent)
    BY DEF TypeOK, Unread
<1>2. sent[n] \in Packets /\ sent[n].len \in Nat \ {0}
  <2>1. sent \in Seq(Packets)
      BY DEF TypeOK
  <2>2. sent[n] \in Packets
      BY <1>1, <2>1
  <2> QED BY <2>2, WritersAssumption, Zenon DEF Packets
<1>3. off[n] \in Int /\ off[n + 1] \in Int
    BY <1>1 DEF Layout
<1>4. off[Len(got) + 1] <= off[n] /\ off[n + 1] <= off[Len(sent) + 1]
  <2>1. sent \in Seq(Packets) /\ got \in Seq(Packets)
      BY DEF TypeOK
  <2>2. Len(got) \in Nat /\ Len(sent) \in Nat
      BY <2>1
  <2> DEFINE R == (Len(got) + 1)..(Len(sent) + 1)
  <2>3. n \in R /\ n + 1 \in R /\ Len(got) + 1 \in R /\ Len(sent) + 1 \in R
      BY <1>1, <2>2 DEF Unread
  <2>4. Len(got) + 1 <= n /\ n + 1 <= Len(sent) + 1
      BY <1>1, <2>2 DEF Unread
  <2>5. \A a, b \in R : a <= b => off[a] <= off[b]
      BY DEF Layout
  <2> QED BY <2>3, <2>4, <2>5
<1>5. off[n + 1] = off[n] + Header + sent[n].len
    BY DEF Layout
<1> QED BY <1>1, <1>2, <1>3, <1>4, <1>5 DEF Layout

\* The start of the unread bytes is an index of the ring.
LEMMA StartIndex ==
    ASSUME TypeOK
    PROVE  Start \in 0..Capacity /\ ring.used \in 0..Capacity
           /\ ring.read_index \in 0..Capacity /\ ring.write_index \in 0..Capacity
BY DEF TypeOK, Start

\* A step that leaves the unread bytes and the two histories alone keeps the layout.
LEMMA LayoutKept ==
    ASSUME NEW off, Layout(off), UNCHANGED <<sent, got>>, Start' = Start,
           ring'.used = ring.used, ring'.data = ring.data
    PROVE  Layout(off)'
BY Zenon DEF Layout, Holds, Unread

\* A packet in the ring is what cb_shift_data() reads from its place.
LEMMA ShiftReads ==
    ASSUME TypeOK, NEW p \in Packets, Header + p.len <= Capacity, Holds(p, 0),
           NEW m \in Nat, NEW n \in Nat, m + n <= Header + p.len
    PROVE  cb_shift_data(Advanced(Start, m), n) = [j \in 1..n |-> <<p, m + j>>]
<1> DEFINE i == Advanced(Start, m)
<1> p.len \in Nat
    BY WritersAssumption, Zenon DEF Packets
<1> Start \in 0..Capacity
    BY StartIndex
<1>0. i \in 0..Capacity /\ i = Advanced(Start, m)
  <2>1. m \in 0..Capacity
      BY RingAssumption
  <2> QED BY <2>1, AdvancedIndex
<1> HIDE DEF i
<1> SUFFICES ASSUME NEW j \in 1..n
             PROVE  ring.data[(i + j - 1) % Capacity] = <<p, m + j>>
    BY <1>0, Zenon DEF cb_shift_data
<1>1. i + j - 1 \in Nat /\ i + j - 1 < 2 * Capacity
    BY <1>0, RingAssumption
<1>2. (i + j - 1) % Capacity = Around(i + j - 1)
    BY <1>1, RemainderAround
<1>3. Around(i + j - 1) = Around(Start + (m + j - 1))
    BY <1>0, RingAssumption DEF Advanced, Around
<1>4. ring.data[Around(Start + 0 + (m + j) - 1)] = <<p, m + j>>
  <2>1. m + j \in 1..(Header + p.len)
      BY RingAssumption
  <2> QED BY <2>1 DEF Holds
<1>5. Start + 0 + (m + j) - 1 = Start + (m + j - 1)
    OBVIOUS
<1> QED BY <1>2, <1>3, <1>4, <1>5

-----------------------------------------------------------------------------
(* The initial states, and shmeth_open().                                  *)

\* The zeroed memory satisfies the invariant, with all offsets 0.
LEMMA InitIInv == Init => IInv
<1> SUFFICES ASSUME Init PROVE IInv
    OBVIOUS
<1> USE RingAssumption, WritersAssumption
<1>1. TypeOK
  <2>1. ring \in [capacity : {0, Capacity}, write_index : 0..Capacity,
                  used : 0..Capacity, read_index : 0..Capacity, data : Memory]
      BY DEF Init, Memory
  <2>2. <<>> \in Seq(Packets) /\ <<>> \in Seq(PacketBytes)
      OBVIOUS
  <2> QED BY <2>1, <2>2, Zenon DEF Init, TypeOK
<1>2. OpenInv
    BY DEF Init, OpenInv, Sides, Unready, Opened
<1>3. WriterInv
    BY DEF Init, WriterInv, SamePlace, Start
<1>4. ReaderInv
    BY DEF Init, ReaderInv
<1>5. Layout([n \in Nat |-> 0])
    BY DEF Init, Layout, Unread
<1>6. \E off \in [Nat -> Int] : Layout(off)
    BY <1>5 DEF Layout
<1> QED BY <1>1, <1>2, <1>3, <1>4, <1>6 DEF IInv

\* A step of shmeth_open() changes nothing that a writer or the receive thread
\* uses: a ring that is being initialised is still all zero.
LEMMA OpenStepIInv ==
    ASSUME IInv, Together = FALSE, NEW p \in Sides, OpenStep(p)
    PROVE  IInv'
<1> USE RingAssumption, WritersAssumption
<1>0. TypeOK /\ OpenInv /\ WriterInv /\ ReaderInv
    BY DEF IInv
<1>1. UNCHANGED <<writeVars, readVars>>
    BY DEF OpenStep, TestMagic, SetMagic, cb_init
<1>2. /\ ring' \in [capacity : {0, Capacity}, write_index : 0..Capacity,
                    used : 0..Capacity, read_index : 0..Capacity, data : Memory]
      /\ ring'.used = ring.used /\ ring'.read_index = ring.read_index
      /\ ring'.write_index = ring.write_index /\ ring'.data = ring.data
  <2>1. CASE UNCHANGED ring
      BY <1>0, <2>1 DEF TypeOK
  <2>2. CASE cb_init(p)
    <3>1. opening[p] \in Unready
        BY <2>2 DEF cb_init, Goes, Unready
    <3>2. \A q \in Sides : ~Opened(q)
        BY <3>1, <1>0 DEF OpenInv, Opened, Unready
    <3>3. ring.used = 0 /\ ring.read_index = 0 /\ ring.write_index = 0
        BY <3>2, <1>0 DEF OpenInv
    <3> QED BY <2>2, <3>3, <1>0 DEF cb_init, TypeOK
  <2> QED BY <2>1, <2>2 DEF OpenStep, TestMagic, SetMagic
<1>3. Start' = Start
    BY <1>1, <1>2 DEF Start, readVars
<1>4. TypeOK'
  <2>1. opening' \in [Sides -> {"start", "magic", "open"} \cup Unready] /\ magic' \in BOOLEAN
      BY <1>0, Zenon DEF TypeOK, OpenStep, TestMagic, SetMagic, cb_init, Goes, Unready
  <2> QED BY <1>0, <1>1, <1>2, <2>1 DEF TypeOK, writeVars, readVars
<1>5. OpenInv'
  <2>0. opening \in [Sides -> {"start", "magic", "open"} \cup Unready]
      BY <1>0 DEF TypeOK
  <2>1. CASE TestMagic(p)
      BY <2>0, <2>1, <1>0, <1>1, <1>2
      DEF TestMagic, Goes, Alone, OpenInv, Opened, Sides, Unready, writeVars, readVars
  <2>2. CASE SetMagic(p)
      BY <2>0, <2>2, <1>0, <1>1, <1>2
      DEF SetMagic, Goes, OpenInv, Opened, Sides, Unready, writeVars, readVars
  <2>3. CASE cb_init(p)
      BY <2>0, <2>3, <1>0, <1>1, <1>2
      DEF cb_init, Goes, OpenInv, Opened, Sides, Unready, writeVars, readVars, TypeOK
  <2> QED BY <2>1, <2>2, <2>3 DEF OpenStep
<1>6. Opened("writer") => Opened("writer")'
    BY <1>0 DEF TypeOK, OpenStep, TestMagic, SetMagic, cb_init, Goes, Opened, Sides
<1>7. Opened("reader") => Opened("reader")'
    BY <1>0 DEF TypeOK, OpenStep, TestMagic, SetMagic, cb_init, Goes, Opened, Sides
<1>8. WriterInv'
    BY <1>0, <1>1, <1>2, <1>3, <1>6 DEF WriterInv, Holds, writeVars
<1>9. ReaderInv'
    BY <1>0, <1>1, <1>2, <1>7 DEF ReaderInv, writeVars, readVars
<1>10. (\E off \in [Nat -> Int] : Layout(off))'
  <2>1. PICK off \in [Nat -> Int] : Layout(off)
      BY DEF IInv
  <2>2. Layout(off)'
      BY <2>1, <1>1, <1>2, <1>3, LayoutKept DEF writeVars, readVars
  <2> QED BY <2>2
<1> QED BY <1>4, <1>5, <1>8, <1>9, <1>10 DEF IInv

-----------------------------------------------------------------------------
(* The steps of a writer.                                                  *)

\* Taking the mutex for a packet touches neither the ring nor the histories.
LEMMA SendIInv ==
    ASSUME IInv, NEW w \in Writers, NEW n \in Lens, Send(w, n)
    PROVE  IInv'
<1> USE RingAssumption, WritersAssumption
<1>0. TypeOK /\ OpenInv /\ WriterInv /\ ReaderInv
    BY DEF IInv
<1>1. UNCHANGED <<openVars, ring, sent, readVars>> /\ Start' = Start
    BY DEF Send, Start, readVars
<1>2. out'[w] \in Packets /\ out' \in [Writers -> Packets \cup {NoPacket}]
  <2>1. Len(sent) \in Nat /\ Len(sent) < MaxPackets
      BY <1>0 DEF TypeOK, Send
  <2>2. [id |-> Len(sent) + 1, len |-> n] \in Packets
      BY <2>1 DEF Packets
  <2> QED BY <2>2, <1>0 DEF TypeOK, Send
<1>3. /\ wpc' \in [Writers -> {"idle", "test", "copied", "stored"}] /\ mutex' = w
      /\ wpc'[w] = "test" /\ \A v \in Writers \ {w} : wpc'[v] = wpc[v] /\ wpc[v] = "idle"
    BY <1>0 DEF Send, TypeOK, WriterInv
<1>4. TypeOK'
    BY <1>0, <1>1, <1>2, <1>3 DEF TypeOK, openVars, readVars
<1>5. OpenInv'
    BY <1>0, <1>1 DEF Send, OpenInv, Opened, Sides, openVars, readVars
<1>6. WriterInv'
    BY <1>0, <1>1, <1>2, <1>3 DEF Send, WriterInv, Holds, Opened, openVars
<1>7. ReaderInv'
    BY <1>0, <1>1 DEF ReaderInv, Opened, openVars, readVars
<1>8. (\E off \in [Nat -> Int] : Layout(off))'
  <2>1. PICK off \in [Nat -> Int] : Layout(off)
      BY DEF IInv
  <2>2. Layout(off)'
      BY <2>1, <1>1, LayoutKept DEF readVars
  <2> QED BY <2>2
<1> QED BY <1>4, <1>5, <1>6, <1>7, <1>8 DEF IInv

\* Neither does dropping it.
LEMMA DropIInv ==
    ASSUME IInv, NEW w \in Writers, Drop(w)
    PROVE  IInv'
<1> USE RingAssumption, WritersAssumption
<1>0. TypeOK /\ OpenInv /\ WriterInv /\ ReaderInv
    BY DEF IInv
<1>1. UNCHANGED <<openVars, ring, sent, readVars>> /\ Start' = Start
    BY DEF Drop, Start, readVars
<1>2. /\ wpc' \in [Writers -> {"idle", "test", "copied", "stored"}] /\ mutex' = None
      /\ \A v \in Writers : wpc'[v] = "idle" /\ (wpc[v] = "idle" \/ wpc[v] = "test")
      /\ out' \in [Writers -> Packets \cup {NoPacket}]
    BY <1>0 DEF Drop, TypeOK, WriterInv
<1>3. TypeOK'
    BY <1>0, <1>1, <1>2 DEF TypeOK, openVars, readVars
<1>4. OpenInv'
    BY <1>0, <1>1, <1>2 DEF Drop, OpenInv, Opened, openVars, readVars
<1>5. WriterInv'
    BY <1>0, <1>1, <1>2 DEF WriterInv
<1>6. ReaderInv'
    BY <1>0, <1>1 DEF ReaderInv, Opened, openVars, readVars
<1>7. (\E off \in [Nat -> Int] : Layout(off))'
  <2>1. PICK off \in [Nat -> Int] : Layout(off)
      BY DEF IInv
  <2>2. Layout(off)'
      BY <2>1, <1>1, LayoutKept DEF readVars
  <2> QED BY <2>2
<1> QED BY <1>3, <1>4, <1>5, <1>6, <1>7 DEF IInv

\* The copy of a packet fills free bytes, and only free bytes.
LEMMA CopyIInv ==
    ASSUME IInv, NEW w \in Writers, Copy(w)
    PROVE  IInv'
<1> USE RingAssumption, WritersAssumption
<1> DEFINE l == Header + out[w].len
           u == ring.used
<1>0. TypeOK /\ OpenInv /\ WriterInv /\ ReaderInv
    BY DEF IInv
<1>1. /\ UNCHANGED <<openVars, mutex, out, sent, readVars>>
      /\ wpc' = [wpc EXCEPT ![w] = "copied"] /\ wpc[w] = "test"
      /\ ring' = cb_push_data(ring, ring.write_index, Bytes(out[w]))
    BY DEF Copy
<1>2. out[w] \in Packets /\ out[w].len \in Nat /\ Opened("writer") /\ mutex = w
    BY <1>0, <1>1, Zenon DEF WriterInv, Packets
<1>3. \A v \in Writers \ {w} : wpc[v] = "idle"
    BY <1>0, <1>2 DEF WriterInv
<1>4. ring.capacity = Capacity
    BY <1>0, <1>2 DEF OpenInv, Sides
<1>5. l \in Nat /\ u \in 0..Capacity /\ u + l <= Capacity
    BY <1>0, <1>2, <1>4, StartIndex DEF Copy, Fits
<1>6. Len(Bytes(out[w])) = l /\ \A i \in 1..l : Bytes(out[w])[i] = <<out[w], i>>
    BY <1>2, <1>5 DEF Bytes
<1>7. /\ ring'.capacity = ring.capacity /\ ring'.used = ring.used
      /\ ring'.read_index = ring.read_index /\ ring'.write_index = ring.write_index
      /\ Start' = Start
    BY <1>0, <1>1 DEF cb_push_data, TypeOK, Start, readVars
<1> DEFINE N(j) == IF j >= ring.write_index THEN j - ring.write_index
                   ELSE j - ring.write_index + Capacity
<1>8. \A j \in Places :
          ring'.data[j] = IF N(j) < l THEN <<out[w], N(j) + 1>> ELSE ring.data[j]
  <2> TAKE j \in Places
  <2>1. ring'.data[j] = IF N(j) < Len(Bytes(out[w])) THEN Bytes(out[w])[N(j) + 1]
                        ELSE ring.data[j]
      BY <1>0, <1>1 DEF cb_push_data, TypeOK
  <2>2. N(j) \in Nat
      BY <1>0, StartIndex DEF Places
  <2>3. N(j) < l => N(j) + 1 \in 1..l
      BY <2>2, <1>5
  <2> HIDE DEF N, l
  <2> QED BY <2>1, <2>3, <1>6
<1>9. SamePlace(ring.write_index, Start + u)
    BY <1>0, <1>1, <1>3 DEF WriterInv
<1>10. Start \in 0..Capacity /\ ring.write_index \in 0..Capacity
    BY <1>0, StartIndex
<1> HIDE DEF l, u, N
<1>11. \A i \in 1..l : ring'.data[Around(Start + u + i - 1)] = <<out[w], i>>
  <2> TAKE i \in 1..l
  <2>1. i - 1 \in 0..(l - 1) /\ Start + u + (i - 1) = Start + u + i - 1
      BY <1>5, <1>10
  <2>2. N(Around(Start + u + i - 1)) = i - 1
      BY <2>1, <1>5, <1>9, <1>10 DEF N, Around, SamePlace
  <2>3. Around(Start + u + i - 1) \in Places
      BY <2>1, <1>5, <1>10 DEF Around, Places
  <2>4. N(Around(Start + u + i - 1)) < l /\ N(Around(Start + u + i - 1)) + 1 = i
      BY <2>1, <2>2, <1>5
  <2> QED BY <2>3, <2>4, <1>8, Zenon
<1>12. (\E off \in [Nat -> Int] : Layout(off))'
  <2>1. PICK off \in [Nat -> Int] : Layout(off)
      BY DEF IInv
  <2>2. ASSUME NEW n \in Unread PROVE Holds(sent[n], off[n])'
    <3>1. /\ sent[n] \in Packets /\ sent[n].len \in Nat
          /\ off[n] \in Nat /\ off[n] + Header + sent[n].len <= u
        BY <1>0, <2>1, UnreadWithinUsed DEF u
    <3> SUFFICES ASSUME NEW i \in 1..(Header + sent[n].len)
                 PROVE  ring'.data[Around(Start + off[n] + i - 1)] = <<sent[n], i>>
        BY <1>1, <1>7 DEF Holds
    <3>2. ring.data[Around(Start + off[n] + i - 1)] = <<sent[n], i>>
        BY <2>1, Zenon DEF Layout, Holds
    <3>3. off[n] + i - 1 \in 0..(u - 1) /\ Start + (off[n] + i - 1) = Start + off[n] + i - 1
        BY <3>1, <1>5, <1>10
    <3>4. N(Around(Start + off[n] + i - 1)) >= l
        BY <3>3, <1>5, <1>9, <1>10, UsedUntouched, Zenon DEF N
    <3>5. Around(Start + off[n] + i - 1) \in Places
        BY <3>3, <1>5, <1>10 DEF Around, Places
    <3>6. N(Around(Start + off[n] + i - 1)) \in Nat
        BY <3>5, <1>10 DEF Places, N
    <3>7. ~(N(Around(Start + off[n] + i - 1)) < l)
        BY <3>4, <3>6, <1>5
    <3> QED BY <3>2, <3>5, <3>7, <1>8, Zenon
  <2>3. Layout(off)'
      BY <2>1, <2>2, <1>1, <1>7 DEF Layout, Unread, readVars
  <2> QED BY <2>3
<1>13. TypeOK'
  <2>1. ring'.data \in Memory
    <3>1. ring'.data = [j \in Places |-> ring'.data[j]]
        BY <1>0, <1>1 DEF cb_push_data, TypeOK
    <3>2. ASSUME NEW j \in Places PROVE ring'.data[j] \in {NoByte} \cup PacketBytes
      <4>1. ring.data[j] \in {NoByte} \cup PacketBytes
          BY <1>0 DEF TypeOK, Memory
      <4>2. N(j) \in Nat
          BY <1>10 DEF Places, N
      <4>3. N(j) < l => <<out[w], N(j) + 1>> \in PacketBytes
          BY <4>2, <1>2, <1>5 DEF PacketBytes
      <4> QED BY <4>1, <4>3, <1>8
    <3> QED BY <3>1, <3>2 DEF Memory
  <2>2. ring' \in [capacity : {0, Capacity}, write_index : 0..Capacity,
                   used : 0..Capacity, read_index : 0..Capacity, data : Memory]
      BY <2>1, <1>0, <1>1, Zenon DEF cb_push_data, TypeOK
  <2>3. wpc' \in [Writers -> {"idle", "test", "copied", "stored"}]
      BY <1>0, <1>1 DEF TypeOK
  <2> QED BY <2>2, <2>3, <1>0, <1>1 DEF TypeOK, openVars, readVars
<1>14. OpenInv'
    BY <1>0, <1>1, <1>2, <1>4, <1>7 DEF OpenInv, Opened, Sides, openVars
<1>15. WriterInv'
  <2>1. /\ wpc'[w] = "copied" /\ \A v \in Writers \ {w} : wpc'[v] = "idle"
        /\ \A v \in Writers : wpc'[v] # "idle" <=> mutex' = v
      BY <1>0, <1>1, <1>3 DEF TypeOK, WriterInv
  <2>2. ring'.used + Header + out'[w].len <= Capacity
      BY <1>1, <1>2, <1>5, <1>7 DEF l, u
  <2>3. SamePlace(ring'.write_index, Start' + ring'.used)
      BY <1>7, <1>9 DEF u
  <2>4. Holds(out[w], ring.used)'
      BY <1>1, <1>7, <1>11 DEF l, u, Holds
  <2> QED BY <2>1, <2>2, <2>3, <2>4, <1>1, <1>2 DEF WriterInv, Opened, openVars
<1>16. ReaderInv'
    BY <1>0, <1>1, <1>7 DEF ReaderInv, Opened, openVars, readVars
<1> QED BY <1>12, <1>13, <1>14, <1>15, <1>16 DEF IInv

\* Storing the write index moves only the place of the next packet.
LEMMA StoreWriteIndexIInv ==
    ASSUME IInv, NEW w \in Writers, StoreWriteIndex(w)
    PROVE  IInv'
<1> USE RingAssumption, WritersAssumption
<1>0. TypeOK /\ OpenInv /\ WriterInv /\ ReaderInv
    BY DEF IInv
<1>1. /\ UNCHANGED <<openVars, mutex, out, sent, readVars>>
      /\ wpc' = [wpc EXCEPT ![w] = "stored"] /\ wpc[w] = "copied"
      /\ ring' = [ring EXCEPT !.write_index = Advanced(@, Header + out[w].len)]
    BY DEF StoreWriteIndex
<1>2. out[w] \in Packets /\ out[w].len \in Nat /\ Opened("writer") /\ mutex = w
    BY <1>0, <1>1 DEF WriterInv, Packets
<1>3. ring.used + Header + out[w].len <= Capacity /\ Holds(out[w], ring.used)
    BY <1>0, <1>1 DEF WriterInv
<1>4. /\ ring'.capacity = ring.capacity /\ ring'.used = ring.used /\ ring'.data = ring.data
      /\ ring'.read_index = ring.read_index /\ Start' = Start
      /\ ring'.write_index = Advanced(ring.write_index, Header + out[w].len)
    BY <1>0, <1>1 DEF TypeOK, Start, readVars
<1>5. /\ ring.write_index \in 0..Capacity /\ Start \in 0..Capacity
      /\ ring.used \in 0..Capacity /\ Header + out[w].len \in 0..Capacity
    BY <1>0, <1>2, <1>3, StartIndex
<1>6. ring'.write_index \in 0..Capacity
    BY <1>4, <1>5, AdvancedIndex, Zenon
<1>7. \A v \in Writers \ {w} : wpc[v] = "idle" /\ wpc'[v] = "idle"
    BY <1>0, <1>1, <1>2 DEF WriterInv, TypeOK
<1>8. wpc'[w] = "stored" /\ wpc' \in [Writers -> {"idle", "test", "copied", "stored"}]
    BY <1>0, <1>1 DEF TypeOK
<1>9. SamePlace(ring'.write_index, Start + ring.used + Header + out[w].len)
  <2>1. SamePlace(ring.write_index, Start + ring.used)
      BY <1>0, <1>1, <1>7 DEF WriterInv
  <2> QED BY <2>1, <1>2, <1>4, <1>5, <1>3 DEF SamePlace, Advanced
<1>10. TypeOK'
  <2>1. ring' \in [capacity : {0, Capacity}, write_index : 0..Capacity,
                   used : 0..Capacity, read_index : 0..Capacity, data : Memory]
      BY <1>0, <1>1, <1>4, <1>6, Zenon DEF TypeOK
  <2> QED BY <2>1, <1>0, <1>1, <1>8 DEF TypeOK, openVars, readVars
<1>11. OpenInv'
    BY <1>0, <1>1, <1>2, <1>4 DEF OpenInv, Opened, Sides, openVars
<1>12. WriterInv'
  <2>1. \A v \in Writers : wpc'[v] # "idle" <=> mutex' = v
      BY <1>1, <1>2, <1>7, <1>8
  <2>2. Holds(out[w], ring.used)'
      BY <1>1, <1>3, <1>4 DEF Holds
  <2> QED BY <2>1, <2>2, <1>1, <1>2, <1>3, <1>4, <1>7, <1>8, <1>9
          DEF WriterInv, Opened, openVars
<1>13. ReaderInv'
    BY <1>0, <1>1, <1>4 DEF ReaderInv, Opened, openVars, readVars
<1>14. (\E off \in [Nat -> Int] : Layout(off))'
  <2>1. PICK off \in [Nat -> Int] : Layout(off)
      BY DEF IInv
  <2>2. Layout(off)'
      BY <2>1, <1>1, <1>4, LayoutKept DEF readVars
  <2> QED BY <2>2
<1> QED BY <1>10, <1>11, <1>12, <1>13, <1>14 DEF IInv

\* Counting the packet in used appends it to the unread ones: off gets one more
\* value.
LEMMA PublishIInv ==
    ASSUME IInv, NEW w \in Writers, Publish(w)
    PROVE  IInv'
<1> USE RingAssumption, WritersAssumption
<1> DEFINE p == out[w]
           l == Header + out[w].len
<1>0. TypeOK /\ OpenInv /\ WriterInv /\ ReaderInv
    BY DEF IInv
<1>1. /\ UNCHANGED <<openVars, readVars>>
      /\ wpc' = [wpc EXCEPT ![w] = "idle"] /\ wpc[w] = "stored" /\ mutex' = None
      /\ out' = [out EXCEPT ![w] = NoPacket]
      /\ ring' = [ring EXCEPT !.used = @ + Header + out[w].len]
      /\ sent' = Append(sent, p)
    BY DEF Publish
<1>2. p \in Packets /\ p.len \in Nat \ {0} /\ Opened("writer") /\ mutex = w
    BY <1>0, <1>1 DEF WriterInv, Packets
<1>3. ring.used + l <= Capacity /\ Holds(p, ring.used)
  <2>1. ring.used + Header + out[w].len <= Capacity /\ Holds(p, ring.used)
      BY <1>0, <1>1 DEF WriterInv
  <2>2. ring.used \in Nat
      BY <1>0, StartIndex
  <2> QED BY <2>1, <2>2, <1>2
<1>4. /\ ring'.capacity = ring.capacity /\ ring'.used = ring.used + l
      /\ ring'.data = ring.data /\ ring'.read_index = ring.read_index
      /\ ring'.write_index = ring.write_index /\ Start' = Start
    BY <1>0, <1>1, <1>2, StartIndex DEF TypeOK, Start, readVars
<1>5. ring'.used \in 0..Capacity
    BY <1>0, <1>2, <1>3, <1>4, StartIndex
<1>6. \A v \in Writers : wpc'[v] = "idle"
    BY <1>0, <1>1, <1>2 DEF WriterInv, TypeOK
<1>7. sent \in Seq(Packets) /\ got \in Seq(Packets)
    BY <1>0 DEF TypeOK
<1>8. /\ sent' \in Seq(Packets) /\ Len(sent') = Len(sent) + 1 /\ sent'[Len(sent) + 1] = p
      /\ \A n \in 1..Len(sent) : sent'[n] = sent[n]
    BY <1>1, <1>2, <1>7
<1>9. TypeOK'
  <2>1. ring' \in [capacity : {0, Capacity}, write_index : 0..Capacity,
                   used : 0..Capacity, read_index : 0..Capacity, data : Memory]
      BY <1>0, <1>1, <1>4, <1>5, Zenon DEF TypeOK
  <2>2. wpc' \in [Writers -> {"idle", "test", "copied", "stored"}]
        /\ out' \in [Writers -> Packets \cup {NoPacket}]
      BY <1>0, <1>1 DEF TypeOK
  <2> QED BY <2>1, <2>2, <1>0, <1>1, <1>8 DEF TypeOK, openVars, readVars
<1>10. OpenInv'
    BY <1>0, <1>1, <1>2, <1>4 DEF OpenInv, Opened, Sides, openVars
<1>11. WriterInv'
  <2>1. SamePlace(ring.write_index, Start + ring.used + Header + out[w].len)
      BY <1>0, <1>1 DEF WriterInv
  <2>2. Start + ring.used + Header + out[w].len = Start' + ring'.used
      BY <1>0, <1>2, <1>4, StartIndex
  <2>3. SamePlace(ring'.write_index, Start' + ring'.used)
      BY <2>1, <2>2, <1>4
  <2>4. \A v \in Writers : mutex' # v
      BY <1>1
  <2> QED BY <2>3, <2>4, <1>6 DEF WriterInv
<1>12. ReaderInv'
  <2>1. Len(got) \in Nat /\ Len(sent) \in Nat /\ Len(got) <= Len(sent)
      BY <1>0, <1>7 DEF ReaderInv
  <2>2. Len(got) < Len(sent) => sent'[Len(got) + 1] = sent[Len(got) + 1]
      BY <2>1, <1>8
  <2>3. got' = got /\ rpc' = rpc /\ idx' = idx /\ len' = len /\ buf' = buf
      BY <1>1 DEF readVars
  <2> QED BY <2>1, <2>2, <2>3, <1>0, <1>1, <1>4, <1>8 DEF ReaderInv, Opened, openVars
<1>13. (\E off \in [Nat -> Int] : Layout(off))'
  <2>1. PICK off \in [Nat -> Int] : Layout(off)
      BY DEF IInv
  <2>0. ring.used \in Nat /\ l \in Nat /\ ring.used + l = ring.used + Header + p.len
      BY <1>0, <1>2, StartIndex
  <2>2. /\ Len(got) \in Nat /\ Len(sent) \in Nat /\ Len(got) <= Len(sent)
        /\ got' = got
      BY <1>7, <1>0, <1>1 DEF ReaderInv, readVars
  <2> DEFINE G == Len(got)
             S == Len(sent)
  <2>3. /\ Unread = (G + 1)..S /\ Unread' = (G + 1)..(S + 1)
        /\ Len(got') = G /\ Len(sent') = S + 1 /\ G \in Nat /\ S \in Nat /\ G <= S
      BY <2>2, <1>8 DEF Unread
  <2>4. /\ off[G + 1] = 0 /\ off[S + 1] = ring.used
        /\ \A n \in Unread : off[n + 1] = off[n] + Header + sent[n].len
        /\ \A m, n \in (G + 1)..(S + 1) : m <= n => off[m] <= off[n]
        /\ \A n \in Unread : Holds(sent[n], off[n])
      BY <2>1 DEF Layout
  <2>5. sent'[S + 1] = p /\ \A n \in 1..S : sent'[n] = sent[n]
      BY <1>8
  <2> HIDE DEF l, p, G, S
  <2>6. PICK off2 \in [Nat -> Int] :
            /\ off2[S + 2] = ring.used + l
            /\ \A n \in Nat : n # S + 2 => off2[n] = off[n]
    <3> DEFINE f == [off EXCEPT ![S + 2] = ring.used + l]
    <3>1. S + 2 \in Nat /\ ring.used + l \in Int
        BY <2>0, <2>3
    <3>2. f \in [Nat -> Int] /\ f[S + 2] = ring.used + l
        BY <3>1
    <3>3. \A n \in Nat : n # S + 2 => f[n] = off[n]
        OBVIOUS
    <3> QED BY <3>2, <3>3, Zenon
  <2>7. off2[G + 1] = 0 /\ off2[S + 1] = ring.used /\ off2[S + 1 + 1] = ring.used + l
      BY <2>3, <2>4, <2>6
  <2>8. ASSUME NEW n \in (G + 1)..(S + 1)
        PROVE  off2[n + 1] = off2[n] + Header + sent'[n].len /\ Holds(sent[n], off2[n])'
    <3>1. CASE n = S + 1
      <4>1. sent'[n] = p /\ off2[n] = ring.used /\ off2[n + 1] = ring.used + l
          BY <3>1, <2>5, <2>7
      <4>2. Holds(sent[n], off2[n])'
          BY <4>1, <1>3, <1>4 DEF Holds
      <4> QED BY <4>1, <4>2, <2>0
    <3>2. CASE n # S + 1
      <4>1. n \in Unread /\ n \in 1..S /\ n \in Nat /\ n # S + 2 /\ n + 1 # S + 2
          BY <3>2, <2>3
      <4>2. sent'[n] = sent[n] /\ off2[n] = off[n] /\ off2[n + 1] = off[n + 1]
          BY <4>1, <2>5, <2>6
      <4>3. Holds(sent[n], off[n]) /\ off[n + 1] = off[n] + Header + sent[n].len
          BY <4>1, <2>4
      <4>4. Holds(sent[n], off2[n])'
          BY <4>2, <4>3, <1>4 DEF Holds
      <4> QED BY <4>2, <4>3, <4>4
    <3> QED BY <3>1, <3>2
  <2>9. ASSUME NEW m \in (G + 1)..(S + 2), NEW n \in (G + 1)..(S + 2), m <= n
        PROVE  off2[m] <= off2[n]
    <3> m \in Nat /\ n \in Nat
        BY <2>3
    <3>1. CASE n # S + 2
      <4>1. m \in (G + 1)..(S + 1) /\ n \in (G + 1)..(S + 1) /\ m # S + 2
          BY <3>1, <2>3, <2>9
      <4>2. off[m] <= off[n]
          BY <4>1, <2>4, <2>9
      <4> QED BY <4>1, <4>2, <3>1, <2>6
    <3>2. CASE n = S + 2 /\ m # S + 2
      <4>1. m \in (G + 1)..(S + 1) /\ S + 1 \in (G + 1)..(S + 1) /\ m <= S + 1
          BY <3>2, <2>3
      <4>2. off[m] <= off[S + 1]
          BY <4>1, <2>4
      <4>3. off2[m] = off[m] /\ off[m] \in Int /\ off2[n] = ring.used + l
          BY <3>2, <2>6
      <4>4. off[S + 1] = ring.used
          BY <2>4
      <4> QED BY <4>2, <4>3, <4>4, <2>0
    <3>3. CASE n = m
        BY <3>3, <2>3, <2>6
    <3> QED BY <3>1, <3>2, <3>3
  <2>10. Layout(off2)'
    <3>1. off2[Len(got') + 1] = 0 /\ off2[Len(sent') + 1] = ring'.used
        BY <2>3, <2>7, <1>4
    <3>2. (Len(got') + 1)..(Len(sent') + 1) = (G + 1)..(S + 2)
        BY <2>3
    <3> QED BY <3>1, <3>2, <2>3, <2>6, <2>8, <2>9, Zenon DEF Layout
  <2> QED BY <2>6, <2>10
<1> QED BY <1>9, <1>10, <1>11, <1>12, <1>13 DEF IInv

-----------------------------------------------------------------------------
(* The steps of the receive thread.                                        *)

\* A step of the receive thread that leaves the ring alone and does not pass to
\* or from "released" keeps everything but the thread's own invariant.
LEMMA ReaderLocal ==
    ASSUME IInv, UNCHANGED <<openVars, ring, writeVars, got>>, Opened("reader"),
           rpc # "released", rpc' \in {"poll", "header", "copy", "copied"}
    PROVE  /\ OpenInv' /\ WriterInv' /\ (\E off \in [Nat -> Int] : Layout(off))'
           /\ Start' = Start
<1>0. OpenInv /\ WriterInv
    BY DEF IInv
<1>1. Start' = Start
    BY DEF Start
<1>2. OpenInv'
    BY <1>0 DEF OpenInv, Opened, Sides, openVars, writeVars
<1>3. WriterInv'
    BY <1>0, <1>1 DEF WriterInv, Holds, Opened, openVars, writeVars
<1>4. (\E off \in [Nat -> Int] : Layout(off))'
  <2>1. PICK off \in [Nat -> Int] : Layout(off)
      BY DEF IInv
  <2>2. Layout(off)'
      BY <2>1, <1>1, LayoutKept DEF writeVars
  <2> QED BY <2>2
<1> QED BY <1>1, <1>2, <1>3, <1>4

\* The oldest unread packet begins at the start and fits the used bytes.
LEMMA OldestUnread ==
    ASSUME IInv, Len(got) < Len(sent)
    PROVE  LET p == sent[Len(got) + 1]
           IN  /\ p \in Packets /\ p.len \in Nat \ {0}
               /\ Header + p.len <= ring.used /\ Header + p.len <= Capacity /\ Holds(p, 0)
<1>1. PICK off \in [Nat -> Int] : Layout(off)
    BY DEF IInv
<1>2. TypeOK
    BY DEF IInv
<1>3. Len(got) \in Nat /\ Len(sent) \in Nat
  <2>1. sent \in Seq(Packets) /\ got \in Seq(Packets)
      BY <1>2 DEF TypeOK
  <2> QED BY <2>1
<1>4. Len(got) + 1 \in Unread
    BY <1>3 DEF Unread
<1>5. off[Len(got) + 1] = 0 /\ Holds(sent[Len(got) + 1], off[Len(got) + 1])
    BY <1>1, <1>4 DEF Layout
<1>6. /\ sent[Len(got) + 1] \in Packets /\ sent[Len(got) + 1].len \in Nat \ {0}
      /\ off[Len(got) + 1] + Header + sent[Len(got) + 1].len <= ring.used
    BY <1>1, <1>2, <1>4, UnreadWithinUsed
<1>7. ring.used \in 0..Capacity
    BY <1>2, StartIndex
<1> DEFINE p == sent[Len(got) + 1]
<1>8. Holds(p, 0)
    BY <1>5
<1>9. p \in Packets /\ p.len \in Nat \ {0} /\ 0 + Header + p.len <= ring.used
    BY <1>5, <1>6
<1> HIDE DEF p
<1>10. Header + p.len <= ring.used /\ Header + p.len <= Capacity
  <2>1. Header \in Nat /\ p.len \in Nat /\ Capacity \in Nat
      BY <1>9, RingAssumption
  <2> QED BY <2>1, <1>7, <1>9
<1> QED BY <1>8, <1>9, <1>10 DEF p

\* Used bytes mean an unread packet, and the header that is read is its length.
LEMMA ReadHeaderIInv ==
    ASSUME IInv, ReadHeader
    PROVE  IInv'
<1> USE RingAssumption, WritersAssumption
<1>0. TypeOK /\ OpenInv /\ WriterInv /\ ReaderInv
    BY DEF IInv
<1>1. /\ UNCHANGED <<openVars, ring, writeVars, buf, got>>
      /\ Opened("reader") /\ rpc = "poll" /\ rpc' = "header" /\ ring.used >= Header
      /\ len' = PktLen(cb_shift_data(ring.read_index, Header))
      /\ idx' = Advanced(ring.read_index, Header)
    BY DEF ReadHeader
<1>2. OpenInv' /\ WriterInv' /\ (\E off \in [Nat -> Int] : Layout(off))'
    BY <1>1, ReaderLocal
<1>3. Len(got) < Len(sent)
  <2>1. PICK off \in [Nat -> Int] : Layout(off)
      BY DEF IInv
  <2>2. Len(got) \in Nat /\ Len(sent) \in Nat /\ Len(got) <= Len(sent)
      BY <1>0 DEF TypeOK, ReaderInv
  <2>3. Len(got) = Len(sent) => ring.used = 0
      BY <2>1 DEF Layout
  <2>4. ring.used # 0
      BY <1>1
  <2> QED BY <2>2, <2>3, <2>4
<1> DEFINE p == sent[Len(got) + 1]
           s == cb_shift_data(ring.read_index, Header)
<1>4. /\ p \in Packets /\ p.len \in Nat \ {0} /\ Header + p.len <= Capacity
      /\ Holds(p, 0)
    BY <1>3, OldestUnread
<1>5. Start = ring.read_index /\ ring.read_index \in 0..Capacity
    BY <1>0, <1>1, StartIndex DEF Start
<1> HIDE DEF p
<1>6. s = [j \in 1..Header |-> <<p, 0 + j>>]
  <2>1. ring.read_index = Advanced(Start, 0)
      BY <1>5 DEF Advanced
  <2>2. 0 + Header <= Header + p.len /\ 0 \in Nat /\ Header \in Nat
      BY <1>4
  <2>3. cb_shift_data(Advanced(Start, 0), Header) = [j \in 1..Header |-> <<p, 0 + j>>]
      BY <2>2, <1>0, <1>4, ShiftReads
  <2> QED BY <2>1, <2>3
<1> HIDE DEF s
<1>7. s = [j \in 1..Header |-> <<p, j>>] /\ s[1] = <<p, 1>>
    BY <1>6
<1>8. len' = p.len
  <2>1. s[1][1] = p /\ s[1] # NoByte
      BY <1>7 DEF NoByte
  <2> QED BY <2>1, <1>1, <1>7 DEF PktLen, s
<1>9. idx' \in 0..Capacity
  <2>1. Header \in 0..Capacity
      BY <1>4
  <2> QED BY <2>1, <1>1, <1>5, AdvancedIndex, Zenon
<1>10. ReaderInv'
    BY <1>0, <1>1, <1>3, <1>8 DEF ReaderInv, Opened, openVars, writeVars, p
<1>11. TypeOK'
  <2>1. len' \in 0..Capacity
      BY <1>4, <1>8
  <2> QED BY <2>1, <1>0, <1>1, <1>9 DEF TypeOK, openVars, writeVars
<1> QED BY <1>2, <1>10, <1>11 DEF IInv

\* The second test only decides whether the packet is taken now.
LEMMA TestLengthIInv ==
    ASSUME IInv, TestLength
    PROVE  IInv'
<1>0. TypeOK /\ ReaderInv
    BY DEF IInv
<1>1. /\ UNCHANGED <<openVars, ring, writeVars, idx, len, buf, got>>
      /\ rpc = "header" /\ rpc' \in {"poll", "copy"}
    BY DEF TestLength
<1>2. Opened("reader")
    BY <1>0, <1>1 DEF ReaderInv
<1>3. OpenInv' /\ WriterInv' /\ (\E off \in [Nat -> Int] : Layout(off))'
    BY <1>1, <1>2, ReaderLocal
<1>4. ReaderInv'
    BY <1>0, <1>1 DEF ReaderInv, Opened, openVars, writeVars
<1>5. TypeOK'
    BY <1>0, <1>1 DEF TypeOK, openVars, writeVars
<1> QED BY <1>3, <1>4, <1>5 DEF IInv

\* The buffer is filled with the bytes of the oldest unread packet.
LEMMA CopyOutIInv ==
    ASSUME IInv, CopyOut
    PROVE  IInv'
<1> USE RingAssumption, WritersAssumption
<1>0. TypeOK /\ ReaderInv
    BY DEF IInv
<1>1. /\ UNCHANGED <<openVars, ring, writeVars, len, got>>
      /\ rpc = "copy" /\ rpc' = "copied"
      /\ buf' = cb_shift_data(idx, len) /\ idx' = Advanced(idx, len)
    BY DEF CopyOut
<1>2. Opened("reader") /\ Len(got) < Len(sent)
    BY <1>0, <1>1 DEF ReaderInv
<1>3. OpenInv' /\ WriterInv' /\ (\E off \in [Nat -> Int] : Layout(off))'
    BY <1>1, <1>2, ReaderLocal
<1> DEFINE p == sent[Len(got) + 1]
<1>4. /\ p \in Packets /\ p.len \in Nat \ {0} /\ Header + p.len <= Capacity
      /\ Holds(p, 0)
    BY <1>2, OldestUnread
<1>5. len = p.len /\ idx = Advanced(Start, Header)
    BY <1>0, <1>1 DEF ReaderInv, Start
<1> HIDE DEF p
<1>6. idx \in 0..Capacity
    BY <1>0 DEF TypeOK
<1>7. buf' = [i \in 1..len |-> <<p, Header + i>>]
  <2>1. Header + len <= Header + p.len /\ len \in Nat /\ Header \in Nat
      BY <1>4, <1>5
  <2>2. cb_shift_data(Advanced(Start, Header), len) = [i \in 1..len |-> <<p, Header + i>>]
      BY <2>1, <1>0, <1>4, ShiftReads
  <2> QED BY <2>2, <1>1, <1>5
<1>8. idx' \in 0..Capacity
  <2>1. len \in 0..Capacity
      BY <1>4, <1>5
  <2> QED BY <2>1, <1>1, <1>6, AdvancedIndex
<1>9. buf' \in Seq(PacketBytes)
  <2>1. \A i \in 1..len : <<p, Header + i>> \in PacketBytes
      BY <1>4, <1>5 DEF PacketBytes
  <2>2. len \in Nat
      BY <1>4, <1>5
  <2>3. buf' \in [1..len -> PacketBytes]
      BY <1>7, <2>1
  <2> QED BY <2>2, <2>3, SeqDef
<1>10. ReaderInv'
  <2>1. idx' = Advanced(Advanced(ring'.read_index, Header), len')
      BY <1>0, <1>1 DEF ReaderInv
  <2>2. buf' = [i \in 1..len' |-> <<sent'[Len(got') + 1], Header + i>>]
      BY <1>1, <1>7 DEF writeVars, p
  <2> QED BY <2>1, <2>2, <1>0, <1>1 DEF ReaderInv, Opened, openVars, writeVars
<1>11. TypeOK'
    BY <1>0, <1>1, <1>8, <1>9 DEF TypeOK, openVars, writeVars
<1> QED BY <1>3, <1>10, <1>11 DEF IInv

\* Taking the packet out of used moves the start behind it: the other packets,
\* and the writer's place, are now that many bytes closer.
LEMMA ReleaseIInv ==
    ASSUME IInv, Release
    PROVE  IInv' /\ Len(got) < Len(sent) /\ got' = Append(got, sent[Len(got) + 1])
<1> USE RingAssumption, WritersAssumption
<1>0. TypeOK /\ OpenInv /\ WriterInv /\ ReaderInv
    BY DEF IInv
<1>1. /\ UNCHANGED <<openVars, writeVars, idx, len, buf>>
      /\ rpc = "copied" /\ rpc' = "released"
      /\ ring' = [ring EXCEPT !.used = @ - (len + Header)]
      /\ got' = Append(got, InBuf)
    BY DEF Release
<1>2. Opened("reader") /\ Len(got) < Len(sent)
    BY <1>0, <1>1 DEF ReaderInv
<1> DEFINE p == sent[Len(got) + 1]
           k == Header + p.len
<1>3. p \in Packets /\ p.len \in Nat \ {0}
    BY <1>2, OldestUnread
<1>4. k <= ring.used /\ ring.used \in 0..Capacity /\ k \in 0..Capacity
  <2>1. Header + p.len <= ring.used
      BY <1>2, OldestUnread
  <2>2. ring.used \in 0..Capacity
      BY <1>0, StartIndex
  <2> QED BY <2>1, <2>2, <1>3
<1>5. /\ len = p.len /\ idx = Advanced(Advanced(ring.read_index, Header), len)
      /\ buf = [i \in 1..len |-> <<p, Header + i>>]
    BY <1>0, <1>1 DEF ReaderInv
<1>6. got' = Append(got, p)
  <2>1. buf[1] = <<p, Header + 1>> /\ len > 0
      BY <1>3, <1>5
  <2>2. buf[1][1] = p
      BY <2>1
  <2> HIDE DEF p
  <2> QED BY <2>1, <2>2, <1>1, <1>5 DEF InBuf
<1>7. /\ ring'.capacity = ring.capacity /\ ring'.used = ring.used - k
      /\ ring'.data = ring.data /\ ring'.read_index = ring.read_index
      /\ ring'.write_index = ring.write_index
    BY <1>0, <1>1, <1>3, <1>4, <1>5 DEF TypeOK
<1>8. Start = ring.read_index /\ Start' = Advanced(Start, k) /\ Start \in 0..Capacity
  <2>1. Start = ring.read_index /\ Start' = idx /\ Start \in 0..Capacity
      BY <1>0, <1>1, StartIndex DEF Start
  <2>2. idx = Advanced(Start, Header + len)
    <3>1. Header \in Nat /\ len \in Nat /\ Header + len <= Capacity
        BY <1>3, <1>4, <1>5
    <3> QED BY <2>1, <3>1, <1>5, AdvancedTwice
  <2> QED BY <2>1, <2>2, <1>5
<1>9. sent \in Seq(Packets) /\ got \in Seq(Packets) /\ sent' = sent
    BY <1>0, <1>1 DEF TypeOK, writeVars
<1>10. /\ got' \in Seq(Packets) /\ Len(got') = Len(got) + 1
       /\ Len(got) \in Nat /\ Len(sent) \in Nat
    BY <1>3, <1>6, <1>9
<1> HIDE DEF p, k
\* The same byte of the ring, seen from the new start
<1>11. ASSUME NEW o \in Nat, o >= k, o < Capacity
       PROVE  Around(Start' + (o - k)) = Around(Start + o)
  <2>1. o \in k..(Capacity - 1)
      BY <1>4, <1>11
  <2> QED BY <2>1, <1>4, <1>8, AroundShift
<1>12. ASSUME NEW q \in Packets, NEW b \in Nat, b >= k, b + Header + q.len <= Capacity,
              Holds(q, b)
       PROVE  \A i \in 1..(Header + q.len) :
                  ring'.data[Around(Start' + (b - k) + i - 1)] = <<q, i>>
  <2> TAKE i \in 1..(Header + q.len)
  <2>1. q.len \in Nat
      BY Zenon DEF Packets
  <2> DEFINE o == b + i - 1
  <2>2. o \in Nat /\ o >= k /\ o < Capacity
      BY <2>1, <1>4, <1>12
  <2>3. /\ Start' \in Int /\ Start' + (b - k) + i - 1 = Start' + (o - k)
        /\ Start + b + i - 1 = Start + o
    <3>1. Start' \in 0..Capacity
        BY <1>4, <1>8, AdvancedIndex, Zenon
    <3> QED BY <3>1, <1>4, <1>8
  <2> HIDE DEF o
  <2>4. Around(Start' + (o - k)) = Around(Start + o)
      BY <2>2, <1>11
  <2>5. ring.data[Around(Start + b + i - 1)] = <<q, i>>
      BY <1>12 DEF Holds
  <2> QED BY <2>3, <2>4, <2>5, <1>7
<1>13. TypeOK'
  <2>1. ring' \in [capacity : {0, Capacity}, write_index : 0..Capacity,
                   used : 0..Capacity, read_index : 0..Capacity, data : Memory]
    <3>1. ring.used - k \in 0..Capacity
        BY <1>4
    <3> QED BY <3>1, <1>0, <1>1, <1>7, Zenon DEF TypeOK
  <2> QED BY <2>1, <1>0, <1>1, <1>10, Zenon DEF TypeOK, openVars, writeVars
<1>14. OpenInv'
    BY <1>0, <1>1, <1>2, <1>7 DEF OpenInv, Opened, Sides, openVars
<1>15. WriterInv'
  <2>1. ASSUME NEW w \in Writers, wpc[w] \in {"copied", "stored"}
        PROVE  /\ out[w] \in Packets /\ out[w].len \in Nat
               /\ ring'.used + Header + out[w].len <= Capacity
               /\ Holds(out[w], ring.used)'
    <3>1. /\ out[w] \in Packets /\ Holds(out[w], ring.used)
          /\ ring.used + Header + out[w].len <= Capacity
        BY <2>1, <1>0 DEF WriterInv
    <3>2. out[w].len \in Nat /\ ring.used \in Nat
      <4>1. out[w].len \in Nat
          BY <3>1, Zenon DEF Packets
      <4> QED BY <4>1, <1>4
    <3>3. \A i \in 1..(Header + out[w].len) :
              ring'.data[Around(Start' + (ring.used - k) + i - 1)] = <<out[w], i>>
        BY <3>1, <3>2, <1>4, <1>12
    <3>4. out'[w] = out[w]
        BY <1>1 DEF writeVars
    <3>5. Holds(out[w], ring.used)'
        BY <3>3, <3>4, <1>7 DEF Holds
    <3> QED BY <3>1, <3>2, <3>5, <1>4, <1>7
  <2>2. ASSUME NEW w \in Writers, wpc[w] = "stored"
        PROVE  SamePlace(ring'.write_index, Start' + ring'.used + Header + out[w].len)
    <3> DEFINE l == Header + out[w].len
    <3>1. /\ SamePlace(ring.write_index, Start + ring.used + Header + out[w].len)
          /\ ring.used + Header + out[w].len <= Capacity
        BY <2>2, <1>0 DEF WriterInv
    <3>2. out[w].len \in Nat /\ ring.write_index \in 0..Capacity
        BY <2>1, <2>2, <1>0, StartIndex
    <3>3. /\ Start + ring.used + Header + out[w].len = Start + ring.used + l
          /\ l \in 0..Capacity /\ ring.used + l <= Capacity
        BY <3>1, <3>2, <1>4, <1>8
    <3>4. Start' + ring'.used + Header + out[w].len = Advanced(Start, k) + (ring.used - k) + l
      <4>0. Advanced(Start, k) \in 0..Capacity
          BY <1>4, <1>8, AdvancedIndex, Zenon
      <4>1. Advanced(Start, k) \in Int
          BY <4>0
      <4> QED BY <4>1, <3>2, <1>4, <1>7, <1>8
    <3> HIDE DEF l
    <3>5. ring.used \in k..Capacity
        BY <1>4
    <3>6. SamePlace(ring.write_index, Advanced(Start, k) + (ring.used - k) + l)
        BY <3>1, <3>2, <3>3, <3>5, <1>4, <1>8, SamePlaceShift, Zenon
    <3> QED BY <3>4, <3>6, <1>7
  <2>3. ASSUME SamePlace(ring.write_index, Start + ring.used)
        PROVE  SamePlace(ring'.write_index, Start' + ring'.used)
    <3>1. ring.write_index \in 0..Capacity /\ ring.used \in k..Capacity
        BY <1>0, <1>4, StartIndex
    <3>2. SamePlace(ring.write_index, Advanced(Start, k) + (ring.used - k))
        BY <2>3, <3>1, <1>4, <1>8 DEF SamePlace, Advanced
    <3> QED BY <3>2, <1>7, <1>8
  <2>4. wpc' = wpc /\ out' = out /\ mutex' = mutex /\ opening' = opening
      BY <1>1 DEF writeVars, openVars
  <2>5. Opened("writer")' = Opened("writer")
      BY <2>4 DEF Opened
  <2> QED BY <2>1, <2>2, <2>3, <2>4, <2>5, <1>0 DEF WriterInv
<1>16. ReaderInv'
  <2>1. Len(got') <= Len(sent')
      BY <1>2, <1>9, <1>10
  <2> QED BY <2>1, <1>1, <1>2 DEF ReaderInv, Opened, openVars
<1>17. (\E off \in [Nat -> Int] : Layout(off))'
  <2> DEFINE G == Len(got)
             S == Len(sent)
  <2>1. PICK off \in [Nat -> Int] : Layout(off)
      BY DEF IInv
  <2>2. /\ off[G + 1] = 0 /\ off[S + 1] = ring.used
        /\ \A n \in Unread : off[n + 1] = off[n] + Header + sent[n].len
        /\ \A m, n \in (G + 1)..(S + 1) : m <= n => off[m] <= off[n]
        /\ \A n \in Unread : Holds(sent[n], off[n])
      BY <2>1 DEF Layout
  <2>3. /\ Unread = (G + 1)..S /\ Unread' = (G + 2)..S /\ sent' = sent
        /\ Len(got') = G + 1 /\ Len(sent') = S /\ G \in Nat /\ S \in Nat /\ G < S
      BY <1>2, <1>9, <1>10 DEF Unread
  <2>4. off[G + 2] = k
    <3>1. G + 1 \in Unread /\ G + 1 + 1 = G + 2
        BY <2>3
    <3>2. off[G + 1 + 1] = 0 + Header + p.len
        BY <3>1, <2>2 DEF p
    <3> QED BY <3>1, <3>2, <1>3 DEF k
  <2> HIDE DEF G, S
  <2>5. PICK off2 \in [Nat -> Int] : \A n \in Nat : off2[n] = off[n] - k
    <3> DEFINE f == [n \in Nat |-> off[n] - k]
    <3>1. f \in [Nat -> Int] /\ \A n \in Nat : f[n] = off[n] - k
        BY <1>4
    <3> QED BY <3>1, Zenon
  <2>6. off2[G + 1 + 1] = 0 /\ off2[S + 1] = ring.used - k
    <3>1. G + 1 + 1 = G + 2 /\ G + 2 \in Nat /\ S + 1 \in Nat
        BY <2>3
    <3>2. off2[G + 2] = off[G + 2] - k /\ off2[S + 1] = off[S + 1] - k
        BY <3>1, <2>5
    <3> QED BY <3>1, <3>2, <2>2, <2>4, <1>4
  <2>7. ASSUME NEW n \in (G + 2)..S
        PROVE  off2[n + 1] = off2[n] + Header + sent'[n].len /\ Holds(sent[n], off2[n])'
    <3>1. n \in Unread /\ n \in Nat /\ n + 1 \in Nat
        BY <2>3
    <3>2. off2[n] = off[n] - k /\ off2[n + 1] = off[n + 1] - k
        BY <3>1, <2>5
    <3>3. Holds(sent[n], off[n]) /\ off[n + 1] = off[n] + Header + sent[n].len
        BY <3>1, <2>2
    <3>4. /\ sent[n] \in Packets /\ sent[n].len \in Nat
          /\ off[n] \in Nat /\ off[n] + Header + sent[n].len <= ring.used
        BY <3>1, <2>1, <1>0, UnreadWithinUsed
    <3>5. off[n] >= k
      <4>1. /\ G + 2 \in (G + 1)..(S + 1) /\ n \in (G + 1)..(S + 1) /\ G + 2 <= n
          BY <2>3
      <4>2. off[G + 2] <= off[n]
          BY <4>1, <2>2
      <4> QED BY <4>2, <2>4, <3>4, <1>4
    <3>6. off[n] + Header + sent[n].len <= Capacity
        BY <3>4, <1>4
    <3>7. \A i \in 1..(Header + sent[n].len) :
              ring'.data[Around(Start' + (off[n] - k) + i - 1)] = <<sent[n], i>>
        BY <3>3, <3>4, <3>5, <3>6, <1>12
    <3>8. Holds(sent[n], off2[n])'
        BY <3>2, <3>7, <2>3, Zenon DEF Holds
    <3>9. off2[n + 1] = off2[n] + Header + sent'[n].len
      <4>1. off[n] \in Int /\ sent[n].len \in Int /\ k \in Int
          BY <3>4, <1>4
      <4>2. off2[n + 1] = (off[n] - k) + Header + sent[n].len
          BY <4>1, <3>2, <3>3
      <4> QED BY <4>2, <3>2, <2>3
    <3> QED BY <3>8, <3>9
  <2>8. ASSUME NEW m \in (G + 2)..(S + 1), NEW n \in (G + 2)..(S + 1), m <= n
        PROVE  off2[m] <= off2[n]
    <3>1. m \in (G + 1)..(S + 1) /\ n \in (G + 1)..(S + 1) /\ m \in Nat /\ n \in Nat
        BY <2>3
    <3>2. off[m] <= off[n]
        BY <3>1, <2>2, <2>8
    <3>3. off2[m] = off[m] - k /\ off2[n] = off[n] - k /\ off[m] \in Int /\ off[n] \in Int
        BY <3>1, <2>5
    <3> QED BY <3>2, <3>3, <1>4
  <2>9. Layout(off2)'
    <3>1. off2[Len(got') + 1] = 0 /\ off2[Len(sent') + 1] = ring'.used
        BY <2>3, <2>6, <1>7
    <3>2. (Len(got') + 1)..(Len(sent') + 1) = (G + 2)..(S + 1)
        BY <2>3
    <3> QED BY <3>1, <3>2, <2>3, <2>5, <2>7, <2>8, Zenon DEF Layout
  <2> QED BY <2>5, <2>9
<1> QED BY <1>2, <1>6, <1>13, <1>14, <1>15, <1>16, <1>17 DEF IInv, p

\* Storing the read index tells the others what the receive thread knew.
LEMMA StoreReadIndexIInv ==
    ASSUME IInv, StoreReadIndex
    PROVE  IInv'
<1> USE RingAssumption, WritersAssumption
<1>0. TypeOK /\ OpenInv /\ WriterInv /\ ReaderInv
    BY DEF IInv
<1>1. /\ UNCHANGED <<openVars, writeVars, got>>
      /\ rpc = "released" /\ rpc' = "poll" /\ idx' = 0 /\ len' = 0 /\ buf' = <<>>
      /\ ring' = [ring EXCEPT !.read_index = idx]
    BY DEF StoreReadIndex
<1>2. Opened("reader")
    BY <1>0, <1>1 DEF ReaderInv
<1>3. /\ ring'.capacity = ring.capacity /\ ring'.used = ring.used /\ ring'.data = ring.data
      /\ ring'.write_index = ring.write_index /\ ring'.read_index = idx
    BY <1>0, <1>1 DEF TypeOK
<1>4. Start' = Start
    BY <1>1, <1>3 DEF Start
<1>5. TypeOK'
  <2>1. ring' \in [capacity : {0, Capacity}, write_index : 0..Capacity,
                   used : 0..Capacity, read_index : 0..Capacity, data : Memory]
      BY <1>0, <1>1 DEF TypeOK
  <2>2. buf' \in Seq(PacketBytes)
      BY <1>1
  <2> QED BY <2>1, <2>2, <1>0, <1>1 DEF TypeOK, openVars, writeVars
<1>6. OpenInv'
    BY <1>0, <1>1, <1>2, <1>3 DEF OpenInv, Opened, Sides, openVars
<1>7. WriterInv'
    BY <1>0, <1>1, <1>3, <1>4 DEF WriterInv, Holds, Opened, openVars, writeVars
<1>8. ReaderInv'
    BY <1>0, <1>1 DEF ReaderInv, writeVars
<1>9. (\E off \in [Nat -> Int] : Layout(off))'
  <2>1. PICK off \in [Nat -> Int] : Layout(off)
      BY DEF IInv
  <2>2. Layout(off)'
      BY <2>1, <1>1, <1>3, <1>4, LayoutKept DEF writeVars
  <2> QED BY <2>2
<1> QED BY <1>5, <1>6, <1>7, <1>8, <1>9 DEF IInv

-----------------------------------------------------------------------------
(* The results.                                                            *)

\* Every step of the writers, the receive thread and shmeth_open() keeps the
\* invariant, when the two processes do not open the interface together.
LEMMA NextIInv ==
    ASSUME Together = FALSE, IInv, [Next]_vars
    PROVE  IInv'
<1>1. ASSUME NEW p \in Sides, OpenStep(p) PROVE IInv'
    BY <1>1, OpenStepIInv, Zenon
<1>2. ASSUME NEW w \in Writers, NEW n \in Lens, Send(w, n) PROVE IInv'
    BY <1>2, SendIInv
<1>3. ASSUME NEW w \in Writers, WriteStep(w) PROVE IInv'
    BY <1>3, DropIInv, CopyIInv, StoreWriteIndexIInv, PublishIInv DEF WriteStep
<1>4. CASE ReadStep
    BY <1>4, ReadHeaderIInv, TestLengthIInv, CopyOutIInv, ReleaseIInv, StoreReadIndexIInv
    DEF ReadStep
<1>5. CASE UNCHANGED vars
  <2>0. TypeOK /\ OpenInv /\ WriterInv /\ ReaderInv
      BY DEF IInv
  <2>1. TypeOK' /\ OpenInv' /\ WriterInv' /\ ReaderInv'
    <3>1. TypeOK'
        BY <2>0, <1>5 DEF vars, TypeOK
    <3>2. OpenInv'
        BY <2>0, <1>5 DEF vars, OpenInv, Opened
    <3>3. WriterInv'
        BY <2>0, <1>5 DEF vars, WriterInv, Opened, Start, Holds
    <3>4. ReaderInv'
        BY <2>0, <1>5 DEF vars, ReaderInv, Opened
    <3> QED BY <3>1, <3>2, <3>3, <3>4
  <2>2. PICK off \in [Nat -> Int] : Layout(off)
      BY DEF IInv
  <2>3. Layout(off)'
      BY <2>2, <1>5, Zenon DEF vars, Layout, Unread, Holds, Start
  <2> QED BY <2>1, <2>3 DEF IInv
<1> QED BY <1>1, <1>2, <1>3, <1>4, <1>5 DEF Next

\* The invariant holds of every reachable state.
THEOREM RingInvariant ==
    ASSUME Together = FALSE
    PROVE  Spec => []IInv
<1>1. Init => IInv
    BY InitIInv
<1>2. IInv /\ [Next]_vars => IInv'
    BY NextIInv, Zenon
<1> QED BY <1>1, <1>2, PTL DEF Spec

\* The invariant places the oldest unread packet where the reader looks.
LEMMA IInvIntact == IInv => UnreadIntact
<1> SUFFICES ASSUME IInv PROVE UnreadIntact
    OBVIOUS
<1> USE RingAssumption
<1>1. TypeOK /\ Len(got) <= Len(sent)
    BY DEF IInv, ReaderInv
<1>2. Len(got) \in Nat /\ Len(sent) \in Nat
  <2>1. sent \in Seq(Packets) /\ got \in Seq(Packets)
      BY <1>1 DEF TypeOK
  <2> QED BY <2>1
<1> DEFINE p == sent[Len(got) + 1]
<1>3. ASSUME Len(got) + 1 <= Len(sent), NEW i \in 1..(Header + p.len)
      PROVE  ring.data[(Start + i - 1) % Capacity] = <<p, i>>
  <2>1. /\ p.len \in Nat \ {0} /\ Header + p.len <= Capacity /\ Holds(p, 0)
      BY <1>2, <1>3, OldestUnread
  <2> HIDE DEF p
  <2>2. Start \in 0..Capacity
      BY <1>1, StartIndex
  <2>3. Start + i - 1 \in Nat /\ Start + i - 1 < 2 * Capacity /\ Start + 0 + i - 1 = Start + i - 1
      BY <2>1, <2>2, <1>3
  <2>4. (Start + i - 1) % Capacity = Around(Start + i - 1)
      BY <2>3, RemainderAround
  <2>5. ring.data[Around(Start + 0 + i - 1)] = <<p, i>>
      BY <2>1, <1>3 DEF Holds
  <2> QED BY <2>3, <2>4, <2>5
<1> QED BY <1>1, <1>3 DEF UnreadIntact, Start

\* The bytes of a packet counted in used stay in the ring, where the reader looks,
\* until the reader has released them: for every capacity, every number of
\* transmitting threads and every interleaving of their stores with the reader's.
THEOREM UnreadBytesIntact ==
    ASSUME Together = FALSE
    PROVE  Spec => []UnreadIntact
BY RingInvariant, IInvIntact, PTL

-----------------------------------------------------------------------------
(* The ring implements the queue of module PacketFifo: Publish writes,     *)
(* Release delivers, every other step changes nothing.                     *)

Queue == SubSeq(sent, Len(got) + 1, Len(sent))

\* The rest of a sequence that grows at its end grows at its end.
LEMMA SubSeqAppend ==
    ASSUME NEW s \in Seq(Packets), NEW x \in Packets, NEW m \in 1..(Len(s) + 1)
    PROVE  SubSeq(Append(s, x), m, Len(s) + 1) = Append(SubSeq(s, m, Len(s)), x)
<1> DEFINE a == SubSeq(Append(s, x), m, Len(s) + 1)
           b == Append(SubSeq(s, m, Len(s)), x)
<1>1. Append(s, x) \in Seq(Packets) /\ Len(Append(s, x)) = Len(s) + 1
    OBVIOUS
<1>2. a \in Seq(Packets) /\ Len(a) = Len(s) + 2 - m
    BY <1>1
<1>3. SubSeq(s, m, Len(s)) \in Seq(Packets) /\ Len(SubSeq(s, m, Len(s))) = Len(s) + 1 - m
    OBVIOUS
<1>4. b \in Seq(Packets) /\ Len(b) = Len(s) + 2 - m
    BY <1>3
<1>5. \A i \in 1..Len(a) : a[i] = b[i]
  <2> SUFFICES ASSUME NEW i \in 1..Len(a) PROVE a[i] = b[i]
      OBVIOUS
  <2>1. a[i] = Append(s, x)[m + i - 1]
      BY <1>1, <1>2
  <2>2. CASE i = Len(s) + 2 - m
    <3>1. Append(s, x)[Len(s) + 1] = x /\ m + i - 1 = Len(s) + 1
        BY <2>2
    <3>2. b[i] = x
        BY <1>3, <2>2
    <3> QED BY <2>1, <3>1, <3>2
  <2>3. CASE i \in 1..(Len(s) + 1 - m)
    <3>1. Append(s, x)[m + i - 1] = s[m + i - 1]
        BY <2>3
    <3>2. b[i] = SubSeq(s, m, Len(s))[i]
        BY <1>3, <2>3
    <3>3. SubSeq(s, m, Len(s))[i] = s[m + i - 1]
        BY <2>3
    <3> QED BY <2>1, <3>1, <3>2, <3>3
  <2> HIDE DEF a, b
  <2>4. Len(s) \in Nat /\ i \in 1..(Len(s) + 2 - m)
      BY <1>2
  <2>5. i = Len(s) + 2 - m \/ i \in 1..(Len(s) + 1 - m)
      BY <2>4
  <2> QED BY <2>2, <2>3, <2>5
<1> HIDE DEF a, b
<1>6. a = b
    BY <1>2, <1>4, <1>5, SeqEqual
<1> QED BY <1>6 DEF a, b

\* Publishing a packet appends it to the queue.
LEMMA PublishWrites ==
    ASSUME IInv, NEW w \in Writers, Publish(w)
    PROVE  Fifo!Next
<1>1. /\ out[w] \in Packets /\ sent' = Append(sent, out[w]) /\ got' = got
      /\ sent \in Seq(Packets) /\ got \in Seq(Packets) /\ Len(got) <= Len(sent)
    BY DEF Publish, readVars, IInv, WriterInv, ReaderInv, TypeOK
<1>2. Queue' = Append(Queue, out[w])
  <2>1. Len(got) + 1 \in 1..(Len(sent) + 1) /\ Len(sent') = Len(sent) + 1
      BY <1>1
  <2> QED BY <2>1, <1>1, SubSeqAppend, Zenon DEF Queue
<1>3. Fifo!Write(out[w])
    BY <1>1, <1>2, Zenon DEF Fifo!Write, Queue
<1> QED BY <1>1, <1>3 DEF Fifo!Next

\* Releasing a packet delivers the head of the queue.
LEMMA ReleaseDelivers ==
    ASSUME IInv, Release
    PROVE  Fifo!Next
<1>1. Len(got) < Len(sent) /\ got' = Append(got, sent[Len(got) + 1]) /\ sent' = sent
    BY ReleaseIInv DEF Release, writeVars
<1>2. sent \in Seq(Packets) /\ got \in Seq(Packets)
    BY DEF IInv, TypeOK
<1>3. Len(got') = Len(got) + 1 /\ Len(got) \in Nat /\ Len(sent) \in Nat
    BY <1>1, <1>2
<1>4. Queue # <<>> /\ Head(Queue) = sent[Len(got) + 1]
    BY <1>1, <1>2, <1>3 DEF Queue
<1>5. Queue' = Tail(Queue)
    BY <1>1, <1>2, <1>3 DEF Queue
<1>6. Fifo!Deliver
    BY <1>1, <1>4, <1>5 DEF Fifo!Deliver, Queue
<1> QED BY <1>6 DEF Fifo!Next

\* Every step of the ring is a step of the queue or leaves it unchanged.
LEMMA FifoStep ==
    ASSUME IInv, [Next]_vars
    PROVE  [Fifo!Next]_<<Queue, got>>
<1>1. ASSUME UNCHANGED <<sent, got>> PROVE UNCHANGED <<Queue, got>>
    BY <1>1 DEF Queue
<1>2. ASSUME NEW p \in Sides, OpenStep(p) PROVE UNCHANGED <<sent, got>>
    BY <1>2 DEF OpenStep, TestMagic, SetMagic, cb_init, writeVars, readVars
<1>3. ASSUME NEW w \in Writers, NEW n \in Lens, Send(w, n) PROVE UNCHANGED <<sent, got>>
    BY <1>3 DEF Send, readVars
<1>4. ASSUME NEW w \in Writers, Drop(w) \/ Copy(w) \/ StoreWriteIndex(w)
      PROVE  UNCHANGED <<sent, got>>
    BY <1>4 DEF Drop, Copy, StoreWriteIndex, readVars
<1>5. ASSUME NEW w \in Writers, Publish(w) PROVE Fifo!Next
    BY <1>5, PublishWrites
<1>6. ASSUME ReadHeader \/ TestLength \/ CopyOut \/ StoreReadIndex
      PROVE  UNCHANGED <<sent, got>>
    BY <1>6 DEF ReadHeader, TestLength, CopyOut, StoreReadIndex, writeVars
<1>7. CASE Release
    BY <1>7, ReleaseDelivers
<1>8. CASE UNCHANGED vars
    BY <1>1, <1>8 DEF vars
<1> QED BY <1>1, <1>2, <1>3, <1>4, <1>5, <1>6, <1>7, <1>8 DEF Next, WriteStep, ReadStep

\* cb_put_packet() and cb_get_packet() implement a lossless first-in first-out
\* queue of packets, although the two sides share no lock and each of them stores
\* its index and the counter in separate steps.
THEOREM RingImplementsFifo ==
    ASSUME Together = FALSE
    PROVE  Spec => ImplementsFifo
<1>1. Init => Fifo!Init
    BY DEF Init, Fifo!Init
<1>2. IInv /\ [Next]_vars => [Fifo!Next]_<<Queue, got>>
    BY FifoStep
<1>3. Spec => []IInv
    BY RingInvariant, Zenon
<1> QED BY <1>1, <1>2, <1>3, PTL DEF Spec, ImplementsFifo, Fifo!Spec, Queue
=============================================================================
