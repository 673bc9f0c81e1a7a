----------------------------- MODULE CoreProofs -----------------------------
(***************************************************************************)
(* Proofs about the data structures of src/core.                           *)
(*                                                                         *)
(* The channel (Channel, extended) implements BoundedFifo for every        *)
(* capacity, every set of producers and every set of messages, and loses   *)
(* no wakeup.  Its invariant ties the write index to the read index and    *)
(* the count; the refinement follows the window of the ring between them.  *)
(*                                                                         *)
(* The registry of the event loop (FdRegistry, FD) keeps its vector, its   *)
(* free list and its index in agreement, for every set of fds and any      *)
(* number of refusals by the kernel: types and agreement are inductive     *)
(* together.                                                               *)
(*                                                                         *)
(* The arena (Arena, AR) hands out disjoint, aligned pieces for every      *)
(* size, alignment and chunk size.  The invariant adds that every piece    *)
(* ends before its block's offset, so that a new one starts behind it.     *)
(***************************************************************************)
EXTENDS Channel, SequenceTheorems, FiniteSetTheorems, TLAPS

CONSTANTS Fds, WakeFd, None, MaxRefused,
          FirstChunk, DefaultChunk, MaxChunk, MinAlign, MaxAlign, Sizes, Aligns,
          MaxBlocks, MaxAllocs, MaxNextCap

VARIABLES slots, free_slots, fd_slot, frefused, called,
          blocks, cur, next_cap, used, live

FD == INSTANCE FdRegistry WITH refused <- frefused
AR == INSTANCE Arena

-----------------------------------------------------------------------------
(* The channel *)

\* What an index that is at most one lap ahead is reduced to.
LEMMA Wrap ==
    ASSUME NEW i \in 0 .. 2 * Cap - 1
    PROVE  i % Cap = IF i < Cap THEN i ELSE i - Cap
  <1>1. CASE i < Cap
    BY <1>1, CapAssumption
  <1>2. CASE i >= Cap
    <2>1. (i - Cap) + Cap * 1 = i BY CapAssumption
    <2>2. i - Cap \in 0 .. Cap - 1 BY <1>2, CapAssumption
    <2> QED BY <1>2, <2>1, <2>2, CapAssumption
  <1> QED BY <1>1, <1>2, CapAssumption


\* Reduction to the ring, as an operator of its own: the proofs below use only
\* what ModIs says of it.
Mod(i) == i % Cap

LEMMA ModIs == \A i \in 0 .. 2 * Cap - 1 : Mod(i) = IF i < Cap THEN i ELSE i - Cap
  BY Wrap DEF Mod

\* Where the place is that is n places after place i.
LEMMA Places ==
    \A i \in 0 .. Cap - 1, n \in 0 .. Cap :
        /\ Mod(i + n) = IF i + n < Cap THEN i + n ELSE i + n - Cap
        /\ Mod(i + n) \in 0 .. Cap - 1
  BY ModIs, CapAssumption

\* Stepping to the next place and going n places on is going n + 1 places on.
LEMMA Steps ==
    \A i \in 0 .. Cap - 1, n \in 0 .. Cap - 1 :
        /\ advance(i) \in 0 .. Cap - 1
        /\ Mod(advance(i) + n) = Mod(i + (n + 1))
        /\ advance(Mod(i + n)) = Mod(i + (n + 1))
  <1>1. \A i : advance(i) = Mod(i + 1)
    BY DEF advance, Mod
  <1> QED BY <1>1, ModIs, CapAssumption

\* The n places of the ring r from place h on.
Window(r, h, n) == [i \in 1 .. n |-> r[Mod(h + (i - 1))]]

\* What the ring holds is a sequence of n messages.
LEMMA WindowType ==
    ASSUME NEW r \in [0 .. Cap - 1 -> Msgs], NEW h \in 0 .. Cap - 1, NEW n \in 0 .. Cap
    PROVE  /\ Window(r, h, n) \in Seq(Msgs) /\ Len(Window(r, h, n)) = n
           /\ \A i \in 1 .. n : Window(r, h, n)[i] = r[Mod(h + (i - 1))]
  <1> USE CapAssumption
  <1>1. ASSUME NEW i \in 1 .. n PROVE r[Mod(h + (i - 1))] \in Msgs
    <2>1. h + (i - 1) \in 0 .. 2 * Cap - 1
      OBVIOUS
    <2>2. Mod(h + (i - 1)) \in 0 .. Cap - 1
      BY <2>1, ModIs
    <2> QED BY <2>2
  <1>2. Window(r, h, n) \in [1 .. n -> Msgs]
    BY Zenon, <1>1 DEF Window
  <1>3. n \in Nat
    OBVIOUS
  <1>4. Window(r, h, n) \in Seq(Msgs) /\ Len(Window(r, h, n)) = n
    BY <1>2, <1>3
  <1>5. ASSUME NEW i \in 1 .. n PROVE Window(r, h, n)[i] = r[Mod(h + (i - 1))]
    BY DEF Window
  <1> QED BY <1>4, <1>5

\* Writing the place after the last message appends it.
LEMMA WindowPush ==
    ASSUME NEW r \in [0 .. Cap - 1 -> Msgs], NEW h \in 0 .. Cap - 1,
           NEW n \in 0 .. Cap - 1, NEW m \in Msgs
    PROVE  Window([r EXCEPT ![Mod(h + n)] = m], h, n + 1) = Append(Window(r, h, n), m)
  <1> USE CapAssumption
  <1> DEFINE t == Mod(h + n)
             R == [r EXCEPT ![t] = m]
             W == Window(r, h, n)
             V == Window(R, h, n + 1)
  <1>1. t = (IF h + n < Cap THEN h + n ELSE h + n - Cap) /\ t \in 0 .. Cap - 1
    BY Places
  <1>2. R \in [0 .. Cap - 1 -> Msgs]
    BY <1>1
  <1>3. /\ W \in Seq(Msgs) /\ Len(W) = n
        /\ \A i \in 1 .. n : W[i] = r[Mod(h + (i - 1))]
    <2>1. n \in 0 .. Cap
      OBVIOUS
    <2> QED BY Zenon, <2>1, WindowType
  <1>4. /\ V \in Seq(Msgs) /\ Len(V) = n + 1
        /\ \A i \in 1 .. n + 1 : V[i] = R[Mod(h + (i - 1))]
    <2>1. n + 1 \in 0 .. Cap
      OBVIOUS
    <2> HIDE DEF R
    <2> QED BY Zenon, <1>2, <2>1, WindowType
  <1>5. /\ Append(W, m) \in Seq(Msgs) /\ Len(Append(W, m)) = n + 1
        /\ \A i \in 1 .. n : Append(W, m)[i] = W[i]
        /\ Append(W, m)[n + 1] = m
    <2> HIDE DEF W
    <2> QED BY <1>3, AppendProperties
  <1>6. ASSUME NEW i \in 1 .. n + 1 PROVE V[i] = Append(W, m)[i]
    <2>1. CASE i \in 1 .. n
      <3>1. Mod(h + (i - 1)) = IF h + (i - 1) < Cap THEN h + (i - 1)
                                                       ELSE h + (i - 1) - Cap
        <4>1. h + (i - 1) \in 0 .. 2 * Cap - 1
          BY <2>1
        <4> QED BY <4>1, ModIs
      <3>2. Mod(h + (i - 1)) # t /\ Mod(h + (i - 1)) \in 0 .. Cap - 1
        <4> HIDE DEF t
        <4> QED BY <1>1, <2>1, <3>1
      <3>3. R[Mod(h + (i - 1))] = r[Mod(h + (i - 1))]
        <4> HIDE DEF t
        <4> QED BY <3>2
      <3> HIDE DEF R, V, W, t
      <3> QED BY <1>3, <1>4, <1>5, <2>1, <3>3
    <2>2. CASE i = n + 1
      <3>1. V[n + 1] = R[Mod(h + (n + 1 - 1))]
        <4> HIDE DEF V, R
        <4> QED BY <1>4
      <3>2. h + (n + 1 - 1) = h + n
        OBVIOUS
      <3>3. R[t] = m
        BY <1>1
      <3> QED BY <1>5, <2>2, <3>1, <3>2, <3>3
    <2>3. i \in 1 .. n \/ i = n + 1
      OBVIOUS
    <2> QED BY Zenon, <2>1, <2>2, <2>3
  <1> HIDE DEF V, W, R, t
  <1>7. V = Append(W, m)
    BY <1>4, <1>5, <1>6, SeqEqual
  <1> QED BY Zenon, <1>7 DEF V, W, R, t

\* Stepping over the first message leaves the others.
LEMMA WindowPop ==
    ASSUME NEW r \in [0 .. Cap - 1 -> Msgs], NEW h \in 0 .. Cap - 1, NEW n \in 1 .. Cap
    PROVE  /\ Window(r, h, n) # << >>
           /\ Window(r, advance(h), n - 1) = Tail(Window(r, h, n))
  <1> USE CapAssumption
  <1> DEFINE W == Window(r, h, n)
             V == Window(r, advance(h), n - 1)
  <1>1. /\ W \in Seq(Msgs) /\ Len(W) = n
        /\ \A i \in 1 .. n : W[i] = r[Mod(h + (i - 1))]
    <2>1. n \in 0 .. Cap
      OBVIOUS
    <2> QED BY Zenon, <2>1, WindowType
  <1>2. /\ V \in Seq(Msgs) /\ Len(V) = n - 1
        /\ \A i \in 1 .. n - 1 : V[i] = r[Mod(advance(h) + (i - 1))]
    <2>1. n - 1 \in 0 .. Cap - 1 /\ n - 1 \in 0 .. Cap
      OBVIOUS
    <2>2. advance(h) \in 0 .. Cap - 1
      BY Zenon, <2>1, Steps
    <2> QED BY Zenon, <2>1, <2>2, WindowType
  <1> HIDE DEF V, W
  <1>3. W # << >>
    BY <1>1
  <1>4. /\ Tail(W) \in Seq(Msgs) /\ Len(Tail(W)) = n - 1
        /\ \A i \in 1 .. n - 1 : Tail(W)[i] = W[i + 1]
    BY <1>1, <1>3, HeadTailProperties
  <1>5. ASSUME NEW i \in 1 .. n - 1 PROVE V[i] = Tail(W)[i]
    <2>1. Mod(advance(h) + (i - 1)) = Mod(h + ((i - 1) + 1))
      BY Steps
    <2>2. (i - 1) + 1 = (i + 1) - 1 /\ i + 1 \in 1 .. n
      OBVIOUS
    <2>3. V[i] = r[Mod(advance(h) + (i - 1))]
      BY <1>2
    <2>4. W[i + 1] = r[Mod(h + ((i + 1) - 1))]
      BY <1>1, <2>2
    <2>5. Tail(W)[i] = W[i + 1]
      BY <1>4
    <2> QED BY Zenon, <2>1, <2>2, <2>3, <2>4, <2>5
  <1>6. V = Tail(W)
    BY <1>2, <1>4, <1>5, SeqEqual
  <1> QED BY <1>3, <1>6 DEF V, W

-----------------------------------------------------------------------------
\* The write index is the read index plus the number of messages.
RingInv == TypeOK /\ tail = Mod(head + count)

\* What the ring holds, as a window of it, now and after a step.
LEMMA ContentsIs ==
    /\ Contents = Window(ring, head, count)
    /\ Contents' = Window(ring', head', count')
  BY DEF Contents, Window, Mod

\* The queue starts empty, at the start of the ring.
LEMMA RingInit == Init => RingInv
  <1> SUFFICES ASSUME Init PROVE RingInv
    OBVIOUS
  <1> USE CapAssumption, MaxPushAssumption DEF Init
  <1>1. Mod(0) = 0 /\ 0 \in 0 .. Cap - 1 /\ 0 \in 0 .. Cap /\ 0 \in 0 .. MaxPush
    BY ModIs
  <1>2. tail = Mod(head + count)
    BY <1>1
  <1>3. ring \in [0 .. Cap - 1 -> Msgs]
    OBVIOUS
  <1>4. closed \in BOOLEAN /\ pipe \in BOOLEAN
    BY Zenon
  <1>5. ppc \in [Producers -> {"idle", "wake"}] /\ pushes \in [Producers -> 0 .. MaxPush]
    BY <1>1
  <1> QED BY <1>1, <1>2, <1>3, <1>4, <1>5 DEF RingInv, TypeOK

\* An empty window is the empty sequence, wherever it starts.
LEMMA EmptyWindow == \A r, h : Window(r, h, 0) = << >>
  BY DEF Window

\* An accepted push appends at the end of the contents.
LEMMA PushAppends ==
    ASSUME RingInv, NEW m \in Msgs, count # Cap,
           ring' = [ring EXCEPT ![tail] = m], count' = count + 1, head' = head,
           tail' = advance(tail)
    PROVE  /\ Len(Contents) < Cap /\ Contents' = Append(Contents, m)
           /\ ring' \in [0 .. Cap - 1 -> Msgs] /\ count' \in 0 .. Cap
           /\ tail' \in 0 .. Cap - 1 /\ tail' = Mod(head' + count')
  <1> USE CapAssumption
  <1>1. /\ ring \in [0 .. Cap - 1 -> Msgs] /\ head \in 0 .. Cap - 1
        /\ count \in 0 .. Cap - 1 /\ count \in 0 .. Cap /\ tail = Mod(head + count)
        /\ tail \in 0 .. Cap - 1
    BY DEF RingInv, TypeOK
  <1>2. Contents' = Append(Contents, m)
    BY ZenonT(30), <1>1, ContentsIs, WindowPush
  <1>3. Len(Contents) = count
    BY <1>1, ContentsIs, WindowType
  <1>4. advance(Mod(head + count)) = Mod(head + (count + 1)) /\ advance(tail) \in 0 .. Cap - 1
    BY Zenon, <1>1, Steps
  <1> QED BY <1>1, <1>2, <1>3, <1>4

\* A pop removes the oldest message.
LEMMA PopRemoves ==
    ASSUME RingInv, count > 0, ring' = ring, count' = count - 1,
           head' = advance(head), tail' = tail
    PROVE  /\ Contents # << >> /\ Contents' = Tail(Contents)
           /\ count' \in 0 .. Cap /\ head' \in 0 .. Cap - 1 /\ tail' = Mod(head' + count')
  <1> USE CapAssumption
  <1>1. /\ ring \in [0 .. Cap - 1 -> Msgs] /\ head \in 0 .. Cap - 1
        /\ count \in 1 .. Cap /\ count - 1 \in 0 .. Cap - 1 /\ tail = Mod(head + count)
    BY DEF RingInv, TypeOK
  <1>2. Contents # << >> /\ Contents' = Tail(Contents)
    BY Zenon, <1>1, ContentsIs, WindowPop
  <1>3. /\ advance(head) \in 0 .. Cap - 1
        /\ Mod(advance(head) + (count - 1)) = Mod(head + ((count - 1) + 1))
    BY <1>1, Steps
  <1>4. (count - 1) + 1 = count
    BY <1>1
  <1> QED BY <1>1, <1>2, <1>3, <1>4

\* Resetting the indices of an empty ring leaves it empty.
LEMMA ResetKeeps ==
    ASSUME RingInv, count' = 0, head' = 0, tail' = 0
    PROVE  Contents' = << >> /\ tail' = Mod(head' + count') /\ 0 \in 0 .. Cap - 1
  <1>1. Mod(0) = 0 /\ 0 \in 0 .. Cap - 1
    BY ModIs, CapAssumption
  <1> QED BY <1>1, ContentsIs, EmptyWindow

\* Every step keeps the ring consistent and is a step of the abstract queue.
LEMMA RingStep ==
    ASSUME RingInv, [Next]_vars
    PROVE  RingInv' /\ [Fifo!Next]_<<Contents, ~closed>>
  <1> USE CapAssumption, MaxPushAssumption
  <1>a. TypeOK /\ tail = Mod(head + count)
    BY DEF RingInv
  <1>b. ASSUME UNCHANGED <<ring, head, count, closed>>
        PROVE  UNCHANGED <<Contents, ~closed>>
    BY <1>b, ContentsIs
  <1>1. ASSUME NEW p \in Producers, NEW m \in Msgs, Push(p, m)
        PROVE  RingInv' /\ [Fifo!Next]_<<Contents, ~closed>>
    <2>0. pushes' \in [Producers -> 0 .. MaxPush]
      BY <1>a, <1>1 DEF Push, TypeOK
    <2>1. CASE UNCHANGED <<queue, ppc>>
      <3>1. RingInv'
        BY <1>a, <1>1, <2>0, <2>1 DEF Push, RingInv, TypeOK, queue
      <3> QED BY <3>1, <2>1, <1>b DEF queue
    <2>2. CASE ~closed /\ ~full /\ ~UNCHANGED <<queue, ppc>>
      <3>1. /\ ring' = [ring EXCEPT ![tail] = m] /\ count' = count + 1 /\ head' = head
            /\ tail' = advance(tail) /\ count # Cap
            /\ ppc' = [ppc EXCEPT ![p] = "wake"] /\ UNCHANGED <<closed, pipe, cpc>>
        BY <1>1, <2>2 DEF Push, full
      <3>2. /\ Len(Contents) < Cap /\ Contents' = Append(Contents, m)
            /\ ring' \in [0 .. Cap - 1 -> Msgs] /\ count' \in 0 .. Cap
            /\ tail' \in 0 .. Cap - 1 /\ tail' = Mod(head' + count')
        BY Zenon, <3>1, PushAppends
      <3>3. ppc' \in [Producers -> {"idle", "wake"}]
        BY <1>a, <3>1 DEF TypeOK
      <3>4. RingInv'
        BY <1>a, <2>0, <3>1, <3>2, <3>3 DEF RingInv, TypeOK
      <3>5. Fifo!Push(m)
        BY <2>2, <3>1, <3>2 DEF Fifo!Push
      <3> QED BY <3>4, <3>5 DEF Fifo!Next
    <2> QED BY <1>1, <2>1, <2>2 DEF Push
  <1>2. ASSUME NEW p \in Producers, Wake(p)
        PROVE  RingInv' /\ [Fifo!Next]_<<Contents, ~closed>>
    <2>1. RingInv'
      BY <1>a, <1>2 DEF Wake, RingInv, TypeOK, queue
    <2> QED BY <2>1, <1>2, <1>b DEF Wake, queue
  <1>3. ASSUME RunOnce \/ PopNone
        PROVE  RingInv' /\ [Fifo!Next]_<<Contents, ~closed>>
    <2>1. RingInv'
      BY Zenon, <1>a, <1>3 DEF RunOnce, PopNone, RingInv, TypeOK, queue
    <2> QED BY <2>1, <1>3, <1>b DEF RunOnce, PopNone, queue
  <1>4. ASSUME Pop
        PROVE  RingInv' /\ [Fifo!Next]_<<Contents, ~closed>>
    <2>1. /\ Contents # << >> /\ Contents' = Tail(Contents)
          /\ count' \in 0 .. Cap /\ head' \in 0 .. Cap - 1 /\ tail' = Mod(head' + count')
      BY <1>4, PopRemoves DEF Pop
    <2>2. RingInv'
      BY <1>a, <1>4, <2>1 DEF Pop, RingInv, TypeOK
    <2>3. Fifo!Pop
      BY <1>4, <2>1 DEF Pop, Fifo!Pop
    <2> QED BY <2>2, <2>3 DEF Fifo!Next
  <1>5. ASSUME Close
        PROVE  RingInv' /\ [Fifo!Next]_<<Contents, ~closed>>
    <2>1. Contents' = Contents /\ RingInv'
      <3>1. CASE count = 0
        <4>1. Contents' = << >> /\ tail' = Mod(head' + count') /\ 0 \in 0 .. Cap - 1
          BY <1>5, <3>1, ResetKeeps DEF Close, close
        <4>2. Contents = << >>
          BY <3>1, ContentsIs, EmptyWindow
        <4> QED BY <1>a, <1>5, <3>1, <4>1, <4>2 DEF Close, close, RingInv, TypeOK
      <3>2. CASE count # 0
        BY <1>a, <1>5, <3>2, ContentsIs DEF Close, close, RingInv, TypeOK
      <3> QED BY <3>1, <3>2
    <2>2. Fifo!Close
      BY <1>5, <2>1 DEF Close, close, Fifo!Close
    <2> QED BY <2>1, <2>2 DEF Fifo!Next
  <1>6. ASSUME Drop
        PROVE  RingInv' /\ [Fifo!Next]_<<Contents, ~closed>>
    <2>1. Contents' = << >> /\ tail' = Mod(head' + count') /\ 0 \in 0 .. Cap - 1
      BY <1>6, ResetKeeps DEF Drop
    <2>2. RingInv'
      BY <1>a, <1>6, <2>1 DEF Drop, RingInv, TypeOK
    <2>3. Fifo!Drop
      BY <1>6, <2>1 DEF Drop, Fifo!Drop
    <2> QED BY <2>2, <2>3 DEF Fifo!Next
  <1>7. ASSUME UNCHANGED vars
        PROVE  RingInv' /\ [Fifo!Next]_<<Contents, ~closed>>
    <2>1. RingInv'
      BY <1>a, <1>7 DEF vars, queue, RingInv, TypeOK
    <2> QED BY <2>1, <1>7, <1>b DEF vars, queue
  <1> QED BY <1>1, <1>2, <1>3, <1>4, <1>5, <1>6, <1>7 DEF Next, Produce, Consume

\* Indices and count stay inside the ring and its capacity, for every capacity.
THEOREM TypeCorrect == Spec => []TypeOK
  <1>1. Spec => []RingInv
    BY RingInit, RingStep, PTL DEF Spec
  <1>2. RingInv => TypeOK
    BY DEF RingInv
  <1> QED BY <1>1, <1>2, PTL

\* The ring of channel.cpp is a bounded first-in first-out queue: try_push
\* appends, try_pop removes the oldest message, close keeps and drop forgets
\* what is queued, for every capacity and every set of producers.
THEOREM Refines == Spec => ImplementsFifo
  <1>1. Init => Fifo!Init
    <2>1. Init => Contents = << >>
      BY ContentsIs, EmptyWindow DEF Init
    <2> QED BY <2>1 DEF Init, Fifo!Init
  <1> QED BY <1>1, RingInit, RingStep, PTL DEF Spec, ImplementsFifo, Fifo!Spec

\* No wakeup is lost: the message is in the ring before the hook runs, so the
\* loop thread can only block over a message whose wakeup is still to come.
THEOREM WakeupsAreNotLost == Spec => []NoLostWakeup
  <1>1. Init => NoLostWakeup
    BY DEF Init, NoLostWakeup
  <1>2. ASSUME RingInv, NoLostWakeup, [Next]_vars
        PROVE  NoLostWakeup'
    <2> USE DEF NoLostWakeup
    <2>1. TypeOK
      BY <1>2 DEF RingInv
    <2>2. ASSUME NEW p \in Producers, NEW m \in Msgs, Push(p, m) PROVE NoLostWakeup'
      BY <1>2, <2>1, <2>2 DEF Push, queue, TypeOK
    <2>3. ASSUME NEW p \in Producers, Wake(p) PROVE NoLostWakeup'
      BY <2>3 DEF Wake
    <2>4. ASSUME RunOnce \/ Pop PROVE NoLostWakeup'
      BY <2>4 DEF RunOnce, Pop
    <2>5. ASSUME PopNone PROVE NoLostWakeup'
      BY <2>5 DEF PopNone, queue
    <2>6. ASSUME Close PROVE NoLostWakeup'
      BY <1>2, <2>6 DEF Close, close
    <2>7. ASSUME Drop PROVE NoLostWakeup'
      BY <2>7 DEF Drop
    <2>8. ASSUME UNCHANGED vars PROVE NoLostWakeup'
      BY <1>2, <2>8 DEF vars, queue
    <2> QED BY <1>2, <2>2, <2>3, <2>4, <2>5, <2>6, <2>7, <2>8 DEF Next, Produce, Consume
  <1> QED BY <1>1, <1>2, RingInit, RingStep, PTL DEF Spec

-----------------------------------------------------------------------------
FdInv == FD!TypeOK /\ FD!SlotsAgree

SlotContents == Fds \cup {WakeFd, None}

\* What add has done once e is in the slot it took: the slot was empty or is
\* new, and it is no longer free.
Took(e) ==
    /\ FD!Slot \in 2 .. Len(slots')
    /\ FD!Slot <= Len(slots) => slots[FD!Slot] = None
    /\ slots' \in Seq(SlotContents) /\ Len(slots') \in {Len(slots), Len(slots) + 1}
    /\ slots'[FD!Slot] = e
    /\ \A s \in 1 .. Len(slots') : s # FD!Slot => s <= Len(slots) /\ slots'[s] = slots[s]
    /\ free_slots' \in Seq(2 .. Len(slots')) /\ Len(free_slots') <= Len(free_slots)
    /\ \A i \in 1 .. Len(free_slots') : free_slots'[i] = free_slots[i] /\ free_slots[i] # FD!Slot

\* add takes the slot freed last, or extends the vector.
LEMMA TakesEmptySlot ==
    ASSUME FD!FdsAssumption, FdInv, FD!TakeSlot, NEW e \in Fds \cup {None}, slots' = FD!Put(FD!Slot, e)
    PROVE  Took(e)
<1> DEFINE n == Len(free_slots)
<1>0. /\ slots \in Seq(SlotContents) /\ free_slots \in Seq(2 .. Len(slots)) /\ n \in Nat
      /\ Len(slots) \in Nat \ {0} /\ e \in SlotContents
  BY DEF FdInv, FD!TypeOK, SlotContents
<1>1. CASE free_slots = << >>
  <2>1. FD!Slot = Len(slots) + 1 /\ slots' = Append(slots, e) /\ free_slots' = << >>
    BY <1>0, <1>1 DEF FD!Slot, FD!Put, FD!TakeSlot
  <2>2. /\ slots' \in Seq(SlotContents) /\ Len(slots') = Len(slots) + 1 /\ slots'[FD!Slot] = e
        /\ \A s \in 1 .. Len(slots) : slots'[s] = slots[s]
    <3>1. /\ Append(slots, e) \in Seq(SlotContents) /\ Len(Append(slots, e)) = Len(slots) + 1
          /\ \A s \in 1 .. Len(slots) : Append(slots, e)[s] = slots[s]
          /\ Append(slots, e)[Len(slots) + 1] = e
      BY <1>0, AppendProperties
    <3> QED
      BY <2>1, <3>1
  <2>3. Len(free_slots') = 0 /\ free_slots' \in Seq(2 .. Len(slots'))
    BY <2>1
  <2> QED
    BY <1>0, <2>1, <2>2, <2>3 DEF Took
<1>2. CASE free_slots # << >>
  <2>1. n > 0 /\ FD!Slot = free_slots[n] /\ FD!Slot \in 2 .. Len(slots) /\ slots[FD!Slot] = None
    BY <1>0, <1>2 DEF FD!Slot, FdInv, FD!SlotsAgree
  <2>2. slots' = [slots EXCEPT ![FD!Slot] = e] /\ FD!Slot \in 1 .. Len(slots)
    BY <1>0, <2>1 DEF FD!Put
  <2>3. /\ slots' \in Seq(SlotContents) /\ Len(slots') = Len(slots)
        /\ \A s \in 1 .. Len(slots) : slots'[s] = IF s = FD!Slot THEN e ELSE slots[s]
    BY <1>0, <2>2, ExceptSeq
  <2>4. free_slots' = SubSeq(free_slots, 1, n - 1)
    BY <1>2 DEF FD!TakeSlot
  <2>5. \A i \in 1 .. n - 1 : free_slots[i] \in 2 .. Len(slots)
    BY <1>0
  <2>6. /\ free_slots' \in Seq(2 .. Len(slots)) /\ Len(free_slots') = n - 1
        /\ \A i \in 1 .. n - 1 : free_slots'[i] = free_slots[i]
    <3>1. 1 \in Int /\ n - 1 \in Int
      BY <1>0
    <3> HIDE DEF n
    <3>2. /\ SubSeq(free_slots, 1, n - 1) \in Seq(2 .. Len(slots))
          /\ Len(SubSeq(free_slots, 1, n - 1)) = IF 1 <= n - 1 THEN (n - 1) - 1 + 1 ELSE 0
          /\ \A i \in 1 .. (n - 1) - 1 + 1 : SubSeq(free_slots, 1, n - 1)[i] = free_slots[1 + i - 1]
      BY <2>5, <3>1, SubSeqProperties
    <3>3. n - 1 \in Nat
      BY <1>0, <2>1 DEF n
    <3> QED
      BY <2>4, <3>2, <3>3
  <2>7. \A i \in 1 .. n - 1 : free_slots[i] # FD!Slot
    BY SMTT(30), <1>0, <2>1 DEF FdInv, FD!SlotsAgree
  <2>8. /\ Len(free_slots') <= Len(free_slots)
        /\ \A i \in 1 .. Len(free_slots') : free_slots'[i] = free_slots[i] /\ free_slots[i] # FD!Slot
    <3>1. \A i \in 1 .. n - 1 : free_slots'[i] = free_slots[i] /\ free_slots[i] # FD!Slot
      BY <2>6, <2>7
    <3> QED
      BY <1>0, <2>1, <2>6, <3>1
  <2>9. /\ FD!Slot \in 2 .. Len(slots') /\ slots'[FD!Slot] = e
        /\ \A s \in 1 .. Len(slots') : s # FD!Slot => s <= Len(slots) /\ slots'[s] = slots[s]
    BY <1>0, <2>1, <2>3
  <2> QED
    BY <2>1, <2>3, <2>6, <2>8, <2>9 DEF Took
<1> QED
  BY <1>1, <1>2

\* The slots that are still free are empty as before.
LEMMA FreeStaysEmpty ==
    ASSUME FdInv, NEW e, Took(e)
    PROVE  /\ \A i \in 1 .. Len(free_slots') : slots'[free_slots'[i]] = None
           /\ \A i, j \in 1 .. Len(free_slots') : free_slots'[i] = free_slots'[j] => i = j
<1>1. /\ free_slots' \in Seq(2 .. Len(slots')) /\ free_slots \in Seq(2 .. Len(slots))
      /\ Len(free_slots') \in Nat /\ Len(free_slots) \in Nat /\ Len(free_slots') <= Len(free_slots)
  BY DEF Took, FdInv, FD!TypeOK
<1>2. ASSUME NEW i \in 1 .. Len(free_slots')
      PROVE  /\ i \in 1 .. Len(free_slots) /\ free_slots'[i] = free_slots[i]
             /\ slots'[free_slots'[i]] = None
  <2>1. i \in 1 .. Len(free_slots) /\ free_slots'[i] = free_slots[i] /\ free_slots'[i] # FD!Slot
    BY SMTT(30), <1>1 DEF Took
  <2>2. free_slots'[i] \in 2 .. Len(slots')
    BY <1>1, ElementOfSeq
  <2>3. slots[free_slots[i]] = None
    BY <2>1 DEF FdInv, FD!SlotsAgree
  <2>4. slots'[free_slots'[i]] = slots[free_slots'[i]]
    BY SMTT(30), <2>1, <2>2 DEF Took
  <2> QED
    BY <2>1, <2>3, <2>4
<1> QED
  BY <1>2 DEF FdInv, FD!SlotsAgree

\* add, for an fd that the kernel accepts.
LEMMA AddKeeps ==
    ASSUME FD!FdsAssumption, FdInv, NEW f \in Fds, FD!Add(f)
    PROVE  FdInv'
<1>1. FD!TakeSlot /\ slots' = FD!Put(FD!Slot, f) /\ fd_slot[f] = 0
      /\ fd_slot' = [fd_slot EXCEPT ![f] = FD!Slot] /\ frefused' = frefused
  BY DEF FD!Add
<1>2. Took(f)
  BY <1>1, TakesEmptySlot
<1>3. FD!TypeOK'
  <2>1. fd_slot' \in [Fds -> 0 .. Len(slots')]
    BY <1>1, <1>2 DEF Took, FdInv, FD!TypeOK
  <2>2. slots' # << >> /\ slots'[1] = WakeFd
    <3>1. 1 \in 1 .. Len(slots') /\ 1 # FD!Slot
      BY <1>2 DEF Took
    <3> QED
      BY <1>2, <3>1 DEF Took, FdInv, FD!TypeOK
  <2> QED
    BY <1>1, <1>2, <2>1, <2>2 DEF Took, FdInv, FD!TypeOK, SlotContents
<1>4. FD!SlotsAgree'
  <2>1. \A g \in Fds : fd_slot[g] # 0 => fd_slot[g] # FD!Slot
    BY <1>2 DEF Took, FdInv, FD!TypeOK, FD!SlotsAgree, FD!FdsAssumption
  <2>2. \A g \in Fds : fd_slot'[g] # 0 => fd_slot'[g] <= Len(slots') /\ slots'[fd_slot'[g]] = g
    BY <1>1, <1>2, <2>1 DEF Took, FdInv, FD!TypeOK, FD!SlotsAgree
  <2>3. ASSUME NEW s \in 2 .. Len(slots'), slots'[s] # None
        PROVE  fd_slot'[slots'[s]] = s
    <3>1. CASE s = FD!Slot
      BY <1>1, <1>2, <3>1 DEF Took, FdInv, FD!TypeOK
    <3>2. CASE s # FD!Slot
      <4>1. s \in 2 .. Len(slots) /\ slots'[s] = slots[s]
        BY <1>2, <3>2 DEF Took, FdInv, FD!TypeOK
      <4>2. fd_slot[slots[s]] = s /\ slots[s] # f
        BY <1>1, <2>3, <4>1 DEF FdInv, FD!TypeOK, FD!SlotsAgree
      <4> QED
        BY <1>1, <4>1, <4>2 DEF FdInv, FD!TypeOK
    <3> QED
      BY <3>1, <3>2
  <2> QED
    BY <1>2, <2>2, <2>3, FreeStaysEmpty DEF FD!SlotsAgree
<1> QED
  BY <1>3, <1>4 DEF FdInv

\* add, for an fd that the kernel refuses: the slot is empty again.
LEMMA AddRefusedKeeps ==
    ASSUME FD!FdsAssumption, FD!MaxRefusedAssumption, FdInv, NEW f \in Fds, FD!AddRefused(f)
    PROVE  FdInv'
<1>1. FD!TakeSlot /\ slots' = FD!Put(FD!Slot, None) /\ fd_slot' = fd_slot
      /\ frefused < MaxRefused /\ frefused' = frefused + 1
  BY DEF FD!AddRefused
<1>2. Took(None)
  BY <1>1, TakesEmptySlot
<1>3. FD!TypeOK'
  <2>1. fd_slot' \in [Fds -> 0 .. Len(slots')]
    BY <1>1, <1>2 DEF Took, FdInv, FD!TypeOK
  <2>2. slots' # << >> /\ slots'[1] = WakeFd
    <3>1. 1 \in 1 .. Len(slots') /\ 1 # FD!Slot
      BY <1>2 DEF Took
    <3> QED
      BY <1>2, <3>1 DEF Took, FdInv, FD!TypeOK
  <2>3. frefused' \in 0 .. MaxRefused
    BY <1>1 DEF FdInv, FD!TypeOK, FD!MaxRefusedAssumption
  <2> QED
    BY <1>2, <2>1, <2>2, <2>3 DEF Took, FD!TypeOK, SlotContents
<1>4. FD!SlotsAgree'
  <2>1. \A g \in Fds : fd_slot[g] # 0 => fd_slot[g] # FD!Slot
    BY <1>2 DEF Took, FdInv, FD!TypeOK, FD!SlotsAgree, FD!FdsAssumption
  <2>2. \A g \in Fds : fd_slot'[g] # 0 => fd_slot'[g] <= Len(slots') /\ slots'[fd_slot'[g]] = g
    BY <1>1, <1>2, <2>1 DEF Took, FdInv, FD!TypeOK, FD!SlotsAgree
  <2>3. ASSUME NEW s \in 2 .. Len(slots'), slots'[s] # None
        PROVE  fd_slot'[slots'[s]] = s
    <3>1. s # FD!Slot
      BY <1>2, <2>3 DEF Took
    <3>2. s \in 2 .. Len(slots) /\ slots'[s] = slots[s]
      BY <1>2, <3>1 DEF Took, FdInv, FD!TypeOK
    <3> QED
      BY <1>1, <2>3, <3>2 DEF FdInv, FD!SlotsAgree
  <2> QED
    BY <1>2, <2>2, <2>3, FreeStaysEmpty DEF FD!SlotsAgree
<1> QED
  BY <1>3, <1>4 DEF FdInv

\* del, which frees the slot of the fd.
LEMMA RemoveKeeps ==
    ASSUME FD!FdsAssumption, FdInv, NEW f \in Fds, FD!Remove(f)
    PROVE  FdInv'
<1> DEFINE s == fd_slot[f]
           n == Len(free_slots)
<1>1. /\ s \in 2 .. Len(slots) /\ slots[s] = f
      /\ slots' = [slots EXCEPT ![s] = None] /\ fd_slot' = [fd_slot EXCEPT ![f] = 0]
      /\ free_slots' = Append(free_slots, s) /\ frefused' = frefused
  BY DEF FD!Remove, FdInv, FD!TypeOK, FD!SlotsAgree, FD!FdsAssumption
<1>2. slots' \in Seq(SlotContents) /\ Len(slots') = Len(slots)
      /\ \A t \in 1 .. Len(slots) : slots'[t] = IF t = s THEN None ELSE slots[t]
  BY <1>1, ExceptSeq DEF FdInv, FD!TypeOK, SlotContents
<1>3. /\ free_slots' \in Seq(2 .. Len(slots)) /\ n \in Nat
      /\ Len(free_slots') = n + 1 /\ free_slots'[n + 1] = s
      /\ \A i \in 1 .. n : free_slots'[i] = free_slots[i] /\ free_slots[i] \in 2 .. Len(slots)
  BY <1>1, AppendProperties DEF FdInv, FD!TypeOK
<1>4. FD!TypeOK'
  BY <1>1, <1>2, <1>3 DEF FdInv, FD!TypeOK, SlotContents
<1>5. FD!SlotsAgree'
  <2>1. \A g \in Fds : fd_slot'[g] # 0 => fd_slot'[g] <= Len(slots') /\ slots'[fd_slot'[g]] = g
    BY <1>1, <1>2 DEF FdInv, FD!TypeOK, FD!SlotsAgree
  <2>2. \A t \in 2 .. Len(slots') : slots'[t] # None => fd_slot'[slots'[t]] = t
    BY <1>1, <1>2 DEF FdInv, FD!TypeOK, FD!SlotsAgree
  <2>3. \A i \in 1 .. n : free_slots[i] # s /\ slots[free_slots[i]] = None
    BY <1>1 DEF FdInv, FD!TypeOK, FD!SlotsAgree, FD!FdsAssumption
  <2>4. \A i, j \in 1 .. n : free_slots[i] = free_slots[j] => i = j
    BY DEF FdInv, FD!SlotsAgree
  <2> HIDE DEF s, n
  <2>5. \A i \in 1 .. Len(free_slots') : slots'[free_slots'[i]] = None
    BY <1>1, <1>2, <1>3, <2>3
  <2>6. \A i, j \in 1 .. Len(free_slots') : free_slots'[i] = free_slots'[j] => i = j
    BY <1>3, <2>3, <2>4
  <2> QED
    BY <2>1, <2>2, <2>5, <2>6 DEF FD!SlotsAgree
<1> QED
  BY <1>4, <1>5 DEF FdInv

\* No slot is ever given to two fds and del always finds the slot of its fd
\* (EventLoop::add, del), for every set of fds and any number of refusals.
THEOREM RegistryAgrees ==
    ASSUME FD!FdsAssumption, FD!MaxRefusedAssumption
    PROVE  FD!Spec => []FD!SlotsAgree
<1>1. FD!Init => FdInv
  BY DEF FD!Init, FdInv, FD!TypeOK, FD!SlotsAgree, FD!FdsAssumption, FD!MaxRefusedAssumption
<1>2. FdInv /\ [FD!Next]_(FD!vars) => FdInv'
  <2> SUFFICES ASSUME FdInv, [FD!Next]_(FD!vars) PROVE FdInv'
    OBVIOUS
  <2>1. CASE UNCHANGED FD!vars
    BY <2>1 DEF FdInv, FD!TypeOK, FD!SlotsAgree, FD!vars
  <2>2. CASE FD!Next
    BY <2>2, AddKeeps, AddRefusedKeeps, RemoveKeeps DEF FD!Next
  <2> QED
    BY <2>1, <2>2
<1>3. FdInv => FD!SlotsAgree
  BY DEF FdInv
<1> QED
  BY <1>1, <1>2, <1>3, PTL DEF FD!Spec

-----------------------------------------------------------------------------
\* The arena's Cardinality is the one of FiniteSetTheorems.
LEMMA SameCount == \A S : AR!Cardinality(S) = Cardinality(S)
  BY DEF AR!Cardinality, Cardinality

\* Rounding up to the alignment.
LEMMA AlignUp ==
    ASSUME NEW v \in Nat, NEW a \in Nat \ {0}
    PROVE  AR!align_up(v, a) \in Nat /\ AR!align_up(v, a) >= v /\ AR!align_up(v, a) % a = 0
<1> DEFINE q == (v + a - 1) \div a
<1>1. q \in Nat /\ q * a >= v
  OBVIOUS
<1> HIDE DEF q
<1>2. (q * a) % a = 0 /\ q * a \in Nat
  BY <1>1
<1>3. AR!align_up(v, a) = q * a
  BY DEF AR!align_up, q
<1> QED
  BY <1>1, <1>2, <1>3

Block == [cap : Nat, off : Nat]
Piece == [block : Nat, at : Nat, n : Nat \ {0}, align : Nat \ {0}]

ArenaTypes ==
    /\ blocks \in Seq(Block) /\ cur \in 0 .. Len(blocks)
    /\ next_cap \in Nat /\ used \in Nat /\ live \subseteq Piece

PiecesInside ==
    /\ \A b \in DOMAIN blocks : blocks[b].off <= blocks[b].cap
    /\ \A x \in live : x.block \in DOMAIN blocks /\ x.at + x.n <= blocks[x.block].off /\ x.at % x.align = 0

Apart(x, y) == x # y /\ x.block = y.block => x.at + x.n <= y.at \/ y.at + y.n <= x.at

BytesCounted == IsFiniteSet(AR!HandedOut) /\ used = Cardinality(AR!HandedOut)

ArenaInv == ArenaTypes /\ PiecesInside /\ (\A x, y \in live : Apart(x, y)) /\ BytesCounted

\* Where new bytes start at or after the end of what a block has handed out, they
\* are in no earlier piece.
LEMMA NewPiece ==
    ASSUME ArenaTypes, PiecesInside, \A x, y \in live : Apart(x, y),
           NEW p \in Piece, live' = live \cup {p},
           p.block \in DOMAIN blocks => blocks[p.block].off <= p.at
    PROVE  live' \subseteq Piece /\ \A x, y \in live' : Apart(x, y)
<1>1. \A x \in live : Apart(x, p) /\ Apart(p, x)
  <2> SUFFICES ASSUME NEW x \in live, x.block = p.block PROVE x.at + x.n <= p.at
    BY DEF Apart
  <2>1. x \in Piece /\ x.block \in DOMAIN blocks /\ x.at + x.n <= blocks[x.block].off
    BY DEF ArenaTypes, PiecesInside
  <2>2. blocks[x.block].off \in Nat
    <3>1. blocks[x.block] \in Block
      BY <2>1 DEF ArenaTypes
    <3> QED
      BY <3>1 DEF Block
  <2>3. x.at \in Nat /\ x.n \in Nat /\ p.at \in Nat
    BY <2>1 DEF Piece
  <2>4. blocks[x.block].off <= p.at
    BY <2>1
  <2> QED
    BY <2>1, <2>2, <2>3, <2>4
<1>2. Apart(p, p)
  BY DEF Apart
<1> QED
  BY <1>1, <1>2 DEF ArenaTypes

\* The bytes i .. j of block b.
LEMMA Strip ==
    ASSUME NEW b \in Nat, NEW i \in Nat, NEW j \in Nat, i <= j
    PROVE  IsFiniteSet({b} \X (i + 1 .. j)) /\ Cardinality({b} \X (i + 1 .. j)) = j - i
<1>1. IsFiniteSet({b}) /\ Cardinality({b}) = 1
  BY Zenon, FS_Singleton
<1>2. IsFiniteSet(i + 1 .. j) /\ Cardinality(i + 1 .. j) = j - i
  <2>1. i + 1 \in Int /\ j \in Int
    OBVIOUS
  <2>2. IsFiniteSet(i + 1 .. j) /\ Cardinality(i + 1 .. j) = IF i + 1 > j THEN 0 ELSE j - (i + 1) + 1
    BY <2>1, FS_Interval
  <2> QED
    BY <2>2
<1>3. /\ IsFiniteSet({b} \X (i + 1 .. j))
      /\ Cardinality({b} \X (i + 1 .. j)) = Cardinality({b}) * Cardinality(i + 1 .. j)
  BY Zenon, <1>1, <1>2, FS_Product
<1> QED
  BY <1>1, <1>2, <1>3

\* The bytes of one block: those handed out grow by the bytes i .. j of b.
LEMMA MoreBytes ==
    ASSUME BytesCounted, NEW b \in Nat, NEW i \in Nat, NEW j \in Nat, i <= j,
           AR!HandedOut' = AR!HandedOut \cup ({b} \X (i + 1 .. j)),
           AR!HandedOut \cap ({b} \X (i + 1 .. j)) = {}, used' = used + (j - i)
    PROVE  BytesCounted'
<1>1. IsFiniteSet({b} \X (i + 1 .. j)) /\ Cardinality({b} \X (i + 1 .. j)) = j - i
  BY Strip
<1> DEFINE S == AR!HandedOut
           T == {b} \X (i + 1 .. j)
<1>2. IsFiniteSet(S \cup T) /\ Cardinality(S \cup T) = Cardinality(S) + (j - i) - 0
  <2>1. IsFiniteSet(S) /\ S \cap T = {} /\ IsFiniteSet(T) /\ Cardinality(T) = j - i
    BY <1>1 DEF BytesCounted
  <2>2. Cardinality({}) = 0
    BY FS_EmptySet
  <2> HIDE DEF S, T
  <2> QED
    BY <2>1, <2>2, FS_Union
<1>3. Cardinality(AR!HandedOut) \in Nat
  BY FS_CardinalityType DEF BytesCounted
<1>4. IsFiniteSet(AR!HandedOut') /\ Cardinality(AR!HandedOut') = Cardinality(AR!HandedOut) + (j - i)
  BY <1>2, <1>3
<1>5. used' = Cardinality(AR!HandedOut')
  BY <1>4 DEF BytesCounted
<1> QED
  BY <1>4, <1>5 DEF BytesCounted

\* alloc finds room in a block.
LEMMA BumpKeeps ==
    ASSUME ArenaInv, NEW n \in Nat \ {0}, NEW a \in Nat \ {0}, AR!Bump(n, a)
    PROVE  ArenaInv'
<1>1. cur \in Nat /\ next_cap' = next_cap
  BY DEF AR!Bump, ArenaInv, ArenaTypes
<1>2. PICK b \in AR!Fitting(n, a) :
          /\ blocks' = [blocks EXCEPT ![b].off = AR!Taken(b, n, a)]
          /\ used' = used + AR!Taken(b, n, a) - blocks[b].off /\ cur' = b
          /\ AR!Placed(b, AR!align_up(blocks[b].off, a), n, a)
  BY Zenon DEF AR!Bump
<1> DEFINE at == AR!align_up(blocks[b].off, a)
           p == [block |-> b, at |-> at, n |-> n, align |-> a]
<1>3. /\ blocks' = [blocks EXCEPT ![b].off = at + n] /\ used' = used + (at + n) - blocks[b].off
      /\ cur' = b /\ live' = live \cup {p} /\ next_cap' = next_cap
  BY <1>1, <1>2 DEF AR!Taken, AR!Placed
<1>4. /\ b \in 1 .. Len(blocks) /\ b \in Nat /\ blocks[b] \in Block /\ blocks[b].off \in Nat
      /\ at + n <= blocks[b].cap
  <2>1. b \in 1 .. cur /\ at + n <= blocks[b].cap
    BY <1>2 DEF AR!Fitting
  <2>2. b \in 1 .. Len(blocks) /\ b \in Nat
    BY <1>1, <2>1 DEF ArenaInv, ArenaTypes
  <2>3. blocks[b] \in Block
    BY <2>2 DEF ArenaInv, ArenaTypes
  <2> QED
    BY <2>1, <2>2, <2>3 DEF Block
<1>5. at \in Nat /\ at >= blocks[b].off /\ at % a = 0
  BY Zenon, <1>4, AlignUp
<1>6. p \in Piece /\ p.block = b /\ p.at = at /\ p.n = n /\ p.align = a
  BY <1>4, <1>5 DEF Piece
<1> HIDE DEF at, p
<1>7. /\ blocks' \in Seq(Block) /\ DOMAIN blocks' = DOMAIN blocks /\ Len(blocks') = Len(blocks)
      /\ \A c \in DOMAIN blocks : blocks'[c] = IF c = b THEN [blocks[b] EXCEPT !.off = at + n] ELSE blocks[c]
  <2>1. [blocks[b] EXCEPT !.off = at + n] \in Block
    BY <1>4, <1>5 DEF Block
  <2> QED
    BY <1>3, <1>4, <2>1, ExceptSeq DEF ArenaInv, ArenaTypes
<1>8. /\ blocks'[b].off = at + n /\ blocks'[b].cap = blocks[b].cap
      /\ \A c \in DOMAIN blocks : c # b => blocks'[c] = blocks[c]
  <2>1. b \in DOMAIN blocks
    BY <1>4 DEF ArenaInv, ArenaTypes
  <2>2. blocks'[b] = [blocks[b] EXCEPT !.off = at + n]
    BY <1>7, <2>1
  <2> QED
    BY <1>4, <1>7, <2>2 DEF Block
<1>9. live' \subseteq Piece /\ \A x, y \in live' : Apart(x, y)
  BY Zenon, <1>3, <1>4, <1>5, <1>6, NewPiece DEF ArenaInv
<1>10. ArenaTypes'
  BY <1>3, <1>4, <1>5, <1>7, <1>9 DEF ArenaInv, ArenaTypes
<1>11. PiecesInside'
  <2>1. ASSUME NEW c \in DOMAIN blocks' PROVE blocks'[c].off <= blocks'[c].cap
    BY <1>4, <1>7, <1>8 DEF ArenaInv, PiecesInside
  <2>2. ASSUME NEW x \in live
        PROVE  x.block \in DOMAIN blocks' /\ x.at + x.n <= blocks'[x.block].off /\ x.at % x.align = 0
    <3>1. /\ x \in Piece /\ x.block \in DOMAIN blocks /\ x.at + x.n <= blocks[x.block].off
          /\ x.at % x.align = 0
      BY DEF ArenaInv, ArenaTypes, PiecesInside
    <3>2. x.at \in Nat /\ x.n \in Nat
      BY <3>1 DEF Piece
    <3>3. CASE x.block = b
      BY <1>4, <1>5, <1>7, <1>8, <3>1, <3>2, <3>3
    <3>4. CASE x.block # b
      BY <1>7, <1>8, <3>1, <3>4
    <3> QED
      BY <3>3, <3>4
  <2>3. p.block \in DOMAIN blocks' /\ p.at + p.n <= blocks'[p.block].off /\ p.at % p.align = 0
    BY <1>4, <1>5, <1>6, <1>7, <1>8
  <2> QED
    BY <1>3, <2>1, <2>2, <2>3 DEF PiecesInside
<1>12. BytesCounted'
  <2> DEFINE i == blocks[b].off
             j == at + n
  <2>1. i \in Nat /\ j \in Nat /\ i <= j /\ used' = used + (j - i) /\ used \in Nat
    BY <1>3, <1>4, <1>5 DEF ArenaInv, ArenaTypes
  <2>2. \A c \in DOMAIN blocks : c # b => {c} \X (1 .. blocks'[c].off) = {c} \X (1 .. blocks[c].off)
    BY <1>8
  <2>3. {b} \X (1 .. blocks'[b].off) = ({b} \X (1 .. i)) \cup ({b} \X (i + 1 .. j))
    BY <1>8, <2>1
  <2>4. b \in DOMAIN blocks /\ DOMAIN blocks' = DOMAIN blocks
    BY <1>4, <1>7 DEF ArenaInv, ArenaTypes
  <2> HIDE DEF j
  <2>5. AR!HandedOut' = AR!HandedOut \cup ({b} \X (i + 1 .. j))
    BY <2>2, <2>3, <2>4 DEF AR!HandedOut
  <2>6. AR!HandedOut \cap ({b} \X (i + 1 .. j)) = {}
    BY <2>1, <2>4 DEF AR!HandedOut
  <2> QED
    BY Zenon, <1>4, <2>1, <2>5, <2>6, MoreBytes DEF ArenaInv
<1> QED
  BY <1>9, <1>10, <1>11, <1>12 DEF ArenaInv

\* alloc takes a new block.
LEMMA GrowKeeps ==
    ASSUME AR!ArenaAssumption, ArenaInv, NEW n \in Nat \ {0}, NEW a \in Nat \ {0}, AR!Grow(n, a)
    PROVE  ArenaInv'
<1> DEFINE b == Len(blocks) + 1
           new == [cap |-> IF next_cap < n THEN n ELSE next_cap, off |-> n]
           p == [block |-> b, at |-> 0, n |-> n, align |-> a]
<1>1. /\ blocks' = Append(blocks, new) /\ used' = used + n /\ cur' = b /\ live' = live \cup {p}
      /\ next_cap' = AR!Doubled
  BY DEF AR!Grow, AR!Placed
<1>2. /\ blocks \in Seq(Block) /\ Len(blocks) \in Nat /\ b \in Nat /\ next_cap \in Nat
      /\ DOMAIN blocks = 1 .. Len(blocks)
  BY DEF ArenaInv, ArenaTypes
<1>3. new \in Block /\ new.off = n /\ new.off <= new.cap
  BY <1>2 DEF Block
<1>4. p \in Piece /\ p.block = b /\ p.at = 0 /\ p.n = n /\ p.align = a /\ 0 % a = 0
  BY <1>2 DEF Piece
<1>5. /\ blocks' \in Seq(Block) /\ Len(blocks') = b /\ DOMAIN blocks' = 1 .. b
      /\ blocks'[b] = new /\ \A c \in 1 .. Len(blocks) : blocks'[c] = blocks[c]
  BY SMTT(30), <1>1, <1>2, <1>3, AppendProperties
<1>6. next_cap' \in Nat
  BY <1>1, <1>2 DEF AR!Doubled, AR!ArenaAssumption
<1>7. b \notin DOMAIN blocks /\ DOMAIN blocks' = DOMAIN blocks \cup {b}
  BY <1>2, <1>5
<1> HIDE DEF b, new, p
<1>8. live' \subseteq Piece /\ \A x, y \in live' : Apart(x, y)
  BY ZenonT(30), <1>1, <1>4, <1>7, NewPiece DEF ArenaInv
<1>9. ArenaTypes'
  <2>1. cur' \in 0 .. Len(blocks') /\ used' \in Nat
    BY <1>1, <1>2, <1>5 DEF ArenaInv, ArenaTypes
  <2> QED
    BY <1>5, <1>6, <1>8, <2>1 DEF ArenaTypes
<1>10. PiecesInside'
  <2>1. ASSUME NEW c \in DOMAIN blocks' PROVE blocks'[c].off <= blocks'[c].cap
    <3>1. CASE c = b
      BY <1>3, <1>5, <3>1
    <3>2. CASE c # b
      <4>1. c \in DOMAIN blocks /\ blocks'[c] = blocks[c]
        BY <1>2, <1>5, <1>7, <3>2
      <4> QED
        BY <4>1 DEF ArenaInv, PiecesInside
    <3> QED
      BY <3>1, <3>2
  <2>2. \A x \in live : /\ x.block \in DOMAIN blocks' /\ x.at + x.n <= blocks'[x.block].off
                        /\ x.at % x.align = 0
    BY <1>2, <1>5, <1>7 DEF ArenaInv, PiecesInside
  <2>3. p.block \in DOMAIN blocks' /\ p.at + p.n <= blocks'[p.block].off /\ p.at % p.align = 0
    <3>1. blocks'[p.block].off = n /\ p.at + p.n = n /\ p.block \in DOMAIN blocks'
      <4>1. blocks'[p.block] = new /\ p.block \in DOMAIN blocks'
        BY Zenon, <1>4, <1>5, <1>7
      <4> QED
        BY <1>3, <1>4, <4>1
    <3>2. p.at % p.align = 0
      BY <1>4
    <3> QED
      BY <3>1, <3>2
  <2> QED
    BY <1>1, <2>1, <2>2, <2>3 DEF PiecesInside
<1>11. BytesCounted'
  <2>1. \A c \in DOMAIN blocks : {c} \X (1 .. blocks'[c].off) = {c} \X (1 .. blocks[c].off)
    BY <1>2, <1>5
  <2>2. {b} \X (1 .. blocks'[b].off) = {b} \X (0 + 1 .. n)
    BY <1>3, <1>5
  <2>3. AR!HandedOut' = AR!HandedOut \cup ({b} \X (0 + 1 .. n))
    BY <1>7, <2>1, <2>2 DEF AR!HandedOut
  <2>4. AR!HandedOut \cap ({b} \X (0 + 1 .. n)) = {}
    BY <1>7 DEF AR!HandedOut
  <2>5. used' = used + (n - 0) /\ 0 <= n
    BY <1>1 DEF ArenaInv, ArenaTypes
  <2> QED
    BY <1>2, <2>3, <2>4, <2>5, MoreBytes DEF ArenaInv
<1> QED
  BY <1>8, <1>9, <1>10, <1>11 DEF ArenaInv

\* malloc fails: only the next capacity changes.
LEMMA GrowFailsKeeps ==
    ASSUME AR!ArenaAssumption, ArenaInv, NEW n, NEW a, AR!GrowFails(n, a)
    PROVE  ArenaInv'
<1>1. blocks' = blocks /\ cur' = cur /\ used' = used /\ live' = live /\ next_cap' \in Nat
  BY DEF AR!GrowFails, AR!Doubled, AR!ArenaAssumption, ArenaInv, ArenaTypes
<1> QED
  BY <1>1 DEF ArenaInv, ArenaTypes, PiecesInside, BytesCounted, AR!HandedOut, Apart

\* The allocations are over: reset keeps the blocks, the others lose them.
LEMMA EmptyKeeps ==
    ASSUME AR!ArenaAssumption, ArenaInv, AR!reset \/ AR!clear \/ \E assigned \in BOOLEAN : AR!MovedFrom(assigned)
    PROVE  ArenaInv'
<1>1. used' = 0 /\ live' = {} /\ next_cap' \in Nat
  BY DEF AR!reset, AR!clear, AR!MovedFrom, AR!Emptied, ArenaInv, ArenaTypes, AR!ArenaAssumption
<1>2. /\ blocks' \in Seq(Block) /\ cur' \in 0 .. Len(blocks')
      /\ \A b \in DOMAIN blocks' : blocks'[b].off = 0 /\ blocks'[b].cap \in Nat
  <2>1. CASE AR!reset
    <3> DEFINE E(b) == [blocks[b] EXCEPT !.off = 0]
    <3>1. /\ blocks \in Seq(Block) /\ blocks' = [b \in DOMAIN blocks |-> E(b)] /\ cur' = Len(blocks)
          /\ Len(blocks) \in Nat /\ DOMAIN blocks = 1 .. Len(blocks)
      BY <2>1 DEF AR!reset, ArenaInv, ArenaTypes
    <3>2. \A b \in 1 .. Len(blocks) : E(b) \in Block /\ E(b).off = 0 /\ E(b).cap \in Nat
      <4>1. \A b \in 1 .. Len(blocks) : blocks[b] \in Block
        BY <3>1
      <4> QED
        BY <4>1 DEF Block
    <3> HIDE DEF E
    <3>3. blocks' \in Seq(Block) /\ Len(blocks') = Len(blocks)
      BY <3>1, <3>2
    <3> QED
      BY <3>1, <3>2, <3>3
  <2>2. CASE blocks' = << >> /\ cur' = 0
    BY <2>2
  <2> QED
    BY <2>1, <2>2 DEF AR!clear, AR!MovedFrom, AR!Emptied
<1>3. PiecesInside'
  BY <1>1, <1>2 DEF PiecesInside
<1>4. AR!HandedOut' = {}
  <2>1. \A b \in DOMAIN blocks' : {b} \X (1 .. blocks'[b].off) = {}
    BY <1>2
  <2> QED
    BY <2>1 DEF AR!HandedOut
<1>5. BytesCounted'
  BY <1>1, <1>4, FS_EmptySet DEF BytesCounted
<1>6. ArenaTypes'
  BY <1>1, <1>2 DEF ArenaTypes
<1> QED
  BY <1>1, <1>3, <1>5, <1>6 DEF ArenaInv

\* Allocations never overlap or leave their block (Arena::alloc, grow, reset),
\* whatever sizes and alignments are asked for.
THEOREM AllocationsAreDisjoint ==
    ASSUME AR!ArenaAssumption
    PROVE  AR!Spec => []AR!AllocsAreDisjoint
<1>1. ASSUME AR!Init PROVE ArenaInv
  <2>1. blocks = << >> /\ cur = 0 /\ used = 0 /\ live = {} /\ next_cap \in Nat
    BY <1>1 DEF AR!Init, AR!ArenaAssumption
  <2>2. AR!HandedOut = {}
    BY <2>1 DEF AR!HandedOut
  <2>3. ArenaTypes /\ PiecesInside
    BY <2>1 DEF ArenaTypes, PiecesInside
  <2>4. BytesCounted
    BY <2>1, <2>2, FS_EmptySet DEF BytesCounted
  <2> QED
    BY <2>1, <2>3, <2>4 DEF ArenaInv
<1>2. ASSUME ArenaInv, [AR!Next]_(AR!vars) PROVE ArenaInv'
  <2>1. CASE UNCHANGED AR!vars
    BY <1>2, <2>1 DEF AR!vars, ArenaInv, ArenaTypes, PiecesInside, BytesCounted, AR!HandedOut, Apart
  <2>2. ASSUME NEW n0 \in Sizes, NEW a0 \in Aligns, AR!Alloc(n0, a0) PROVE ArenaInv'
    <3>1. AR!AtLeastOne(n0) \in Nat \ {0} /\ AR!Clamp(a0) \in Nat \ {0}
      BY DEF AR!AtLeastOne, AR!Clamp, AR!ArenaAssumption
    <3> QED
      BY <1>2, <2>2, <3>1, BumpKeeps, GrowKeeps, GrowFailsKeeps DEF AR!Alloc
  <2> QED
    BY <1>2, <2>1, <2>2, EmptyKeeps DEF AR!Next
<1>3. ArenaInv => AR!AllocsAreDisjoint
  BY SameCount DEF ArenaInv, PiecesInside, Apart, BytesCounted, AR!AllocsAreDisjoint
<1> QED
  BY <1>1, <1>2, <1>3, PTL DEF AR!Spec
=============================================================================
