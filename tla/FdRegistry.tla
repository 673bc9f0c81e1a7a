----------------------------- MODULE FdRegistry -----------------------------
(***************************************************************************)
(* The fd registry of core::EventLoop (src/core/event_loop.cpp): the       *)
(* vector of slots, the stack of free slot numbers and the index from fds  *)
(* to slots, and the dispatch of the poll() build, which walks them.       *)
(* Slot numbers start at 1 here; slot 1 is the wakeup pipe's.              *)
(***************************************************************************)
EXTENDS Integers, Sequences, FiniteSets

CONSTANTS
    Fds,
    WakeFd,    \* the read end of the wakeup pipe
    None,
    MaxRefused \* bound: how often the kernel refuses an fd

FdsAssumption == WakeFd \notin Fds /\ None \notin Fds \cup {WakeFd}
MaxRefusedAssumption == MaxRefused \in Nat

VARIABLES
    slots,       \* slot number -> the fd it is for, or None
    free_slots,
    fd_slot,     \* fd -> slot number, 0 if it is not registered
    refused,
    called       \* poll build: the fd poll() found ready and the slot's fd

vars == <<slots, free_slots, fd_slot, refused, called>>

Init ==
    /\ slots = <<WakeFd>> /\ free_slots = << >>
    /\ fd_slot = [f \in Fds |-> 0] /\ refused = 0 /\ called = <<None, None>>

\* The slot that add takes: the one freed last, or a new one at the end.
Slot == IF free_slots = << >> THEN Len(slots) + 1 ELSE free_slots[Len(free_slots)]

TakeSlot ==
    free_slots' = IF free_slots = << >> THEN << >>
                  ELSE SubSeq(free_slots, 1, Len(free_slots) - 1)

Put(s, f) == IF s > Len(slots) THEN Append(slots, f) ELSE [slots EXCEPT ![s] = f]

\* add, for an fd that has no slot yet.
Add(f) ==
    /\ fd_slot[f] = 0
    /\ TakeSlot /\ slots' = Put(Slot, f) /\ fd_slot' = [fd_slot EXCEPT ![f] = Slot]
    /\ UNCHANGED <<refused, called>>

\* add, when epoll_ctl fails: the slot is emptied and the index restored.
AddRefused(f) ==
    /\ fd_slot[f] = 0 /\ refused < MaxRefused /\ refused' = refused + 1
    /\ TakeSlot /\ slots' = Put(Slot, None)
    /\ UNCHANGED <<fd_slot, called>>

\* Mutant: the slot is freed but the fd keeps its index entry.
Remove_KeepIndex(f) ==
    /\ fd_slot[f] # 0 /\ slots[fd_slot[f]] # None
    /\ slots' = [slots EXCEPT ![fd_slot[f]] = None]
    /\ free_slots' = Append(free_slots, fd_slot[f])
    /\ UNCHANGED <<fd_slot, refused, called>>

\* del, for an fd that has a slot.
Remove(f) ==
    /\ fd_slot[f] # 0
    /\ slots' = [slots EXCEPT ![fd_slot[f]] = None]
    /\ fd_slot' = [fd_slot EXCEPT ![f] = 0]
    /\ free_slots' = Append(free_slots, fd_slot[f])
    /\ UNCHANGED <<refused, called>>

Next == \E f \in Fds : Add(f) \/ AddRefused(f) \/ Remove(f)

Spec == Init /\ [][Next]_vars

\* The poll() build: pfds lists the occupied slots in order; what poll() reports
\* for its i-th entry is handed to the handler of slot i.
pfds == SelectSeq(slots, LAMBDA f : f # None)

PollDispatch(i) ==
    /\ pfds[i] # WakeFd /\ called' = <<pfds[i], slots[i]>>
    /\ UNCHANGED <<slots, free_slots, fd_slot, refused>>

PollNext ==
    \/ \E f \in Fds : Add(f) \/ Remove(f)
    \/ \E i \in 1 .. Len(pfds) : PollDispatch(i)

PollSpec == Init /\ [][PollNext]_vars

-----------------------------------------------------------------------------
\* Slots, index and free list have their types, and slot 1 is the pipe's.
TypeOK ==
    /\ slots \in Seq(Fds \cup {WakeFd, None}) /\ slots # << >> /\ slots[1] = WakeFd
    /\ free_slots \in Seq(2 .. Len(slots)) /\ fd_slot \in [Fds -> 0 .. Len(slots)]
    /\ refused \in 0 .. MaxRefused

\* The slots and the index agree in both directions, and a free slot is empty
\* and is free once: no slot is given to two fds, and del deletes the slot of
\* the fd it was asked for.
SlotsAgree ==
    /\ \A f \in Fds : fd_slot[f] # 0 => fd_slot[f] <= Len(slots) /\ slots[fd_slot[f]] = f
    /\ \A s \in 2 .. Len(slots) : slots[s] # None => fd_slot[slots[s]] = s
    /\ \A i \in 1 .. Len(free_slots) : slots[free_slots[i]] = None
    /\ \A i, j \in 1 .. Len(free_slots) : free_slots[i] = free_slots[j] => i = j

\* "index = slot id; null = free" (the comment on slots): every empty slot is
\* free to be taken again.
NullIsFree ==
    \A s \in 1 .. Len(slots) :
        slots[s] = None => \E i \in 1 .. Len(free_slots) : free_slots[i] = s

\* The poll() fallback of the head comment calls the handler of the fd that is
\* ready.
RightHandler == called[1] = called[2]

=============================================================================
