------------------------------ MODULE Channel ------------------------------
(***************************************************************************)
(* core::Channel (src/core/channel.cpp), the bounded queue between host or *)
(* worker threads and the loop thread, with the wakeup pipe of EventLoop   *)
(* (src/core/event_loop.cpp) that its hook writes to.                      *)
(*                                                                         *)
(* try_push stores the message under the mutex and calls the hook after    *)
(* releasing it, so a push is two steps.  The consumer is the loop thread: *)
(* run_once blocks until the pipe has a byte, empties the pipe and         *)
(* returns, and the consumer then pops until the channel is empty.  The    *)
(* hook is registered before the producers start.                          *)
(***************************************************************************)
EXTENDS Integers, Sequences

CONSTANTS
    Producers,
    Msgs,
    Cap,        \* capacity of the ring
    MaxPush     \* bound: calls of try_push per producer

ASSUME CapAssumption == Cap \in Nat \ {0}
ASSUME MaxPushAssumption == MaxPush \in Nat

VARIABLES
    ring, head, tail, count, closed,
    ppc,     \* per producer: "idle", or "wake" between the push and the hook
    pushes,  \* per producer: calls of try_push so far
    pipe,    \* the wakeup pipe holds a byte
    cpc      \* the consumer: "blocked" in run_once, "pop"-ping, or "gone"

queue == <<ring, head, tail, count, closed>>
vars == <<queue, ppc, pushes, pipe, cpc>>

\* The ring starts with Message{}, a value like any other, in every place.
Init ==
    /\ \E m \in Msgs : ring = [i \in 0 .. Cap - 1 |-> m]
    /\ head = 0 /\ tail = 0 /\ count = 0 /\ closed = FALSE
    /\ ppc = [p \in Producers |-> "idle"] /\ pushes = [p \in Producers |-> 0]
    /\ pipe = FALSE /\ cpc = "blocked"

full == count = Cap

advance(i) == (i + 1) % Cap

\* The part of try_push under the mutex.
Push(p, m) ==
    /\ ppc[p] = "idle" /\ pushes[p] < MaxPush
    /\ pushes' = [pushes EXCEPT ![p] = @ + 1]
    /\ \/ /\ closed \/ full
          /\ UNCHANGED <<queue, ppc>>
       \/ /\ ~closed /\ ~full
          /\ ring' = [ring EXCEPT ![tail] = m]
          /\ tail' = advance(tail) /\ count' = count + 1
          /\ ppc' = [ppc EXCEPT ![p] = "wake"]
          /\ UNCHANGED <<head, closed>>
    /\ UNCHANGED <<pipe, cpc>>

\* Mutant: the hook is called only for the first message in an empty queue, as
\* seen after the mutex is released.
Wake_First(p) ==
    /\ ppc[p] = "wake" /\ ppc' = [ppc EXCEPT ![p] = "idle"]
    /\ pipe' = (pipe \/ count = 1)
    /\ UNCHANGED <<queue, pushes, cpc>>

\* The hook: EventLoop::wakeup writes a byte; a full pipe is as good.
Wake(p) ==
    /\ ppc[p] = "wake" /\ ppc' = [ppc EXCEPT ![p] = "idle"]
    /\ pipe' = TRUE
    /\ UNCHANGED <<queue, pushes, cpc>>

\* run_once sees the byte, drain_wakeup empties the pipe, run_once returns.
RunOnce ==
    /\ cpc = "blocked" /\ pipe
    /\ pipe' = FALSE /\ cpc' = "pop"
    /\ UNCHANGED <<queue, ppc, pushes>>

\* try_pop takes a message ...
Pop ==
    /\ cpc = "pop" /\ count > 0
    /\ head' = advance(head) /\ count' = count - 1
    /\ UNCHANGED <<ring, tail, closed, ppc, pushes, pipe, cpc>>

\* Mutant: the consumer takes kEmpty for kClosed.
PopNone_Gone ==
    /\ cpc = "pop" /\ count = 0 /\ cpc' = "gone"
    /\ UNCHANGED <<queue, ppc, pushes, pipe>>

\* ... or returns kEmpty or kClosed, and the consumer goes back to run_once or
\* is finished.
PopNone ==
    /\ cpc = "pop" /\ count = 0
    /\ cpc' = IF closed THEN "gone" ELSE "blocked"
    /\ UNCHANGED <<queue, ppc, pushes, pipe>>

\* Mutant: the indices are reset although messages are still queued.
close_Reset == closed' = TRUE /\ head' = 0 /\ tail' = 0

\* close(): the indices go back to the start if the ring is empty.
close ==
    /\ closed' = TRUE
    /\ IF count = 0 THEN head' = 0 /\ tail' = 0 ELSE UNCHANGED <<head, tail>>

Close == close /\ UNCHANGED <<ring, count, ppc, pushes, pipe, cpc>>

\* drop(), by the consumer.
Drop ==
    /\ cpc = "pop"
    /\ count' = 0 /\ head' = 0 /\ tail' = 0 /\ closed' = TRUE
    /\ UNCHANGED <<ring, ppc, pushes, pipe, cpc>>

Produce == \E p \in Producers : Wake(p) \/ \E m \in Msgs : Push(p, m)

Consume == RunOnce \/ Pop \/ PopNone

Next == Produce \/ Consume \/ Close \/ Drop

Spec == Init /\ [][Next]_vars

\* Every thread that is inside a call goes on.
Fairness == WF_vars(Consume) /\ \A p \in Producers : WF_vars(Wake(p))

FairSpec == Spec /\ Fairness

-----------------------------------------------------------------------------
\* Indices stay inside the ring and the count inside the capacity.
TypeOK ==
    /\ ring \in [0 .. Cap - 1 -> Msgs]
    /\ head \in 0 .. Cap - 1 /\ tail \in 0 .. Cap - 1 /\ count \in 0 .. Cap
    /\ closed \in BOOLEAN /\ pipe \in BOOLEAN
    /\ ppc \in [Producers -> {"idle", "wake"}]
    /\ pushes \in [Producers -> 0 .. MaxPush]
    /\ cpc \in {"blocked", "pop", "gone"}

\* What the ring holds, oldest message first.
Contents == [i \in 1 .. count |-> ring[(head + (i - 1)) % Cap]]

Fifo == INSTANCE BoundedFifo WITH q <- Contents, open <- ~closed

\* The ring with its wrapping indices, its count and its resets on close and
\* drop behaves as a bounded first-in first-out queue, however try_push,
\* try_pop, close and drop interleave.
ImplementsFifo == Fifo!Spec

\* No wakeup is lost: the loop thread is never blocked over a queued message
\* unless a byte is in the pipe or a producer is about to write one, although
\* the hook runs after the mutex is released.
NoLostWakeup ==
    cpc = "blocked" /\ count > 0 => pipe \/ \E p \in Producers : ppc[p] = "wake"

\* Every accepted message is popped or dropped.
Delivered == count > 0 ~> count = 0

=============================================================================
