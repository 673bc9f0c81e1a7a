---------------------------- MODULE TasksProofs ----------------------------
(***************************************************************************)
(* For every set of tasks and fds, and whatever tasks and host cancel:     *)
(* nothing in the loop leads to a destroyed or running frame.  And if no   *)
(* two tasks wait for the same fd, every suspended task is registered.     *)
(***************************************************************************)
EXTENDS Tasks, SequenceTheorems, TLAPS

\* What is on a stack, and that nothing is on it twice.
Elems(s) == {s[i] : i \in 1 .. Len(s)}
Once(s) == \A i, j \in 1 .. Len(s) : s[i] = s[j] => i = j

\* Resuming a task puts it on the stack.
LEMMA PushElems ==
    ASSUME NEW T, NEW s \in Seq(T), NEW t \in T
    PROVE  /\ <<t>> \o s \in Seq(T)
           /\ Elems(<<t>> \o s) = Elems(s) \cup {t}
           /\ Once(s) /\ t \notin Elems(s) => Once(<<t>> \o s)
  <1> DEFINE r == <<t>> \o s
  <1>1. r \in Seq(T) /\ Len(r) = Len(s) + 1 /\ Len(s) \in Nat
    OBVIOUS
  <1>2. r[1] = t /\ \A i \in 1 .. Len(s) : r[i + 1] = s[i]
    OBVIOUS
  <1> HIDE DEF r
  <1>3. \A i \in 1 .. Len(r) : i = 1 \/ (i - 1 \in 1 .. Len(s) /\ r[i] = s[i - 1])
    BY <1>1, <1>2
  <1>4. Elems(r) = Elems(s) \cup {t}
    <2>1. Elems(r) \subseteq Elems(s) \cup {t}
      BY <1>2, <1>3 DEF Elems
    <2>2. t \in Elems(r)
      BY <1>1, <1>2 DEF Elems
    <2>3. ASSUME NEW i \in 1 .. Len(s) PROVE s[i] \in Elems(r)
      <3>1. i + 1 \in 1 .. Len(r) /\ r[i + 1] = s[i]
        BY <1>1, <1>2
      <3> QED BY <3>1 DEF Elems
    <2>4. Elems(s) \subseteq Elems(r)
      BY <2>3 DEF Elems
    <2> QED BY <2>1, <2>2, <2>4
  <1>5. ASSUME Once(s), t \notin Elems(s) PROVE Once(r)
    <2>1. \A i \in 1 .. Len(s) : s[i] # t
      BY <1>5 DEF Elems
    <2>2. ASSUME NEW i \in 1 .. Len(r), NEW j \in 1 .. Len(r), r[i] = r[j] PROVE i = j
      BY <1>1, <1>2, <1>3, <1>5, <2>1, <2>2 DEF Once
    <2> QED BY <2>2 DEF Once
  <1> QED BY <1>1, <1>4, <1>5 DEF r

\* When the innermost task suspends or ends it leaves the stack.
LEMMA PopElems ==
    ASSUME NEW T, NEW s \in Seq(T), s # << >>, Once(s)
    PROVE  /\ Tail(s) \in Seq(T) /\ Head(s) \in T /\ Head(s) \in Elems(s)
           /\ Elems(Tail(s)) = Elems(s) \ {Head(s)}
           /\ Once(Tail(s))
  <1>1. /\ Tail(s) \in Seq(T) /\ Head(s) \in T /\ Head(s) = s[1]
        /\ Len(Tail(s)) = Len(s) - 1 /\ Len(s) \in Nat \ {0}
        /\ \A i \in 1 .. Len(Tail(s)) : Tail(s)[i] = s[i + 1]
    BY HeadTailProperties, EmptySeq
  <1>2. \A i \in 1 .. Len(s) : i = 1 \/ (i - 1 \in 1 .. Len(Tail(s)) /\ Tail(s)[i - 1] = s[i])
    BY <1>1
  <1>3. Head(s) \in Elems(s)
    BY <1>1 DEF Elems
  <1>4. ASSUME NEW i \in 1 .. Len(Tail(s))
        PROVE  Tail(s)[i] \in Elems(s) /\ Tail(s)[i] # Head(s)
    <2>1. i + 1 \in 1 .. Len(s) /\ i + 1 # 1 /\ 1 \in 1 .. Len(s)
      BY <1>1
    <2> QED BY <1>1, <2>1 DEF Elems, Once
  <1>5. Elems(Tail(s)) = Elems(s) \ {Head(s)}
    BY <1>1, <1>2, <1>4 DEF Elems
  <1>6. ASSUME NEW i \in 1 .. Len(Tail(s)), NEW j \in 1 .. Len(Tail(s)),
               Tail(s)[i] = Tail(s)[j]
        PROVE  i = j
    <2>1. i + 1 \in 1 .. Len(s) /\ j + 1 \in 1 .. Len(s)
      BY <1>1
    <2>2. i + 1 = j + 1
      BY <1>1, <1>6, <2>1 DEF Once
    <2> QED BY <2>2, <1>1
  <1> QED BY <1>1, <1>3, <1>5, <1>6 DEF Once

\* The empty stack, and the stack of one task.
LEMMA BaseElems ==
    ASSUME NEW T, NEW t \in T
    PROVE  /\ << >> \in Seq(T) /\ Elems(<< >>) = {} /\ Once(<< >>)
           /\ <<t>> \in Seq(T) /\ Elems(<<t>>) = {t} /\ Once(<<t>>)
  BY DEF Elems, Once

-----------------------------------------------------------------------------
\* The inductive invariant.  To NothingDangles and OnlyLiveTasksRun it adds that
\* only a suspended task waits, and for one thing; that an event of the batch is
\* live only while its fd is registered; and that a due timer is in the heap.
Stack ==
    /\ Once(stack) /\ \A t \in OnStack : t \in Tasks /\ st[t] = "live"
    /\ OnStack = Elems(stack)

Held ==
    /\ \A f \in Fds : fdreg[f] # None => waitFd[fdreg[f]] = f
    /\ \A t \in Tasks : waitFd[t] # None =>
           Suspended(t) /\ timer[t] # "armed" /\ waitFd[t] \in MayAwait[t]
    /\ \A t \in Tasks : timer[t] = "armed" => Suspended(t)

Agenda ==
    /\ \A f \in Fds : batch[f] = "live" => fdreg[f] # None
    /\ \A t \in due : timer[t] # "none"

IInv == TypeOK /\ Stack /\ Held /\ Agenda

\* The stack as the set of its tasks.
LEMMA OnStackIs == OnStack = Elems(stack) /\ OnStack' = Elems(stack')
  BY DEF OnStack, Elems

\* Nothing runs and nothing is registered at first.
LEMMA InitHolds == Init => IInv
  <1> SUFFICES ASSUME Init PROVE IInv
    OBVIOUS
  <1>1. stack = << >> /\ stack \in Seq(Tasks) /\ Elems(stack) = {} /\ Once(stack)
    BY DEF Init, Elems, Once
  <1>2. TypeOK
    BY Zenon, <1>1, NoneAssumption DEF Init, TypeOK
  <1>3. Stack
    BY <1>1, OnStackIs DEF Stack
  <1>4. Held /\ Agenda
    BY DEF Init, Held, Agenda
  <1> QED BY <1>2, <1>3, <1>4 DEF IInv

\* What the innermost task leaves behind when it leaves the stack.
LEMMA Leaves ==
    ASSUME IInv, NEW t \in Tasks, Runs(t), stack' = Tail(stack)
    PROVE  /\ stack' \in Seq(Tasks) /\ Once(stack')
           /\ OnStack' = OnStack \ {t} /\ t \in OnStack /\ OnStack' = Elems(stack')
           /\ st[t] = "live" /\ waitFd[t] = None /\ timer[t] # "armed"
  <1>1. stack \in Seq(Tasks) /\ stack # << >> /\ Once(stack) /\ Head(stack) = t
    BY DEF IInv, TypeOK, Stack, Runs
  <1>2. /\ stack' \in Seq(Tasks) /\ Once(stack') /\ t \in Elems(stack)
        /\ Elems(stack') = Elems(stack) \ {t}
    BY <1>1, PopElems
  <1>3. t \in OnStack
    BY <1>2, OnStackIs
  <1>4. st[t] = "live" /\ waitFd[t] = None /\ timer[t] # "armed"
    BY <1>3 DEF IInv, Stack, Held, Suspended
  <1> QED BY <1>2, <1>3, <1>4, OnStackIs

\* What resuming task t makes of an empty stack.
LEMMA Enters ==
    ASSUME NEW t \in Tasks, stack' = <<t>>
    PROVE  stack' \in Seq(Tasks) /\ Once(stack') /\ OnStack' = {t} /\ OnStack' = Elems(stack')
  BY BaseElems, OnStackIs

\* The stack that a step does not touch.
LEMMA SameStack ==
    ASSUME IInv, stack' = stack
    PROVE  stack' \in Seq(Tasks) /\ Once(stack') /\ OnStack' = OnStack /\ OnStack' = Elems(stack')
  BY OnStackIs DEF IInv, TypeOK, Stack

\* A spawned task was on no stack and in no wait.
LEMMA SpawnKeeps == ASSUME IInv, NEW t \in Tasks, Spawn(t) PROVE IInv'
  <1> USE DEF IInv
  <1>1. st[t] = "new" /\ t \notin OnStack /\ waitFd[t] = None /\ timer[t] # "armed"
    BY DEF Spawn, Stack, Held, Suspended
  <1>2. stack' \in Seq(Tasks) /\ Once(stack') /\ OnStack' = OnStack \cup {t}
    BY <1>1, PushElems, OnStackIs DEF Spawn, TypeOK, Stack
  <1>3. TypeOK'
    BY <1>2 DEF Spawn, TypeOK
  <1>4. Stack'
    BY <1>2, OnStackIs DEF Spawn, Stack, TypeOK
  <1>5. Held'
    BY <1>1, <1>2 DEF Spawn, Held, Suspended, TypeOK
  <1>6. Agenda'
    BY DEF Spawn, Agenda
  <1> QED BY <1>3, <1>4, <1>5, <1>6

\* The task that waits for a free fd leaves the stack with its registration.
LEMMA AwaitFdKeeps ==
    ASSUME IInv, NEW t \in Tasks, NEW f \in Fds, AwaitFd(t, f) PROVE IInv'
  <1> USE DEF IInv
  <1>1. /\ stack' \in Seq(Tasks) /\ Once(stack')
        /\ OnStack' = OnStack \ {t} /\ t \in OnStack /\ OnStack' = Elems(stack')
        /\ st[t] = "live" /\ waitFd[t] = None /\ timer[t] # "armed"
    BY Leaves DEF AwaitFd
  <1>2. TypeOK'
    BY <1>1 DEF AwaitFd, TypeOK
  <1>3. Stack'
    BY <1>1 DEF AwaitFd, Stack
  <1>4. Held'
    BY <1>1, NoneAssumption DEF AwaitFd, Held, Suspended, TypeOK
  <1>5. Agenda'
    BY NoneAssumption DEF AwaitFd, Agenda, TypeOK
  <1> QED BY <1>2, <1>3, <1>4, <1>5

\* Removing another task's registration leaves nothing dangling.
LEMMA AwaitFdTakenKeeps ==
    ASSUME IInv, NEW t \in Tasks, NEW f \in Fds, AwaitFdTaken(t, f) PROVE IInv'
  <1> USE DEF IInv
  <1>1. stack' \in Seq(Tasks) /\ Once(stack') /\ OnStack' = OnStack /\ OnStack' = Elems(stack')
    BY SameStack DEF AwaitFdTaken
  <1>2. TypeOK'
    BY <1>1 DEF AwaitFdTaken, Del, TypeOK
  <1>3. Stack'
    BY <1>1 DEF AwaitFdTaken, Stack
  <1>4. Held'
    BY <1>1 DEF AwaitFdTaken, Del, Held, Suspended, TypeOK
  <1>5. Agenda'
    BY DEF AwaitFdTaken, Del, Agenda, TypeOK
  <1> QED BY <1>2, <1>3, <1>4, <1>5

\* The task that waits for a timer leaves the stack with it armed.
LEMMA AwaitTimerKeeps == ASSUME IInv, NEW t \in Tasks, AwaitTimer(t) PROVE IInv'
  <1> USE DEF IInv
  <1>1. /\ stack' \in Seq(Tasks) /\ Once(stack')
        /\ OnStack' = OnStack \ {t} /\ t \in OnStack /\ OnStack' = Elems(stack')
        /\ st[t] = "live" /\ waitFd[t] = None /\ timer[t] # "armed"
    BY Leaves DEF AwaitTimer
  <1>2. TypeOK'
    BY <1>1 DEF AwaitTimer, TypeOK
  <1>3. Stack'
    BY <1>1 DEF AwaitTimer, Stack
  <1>4. Held'
    BY <1>1 DEF AwaitTimer, Held, Suspended, TypeOK
  <1>5. Agenda'
    BY DEF AwaitTimer, Agenda, TypeOK
  <1> QED BY <1>2, <1>3, <1>4, <1>5

\* The task that completes was in no wait.
LEMMA CompleteKeeps == ASSUME IInv, NEW t \in Tasks, Complete(t) PROVE IInv'
  <1> USE DEF IInv
  <1>1. /\ stack' \in Seq(Tasks) /\ Once(stack')
        /\ OnStack' = OnStack \ {t} /\ t \in OnStack /\ OnStack' = Elems(stack')
        /\ st[t] = "live" /\ waitFd[t] = None /\ timer[t] # "armed"
    BY Leaves DEF Complete
  <1>2. TypeOK'
    BY <1>1 DEF Complete, TypeOK
  <1>3. Stack'
    BY <1>1 DEF Complete, Stack, TypeOK
  <1>4. Held'
    BY <1>1 DEF Complete, Held, Suspended, TypeOK
  <1>5. Agenda'
    BY DEF Complete, Agenda, TypeOK
  <1> QED BY <1>2, <1>3, <1>4, <1>5

\* Destroying suspended tasks takes their waits out of the loop.
LEMMA DestroyKeeps ==
    ASSUME IInv, NEW T \in SUBSET Tasks, \A t \in T : Suspended(t), Destroy(T),
           UNCHANGED <<stack, phase, due, handled>>
    PROVE  IInv'
  <1> USE DEF IInv
  <1>1. stack' \in Seq(Tasks) /\ Once(stack') /\ OnStack' = OnStack /\ OnStack' = Elems(stack')
    BY SameStack
  <1>2. TypeOK'
    BY <1>1 DEF Destroy, Del, TypeOK
  <1>3. Stack'
    BY <1>1 DEF Destroy, Stack, Suspended, TypeOK
  <1>4. \A f \in Fds : fdreg'[f] # None =>
            fdreg'[f] = fdreg[f] /\ fdreg[f] \in Tasks /\ fdreg[f] \notin T
    <2> SUFFICES ASSUME NEW f \in Fds, fdreg'[f] # None
                 PROVE  fdreg'[f] = fdreg[f] /\ fdreg[f] \in Tasks /\ fdreg[f] \notin T
      OBVIOUS
    <2>1. f \notin {waitFd[t] : t \in T} \ {None} /\ fdreg'[f] = fdreg[f]
      BY DEF Destroy, Del
    <2>2. fdreg[f] \in Tasks /\ waitFd[fdreg[f]] = f /\ f # None
      BY <2>1, NoneAssumption DEF Held, TypeOK
    <2> QED BY <2>1, <2>2
  <1>5. Held'
    <2>1. \A f \in Fds : fdreg'[f] # None => waitFd'[fdreg'[f]] = f
      BY <1>4 DEF Destroy, Held
    <2>2. \A t \in Tasks : waitFd'[t] # None => t \notin T /\ waitFd'[t] = waitFd[t]
      BY DEF Destroy
    <2>3. \A t \in Tasks : timer'[t] = "armed" => t \notin T /\ timer[t] = "armed"
      BY DEF Destroy
    <2>4. \A t \in Tasks : t \notin T => st'[t] = st[t] /\ timer'[t] = timer[t]
      BY DEF Destroy
    <2> QED BY <1>1, <2>1, <2>2, <2>3, <2>4 DEF Held, Suspended
  <1>6. Agenda'
    BY DEF Destroy, Del, Agenda, TypeOK
  <1> QED BY <1>2, <1>3, <1>5, <1>6

\* cancel() of one suspended task.
LEMMA CancelKeeps == ASSUME IInv, NEW t \in Tasks, Cancel(t) PROVE IInv'
  <1>1. {t} \in SUBSET Tasks /\ \A u \in {t} : Suspended(u)
    BY DEF Cancel
  <1> QED BY <1>1, DestroyKeeps DEF Cancel

\* The scheduler is destroyed from outside of every task.
LEMMA ShutdownKeeps == ASSUME IInv, Shutdown PROVE IInv'
  <1> DEFINE T == {t \in Tasks : st[t] = "live"}
  <1>1. OnStack = {}
    BY OnStackIs DEF Shutdown, HostRuns, Elems
  <1>2. T \in SUBSET Tasks /\ \A u \in T : Suspended(u)
    BY <1>1 DEF Suspended
  <1>3. Destroy(T) /\ UNCHANGED <<stack, phase, due, handled>>
    BY DEF Shutdown
  <1> HIDE DEF T
  <1> QED BY <1>2, <1>3, DestroyKeeps

\* A pass begins.
LEMMA RunOnceKeeps == ASSUME IInv, NEW D \in SUBSET Tasks, RunOnce(D) PROVE IInv'
  <1> USE DEF IInv
  <1>1. stack' \in Seq(Tasks) /\ Once(stack') /\ OnStack' = OnStack /\ OnStack' = Elems(stack')
    BY SameStack DEF RunOnce
  <1>2. TypeOK'
    BY Zenon, <1>1 DEF RunOnce, HostRuns, TypeOK
  <1>3. Stack' /\ Held' /\ Agenda'
    BY <1>1 DEF RunOnce, Stack, Held, Suspended, Agenda
  <1> QED BY <1>2, <1>3

\* A due timer is armed or cancelled; if armed, its task is suspended.
LEMMA FireTimerKeeps == ASSUME IInv, NEW t \in Tasks, FireTimer(t) PROVE IInv'
  <1> USE DEF IInv
  <1>1. timer[t] # "none"
    BY DEF FireTimer, PopTimer, Agenda
  <1>2. Agenda'
    BY DEF FireTimer, PopTimer, Agenda, TypeOK
  <1>3. CASE timer[t] = "cancelled"
    <2>1. stack' \in Seq(Tasks) /\ Once(stack') /\ OnStack' = OnStack /\ OnStack' = Elems(stack')
      BY <1>3, SameStack DEF FireTimer
    <2>2. TypeOK'
      BY <1>3, <2>1 DEF FireTimer, PopTimer, TypeOK
    <2>3. Stack' /\ Held'
      BY <1>3, <2>1 DEF FireTimer, PopTimer, TypeOK, Stack, Held, Suspended
    <2> QED BY <1>2, <2>2, <2>3
  <1>4. CASE timer[t] = "armed"
    <2>1. Suspended(t) /\ waitFd[t] = None
      BY <1>4 DEF Held
    <2>2. stack' = <<t>>
      BY <1>4 DEF FireTimer
    <2>3. stack' \in Seq(Tasks) /\ Once(stack') /\ OnStack' = {t} /\ OnStack' = Elems(stack')
      BY <2>2, Enters
    <2>4. TypeOK'
      BY <1>4, <2>3 DEF FireTimer, PopTimer, TypeOK
    <2>5. OnStack = {}
      BY OnStackIs DEF FireTimer, PopTimer, Elems
    <2>6. Stack' /\ Held'
      BY <1>4, <2>1, <2>3, <2>5 DEF FireTimer, PopTimer, TypeOK, Stack, Held, Suspended
    <2> QED BY <1>2, <2>4, <2>6
  <1> QED BY <1>1, <1>3, <1>4 DEF TypeOK

\* Looking for events, or going back to the host.
LEMMA PollKeeps == ASSUME IInv, NEW F \in SUBSET Fds, Poll(F) PROVE IInv'
  <1> USE DEF IInv
  <1>1. stack' \in Seq(Tasks) /\ Once(stack') /\ OnStack' = OnStack /\ OnStack' = Elems(stack')
    BY SameStack DEF Poll
  <1>2. TypeOK'
    BY <1>1 DEF Poll, TypeOK
  <1>3. Stack' /\ Held'
    BY <1>1 DEF Poll, Stack, Held, Suspended
  <1>4. Agenda'
    BY DEF Poll, Agenda, TypeOK
  <1> QED BY <1>2, <1>3, <1>4

\* A live event belongs to the suspended task that is registered for its fd.
LEMMA DispatchKeeps == ASSUME IInv, NEW f \in Fds, Dispatch(f) PROVE IInv'
  <1> USE DEF IInv
  <1>1. PICK t \in Tasks : t = fdreg[f]
    BY DEF Dispatch, Agenda, TypeOK
  <1>2. fdreg[f] # None /\ f # None
    BY <1>1, NoneAssumption
  <1>3. waitFd[t] = f /\ Suspended(t) /\ timer[t] # "armed"
    BY <1>1, <1>2 DEF Held
  <1>4. stack' = <<t>> /\ waitFd' = [waitFd EXCEPT ![t] = None]
    BY <1>1 DEF Dispatch
  <1>5. stack' \in Seq(Tasks) /\ Once(stack') /\ OnStack' = {t} /\ OnStack' = Elems(stack')
    BY <1>4, Enters
  <1>6. OnStack = {}
    BY OnStackIs DEF Dispatch, Elems
  <1>7. TypeOK'
    BY <1>4, <1>5 DEF Dispatch, TypeOK
  <1>8. Stack'
    BY <1>3, <1>5 DEF Dispatch, Stack, Suspended
  <1>9. Held'
    <2>1. \A g \in Fds : fdreg'[g] # None => g # f /\ fdreg'[g] = fdreg[g]
      BY DEF Dispatch, TypeOK
    <2>2. \A g \in Fds : fdreg'[g] # None => waitFd'[fdreg'[g]] = g
      BY <1>3, <1>4, <2>1 DEF Held, TypeOK
    <2>3. \A u \in Tasks : waitFd'[u] # None => u # t /\ waitFd'[u] = waitFd[u]
      BY <1>4 DEF TypeOK
    <2> QED BY <1>3, <1>5, <1>6, <2>2, <2>3 DEF Dispatch, Held, Suspended
  <1>10. Agenda'
    BY DEF Dispatch, Agenda, TypeOK
  <1> QED BY <1>7, <1>8, <1>9, <1>10

\* The steps that end a batch, and those that change nothing.
LEMMA RestKeeps ==
    ASSUME IInv, (\E f \in Fds : ReadStale(f)) \/ BatchOver \/ UNCHANGED vars
    PROVE  IInv'
  <1> USE DEF IInv
  <1>1. UNCHANGED <<st, stack, waitFd, fdreg, timer, due, handled>>
    BY DEF ReadStale, BatchOver, vars
  <1>2. stack' \in Seq(Tasks) /\ Once(stack') /\ OnStack' = OnStack /\ OnStack' = Elems(stack')
    BY <1>1, SameStack
  <1>3. TypeOK'
    BY <1>2 DEF ReadStale, BatchOver, vars, TypeOK
  <1>4. Stack' /\ Held'
    BY <1>1, <1>2 DEF Stack, Held, Suspended
  <1>5. Agenda'
    BY <1>1 DEF ReadStale, BatchOver, vars, Agenda
  <1> QED BY <1>3, <1>4, <1>5

\* Every step keeps the inductive invariant.
LEMMA StepKeeps == ASSUME IInv, [Next]_vars PROVE IInv'
  BY SpawnKeeps, AwaitFdKeeps, AwaitFdTakenKeeps, AwaitTimerKeeps, CompleteKeeps,
     CancelKeeps, ShutdownKeeps, RunOnceKeeps, FireTimerKeeps, PollKeeps, DispatchKeeps,
     RestKeeps DEF Next, LoopStep, TaskStep

\* The inductive invariant is an invariant.
LEMMA IInvHolds == Spec => []IInv
  BY InitHolds, StepKeeps, PTL DEF Spec

\* The states of scheduler and loop have their shape, and events are pending only
\* while a batch is dispatched.
THEOREM TypeCorrect == Spec => []TypeOK
  <1>1. IInv => TypeOK
    BY DEF IInv
  <1> QED BY <1>1, IInvHolds, PTL

\* Nothing in the loop leads to a destroyed or running frame, whoever cancels
\* whom and even if tasks wait for the same fd.
THEOREM LoopIsSafe == Spec => []NothingDangles
  <1>1. IInv => NothingDangles
    BY NoneAssumption DEF IInv, Held, NothingDangles, TypeOK
  <1> QED BY <1>1, IInvHolds, PTL

\* No destroyed frame is resumed and no frame is resumed twice at a time.
THEOREM FramesAreAlive == Spec => []OnlyLiveTasksRun
  <1>1. IInv => OnlyLiveTasksRun
    BY DEF IInv, Stack, Once, OnlyLiveTasksRun
  <1> QED BY <1>1, IInvHolds, PTL

-----------------------------------------------------------------------------
\* Every step keeps every suspended task registered that has its fd for itself.
LEMMA WaitersStep ==
    ASSUME IInv, WaitersAreRegistered, [Next]_vars
    PROVE  WaitersAreRegistered'
  <1> USE DEF WaitersAreRegistered, Alone
  <1>0. IInv'
    BY StepKeeps
  <1>1. ASSUME NEW t \in Tasks, Spawn(t) PROVE WaitersAreRegistered'
    <2>1. OnStack' = OnStack \cup {t}
      BY <1>1, PushElems, OnStackIs DEF Spawn, IInv, TypeOK, Stack
    <2>2. \A u \in Tasks : Suspended(u)' => Suspended(u)
      BY <1>1, <2>1 DEF Spawn, Suspended, IInv, TypeOK
    <2> QED BY <1>1, <2>2 DEF Spawn
  <1>2. ASSUME NEW t \in Tasks, NEW f \in Fds, AwaitFd(t, f) PROVE WaitersAreRegistered'
    <2>1. OnStack' = OnStack \ {t}
      BY <1>2, Leaves DEF AwaitFd
    <2>2. \A u \in Tasks : Suspended(u)' => Suspended(u) \/ u = t
      BY <1>2, <2>1 DEF AwaitFd, Suspended
    <2> QED BY <1>2, <2>2, NoneAssumption DEF AwaitFd, IInv, TypeOK
  <1>3. ASSUME NEW t \in Tasks, NEW f \in Fds, AwaitFdTaken(t, f) PROVE WaitersAreRegistered'
    <2>1. OnStack' = OnStack /\ t \in OnStack
      BY <1>3, PopElems, OnStackIs DEF AwaitFdTaken, Runs, IInv, TypeOK, Stack
    <2> SUFFICES ASSUME NEW u \in Tasks, Suspended(u)', Alone(u)'
                 PROVE  \/ waitFd'[u] # None /\ fdreg'[waitFd'[u]] = u
                        \/ waitFd'[u] = None /\ timer'[u] = "armed"
      OBVIOUS
    <2>2. Suspended(u) /\ u # t
      BY <1>3, <2>1 DEF AwaitFdTaken, Suspended
    <2>3. waitFd' = waitFd /\ timer' = timer /\ waitFd[u] # f
      BY <1>3, <2>2 DEF AwaitFdTaken
    <2>4. waitFd[u] # None => fdreg'[waitFd[u]] = fdreg[waitFd[u]]
      BY <1>3, <2>3 DEF AwaitFdTaken, Del, IInv, TypeOK
    <2> QED BY <2>2, <2>3, <2>4
  <1>4. ASSUME NEW t \in Tasks, AwaitTimer(t) PROVE WaitersAreRegistered'
    <2>1. OnStack' = OnStack \ {t} /\ waitFd[t] = None
      BY <1>4, Leaves DEF AwaitTimer
    <2>2. \A u \in Tasks : Suspended(u)' => Suspended(u) \/ u = t
      BY <1>4, <2>1 DEF AwaitTimer, Suspended
    <2> QED BY <1>4, <2>1, <2>2 DEF AwaitTimer, IInv, TypeOK
  <1>5. ASSUME NEW t \in Tasks, Complete(t) PROVE WaitersAreRegistered'
    <2>1. OnStack' = OnStack \ {t}
      BY <1>5, Leaves DEF Complete
    <2>2. \A u \in Tasks : Suspended(u)' => Suspended(u)
      BY <1>5, <2>1 DEF Complete, Suspended, IInv, TypeOK
    <2> QED BY <1>5, <2>2 DEF Complete
  <1>6. ASSUME NEW T \in SUBSET Tasks, Destroy(T), stack' = stack PROVE WaitersAreRegistered'
    <2>1. OnStack' = OnStack
      BY <1>6, OnStackIs
    <2> SUFFICES ASSUME NEW u \in Tasks, Suspended(u)', Alone(u)'
                 PROVE  \/ waitFd'[u] # None /\ fdreg'[waitFd'[u]] = u
                        \/ waitFd'[u] = None /\ timer'[u] = "armed"
      OBVIOUS
    <2>2. u \notin T /\ Suspended(u)
      BY <1>6, <2>1 DEF Destroy, Suspended
    <2>3. waitFd'[u] = waitFd[u] /\ timer'[u] = timer[u]
      BY <1>6, <2>2 DEF Destroy
    <2>4. CASE waitFd[u] # None /\ fdreg[waitFd[u]] = u
      <3>1. waitFd[u] \in Fds /\ waitFd[u] \in MayAwait[u]
        BY <2>4 DEF IInv, TypeOK, Held
      <3>2. ASSUME NEW t \in T PROVE waitFd[t] # waitFd[u]
        <4>1. t \in Tasks /\ t # u
          BY <2>2
        <4>2. waitFd[t] # None => waitFd[t] \in MayAwait[t]
          BY <4>1 DEF IInv, Held
        <4> QED BY <2>3, <2>4, <4>1, <4>2
      <3>3. fdreg'[waitFd[u]] = fdreg[waitFd[u]]
        BY <1>6, <3>1, <3>2 DEF Destroy, Del
      <3> QED BY <2>3, <2>4, <3>3
    <2> QED BY <2>2, <2>3, <2>4
  <1>7. ASSUME NEW t \in Tasks, FireTimer(t) PROVE WaitersAreRegistered'
    <2>1. timer[t] # "none"
      BY <1>7 DEF FireTimer, PopTimer, Agenda, IInv
    <2>2. CASE timer[t] = "cancelled"
      <3>1. OnStack' = OnStack
        BY <1>7, <2>2, OnStackIs DEF FireTimer
      <3>2. \A u \in Tasks : Suspended(u)' => Suspended(u)
        BY <1>7, <3>1 DEF FireTimer, PopTimer, Suspended
      <3> QED BY <1>7, <2>2, <3>2 DEF FireTimer, PopTimer, IInv, TypeOK
    <2>3. CASE timer[t] = "armed"
      <3>1. OnStack' = {t} /\ OnStack = {}
        BY <1>7, <2>3, Enters, OnStackIs DEF FireTimer, PopTimer, Elems
      <3>2. \A u \in Tasks : Suspended(u)' => Suspended(u) /\ u # t
        BY <1>7, <3>1 DEF FireTimer, PopTimer, Suspended
      <3> QED BY <1>7, <3>2 DEF FireTimer, PopTimer, IInv, TypeOK
    <2> QED BY <2>1, <2>2, <2>3 DEF IInv, TypeOK
  <1>8. ASSUME NEW f \in Fds, Dispatch(f) PROVE WaitersAreRegistered'
    <2>1. PICK t \in Tasks : t = fdreg[f]
      BY <1>8 DEF Dispatch, Agenda, IInv, TypeOK
    <2>2. stack' = <<t>> /\ waitFd' = [waitFd EXCEPT ![t] = None]
          /\ fdreg' = [fdreg EXCEPT ![f] = None] /\ UNCHANGED <<st, timer>>
      BY <1>8, <2>1 DEF Dispatch
    <2>3. OnStack' = {t} /\ OnStack = {}
      BY <1>8, <2>2, Enters, OnStackIs DEF Dispatch, Elems
    <2>4. \A u \in Tasks : Suspended(u)' => Suspended(u) /\ u # t
      BY <2>2, <2>3 DEF Suspended
    <2> QED BY <2>1, <2>2, <2>4 DEF IInv, TypeOK
  <1>9. ASSUME UNCHANGED <<st, stack, waitFd, fdreg, timer>> PROVE WaitersAreRegistered'
    BY <1>9, OnStackIs DEF Suspended
  <1>10. ASSUME NEW t \in Tasks, Cancel(t) PROVE WaitersAreRegistered'
    <2>1. {t} \in SUBSET Tasks
      OBVIOUS
    <2> QED BY <1>10, <1>6, <2>1 DEF Cancel
  <1>11. ASSUME Shutdown PROVE WaitersAreRegistered'
    <2>1. {t \in Tasks : st[t] = "live"} \in SUBSET Tasks
      OBVIOUS
    <2> QED BY <1>11, <1>6, <2>1 DEF Shutdown
  <1>12. ASSUME \/ \E D \in SUBSET Tasks : RunOnce(D)
                \/ \E F \in SUBSET Fds : Poll(F)
                \/ \E f \in Fds : ReadStale(f)
                \/ BatchOver \/ UNCHANGED vars
         PROVE  UNCHANGED <<st, stack, waitFd, fdreg, timer>>
    BY <1>12 DEF RunOnce, Poll, ReadStale, BatchOver, vars
  <1> QED
    BY <1>1, <1>2, <1>3, <1>4, <1>5, <1>7, <1>8, <1>9, <1>10, <1>11, <1>12
       DEF Next, LoopStep, TaskStep

\* A suspended task can always be resumed: its timer is armed, or its fd, if no
\* other task waits for that one, is registered for it.
THEOREM WaitersAreHeld == Spec => []WaitersAreRegistered
  <1>1. Init => WaitersAreRegistered
    BY DEF Init, WaitersAreRegistered, Suspended
  <1>2. IInv /\ WaitersAreRegistered /\ [Next]_vars => WaitersAreRegistered'
    BY WaitersStep
  <1> QED BY <1>1, <1>2, IInvHolds, PTL DEF Spec

=============================================================================
