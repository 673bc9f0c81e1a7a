------------------------------- MODULE Tasks -------------------------------
(***************************************************************************)
(* core::TaskScheduler and its awaiters (src/core/task.h, task.cpp) on     *)
(* core::EventLoop (src/core/event_loop.cpp, the epoll build).             *)
(*                                                                         *)
(* Everything runs on the loop thread.  A task runs until it suspends on   *)
(* an fd or on a timer, or completes; spawning from inside a task nests    *)
(* the new task's run in its own, hence the stack.  run_once fires the     *)
(* timers that are due and, if there were none, dispatches one batch of    *)
(* epoll events, one by one: between two of them the tasks that resume may *)
(* register, remove and cancel.                                            *)
(*                                                                         *)
(* An epoll event points to the FdSlot of the registration.  The model     *)
(* gives a registration no address: an event of the batch is "live" while  *)
(* the slot it points to exists and "stale" from its deletion on.          *)
(*                                                                         *)
(* A wait that is over at once (a zero delay, an fd that epoll refuses)    *)
(* changes nothing and is part of the run.  When timers are due and when   *)
(* fds are ready is left open, and so is the order of both.                *)
(***************************************************************************)
EXTENDS Integers, Sequences, FiniteSets

CONSTANTS
    Tasks, Fds,
    MayAwait,     \* MayAwait[t]: the fds task t may wait for
    TasksCancel,  \* a task may cancel another one; the host always may
    None

ASSUME MayAwaitAssumption == MayAwait \in [Tasks -> SUBSET Fds]
ASSUME TasksCancelAssumption == TasksCancel \in BOOLEAN
ASSUME NoneAssumption == None \notin Tasks /\ None \notin Fds

VARIABLES
    st,       \* "new", "live" (in reg_), or "dead" (frame destroyed)
    stack,    \* the live tasks whose resume is in progress, innermost first
    waitFd,   \* the fd whose await_readable the suspended task is in, or None
    fdreg,    \* fd_slot: the task whose awaiter is registered, or None
    timer,    \* the task's timer in the heap: "none", "armed", "cancelled"
    phase,    \* "host", inside run_once "timers" or "batch", or "undefined"
    due,      \* the tasks whose timer was due when fire_due_timers began
    handled,  \* a timer has fired in this run_once
    batch     \* per fd: its event in the batch, "none", "live" or "stale"

vars == <<st, stack, waitFd, fdreg, timer, phase, due, handled, batch>>

Init ==
    /\ st = [t \in Tasks |-> "new"] /\ stack = << >>
    /\ waitFd = [t \in Tasks |-> None] /\ fdreg = [f \in Fds |-> None]
    /\ timer = [t \in Tasks |-> "none"]
    /\ phase = "host" /\ due = {} /\ handled = FALSE /\ batch = [f \in Fds |-> "none"]

OnStack == {stack[i] : i \in 1 .. Len(stack)}

Suspended(t) == st[t] = "live" /\ t \notin OnStack

\* Control is with the innermost task or, without one, with the host.
Runs(t) == stack # << >> /\ Head(stack) = t

HostRuns == stack = << >> /\ phase = "host"

\* EventLoop::del of every fd of F: the slots are deleted, whoever owns them.
Del(F) ==
    /\ fdreg' = [f \in Fds |-> IF f \in F THEN None ELSE fdreg[f]]
    /\ batch' = [f \in Fds |-> IF f \in F /\ fdreg[f] # None /\ batch[f] = "live"
                               THEN "stale" ELSE batch[f]]

\* spawn, by the host or by a task: registers the task and runs it.
Spawn(t) ==
    /\ HostRuns \/ stack # << >>
    /\ st[t] = "new"
    /\ st' = [st EXCEPT ![t] = "live"] /\ stack' = <<t>> \o stack
    /\ UNCHANGED <<waitFd, fdreg, timer, phase, due, handled, batch>>

\* co_await await_readable(f) registers the awaiter and suspends.
AwaitFd(t, f) ==
    /\ Runs(t) /\ f \in MayAwait[t] /\ fdreg[f] = None
    /\ fdreg' = [fdreg EXCEPT ![f] = t] /\ waitFd' = [waitFd EXCEPT ![t] = f]
    /\ stack' = Tail(stack)
    /\ UNCHANGED <<st, timer, phase, due, handled, batch>>

\* The fd is registered already: add fails, the task goes on at once, and the
\* awaiter's destructor, whose loop_ is set and whose cleaned_ is not, removes
\* the registration that it did not make.
AwaitFdTaken(t, f) ==
    /\ Runs(t) /\ f \in MayAwait[t] /\ fdreg[f] # None
    /\ Del({f})
    /\ UNCHANGED <<st, stack, waitFd, timer, phase, due, handled>>

\* co_await await_timer(ms).
AwaitTimer(t) ==
    /\ Runs(t) /\ timer' = [timer EXCEPT ![t] = "armed"]
    /\ stack' = Tail(stack)
    /\ UNCHANGED <<st, waitFd, fdreg, phase, due, handled, batch>>

\* The coroutine returns; resume_one takes it out of reg_ and destroys it.
Complete(t) ==
    /\ Runs(t) /\ st' = [st EXCEPT ![t] = "dead"] /\ stack' = Tail(stack)
    /\ UNCHANGED <<waitFd, fdreg, timer, phase, due, handled, batch>>

\* Mutant: the frame is freed without running the awaiters' destructors.
Destroy_NoUnwind(T) ==
    /\ st' = [t \in Tasks |-> IF t \in T THEN "dead" ELSE st[t]]
    /\ UNCHANGED <<waitFd, timer, fdreg, batch>>

\* h.destroy() of the suspended tasks in T: the awaiters are destroyed, which
\* removes the fd from the loop or marks the timer as cancelled.
Destroy(T) ==
    /\ st' = [t \in Tasks |-> IF t \in T THEN "dead" ELSE st[t]]
    /\ waitFd' = [t \in Tasks |-> IF t \in T THEN None ELSE waitFd[t]]
    /\ timer' = [t \in Tasks |-> IF t \in T /\ timer[t] = "armed"
                                 THEN "cancelled" ELSE timer[t]]
    /\ Del({waitFd[t] : t \in T} \ {None})

\* cancel(id), of a task that is not being resumed.
Cancel(t) ==
    /\ HostRuns \/ (TasksCancel /\ stack # << >>)
    /\ Suspended(t)
    /\ Destroy({t})
    /\ UNCHANGED <<stack, phase, due, handled>>

\* ~TaskScheduler.
Shutdown ==
    /\ HostRuns
    /\ Destroy({t \in Tasks : st[t] = "live"})
    /\ UNCHANGED <<stack, phase, due, handled>>

\* run_once begins: fire_due_timers reads the clock once, and the timers of D
\* are due.  What is armed during the pass is due later.
RunOnce(D) ==
    /\ HostRuns /\ D \subseteq {t \in Tasks : timer[t] # "none"}
    /\ phase' = "timers" /\ due' = D /\ handled' = FALSE
    /\ UNCHANGED <<st, stack, waitFd, fdreg, timer, batch>>

\* The next due timer leaves the heap.
PopTimer(t) ==
    /\ phase = "timers" /\ stack = << >> /\ t \in due
    /\ timer' = [timer EXCEPT ![t] = "none"] /\ due' = due \ {t}
    /\ UNCHANGED <<st, waitFd, fdreg, phase, batch>>

\* fire_due_timers: unless the timer is cancelled, on_timer resumes the task.
FireTimer(t) ==
    /\ PopTimer(t)
    /\ IF timer[t] = "cancelled" THEN UNCHANGED <<stack, handled>>
                                 ELSE stack' = <<t>> /\ handled' = TRUE

\* Mutant: the fds are not polled while a timer is armed.
Poll_NoTimers(F) ==
    /\ phase = "timers" /\ stack = << >> /\ due = {}
    /\ F \subseteq {f \in Fds : fdreg[f] # None}
    /\ \/ F = {} /\ phase' = "host" /\ UNCHANGED batch
       \/ /\ F # {} /\ ~handled /\ phase' = "batch" /\ \A t \in Tasks : timer[t] = "none"
          /\ batch' = [f \in Fds |-> IF f \in F THEN "live" ELSE "none"]
    /\ UNCHANGED <<st, stack, waitFd, fdreg, timer, due, handled>>

\* No more timer is due.  run_once returns if one has fired or its time is up;
\* else epoll_wait returns the events of the fds in F.
Poll(F) ==
    /\ phase = "timers" /\ stack = << >> /\ due = {}
    /\ F \subseteq {f \in Fds : fdreg[f] # None}
    /\ \/ F = {} /\ phase' = "host" /\ UNCHANGED batch
       \/ /\ F # {} /\ ~handled /\ phase' = "batch"
          /\ batch' = [f \in Fds |-> IF f \in F THEN "live" ELSE "none"]
    /\ UNCHANGED <<st, stack, waitFd, fdreg, timer, due, handled>>

\* The next event of the batch: on_event removes the fd from the loop and
\* resumes the task.
Dispatch(f) ==
    /\ phase = "batch" /\ stack = << >> /\ batch[f] = "live"
    /\ batch' = [batch EXCEPT ![f] = "none"] /\ fdreg' = [fdreg EXCEPT ![f] = None]
    /\ stack' = <<fdreg[f]>> /\ waitFd' = [waitFd EXCEPT ![fdreg[f]] = None]
    /\ UNCHANGED <<st, timer, phase, due, handled>>

\* The next event of the batch points to a slot that is freed.  What follows is
\* undefined, and the behaviour is not followed any further.
ReadStale(f) ==
    /\ phase = "batch" /\ stack = << >> /\ batch[f] = "stale"
    /\ phase' = "undefined" /\ batch' = [g \in Fds |-> "none"]
    /\ UNCHANGED <<st, stack, waitFd, fdreg, timer, due, handled>>

\* The batch is over and run_once returns.
BatchOver ==
    /\ phase = "batch" /\ stack = << >> /\ \A f \in Fds : batch[f] = "none"
    /\ phase' = "host"
    /\ UNCHANGED <<st, stack, waitFd, fdreg, timer, due, handled, batch>>

LoopStep ==
    \/ \E t \in Tasks : FireTimer(t)
    \/ \E f \in Fds : Dispatch(f) \/ ReadStale(f)
    \/ \E F \in SUBSET Fds : Poll(F)
    \/ \E D \in SUBSET Tasks : RunOnce(D)
    \/ BatchOver

TaskStep(t) ==
    \/ Spawn(t) \/ AwaitTimer(t) \/ Complete(t) \/ Cancel(t)
    \/ \E f \in Fds : AwaitFd(t, f) \/ AwaitFdTaken(t, f)

Next == LoopStep \/ (\E t \in Tasks : TaskStep(t)) \/ Shutdown

Spec == Init /\ [][Next]_vars

\* The running task comes to its next wait or to its end.
Yield == \E t \in Tasks : AwaitTimer(t) \/ Complete(t) \/ \E f \in Fds : AwaitFd(t, f)

\* A pass in which the timer of t is due, and one that finds f ready.
DueAt(t) == \E D \in SUBSET Tasks : t \in D /\ RunOnce(D)

PollFinds(f) == \E F \in SUBSET Fds : f \in F /\ Poll(F)

\* The host calls run_once again and again, tasks do not run for ever, time
\* passes, and an fd that is waited for is ready in the end.
Fairness ==
    /\ WF_vars(\E D \in SUBSET Tasks : RunOnce(D))
    /\ WF_vars(Yield) /\ WF_vars(BatchOver) /\ WF_vars(Poll({}))
    /\ \A t \in Tasks : SF_vars(DueAt(t)) /\ WF_vars(FireTimer(t))
    /\ \A f \in Fds : SF_vars(PollFinds(f)) /\ WF_vars(Dispatch(f) \/ ReadStale(f))

FairSpec == Spec /\ Fairness

-----------------------------------------------------------------------------
\* The states have the right shape, and what the batch still has to dispatch
\* is only there during a batch.
TypeOK ==
    /\ st \in [Tasks -> {"new", "live", "dead"}] /\ stack \in Seq(Tasks)
    /\ waitFd \in [Tasks -> Fds \cup {None}] /\ fdreg \in [Fds -> Tasks \cup {None}]
    /\ timer \in [Tasks -> {"none", "armed", "cancelled"}]
    /\ phase \in {"host", "timers", "batch", "undefined"}
    /\ due \subseteq Tasks /\ handled \in BOOLEAN
    /\ batch \in [Fds -> {"none", "live", "stale"}]
    /\ phase # "batch" => \A f \in Fds : batch[f] = "none"

\* No other task waits for the fd that t waits for, now or later.
Alone(t) == \A u \in Tasks \ {t} : waitFd[t] \notin MayAwait[u]

\* A task resumes when its awaited event fires (the head of task.h): a
\* suspended task is registered for the fd it waits for, if it has the fd for
\* itself, or its timer is armed, whatever the other tasks do.
WaitersAreRegistered ==
    \A t \in Tasks : Suspended(t) /\ Alone(t) =>
        \/ waitFd[t] # None /\ fdreg[waitFd[t]] = t
        \/ waitFd[t] = None /\ timer[t] = "armed"

\* Nothing in the loop leads to a frame that is destroyed or already running:
\* what is registered and what is armed belongs to a suspended task.
NothingDangles ==
    /\ \A f \in Fds : fdreg[f] # None => Suspended(fdreg[f]) /\ waitFd[fdreg[f]] = f
    /\ \A t \in Tasks : timer[t] = "armed" => Suspended(t)

\* run_once does not read a slot that a task has deleted meanwhile.
NoStaleEvent == \A f \in Fds : batch[f] # "stale"

\* No frame is resumed that is destroyed or already running: the tasks on the
\* stack are live, and none is there twice.
OnlyLiveTasksRun ==
    /\ \A t \in OnStack : st[t] = "live"
    /\ \A i, j \in 1 .. Len(stack) : stack[i] = stack[j] => i = j

\* run_once has fired the timers that were due and is about to poll or to return.
TimersFired == phase = "timers" /\ stack = << >> /\ due = {}

\* A suspended task is resumed or cancelled in the end: one that waits for its
\* timer always, one that waits for an fd that is ready and its own unless, from
\* some time on, every single call of run_once fires a timer and so returns
\* before it polls (EventLoop::run_once, the awaiters of task.h).
Resumes ==
    \A t \in Tasks :
        <>[](Suspended(t) /\ Alone(t) /\ phase # "undefined")
            => <>[](waitFd[t] # None /\ (TimersFired => handled))

\* A task "resumes from where it left off when its awaited event fires" (the head
\* of task.h).  Not so for an fd while a timer is due at every call of run_once.
ResumesWhenReady ==
    \A t \in Tasks : Suspended(t) /\ Alone(t) ~> ~Suspended(t) \/ phase = "undefined"

=============================================================================
