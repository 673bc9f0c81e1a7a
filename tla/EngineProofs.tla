---------------------------- MODULE EngineProofs ----------------------------
(***************************************************************************)
(* Safety of Engine for any set of configurations, any number of tasks and *)
(* any number of cancelling threads.                                       *)
(***************************************************************************)
EXTENDS Engine, TLAPS

\* While a task runs the sink and its userdata belong together, and so do the
\* pair saved by opencode_engine_run and the permission hook.
HooksMatch ==
    /\ ~busy => hooks.event = hooks.userdata /\ hooks.event = hooks.perm
    /\ InTask => /\ hooks.event = hooks.userdata /\ prev.event = prev.userdata
                 /\ prev.event = hooks.perm
    /\ call.kind = "event" => call.fn = call.userdata

\* agent_ is null while a task is prepared, and the task's own once it drives.
AgentIsFresh ==
    /\ pc = "build" => agent = 0
    /\ pc \in {"drive", "callback"} => agent = task

\* A thread that is about to set a flag has read a pointer that was not null.
ReadersHoldAnAgent == \A c \in Cancellers : cpc[c] = "in" => ptr[c] # 0

\* A flag that is set for the running task was asked for while the task ran, and
\* so was one that a thread inside of request_cancel may yet set, whichever.
CancelsWereAsked ==
    InTask => /\ task > 0
              /\ task \in cancel => task \in asked
              /\ Requesting # {} => task \in asked

\* The services follow each other in the order of configure: the gate and the
\* root are behind the tools only between the steps that replace them, and what
\* configure has passed is of the configuration it is called with.
ConfigIsOrdered ==
    /\ svc["gate"] = svc["vctx"]
    /\ pc # "gate" => svc["tools"] = svc["gate"]
    /\ pc \in {"templates", "gate"} =>
          /\ want \in Cfgs /\ svc["cfg"] = want
          /\ \A i \in Templates[want] : i \in todo \/ prompts[i] = want
    /\ pc = "gate" => todo = {} /\ svc["tools"] = want

\* Outside of configure the services are those of the last one that succeeded.
ConfigIsWhole ==
    pc \notin {"templates", "gate"} =>
        /\ applied # "failed" => svc = AllFrom(applied)
        /\ applied \in Cfgs => \A i \in Templates[applied] : prompts[i] = applied

\* The inductive invariant.
IInv ==
    /\ TypeOK /\ HooksMatch /\ AgentIsFresh /\ ReadersHoldAnAgent /\ CancelsWereAsked
    /\ ConfigIsOrdered /\ ConfigIsWhole

USE CfgsAssumption, BoundsAssumption DEF CfgsAssumption, BoundsAssumption

\* An engine that was just created satisfies the invariant.
LEMMA InitIInv == Init => IInv
<1> SUFFICES ASSUME Init PROVE IInv
    OBVIOUS
<1> USE DEF Init, AllFrom, HooksOf
<1>1. TypeOK
  <2>1. applied \in Cfgs \cup {NoCfg} /\ want \in Cfgs \cup {NoCfg} /\ todo \subseteq Ids
      OBVIOUS
  <2>2. svc \in [Parts -> Cfgs \cup {NoCfg}] /\ prompts \in [Ids -> Cfgs \cup {NoCfg}]
      BY <2>1
  <2>3. /\ hooks \in [event : Owners, perm : Owners, userdata : Owners]
        /\ prev \in [event : Owners, userdata : Owners]
      BY <2>1 DEF Owners
  <2>4. /\ cancel \subseteq 1 .. task /\ aimed \subseteq 1 .. task /\ asked \subseteq 1 .. task
        /\ task \in 0 .. MaxTask /\ agent \in 0 .. task
        /\ sets \in 0 .. MaxSet /\ calls \in 0 .. MaxCancel
      OBVIOUS
  <2>5. /\ cpc \in [Cancellers -> {"out", "tested", "in", "undefined"}]
        /\ ptr \in [Cancellers -> 0 .. task]
      OBVIOUS
  <2>6. ~InTask
      BY DEF InTask
  <2> QED
      BY Zenon, <2>1, <2>2, <2>3, <2>4, <2>5, <2>6 DEF TypeOK
<1>2. HooksMatch /\ AgentIsFresh /\ ReadersHoldAnAgent /\ CancelsWereAsked
    BY DEF HooksMatch, AgentIsFresh, ReadersHoldAnAgent, CancelsWereAsked, InTask
<1>3. ConfigIsOrdered /\ ConfigIsWhole
    BY DEF ConfigIsOrdered, ConfigIsWhole, Parts
<1> QED
    BY <1>1, <1>2, <1>3 DEF IInv

\* What a step of configure leaves alone: with the variables of the run go the
\* parts of the invariant that speak of it.
LEMMA UnrunKeeps ==
    ASSUME IInv, UNCHANGED Unrun, ~InTask, ~InTask',
           ~busy => hooks'.event = hooks'.userdata /\ hooks'.event = hooks'.perm,
           pc' \in {"host", "templates", "gate"}
    PROVE  HooksMatch' /\ AgentIsFresh' /\ ReadersHoldAnAgent' /\ CancelsWereAsked'
    BY DEF IInv, Unrun, canceller, HooksMatch, AgentIsFresh, ReadersHoldAnAgent, CancelsWereAsked

\* The types outlast a step that changes the record of the cancellations only.
LEMMA TypeKept ==
    ASSUME TypeOK, UNCHANGED <<engine, config, busy, pc, agent, task>>,
           cancel' \subseteq 1 .. task, aimed' \subseteq 1 .. task, asked' \subseteq 1 .. task,
           calls' \in 0 .. MaxCancel, ptr' \in [Cancellers -> 0 .. task],
           cpc' \in [Cancellers -> {"out", "tested", "in", "undefined"}]
    PROVE  TypeOK'
<1> USE DEF engine, config
<1>1. /\ svc' \in [Parts -> Cfgs \cup {NoCfg}] /\ prompts' \in [Ids -> Cfgs \cup {NoCfg}]
      /\ want' \in Cfgs \cup {NoCfg} /\ todo' \subseteq Ids
      /\ applied' \in Cfgs \cup {NoCfg, "failed"} /\ sets' \in 0 .. MaxSet
    BY DEF TypeOK
<1>2. /\ hooks' \in [event : Owners', perm : Owners', userdata : Owners']
      /\ prev' \in [event : Owners', userdata : Owners']
    BY DEF TypeOK, Owners
<1>3. /\ pc' \in {"host", "templates", "gate", "enter", "build", "drive", "callback"}
      /\ busy' \in BOOLEAN /\ (InTask' => busy') /\ (pc' \in {"templates", "gate"} => ~busy')
    BY DEF TypeOK, InTask
<1>4. task' = task /\ task' \in 0 .. MaxTask /\ agent' \in 0 .. task'
    BY DEF TypeOK
<1> QED
    BY <1>1, <1>2, <1>3, <1>4 DEF TypeOK

\* set_config keeps it, refused, failing half way or succeeding.
LEMMA SetConfigKeeps ==
    ASSUME IInv,
           \/ SetConfigRefused \/ (\E c \in Cfgs : SetConfig(c))
           \/ (\E i \in Ids : LoadTemplate(i)) \/ LoadFails \/ ConfigTools \/ ConfigGate
    PROVE  IInv'
<1> USE DEF IInv, engine, config, canceller
<1>1. CASE SetConfigRefused
    BY <1>1 DEF SetConfigRefused, TypeOK, InTask, Owners, HooksMatch, AgentIsFresh,
                ReadersHoldAnAgent, CancelsWereAsked, Requesting, ConfigIsOrdered, ConfigIsWhole
<1>2. ASSUME NEW c \in Cfgs, SetConfig(c) PROVE IInv'
  <2> USE <1>2 DEF SetConfig
  <2>1. svc' \in [Parts -> Cfgs \cup {NoCfg}] /\ todo' \subseteq Ids
      BY DEF TypeOK
  <2>2. TypeOK'
      BY <2>1 DEF TypeOK, InTask, Owners, HooksOf, Unrun
  <2>3. HooksMatch' /\ AgentIsFresh' /\ ReadersHoldAnAgent' /\ CancelsWereAsked'
      BY UnrunKeeps DEF InTask, HooksOf
  <2>4. ConfigIsOrdered' /\ ConfigIsWhole'
      BY DEF ConfigIsOrdered, ConfigIsWhole, TypeOK, Parts, Unrun
  <2> QED
      BY <2>2, <2>3, <2>4
<1>3. ASSUME NEW i \in Ids, LoadTemplate(i) PROVE IInv'
  <2> USE <1>3 DEF LoadTemplate
  <2>0. prompts' \in [Ids -> Cfgs \cup {NoCfg}] /\ todo' \subseteq Ids
      BY DEF TypeOK
  <2>1. TypeOK'
      BY <2>0 DEF TypeOK, InTask, Owners, Unrun
  <2>2. HooksMatch' /\ AgentIsFresh' /\ ReadersHoldAnAgent' /\ CancelsWereAsked'
      BY UnrunKeeps DEF InTask, HooksMatch
  <2>3. ConfigIsOrdered' /\ ConfigIsWhole'
      BY DEF ConfigIsOrdered, ConfigIsWhole, TypeOK, Unrun
  <2> QED
      BY <2>1, <2>2, <2>3
<1>4. CASE LoadFails
  <2> USE <1>4 DEF LoadFails
  <2>1. TypeOK'
      BY DEF TypeOK, InTask, Owners, Unrun
  <2>2. HooksMatch' /\ AgentIsFresh' /\ ReadersHoldAnAgent' /\ CancelsWereAsked'
      BY UnrunKeeps DEF InTask, HooksMatch
  <2>3. ConfigIsOrdered' /\ ConfigIsWhole'
      BY DEF ConfigIsOrdered, ConfigIsWhole, Unrun
  <2> QED
      BY <2>1, <2>2, <2>3
<1>5. CASE ConfigTools
  <2> USE <1>5 DEF ConfigTools
  <2>1. svc' \in [Parts -> Cfgs \cup {NoCfg}] /\ todo' \subseteq Ids
      BY DEF TypeOK
  <2>2. TypeOK'
      BY <2>1 DEF TypeOK, InTask, Owners, Unrun
  <2>3. HooksMatch' /\ AgentIsFresh' /\ ReadersHoldAnAgent' /\ CancelsWereAsked'
      BY UnrunKeeps DEF InTask, HooksMatch
  <2>4. ConfigIsOrdered' /\ ConfigIsWhole'
      BY DEF ConfigIsOrdered, ConfigIsWhole, TypeOK, Parts, Unrun
  <2> QED
      BY <2>2, <2>3, <2>4
<1>6. CASE ConfigGate
  <2> USE <1>6 DEF ConfigGate
  <2>1. svc' \in [Parts -> Cfgs \cup {NoCfg}] /\ svc' = AllFrom(want)
      BY DEF TypeOK, Parts, AllFrom, ConfigIsOrdered
  <2>2. TypeOK'
      BY <2>1 DEF TypeOK, InTask, Owners, Unrun
  <2>3. HooksMatch' /\ AgentIsFresh' /\ ReadersHoldAnAgent' /\ CancelsWereAsked'
      BY UnrunKeeps DEF InTask, HooksMatch
  <2>4. ConfigIsOrdered' /\ ConfigIsWhole'
    <3>1. svc'["tools"] = want /\ svc'["gate"] = want /\ svc'["vctx"] = want
        BY <2>1 DEF AllFrom, Parts
    <3>2. pc' = "host" /\ applied' = want
        OBVIOUS
    <3>3. want \in Cfgs /\ \A i \in Templates[want] : prompts'[i] = want
        BY DEF ConfigIsOrdered, Unrun
    <3> QED
        BY <2>1, <3>1, <3>2, <3>3 DEF ConfigIsOrdered, ConfigIsWhole, AllFrom
  <2> QED
      BY <2>2, <2>3, <2>4
<1> QED
    BY <1>1, <1>2, <1>3, <1>4, <1>5, <1>6

\* A run keeps it: the sink it brings comes with its own userdata, and nobody
\* whose call is over has set the flag of a task that has just got its number.
LEMMA RunKeeps ==
    ASSUME IInv, NEW own \in BOOLEAN, Run(own)
    PROVE  IInv'
<1> USE DEF IInv, Run, config, canceller
<1>1. TypeOK'
  <2>1. /\ hooks' \in [event : Owners, perm : Owners, userdata : Owners]
        /\ prev' \in [event : Owners, userdata : Owners]
      BY Zenon DEF TypeOK, Owners
  <2>2. /\ task \in Nat /\ task' = task + 1 /\ task' \in 0 .. MaxTask /\ agent' \in 0 .. task'
        /\ cancel' \subseteq 1 .. task' /\ aimed' \subseteq 1 .. task'
        /\ asked' \subseteq 1 .. task'
      BY DEF TypeOK
  <2>3. ptr' \in [Cancellers -> 0 .. task']
      BY <2>2 DEF TypeOK
  <2> QED
      BY <2>1, <2>2, <2>3 DEF TypeOK, InTask
<1>2. HooksMatch'
    BY DEF TypeOK, HooksMatch, InTask
<1>3. AgentIsFresh' /\ ReadersHoldAnAgent' /\ CancelsWereAsked'
    BY DEF TypeOK, AgentIsFresh, ReadersHoldAnAgent, CancelsWereAsked, InTask, Requesting
<1>4. ConfigIsOrdered' /\ ConfigIsWhole'
    BY DEF ConfigIsOrdered, ConfigIsWhole
<1> QED
    BY <1>1, <1>2, <1>3, <1>4

\* The steps of run_task up to drive, and its end, keep it.
LEMMA TaskKeeps ==
    ASSUME IInv, Enter \/ BuildFails \/ Build \/ (\E status \in Statuses : Finish(status)) \/ Throw
    PROVE  IInv'
<1> USE DEF IInv, engine, config, canceller
<1>1. CASE Enter
    BY <1>1 DEF Enter, Reset, TypeOK, InTask, Owners, HooksMatch, AgentIsFresh,
                ReadersHoldAnAgent, CancelsWereAsked, Requesting, ConfigIsOrdered, ConfigIsWhole
<1>2. CASE Build
    BY <1>2 DEF Build, TypeOK, InTask, Owners, HooksMatch, AgentIsFresh,
                ReadersHoldAnAgent, CancelsWereAsked, Requesting, ConfigIsOrdered, ConfigIsWhole
<1>3. ASSUME NEW status, InTask, Return(status), UNCHANGED agent PROVE IInv'
  <2> USE <1>3 DEF Return, Restore
  <2>1. TypeOK'
      BY Zenon DEF TypeOK, InTask, Owners
  <2>2. HooksMatch'
      BY DEF HooksMatch, InTask, TypeOK
  <2>3. AgentIsFresh' /\ ReadersHoldAnAgent' /\ CancelsWereAsked'
      BY DEF AgentIsFresh, ReadersHoldAnAgent, CancelsWereAsked, InTask
  <2>4. ConfigIsOrdered' /\ ConfigIsWhole'
      BY DEF ConfigIsOrdered, ConfigIsWhole, InTask
  <2> QED
      BY <2>1, <2>2, <2>3, <2>4
<1>4. CASE Throw
    BY <1>4 DEF Throw, TypeOK, InTask, Owners, HooksMatch, AgentIsFresh,
                ReadersHoldAnAgent, CancelsWereAsked, Requesting, ConfigIsOrdered, ConfigIsWhole
<1> QED
    BY <1>1, <1>2, <1>3, <1>4 DEF BuildFails, Finish, InTask

\* The callbacks keep it: a sink that stops the run asks for the cancellation.
LEMMA CallbackKeeps ==
    ASSUME IInv,
           \/ \E kind \in {"event", "perm"} : Callback(kind)
           \/ \E status \in {"ok", "stop"} : CallbackReturns(status)
    PROVE  IInv'
<1> USE DEF IInv, engine, config, canceller
<1>1. ASSUME NEW kind \in {"event", "perm"}, Callback(kind) PROVE IInv'
    BY <1>1 DEF Callback, TypeOK, InTask, Owners, HooksMatch, AgentIsFresh,
                ReadersHoldAnAgent, CancelsWereAsked, Requesting, ConfigIsOrdered, ConfigIsWhole
<1>2. ASSUME NEW status \in {"ok", "stop"}, CallbackReturns(status) PROVE IInv'
  <2> USE <1>2 DEF CallbackReturns
  <2>1. task > 0 /\ task \in Nat /\ agent = task /\ task \in 1 .. task
      BY DEF TypeOK, AgentIsFresh, CancelsWereAsked, InTask
  <2>2. cancel' \subseteq 1 .. task /\ aimed' \subseteq 1 .. task /\ asked' \subseteq 1 .. task
      BY Zenon, <2>1 DEF TypeOK
  <2>3. TypeOK'
      BY <2>2 DEF TypeOK, InTask, Owners
  <2>4. HooksMatch' /\ AgentIsFresh' /\ ReadersHoldAnAgent'
      BY <2>1 DEF TypeOK, InTask, HooksMatch, AgentIsFresh, ReadersHoldAnAgent
  <2>5. CancelsWereAsked'
      BY <2>1 DEF InTask, CancelsWereAsked, Requesting
  <2>6. ConfigIsOrdered' /\ ConfigIsWhole'
      BY DEF ConfigIsOrdered, ConfigIsWhole
  <2> QED
      BY <2>3, <2>4, <2>5, <2>6
<1> QED
    BY <1>1, <1>2

\* request_cancel on another thread keeps it, with each of its steps.
LEMMA CancelKeeps ==
    ASSUME IInv, NEW c \in Cancellers, CancelTest(c) \/ CancelRead(c) \/ CancelWrite(c)
    PROVE  IInv'
<1> USE DEF IInv, engine, config
<1>0. UNCHANGED <<engine, config, busy, pc, call, agent, task>>
    BY DEF CancelTest, CancelRead, CancelWrite
<1>1. HooksMatch' /\ AgentIsFresh' /\ ConfigIsOrdered' /\ ConfigIsWhole'
    BY <1>0 DEF HooksMatch, AgentIsFresh, ConfigIsOrdered, ConfigIsWhole, InTask
<1>2. task \in Nat /\ agent \in 0 .. task /\ (InTask => task \in 1 .. task)
    BY DEF TypeOK, CancelsWereAsked
<1>3. /\ aimed' \subseteq 1 .. task /\ asked' \subseteq 1 .. task /\ calls' \in 0 .. MaxCancel
      /\ cpc' \in [Cancellers -> {"out", "tested", "in", "undefined"}]
      /\ ptr' \in [Cancellers -> 0 .. task]
  <2>1. CASE CancelTest(c)
      BY <1>2, <2>1 DEF CancelTest, TypeOK
  <2>2. CASE CancelRead(c)
      BY <1>2, <2>2 DEF CancelRead, TypeOK
  <2>3. CASE CancelWrite(c)
      BY <1>2, <2>3 DEF CancelWrite, TypeOK
  <2> QED
      BY <2>1, <2>2, <2>3
<1>4. cancel' \subseteq 1 .. task
  <2>1. CASE UNCHANGED cancel
      BY <2>1 DEF TypeOK
  <2>2. CASE CancelWrite(c)
    <3>1. cancel' \subseteq cancel \cup {agent} /\ (agent = 0 => cancel' = cancel)
        BY <2>2 DEF CancelWrite, ReadersHoldAnAgent, TypeOK
    <3> QED
        BY <1>2, <3>1 DEF TypeOK
  <2> QED
      BY <2>1, <2>2 DEF CancelTest, CancelRead
<1>5. CancelsWereAsked'
  <2> SUFFICES ASSUME InTask' PROVE CancelsWereAsked'
      BY DEF CancelsWereAsked
  <2>1. InTask /\ task' = task /\ task > 0
      BY <1>0, <1>2 DEF InTask
  <2>2. CASE CancelTest(c)
      BY <2>1, <2>2 DEF CancelTest, CancelsWereAsked
  <2>3. CASE CancelRead(c) \/ CancelWrite(c)
    <3>1. c \in Requesting /\ asked' = asked
        BY <2>3 DEF CancelRead, CancelWrite, Requesting
    <3>2. task \in asked
        BY <2>1, <3>1 DEF CancelsWereAsked
    <3> QED
        BY <2>1, <3>1, <3>2 DEF CancelsWereAsked
  <2> QED
      BY <2>2, <2>3
<1>6. ReadersHoldAnAgent'
    BY <1>2 DEF CancelTest, CancelRead, CancelWrite, TypeOK, ReadersHoldAnAgent
<1>7. TypeOK'
    BY <1>0, <1>3, <1>4, TypeKept
<1> QED
    BY <1>1, <1>5, <1>6, <1>7 DEF IInv

\* Every step keeps the invariant.
LEMMA NextIInv == IInv /\ [Next]_vars => IInv'
<1> SUFFICES ASSUME IInv, [Next]_vars PROVE IInv'
    OBVIOUS
<1>1. CASE EngineThread
    BY <1>1, SetConfigKeeps, RunKeeps, TaskKeeps, CallbackKeeps DEF EngineThread
<1>2. CASE \E c \in Cancellers : CancelTest(c) \/ CancelRead(c) \/ CancelWrite(c)
    BY <1>2, CancelKeeps
<1>3. CASE UNCHANGED vars
  <2> USE <1>3 DEF vars, engine, config, canceller, IInv
  <2>1. TypeOK'
      BY TypeKept DEF TypeOK
  <2>2. HooksMatch' /\ AgentIsFresh' /\ ReadersHoldAnAgent'
      BY DEF HooksMatch, AgentIsFresh, ReadersHoldAnAgent, InTask
  <2>3. CancelsWereAsked'
      BY DEF CancelsWereAsked, Requesting, InTask
  <2>4. ConfigIsOrdered' /\ ConfigIsWhole'
      BY DEF ConfigIsOrdered, ConfigIsWhole
  <2> QED
      BY <2>1, <2>2, <2>3, <2>4
<1> QED
    BY <1>1, <1>2, <1>3 DEF Next

\* The invariant holds throughout.
LEMMA Invariant == Spec => []IInv
    BY InitIInv, NextIInv, PTL DEF Spec

\* Type correctness: among others, a thread inside a run finds busy_ set.
THEOREM TypeCorrect == Spec => []TypeOK
    BY Invariant, PTL DEF IInv

\* Engine::configure: whatever it failed at, and however often, the tools of a
\* task, their gate and the verification root are from one configuration, and
\* all services and templates are if the last one succeeded.
THEOREM ServicesAreOfOneConfig == Spec => []ServicesAgree
<1>1. IInv => ServicesAgree
    BY DEF IInv, ConfigIsOrdered, ConfigIsWhole, ServicesAgree, InTask
<1> QED
    BY <1>1, Invariant, PTL

\* opencode_engine_run: no sink is ever called with a userdata of someone else,
\* and the configured one is back when the run is over.
THEOREM SinksKeepTheirUserdata == Spec => []SinkHasItsUserdata
<1>1. IInv => SinkHasItsUserdata
    BY DEF IInv, HooksMatch, SinkHasItsUserdata
<1> QED
    BY <1>1, Invariant, PTL

\* Engine::run_task makes a fresh agent: a cancellation that has returned before a
\* task begins never ends it, for any number of threads inside of request_cancel,
\* wherever they stand between their two loads of agent_ and their write.
THEOREM CancelsStayWithTheirTask == Spec => []CancelIsForThisTask
<1>1. IInv => CancelIsForThisTask
    BY DEF IInv, AgentIsFresh, CancelsWereAsked, CancelIsForThisTask, InTask
<1> QED
    BY <1>1, Invariant, PTL

\* The busy flag keeps set_config out while a task runs: no step, not even a
\* call made inside of a callback, changes what the task was built from.
THEOREM TasksAreUnaffected == Spec => TaskIsUnaffected
<1>1. ASSUME TypeOK, Next, busy, busy' PROVE UNCHANGED <<svc, prompts>>
    BY <1>1 DEF Next, EngineThread, SetConfigRefused, SetConfig, LoadTemplate, LoadFails,
        ConfigTools, ConfigGate, Run, Enter, BuildFails, Build, Return, Callback,
        CallbackReturns, Finish, Throw, CancelTest, CancelRead, CancelWrite, engine, TypeOK
<1>2. TypeOK /\ [Next]_vars => [busy /\ busy' => UNCHANGED <<svc, prompts>>]_vars
    BY <1>1
<1> QED
    BY <1>2, TypeCorrect, PTL DEF Spec, TaskIsUnaffected

=============================================================================
