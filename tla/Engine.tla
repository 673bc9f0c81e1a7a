------------------------------- MODULE Engine -------------------------------
(***************************************************************************)
(* The C ABI (src/abi/opencode_api.cpp) over app::Engine (src/app.cpp,     *)
(* app.hpp): configuration, one synchronous task at a time, the callbacks  *)
(* of the host, and cancellation from the callbacks and from other         *)
(* threads.  What happens inside Agent::drive is module AgentLoop; here a  *)
(* task drives, calls back, and ends.                                      *)
(*                                                                         *)
(* A configuration stands for its own sink and its own userdata: hooks     *)
(* name the configuration, or "run" for the arguments of                   *)
(* opencode_engine_run, that the function or the userdata comes from.      *)
(***************************************************************************)
EXTENDS Integers, Sequences

CONSTANTS
    Cfgs,        \* the configurations the host may apply
    Ids,         \* names of prompt templates
    Templates,   \* Templates[c]: the templates in the prompt_dir of c
    Agents,
    FileAgents,  \* FileAgents[c]: the agents of c's config file, in order
    HostAgent,   \* HostAgent[c]: the agent field of c
    NoCfg,       \* not configured
    Cancellers,  \* threads that call opencode_engine_cancel
    MaxTask, MaxSet, MaxCancel  \* bounds: calls of run, set_config and cancel

ASSUME CfgsAssumption ==
    /\ NoCfg \notin Cfgs /\ {"run", "failed"} \cap (Cfgs \cup {NoCfg}) = {}
    /\ Templates \in [Cfgs -> SUBSET Ids] /\ HostAgent \in [Cfgs -> Agents]
    /\ FileAgents \in [Cfgs -> Seq(Agents)]
ASSUME BoundsAssumption == MaxTask \in Nat /\ MaxSet \in Nat /\ MaxCancel \in Nat

VARIABLES
    svc,      \* the configuration that cfg_, tools_, gate_ and vctx_ are from
    want,     \* the configuration that apply_config was last called with
    todo,     \* the templates of it that load_templates has not read yet
    prompts,  \* per template id: the configuration it was loaded from
    hooks,    \* where event_fn, perm_fn (with log_fn) and userdata are from
    prev,     \* the locals prev and prev_ud of opencode_engine_run
    busy,
    task,     \* task_seq
    agent,    \* the task whose Agent agent_ points to, 0 for none
    cancel,   \* the tasks whose Agent has its cancel flag set
    pc,       \* engine thread: "host"; "templates", "gate" in configure;
              \* "enter", "build", "drive", "callback" in a run
    call,     \* the last callback: its kind, function and userdata
    sink,     \* the status the event sink has returned in this run
    last,     \* the status of the last run, "none" before
    applied,  \* the configuration last applied, "failed" if configure failed
    sets,     \* calls of set_config
    cpc, ptr, \* canceller: "out", "tested", "in", "undefined"; the Agent it has read
    aimed,    \* the tasks that ran when a cancellation of them was asked for
    asked,    \* the tasks that ran while a request to cancel had not returned
    calls     \* calls of opencode_engine_cancel by other threads

engine == <<svc, prompts, hooks, prev>>
config == <<want, todo, applied, sets>>
canceller == <<cpc, ptr, calls>>
vars == <<engine, config, busy, task, agent, cancel, pc, call, sink, last, canceller, aimed, asked>>

Parts == {"cfg", "tools", "gate", "vctx"}
AllFrom(c) == [p \in Parts |-> c]
HooksOf(c) == [event |-> c, perm |-> c, userdata |-> c]

\* overlay_agent: the agents of the configuration, the host's one included.
overlay_agent(c) ==
    IF \E i \in 1 .. Len(FileAgents[c]) : FileAgents[c][i] = HostAgent[c]
    THEN FileAgents[c] ELSE Append(FileAgents[c], HostAgent[c])

\* session_options_from_config is asked for the agent "", so the first one it is.
SelectedAgent(c) == Head(overlay_agent(c))

\* opencode_engine_create, with a configuration or without.
Init ==
    /\ \/ applied = NoCfg /\ prompts = [i \in Ids |-> NoCfg]
       \/ /\ applied \in Cfgs
          /\ prompts = [i \in Ids |-> IF i \in Templates[applied] THEN applied ELSE NoCfg]
    /\ svc = AllFrom(applied) /\ hooks = HooksOf(applied) /\ prev = [event |-> applied, userdata |-> applied]
    /\ want = applied /\ todo = {} /\ busy = FALSE /\ task = 0 /\ agent = 0 /\ cancel = {} /\ pc = "host"
    /\ call = [kind |-> "none", fn |-> NoCfg, userdata |-> NoCfg]
    /\ sink = "ok" /\ last = "none" /\ sets = 0
    /\ cpc = [c \in Cancellers |-> "out"] /\ ptr = [c \in Cancellers |-> 0]
    /\ aimed = {} /\ asked = {} /\ calls = 0

\* The host has control: it is outside of the engine or inside a callback.
HostRuns == pc \in {"host", "callback"}

\* A version or a config file that is refused, or a busy engine: nothing is done.
SetConfigRefused ==
    /\ HostRuns /\ sets < MaxSet /\ sets' = sets + 1
    /\ UNCHANGED <<engine, want, todo, applied, busy, task, agent, cancel, pc, call, sink, last,
                   canceller, aimed, asked>>

Unrun == <<prev, busy, task, agent, cancel, call, sink, last, canceller, aimed, asked>>

\* Mutant: the tools are made anew before anything can fail.
SetConfig_ToolsFirst(c) ==
    /\ pc = "host" /\ ~busy /\ sets < MaxSet /\ sets' = sets + 1
    /\ want' = c /\ hooks' = HooksOf(c) /\ svc' = [svc EXCEPT !["cfg"] = c, !["tools"] = c]
    /\ todo' = Templates[c] /\ pc' = "templates"
    /\ UNCHANGED <<prompts, applied, Unrun>>

\* apply_config puts the hooks into the handle, and configure begins with cfg_.
SetConfig(c) ==
    /\ pc = "host" /\ ~busy /\ sets < MaxSet /\ sets' = sets + 1
    /\ want' = c /\ hooks' = HooksOf(c) /\ svc' = [svc EXCEPT !["cfg"] = c]
    /\ todo' = Templates[c] /\ pc' = "templates"
    /\ UNCHANGED <<prompts, applied, Unrun>>

\* One file of the directory: its template replaces the one of the same id.
LoadTemplate(i) ==
    /\ pc = "templates" /\ i \in todo
    /\ prompts' = [prompts EXCEPT ![i] = want] /\ todo' = todo \ {i}
    /\ UNCHANGED <<svc, hooks, want, applied, sets, pc, Unrun>>

\* No such directory, one that cannot be read further (the iterator throws), or
\* a file that does not compile: configure returns with what it has done so far.
LoadFails ==
    /\ pc = "templates" /\ applied' = "failed" /\ todo' = {} /\ pc' = "host"
    /\ UNCHANGED <<svc, prompts, hooks, want, sets, Unrun>>

\* The registry is made anew; register_defaults adds tools of different names.
ConfigTools ==
    /\ pc = "templates" /\ todo = {} /\ pc' = "gate"
    /\ svc' = [svc EXCEPT !["tools"] = want]
    /\ UNCHANGED <<prompts, hooks, config, Unrun>>

\* The gate and the root of the verification, and configure is done.
ConfigGate ==
    /\ pc = "gate" /\ pc' = "host" /\ applied' = want
    /\ svc' = [svc EXCEPT !["gate"] = want, !["vctx"] = want]
    /\ UNCHANGED <<prompts, hooks, want, todo, sets, Unrun>>

\* The threads inside of request_cancel.
Requesting == {c \in Cancellers : cpc[c] \in {"tested", "in"}}

\* opencode_engine_run up to the busy flag; own: the call brings its own sink.
\* Inside a callback the engine is busy and the call is refused.
Run(own) ==
    /\ pc = "host" /\ ~busy /\ task < MaxTask
    /\ prev' = [event |-> hooks.event, userdata |-> hooks.userdata]
    /\ hooks' = IF own THEN [hooks EXCEPT !.event = "run", !.userdata = "run"] ELSE hooks
    /\ task' = task + 1 /\ busy' = TRUE /\ pc' = "enter" /\ sink' = "ok"
    /\ asked' = IF Requesting = {} THEN asked ELSE asked \cup {task + 1}
    /\ UNCHANGED <<svc, prompts, config, agent, cancel, call, last, canceller, aimed>>

\* Mutant: the session and the agent of the last task are used again.
Reset_Keep == pc' = "build" /\ UNCHANGED agent

\* run_task: session_ and agent_ are reset.
Reset == pc' = "build" /\ agent' = 0

Enter ==
    /\ pc = "enter" /\ Reset
    /\ UNCHANGED <<engine, config, busy, task, cancel, call, sink, last, canceller, aimed, asked>>

\* Mutant: the callbacks of the call stay in place.
Restore_Not == UNCHANGED hooks

\* The end of opencode_engine_run: the sink and the userdata are put back.
Restore == hooks' = [hooks EXCEPT !.event = prev.event, !.userdata = prev.userdata]

Return(status) ==
    /\ busy' = FALSE /\ pc' = "host" /\ last' = status /\ Restore
    /\ UNCHANGED <<svc, prompts, prev, config, task, cancel, call, sink, canceller, aimed,
                   asked>>

\* session_options_from_config fails: without a provider, or with a model that
\* it cannot resolve.
BuildFails == pc = "build" /\ Return("invalid_cfg") /\ UNCHANGED agent

\* The agent is made, unless it is still there, and drive begins.
Build ==
    /\ pc = "build" /\ svc["cfg"] # NoCfg
    /\ agent' = IF agent = 0 THEN task ELSE agent
    /\ pc' = "drive"
    /\ UNCHANGED <<engine, config, busy, task, cancel, call, sink, last, canceller, aimed, asked>>

\* The agent loop calls the event sink, or the gate the permission hook or the
\* logger the log function ("perm": both come with the configuration).
Callback(kind) ==
    /\ pc = "drive" /\ pc' = "callback"
    /\ call' = [kind |-> kind, userdata |-> hooks.userdata,
                fn |-> IF kind = "event" THEN hooks.event ELSE hooks.perm]
    /\ UNCHANGED <<engine, config, busy, task, agent, cancel, sink, last, canceller, aimed, asked>>

\* The callback returns; a status of the sink other than OK cancels the task.
CallbackReturns(status) ==
    /\ pc = "callback" /\ pc' = "drive"
    /\ \/ status = "ok" /\ UNCHANGED <<cancel, sink, aimed, asked>>
       \/ /\ status # "ok" /\ call.kind = "event" /\ sink' = status
          /\ cancel' = cancel \cup {agent}
          /\ aimed' = aimed \cup {task} /\ asked' = asked \cup {task}
    /\ UNCHANGED <<engine, config, busy, task, agent, call, last, canceller>>

\* drive returns and run_task, then opencode_engine_run, are over.  A cancelled
\* task may have been done before it noticed.
Finish(status) ==
    /\ pc = "drive" /\ (status = "cancelled" => agent \in cancel)
    /\ Return(status) /\ UNCHANGED agent

\* An exception leaves drive (the directory iterators of the tools throw) and is
\* caught in opencode_engine_run: neither the flag nor the callbacks are put back.
Throw ==
    /\ pc = "drive" /\ pc' = "host" /\ last' = "fatal"
    /\ UNCHANGED <<engine, config, busy, task, agent, cancel, call, sink, canceller, aimed, asked>>

InTask == pc \in {"enter", "build", "drive", "callback"}

\* Engine::request_cancel on another thread tests agent_ ...
CancelTest(c) ==
    /\ cpc[c] = "out" /\ calls < MaxCancel /\ calls' = calls + 1
    /\ aimed' = IF InTask THEN aimed \cup {task} ELSE aimed
    /\ asked' = IF InTask THEN asked \cup {task} ELSE asked
    /\ cpc' = [cpc EXCEPT ![c] = IF agent = 0 THEN "out" ELSE "tested"]
    /\ UNCHANGED <<engine, config, busy, task, agent, cancel, pc, call, sink, last, ptr>>

\* ... reads it once more to call through it, undefined if it is null by now ...
CancelRead(c) ==
    /\ cpc[c] = "tested" /\ ptr' = [ptr EXCEPT ![c] = agent]
    /\ cpc' = [cpc EXCEPT ![c] = IF agent = 0 THEN "undefined" ELSE "in"]
    /\ UNCHANGED <<engine, config, busy, task, agent, cancel, pc, call, sink, last, calls, aimed,
                   asked>>

\* ... and sets the flag of what it points to.  If that Agent has been destroyed
\* meanwhile the write is undefined: it goes nowhere, or to the Agent that has
\* got the memory.
CancelWrite(c) ==
    /\ cpc[c] = "in"
    /\ \/ ptr[c] = agent /\ cancel' = cancel \cup {agent} /\ cpc' = [cpc EXCEPT ![c] = "out"]
       \/ /\ ptr[c] # agent /\ cpc' = [cpc EXCEPT ![c] = "undefined"]
          /\ \/ UNCHANGED cancel
             \/ agent # 0 /\ cancel' = cancel \cup {agent}
    /\ UNCHANGED <<engine, config, busy, task, agent, pc, call, sink, last, ptr, calls, aimed, asked>>

Statuses == {"ok", "error", "cancelled"}

EngineThread ==
    \/ SetConfigRefused \/ (\E c \in Cfgs : SetConfig(c))
    \/ (\E i \in Ids : LoadTemplate(i)) \/ LoadFails \/ ConfigTools \/ ConfigGate
    \/ \E own \in BOOLEAN : Run(own)
    \/ Enter \/ BuildFails \/ Build
    \/ \E kind \in {"event", "perm"} : Callback(kind)
    \/ \E status \in {"ok", "stop"} : CallbackReturns(status)
    \/ (\E status \in Statuses : Finish(status)) \/ Throw

Next == EngineThread \/ \E c \in Cancellers : CancelTest(c) \/ CancelRead(c) \/ CancelWrite(c)

Spec == Init /\ [][Next]_vars

-----------------------------------------------------------------------------
Owners == Cfgs \cup {NoCfg, "run"}

\* Shapes, and that an engine thread inside a run is busy.
TypeOK ==
    /\ svc \in [Parts -> Cfgs \cup {NoCfg}] /\ prompts \in [Ids -> Cfgs \cup {NoCfg}]
    /\ want \in Cfgs \cup {NoCfg} /\ todo \subseteq Ids
    /\ applied \in Cfgs \cup {NoCfg, "failed"} /\ sets \in 0 .. MaxSet
    /\ hooks \in [event : Owners, perm : Owners, userdata : Owners]
    /\ prev \in [event : Owners, userdata : Owners]
    /\ pc \in {"host", "templates", "gate", "enter", "build", "drive", "callback"}
    /\ busy \in BOOLEAN /\ (InTask => busy) /\ (pc \in {"templates", "gate"} => ~busy)
    /\ task \in 0 .. MaxTask /\ agent \in 0 .. task /\ cancel \subseteq 1 .. task
    /\ aimed \subseteq 1 .. task /\ asked \subseteq 1 .. task /\ calls \in 0 .. MaxCancel
    /\ cpc \in [Cancellers -> {"out", "tested", "in", "undefined"}]
    /\ ptr \in [Cancellers -> 0 .. task]

\* What a task may touch hangs together, whatever set_config has failed before
\* it: the tools, the gate that lets them through and the root that edits are
\* verified against are from one configuration; and if the last set_config
\* succeeded, so are cfg_ and every template of its directory.
ServicesAgree ==
    InTask => /\ svc["tools"] = svc["gate"] /\ svc["gate"] = svc["vctx"]
              /\ applied # "failed" => svc = AllFrom(applied)
              /\ applied \in Cfgs => \A i \in Templates[applied] : prompts[i] = applied

\* set_config applies to the next task, active ones are unaffected: while a
\* task runs, nothing it was built from changes, whatever the callbacks do.
TaskIsUnaffected == [][busy /\ busy' => UNCHANGED <<svc, prompts>>]_vars

\* Between two runs the callbacks are those of the last configuration, unless a
\* run threw, and the sink of a run is called with the userdata that came with it.
SinkHasItsUserdata ==
    /\ pc = "host" /\ ~busy => hooks.event = hooks.userdata /\ hooks.event = hooks.perm
    /\ call.kind = "event" => call.fn = call.userdata

\* A task is cancelled only by its own sink or by a call of opencode_engine_cancel
\* that had not returned when the task began: a cancellation that was over before
\* never reaches it, not even through memory that is used again.
CancelIsForThisTask == pc \in {"drive", "callback"} /\ agent \in cancel => task \in asked

\* Safe to call from any thread: cancel writes only to an Agent that exists.
CancelIsSafe == \A c \in Cancellers : cpc[c] # "undefined"

\* Cancel the current run: a request that returns while the task runs reaches
\* the task's agent.
CancelIsNotLost ==
    task \in asked /\ pc = "drive" /\ (\A c \in Cancellers : cpc[c] = "out") => task \in cancel

\* Requests cancellation of the running task: of the one that runs when the
\* request is made.
CancelHitsItsTask == pc \in {"drive", "callback"} /\ agent \in cancel => task \in aimed

\* BUSY while a task runs, and only then.
BusyMeansRunning == busy => InTask

\* Replace configuration: no task runs on parts of two.
FailedConfigIsNotUsed == InTask => svc["cfg"] = svc["tools"]

\* The userdata of a configuration is passed to every callback of it.
UserdataIsConfigs == call.kind = "perm" => call.userdata = call.fn

\* A status of the sink other than OK becomes the run's return value.
SinkStatusIsReturned == pc = "host" /\ sink # "ok" => last = sink

\* An engine created without a configuration runs with the defaults.
DefaultsRun == applied = NoCfg => last # "invalid_cfg"

\* The task runs as the agent that the host named.
AgentIsSelected ==
    pc = "drive" /\ applied \in Cfgs => SelectedAgent(applied) = HostAgent[applied]

\* Replace configuration: the templates are those of the configuration applied.
PromptsAreReplaced == applied \in Cfgs => \A i \in Ids : prompts[i] \in {applied, NoCfg}

=============================================================================
