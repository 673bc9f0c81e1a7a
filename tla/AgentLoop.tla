----------------------------- MODULE AgentLoop -----------------------------
(***************************************************************************)
(* The agent drive loop: Agent::drive, one_round, stream_call, run_tool    *)
(* and request_cancel (src/agent/loop.cpp, loop.h) over the Session state  *)
(* it owns (src/agent/session.cpp).                                        *)
(*                                                                         *)
(* The loop runs on one thread.  request_cancel may be called at any time, *)
(* from any thread or from inside an event callback; the loop notices it   *)
(* only where it loads the flag.  The value of pc names the next load (or  *)
(* the next blocking call), and everything the code does between two of    *)
(* them is one action, so every placement of the cancellation against the  *)
(* loop is a behaviour of the model.                                       *)
(*                                                                         *)
(*   ready    drive() is not running                                       *)
(*   top      head of the round loop                                       *)
(*   attempt  head of the retry loop of one_round                          *)
(*   connect  Socket::connect                                              *)
(*   send     the request write loop                                       *)
(*   head     the response head read loop                                  *)
(*   feed     the body: the next chunk, the end, or a read error           *)
(*   frames   events of a chunk already admitted by SseParser::feed        *)
(*   backoff  sleep_backoff                                                *)
(*   tools    head of the loop over the tool calls of the round            *)
(*   run      run_tool on the first remaining call                         *)
(*   after    after that loop                                              *)
(*   exit     after the round loop                                         *)
(*                                                                         *)
(* What the server, the verify gate, the permission gate and the tools     *)
(* answer is nondeterministic.  The text of messages is left out: no       *)
(* branch of the loop depends on it.                                       *)
(***************************************************************************)
EXTENDS Integers, Sequences, FiniteSets

CONSTANTS
    Calls,      \* tool-call ids the model may ask for
    Kind,       \* what each call names: a function from Calls to Kinds
    Keys,       \* gate feedback keys (stage:file:line)
    Usages,     \* token counts a MessageDone may report (input + output)
    Cap,        \* max_tokens_per_task
    MaxRetries, \* RetryBudget::max_retries
    MaxDrives   \* bound: calls of drive() on one Session

\* plain: a read, git or shell tool;  host: a tool added by an embedder that
\* honours the cancellation token;  write: file.write or file.patch;  unknown: a
\* name the registry lacks.
Kinds == {"plain", "host", "write", "unknown"}

ASSUME KindAssumption == Kind \in [Calls -> Kinds]
ASSUME KeysAssumption == IsFiniteSet(Keys)
ASSUME UsagesAssumption == Usages \subseteq Nat
ASSUME CapAssumption == Cap \in Nat
ASSUME MaxRetriesAssumption == MaxRetries \in Nat
ASSUME MaxDrivesAssumption == MaxDrives \in Nat

-----------------------------------------------------------------------------
(* The state machine (src/agent/states.h) and the two setters of Session   *)
(* that consult its tables.  A setter asked for an illegal transition logs *)
(* a warning and leaves the state as it was, so whether set_state(x) has   *)
(* an effect depends on the path that led to it.                           *)

AgentState == {"idle", "preparing", "connecting", "streaming", "tool_phase",
               "verifying", "applying", "done", "error", "cancelled"}

is_terminal(s) == s \in {"done", "error", "cancelled"}

\* The pipeline edges that are neither a reset to idle nor a terminal exit.
Pipeline ==
    {<<"idle", "preparing">>, <<"preparing", "connecting">>,
     <<"connecting", "streaming">>, <<"connecting", "tool_phase">>,
     <<"streaming", "tool_phase">>, <<"streaming", "verifying">>,
     <<"tool_phase", "verifying">>, <<"verifying", "applying">>,
     <<"verifying", "tool_phase">>, <<"applying", "verifying">>}

\* Mutant: a task cannot end while an edit is being applied.
valid_transition_ApplyStuck(from, to) ==
    \/ from = to /\ ~is_terminal(from)
    \/ to = "idle" /\ from \in {"applying", "error", "cancelled"}
    \/ is_terminal(to) /\ ~is_terminal(from) /\ from \notin {"idle", "applying"}
    \/ <<from, to>> \in Pipeline

valid_transition(from, to) ==
    \/ from = to /\ ~is_terminal(from)
    \/ to = "idle" /\ from \in {"applying", "error", "cancelled"}
    \/ is_terminal(to) /\ ~is_terminal(from) /\ from # "idle"
    \/ <<from, to>> \in Pipeline

lane_allowed(s, l) ==
    \/ l = "none"
    \/ l = "paused" /\ s \in {"connecting", "streaming", "tool_phase", "verifying"}
    \/ l \in {"backoff", "offline"}
         /\ s \in {"connecting", "streaming", "tool_phase"}

\* Session::set_state: the state after a request to move from s to `to`.
set_state(s, to) == IF valid_transition(s, to) THEN to ELSE s

\* Session::set_lane: the lane after a request for lane `to` in state s.
set_lane(s, l, to) == IF lane_allowed(s, to) THEN to ELSE l

-----------------------------------------------------------------------------
VARIABLES
    pc,       \* where drive() is
    state,    \* Session::state_
    lane,     \* Session::lane_
    ec,       \* DriveResult::ec
    attempt,  \* one_round's attempt counter
    pending,  \* the provider's unfinished tool-call blocks
    got,      \* tool-call blocks opened by the current response
    calls,    \* tool calls collected by the sink; later, those still to run
    usage,    \* the usage collected by the sink
    perr,     \* provider_err
    tokens,   \* Session::tokens_used_
    seen,     \* feedback_seen_
    fails,    \* gate failures of this task (history)
    aborted,  \* aborted_by_feedback_
    written,  \* DriveResult::applied_edits
    saved,    \* the applied_edits of the last checkpoint
    memory,   \* kinds of entry this task wrote to the workspace memory
    answered, \* a round without tool calls set DriveResult::summary
    orphaned, \* the history holds a tool call with no result
    late,     \* connections and tool runs begun after cancel (history)
    cancel,   \* Agent::cancel_
    tcancel,  \* Agent::tool_cancel_
    drives,   \* calls of drive() so far
    ran       \* the last call of drive() got past its guards

ctl   == <<state, lane, ec>>
round == <<attempt, pending, got, calls, usage, perr>>
gate  == <<seen, fails, aborted>>
data  == <<written, saved, memory, answered, orphaned>>
task  == <<tokens, gate, data, late>>
flags == <<cancel, tcancel>>
host  == <<flags, drives, ran>>
vars  == <<pc, ctl, round, task, host>>

Locations == {"ready", "top", "attempt", "connect", "send", "head", "feed",
              "frames", "backoff", "tools", "run", "after", "exit"}

\* The part of core::Err the loop can return, by retry_class.
Retryable == {"e_net_connect", "e_net_resolve", "e_net_http", "e_net_timeout",
              "e_net_overflow", "e_rate_limit", "e_provider_err"}
Permanent == {"e_auth", "e_invalid_cfg", "e_missing_cfg", "e_model_unsup",
              "e_not_impl", "e_proto_parse", "e_internal"}
Outcomes == Retryable \cup Permanent
              \cup {"ok", "e_busy", "e_cancelled", "e_budget", "e_aborted"}

Init ==
    /\ pc = "ready" /\ state = "idle" /\ lane = "none" /\ ec = "ok"
    /\ attempt = 0 /\ pending = {} /\ got = {} /\ calls = << >>
    /\ usage = 0 /\ perr = "ok" /\ tokens = 0
    /\ seen = {} /\ fails = 0 /\ aborted = FALSE
    /\ written = {} /\ saved = {} /\ memory = {}
    /\ answered = FALSE /\ orphaned = FALSE /\ late = 0
    /\ cancel = FALSE /\ tcancel = FALSE /\ drives = 0 /\ ran = FALSE

\* Go on from one location to the next with nothing else changed.
Goto(from, to) == pc = from /\ pc' = to /\ UNCHANGED <<ctl, round, task, host>>

\* Leave the round loop with result e.
Stop(e) == pc' = "exit" /\ ec' = e

-----------------------------------------------------------------------------
(* The host.                                                               *)

\* request_cancel is two stores; the loop may run between them.
RequestCancel ==
    /\ ~cancel /\ cancel' = TRUE
    /\ UNCHANGED <<pc, ctl, round, task, tcancel, drives, ran>>

RequestToolCancel ==
    /\ cancel /\ ~tcancel /\ tcancel' = TRUE
    /\ UNCHANGED <<pc, ctl, round, task, cancel, drives, ran>>

\* The state drive() starts from: a finished task is first reset to idle.
Reset(s) == IF is_terminal(s) THEN set_state(s, "idle") ELSE s

\* drive() returns at once: the session is not idle, or already cancelled.
DriveRefused ==
    /\ pc = "ready" /\ drives < MaxDrives /\ drives' = drives + 1
    /\ state' = Reset(state)
    /\ Reset(state) # "idle" \/ cancel
    /\ ec' = IF Reset(state) # "idle" THEN "e_busy" ELSE "e_cancelled"
    /\ ran' = FALSE
    /\ UNCHANGED <<pc, lane, round, task, flags>>

DriveBegin ==
    /\ pc = "ready" /\ drives < MaxDrives /\ drives' = drives + 1
    /\ Reset(state) = "idle" /\ ~cancel
    /\ state' = set_state("idle", "preparing")
    /\ pc' = "top" /\ ec' = "ok" /\ ran' = TRUE
    /\ seen' = {} /\ fails' = 0 /\ aborted' = FALSE
    /\ written' = {} /\ memory' = {} /\ answered' = FALSE
    /\ UNCHANGED <<lane, round, tokens, saved, orphaned, late, flags>>

-----------------------------------------------------------------------------
(* The head of a round.                                                    *)

\* Mutant: continue instead of break.
TopCancelled_Continue == cancel /\ Goto("top", "top")

\* The flag ends the round loop; the result stays ok.
TopCancelled == cancel /\ Goto("top", "exit")

\* The round boundary: route a finished tool round back to idle, then on to
\* preparing, one set_state at a time.
Boundary(s) ==
    LET s1 == IF s = "tool_phase" THEN set_state(s, "verifying") ELSE s
        s2 == IF s1 = "verifying" THEN set_state(s1, "applying") ELSE s1
        s3 == IF s2 = "applying" THEN set_state(s2, "idle") ELSE s2
    IN  set_state(s3, "preparing")

budget_exhausted == tokens >= Cap

\* The round cannot start: no budget left, or assemble or ensure_provider
\* fails.
TopStopped ==
    /\ pc = "top" /\ ~cancel
    /\ state' = Boundary(state)
    /\ \/ budget_exhausted /\ Stop("e_budget")
       \/ /\ ~budget_exhausted
          /\ \E e \in {"e_missing_cfg", "e_invalid_cfg", "e_model_unsup"} : Stop(e)
    /\ UNCHANGED <<lane, round, task, host>>

\* Mutant: the flag is not looked at between rounds.
TopRound_Unchecked ==
    /\ pc = "top" /\ ~budget_exhausted
    /\ state' = Boundary(state)
    /\ pc' = "attempt" /\ attempt' = 1
    /\ pending' = {} /\ got' = {}
    /\ calls' = << >> /\ usage' = 0 /\ perr' = "ok"
    /\ UNCHANGED <<lane, ec, task, host>>

\* reset_stream and the locals of one_round.
TopRound ==
    /\ pc = "top" /\ ~cancel /\ ~budget_exhausted
    /\ state' = Boundary(state)
    /\ pc' = "attempt" /\ attempt' = 1
    /\ pending' = {} /\ got' = {}
    /\ calls' = << >> /\ usage' = 0 /\ perr' = "ok"
    /\ UNCHANGED <<lane, ec, task, host>>

-----------------------------------------------------------------------------
(* One cloud call: the retry loop of one_round around stream_call.         *)

\* Where cancel_ is loaded: the heads of the retry, write and head loops, and
\* SseParser::feed, which looks once per chunk and not per event.
CallCancelled ==
    /\ pc \in {"attempt", "send", "head", "feed"} /\ cancel
    /\ Stop("e_cancelled")
    /\ UNCHANGED <<state, lane, round, task, host>>

\* The errors of each step: build_request, split_url and the scheme check;
\* Socket::connect, and http_build_request, before cancel_ is looked at again;
\* the write loop; the head loop with the HTTP parser and http_status_error; the
\* body with its reads, chunk framing and limits.
CallErrors ==
    ({"attempt"} \X {"e_invalid_cfg", "e_not_impl"})
      \cup ({"connect", "send", "head", "feed"}
              \X {"e_net_connect", "e_net_timeout", "e_internal"})
      \cup ({"connect"} \X {"e_net_resolve", "e_net_overflow"})
      \cup ({"head", "feed"} \X {"e_net_overflow", "e_proto_parse"})
      \cup ({"head"} \X {"e_rate_limit", "e_provider_err", "e_auth",
                         "e_net_http"})

\* Mutant: one attempt too few.
decide_Early(e) == e \in Retryable /\ attempt + 1 < MaxRetries

\* RetryPolicy::decide: try again, or give up.
decide(e) == e \in Retryable /\ attempt < MaxRetries

\* An effect outside the engine that begins although cancel is already set.
Effect == late' = IF cancel THEN late + 1 ELSE late

\* stream_call returns an error: a provider error seen in the stream wins,
\* otherwise the retry policy decides.
CallFailed(l) ==
    /\ pc = l /\ (cancel => l \in {"connect", "feed"})
    /\ \E e \in {x \in Outcomes : <<l, x>> \in CallErrors} :
         \/ perr # "ok" /\ Stop(perr) /\ UNCHANGED lane
         \/ perr = "ok" /\ ~decide(e) /\ Stop(e) /\ UNCHANGED lane
         \/ /\ perr = "ok" /\ decide(e)
            /\ pc' = "backoff" /\ lane' = set_lane(state, lane, "backoff")
            /\ UNCHANGED ec
    /\ IF l = "connect" THEN Effect ELSE UNCHANGED late
    /\ UNCHANGED <<state, round, tokens, gate, data, host>>

AttemptStart ==
    /\ pc = "attempt" /\ ~cancel
    /\ pc' = "connect" /\ state' = set_state(state, "connecting")
    /\ got' = {}
    /\ UNCHANGED <<lane, ec, attempt, pending, calls, usage, perr, task, host>>

Connected ==
    /\ pc = "connect" /\ pc' = "send" /\ Effect
    /\ UNCHANGED <<ctl, round, tokens, gate, data, host>>

Sent == ~cancel /\ Goto("send", "head")

HeadDone ==
    /\ pc = "head" /\ ~cancel
    /\ pc' = "feed" /\ state' = set_state(state, "streaming")
    /\ UNCHANGED <<lane, ec, round, task, host>>

\* sleep_backoff returns, because the delay is over or cancel is set.
BackoffOver ==
    /\ pc = "backoff" /\ pc' = "attempt"
    /\ lane' = set_lane(state, lane, "none")
    /\ attempt' = attempt + 1
    /\ UNCHANGED <<state, ec, pending, got, calls, usage, perr, task, host>>

ChunkAdmitted == ~cancel /\ Goto("feed", "frames")

ChunkDone == Goto("frames", "feed")

\* The events of a frame: the provider opens a tool-call block, ...
ToolOpened(c) ==
    /\ pc = "frames" /\ c \notin got
    /\ got' = got \cup {c} /\ pending' = pending \cup {c}
    /\ UNCHANGED <<pc, ctl, attempt, calls, usage, perr, task, host>>

\* ... completes one (ToolCallDone), ...
ToolCompleted(c) ==
    /\ pc = "frames" /\ c \in pending
    /\ pending' = pending \ {c} /\ calls' = Append(calls, c)
    /\ UNCHANGED <<pc, ctl, attempt, got, usage, perr, task, host>>

\* ... ends the message (MessageDone) ...
MessageDone ==
    /\ pc = "frames" /\ usage' \in Usages
    /\ UNCHANGED <<pc, ctl, attempt, pending, got, calls, perr, task, host>>

\* ... or reports an error (ProviderError, a frame that is not JSON included).
StreamError ==
    /\ pc = "frames" /\ perr' \in {"e_auth", "e_rate_limit", "e_provider_err",
                                   "e_proto_parse"}
    /\ UNCHANGED <<pc, ctl, attempt, pending, got, calls, usage, task, host>>

\* Mutant: usage is not accounted at all.
account_tokens_None == tokens' = tokens

account_tokens == tokens' = tokens + usage

\* The body ended cleanly; cancel is not looked at here.  A provider error ends
\* the task; otherwise append_assistant, then the answer or a tool round.  The
\* branch for FinishReason::permission_denied is never taken: no adapter maps a
\* wire reason to it.
BodyDone ==
    /\ pc = "feed" /\ UNCHANGED <<lane, round, gate, written, saved, memory,
                                  orphaned, late, host>>
    /\ \/ perr # "ok" /\ Stop(perr) /\ UNCHANGED <<state, tokens, answered>>
       \/ /\ perr = "ok" /\ calls = << >> /\ account_tokens
          /\ pc' = "exit" /\ state' = set_state(state, "done")
          /\ answered' = TRUE /\ UNCHANGED ec
       \/ /\ perr = "ok" /\ calls # << >> /\ account_tokens
          /\ pc' = "tools" /\ state' = set_state(state, "tool_phase")
          /\ UNCHANGED <<answered, ec>>

-----------------------------------------------------------------------------
(* The tool round.                                                         *)

ToolsCancelled == calls # << >> /\ cancel /\ Goto("tools", "after")

\* Mutant: the flag is not looked at between tools.
ToolsNext_NoCheck == calls # << >> /\ Goto("tools", "run")

ToolsNext == calls # << >> /\ ~cancel /\ Goto("tools", "run")

ToolsOver == calls = << >> /\ Goto("tools", "after")

\* append_tool_result for the first call, then on to the next one or, on a
\* break, out of the loop.
Answer(break) ==
    /\ pc' = IF break THEN "after" ELSE "tools"
    /\ calls' = Tail(calls)
    /\ Effect
    /\ UNCHANGED <<lane, attempt, pending, got, usage, perr, tokens, saved,
                   answered, orphaned, host>>

\* What permission->run may return for a tool of kind k.  Only an embedder's
\* tool reports a cancellation; the built-in ones return an error.
ToolResults(k) ==
    IF k = "unknown" THEN {"error"}
    ELSE {"ok", "error", "denied"}
           \cup (IF k = "host" /\ tcancel THEN {"canceled"} ELSE {})

\* write_repo_rule after a denial.
RuleFor(r) == IF r = "denied" THEN {"repo_rule"} ELSE {}

RunTool ==
    /\ pc = "run" /\ Kind[Head(calls)] \in {"plain", "host", "unknown"}
    /\ \E r \in ToolResults(Kind[Head(calls)]) :
         /\ ec' = IF r = "canceled" THEN "e_cancelled" ELSE ec
         /\ memory' = memory \cup RuleFor(r)
         /\ Answer(r = "canceled")
    /\ UNCHANGED <<state, gate, written>>

\* A write tool is verified first.
Verify ==
    /\ pc = "run" /\ Kind[Head(calls)] = "write"
    /\ UNCHANGED ec

\* build_proposal cannot read the arguments.
WriteInvalid ==
    /\ Verify /\ Answer(FALSE)
    /\ state' = set_state(state, "verifying")
    /\ UNCHANGED <<gate, written, memory>>

Remember(k) == seen' = seen \cup {k}

\* A stage of the verify gate fails with feedback key k: the first time it is
\* fed back to the model, a repeat aborts the task.
WriteRejected(k) ==
    /\ Verify /\ Answer(k \in seen)
    /\ state' = set_state(state, "verifying")
    /\ fails' = fails + 1
    /\ aborted' = (aborted \/ k \in seen)
    /\ Remember(k)
    /\ UNCHANGED <<written, memory>>

\* Every stage passes and the permission gate runs the tool.  Of the patches only
\* one without a hunk line gets here: build_proposal leaves before_content and
\* after_content empty for file.patch, so the diff stage rejects the others.
WriteApplied ==
    /\ Verify /\ Answer(FALSE)
    /\ state' = set_state(set_state(state, "verifying"), "applying")
    /\ \E r \in {"ok", "error", "denied"} :
         /\ written' = IF r = "ok" THEN written \cup {Head(calls)} ELSE written
         /\ memory' = memory \cup RuleFor(r)
    /\ UNCHANGED gate

\* Mutant: the round is not checkpointed.
checkpoint_Skipped == UNCHANGED saved

\* Agent::checkpoint.
checkpoint == saved' = written

\* The result after the tool loop; anything but ok ends the round loop.
RoundResult == IF ec # "e_cancelled" /\ aborted THEN "e_aborted" ELSE ec

RoundOver ==
    /\ pc = "after" /\ checkpoint
    /\ orphaned' = (orphaned \/ calls # << >>)
    /\ ec' = RoundResult
    /\ pc' = IF RoundResult = "ok" THEN "top" ELSE "exit"
    /\ UNCHANGED <<state, lane, round, tokens, gate, written, memory,
                   answered, late, host>>

\* The terminal state that reports result e.
TerminalFor(e) == IF e = "e_cancelled" THEN "cancelled"
                  ELSE IF e = "ok" THEN "done" ELSE "error"

Finish ==
    /\ pc = "exit" /\ pc' = "ready" /\ checkpoint
    /\ state' = IF ec = "ok" /\ state = "done" THEN state
                ELSE set_state(state, TerminalFor(ec))
    /\ memory' = memory \cup (IF ec = "ok" THEN {"lesson"} ELSE {})
    /\ UNCHANGED <<lane, ec, round, tokens, gate, written, answered, orphaned,
                   late, host>>

-----------------------------------------------------------------------------
\* The response body ends, cleanly or with an error (the deadline included).
BodyOver == CallFailed("feed") \/ BodyDone

Step ==
    \/ TopCancelled \/ TopStopped \/ TopRound
    \/ CallCancelled \/ AttemptStart \/ Connected \/ Sent \/ HeadDone
    \/ \E l \in {"attempt", "connect", "send", "head"} : CallFailed(l)
    \/ BackoffOver \/ ChunkAdmitted \/ ChunkDone \/ MessageDone \/ StreamError
    \/ \E c \in Calls : ToolOpened(c) \/ ToolCompleted(c)
    \/ BodyOver
    \/ ToolsCancelled \/ ToolsNext \/ ToolsOver \/ RunTool
    \/ WriteInvalid \/ WriteApplied \/ \E k \in Keys : WriteRejected(k)
    \/ RoundOver \/ Finish

Next == Step \/ DriveRefused \/ DriveBegin \/ RequestCancel \/ RequestToolCancel

Spec == Init /\ [][Next]_vars

\* A running task takes its next step: the loop owns its thread and every
\* blocking call has a timeout.  A chunk is at most 16 KiB, so its events come
\* to an end; one absolute deadline is passed to every read of a response, so
\* a response cannot deliver chunks for ever.
Fairness == WF_vars(Step) /\ WF_vars(ChunkDone) /\ SF_vars(BodyOver)

FairSpec == Spec /\ Fairness

-----------------------------------------------------------------------------
(* Properties.                                                             *)

Requesting == {"attempt", "connect", "send", "head", "feed", "frames", "backoff"}

\* Every variable of the loop stays in the range its C++ type and use allow.
TypeOK ==
    /\ pc \in Locations /\ state \in AgentState /\ lane \in {"none", "backoff"}
    /\ cancel \in BOOLEAN /\ tcancel \in BOOLEAN
    /\ ec \in Outcomes /\ perr \in Outcomes
    /\ tokens \in Nat /\ attempt \in Nat /\ usage \in Nat
    /\ pending \subseteq Calls /\ got \subseteq Calls /\ calls \in Seq(Calls)
    /\ seen \subseteq Keys /\ fails \in Nat /\ aborted \in BOOLEAN
    /\ written \subseteq Calls /\ saved \subseteq Calls
    /\ memory \subseteq {"lesson", "repo_rule"}
    /\ answered \in BOOLEAN /\ orphaned \in BOOLEAN
    /\ late \in Nat /\ drives \in Nat /\ ran \in BOOLEAN

\* However a task ends, the terminal transition drive() asks for is legal from
\* the state the pipeline has reached, so set_state does not drop it: the host
\* sees done, cancelled or error exactly as the returned code says.
ReportsOutcome == pc = "ready" /\ ran => state = TerminalFor(ec)

\* After request_cancel the loop begins at most one more connection or tool
\* run: the one whose flag check it had already passed.
StopsAtSafePoint == late <= 1

\* The backoff lane is held during the retry pause and at no other time: it is
\* never left set when the pause ends, and never dropped when one begins.
LaneIsBackoff == (lane = "backoff") <=> (pc = "backoff")

\* A request is in progress only while the task is below its token cap, and
\* the cap is overrun by at most the usage of one response.
WithinBudget ==
    /\ pc \in Requesting => tokens < Cap
    /\ \E u \in Usages \cup {0} : tokens <= Cap + u

\* A task gives up on a transient transport error only after all the attempts
\* RetryBudget allows; an earlier exit with a retryable code is an error the
\* provider itself reported in the stream.
RetriesAreSpent ==
    pc = "ready" /\ ran /\ ec \in Retryable /\ perr = "ok"
        => attempt >= MaxRetries

\* Gate feedback is deduplicated by its key, so a task survives each key once:
\* it ends e_aborted on the first repeat, and the gate rejects at most one
\* edit more than there are keys, whatever the model keeps proposing.
FeedbackIsBounded ==
    /\ fails <= Cardinality(Keys) + 1
    /\ pc = "ready" /\ ran => (aborted <=> ec = "e_aborted")

\* Once the result of the task is decided (an error code, a cancelled tool or
\* a repeated gate failure) the loop only leaves: it sends no further request
\* and runs no further tool.
DecidedMeansLeaving ==
    pc # "ready" /\ (ec # "ok" \/ aborted) => pc \in {"after", "exit"}

\* A task reported done without a final answer of the model was cancelled.
NoSilentDone == pc = "ready" /\ ran /\ ec = "ok" => answered \/ cancel

\* A task keeps to its limits and ends for a reason it can name: the token cap,
\* the retries and the gate feedback are used up before it gives up and not
\* overrun, the backoff lane is only held in a pause, nothing is begun once the
\* outcome is decided, and an ok without an answer was a cancellation.
LimitsAreKept ==
    /\ WithinBudget /\ RetriesAreSpent /\ FeedbackIsBounded
    /\ LaneIsBackoff /\ DecidedMeansLeaving /\ NoSilentDone

\* In the first task of a session no request is sent while the history holds a
\* tool call without a result, although cancellation and aborts leave the tool
\* loop in the middle of a round.
HistoryIsComplete == pc \in Requesting /\ drives = 1 => ~orphaned

\* Outside a tool round every applied edit is in the last checkpoint, so a
\* crash while a request is in flight loses none of them.
EditsAreCheckpointed ==
    pc \notin {"tools", "run", "after"} => written \subseteq saved

\* Every task ends: drive() returns.
Terminates == pc # "ready" ~> pc = "ready"

\* A task ends provided that, from some point on, every response that asks for
\* tools reports how many tokens it used: the token cap is what bounds the
\* number of tool rounds, and only accounted tokens count against it.
MeteredTasksEnd == <>[](pc = "tools" => usage > 0) => Terminates

\* A cancelled agent comes to rest, even if the provider reports no usage and
\* the budget never runs out.
CancelStops == cancel ~> [](pc = "ready")

-----------------------------------------------------------------------------
(* Statements of the documentation that the loop does not meet.            *)

\* docs/ABI.md: after a cancel request "the running task stops at the next
\* safe point and reports CANCELLED".  A task that stopped without a final
\* answer would therefore never be reported ok.
CancelIsReported == pc = "ready" /\ ran /\ ec = "ok" => answered

\* states.h: cancelled means "host cancelled; rolled back cleanly", so a
\* cancelled task would leave no applied edit behind.
CancelRollsBack == pc = "ready" /\ ran /\ state = "cancelled" => written = {}

\* states.h: after a terminal state "the loop reports and returns to idle",
\* and idle "accepts the next user turn", so a drive() that no other task
\* overlaps would never be refused as busy.
NextTurnAccepted == ec # "e_busy"

\* provider.h: adapters keep per-stream accumulation state, "call
\* reset_stream() before each request", so no request would begin with
\* tool-call blocks left over from an earlier response.
StreamStateIsFresh == pc = "connect" => pending = {}

\* states.h: connecting covers "transport connect / request send", so the
\* state shown to the host while a request is being sent would be connecting.
ConnectingIsShown == pc \in {"connect", "send"} => state = "connecting"

=============================================================================
