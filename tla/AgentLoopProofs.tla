-------------------------- MODULE AgentLoopProofs --------------------------
(***************************************************************************)
(* Proofs about the agent drive loop for every set of tool calls, kinds,   *)
(* feedback keys and usages, every token cap, retry budget and number of   *)
(* drive() calls on a session.                                             *)
(***************************************************************************)
EXTENDS AgentLoop, FiniteSetTheorems, TLAPS

\* run_tool is entered with a call to run.
HasCall == pc = "run" => calls # << >>

TypeInv == TypeOK /\ HasCall

\* The loop starts with every variable in its type.
LEMMA TypeInit == Init => TypeInv
  <2> SUFFICES ASSUME Init PROVE TypeInv
    OBVIOUS
  <2>1. /\ cancel \in BOOLEAN /\ tcancel \in BOOLEAN /\ aborted \in BOOLEAN
        /\ answered \in BOOLEAN /\ orphaned \in BOOLEAN /\ ran \in BOOLEAN
    BY Zenon DEF Init
  <2>2. pc \in Locations /\ state \in AgentState /\ ec \in Outcomes /\ perr \in Outcomes
    BY DEF Init, Locations, AgentState, Outcomes
  <2>3. calls \in Seq(Calls)
    BY DEF Init
  <2> QED
    BY <2>1, <2>2, <2>3 DEF Init, TypeInv, HasCall, TypeOK

\* Every step of the loop keeps every variable in its type.
LEMMA TypeStep == TypeInv /\ [Next]_vars => TypeInv'
  <2> SUFFICES ASSUME TypeInv, [Next]_vars PROVE TypeInv'
    OBVIOUS
  <2> USE UsagesAssumption, KindAssumption DEF TypeInv, HasCall, TypeOK, vars, ctl, round, task,
          gate, data, flags, host, Outcomes, Retryable, Permanent, Locations
  <2>1. CASE TopCancelled BY <2>1 DEF TopCancelled, Goto
  <2>2. CASE TopStopped BY <2>2 DEF TopStopped, Stop, Boundary, set_state, AgentState
  <2>3. CASE TopRound BY <2>3 DEF TopRound, Boundary, set_state, AgentState
  <2>4. CASE CallCancelled BY <2>4 DEF CallCancelled, Stop
  <2>5. CASE AttemptStart BY <2>5 DEF AttemptStart, set_state, AgentState
  <2>6. CASE Connected BY <2>6 DEF Connected, Effect
  <2>7. CASE Sent BY <2>7 DEF Sent, Goto
  <2>8. CASE HeadDone BY <2>8 DEF HeadDone, set_state, AgentState
  <2>9. CASE \E l \in {"attempt", "connect", "send", "head", "feed"} : CallFailed(l)
    BY <2>9 DEF CallFailed, CallErrors, Stop, Effect, set_lane
  <2>10. CASE BackoffOver BY <2>10 DEF BackoffOver, set_lane
  <2>11. CASE ChunkAdmitted BY <2>11 DEF ChunkAdmitted, Goto
  <2>12. CASE ChunkDone BY <2>12 DEF ChunkDone, Goto
  <2>13. CASE MessageDone BY <2>13 DEF MessageDone
  <2>14. CASE StreamError BY <2>14 DEF StreamError
  <2>15. CASE \E c \in Calls : ToolOpened(c) \/ ToolCompleted(c)
    <3> PICK c \in Calls : ToolOpened(c) \/ ToolCompleted(c) BY <2>15
    <3>1. CASE ToolOpened(c) BY <3>1 DEF ToolOpened
    <3>2. CASE ToolCompleted(c) BY <3>2 DEF ToolCompleted
    <3> QED BY <3>1, <3>2
  <2>16. CASE BodyDone
    <3>1. /\ state' \in AgentState /\ pc' \in Locations /\ ec' \in Outcomes
          /\ answered' \in BOOLEAN
      BY Zenon, <2>16 DEF BodyDone, Stop, set_state, AgentState
    <3>2. tokens' \in Nat
      BY <2>16 DEF BodyDone, account_tokens
    <3>3. pc' # "run"
      BY <2>16 DEF BodyDone, Stop
    <3> QED BY <2>16, <3>1, <3>2, <3>3 DEF BodyDone
  <2>17. CASE ToolsCancelled BY <2>17 DEF ToolsCancelled, Goto
  <2>18. CASE ToolsNext BY <2>18 DEF ToolsNext, Goto
  <2>19. CASE ToolsOver BY <2>19 DEF ToolsOver, Goto
  <2>20. CASE RunTool
    BY <2>20 DEF RunTool, Answer, Effect, ToolResults, RuleFor
  <2>21. CASE WriteInvalid
    BY <2>21 DEF WriteInvalid, Verify, Answer, Effect, set_state, AgentState
  <2>22. CASE WriteApplied
    BY <2>22 DEF WriteApplied, Verify, Answer, Effect, RuleFor, set_state, AgentState
  <2>23. CASE \E k \in Keys : WriteRejected(k)
    BY <2>23 DEF WriteRejected, Remember, Verify, Answer, Effect, set_state, AgentState
  <2>24. CASE RoundOver BY <2>24 DEF RoundOver, RoundResult, checkpoint
  <2>25. CASE Finish BY <2>25 DEF Finish, checkpoint, set_state, TerminalFor, AgentState
  <2>26. CASE DriveRefused
    <3>1. ran' \in BOOLEAN BY Zenon, <2>26 DEF DriveRefused
    <3>2. state' \in AgentState BY <2>26 DEF DriveRefused, Reset, set_state, AgentState
    <3>3. ec' \in Outcomes BY <2>26 DEF DriveRefused
    <3>4. drives' \in Nat BY <2>26, MaxDrivesAssumption DEF DriveRefused
    <3> QED BY <2>26, <3>1, <3>2, <3>3, <3>4 DEF DriveRefused
  <2>27. CASE DriveBegin
    <3>1. ran' \in BOOLEAN /\ aborted' \in BOOLEAN /\ answered' \in BOOLEAN
      BY Zenon, <2>27 DEF DriveBegin
    <3>2. state' \in AgentState BY <2>27 DEF DriveBegin, set_state, AgentState
    <3>3. drives' \in Nat BY <2>27, MaxDrivesAssumption DEF DriveBegin
    <3> QED BY <2>27, <3>1, <3>2, <3>3 DEF DriveBegin
  <2>28. CASE RequestCancel BY <2>28 DEF RequestCancel
  <2>29. CASE RequestToolCancel BY <2>29 DEF RequestToolCancel
  <2>30. CASE UNCHANGED vars BY <2>30
  <2>31. QED
    BY ZenonT(30), <2>1, <2>2, <2>3, <2>4, <2>5, <2>6, <2>7, <2>8, <2>9, <2>10, <2>11,
       <2>12, <2>13, <2>14, <2>15, <2>16, <2>17, <2>18, <2>19, <2>20, <2>21,
       <2>22, <2>23, <2>24, <2>25, <2>26, <2>27, <2>28, <2>29, <2>30
       DEF Next, Step, BodyOver

\* Every variable of the loop keeps its type: each handler of the loop assigns
\* only values its C++ type and use allow.
THEOREM TypeCorrect == Spec => []TypeOK
  BY TypeInit, TypeStep, PTL DEF Spec, TypeInv

-----------------------------------------------------------------------------
(* Every transition drive() asks for is legal where it asks for it, but for *)
(* one: connecting, on a retry after the response had begun, is dropped and *)
(* the state stays streaming.  The invariant says which states each program *)
(* location can see, and which results the exit can.                        *)

Active == {"preparing", "connecting", "streaming", "tool_phase", "verifying",
           "applying"}

StateAt ==
    /\ pc = "top" => state \in {"preparing", "tool_phase", "verifying", "applying"}
    /\ pc = "attempt" => state \in {"preparing", "connecting", "streaming"}
    /\ pc \in {"connect", "send", "head", "backoff"} => state \in {"connecting", "streaming"}
    /\ pc \in {"feed", "frames"} => state = "streaming"
    /\ pc \in {"tools", "run", "after"} => state \in {"tool_phase", "verifying", "applying"}
    /\ pc = "exit" => state \in Active \/ (state = "done" /\ ec = "ok")
    /\ pc = "ready" /\ ran => state = TerminalFor(ec)

ResultAt ==
    /\ pc # "ready" => ran
    /\ perr \in {"ok", "e_auth", "e_rate_limit", "e_provider_err", "e_proto_parse"}
    /\ pc \in {"attempt", "connect", "send", "head", "backoff"} => perr = "ok"
    /\ pc \notin {"ready", "after", "exit"} => ec = "ok" /\ ~aborted
    /\ pc = "after" => ec \in {"ok", "e_cancelled"} /\ (aborted => ec = "ok")

\* What holds of the result from the exit of the round loop on.
Decided ==
    ran /\ pc \in {"exit", "ready"} =>
        /\ aborted <=> ec = "e_aborted"
        /\ ec = "ok" => answered \/ cancel
        /\ ec \in Retryable /\ perr = "ok" => attempt >= MaxRetries

LateInv == late \in {0, 1} /\ (late = 1 => cancel /\ pc \notin {"connect", "run"})

Flow == StateAt /\ ResultAt /\ Decided /\ LateInv /\ LaneIsBackoff

\* Requests a task meets on the way round the pipeline are all granted, ...
LEMMA PipelineRequests ==
    /\ set_state("idle", "preparing") = "preparing"
    /\ set_state("preparing", "connecting") = "connecting"
    /\ set_state("connecting", "connecting") = "connecting"
    /\ set_state("connecting", "streaming") = "streaming"
    /\ set_state("streaming", "streaming") = "streaming"
    /\ set_state("streaming", "tool_phase") = "tool_phase"
    /\ set_state("tool_phase", "verifying") = "verifying"
    /\ set_state("verifying", "verifying") = "verifying"
    /\ set_state("applying", "verifying") = "verifying"
    /\ set_state("verifying", "applying") = "applying"
    /\ set_state("applying", "idle") = "idle"
    /\ set_state("preparing", "preparing") = "preparing"
  BY DEF set_state, valid_transition, is_terminal, Pipeline

\* ... but for connecting on a retry, which a response in progress drops.
LEMMA RetryRequest == set_state("streaming", "connecting") = "streaming"
  BY DEF set_state, valid_transition, is_terminal, Pipeline

\* The round boundary leads from every state a round can end in to preparing.
LEMMA BoundaryRequests ==
    \A s \in {"preparing", "tool_phase", "verifying", "applying"} :
        Boundary(s) = "preparing"
  BY PipelineRequests DEF Boundary

\* Every terminal request is granted while a task is active.
LEMMA TerminalRequests ==
    \A s \in Active, e \in Outcomes : set_state(s, TerminalFor(e)) = TerminalFor(e)
  BY DEF set_state, valid_transition, is_terminal, Active, TerminalFor

\* The final answer of the model is reported from the streaming state.
LEMMA DoneRequest == set_state("streaming", "done") = "done"
  BY DEF set_state, valid_transition, is_terminal

\* What set_lane does at the ends of a retry pause.
LEMMA LaneRequests ==
    \A s \in {"connecting", "streaming"}, l \in {"none", "backoff"} :
        set_lane(s, l, "backoff") = "backoff" /\ set_lane(s, l, "none") = "none"
  BY Zenon DEF set_lane, lane_allowed

\* A step of the loop, of its callers or of a cancelling thread leads each
\* location to one of the states it can see.
LEMMA StateStep ==
    ASSUME TypeOK, StateAt, ResultAt, [Next]_vars
    PROVE  StateAt'
  <2> USE DEF StateAt, ResultAt, vars, ctl, host
  <2>1. CASE TopCancelled BY <2>1 DEF TopCancelled, Goto, Active
  <2>2. CASE TopStopped BY <2>2, BoundaryRequests DEF TopStopped, Stop, Active
  <2>3. CASE TopRound BY <2>3, BoundaryRequests DEF TopRound
  <2>4. CASE CallCancelled BY <2>4 DEF CallCancelled, Stop, Active
  <2>5. CASE AttemptStart BY <2>5, PipelineRequests, RetryRequest DEF AttemptStart
  <2>6. CASE Connected BY <2>6 DEF Connected
  <2>7. CASE Sent BY <2>7 DEF Sent, Goto
  <2>8. CASE HeadDone BY <2>8, PipelineRequests DEF HeadDone
  <2>9. ASSUME NEW l \in {"attempt", "connect", "send", "head", "feed"}, CallFailed(l)
        PROVE  StateAt'
    BY <2>9 DEF CallFailed, CallErrors, decide, Retryable, Stop, Active
  <2>10. CASE BackoffOver BY <2>10 DEF BackoffOver
  <2>11. CASE ChunkAdmitted BY <2>11 DEF ChunkAdmitted, Goto
  <2>12. CASE ChunkDone BY <2>12 DEF ChunkDone, Goto
  <2>13. CASE MessageDone BY <2>13 DEF MessageDone
  <2>14. CASE StreamError BY <2>14 DEF StreamError
  <2>15. CASE \E c \in Calls : ToolOpened(c) \/ ToolCompleted(c)
    BY <2>15 DEF ToolOpened, ToolCompleted
  <2>16. CASE BodyDone
    BY <2>16, PipelineRequests, DoneRequest DEF BodyDone, Stop, Active
  <2>17. CASE ToolsCancelled BY <2>17 DEF ToolsCancelled, Goto
  <2>18. CASE ToolsNext BY <2>18 DEF ToolsNext, Goto
  <2>19. CASE ToolsOver BY <2>19 DEF ToolsOver, Goto
  <2>20. CASE RunTool BY <2>20 DEF RunTool, Answer
  <2>21. CASE WriteInvalid BY <2>21, PipelineRequests DEF WriteInvalid, Verify, Answer
  <2>22. CASE WriteApplied BY <2>22, PipelineRequests DEF WriteApplied, Verify, Answer
  <2>23. CASE \E k \in Keys : WriteRejected(k)
    BY <2>23, PipelineRequests DEF WriteRejected, Verify, Answer
  <2>24. CASE RoundOver BY <2>24 DEF RoundOver, Active
  <2>25. CASE Finish
    <3>1. pc = "exit" /\ pc' = "ready" /\ ec' = ec /\ ran' = ran /\ ec \in Outcomes
      BY <2>25 DEF Finish, TypeOK
    <3>2. CASE state = "done"
      BY <2>25, <3>1, <3>2 DEF Finish, TerminalFor, Active
    <3>3. CASE state # "done"
      BY <2>25, <3>1, <3>3, TerminalRequests DEF Finish
    <3> QED BY <3>2, <3>3
  <2>26. CASE DriveRefused BY <2>26 DEF DriveRefused
  <2>27. CASE DriveBegin BY <2>27, PipelineRequests DEF DriveBegin
  <2>28. CASE RequestCancel BY <2>28 DEF RequestCancel
  <2>29. CASE RequestToolCancel BY <2>29 DEF RequestToolCancel
  <2>30. CASE UNCHANGED vars BY Zenon, <2>30
  <2>31. QED
    BY ZenonT(30), <2>1, <2>2, <2>3, <2>4, <2>5, <2>6, <2>7, <2>8, <2>9, <2>10, <2>11,
       <2>12, <2>13, <2>14, <2>15, <2>16, <2>17, <2>18, <2>19, <2>20, <2>21,
       <2>22, <2>23, <2>24, <2>25, <2>26, <2>27, <2>28, <2>29, <2>30
       DEF Next, Step, BodyOver

\* Every step keeps the result in step with the location: nothing but the
\* exits sets a code, and what is left of the round after a code is set is only
\* the way out.
LEMMA ResultStep ==
    ASSUME TypeOK, ResultAt, [Next]_vars
    PROVE  ResultAt'
  <2> USE DEF ResultAt, vars, ctl, round, task, gate, host
  <2>1. CASE TopCancelled BY <2>1 DEF TopCancelled, Goto
  <2>2. CASE TopStopped BY <2>2 DEF TopStopped, Stop
  <2>3. CASE TopRound BY <2>3 DEF TopRound
  <2>4. CASE CallCancelled BY <2>4 DEF CallCancelled, Stop
  <2>5. CASE AttemptStart BY <2>5 DEF AttemptStart
  <2>6. CASE Connected BY <2>6 DEF Connected
  <2>7. CASE Sent BY <2>7 DEF Sent, Goto
  <2>8. CASE HeadDone BY <2>8 DEF HeadDone
  <2>9. ASSUME NEW l \in {"attempt", "connect", "send", "head", "feed"}, CallFailed(l)
        PROVE  ResultAt'
    BY <2>9 DEF CallFailed, Stop
  <2>10. CASE BackoffOver BY <2>10 DEF BackoffOver
  <2>11. CASE ChunkAdmitted BY <2>11 DEF ChunkAdmitted, Goto
  <2>12. CASE ChunkDone BY <2>12 DEF ChunkDone, Goto
  <2>13. CASE MessageDone BY <2>13 DEF MessageDone
  <2>14. CASE StreamError BY <2>14 DEF StreamError
  <2>15. CASE \E c \in Calls : ToolOpened(c) \/ ToolCompleted(c)
    BY <2>15 DEF ToolOpened, ToolCompleted
  <2>16. CASE BodyDone BY <2>16 DEF BodyDone, Stop
  <2>17. CASE ToolsCancelled BY <2>17 DEF ToolsCancelled, Goto
  <2>18. CASE ToolsNext BY <2>18 DEF ToolsNext, Goto
  <2>19. CASE ToolsOver BY <2>19 DEF ToolsOver, Goto
  <2>20. CASE RunTool BY <2>20 DEF RunTool, Answer
  <2>21. CASE WriteInvalid BY <2>21 DEF WriteInvalid, Verify, Answer
  <2>22. CASE WriteApplied BY <2>22 DEF WriteApplied, Verify, Answer
  <2>23. CASE \E k \in Keys : WriteRejected(k)
    <3> PICK k \in Keys : WriteRejected(k) BY <2>23
    <3>1. pc = "run" /\ ec = "ok" /\ ~aborted /\ ec' = ec /\ ran' = ran /\ perr' = perr
      BY DEF WriteRejected, Verify, Answer
    <3>2. CASE k \in seen
      <4>1. pc' = "after" BY <3>2 DEF WriteRejected, Answer
      <4> QED BY <3>1, <4>1
    <3>3. CASE k \notin seen
      <4>1. pc' = "tools" BY <3>3 DEF WriteRejected, Answer
      <4>2. ~aborted' BY Zenon, <3>1, <3>3 DEF WriteRejected
      <4> QED BY <3>1, <4>1, <4>2
    <3> QED BY <3>2, <3>3
  <2>24. CASE RoundOver BY <2>24 DEF RoundOver, RoundResult
  <2>25. CASE Finish BY <2>25 DEF Finish
  <2>26. CASE DriveRefused BY <2>26 DEF DriveRefused
  <2>27. CASE DriveBegin BY <2>27 DEF DriveBegin
  <2>28. CASE RequestCancel BY <2>28 DEF RequestCancel
  <2>29. CASE RequestToolCancel BY <2>29 DEF RequestToolCancel
  <2>30. CASE UNCHANGED vars BY <2>30
  <2>31. QED
    BY ZenonT(30), <2>1, <2>2, <2>3, <2>4, <2>5, <2>6, <2>7, <2>8, <2>9, <2>10, <2>11,
       <2>12, <2>13, <2>14, <2>15, <2>16, <2>17, <2>18, <2>19, <2>20, <2>21,
       <2>22, <2>23, <2>24, <2>25, <2>26, <2>27, <2>28, <2>29, <2>30
       DEF Next, Step, BodyOver

\* Every step keeps what Decided says of the result of a task.
LEMMA DecidedStep ==
    ASSUME TypeOK, ResultAt, Decided, [Next]_vars
    PROVE  Decided'
  <2> USE DEF ResultAt, Decided, Retryable, vars, ctl, round, task, gate, data, flags, host
  <2>1. CASE TopCancelled BY <2>1 DEF TopCancelled, Goto
  <2>2. CASE TopStopped BY <2>2 DEF TopStopped, Stop
  <2>3. CASE TopRound BY <2>3 DEF TopRound
  <2>4. CASE CallCancelled BY <2>4 DEF CallCancelled, Stop
  <2>5. CASE AttemptStart BY <2>5 DEF AttemptStart
  <2>6. CASE Connected BY <2>6 DEF Connected
  <2>7. CASE Sent BY <2>7 DEF Sent, Goto
  <2>8. CASE HeadDone BY <2>8 DEF HeadDone
  <2>9. ASSUME NEW l \in {"attempt", "connect", "send", "head", "feed"}, CallFailed(l)
        PROVE  Decided'
    BY <2>9, MaxRetriesAssumption DEF CallFailed, CallErrors, decide, Stop, TypeOK
  <2>10. CASE BackoffOver BY <2>10 DEF BackoffOver
  <2>11. CASE ChunkAdmitted BY <2>11 DEF ChunkAdmitted, Goto
  <2>12. CASE ChunkDone BY <2>12 DEF ChunkDone, Goto
  <2>13. CASE MessageDone BY <2>13 DEF MessageDone
  <2>14. CASE StreamError BY <2>14 DEF StreamError
  <2>15. CASE \E c \in Calls : ToolOpened(c) \/ ToolCompleted(c)
    BY Zenon, <2>15 DEF ToolOpened, ToolCompleted
  <2>16. CASE BodyDone BY <2>16 DEF BodyDone, Stop
  <2>17. CASE ToolsCancelled BY <2>17 DEF ToolsCancelled, Goto
  <2>18. CASE ToolsNext BY <2>18 DEF ToolsNext, Goto
  <2>19. CASE ToolsOver BY <2>19 DEF ToolsOver, Goto
  <2>20. CASE RunTool BY <2>20 DEF RunTool, Answer
  <2>21. CASE WriteInvalid BY <2>21 DEF WriteInvalid, Verify, Answer
  <2>22. CASE WriteApplied BY <2>22 DEF WriteApplied, Verify, Answer
  <2>23. CASE \E k \in Keys : WriteRejected(k)
    BY <2>23 DEF WriteRejected, Verify, Answer
  <2>24. CASE RoundOver BY <2>24 DEF RoundOver, RoundResult
  <2>25. CASE Finish BY <2>25 DEF Finish
  <2>26. CASE DriveRefused BY <2>26 DEF DriveRefused
  <2>27. CASE DriveBegin BY <2>27 DEF DriveBegin
  <2>28. CASE RequestCancel BY <2>28 DEF RequestCancel
  <2>29. CASE RequestToolCancel BY <2>29 DEF RequestToolCancel
  <2>30. CASE UNCHANGED vars BY <2>30
  <2>31. QED
    BY ZenonT(30), <2>1, <2>2, <2>3, <2>4, <2>5, <2>6, <2>7, <2>8, <2>9, <2>10, <2>11,
       <2>12, <2>13, <2>14, <2>15, <2>16, <2>17, <2>18, <2>19, <2>20, <2>21,
       <2>22, <2>23, <2>24, <2>25, <2>26, <2>27, <2>28, <2>29, <2>30
       DEF Next, Step, BodyOver

\* Every step keeps the count of late effects at one, because the step after a
\* late effect is a load of the flag.
LEMMA LateStep ==
    ASSUME TypeOK, LateInv, [Next]_vars
    PROVE  LateInv'
  <2> USE DEF LateInv, vars, task, flags, host
  <2>1. CASE TopCancelled BY <2>1 DEF TopCancelled, Goto
  <2>2. CASE TopStopped BY <2>2 DEF TopStopped, Stop
  <2>3. CASE TopRound BY <2>3 DEF TopRound
  <2>4. CASE CallCancelled BY <2>4 DEF CallCancelled, Stop
  <2>5. CASE AttemptStart BY <2>5 DEF AttemptStart
  <2>6. CASE Connected BY <2>6 DEF Connected, Effect
  <2>7. CASE Sent BY <2>7 DEF Sent, Goto
  <2>8. CASE HeadDone BY <2>8 DEF HeadDone
  <2>9. ASSUME NEW l \in {"attempt", "connect", "send", "head", "feed"}, CallFailed(l)
        PROVE  LateInv'
    BY <2>9 DEF CallFailed, Stop, Effect
  <2>10. CASE BackoffOver BY <2>10 DEF BackoffOver
  <2>11. CASE ChunkAdmitted BY <2>11 DEF ChunkAdmitted, Goto
  <2>12. CASE ChunkDone BY <2>12 DEF ChunkDone, Goto
  <2>13. CASE MessageDone BY <2>13 DEF MessageDone
  <2>14. CASE StreamError BY <2>14 DEF StreamError
  <2>15. CASE \E c \in Calls : ToolOpened(c) \/ ToolCompleted(c)
    BY <2>15 DEF ToolOpened, ToolCompleted
  <2>16. CASE BodyDone BY <2>16 DEF BodyDone, Stop
  <2>17. CASE ToolsCancelled BY <2>17 DEF ToolsCancelled, Goto
  <2>18. CASE ToolsNext BY <2>18 DEF ToolsNext, Goto
  <2>19. CASE ToolsOver BY <2>19 DEF ToolsOver, Goto
  <2>20. CASE RunTool BY <2>20 DEF RunTool, Answer, Effect
  <2>21. CASE WriteInvalid BY <2>21 DEF WriteInvalid, Verify, Answer, Effect
  <2>22. CASE WriteApplied BY <2>22 DEF WriteApplied, Verify, Answer, Effect
  <2>23. CASE \E k \in Keys : WriteRejected(k)
    BY <2>23 DEF WriteRejected, Verify, Answer, Effect
  <2>24. CASE RoundOver BY <2>24 DEF RoundOver
  <2>25. CASE Finish BY <2>25 DEF Finish
  <2>26. CASE DriveRefused BY <2>26 DEF DriveRefused
  <2>27. CASE DriveBegin BY <2>27 DEF DriveBegin
  <2>28. CASE RequestCancel BY <2>28 DEF RequestCancel
  <2>29. CASE RequestToolCancel BY <2>29 DEF RequestToolCancel
  <2>30. CASE UNCHANGED vars BY <2>30
  <2>31. QED
    BY <2>1, <2>2, <2>3, <2>4, <2>5, <2>6, <2>7, <2>8, <2>9, <2>10, <2>11,
       <2>12, <2>13, <2>14, <2>15, <2>16, <2>17, <2>18, <2>19, <2>20, <2>21,
       <2>22, <2>23, <2>24, <2>25, <2>26, <2>27, <2>28, <2>29, <2>30
       DEF Next, Step, BodyOver

\* Every step keeps the backoff lane to the retry pause.
LEMMA LaneStep ==
    ASSUME TypeOK, StateAt, LaneIsBackoff, [Next]_vars
    PROVE  LaneIsBackoff'
  <2> USE DEF LaneIsBackoff, vars, ctl
  <2>1. CASE TopCancelled BY <2>1 DEF TopCancelled, Goto
  <2>2. CASE TopStopped BY <2>2 DEF TopStopped, Stop
  <2>3. CASE TopRound BY <2>3 DEF TopRound
  <2>4. CASE CallCancelled BY <2>4 DEF CallCancelled, Stop
  <2>5. CASE AttemptStart BY <2>5 DEF AttemptStart
  <2>6. CASE Connected BY <2>6 DEF Connected
  <2>7. CASE Sent BY <2>7 DEF Sent, Goto
  <2>8. CASE HeadDone BY <2>8 DEF HeadDone
  <2>9. ASSUME NEW l \in {"attempt", "connect", "send", "head", "feed"}, CallFailed(l)
        PROVE  LaneIsBackoff'
    BY <2>9, LaneRequests DEF CallFailed, CallErrors, decide, Retryable, Stop, StateAt, TypeOK
  <2>10. CASE BackoffOver BY <2>10, LaneRequests DEF BackoffOver, StateAt, TypeOK
  <2>11. CASE ChunkAdmitted BY <2>11 DEF ChunkAdmitted, Goto
  <2>12. CASE ChunkDone BY <2>12 DEF ChunkDone, Goto
  <2>13. CASE MessageDone BY <2>13 DEF MessageDone
  <2>14. CASE StreamError BY <2>14 DEF StreamError
  <2>15. CASE \E c \in Calls : ToolOpened(c) \/ ToolCompleted(c)
    BY <2>15 DEF ToolOpened, ToolCompleted
  <2>16. CASE BodyDone BY <2>16 DEF BodyDone, Stop
  <2>17. CASE ToolsCancelled BY <2>17 DEF ToolsCancelled, Goto
  <2>18. CASE ToolsNext BY <2>18 DEF ToolsNext, Goto
  <2>19. CASE ToolsOver BY <2>19 DEF ToolsOver, Goto
  <2>20. CASE RunTool BY <2>20 DEF RunTool, Answer
  <2>21. CASE WriteInvalid BY <2>21 DEF WriteInvalid, Verify, Answer
  <2>22. CASE WriteApplied BY <2>22 DEF WriteApplied, Verify, Answer
  <2>23. CASE \E k \in Keys : WriteRejected(k)
    BY <2>23 DEF WriteRejected, Verify, Answer
  <2>24. CASE RoundOver BY <2>24 DEF RoundOver
  <2>25. CASE Finish BY <2>25 DEF Finish
  <2>26. CASE DriveRefused BY <2>26 DEF DriveRefused
  <2>27. CASE DriveBegin BY <2>27 DEF DriveBegin
  <2>28. CASE RequestCancel BY <2>28 DEF RequestCancel
  <2>29. CASE RequestToolCancel BY <2>29 DEF RequestToolCancel
  <2>30. CASE UNCHANGED vars BY <2>30
  <2>31. QED
    BY <2>1, <2>2, <2>3, <2>4, <2>5, <2>6, <2>7, <2>8, <2>9, <2>10, <2>11,
       <2>12, <2>13, <2>14, <2>15, <2>16, <2>17, <2>18, <2>19, <2>20, <2>21,
       <2>22, <2>23, <2>24, <2>25, <2>26, <2>27, <2>28, <2>29, <2>30
       DEF Next, Step, BodyOver

\* The inductive invariant of the control flow.
LEMMA FlowInvariant == Spec => [](TypeInv /\ Flow)
<1>1. Init => TypeInv /\ Flow
  <2> SUFFICES ASSUME Init PROVE Flow
    BY TypeInit
  <2>1. pc = "ready" /\ ~ran /\ perr = "ok" /\ late = 0 /\ lane = "none"
    BY DEF Init
  <2> QED
    BY <2>1 DEF Flow, StateAt, ResultAt, Decided, LateInv, LaneIsBackoff
<1>2. TypeInv /\ Flow /\ [Next]_vars => (TypeInv /\ Flow)'
  BY TypeStep, StateStep, ResultStep, DecidedStep, LateStep, LaneStep
     DEF TypeInv, Flow
<1>3. QED
  BY <1>1, <1>2, PTL DEF Spec

\* A finished task is shown to the host in the terminal state its result code
\* stands for: drive()'s last set_state is never dropped.
THEOREM OutcomeIsReported == Spec => []ReportsOutcome
  <1>1. Flow => ReportsOutcome
    BY DEF Flow, StateAt, ReportsOutcome
  <1> QED BY <1>1, FlowInvariant, PTL

\* After request_cancel at most one connection or tool run still begins.
THEOREM CancelIsPrompt == Spec => []StopsAtSafePoint
  <1>1. Flow => StopsAtSafePoint
    BY DEF Flow, LateInv, StopsAtSafePoint
  <1> QED BY <1>1, FlowInvariant, PTL

\* The backoff lane is set exactly while one_round pauses between attempts.
THEOREM LaneIsSelfResuming == Spec => []LaneIsBackoff
  <1>1. Flow => LaneIsBackoff
    BY DEF Flow
  <1> QED BY <1>1, FlowInvariant, PTL

\* one_round returns a retryable transport error only when its attempts are
\* spent.
THEOREM NeverGivesUpEarly == Spec => []RetriesAreSpent
  <1>1. Flow => RetriesAreSpent
    BY DEF Flow, Decided, RetriesAreSpent
  <1> QED BY <1>1, FlowInvariant, PTL

\* Once a result is decided drive() sends no request and runs no tool.
THEOREM DecisionIsFinal == Spec => []DecidedMeansLeaving
  <1>1. Flow => DecidedMeansLeaving
    BY DEF Flow, ResultAt, DecidedMeansLeaving
  <1> QED BY <1>1, FlowInvariant, PTL

\* A task reported done without an answer of the model was cancelled.
THEOREM DoneIsAnswered == Spec => []NoSilentDone
  <1>1. Flow => NoSilentDone
    BY Zenon DEF Flow, Decided, NoSilentDone
  <1> QED BY <1>1, FlowInvariant, PTL

-----------------------------------------------------------------------------
(* The token budget.                                                       *)

\* The usage waiting to be accounted is one a response reported.
BudgetInv == usage \in Usages \cup {0} /\ WithinBudget

\* Only append_assistant spends tokens, and only in a round that began below
\* the cap.
LEMMA BudgetStep ==
    ASSUME TypeOK, BudgetInv, [Next]_vars
    PROVE  BudgetInv'
  <2> USE DEF BudgetInv, WithinBudget, Requesting, vars, ctl, round, task, host
  <2>1. CASE TopCancelled BY <2>1 DEF TopCancelled, Goto
  <2>2. CASE TopStopped BY <2>2 DEF TopStopped, Stop
  <2>3. CASE TopRound
    <3>1. usage' = 0 /\ UNCHANGED tokens
      BY <2>3 DEF TopRound
    <3>2. tokens < Cap
      BY <2>3, CapAssumption DEF TopRound, budget_exhausted, TypeOK
    <3> QED BY <3>1, <3>2
  <2>4. CASE CallCancelled BY <2>4 DEF CallCancelled, Stop
  <2>5. CASE AttemptStart BY <2>5 DEF AttemptStart
  <2>6. CASE Connected BY <2>6 DEF Connected
  <2>7. CASE Sent BY <2>7 DEF Sent, Goto
  <2>8. CASE HeadDone BY <2>8 DEF HeadDone
  <2>9. ASSUME NEW l \in {"attempt", "connect", "send", "head", "feed"}, CallFailed(l)
        PROVE  BudgetInv'
    BY <2>9 DEF CallFailed, Stop
  <2>10. CASE BackoffOver BY <2>10 DEF BackoffOver
  <2>11. CASE ChunkAdmitted BY <2>11 DEF ChunkAdmitted, Goto
  <2>12. CASE ChunkDone BY <2>12 DEF ChunkDone, Goto
  <2>13. CASE MessageDone BY <2>13 DEF MessageDone
  <2>14. CASE StreamError BY <2>14 DEF StreamError
  <2>15. CASE \E c \in Calls : ToolOpened(c) \/ ToolCompleted(c)
    BY <2>15 DEF ToolOpened, ToolCompleted
  <2>16. CASE BodyDone
    <3>1. pc = "feed" /\ pc' \in {"exit", "tools"} /\ UNCHANGED usage
      BY <2>16 DEF BodyDone, Stop
    <3>2. tokens' = tokens \/ tokens' = tokens + usage
      BY <2>16 DEF BodyDone, account_tokens
    <3>3. tokens \in Nat /\ tokens < Cap /\ usage \in Nat
      BY <3>1, UsagesAssumption DEF TypeOK
    <3>4. tokens' <= Cap + usage
      BY <3>2, <3>3, CapAssumption
    <3> QED BY <3>1, <3>4
  <2>17. CASE ToolsCancelled BY <2>17 DEF ToolsCancelled, Goto
  <2>18. CASE ToolsNext BY <2>18 DEF ToolsNext, Goto
  <2>19. CASE ToolsOver BY <2>19 DEF ToolsOver, Goto
  <2>20. CASE RunTool BY <2>20 DEF RunTool, Answer
  <2>21. CASE WriteInvalid BY <2>21 DEF WriteInvalid, Verify, Answer
  <2>22. CASE WriteApplied BY <2>22 DEF WriteApplied, Verify, Answer
  <2>23. CASE \E k \in Keys : WriteRejected(k)
    BY <2>23 DEF WriteRejected, Verify, Answer
  <2>24. CASE RoundOver BY <2>24 DEF RoundOver
  <2>25. CASE Finish BY <2>25 DEF Finish
  <2>26. CASE DriveRefused BY <2>26 DEF DriveRefused
  <2>27. CASE DriveBegin BY <2>27 DEF DriveBegin
  <2>28. CASE RequestCancel BY <2>28 DEF RequestCancel
  <2>29. CASE RequestToolCancel BY <2>29 DEF RequestToolCancel
  <2>30. CASE UNCHANGED vars BY <2>30
  <2>31. QED
    BY ZenonT(30), <2>1, <2>2, <2>3, <2>4, <2>5, <2>6, <2>7, <2>8, <2>9, <2>10, <2>11,
       <2>12, <2>13, <2>14, <2>15, <2>16, <2>17, <2>18, <2>19, <2>20, <2>21,
       <2>22, <2>23, <2>24, <2>25, <2>26, <2>27, <2>28, <2>29, <2>30
       DEF Next, Step, BodyOver

\* No request is in flight at or above max_tokens_per_task, and the cap is
\* overrun by at most the usage of one response.
THEOREM BudgetIsKept == Spec => []WithinBudget
  <1>1. Init => BudgetInv
    BY CapAssumption DEF Init, BudgetInv, WithinBudget, Requesting
  <1>2. TypeOK /\ BudgetInv /\ [Next]_vars => BudgetInv'
    BY BudgetStep
  <1>3. BudgetInv => WithinBudget
    BY DEF BudgetInv
  <1> QED BY <1>1, <1>2, <1>3, TypeCorrect, PTL DEF Spec

-----------------------------------------------------------------------------
(* Checkpoints and the message history.                                    *)

\* Edits are applied only inside a tool round, and the round ends with a
\* checkpoint.
LEMMA CheckpointStep ==
    ASSUME EditsAreCheckpointed, [Next]_vars
    PROVE  EditsAreCheckpointed'
  <2> USE DEF EditsAreCheckpointed, vars, task, data
  <2>1. CASE TopCancelled BY <2>1 DEF TopCancelled, Goto
  <2>2. CASE TopStopped BY <2>2 DEF TopStopped, Stop
  <2>3. CASE TopRound BY <2>3 DEF TopRound
  <2>4. CASE CallCancelled BY <2>4 DEF CallCancelled, Stop
  <2>5. CASE AttemptStart BY <2>5 DEF AttemptStart
  <2>6. CASE Connected BY <2>6 DEF Connected
  <2>7. CASE Sent BY <2>7 DEF Sent, Goto
  <2>8. CASE HeadDone BY <2>8 DEF HeadDone
  <2>9. ASSUME NEW l \in {"attempt", "connect", "send", "head", "feed"}, CallFailed(l)
        PROVE  EditsAreCheckpointed'
    BY <2>9 DEF CallFailed, Stop
  <2>10. CASE BackoffOver BY <2>10 DEF BackoffOver
  <2>11. CASE ChunkAdmitted BY <2>11 DEF ChunkAdmitted, Goto
  <2>12. CASE ChunkDone BY <2>12 DEF ChunkDone, Goto
  <2>13. CASE MessageDone BY <2>13 DEF MessageDone
  <2>14. CASE StreamError BY <2>14 DEF StreamError
  <2>15. CASE \E c \in Calls : ToolOpened(c) \/ ToolCompleted(c)
    BY <2>15 DEF ToolOpened, ToolCompleted
  <2>16. CASE BodyDone BY <2>16 DEF BodyDone, Stop
  <2>17. CASE ToolsCancelled BY <2>17 DEF ToolsCancelled, Goto
  <2>18. CASE ToolsNext BY <2>18 DEF ToolsNext, Goto
  <2>19. CASE ToolsOver BY <2>19 DEF ToolsOver, Goto
  <2>20. CASE RunTool BY <2>20 DEF RunTool, Answer
  <2>21. CASE WriteInvalid BY <2>21 DEF WriteInvalid, Verify, Answer
  <2>22. CASE WriteApplied BY <2>22 DEF WriteApplied, Verify, Answer
  <2>23. CASE \E k \in Keys : WriteRejected(k)
    BY <2>23 DEF WriteRejected, Verify, Answer
  <2>24. CASE RoundOver BY <2>24 DEF RoundOver, checkpoint
  <2>25. CASE Finish BY <2>25 DEF Finish, checkpoint
  <2>26. CASE DriveRefused BY <2>26 DEF DriveRefused
  <2>27. CASE DriveBegin BY <2>27 DEF DriveBegin
  <2>28. CASE RequestCancel BY <2>28 DEF RequestCancel
  <2>29. CASE RequestToolCancel BY <2>29 DEF RequestToolCancel
  <2>30. CASE UNCHANGED vars BY <2>30
  <2>31. QED
    BY <2>1, <2>2, <2>3, <2>4, <2>5, <2>6, <2>7, <2>8, <2>9, <2>10, <2>11,
       <2>12, <2>13, <2>14, <2>15, <2>16, <2>17, <2>18, <2>19, <2>20, <2>21,
       <2>22, <2>23, <2>24, <2>25, <2>26, <2>27, <2>28, <2>29, <2>30
       DEF Next, Step, BodyOver

\* Outside a tool round the last checkpoint holds every edit of the task.
THEOREM EditsSurvive == Spec => []EditsAreCheckpointed
  <1>1. Init => EditsAreCheckpointed
    BY Zenon DEF Init, EditsAreCheckpointed
  <1>2. EditsAreCheckpointed /\ [Next]_vars => EditsAreCheckpointed'
    BY CheckpointStep
  <1> QED BY <1>1, <1>2, PTL DEF Spec

\* A broken-off tool round leaves calls unanswered only if the task is about to
\* end: the flag is set, a tool reported the cancellation, or a gate failure
\* was repeated.
HistoryInv ==
    /\ drives \in Nat /\ (drives = 0 => pc = "ready" /\ ~orphaned)
    /\ pc = "after" /\ calls # << >> => cancel \/ ec = "e_cancelled" \/ aborted
    /\ drives = 1 /\ orphaned => pc \in {"ready", "exit"} \/ (pc = "top" /\ cancel)

\* Every step of the first task keeps that relation between the history and
\* the way out.
LEMMA HistoryStep ==
    ASSUME TypeOK, ResultAt, HistoryInv, [Next]_vars
    PROVE  HistoryInv'
  <2> USE DEF HistoryInv, vars, ctl, round, task, data, gate, flags, host
  <2>1. CASE TopCancelled BY <2>1 DEF TopCancelled, Goto
  <2>2. CASE TopStopped BY <2>2 DEF TopStopped, Stop
  <2>3. CASE TopRound BY <2>3 DEF TopRound
  <2>4. CASE CallCancelled BY <2>4 DEF CallCancelled, Stop
  <2>5. CASE AttemptStart BY <2>5 DEF AttemptStart
  <2>6. CASE Connected BY <2>6 DEF Connected
  <2>7. CASE Sent BY <2>7 DEF Sent, Goto
  <2>8. CASE HeadDone BY <2>8 DEF HeadDone
  <2>9. ASSUME NEW l \in {"attempt", "connect", "send", "head", "feed"}, CallFailed(l)
        PROVE  HistoryInv'
    BY <2>9 DEF CallFailed, Stop
  <2>10. CASE BackoffOver BY <2>10 DEF BackoffOver
  <2>11. CASE ChunkAdmitted BY <2>11 DEF ChunkAdmitted, Goto
  <2>12. CASE ChunkDone BY <2>12 DEF ChunkDone, Goto
  <2>13. CASE MessageDone BY <2>13 DEF MessageDone
  <2>14. CASE StreamError BY <2>14 DEF StreamError
  <2>15. CASE \E c \in Calls : ToolOpened(c) \/ ToolCompleted(c)
    <3>1. pc = "frames" /\ pc' = "frames" /\ UNCHANGED <<orphaned, drives>>
      BY <2>15 DEF ToolOpened, ToolCompleted
    <3> QED BY <3>1
  <2>16. CASE BodyDone BY <2>16 DEF BodyDone, Stop
  <2>17. CASE ToolsCancelled BY <2>17 DEF ToolsCancelled, Goto
  <2>18. CASE ToolsNext BY <2>18 DEF ToolsNext, Goto
  <2>19. CASE ToolsOver BY <2>19 DEF ToolsOver, Goto
  <2>20. CASE RunTool
    <3>1. pc = "run" /\ UNCHANGED <<orphaned, drives>> /\ pc' \in {"after", "tools"}
      BY <2>20 DEF RunTool, Answer
    <3>2. pc' = "after" => ec' = "e_cancelled"
      BY <2>20 DEF RunTool, Answer
    <3> QED BY <3>1, <3>2
  <2>21. CASE WriteInvalid BY <2>21 DEF WriteInvalid, Verify, Answer
  <2>22. CASE WriteApplied BY <2>22 DEF WriteApplied, Verify, Answer
  <2>23. CASE \E k \in Keys : WriteRejected(k)
    <3>1. PICK k \in Keys : WriteRejected(k) BY <2>23
    <3>2. aborted' = (aborted \/ k \in seen) BY <3>1 DEF WriteRejected
    <3>3. k \in seen => aborted' BY Zenon, <3>2
    <3>4. k \notin seen => pc' = "tools" BY <3>1 DEF WriteRejected, Answer
    <3>5. pc' \in {"after", "tools"} /\ pc = "run"
      BY <3>1 DEF WriteRejected, Verify, Answer
    <3>6. UNCHANGED <<orphaned, drives>> BY <3>1 DEF WriteRejected, Answer
    <3> QED BY <3>3, <3>4, <3>5, <3>6
  <2>24. CASE RoundOver BY Zenon, <2>24 DEF RoundOver, RoundResult, ResultAt
  <2>25. CASE Finish BY <2>25 DEF Finish
  <2>26. CASE DriveRefused
    <3>1. pc = "ready" /\ pc' = "ready" /\ drives' = drives + 1 /\ orphaned' = orphaned
      BY <2>26 DEF DriveRefused
    <3>2. drives' \in Nat /\ drives' # 0
      BY <3>1
    <3>3. drives' = 1 => ~orphaned'
      BY <3>1
    <3> QED BY <3>1, <3>2, <3>3
  <2>27. CASE DriveBegin
    <3>1. pc = "ready" /\ pc' = "top" /\ drives' = drives + 1 /\ orphaned' = orphaned
      BY <2>27 DEF DriveBegin
    <3>2. drives' \in Nat /\ drives' # 0
      BY <3>1
    <3>3. drives' = 1 => ~orphaned'
      BY <3>1
    <3> QED BY <3>1, <3>2, <3>3
  <2>28. CASE RequestCancel BY <2>28 DEF RequestCancel
  <2>29. CASE RequestToolCancel BY <2>29 DEF RequestToolCancel
  <2>30. CASE UNCHANGED vars BY <2>30
  <2>31. QED
    BY ZenonT(30), <2>1, <2>2, <2>3, <2>4, <2>5, <2>6, <2>7, <2>8, <2>9, <2>10, <2>11,
       <2>12, <2>13, <2>14, <2>15, <2>16, <2>17, <2>18, <2>19, <2>20, <2>21,
       <2>22, <2>23, <2>24, <2>25, <2>26, <2>27, <2>28, <2>29, <2>30
       DEF Next, Step, BodyOver

\* In the first task of a session no request is sent over a history with an
\* unanswered tool call.
THEOREM HistoryIsWellFormed == Spec => []HistoryIsComplete
  <1>1. Init => HistoryInv
    BY DEF Init, HistoryInv
  <1>2. TypeOK /\ ResultAt /\ HistoryInv /\ [Next]_vars => HistoryInv'
    BY HistoryStep
  <1>3. HistoryInv => HistoryIsComplete
    BY DEF HistoryInv, HistoryIsComplete, Requesting
  <1>4. TypeInv /\ Flow => TypeOK /\ ResultAt
    BY Zenon DEF TypeInv, Flow
  <1> QED BY <1>1, <1>2, <1>3, <1>4, FlowInvariant, PTL DEF Spec

-----------------------------------------------------------------------------
(* Gate feedback.                                                          *)

\* The gate has failed once for each key remembered, and once more if the task
\* was aborted.
FeedbackInv ==
    /\ aborted \in BOOLEAN /\ seen \subseteq Keys
    /\ ~aborted => fails = Cardinality(seen)
    /\ aborted => fails = Cardinality(seen) + 1

\* A rejection adds a key or aborts, and nothing is rejected after the abort.
LEMMA FeedbackStep ==
    ASSUME TypeOK, ResultAt, FeedbackInv, [Next]_vars
    PROVE  FeedbackInv'
  <2> USE DEF FeedbackInv, vars, task, gate
  <2>1. CASE TopCancelled BY <2>1 DEF TopCancelled, Goto
  <2>2. CASE TopStopped BY <2>2 DEF TopStopped, Stop
  <2>3. CASE TopRound BY <2>3 DEF TopRound
  <2>4. CASE CallCancelled BY <2>4 DEF CallCancelled, Stop
  <2>5. CASE AttemptStart BY <2>5 DEF AttemptStart
  <2>6. CASE Connected BY <2>6 DEF Connected
  <2>7. CASE Sent BY <2>7 DEF Sent, Goto
  <2>8. CASE HeadDone BY <2>8 DEF HeadDone
  <2>9. ASSUME NEW l \in {"attempt", "connect", "send", "head", "feed"}, CallFailed(l)
        PROVE  FeedbackInv'
    BY <2>9 DEF CallFailed, Stop
  <2>10. CASE BackoffOver BY <2>10 DEF BackoffOver
  <2>11. CASE ChunkAdmitted BY <2>11 DEF ChunkAdmitted, Goto
  <2>12. CASE ChunkDone BY <2>12 DEF ChunkDone, Goto
  <2>13. CASE MessageDone BY <2>13 DEF MessageDone
  <2>14. CASE StreamError BY <2>14 DEF StreamError
  <2>15. CASE \E c \in Calls : ToolOpened(c) \/ ToolCompleted(c)
    <3>1. UNCHANGED gate
      BY <2>15 DEF ToolOpened, ToolCompleted
    <3> QED BY <3>1
  <2>16. CASE BodyDone BY <2>16 DEF BodyDone, Stop
  <2>17. CASE ToolsCancelled BY <2>17 DEF ToolsCancelled, Goto
  <2>18. CASE ToolsNext BY <2>18 DEF ToolsNext, Goto
  <2>19. CASE ToolsOver BY <2>19 DEF ToolsOver, Goto
  <2>20. CASE RunTool BY <2>20 DEF RunTool, Answer
  <2>21. CASE WriteInvalid BY <2>21 DEF WriteInvalid, Verify, Answer
  <2>22. CASE WriteApplied BY <2>22 DEF WriteApplied, Verify, Answer
  <2>23. CASE \E k \in Keys : WriteRejected(k)
    <3>1. PICK k \in Keys : WriteRejected(k) BY <2>23
    <3>2. fails' = fails + 1 /\ seen' = seen \cup {k}
      BY <3>1 DEF WriteRejected, Remember
    <3>3. ~aborted /\ fails = Cardinality(seen)
      BY <3>1 DEF WriteRejected, Verify, ResultAt
    <3>4. IsFiniteSet(seen) /\ Cardinality(seen) \in Nat
      BY KeysAssumption, FS_Subset, FS_CardinalityType
    <3>5. aborted' <=> k \in seen BY Zenon, <3>1, <3>3 DEF WriteRejected
    <3>6. aborted' \in BOOLEAN BY <3>1 DEF WriteRejected
    <3>7. CASE k \in seen
      <4>1. seen' = seen BY <3>2, <3>7
      <4> QED BY <4>1, <3>2, <3>3, <3>4, <3>5, <3>6, <3>7
    <3>8. CASE k \notin seen
      <4>1. Cardinality(seen') = Cardinality(seen) + 1
        BY <3>2, <3>4, <3>8, FS_AddElement
      <4> QED BY <4>1, <3>2, <3>3, <3>4, <3>5, <3>6, <3>8
    <3> QED BY <3>7, <3>8
  <2>24. CASE RoundOver BY <2>24 DEF RoundOver
  <2>25. CASE Finish BY <2>25 DEF Finish
  <2>26. CASE DriveRefused BY <2>26 DEF DriveRefused
  <2>27. CASE DriveBegin
    <3>1. Cardinality({}) = 0 BY FS_EmptySet
    <3> QED BY Zenon, <2>27, <3>1 DEF DriveBegin
  <2>28. CASE RequestCancel BY <2>28 DEF RequestCancel
  <2>29. CASE RequestToolCancel BY <2>29 DEF RequestToolCancel
  <2>30. CASE UNCHANGED vars BY <2>30
  <2>31. QED
    BY ZenonT(30), <2>1, <2>2, <2>3, <2>4, <2>5, <2>6, <2>7, <2>8, <2>9, <2>10, <2>11,
       <2>12, <2>13, <2>14, <2>15, <2>16, <2>17, <2>18, <2>19, <2>20, <2>21,
       <2>22, <2>23, <2>24, <2>25, <2>26, <2>27, <2>28, <2>29, <2>30
       DEF Next, Step, BodyOver

\* A task survives each feedback key once: rejections are bounded by the keys,
\* and e_aborted is reported exactly when a key was repeated.
THEOREM FeedbackEnds == Spec => []FeedbackIsBounded
  <1>1. Init => FeedbackInv
    <2>1. Cardinality({}) = 0 BY FS_EmptySet
    <2> QED BY Zenon, <2>1 DEF Init, FeedbackInv
  <1>2. TypeOK /\ ResultAt /\ FeedbackInv /\ [Next]_vars => FeedbackInv'
    BY FeedbackStep
  <1>3. FeedbackInv /\ Decided => FeedbackIsBounded
    <2> SUFFICES ASSUME FeedbackInv, Decided PROVE FeedbackIsBounded OBVIOUS
    <2>1. /\ Cardinality(seen) \in Nat /\ Cardinality(Keys) \in Nat
          /\ Cardinality(seen) <= Cardinality(Keys)
      BY KeysAssumption, FS_Subset, FS_CardinalityType DEF FeedbackInv
    <2>2. fails <= Cardinality(Keys) + 1
      BY <2>1 DEF FeedbackInv
    <2> QED BY <2>2 DEF Decided, FeedbackIsBounded
  <1>4. TypeInv /\ Flow => TypeOK /\ ResultAt /\ Decided
    BY DEF TypeInv, Flow
  <1> QED BY <1>1, <1>2, <1>3, <1>4, FlowInvariant, PTL DEF Spec

\* All the limits of a task together, for every tool set, cap and retry limit.
THEOREM LimitsHold == Spec => []LimitsAreKept
  BY BudgetIsKept, NeverGivesUpEarly, FeedbackEnds, LaneIsSelfResuming,
     DecisionIsFinal, DoneIsAnswered, PTL DEF LimitsAreKept

=============================================================================
