------------------------------ MODULE Process ------------------------------
(***************************************************************************)
(* Running a child process (tools/exec/util.cpp run_process) for           *)
(* shell.run and for the git tools.                                        *)
(*                                                                         *)
(* The parent reads two blocking pipes of bounded capacity; the child      *)
(* writes to them, may leave a process behind that holds their ends, and   *)
(* closes them a moment before its status can be waited for.  A program is *)
(* [writes, ends, behind, lasts, code]: what the shell command does, "o"   *)
(* and "e" being writes to the two streams.                                *)
(***************************************************************************)
EXTENDS Integers, Sequences

CONSTANTS Programs,
          Capacity,     \* what a pipe holds
          Tries         \* git_run's attempts (2)

VARIABLES caller,    \* "shell" | "git"
          attempt, result,
          prog, timed,         \* the command, and whether a timeout is set
          pc, late,            \* the parent; late: timeout_ms have passed
          pipe,                \* stream -> bytes in the pipe
          open,                \* stream -> the read end is open in the parent
          ready,               \* stream -> poll's revents: {"in", "hup"}
          got, wrote,          \* stream -> bytes captured / written so far
          at, child,           \* next write; "running" | "closed" | "zombie" | "reaped"
          status,              \* what waitpid would say
          behind,              \* the process left behind: "none" | "group" | "own"
          exit_code, timed_out

parent == <<caller, prog, timed, attempt, result>>
procs  == <<at, child, status, behind, wrote>>
vars   == <<parent, pc, late, pipe, open, ready, got, procs, exit_code, timed_out>>

Streams == {"o", "e"}
Writers == child = "running" \/ behind # "none"

-----------------------------------------------------------------------------
(* The child and what it leaves behind *)

Write ==
    /\ child = "running" /\ at <= Len(prog.writes)
    /\ LET s == prog.writes[at]
       IN  /\ pipe[s] < Capacity
           /\ pipe' = [pipe EXCEPT ![s] = @ + 1]
           /\ wrote' = [wrote EXCEPT ![s] = @ + 1]
    /\ at' = at + 1
    /\ UNCHANGED <<parent, pc, late, open, ready, got, child, status, behind, exit_code, timed_out>>

\* The command is over: its descriptors close first.
Close ==
    /\ child = "running" /\ at > Len(prog.writes) /\ prog.ends
    /\ child' = "closed" /\ status' = prog.code
    /\ UNCHANGED <<parent, pc, late, pipe, open, ready, got, at, behind, wrote, exit_code, timed_out>>

Exit ==
    /\ child = "closed" /\ child' = "zombie"
    /\ UNCHANGED <<parent, pc, late, pipe, open, ready, got, at, status, behind, wrote, exit_code, timed_out>>

BehindEnds ==
    /\ behind # "none" /\ ~prog.lasts /\ behind' = "none"
    /\ UNCHANGED <<parent, pc, late, pipe, open, ready, got, at, child, status, wrote, exit_code, timed_out>>

TimePasses ==
    /\ timed /\ ~late /\ pc \notin {"spawn", "done", "over"} /\ late' = TRUE
    /\ UNCHANGED <<parent, pc, pipe, open, ready, got, procs, exit_code, timed_out>>

-----------------------------------------------------------------------------
(* The parent *)

Started(how) ==
    /\ pc' = how /\ late' = FALSE
    /\ pipe' = [s \in Streams |-> 0] /\ open' = [s \in Streams |-> TRUE]
    /\ ready' = [s \in Streams |-> {}]
    /\ got' = [s \in Streams |-> 0] /\ wrote' = [s \in Streams |-> 0]
    /\ at' = 1 /\ child' = "running" /\ status' = -1
    /\ behind' = prog.behind
    /\ exit_code' = -1 /\ timed_out' = FALSE

\* pipe() and fork().
Spawn == pc = "spawn" /\ Started("top") /\ UNCHANGED parent

SpawnFails ==
    /\ pc = "spawn" /\ pc' = "failed"
    /\ UNCHANGED <<parent, late, pipe, open, ready, got, procs, exit_code, timed_out>>

\* kill(-pid, SIGKILL): what has left the group goes on.
KillGroup(b) == IF b = "group" THEN "none" ELSE b

\* The top of the loop: timeout, nothing left to poll, or poll.
TimeOut ==
    /\ pc = "top" /\ timed /\ late
    /\ timed_out' = TRUE
    /\ IF child = "running" THEN child' = "zombie" /\ status' = 137
       ELSE UNCHANGED <<child, status>>
    /\ behind' = KillGroup(behind)
    /\ pc' = "drain_o"
    /\ UNCHANGED <<parent, late, pipe, open, ready, got, at, wrote, exit_code>>

Events(s) == IF ~open[s] THEN {}
             ELSE (IF pipe[s] > 0 THEN {"in"} ELSE {}) \cup (IF Writers THEN {} ELSE {"hup"})

Poll ==
    /\ pc = "top" /\ ~(timed /\ late)
    /\ IF \E s \in Streams : open[s]
       THEN pc' = "read_o" /\ ready' = [s \in Streams |-> Events(s)]
       ELSE pc' = "drain_o" /\ UNCHANGED ready
    /\ UNCHANGED <<parent, late, pipe, open, got, procs, exit_code, timed_out>>

Take(s) == got' = [got EXCEPT ![s] = @ + pipe[s]] /\ pipe' = [pipe EXCEPT ![s] = 0]

ReadAt(s) == IF s = "o" THEN "read_o" ELSE "read_e"
DrainAt(s) == IF s = "o" THEN "drain_o" ELSE "drain_e"
NextRead(s) == IF s = "o" THEN "read_e" ELSE "wait"
NextDrain(s) == IF s = "o" THEN "drain_e" ELSE "reap"

\* while (read(...) > 0): the read blocks as long as somebody can still write.
Read(s) ==
    /\ pc = ReadAt(s)
    /\ \/ ready[s] = {} /\ pc' = NextRead(s) /\ UNCHANGED <<pipe, got, open>>
       \/ ready[s] # {} /\ pipe[s] > 0 /\ Take(s) /\ UNCHANGED <<pc, open>>
       \/ /\ ready[s] # {} /\ pipe[s] = 0 /\ ~Writers
          /\ open' = [open EXCEPT ![s] = FALSE]
          /\ pc' = NextRead(s) /\ UNCHANGED <<pipe, got>>
    /\ UNCHANGED <<parent, late, ready, procs, exit_code, timed_out>>

\* waitpid(WNOHANG).
Wait ==
    /\ pc = "wait"
    /\ IF child = "zombie" THEN child' = "reaped" /\ exit_code' = status /\ pc' = "drain_o"
       ELSE pc' = "top" /\ UNCHANGED <<child, exit_code>>
    /\ UNCHANGED <<parent, late, pipe, open, ready, got, at, status, behind, wrote, timed_out>>

\* A mutant: what is left in the pipe when the loop ends is dropped.
Drain_None(s) ==
    /\ pc = DrainAt(s) /\ pc' = NextDrain(s)
    /\ UNCHANGED <<parent, late, pipe, open, ready, got, procs, exit_code, timed_out>>

\* The final drain of a stream, to its end.
Drain(s) ==
    /\ pc = DrainAt(s)
    /\ \/ ~open[s] /\ pc' = NextDrain(s) /\ UNCHANGED <<pipe, got>>
       \/ open[s] /\ pipe[s] > 0 /\ Take(s) /\ UNCHANGED pc
       \/ open[s] /\ pipe[s] = 0 /\ ~Writers /\ pc' = NextDrain(s) /\ UNCHANGED <<pipe, got>>
    /\ UNCHANGED <<parent, late, open, ready, procs, exit_code, timed_out>>

\* The last waitpid blocks until there is nothing left to wait for; its status
\* is dropped.
Reap ==
    /\ pc = "reap" /\ child \in {"zombie", "reaped"}
    /\ child' = "reaped" /\ pc' = "done"
    /\ UNCHANGED <<parent, late, pipe, open, ready, got, at, status, behind, wrote, exit_code, timed_out>>

-----------------------------------------------------------------------------
(* The callers *)

\* shell.run reports a failure to start or a timeout; any exit status is a
\* success.
Shell ==
    /\ caller = "shell" /\ pc \in {"done", "failed"}
    /\ result' = IF pc = "failed" \/ timed_out THEN "error" ELSE "output"
    /\ pc' = "over"
    /\ UNCHANGED <<caller, prog, timed, attempt, late, pipe, open, ready, got, procs, exit_code, timed_out>>

Zero == exit_code = 0

\* A mutant: the attempts are not counted.
Git_Forever ==
    /\ caller = "git" /\ pc \in {"done", "failed"}
    /\ \/ pc = "done" /\ Zero /\ result' = "output" /\ pc' = "over"
       \/ ~(pc = "done" /\ Zero) /\ pc' = "spawn" /\ UNCHANGED result
    /\ UNCHANGED <<caller, attempt, prog, timed, late, pipe, open, ready, got, procs, exit_code, timed_out>>

\* git_run: a zero status is a success, anything else is tried once more.
Git ==
    /\ caller = "git" /\ pc \in {"done", "failed"}
    /\ \/ pc = "done" /\ Zero /\ result' = "output" /\ pc' = "over" /\ UNCHANGED attempt
       \/ /\ ~(pc = "done" /\ Zero)
          /\ IF attempt < Tries THEN pc' = "spawn" /\ attempt' = attempt + 1 /\ UNCHANGED result
             ELSE pc' = "over" /\ result' = "error" /\ UNCHANGED attempt
    /\ UNCHANGED <<caller, prog, timed, late, pipe, open, ready, got, procs, exit_code, timed_out>>

Over == pc = "over" /\ UNCHANGED vars

Init ==
    /\ caller \in {"shell", "git"} /\ attempt = 1 /\ result = "none"
    /\ prog \in Programs
    /\ timed \in (IF caller = "git" THEN {TRUE} ELSE BOOLEAN)
    /\ pc = "spawn" /\ late = FALSE
    /\ pipe = [s \in Streams |-> 0] /\ open = [s \in Streams |-> TRUE]
    /\ ready = [s \in Streams |-> {}]
    /\ got = [s \in Streams |-> 0] /\ wrote = [s \in Streams |-> 0]
    /\ at = 1 /\ child = "reaped" /\ status = -1 /\ behind = "none"
    /\ exit_code = -1 /\ timed_out = FALSE

Parent == Spawn \/ SpawnFails \/ TimeOut \/ Poll \/ Read("o") \/ Read("e") \/ Wait
            \/ Drain("o") \/ Drain("e") \/ Reap \/ Shell \/ Git
World == Write \/ Close \/ Exit \/ BehindEnds \/ TimePasses

Next == Parent \/ World \/ Over

\* The parent runs, time passes, and the child does what its program says.
Fairness ==
    /\ WF_vars(Parent) /\ WF_vars(Write) /\ WF_vars(Close) /\ WF_vars(Exit)
    /\ WF_vars(BehindEnds) /\ WF_vars(TimePasses)

Spec == Init /\ [][Next]_vars /\ Fairness

-----------------------------------------------------------------------------
(* Properties *)

\* When the call is over everything the processes wrote has been captured, the
\* timeout included, and no process is left that could write more (the final
\* drain of run_process).
OutputIsWhole ==
    (pc = "done" \/ (pc = "over" /\ result = "output"))
      => got = wrote /\ behind = "none"

\* The child is waited for on every path: none is left a zombie when the call
\* returns, nor when it is tried again (the last waitpid).
NoZombieStays == pc \in {"done", "over", "spawn", "failed"} => child = "reaped"

\* A git tool that reports output ran a command that ended by itself with
\* status zero and was not cut off by the timeout (git_run).
GitOutputIsTrue ==
    (caller = "git" /\ result = "output")
      => prog.ends /\ prog.code = 0 /\ at > Len(prog.writes) /\ ~timed_out

Fits == \A s \in Streams : Len(SelectSeq(prog.writes, LAMBDA w : w = s)) <= Capacity
Quiet == prog.ends /\ (prog.behind = "none" \/ ~prog.lasts) /\ Fits

\* A command that ends, leaves nothing lasting behind and writes no more to
\* either stream than its pipe holds, comes back, though the reads block and
\* the streams are read one after the other (run_process, git_run).
QuietEnds == Quiet => <>(pc = "over")

-----------------------------------------------------------------------------
(* What the repository says and TLC refutes *)

\* util.h: "timeouts kill the child process group".
TimeoutEnds == (late /\ prog.behind # "own") ~> (pc = "over")

\* A command that ends with status zero inside its time is reported so.
ExitCodeIsTrue ==
    (pc = "done" /\ ~timed_out) => exit_code = prog.code
=============================================================================
