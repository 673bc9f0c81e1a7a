------------------------------ MODULE MCTools ------------------------------
(***************************************************************************)
(* The stateful halves of the tools, checked side by side: the child       *)
(* process behind shell.run and git.* (Process), a file edit from the      *)
(* model's call to the disk (ToolRuns), and the symbol index behind sym.*  *)
(* (CodeGraph).  A behaviour belongs to one of them, chosen at the start.  *)
(* The module of the edit is extended, the others are instances.           *)
(***************************************************************************)
EXTENDS Integers, ToolRuns

CONSTANTS Capacity, Tries,
          Files, Caps, MaxSyms, MaxDeps, CompactAt, SnippetBytes, ContextBytes,
          MaxEdits, MaxEnsures, MaxParses

VARIABLES
    part,
    caller, attempt, presult, prog, timed, ppc, late, pipe, open, ready, got, wrote,
    at, child, status, behind, exit_code, timed_out,
    source, syms, deps, by_name, files, touch, cap, touch_clock, extract_count, edits

processVars == <<caller, attempt, presult, prog, timed, ppc, late, pipe, open, ready, got, wrote,
                 at, child, status, behind, exit_code, timed_out>>
graphVars   == <<source, syms, deps, by_name, files, touch, cap, touch_clock, extract_count, edits>>

-----------------------------------------------------------------------------
(* The small instances *)

Programs ==
    [writes : {<< >>, <<"o", "e">>, <<"e", "o", "o">>, <<"e", "e", "o">>},
     ends : BOOLEAN, behind : {"none", "group", "own"}, lasts : BOOLEAN, code : {0, 1}]

PT == INSTANCE Verify WITH Dashes <- {}, Plusses <- {}, Letters <- {}, Keywords <- {}

\* One line of context, one line added.
Diff == PT!DiffOf(<<[tag |-> " ", line |-> <<"x">>], [tag |-> "+", line |-> <<"z">>]>>, 2)

Edit(content, create, guard) ==
    [agent |-> TRUE, tool |-> "file.write", path |-> "f", content |-> content, patch |-> << >>,
     create |-> create, guard |-> guard, reverse |-> FALSE]

MCCalls ==
    {Edit(<<"z", "lf">>, TRUE, TRUE), Edit(<<"z", "lf">>, TRUE, FALSE), Edit(<<"z", "lf">>, FALSE, FALSE),
     Edit(<<"(">>, TRUE, FALSE)}
      \cup {[Edit(<< >>, TRUE, TRUE) EXCEPT !.tool = "file.patch", !.patch = Diff, !.reverse = r, !.agent = a]
              : r \in BOOLEAN, a \in BOOLEAN}
      \cup {[Edit(<< >>, TRUE, TRUE) EXCEPT !.tool = t] : t \in {"file.read", "shell.run", "nope"}}
      \cup {[Edit(<<"z">>, TRUE, TRUE) EXCEPT !.path = "none"],
            [Edit(<<"z">>, TRUE, FALSE) EXCEPT !.agent = FALSE]}

\* A default for every category, or one of its own for writing.
MCGates ==
    [policies : {<< >>}, default : {"allow", "deny", "ask", "allow_readonly"}, callback : {TRUE}]
      \cup {[policies |-> [write |-> "allow_readonly"], default |-> "allow", callback |-> TRUE]}

MCOutside == {<<"x", "lf">>, <<"y", "lf">>}

MCVerdict(c, text) == PT!verify_call(c, text)
MCApplies(c, text) == PT!patch_call(c, text) # PT!Rejected
MCPatchText(c, text) == PT!patch_call(c, text)

Def(kind, name, len) == [kind |-> kind, name |-> name, len |-> len]
Call(from, to) == [kind |-> "call", from |-> from, to |-> to]

\* The first text is beyond both limits, and the second call is in the
\* definition that is cut off.
Texts ==
    {[defs |-> <<Def("function", <<"f">>, 2), Def("type", <<"f", "g">>, 1), Def("function", <<"k">>, 1)>>,
      deps |-> <<Call(1, <<"f", "g">>), Call(3, <<"h">>), Call(3, <<"f">>)>>],
     [defs |-> <<Def("function", <<"h">>, 2)>>,
      deps |-> <<[kind |-> "include", from |-> 0, to |-> <<"a">>], Call(1, <<"f">>)>>],
     [defs |-> << >>, deps |-> << >>]}

PR == INSTANCE Process WITH result <- presult, pc <- ppc
CG == INSTANCE CodeGraph WITH disk <- source

-----------------------------------------------------------------------------
Any(S) == CHOOSE x \in S : TRUE

\* What a part starts with is of interest only in its own behaviours.
MCInit ==
    /\ part \in {"process", "runs", "graph"}
    /\ PR!Init /\ (part # "process" => caller = "git" /\ prog = Any(Programs))
    /\ Init /\ (part # "runs" => gate = Any(Gates) /\ disk[Target] = Absent)
    /\ CG!Init /\ (part # "graph" => cap = Any(Caps) /\ \A f \in Files : source[f].text = Any(Texts))

MCNext ==
    \/ part = "process" /\ PR!Next /\ UNCHANGED <<part, vars, graphVars>>
    \/ part = "runs"    /\ Next /\ UNCHANGED <<part, processVars, graphVars>>
    \/ part = "graph"   /\ CG!Next /\ UNCHANGED <<part, processVars, vars>>

\* The fairness of Process, for its own behaviours.
MCFairness ==
    /\ WF_processVars(part = "process" /\ PR!Parent)
    /\ WF_processVars(part = "process" /\ PR!Write)
    /\ WF_processVars(part = "process" /\ PR!Close)
    /\ WF_processVars(part = "process" /\ PR!Exit)
    /\ WF_processVars(part = "process" /\ PR!BehindEnds)
    /\ WF_processVars(part = "process" /\ PR!TimePasses)

MCSpec == MCInit /\ [][MCNext]_<<part, processVars, vars, graphVars>> /\ MCFairness

-----------------------------------------------------------------------------
\* When run_process returns, everything the processes wrote has been captured
\* and none of them is a zombie, git_run's second attempt included; a git tool
\* reports output only of a command that ended with status zero.
OutputIsTrue ==
    PR!OutputIsWhole /\ (part = "process" => PR!NoZombieStays) /\ PR!GitOutputIsTrue

\* A command that ends, leaves nothing lasting behind and fits into its pipes
\* comes back from run_process.
QuietEnds == (part = "process" /\ PR!Quiet) => <>(ppc = "over")

\* The symbol index is a cache of what each file held when it was parsed, up to
\* the limits on symbols and dependencies.
ImplementsCache == CG!ImplementsCache

\* What lookup, all, callers_of and callees answer is alive and agrees, but for
\* calls in definitions that the limit cut off, the name table lists exactly the
\* symbols that are alive, and the context for a change never holds more bytes
\* than its budget.
AnswersAreLive == CG!NamesAreLive /\ CG!AnswersAreLive /\ CG!ContextFits

\* As long as every cached file came through ensure_indexed, the one just asked
\* for is in the index as it is on disk; in any case ensure_indexed leaves at
\* most the cap in the cache, or no more than there were.
EnsureIsFresh == [][CG!EnsureStep /\ CG!EvictionStep]_graphVars

-----------------------------------------------------------------------------
(* What the repository says and TLC refutes *)

\* util.h: "timeouts kill the child process group": once the time is over the
\* call ends, unless a process has left the group.
TimeoutEnds == (part = "process" /\ late /\ prog.behind # "own") ~> (ppc = "over")
=============================================================================
