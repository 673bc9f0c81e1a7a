------------------------------ MODULE ToolRuns ------------------------------
(***************************************************************************)
(* A write tool from the model's call to the disk: Agent::run_tool         *)
(* (agent/loop.cpp) verifies the proposal, the permission gate decides,    *)
(* and file.write or file.patch (tools/exec/write.cpp, patch.cpp) replaces *)
(* the file through a temporary one (write_file_atomic in util.cpp).       *)
(*                                                                         *)
(* One file is edited, by the tool and by somebody outside; every file     *)
(* operation can fail and the process can die between any two of them.     *)
(* A call is [agent, tool, path, content, patch, create, guard, reverse].  *)
(*                                                                         *)
(* Before that, the tools an agent is given: what each declares of itself  *)
(* (the constructors in tools/exec/*.cpp and tools/memory_tool.cpp), the   *)
(* schema made of it (tools/schema.cpp), the registry (tools/registry.cpp) *)
(* and the permission gate (tools/permission.cpp).  Of names, descriptions *)
(* and JSON texts only the names that identify are kept.                   *)
(***************************************************************************)
EXTENDS Naturals, Sequences

CONSTANTS Calls, Gates, OutsideTexts,
          Verdict(_, _),       \* call, text of the file -> "invalid", "failed" or "passed"
          Applies(_, _),       \* whether the call's patch fits the text
          PatchText(_, _),     \* what it makes of it (all three: module Verify)
          MaxCalls, MaxFaults, MaxOutside   \* bounds on the run

NoTool == [name |-> "none"]

-----------------------------------------------------------------------------
(* Declarations *)

Param(name, type, required) == [name |-> name, type |-> type, required |-> required]
Str(name)    == Param(name, "string", TRUE)
OptStr(name) == Param(name, "string", FALSE)
OptInt(name) == Param(name, "integer", FALSE)
OptBool(name) == Param(name, "boolean", FALSE)

\* The schema of the arguments: every parameter as a property, and the list of
\* the required ones only when some parameter is optional.
params_schema(params) ==
    LET need == SelectSeq(params, LAMBDA p : p.required)
    IN  [properties |-> [i \in 1..Len(params) |-> <<params[i].name, params[i].type>>],
         required   |-> IF \E i \in 1..Len(params) : ~params[i].required
                        THEN [i \in 1..Len(need) |-> need[i].name] ELSE << >>]

make_spec(id, params, is_read_only, category) ==
    [name |-> id, params |-> params, schema |-> params_schema(params),
     is_read_only |-> is_read_only, category |-> category]

FileReadSpec   == make_spec("file.read", <<Str("path"), OptInt("start"), OptInt("end"),
                            OptInt("max_bytes")>>, TRUE, "read")
DirListSpec    == make_spec("dir.list", <<Str("path"), OptBool("recurse"), Str("pattern")>>,
                            TRUE, "read")
FileStatSpec   == make_spec("file.stat", <<Str("path")>>, TRUE, "read")
FileSearchSpec == make_spec("file.search", <<Str("pattern"), Str("path"), OptBool("regex"),
                            OptBool("gitignore")>>, TRUE, "read")
WorkspaceInfoSpec == make_spec("workspace.info", << >>, TRUE, "workspace")
SymLookupSpec  == make_spec("sym.lookup", <<Str("name"), Str("file")>>, TRUE, "graph")
SymRefsSpec    == make_spec("sym.refs", <<Str("name")>>, TRUE, "graph")
SymSnippetSpec == make_spec("sym.snippet", <<Str("name"), Str("file"), OptInt("max_bytes")>>,
                            TRUE, "graph")
SymCalleesSpec == make_spec("sym.callees", <<Str("name"), Str("file")>>, TRUE, "graph")
GitDiffSpec    == make_spec("git.diff", <<OptStr("file"), OptBool("staged")>>, TRUE, "workspace")
GitStatusSpec  == make_spec("git.status", << >>, TRUE, "workspace")
GitBranchSpec  == make_spec("git.branch", << >>, TRUE, "workspace")
GitShowSpec    == make_spec("git.show", <<OptStr("commit"), OptStr("file")>>, TRUE, "workspace")
FileWriteSpec  == make_spec("file.write", <<Str("path"), Str("content"), OptBool("create"),
                            OptBool("overwrite_guard")>>, FALSE, "write")
FilePatchSpec  == make_spec("file.patch", <<Str("path"), Str("patch"), OptBool("reverse")>>,
                            FALSE, "write")
ShellSpec      == make_spec("shell.run", <<Str("cmd"), OptInt("timeout_ms"),
                            OptStr("working_dir")>>, FALSE, "shell")
MemoryWriteSpec == make_spec("memory.write", <<Str("key"), Str("value"), OptStr("kind")>>,
                            FALSE, "workspace")

-----------------------------------------------------------------------------
(* The registry: a sequence of declarations *)

make_read_tools(graph) ==
    <<FileReadSpec, DirListSpec, FileStatSpec, FileSearchSpec, WorkspaceInfoSpec>>
      \o (IF graph THEN <<SymLookupSpec, SymRefsSpec, SymSnippetSpec, SymCalleesSpec>>
                   ELSE << >>)
      \o <<GitDiffSpec, GitStatusSpec, GitBranchSpec, GitShowSpec>>
make_write_tools == <<FileWriteSpec, FilePatchSpec>>
make_shell_tool  == <<ShellSpec>>
make_memory_tools == <<MemoryWriteSpec>>

\* The first tool of that name.
find(reg, name) ==
    LET at == {i \in 1..Len(reg) : reg[i].name = name}
    IN  IF at = {} THEN NoTool ELSE reg[CHOOSE i \in at : \A j \in at : i <= j]

\* A second tool of a name is refused.
add(reg, spec) == IF find(reg, spec.name) = NoTool THEN Append(reg, spec) ELSE reg

\* The default set, added until one is refused: [reg, ok].
register_defaults(reg, graph, include_write, store) ==
    LET tools == make_read_tools(graph)
                   \o (IF include_write THEN make_write_tools \o make_shell_tool ELSE << >>)
                   \o (IF store THEN make_memory_tools ELSE << >>)
        one(st, t) == IF ~st.ok THEN st
                      ELSE [reg |-> add(st.reg, t), ok |-> find(st.reg, t.name) = NoTool]
        after[i \in 0..Len(tools)] ==
            IF i = 0 THEN [reg |-> reg, ok |-> TRUE] ELSE one(after[i - 1], tools[i])
    IN  after[Len(tools)]

-----------------------------------------------------------------------------
(* The gate: a policy per category, and a default *)

policy_for(gate, cat) ==
    IF cat \in DOMAIN gate.policies THEN gate.policies[cat] ELSE gate.default

\* A mutant: every tool but the shell counts as read-only.
check_Lenient(gate, spec, answer) ==
    LET p == policy_for(gate, spec.category)
    IN  \/ p = "allow"
        \/ p = "allow_readonly" /\ spec.category # "shell"
        \/ p = "ask" /\ gate.callback /\ answer

\* Whether the tool may run; `answer` is what the host's callback says.
check(gate, spec, answer) ==
    LET p == policy_for(gate, spec.category)
    IN  \/ p = "allow"
        \/ p = "allow_readonly" /\ spec.is_read_only
        \/ p = "ask" /\ gate.callback /\ answer

\* What becomes of a call: "unknown", "denied" or "run", and the tool that
\* the registry then runs.
GateRun(reg, gate, name, answer) ==
    LET tool == find(reg, name)
    IN  IF tool = NoTool THEN [verdict |-> "unknown", tool |-> NoTool]
        ELSE IF ~check(gate, tool, answer) THEN [verdict |-> "denied", tool |-> NoTool]
        ELSE [verdict |-> "run", tool |-> find(reg, name)]

-----------------------------------------------------------------------------
(* The edited file *)

VARIABLES disk,      \* path -> Absent, Part(text) or Whole(text)
          gate,      \* the permission gate
          pc, call, calls,
          write,     \* the write_file_atomic under way: [path, text, at]
          previous, had_shadow,     \* FileWriteTool::run
          result, applied,          \* the call's outcome; applied_edits of the task
          faults, outside,          \* counted failures and outside edits
          lost,      \* whether an fclose has failed, which nobody looks at (history)
          base                      \* the file when the tool began (history)

tool == <<write, previous, had_shadow>>
vars == <<disk, gate, pc, call, calls, tool, result, applied, faults, outside, lost, base>>

Target  == "f"
Shadow  == "f.opencode_shadow"
tmp(p)  == IF p = Target THEN "f.opencode_tmp" ELSE "f.opencode_shadow.opencode_tmp"
Paths   == {Target, Shadow, tmp(Target), tmp(Shadow)}
Absent  == [kind |-> "absent"]
Part(text) == [kind |-> "partial", text |-> text]
Partial == Part(<< >>)
Whole(text) == [kind |-> "whole", text |-> text]
Text(p) == IF disk[p] = Absent THEN << >> ELSE disk[p].text

reg == register_defaults(<< >>, FALSE, TRUE, FALSE).reg

\* What the proofs use of the registry: the tools that can write are there, as
\* they declare themselves.
ASSUME WriteTools ==
    /\ find(reg, "file.write") = FileWriteSpec /\ find(reg, "file.patch") = FilePatchSpec
    /\ find(reg, "shell.run") = ShellSpec

Put(p, file) == disk' = [disk EXCEPT ![p] = file]

Reply(what) ==
    /\ result' = what /\ pc' = "idle"
    /\ UNCHANGED <<gate, call, calls, tool, outside, lost, base>>

-----------------------------------------------------------------------------
(* Agent::run_tool *)

\* A write is verified first, everything else goes to the permission gate.
run_tool(c) ==
    /\ pc = "idle" /\ calls < MaxCalls /\ c.agent
    /\ call' = c /\ calls' = calls + 1 /\ result' = "none" /\ base' = disk[Target]
    /\ pc' = IF find(reg, c.tool) = NoTool THEN "unknown"
             ELSE IF find(reg, c.tool).category = "write" THEN "verify" ELSE "gate"
    /\ UNCHANGED <<disk, gate, tool, applied, faults, outside, lost>>

\* A host calls Gate::run itself, without the agent: nothing is verified.
Direct(c) ==
    /\ pc = "idle" /\ calls < MaxCalls /\ ~c.agent
    /\ call' = c /\ calls' = calls + 1 /\ result' = "none" /\ base' = disk[Target]
    /\ pc' = IF find(reg, c.tool) = NoTool THEN "unknown" ELSE "gate"
    /\ UNCHANGED <<disk, gate, tool, applied, faults, outside, lost>>

Unknown == pc = "unknown" /\ Reply("unknown") /\ UNCHANGED <<disk, applied, faults>>

Verified == Verdict(call, Text(Target))

Invalid == pc = "verify" /\ Verified = "invalid" /\ Reply("invalid")
             /\ UNCHANGED <<disk, applied, faults>>
VerifyFails == pc = "verify" /\ Verified = "failed" /\ Reply("verify failed")
             /\ UNCHANGED <<disk, applied, faults>>
VerifyPasses ==
    /\ pc = "verify" /\ Verified = "passed" /\ pc' = "gate"
    /\ UNCHANGED <<disk, gate, call, calls, tool, result, applied, faults, outside, lost, base>>

\* Gate::run, the host's callback answering; time passes before the tool runs.
Denied == pc = "gate" /\ (\E answer \in BOOLEAN :
                             GateRun(reg, gate, call.tool, answer).verdict = "denied")
            /\ Reply("denied") /\ UNCHANGED <<disk, applied, faults>>
Granted ==
    /\ pc = "gate"
    /\ \E answer \in BOOLEAN : GateRun(reg, gate, call.tool, answer).verdict = "run"
    /\ base' = disk[Target]
    /\ pc' = IF call.tool = "file.write" THEN "check"
             ELSE IF call.tool = "file.patch" THEN "patch" ELSE "other"
    /\ UNCHANGED <<disk, gate, call, calls, tool, result, applied, faults, outside, lost>>

\* A tool that only reads (workspace files; memory.write goes to the store).
Other ==
    /\ pc = "other" /\ call.tool # "shell.run"
    /\ Reply("ok") /\ UNCHANGED <<disk, applied, faults>>

\* A command does to the file what it likes, also when it fails or is killed.
Shell(text) ==
    /\ pc = "other" /\ call.tool = "shell.run"
    /\ \E what \in {"ok", "error"} : Reply(what)
    /\ UNCHANGED disk \/ Put(Target, Whole(text))
    /\ UNCHANGED <<applied, faults>>

-----------------------------------------------------------------------------
(* write_file_atomic: create, write, rename; the caller goes on with *)
(* write.at "ok" or "bad" *)

Writing == pc \in {"shadow", "target", "rollback"}
Written(how) == Writing /\ write.at = how

\* A mutant: the file itself is opened and written.
fopen_InPlace(p) == Put(p, Partial)

\* fopen(tmp, "wb").
fopen(p) == Put(tmp(p), Partial)

\* A temporary file that is already there is written over.
CreateTmp ==
    /\ Written("create")
    /\ fopen(write.path) /\ write' = [write EXCEPT !.at = "fill"]
    /\ UNCHANGED <<gate, pc, call, calls, previous, had_shadow, result, applied, faults, outside, lost, base>>

\* fwrite into the buffer of the stream and fclose, which flushes it.
FillTmp ==
    /\ Written("fill")
    /\ Put(tmp(write.path), Whole(write.text)) /\ write' = [write EXCEPT !.at = "rename"]
    /\ UNCHANGED <<gate, pc, call, calls, previous, had_shadow, result, applied, faults, outside, lost, base>>

\* The flush fails in fclose, whose result is not looked at: what reached the
\* file before is a part of the text, and it is renamed like a whole one.
FlushFails ==
    /\ Written("fill") /\ faults < MaxFaults /\ faults' = faults + 1 /\ lost' = TRUE
    /\ \E n \in 0 .. Len(write.text) - 1 : Put(tmp(write.path), Part(SubSeq(write.text, 1, n)))
    /\ write' = [write EXCEPT !.at = "rename"]
    /\ UNCHANGED <<gate, pc, call, calls, previous, had_shadow, result, applied, outside, base>>

Rename ==
    /\ Written("rename")
    /\ disk' = [disk EXCEPT ![write.path] = disk[tmp(write.path)], ![tmp(write.path)] = Absent]
    /\ write' = [write EXCEPT !.at = "ok"]
    /\ UNCHANGED <<gate, pc, call, calls, previous, had_shadow, result, applied, faults, outside, lost, base>>

\* remove(tmp); when it could not be created there is none of ours to remove.
Discard(p) == disk' = [disk EXCEPT ![tmp(p)] = IF write.at = "create" THEN @ ELSE Absent]

WriteFails ==
    /\ \E how \in {"create", "fill", "rename"} : Written(how)
    /\ faults < MaxFaults /\ faults' = faults + 1
    /\ Discard(write.path)
    /\ write' = [write EXCEPT !.at = "bad"]
    /\ UNCHANGED <<gate, pc, call, calls, previous, had_shadow, result, applied, outside, lost, base>>

Begin(which, path, text) == pc' = which /\ write' = [path |-> path, text |-> text, at |-> "create"]

-----------------------------------------------------------------------------
(* FileWriteTool::run *)

Refused == (disk[Target] # Absent /\ call.guard) \/ (disk[Target] = Absent /\ ~call.create)

RefuseWrite == pc = "check" /\ Refused /\ Reply("error") /\ UNCHANGED <<disk, applied, faults>>

\* A new file needs no shadow; an old one is read and copied, whether or not it
\* could be read.
StartNew ==
    /\ pc = "check" /\ ~Refused /\ disk[Target] = Absent
    /\ previous' = << >> /\ had_shadow' = FALSE
    /\ Begin("target", Target, call.content)
    /\ UNCHANGED <<disk, gate, call, calls, result, applied, faults, outside, lost, base>>

StartShadow ==
    /\ pc = "check" /\ ~Refused /\ disk[Target] # Absent
    /\ \/ previous' = Text(Target) /\ had_shadow' = TRUE /\ UNCHANGED faults
       \/ previous' = << >> /\ had_shadow' = FALSE /\ faults < MaxFaults /\ faults' = faults + 1
    /\ Begin("shadow", Shadow, previous')
    /\ UNCHANGED <<disk, gate, call, calls, result, applied, outside, lost, base>>

\* The outcome of the shadow copy is not looked at.
AfterShadow ==
    /\ pc = "shadow" /\ write.at \in {"ok", "bad"}
    /\ Begin("target", Target, call.content)
    /\ UNCHANGED <<disk, gate, call, calls, previous, had_shadow, result, applied, faults, outside, lost, base>>

Cleared(d) == [d EXCEPT ![Shadow] = Absent]

Outcome == IF write.at = "ok" THEN "ok" ELSE "error"

WriteDone ==
    /\ pc = "target"
    /\ write.at = "ok" \/ (write.at = "bad" /\ (call.tool = "file.patch" \/ ~had_shadow))
    /\ disk' = IF write.at = "ok" /\ call.tool = "file.write" THEN Cleared(disk) ELSE disk
    /\ Reply(Outcome)
    /\ applied' = applied + (IF Outcome = "ok" /\ call.agent THEN 1 ELSE 0)
    /\ UNCHANGED faults

StartRollback ==
    /\ pc = "target" /\ write.at = "bad" /\ call.tool = "file.write" /\ had_shadow
    /\ Begin("rollback", Target, previous)
    /\ UNCHANGED <<disk, gate, call, calls, previous, had_shadow, result, applied, faults, outside, lost, base>>

RolledBack ==
    /\ pc = "rollback" /\ write.at \in {"ok", "bad"}
    /\ disk' = Cleared(disk) /\ Reply("error") /\ UNCHANGED <<applied, faults>>

-----------------------------------------------------------------------------
(* FilePatchTool::run and patch::apply_file *)

PatchRejected ==
    /\ pc = "patch" /\ (disk[Target] = Absent \/ ~Applies(call, Text(Target)))
    /\ Reply("error") /\ UNCHANGED <<disk, applied, faults>>

PatchApplies ==
    /\ pc = "patch" /\ disk[Target] # Absent /\ Applies(call, Text(Target))
    /\ Begin("target", Target, PatchText(call, Text(Target)))
    /\ UNCHANGED <<disk, gate, call, calls, previous, had_shadow, result, applied, faults, outside, lost, base>>

-----------------------------------------------------------------------------
(* The world *)

\* The process dies; the disk stays and a new process starts.
Crash ==
    /\ pc # "idle" /\ faults < MaxFaults /\ faults' = faults + 1
    /\ pc' = "idle" /\ result' = "crashed" /\ write' = [write EXCEPT !.at = "none"]
    /\ applied' = 0
    /\ UNCHANGED <<disk, gate, call, calls, previous, had_shadow, outside, lost, base>>

Outside(text) ==
    /\ outside < MaxOutside /\ outside' = outside + 1
    /\ Put(Target, Whole(text))
    /\ UNCHANGED <<gate, pc, call, calls, tool, result, applied, faults, lost, base>>

Init ==
    /\ \E file \in {Whole(t) : t \in OutsideTexts} \cup {Absent} :
           disk = [p \in Paths |-> IF p = Target THEN file ELSE Absent]
    /\ gate \in Gates
    /\ pc = "idle" /\ call = (CHOOSE c \in Calls : TRUE) /\ calls = 0
    /\ write = [path |-> Target, text |-> << >>, at |-> "none"]
    /\ previous = << >> /\ had_shadow = FALSE
    /\ result = "none" /\ applied = 0 /\ faults = 0 /\ outside = 0
    /\ lost = FALSE /\ base = Absent

Next ==
    \/ \E c \in Calls : run_tool(c) \/ Direct(c)
    \/ Unknown \/ Invalid \/ VerifyFails \/ VerifyPasses \/ Denied \/ Granted \/ Other
    \/ CreateTmp \/ FillTmp \/ FlushFails \/ Rename \/ WriteFails
    \/ RefuseWrite \/ StartNew \/ StartShadow \/ AfterShadow \/ WriteDone
    \/ StartRollback \/ RolledBack \/ PatchRejected \/ PatchApplies
    \/ Crash \/ \E t \in OutsideTexts : Outside(t) \/ Shell(t)

Spec == Init /\ [][Next]_vars

-----------------------------------------------------------------------------
(* Properties *)

\* Wherever a call of the file system reports a failure and wherever the process
\* dies, the file is one of the whole texts somebody gave it, never a part of
\* one (write_file_atomic), as long as every fclose has flushed its buffer.
NeverPartial == ~lost => disk[Target].kind # "partial" /\ disk[Shadow].kind # "partial"

\* A call that fails leaves the file as it was when the tool began, unless
\* somebody else wrote it meanwhile, a flush was lost (the rollback writes
\* too), or it was a command that failed (FileWriteTool::run, apply_file).
FailureChangesNothing ==
    (pc = "idle" /\ outside = 0 /\ ~lost /\ (result = "error" => call.tool # "shell.run")
       /\ result \in {"error", "denied", "verify failed", "invalid"})
      => disk[Target] = base

\* A call that reports success has put its text on the disk, if its fclose did,
\* and counts as an applied edit of the task (FileWriteTool::run, run_tool).
SuccessIsOnDisk ==
    (pc = "idle" /\ outside = 0 /\ ~lost /\ result = "ok" /\ call.tool = "file.write")
      => disk[Target] = Whole(call.content) /\ (call.agent => applied > 0)

\* Between calls no temporary file or shadow copy is left, unless the process
\* died, or the file to be replaced could not be read (FileWriteTool::run).
NoDebris ==
    (pc = "idle" /\ calls = 1 /\ result # "crashed" /\ (had_shadow \/ faults = 0))
      => \A p \in Paths \ {Target} : disk[p] = Absent

\* As long as every fclose has flushed its buffer, the edited file is always one
\* of the whole texts somebody gave it: a write call that fails, at whatever
\* step, leaves it as it was, and one that reports success has put its text on
\* the disk.  Neither leaves a temporary file or a shadow copy behind.
EditIsAtomic == NeverPartial /\ FailureChangesNothing /\ SuccessIsOnDisk /\ NoDebris

ReadOnlyStep ==
    (outside' = outside /\ disk' # disk)
      => policy_for(gate, find(reg, call.tool).category) \in {"allow", "ask"}

\* The disk changes only in a call of a tool whose category the gate allows or
\* asks about: a category that is denied, or in which only read-only tools may
\* run, keeps the disk as it is, whatever the model calls, shell.run included,
\* and whatever the host's callback answers (Gate::check).
ReadOnlyKeepsDisk == [][ReadOnlyStep]_vars

-----------------------------------------------------------------------------
(* What the repository says and TLC refutes *)

\* write.cpp: "file.patch is the primary edit tool"; a patch that applies to the
\* file as it is passes the verify gate.
PatchCanPass ==
    (pc = "idle" /\ result = "verify failed" /\ call.tool = "file.patch" /\ outside = 0)
      => disk[Target] = Absent \/ ~Applies(call, Text(Target))

\* patch.h: "apply `patch_text` to the file at `path` atomically" (and the name
\* write_file_atomic): the file is never a part of a text.
WriteIsAtomic == disk[Target].kind # "partial"

\* write.cpp: "file.write refuses silent overwrites by default".
GuardKeepsFile ==
    [][(call.guard /\ call.tool = "file.write" /\ outside' = outside /\ calls' = calls)
         => disk[Target] = Absent \/ disk'[Target] = disk[Target]]_vars
=============================================================================
