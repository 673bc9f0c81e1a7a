--------------------------- MODULE SessionMemory ---------------------------
(***************************************************************************)
(* The tasks of an engine and what they leave in its store: the messages   *)
(* that agent::Session appends and saves (src/agent/session.cpp), the      *)
(* checkpoint that the loop takes after every round                        *)
(* (src/memory/session_memory.cpp) as the separate writes it is made of,   *)
(* with a crash between any two of them, and the resume of a session.      *)
(*                                                                         *)
(* The workspace is a number that every change raises: its SHA-1 hash      *)
(* tells any two contents apart.  The time is in seconds and a session     *)
(* that is not given an id takes it from the time, so two tasks that begin *)
(* in one second share it.  SQLite may refuse any row, which is only       *)
(* logged: the caller goes on as if it had been written.                   *)
(***************************************************************************)
EXTENDS Backends

CONSTANTS MaxMsgs, MaxEdits, MaxTime, MaxCks, \* bounds: messages of a task, changes,
                                              \* seconds and tasks, checkpoints of a task
          MaxRefused                          \* bound: rows refused

VARIABLES
    db,
    now,       \* the clock, in seconds
    work,      \* the content of the workspace
    task,      \* the running task: [sid, hist, edits, tokens], or NoId
    ck,        \* where its checkpoint is: [step, hash], step = "none" when none runs
    made,      \* the messages that tasks have appended to each session since the store is there
    edited,    \* the edits that the last task of each session has applied
    refused,   \* <<session, what>>: a row of it was refused and not written since
    refusals,  \* number of rows refused so far
    began      \* number of tasks so far

vars == <<db, now, work, task, ck, made, edited, refused, refusals, began>>

NoCk == [step |-> "none", i |-> 0, hash |-> 0]
Scope(s) == s

Init ==
    /\ db \in {MemEmpty, SqlEmpty} /\ now = 1 /\ work = 1 /\ task = NoId /\ ck = NoCk
    /\ made = [s \in Sessions |-> << >>] /\ edited = made /\ began = 0
    /\ refused = {} /\ refusals = 0

\* A row is written, or refused: a message is missing from its place for good,
\* an entry until it is written again.
Save(s, what, written) ==
    \/ /\ db' = written /\ UNCHANGED refusals
       /\ refused' = IF what = "message" THEN refused ELSE refused \ {<<s, what>>}
    \/ /\ db.kind = "sqlite" /\ refusals < MaxRefused /\ refusals' = refusals + 1
       /\ refused' = refused \cup {<<s, what>>} /\ UNCHANGED db

\* next_msg_id: m1, m2, ... of the session.
NextMsgId(t) == t.seq + 1

\* append_user, append_assistant, append_tool_result: the message joins the
\* history and is saved at once.
Appended(t) == [t EXCEPT !.seq = @ + 1,
                         !.hist = Append(@, [id |-> NextMsgId(t), session |-> t.sid, task |-> t.nr])]
Append1(t) ==
    /\ task' = Appended(t)
    /\ Save(t.sid, "message", MessageSave(db, Last(Appended(t).hist)))
    /\ made' = [made EXCEPT ![t.sid] = Append(@, Last(Appended(t).hist))]

\* run_task: a new session, whose id is the second in which it begins.
StartTask ==
    /\ task = NoId /\ began < MaxTime /\ began' = began + 1
    /\ Append1([sid |-> now, nr |-> began', seq |-> 0, hist |-> << >>, edits |-> << >>,
                tokens |-> 0, cks |-> 0])
    /\ edited' = [edited EXCEPT ![now] = << >>]
    /\ UNCHANGED <<now, work, ck>>

InRound == task # NoId /\ ck = NoCk

\* The answer of the model, with its usage, or the result of a tool call.
AppendMessage ==
    /\ InRound /\ Len(task.hist) < MaxMsgs
    /\ Append1([task EXCEPT !.tokens = @ + 1])
    /\ UNCHANGED <<now, work, ck, edited, began>>

\* A tool that writes changes the workspace and is listed in applied_edits.
ApplyEdit ==
    /\ InRound /\ work < MaxEdits /\ work' = work + 1
    /\ task' = [task EXCEPT !.edits = Append(@, work')]
    /\ edited' = [edited EXCEPT ![task.sid] = Append(@, work')]
    /\ UNCHANGED <<db, now, ck, made, refused, refusals, began>>

\* Agent::checkpoint: the hash comes first; it is empty when the walk of the
\* workspace fails.
Checkpoint(ok) ==
    /\ InRound /\ task.cks < MaxCks /\ task' = [task EXCEPT !.cks = @ + 1]
    /\ ck' = [step |-> "session", i |-> 1, hash |-> IF ok THEN work ELSE 0]
    /\ UNCHANGED <<db, now, work, made, edited, refused, refusals, began>>

Entry(key, value) ==
    [id |-> <<key, task.sid>>, session |-> Scope(task.sid), content |-> value]

\* memory::checkpoint, one write at a time.
CkSession ==
    /\ ck.step = "session" /\ Save(task.sid, "session", SessionSave(db, task.sid))
    /\ ck' = [ck EXCEPT !.step = "messages"]
    /\ UNCHANGED <<now, work, task, made, edited, began>>

CkMessage ==
    /\ ck.step = "messages"
    /\ IF ck.i <= Len(task.hist)
       THEN /\ Save(task.sid, "message", MessageSave(db, task.hist[ck.i]))
            /\ ck' = [ck EXCEPT !.i = @ + 1]
       ELSE ck' = [ck EXCEPT !.step = "edits"] /\ UNCHANGED <<db, refused, refusals>>
    /\ UNCHANGED <<now, work, task, made, edited, began>>

\* An empty hash is not written.
SaveHash ==
    IF ck.hash = 0 THEN UNCHANGED <<db, refused, refusals>>
    ELSE Save(task.sid, "hash", FileSave(db, Entry("workspace_hash", ck.hash)))

\* Mutant: the hash is written before the edits that it stands for.
CkEdits_HashFirst ==
    /\ ck.step = "edits" /\ SaveHash
    /\ ck' = [ck EXCEPT !.step = "tokens"]
    /\ UNCHANGED <<now, work, task, made, edited, began>>
CkEdits ==
    /\ ck.step = "edits"
    /\ Save(task.sid, "edits", FileSave(db, Entry("applied_edits", task.edits)))
    /\ ck' = [ck EXCEPT !.step = "tokens"]
    /\ UNCHANGED <<now, work, task, made, edited, began>>

CkTokens ==
    /\ ck.step = "tokens"
    /\ Save(task.sid, "tokens", FileSave(db, Entry("tokens_used", task.tokens)))
    /\ ck' = [ck EXCEPT !.step = "hash"]
    /\ UNCHANGED <<now, work, task, made, edited, began>>

CkHash ==
    /\ ck.step = "hash" /\ ck' = NoCk /\ SaveHash
    /\ UNCHANGED <<now, work, task, made, edited, began>>

EndTask ==
    /\ InRound /\ task' = NoId
    /\ UNCHANGED <<db, now, work, ck, made, edited, refused, refusals, began>>

\* The process dies in a task, with a write done or not begun.
Crash ==
    /\ task # NoId /\ task' = NoId /\ ck' = NoCk /\ db' = Reopened(db)
    /\ made' = IF db.kind = "mem" THEN [s \in Sessions |-> << >>] ELSE made
    /\ UNCHANGED <<now, work, edited, refused, refusals, began>>

\* The user changes a file; time passes.  Only the start of a task looks at the
\* clock, so it need not move during one.
UserEdits ==
    /\ task = NoId /\ work < MaxEdits /\ work' = work + 1
    /\ UNCHANGED <<db, now, task, ck, made, edited, refused, refusals, began>>

Tick ==
    /\ task = NoId /\ now < MaxTime /\ now' = now + 1
    /\ UNCHANGED <<db, work, task, ck, made, edited, refused, refusals, began>>

\* find_entry: the content of the entry under a key.
Found(s, key, none) ==
    LET files == SelectSeq(FilesBySession(db, Scope(s)), LAMBDA f : f.id = <<key, s>>)
    IN  IF files = << >> THEN none ELSE files[1].content

\* The hash of the workspace is compared when there is one and the walk succeeds.
Matches(hash, ok) == hash # 0 /\ ok /\ hash = work

\* resume of a session whose row exists; it changes nothing.
Resume(s, ok) ==
    [messages |-> MessagesBySession(db, s),
     edits |-> Found(s, "applied_edits", << >>), tokens |-> Found(s, "tokens_used", 0),
     matches |-> Matches(Found(s, "workspace_hash", 0), ok)]

Next ==
    \/ StartTask \/ ApplyEdit \/ EndTask \/ Crash \/ UserEdits \/ Tick
    \/ AppendMessage
    \/ \E ok \in BOOLEAN : Checkpoint(ok)
    \/ CkSession \/ CkMessage \/ CkEdits \/ CkTokens \/ CkHash

Spec == Init /\ [][Next]_vars

-----------------------------------------------------------------------------
CanResume(s) == task = NoId /\ SessionGet(db, s)
FirstSeen(msgs) ==
    FoldLeft(LAMBDA acc, x : IF x \in ToSet(acc) THEN acc ELSE Append(acc, x), << >>, msgs)

\* A host that resumes with workspace_matches knows every edit of the session's
\* last task, wherever the process died and whatever other rows were refused:
\* the hash is written last, so a checkpoint cut short leaves one that no longer
\* matches, never a list of edits that is too short.  Only a list that SQLite
\* itself refused is too short under a hash that it then accepted.
MatchedResumeKnowsEdits ==
    \A s \in Sessions, ok \in BOOLEAN :
        CanResume(s) /\ Resume(s, ok).matches /\ <<s, "edits">> \notin refused
            => ToSet(edited[s]) \subseteq ToSet(Resume(s, ok).edits)

\* What the tasks of a session have appended comes back in order and without a
\* gap after a crash anywhere: from MemStore always, from SQLite for a session
\* that only the first task of the database has used and of which no message
\* was refused.  Each message may come more than once.
ResumeHasNoGap ==
    \A s \in Sessions :
        CanResume(s) /\ (db.kind = "mem" \/ (\A i \in DOMAIN made[s] : made[s][i].task = 1))
          /\ <<s, "message">> \notin refused
            => FirstSeen(Resume(s, TRUE).messages) = FirstSeen(made[s])

\* The messages of a resumed session are its full history, in insertion order
\* (session_memory.h: SessionCheckpoint::messages).  Not so: a checkpoint saves
\* again what has been saved, and SQLite refuses the ids of an earlier session,
\* or of an earlier task that began in the same second.
ResumeIsHistory ==
    \A s \in Sessions : CanResume(s) => Resume(s, TRUE).messages = made[s]

\* session_memory.h: a checkpoint "Returns the session id on success, "" when no
\* Store is attached or a write failed", so one that comes to its end has written
\* the edits.  Not so: the refusal of a row is only logged.
CheckpointIsWhole ==
    [][ck.step = "hash" /\ ck'.step = "none" /\ task' # NoId
           => Found(task.sid, "applied_edits", << >>)' = task.edits]_vars

=============================================================================
