----------------------------- MODULE MCStorage -----------------------------
(***************************************************************************)
(* Instances of the three users of a store: a plain caller (Store), the    *)
(* tasks with their checkpoints (SessionMemory) and the workspace memory   *)
(* (WorkspaceMemory).  part says which of them a behaviour is of.          *)
(***************************************************************************)
EXTENDS Integers, Sequences, TLC

CONSTANTS
    Sessions, NoId,
    MsgIds, FileIds, Contents, MaxSaves,
    MaxMsgs, MaxEdits, MaxTime, MaxCks, MaxRefused,
    Keys, Values, Valid, Secret, Long, Kinds, MaxEntries, MaxWrites

VARIABLES
    part, db,
    told, saves,
    now, work, task, ck, made, edited, refused, refusals, began,
    clock, writes, last, born

ST == INSTANCE Store
SM == INSTANCE SessionMemory
WM == INSTANCE WorkspaceMemory

plain  == <<told, saves>>
tasks  == <<now, work, task, ck, made, edited, refused, refusals, began>>
memory == <<clock, writes, last, born>>

PlainIdle  == told = NoId /\ saves = 0
TasksIdle  == /\ now = 1 /\ work = 1 /\ task = NoId /\ ck = SM!NoCk
              /\ made = << >> /\ edited = << >> /\ refused = {} /\ refusals = 0 /\ began = 0
MemoryIdle == clock = 1 /\ writes = 0 /\ last = NoId /\ born = WM!NeverBorn

Init ==
    \/ part = "store" /\ ST!Init /\ TasksIdle /\ MemoryIdle
    \/ part = "session" /\ SM!Init /\ PlainIdle /\ MemoryIdle
    \/ part = "memory" /\ WM!Init /\ PlainIdle /\ TasksIdle

Next ==
    \/ part = "store" /\ ST!Next /\ UNCHANGED <<part, tasks, memory>>
    \/ part = "session" /\ SM!Next /\ UNCHANGED <<part, plain, memory>>
    \/ part = "memory" /\ WM!Next /\ UNCHANGED <<part, plain, tasks>>

Spec == Init /\ [][Next]_<<part, db, plain, tasks, memory>>

\* No definition tells the messages, contents or valid keys apart.
Symmetric == Permutations(MsgIds) \cup Permutations(Contents) \cup Permutations(Valid)

-----------------------------------------------------------------------------
(* The properties of each part, stated in its module.                      *)

\* What a caller reads from either backend is what the interface promises
\* (StoreContract): messages in insertion order, at most one of them removed by
\* a delete, files in first-save order with their versions counted.
Contract == INSTANCE StoreContract WITH
    msgs <- [s \in Sessions |-> IF part = "store" THEN ST!MessagesBySession(db, s) ELSE << >>],
    files <- [s \in Sessions |-> IF part = "store" THEN ST!FilesBySession(db, s) ELSE << >>]
ImplementsContract == Contract!Spec

\* Wherever the process died, a resume that matches the workspace knows the
\* edits of the session's last task unless SQLite refused their list, and a
\* resumed history has no gap unless SQLite refused a message, for a failure or
\* because an earlier task has used its id (SessionMemory).
ResumeIsSound == part = "session" => SM!MatchedResumeKnowsEdits /\ SM!ResumeHasNoGap

\* A workspace keeps to its cap and its keys apart, what is written can be read
\* unless SQLite refused it, nothing invalid is, and a prompt's context is the
\* first entries that fit, in the order of the slots (WorkspaceMemory).
MemoryIsBounded ==
    part = "memory" => WM!EntriesAreCapped /\ WM!LastIsReadable /\ WM!ContextIsBounded

\* A write costs at most one entry, the oldest by the time of its last write if
\* all of them carry a time (WorkspaceMemory).
OneEntryGoes ==
    [][part = "memory" => WM!OneEntryStep]_<<part, db, plain, tasks, memory>>

=============================================================================
