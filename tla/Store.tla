------------------------------- MODULE Store -------------------------------
(***************************************************************************)
(* A store and a caller that saves, deletes and reopens it (Backends has   *)
(* the methods), against what the interface promises (StoreContract).      *)
(***************************************************************************)
EXTENDS Backends

CONSTANTS
    MsgIds, FileIds, Contents,
    MaxSaves      \* bound: mutations in a behaviour

VARIABLES
    db,
    told,      \* the message the listener was told of last
    saves      \* number of mutations so far

vars == <<db, told, saves>>

Init == db \in {MemEmpty, SqlEmpty} /\ told = NoId /\ saves = 0

Mutates == saves < MaxSaves /\ saves' = saves + 1

SaveMessage(id, s) ==
    /\ Mutates
    /\ db' = MessageSave(db, [id |-> id, session |-> s])
    /\ told' = [id |-> WithId(db, id), session |-> s]

\* The row is not written: the message cannot be encoded (the listener is told
\* nothing), or the database refuses it (only the log says so).
SaveMessageFails(id, s) ==
    /\ Mutates /\ db.kind = "sqlite"
    /\ db' = Drawn(db, id)
    /\ \/ UNCHANGED told
       \/ told' = [id |-> WithId(db, id), session |-> s]

DeleteMessage(id) == Mutates /\ db' = MessageDelete(db, id) /\ UNCHANGED told

SaveFile(id, s, c) ==
    /\ Mutates /\ db' = FileSave(db, [id |-> id, session |-> s, content |-> c])
    /\ UNCHANGED told

SaveFileFails(id) == Mutates /\ db.kind = "sqlite" /\ db' = Drawn(db, id) /\ UNCHANGED told

SaveSession(s) == Mutates /\ db' = SessionSave(db, s) /\ UNCHANGED told

Reopen == Mutates /\ db' = Reopened(db) /\ told' = NoId

Next ==
    \/ \E id \in MsgIds \cup {NoId}, s \in Sessions : SaveMessage(id, s) \/ SaveMessageFails(id, s)
    \/ \E id \in MsgIds : DeleteMessage(id)
    \/ \E id \in FileIds \cup {NoId}, s \in Sessions, c \in Contents : SaveFile(id, s, c)
    \/ \E id \in FileIds \cup {NoId} : SaveFileFails(id)
    \/ \E s \in Sessions : SaveSession(s)
    \/ Reopen

Spec == Init /\ [][Next]_vars

-----------------------------------------------------------------------------
\* The listener is told of the mutations that happened: a message it is told of
\* is in the store.  Not so when SQLite refuses the row, which only the log says.
ListenerIsTold ==
    [][\A id \in MsgIds \cup {NoId}, s \in Sessions :
           (SaveMessage(id, s) \/ SaveMessageFails(id, s)) /\ told' # told
               => \E i \in DOMAIN MessagesBySession(db', s) :
                      MessagesBySession(db', s)[i] = told']_vars

=============================================================================
