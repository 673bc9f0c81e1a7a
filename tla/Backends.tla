------------------------------ MODULE Backends ------------------------------
(***************************************************************************)
(* The two backends of store::Store: MemStore (src/store/mem_store.cpp)    *)
(* and SqliteStore (src/store/sqlite_store.cpp).  A database is a value    *)
(* and every method an operator on it, so that the modules that store      *)
(* something (Store, SessionMemory, WorkspaceMemory) share one definition. *)
(*                                                                         *)
(* A message has an id and a session (and what a caller adds), a file its  *)
(* id, session and content; titles and timestamps are left out.  An id that a method       *)
(* generates is <<"id", e, n>> with n the value of the counter; e tells    *)
(* apart the openings of a database, as the time in the id does.           *)
(***************************************************************************)
EXTENDS Integers, Sequences, FiniteSets, SequencesExt, FiniteSetsExt, Functions

CONSTANTS
    Sessions,     \* session ids, and the scopes that memory files use
    NoId          \* the empty id

\* create_mem_store and create_sqlite_store on a new database.
MemEmpty ==
    [kind |-> "mem", sessions |-> {}, msgs |-> [s \in Sessions |-> << >>],
     owner |-> << >>, files |-> << >>, order |-> [s \in Sessions |-> << >>], seq |-> 0, era |-> 0]
SqlEmpty == [kind |-> "sqlite", sessions |-> {}, rows |-> {}, files |-> << >>, seq |-> 0, era |-> 0]

\* session_get: is there such a session?
SessionGet(d, s) == s \in d.sessions

\* session_save: a row per id, replaced when it exists.
SessionSave(d, s) == [d EXCEPT !.sessions = @ \cup {s}]

\* next_id
NextId(d) == <<"id", d.era, d.seq + 1>>
WithId(d, id) == IF id = NoId THEN NextId(d) ELSE id
Drawn(d, id) == IF id = NoId THEN [d EXCEPT !.seq = @ + 1] ELSE d

\* SELECT COALESCE(MAX(seq),-1)+1
NextSeq(d, s) == Max({r.seq : r \in {x \in d.rows : x.msg.session = s}} \cup {-1}) + 1

\* MemStore::message_save appends, whatever the id.
MemMessageSave(d, m) ==
    [d EXCEPT !.msgs[m.session] = Append(@, m), !.owner = (m.id :> m.session) @@ @]

\* SqliteStore::message_save inserts: a second row under an id is an error that
\* is only logged.
SqlMessageSave(d, m) ==
    IF \E r \in d.rows : r.msg.id = m.id THEN d
    ELSE [d EXCEPT !.rows = @ \cup {[msg |-> m, seq |-> NextSeq(d, m.session)]}]

\* message_save with the id that the message is given.
MessageSave(d, m) ==
    LET e == Drawn(d, m.id)
        n == [m EXCEPT !.id = WithId(d, m.id)]
    IN  IF d.kind = "mem" THEN MemMessageSave(e, n) ELSE SqlMessageSave(e, n)

\* messages_by_session: in the order of saving, or of seq.
MessagesBySession(d, s) ==
    IF d.kind = "mem" THEN d.msgs[s]
    ELSE LET rows == {r \in d.rows : r.msg.session = s}
             Row(i) == CHOOSE r \in rows : Cardinality({q \in rows : q.seq < r.seq}) = i - 1
         IN  [i \in 1..Cardinality(rows) |-> Row(i).msg]

\* MemStore::message_delete: the first message under the id in the session that
\* saved it last, and the entry of the map.
MemMessageDelete(d, id) ==
    IF id \notin DOMAIN d.owner THEN d
    ELSE [d EXCEPT !.msgs[d.owner[id]] = RemoveFirstMatch(@, LAMBDA m : m.id = id),
                   !.owner = Restrict(@, DOMAIN @ \ {id})]

MessageDelete(d, id) ==
    IF d.kind = "mem" THEN MemMessageDelete(d, id)
    ELSE [d EXCEPT !.rows = {r \in @ : r.msg.id # id}]

FileIndex(d, id) == SelectInSeq(d.files, LAMBDA f : f.id = id)

\* MemStore::file_save_version: a map of files and the order of their ids.
MemFileSave(d, f) ==
    IF f.id \in DOMAIN d.files
    THEN [d EXCEPT !.files[f.id].content = f.content, !.files[f.id].version = @ + 1]
    ELSE LET e == Drawn(d, f.id)
             id == WithId(d, f.id)
         IN  [e EXCEPT !.files = (id :> [session |-> f.session, content |-> f.content,
                                         version |-> 1]) @@ @,
                       !.order[f.session] = Append(@, id)]

\* Mutant: the conflict clause takes the new row's session.
SqlFileSave_Moves(d, f) ==
    LET e == Drawn(d, f.id)
        id == WithId(d, f.id)
        i == FileIndex(d, id)
    IN  IF i # 0 THEN [e EXCEPT !.files[i].content = f.content, !.files[i].version = @ + 1,
                                !.files[i].session = f.session]
        ELSE [e EXCEPT !.files = Append(@, [id |-> id, session |-> f.session,
                                            content |-> f.content, version |-> 1])]
\* SqliteStore::file_save_version: INSERT ... ON CONFLICT(id) DO UPDATE.
SqlFileSave(d, f) ==
    LET e == Drawn(d, f.id)
        id == WithId(d, f.id)
        i == FileIndex(d, id)
    IN  IF i # 0 THEN [e EXCEPT !.files[i].content = f.content, !.files[i].version = @ + 1]
        ELSE [e EXCEPT !.files = Append(@, [id |-> id, session |-> f.session,
                                            content |-> f.content, version |-> 1])]

FileSave(d, f) == IF d.kind = "mem" THEN MemFileSave(d, f) ELSE SqlFileSave(d, f)

File(id, r) == [id |-> id, content |-> r.content, version |-> r.version]

\* files_by_session
FilesBySession(d, s) ==
    IF d.kind = "mem"
    THEN [i \in DOMAIN d.order[s] |-> File(d.order[s][i], d.files[d.order[s][i]])]
    ELSE LET rows == SelectSeq(d.files, LAMBDA f : f.session = s)
         IN  [i \in DOMAIN rows |-> File(rows[i].id, rows[i])]

\* The process ends and the store is opened again.
Reopened(d) == IF d.kind = "mem" THEN MemEmpty ELSE [d EXCEPT !.seq = 0, !.era = @ + 1]

=============================================================================
