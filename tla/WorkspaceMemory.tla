-------------------------- MODULE WorkspaceMemory --------------------------
(***************************************************************************)
(* Workspace memory (src/memory/entry.cpp, workspace_memory.cpp): keyed    *)
(* entries kept as files of the store, written by the memory.write tool,   *)
(* by the engine itself and through the C ABI, and read into the prompt.   *)
(*                                                                         *)
(* A key or a value is a model value with the facts that the code looks    *)
(* at: Valid keys have the right characters and length, Secret texts match *)
(* the filter, Long values exceed max_value_chars.  A keyword is found in  *)
(* an entry that has it as key, value or tag.  Workspaces share the store. *)
(***************************************************************************)
EXTENDS Backends

CONSTANTS
    Keys, Values, Valid, Secret, Long,
    Kinds,                   \* kind_names
    MaxEntries,              \* caps.max_entries
    MaxWrites                \* bound: writes in a behaviour

VARIABLES
    db,
    clock,     \* the time, in seconds
    writes,    \* number of writes so far
    last,      \* the last write: [to, e, kept], NoId when it was invalid
    born       \* the second in which each key of each workspace was written last (history)

wvars == <<db, clock, writes, last, born>>

\* kind_from_name: an unknown name is a fact.
KindFromName(k) == IF k \in Kinds THEN k ELSE "fact"

\* has_secret_value and validate_entry, in the code's order.
ValidateEntry(e) ==
    IF e.key \notin Valid \/ e.value \in Long \/ {e.key, e.value} \cap Secret # {}
    THEN "e_invalid_cfg"
    ELSE IF e.kind \notin Kinds THEN "e_model_unsup" ELSE "ok"

EntryId(scope, key) == <<"mem", scope, key>>

\* to_json: a flat object; tags appear only when there are some.
ToJson(e) == [f \in DOMAIN e \ (IF e.tags = {} THEN {"tags"} ELSE {}) |-> e[f]]

\* from_json: every field is optional.
Field(o, f, none) == IF f \in DOMAIN o THEN o[f] ELSE none
FromJson(o) ==
    [kind |-> KindFromName(Field(o, "kind", "")), scope |-> Field(o, "scope", NoId),
     key |-> Field(o, "key", NoId), value |-> Field(o, "value", NoId),
     created_at |-> Field(o, "created_at", 0), tags |-> Field(o, "tags", {})]

\* read_entries: the entries of the workspace, in the order in which their keys
\* were written first.  Kinds as the
\* argument kind stands for no restriction.
ReadEntries(d, w, kind) ==
    LET files == FilesBySession(d, w)
    IN  SelectSeq([i \in DOMAIN files |-> FromJson(files[i].content)],
                  LAMBDA e : e.scope = w /\ e.kind \in kind)

\* oldest: the first of the entries with the smallest time.
Oldest(es) ==
    es[Min({i \in DOMAIN es : \A j \in DOMAIN es : es[i].created_at <= es[j].created_at})]

AtCap(es) == Len(es) >= MaxEntries

\* Mutant: the newest entry gives way.
Recycled_Last(es, key) == IF AtCap(es) /\ es # << >> THEN es[Len(es)].key ELSE key
\* The key that a write goes to.
Recycled(es, key) == IF AtCap(es) /\ es # << >> THEN Oldest(es).key ELSE key

\* write_entry for workspace w.  A row that SQLite refuses is reported as written.
WriteEntry(w, e) ==
    /\ writes < MaxWrites /\ writes' = writes + 1 /\ clock' \in {clock, clock + 1}
    /\ \/ ValidateEntry(e) # "ok" /\ last' = NoId /\ UNCHANGED <<db, born>>
       \/ LET n == [e EXCEPT !.key = Recycled(ReadEntries(db, w, Kinds), e.key), !.scope = w]
          IN  /\ ValidateEntry(e) = "ok"
              /\ \/ /\ db' = FileSave(db, [id |-> EntryId(w, n.key), session |-> w,
                                           content |-> ToJson(n)])
                    /\ last' = [to |-> n.key, e |-> n, kept |-> TRUE]
                    /\ born' = [born EXCEPT ![w][n.key] = clock]
                 \/ /\ db.kind = "sqlite" /\ last' = [to |-> n.key, e |-> n, kept |-> FALSE]
                    /\ UNCHANGED <<db, born>>

Entry(kind, key, value, tags, at) ==
    [kind |-> kind, scope |-> NoId, key |-> key, value |-> value, created_at |-> at,
     tags |-> tags]

\* MemoryWriteTool::run; the model may give a kind that there is not.
ToolWrites(w, key, value) ==
    WriteEntry(w, Entry(KindFromName("note"), key, value, {}, clock))

\* Agent::write_task_lesson and Agent::write_repo_rule.
EngineWrites(w, key, value) ==
    \E kind \in {"lesson", "repo_rule"} :
        WriteEntry(w, Entry(kind, key, value, {kind}, clock))

\* Engine::memory_write leaves created_at at zero.
AbiWrites(w, key, value) == WriteEntry(w, Entry("fact", key, value, {}, 0))

NeverBorn == [w \in Sessions |-> [key \in Keys |-> 0]]
Init ==
    /\ db \in {MemEmpty, SqlEmpty} /\ clock = 1 /\ writes = 0 /\ last = NoId
    /\ born = NeverBorn

Next ==
    \/ \E w \in Sessions, key \in Keys, value \in Values :
           ToolWrites(w, key, value) \/ EngineWrites(w, key, value) \/ AbiWrites(w, key, value)

Spec == Init /\ [][Next]_wvars

-----------------------------------------------------------------------------
Mentions(e) == {e.key, e.value} \cup e.tags
Tokens(e) == IF e.kind = "fact" THEN 1 ELSE 2

\* match_entries
MatchEntries(es, keywords) == SelectSeq(es, LAMBDA e : Mentions(e) \cap keywords # {})

\* Mutant: an entry that does not fit is skipped and the next one tried, against
\* a count that is no longer kept.
EntriesToContext_Skips(es, max_entries, max_tokens) ==
    SelectSeq(es, LAMBDA e : max_tokens = 0 \/ Tokens(e) <= max_tokens)
\* entries_to_context: entries until one exceeds the number or the tokens.
EntriesToContext(es, max_entries, max_tokens) ==
    LET Add(acc, e) ==
            IF acc.full \/ (max_entries # 0 /\ Len(acc.out) >= max_entries)
               \/ (max_tokens # 0 /\ acc.tokens + Tokens(e) > max_tokens)
            THEN [acc EXCEPT !.full = TRUE]
            ELSE [acc EXCEPT !.out = Append(@, e), !.tokens = @ + Tokens(e)]
    IN  FoldLeft(Add, [out |-> << >>, tokens |-> 0, full |-> FALSE], es).out

\* Engine::memory_context: all entries of a kind, or the matching ones filtered.
MemoryContext(d, w, kind, keywords, max_entries, max_tokens) ==
    LET es == IF keywords = {} THEN ReadEntries(d, w, kind)
              ELSE SelectSeq(MatchEntries(ReadEntries(d, w, Kinds), keywords),
                             LAMBDA e : e.kind \in kind)
    IN  EntriesToContext(es, max_entries, max_tokens)

-----------------------------------------------------------------------------
EntriesOf(d, w) == ToSet(ReadEntries(d, w, Kinds))

\* A workspace never holds more entries than its cap (one when the cap is zero),
\* nor two entries under one key, whoever writes and whichever store is behind.
EntriesAreCapped ==
    \A w \in Sessions :
        /\ Len(ReadEntries(db, w, Kinds)) <= Max({1, MaxEntries})
        /\ \A e, f \in EntriesOf(db, w) : e.key = f.key => e = f

\* What is written is there to be read, with its kind, value and time, unless
\* SQLite refused the row; no invalid entry or secret ever is.
LastIsReadable ==
    \A w \in Sessions :
        /\ (last # NoId /\ last.kept /\ last.e.scope = w) => last.e \in EntriesOf(db, w)
        /\ \A e \in EntriesOf(db, w) : {e.key, e.value} \cap (Secret \cup Long) = {}

\* The entries put into a prompt are within both caps, of the kind and about the
\* keywords asked for, and the first such entries in the order of the slots: a
\* recycled slot keeps its place, so this is not the order of age (ContextIsOldest).
ContextIsBounded ==
    \A w \in Sessions, keywords \in {{}} \cup {{k} : k \in Valid}, kind \in {Kinds, {"fact"}},
      n \in {0, MaxEntries - 1}, t \in {0, 2} :
        LET out == MemoryContext(db, w, kind, keywords, n, t)
            fits == {e \in EntriesOf(db, w) : e.kind \in kind
                         /\ (keywords # {} => Mentions(e) \cap keywords # {})}
        IN  /\ ToSet(out) \subseteq fits
            /\ n # 0 => Len(out) <= n
            /\ t # 0 => FoldLeft(LAMBDA sum, e : sum + Tokens(e), 0, out) <= t
            /\ IsPrefix(out, SelectSeq(ReadEntries(db, w, Kinds), LAMBDA e : e \in fits))

Timed(e) == e.created_at # 0

\* A write costs at most the one entry whose place it takes, and the other
\* workspace is untouched.  Once the workspace is full, and if every entry has a
\* time (memory.write and the engine give one, the C ABI does not), that entry
\* was not written in a later second than any other.
OneEntryStep ==
    \A w \in Sessions :
        LET there == EntriesOf(db, w)
            lost == there \ EntriesOf(db', w)
        IN  /\ \A e \in lost : last' # NoId /\ e.key = last'.to /\ last'.e.scope = w
            /\ Len(ReadEntries(db, w, Kinds)) >= MaxEntries /\ (\A f \in there : Timed(f)) =>
                   \A e \in lost, f \in there : born[w][e.key] <= born[w][f.key]

\* workspace_memory.h: the cap is enforced "by recycling the oldest entry slot".
\* Not so with entries of the C ABI, whose time is zero: the newest of them goes
\* before an older entry of the agent.
OldestIsRecycled ==
    [][\A w \in Sessions : Len(ReadEntries(db, w, Kinds)) >= MaxEntries =>
           \A e \in EntriesOf(db, w) \ EntriesOf(db', w), f \in EntriesOf(db, w) :
               born[w][e.key] <= born[w][f.key]]_wvars

\* workspace_memory.h: match_entries and entries_to_context give entries "oldest
\* first".  Not so after a recycle: the first slot holds the newest entry.
ContextIsOldest ==
    \A w \in Sessions : LET es == ReadEntries(db, w, Kinds) IN
        \A i, j \in DOMAIN es : i < j => born[w][es[i].key] <= born[w][es[j].key]

\* Re-writing the same key replaces the value (memory.write's description).
\* Not so once the workspace is full: the write goes to the oldest key.
RewriteReplaces ==
    [][\A w \in Sessions, key \in Keys, value \in Values :
           ToolWrites(w, key, value) /\ last' # NoId /\ last'.kept
               => \A e \in EntriesOf(db', w) : e.key = key => e.value = value]_wvars

=============================================================================
