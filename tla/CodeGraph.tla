----------------------------- MODULE CodeGraph -----------------------------
(***************************************************************************)
(* The symbol index and call graph (graph/index.cpp, lazy.cpp,             *)
(* callgraph.cpp, queries.cpp).                                            *)
(*                                                                         *)
(* A file's text is what module Extract finds in it: [defs, deps], the     *)
(* definitions in order (kind, name and length; a definition fills its     *)
(* lines) and the dependencies [kind, from, to], where `from` is the       *)
(* number of the definition a call stands in, or 0.  A name is a sequence, *)
(* for its prefixes.  Ids are positions in `syms`; ranges are [first,      *)
(* count] with `first` counted from 0, as in the code.                     *)
(***************************************************************************)
EXTENDS Integers, Sequences, SequencesExt, FiniteSets, FiniteSetsExt, Functions

CONSTANTS Files, Texts, Caps,
          MaxSyms, MaxDeps,              \* limits_.max_syms_per_file, max_deps_per_file
          CompactAt,                     \* deps_.size() below which nothing is compacted (8192)
          SnippetBytes, ContextBytes,    \* limits_.snippet_bytes, context_total_bytes
          MaxEdits, MaxEnsures, MaxParses  \* bounds on the run

VARIABLES disk,         \* the files: [there, text, mtime]
          syms, deps,   \* syms_, deps_
          by_name, files, touch, cap,   \* by_name_, files_, touch_, limits_.cache_files
          touch_clock, extract_count, edits

index == <<syms, deps, by_name, files, touch, touch_clock, extract_count>>
vars  == <<disk, index, cap, edits>>

DeadSym == [id |-> 0, kind |-> "unknown", name |-> << >>, file |-> "", start |-> 0, end |-> 0]
DeadDep == [kind |-> "call", from |-> 0, to |-> 0, file |-> "", name |-> << >>]

Start(text, i) ==
    LET before[j \in 1..i] == IF j = 1 THEN 0 ELSE before[j - 1] + text.defs[j - 1].len
    IN  before[i]
Size(text) == Start(text, Len(text.defs) + 1)
Least(S) == CHOOSE i \in S : \A j \in S : i <= j
InOrder(S) == [k \in 1..Cardinality(S) |->
                  CHOOSE i \in S : Cardinality({j \in S : j <= i}) = k]
Shorter(a, b) == IF a < b THEN a ELSE b
Range0(r) == (r.first + 1)..(r.first + r.count)

-----------------------------------------------------------------------------
(* Removal and compaction *)

Index == [syms |-> syms, deps |-> deps, by_name |-> by_name, files |-> files, touch |-> touch]

\* A mutant: the ranges are left as they were.
Ranges_Kept(fs, ds) == fs

\* Rebuild each file's range from the runs left; a file with none keeps its own.
Ranges(fs, ds) ==
    [f \in DOMAIN fs |->
        LET own == {i \in 1..Len(ds) : ds[i].file = f}
        IN  IF own = {} THEN fs[f]
            ELSE [fs[f] EXCEPT !.deps = [first |-> Least(own) - 1, count |-> Cardinality(own)]]]

maybe_compact_deps(x) ==
    LET live == SelectSeq(x.deps, LAMBDA d : d.file # "")
        dead == Len(x.deps) - Len(live)
    IN  IF Len(x.deps) < CompactAt \/ dead * 2 < Len(x.deps) THEN x
        ELSE [x EXCEPT !.deps = live, !.files = Ranges(x.files, live)]

\* Take the ids out of the name table; a name with none left leaves it.
Forget(names, ids) ==
    LET left(n) == SelectSeq(names[n], LAMBDA id : id \notin ids)
    IN  [n \in {m \in DOMAIN names : left(m) # << >>} |-> left(n)]

\* A mutant: the dependencies of a file stay when its symbols go.
remove_file_KeepsDeps(x, f) ==
    LET s == Range0(x.files[f].syms) \cap (1..Len(x.syms))
    IN  [syms    |-> [i \in 1..Len(x.syms) |-> IF i \in s THEN DeadSym ELSE x.syms[i]],
         deps    |-> x.deps,
         by_name |-> Forget(x.by_name, s),
         files   |-> Restrict(x.files, DOMAIN x.files \ {f}),
         touch   |-> Restrict(x.touch, DOMAIN x.touch \ {f})]

remove_file(x, f) ==
    LET s == Range0(x.files[f].syms) \cap (1..Len(x.syms))
        d == Range0(x.files[f].deps) \cap (1..Len(x.deps))
        rest == DOMAIN x.files \ {f}
    IN  maybe_compact_deps(
          [syms    |-> [i \in 1..Len(x.syms) |-> IF i \in s THEN DeadSym ELSE x.syms[i]],
           deps    |-> [i \in 1..Len(x.deps) |-> IF i \in d THEN DeadDep ELSE x.deps[i]],
           by_name |-> Forget(x.by_name, s),
           files   |-> Restrict(x.files, rest),
           touch   |-> Restrict(x.touch, DOMAIN x.touch \ {f})])

-----------------------------------------------------------------------------
(* Parsing *)

\* Number the symbols, register the names, resolve the calls inside the file.  A
\* call in a definition beyond the limit keeps the number of that definition.
extract_into(x, f, text) ==
    LET base  == Len(x.syms)
        n     == Shorter(Len(text.defs), MaxSyms)
        m     == Shorter(Len(text.deps), MaxDeps)
        new   == [i \in 1..n |-> [id |-> base + i, kind |-> text.defs[i].kind,
                                  name |-> text.defs[i].name, file |-> f,
                                  start |-> Start(text, i), end |-> Start(text, i + 1)]]
        ids(name) == {base + i : i \in {j \in 1..n : text.defs[j].name = name}}
        dep(t) == [kind |-> t.kind, file |-> f, name |-> t.to,
                   from |-> IF t.from = 0 THEN 0 ELSE t.from + base,
                   to   |-> IF ids(t.to) = {} THEN 0 ELSE Least(ids(t.to))]
        known(name) == IF name \in DOMAIN x.by_name THEN x.by_name[name] ELSE << >>
    IN  [syms    |-> x.syms \o new,
         deps    |-> x.deps \o [i \in 1..m |-> dep(text.deps[i])],
         by_name |-> [name \in DOMAIN x.by_name \cup {new[i].name : i \in 1..n} |->
                         known(name) \o InOrder(ids(name))],
         files   |-> [g \in DOMAIN x.files \cup {f} |->
                         IF g # f THEN x.files[g]
                         ELSE [mtime |-> 0, size |-> 0,
                               syms |-> [first |-> base, count |-> n],
                               deps |-> [first |-> Len(x.deps), count |-> m]]],
         touch   |-> x.touch]

index_text(f) == extract_into(IF f \in DOMAIN files THEN remove_file(Index, f) ELSE Index,
                              f, disk[f].text)

\* A mutant: the file used last is the one to go.
Victim_Newest(t) == CHOOSE f \in DOMAIN t : \A g \in DOMAIN t : t[f] >= t[g]

Victim(t) == CHOOSE f \in DOMAIN t : \A g \in DOMAIN t : t[f] <= t[g]

\* One file goes when there are more than the cap, the least recently touched.
evict_lru(x) ==
    IF Cardinality(DOMAIN x.files) <= cap \/ DOMAIN x.touch = {} THEN x
    ELSE remove_file(x, Victim(x.touch))

Become(x) ==
    /\ syms' = x.syms /\ deps' = x.deps /\ by_name' = x.by_name
    /\ files' = x.files /\ touch' = x.touch

-----------------------------------------------------------------------------
(* Operations *)

\* read_file_text fails, or the whole file is parsed; no fingerprint is kept.
extract_file(f) ==
    /\ extract_count < MaxParses
    /\ disk[f].there
    /\ Become(index_text(f))
    /\ extract_count' = extract_count + 1
    /\ UNCHANGED <<disk, cap, touch_clock, edits>>

Same(f) ==
    f \in DOMAIN files /\ files[f].mtime = disk[f].mtime /\ files[f].size = Size(disk[f].text)

Touched(t, f) == [g \in DOMAIN t \cup {f} |-> IF g = f THEN touch_clock + 1 ELSE t[g]]

\* Unchanged since it was parsed: only the clock moves.
ensure_hit(f) ==
    /\ disk[f].there /\ Same(f)
    /\ touch' = Touched(touch, f)
    /\ UNCHANGED <<disk, syms, deps, by_name, files, cap, extract_count, edits>>

ensure_parse(f) ==
    /\ disk[f].there /\ ~Same(f)
    /\ extract_count < MaxParses
    /\ LET x == index_text(f)
           y == [x EXCEPT !.files[f].mtime = disk[f].mtime,
                          !.files[f].size = Size(disk[f].text),
                          !.touch = Touched(x.touch, f)]
       IN  Become(evict_lru(y))
    /\ extract_count' = extract_count + 1
    /\ UNCHANGED <<disk, cap, edits>>

\* One open reads fingerprint and text together; an unreadable file changes
\* nothing.
ensure_indexed(f) ==
    /\ touch_clock < MaxEnsures
    /\ touch_clock' = touch_clock + 1
    /\ ensure_hit(f) \/ ensure_parse(f)

set_cache_cap(n) == cap' = n /\ n # cap /\ UNCHANGED <<disk, index, edits>>

\* Somebody writes or removes a file (mtime is in nanoseconds: every write has
\* its own).
Edit(f) ==
    /\ edits < MaxEdits
    /\ edits' = edits + 1
    /\ \/ \E t \in Texts \ {disk[f].text} :
             disk' = [disk EXCEPT ![f] = [there |-> TRUE, text |-> t, mtime |-> edits + 2]]
       \/ disk[f].there /\ disk' = [disk EXCEPT ![f].there = FALSE]
    /\ UNCHANGED <<index, cap>>

Init ==
    /\ disk \in [Files -> [there : {TRUE}, text : Texts, mtime : {1}]]
    /\ syms = << >> /\ deps = << >>
    /\ by_name = << >> /\ files = << >> /\ touch = << >>
    /\ cap \in Caps
    /\ touch_clock = 0 /\ extract_count = 0 /\ edits = 0

Next ==
    \/ \E f \in Files : extract_file(f) \/ ensure_indexed(f) \/ Edit(f)
    \/ \E n \in Caps : set_cache_cap(n)

Spec == Init /\ [][Next]_vars

-----------------------------------------------------------------------------
(* Queries *)

NoSym == DeadSym

\* The first live symbol of the name, or the last one of the hinted file.  The
\* scan for a qualified name that follows finds no more: every extractor gives
\* a symbol its name as its qualified name.
lookup(name, hint) ==
    LET live == IF name \in DOMAIN by_name
                THEN SelectSeq(by_name[name], LAMBDA id : syms[id].id = id) ELSE << >>
        home == SelectSeq(live, LAMBDA id : syms[id].file = hint)
        best == IF home # << >> THEN Last(home) ELSE Head(live)
    IN  IF live = << >> THEN NoSym ELSE syms[best]

sym_by_id(id) == IF id \in 1..Len(syms) THEN syms[id] ELSE NoSym

all(kind, prefix, limit) ==
    LET hits == SelectSeq(syms, LAMBDA s : s.id # 0 /\ kind \in {"unknown", s.kind}
                                           /\ IsPrefix(prefix, s.name))
    IN  IF limit = 0 THEN hits ELSE SubSeq(hits, 1, Shorter(limit, Len(hits)))

LiveCalls == SelectSeq(deps, LAMBDA d : d.file # "" /\ d.kind = "call")

Unique(s) == FoldLeft(LAMBDA seen, x : IF x \in ToSet(seen) THEN seen ELSE Append(seen, x), << >>, s)

Column(ds, field) == [i \in 1..Len(ds) |-> ds[i][field]]

callees(id) == Unique(Column(SelectSeq(LiveCalls, LAMBDA d : d.from = id), "name"))
callers_of(id) ==
    Unique(Column(SelectSeq(LiveCalls, LAMBDA d : d.to = id /\ d.from # 0), "from"))
callers_of_name(name) ==
    Unique(Column(SelectSeq(LiveCalls, LAMBDA d : d.name = name /\ d.from # 0), "from"))

NoSnippet == [id |-> 0, bytes |-> 0]

\* The lines the symbol's offsets touch in the file as it is NOW, cut to the
\* cap: the offsets are those of the parse.
snippet(id) ==
    LET s    == sym_by_id(id)
        text == disk[s.file].text
        size == Size(text)
        b0   == Shorter(s.start, size)
        e0   == Shorter(s.end, size)
        b    == Max({Start(text, i) : i \in {j \in 1..(Len(text.defs) + 1) : Start(text, j) <= b0}})
        e    == Least({Start(text, i) : i \in {j \in 1..(Len(text.defs) + 1) : Start(text, j) >= e0}})
    IN  IF s.id = 0 \/ ~disk[s.file].there THEN NoSnippet
        ELSE [id |-> id, bytes |-> Shorter(e - b, SnippetBytes)]

\* Append the snippet of id, cut to what is left of the budget; `over` once
\* nothing is left, and then no more is added.
push_snippet(acc, id) ==
    LET sn == snippet(id)
        n  == Shorter(sn.bytes, acc.budget)
    IN  IF acc.over \/ sn.id = 0 THEN acc
        ELSE [acc EXCEPT !.out = Append(@, [sn EXCEPT !.bytes = n]),
                         !.budget = @ - n, !.over = acc.budget = n]

Fresh == [out |-> << >>, budget |-> ContextBytes, over |-> FALSE, seen |-> {}]

\* The symbol behind a call, then the symbols it calls when they are few.
snippet_for_call(file, name) ==
    LET callee == lookup(name, file)
        cals   == callees(callee.id)
        hit(c) == lookup(c, callee.file).id
        few    == IF Len(cals) > 8 THEN << >> ELSE [i \in 1..Len(cals) |-> hit(cals[i])]
    IN  IF callee.id = 0 THEN << >>
        ELSE FoldLeft(push_snippet, push_snippet(Fresh, callee.id), few).out

\* The symbols of the files and, after each, the callers not yet shown.
context_for_change(fs) ==
    LET caller(acc, id) ==
            IF acc.over \/ id \in acc.seen THEN acc
            ELSE push_snippet([acc EXCEPT !.seen = @ \cup {id}], id)
        symbol(acc, id) ==
            IF acc.over THEN acc
            ELSE FoldLeft(caller, push_snippet([acc EXCEPT !.seen = @ \cup {id}], id), callers_of(id))
        ids(f) == IF f \in DOMAIN files
                  THEN SelectSeq(InOrder(Range0(files[f].syms)),
                                 LAMBDA i : syms[i].id # 0 /\ syms[i].file = f)
                  ELSE << >>
        file(acc, f) == FoldLeft(symbol, acc, ids(f))
    IN  FoldLeft(file, Fresh, fs).out

-----------------------------------------------------------------------------
(* Properties *)

\* What the index holds for a file, read back from its ranges.
Held(f) ==
    LET s == files[f].syms
        d == files[f].deps
    IN  [defs |-> [i \in 1..s.count |-> LET y == syms[s.first + i]
                                        IN  [kind |-> y.kind, name |-> y.name,
                                             len |-> y.end - y.start]],
         deps |-> [i \in 1..d.count |->
                     LET y == IF d.first + i \in DOMAIN deps THEN deps[d.first + i] ELSE DeadDep
                     IN  [kind |-> y.kind, to |-> y.name,
                          from |-> IF y.from = 0 THEN 0 ELSE y.from - s.first]]]

\* What the limits leave of a text.
Kept(text) == [defs |-> SubSeq(text.defs, 1, Shorter(Len(text.defs), MaxSyms)),
               deps |-> SubSeq(text.deps, 1, Shorter(Len(text.deps), MaxDeps))]

Cache == INSTANCE GraphCache WITH
    disk <- [f \in Files |-> [disk[f] EXCEPT !.text = Kept(@)]],
    parsed <- [f \in DOMAIN files |-> Held(f)]

\* Through re-parses, tombstones, evictions and compaction the index stays a
\* cache of what each file held when it was parsed, up to the limits (index_text,
\* remove_file, maybe_compact_deps, extract_into).
ImplementsCache == Cache!Spec

\* The name table lists exactly the symbols that are alive, by name and in
\* order, and every live symbol lies in the range of its file (remove_file,
\* extract_into).
NamesAreLive ==
    /\ \A n \in DOMAIN by_name : by_name[n] # << >>
    /\ \A i \in 1..Len(syms) :
          syms[i].id # 0 =>
            /\ syms[i].name \in DOMAIN by_name
            /\ syms[i].file \in DOMAIN files /\ i \in Range0(files[syms[i].file].syms)
    /\ \A n \in DOMAIN by_name : \A k \in 1..Len(by_name[n]) :
          /\ syms[by_name[n][k]].id = by_name[n][k]
          /\ syms[by_name[n][k]].name = n
          /\ k > 1 => by_name[n][k - 1] < by_name[n][k]

\* Asking for a file leaves at most the cap in the cache, or no more than there
\* were: one file goes at a time (ensure_indexed, evict_lru).
EvictionStep ==
    (\E f \in Files : ensure_indexed(f))
      => Cardinality(DOMAIN files') <= Max({cap, Cardinality(DOMAIN files)})

EnsureStep ==
    \A f \in Files :
      (ensure_indexed(f) /\ cap > 0 /\ DOMAIN files \subseteq DOMAIN touch)
        => f \in DOMAIN files' /\ Held(f)' = Kept(disk[f].text)

\* As long as every file in the cache came there through ensure_indexed, the one
\* just asked for is there, as it is on disk (ensure_indexed, evict_lru).
EnsureIsFresh == [][EnsureStep]_vars

\* The call stands in a definition beyond the limit.
CutOff(d) == d.file \in DOMAIN files /\ d.from \notin Range0(files[d.file].syms)

\* What a query answers is alive: a name is found exactly when some file in the
\* cache defines it, in the hinted file if that does, and a caller is a symbol of
\* now that does call, unless the definition with the call was cut off
\* (SymbolIndex::lookup, all, callers_of, callers_of_name, callees).
AnswersAreLive ==
    \A n \in {d.name : d \in UNION {ToSet(t.defs) : t \in Texts}} :
      LET known == {y \in ToSet(all("unknown", << >>, 0)) : y.name = n}
          found == lookup(n, "")
          cut(c, ds) == \E d \in ToSet(ds) : d.from = c /\ CutOff(d)
      IN
      /\ found.id # 0 <=> known # {}
      /\ found.id # 0 => found \in ToSet(all(found.kind, n, 0))
      /\ \A f \in DOMAIN files : lookup(n, f).file # f => \A y \in known : y.file # f
      /\ \A c \in ToSet(callers_of_name(n)) :
            \/ sym_by_id(c).id = c /\ n \in ToSet(callees(c))
            \/ cut(c, SelectSeq(LiveCalls, LAMBDA d : d.name = n))
      /\ \A y \in known : \A c \in ToSet(callers_of(y.id)) :
            \/ sym_by_id(c).file = y.file
            \/ cut(c, SelectSeq(LiveCalls, LAMBDA d : d.to = y.id))

\* The context for a change, or for a call, never holds more bytes than its
\* budget (context_for_change, snippet_for_call, push_snippet).
ContextFits ==
    LET fits(c) == SumFunction([i \in 1..Len(c) |-> c[i].bytes]) <= ContextBytes
    IN  /\ \A f \in Files : \A g \in Files : fits(context_for_change(<<f, g>>))
        /\ \A f \in Files : \A n \in DOMAIN by_name : fits(snippet_for_call(f, n))

-----------------------------------------------------------------------------
(* What the repository says and TLC refutes *)

\* index.h: "Cross-file references are stored by name and resolved lazily by
\* refs()/callers()/callees()": a symbol's callers are all its callers.
CallersCrossFiles ==
    \A i \in 1..Len(syms) :
      (syms[i].id # 0 /\ Len(by_name[syms[i].name]) = 1)
        => ToSet(callers_of(i)) = ToSet(callers_of_name(syms[i].name))

\* index.h: "callers of a sym/name": a caller's file has the call.  Not so when
\* the definition with the call is beyond max_syms_per_file: the number names
\* the first symbols of the file that is parsed next.
CallersCall ==
    \A d \in ToSet(LiveCalls) : d.from # 0 => sym_by_id(d.from).file \in {"", d.file}

\* lazy.cpp: "The parse cache is capped": not after extract_file or a lower cap,
\* since ensure_indexed evicts one file at a time.
CacheIsCapped ==
    [][(\E f \in Files : ensure_indexed(f)) => Cardinality(DOMAIN files') <= cap]_vars

\* lazy.cpp: "the LRU victim is evicted": a file just asked for stays.  Not so
\* after extract_file, which leaves the file it parses out of the LRU order.
AskedForStays == [][\A f \in Files : ensure_indexed(f) /\ cap > 0 => f \in DOMAIN files']_vars
=============================================================================
