---------------------------- MODULE MCAlgorithms ----------------------------
(***************************************************************************)
(* The pure algorithms on every small input: one step computes the answer, *)
(* and the invariants compare it with a reference that says what the       *)
(* answer means.  `case` is the input, `fn` names the algorithm.           *)
(***************************************************************************)
EXTENDS Integers, Sequences, SequencesExt, FiniteSets, TLC

VARIABLES fn, case, out, done

vars == <<fn, case, out, done>>

Spelt(segment) == IF segment = ".github" THEN <<".git", "b">> ELSE <<segment>>

PA == INSTANCE Paths WITH WordBits <- 4, Spelling <- Spelt
VE == INSTANCE Verify WITH Dashes <- {<<"d">>}, Plusses <- {<<"p">>}, Letters <- {"a", "b"}, Keywords <- {<<"b", "b">>}
EX == INSTANCE Extract WITH Idents <- {"int", "f", "g", "if", "func", "package", "p"}, CKeywords <- {"if"},
                            GoKeywords <- {"if", "func"}
PR == INSTANCE Prompt WITH NewestUserFloor <- 4, Wrap <- 1000
CO == INSTANCE Codec WITH InitialCap <- 5, MaxParts <- 4

RS == INSTANCE Settings WITH
        Models <- <<[id |-> <<"a", "b">>, provider |-> "google"], [id |-> <<"a", "b", "a">>, provider |-> "openai"],
                    [id |-> <<"b", "b", "b">>, provider |-> "openai"]>>,
        Aliases <- <<<<<<"a", "b">>, <<"a", "b">>>>, <<<<"b">>, <<"b", "b", "b">>>>, <<<<"a", "a", "a">>, <<"a", "b">>>>>>,
        BaseUrl <- [p \in {"google", "openai"} |-> p], Limit <- 2, Near <- 1, MaxSuggestions <- 2, MaxPort <- 21
ST == INSTANCE Settings WITH
        Models <- <<[id |-> "sonnet-4", provider |-> "anthropic"], [id |-> "gpt-5", provider |-> "openai"]>>,
        Aliases <- <<<<"sonnet", "sonnet-4">>>>,
        BaseUrl <- [p \in {"anthropic", "openai"} |-> p], Limit <- 6, Near <- 3, MaxSuggestions <- 3, MaxPort <- 65535
TE == INSTANCE Telemetry WITH NumBuckets <- 4, MaxSamples <- 4

SeqUpTo(S, n) == UNION {[1..k -> S] : k \in 0..n}

-----------------------------------------------------------------------------
(* Inputs *)

PathCases == [path : SeqUpTo({"", ".", "..", "a", "b"}, 5)]
GlobCases == [p : SeqUpTo({"a", "b", "*", "?"}, 4), s : SeqUpTo({"a", "b"}, 4)]
ReadCases == [text : {<<"a", "b", "c">>, << >>}, start : -1..4, end : -1..4, max : -1..4]
Entry(p, d) == [path |-> p, dir |-> d]
Trees == {{Entry(<<"a">>, TRUE), Entry(<<"b">>, FALSE)} \cup S :
             S \in SUBSET {Entry(<<"a", "a">>, FALSE), Entry(<<"a", "b">>, TRUE), Entry(<<"a", ".git">>, FALSE),
                            Entry(<<".github">>, TRUE), Entry(<<".github", "a">>, FALSE), Entry(<<"a", "b", "a">>, FALSE), Entry(<<"c">>, FALSE)}}
SearchCases == [ws : Trees, path : {<<".">>, <<"a">>, <<"b">>, <<"a", "..", "a", "b">>, <<"..">>, <<".github">>},
                pattern : SeqUpTo({"a", "b", "*", "/"}, 3), gi : {{}, {<<"a">>}, {<<"b", "/", "*">>}}]
ScanCases == [text : SeqUpTo({"(", ")", "[", "dq", "/", "*", "bs", VE!LF}, 4)
                      \cup [1..5 -> {"(", ")", "]", "[", ";"}]
                      \cup [1..5 -> {"sq", "bs", "(", "/", VE!LF}]]
Edits(lines) == [tag : {" ", "-", "+"}, line : lines]
PatchCases == [script : SeqUpTo(Edits({<<"x">>, <<"y">>}), 4) \cup SeqUpTo(Edits({<<"x">>, <<"d">>, <<"p">>}), 3), cut : 0..3]

\* Programs: definitions of f and g whose bodies call, and hide calls and
\* braces in comments and literals.
Stmt == [call : {"f", "g"}, hidden : {"no", "comment", "literal", "escape"}]
ProgCases == [lang : {"cpp", "go"},
              prog : SeqUpTo([name : {"f", "g"}, body : SeqUpTo(Stmt, 1)], 2)
                       \cup SeqUpTo([name : {"f"}, body : [1..2 -> Stmt]], 1)]
StmtText(s) ==
    CASE s.hidden = "no" -> <<"sp", s.call, "(", ")", ";", "lf">>
      [] s.hidden = "comment" -> <<"/", "/", s.call, "(", ")", "{", "lf">>
      [] s.hidden = "literal" -> <<"dq", "}", s.call, "(", "dq", ";", "lf">>
      [] s.hidden = "escape" -> <<"dq", "bs", "dq", "}", "dq", s.call, "(", ")", "lf">>
Opening(lang, name) == IF lang = "go" THEN <<"func", "sp", name, "(", ")", "sp", "{", "lf">>
                       ELSE <<"int", "sp", name, "(", ")", "sp", "{", "lf">>
ProgText(c) ==
    (IF c.lang = "go" THEN <<"package", "sp", "p", "lf">> ELSE << >>)
      \o FlattenSeq([i \in 1..Len(c.prog) |->
            Opening(c.lang, c.prog[i].name)
              \o FlattenSeq([j \in 1..Len(c.prog[i].body) |-> StmtText(c.prog[i].body[j])])
              \o <<"}", "lf">>])
TrueCalls(c) ==
    FlattenSeq([i \in 1..Len(c.prog) |->
        LET real == SelectSeq(c.prog[i].body, LAMBDA s : s.hidden \in {"no", "escape"})
        IN  [j \in 1..Len(real) |-> <<c.prog[i].name, real[j].call>>]])
Texts     == {<< >>, <<"a", "a">>, <<"a", "a", VE!LF, "a", "b">>, <<"b", "b", VE!LF, "a", "b">>,
              <<"a", "b", VE!LF, "(">>, <<"a", "b", " ", "a", "a">>, <<"a", "b", VE!LF, "a", "a", " ", "b">>}
DefCases  == [before : Texts, after : Texts, called : SUBSET {<<"a", "a">>, <<"a", "b">>}]

\* Messages whose strings repeat, are empty, or need escapes; allocations that
\* fail; and where the bytes are cut.
Word1 == {<< >>, <<97>>, <<34, 10>>, <<1, 200>>}
SomeParts == {<< >>, <<[kind |-> 0, f |-> <<<<97>>>>], [kind |-> 6, f |-> <<2>>]>>,
              <<[kind |-> 4, f |-> <<<<97>>, <<34, 10>>, <<123, 125>>, TRUE>>],
                [kind |-> 5, f |-> <<<<97>>, <<92>>, FALSE>>]>>}
               \cup {<<[kind |-> 3, f |-> <<mime, data>>]>> : mime \in {<<97>>}, data \in SeqUpTo({0, 255}, 4)}
Messages == [id : Word1, session_id : Word1, role : {3}, model : {<<97>>}, created_at : {127, 128, 70000},
             parts : SomeParts]
MessageCases == [m : Messages, oom : {{}}] \cup [m : {m \in Messages : m.created_at = 128}, oom : {{1}, {2}, {2, 3}, {3}}]

\* Histories as a session appends them: a user speaks, the assistant answers
\* and calls tools, results follow calls.
Prose(n) == [i \in 1..(2 * n) |-> IF i % 2 = 1 THEN "a" ELSE " "]
Says(role, parts) == [role |-> role, parts |-> parts]
TextPart(n) == [kind |-> "text", text |-> Prose(n)]
Turns == {Says("user", <<TextPart(1)>>), Says("user", <<TextPart(6)>>), Says("assistant", <<TextPart(3)>>),
          Says("assistant", <<[kind |-> "tool_call", id |-> <<"a">>, name |-> <<"a">>, text |-> <<"{", "}">>]>>),
          Says("tool", <<[kind |-> "tool_result", text |-> Prose(5)]>>)}
Follows(a, b) ==
    CASE b.role = "user" -> a.role = "assistant" /\ a.parts[1].kind = "text"
      [] b.role = "assistant" -> a.role # "assistant"
      [] b.role = "tool" -> a.role = "tool" \/ a.parts[1].kind = "tool_call"
Histories == {h \in SeqUpTo(Turns, 6) : h # << >> /\ h[1].role = "user"
                                          /\ \A i \in 2..Len(h) : Follows(h[i - 1], h[i])}
Numbered(h) == [i \in 1..Len(h) |-> [id |-> i] @@ h[i]]
Template == <<[stem |-> "SYSTEM_BASE", text |-> <<"a", " ", "{", "{", "LANG_STYLE", "}", "}">>]>>
AssembleCases == {[messages |-> Numbered(h), available |-> cap, hard_cap |-> 30, context_window |-> w,
                   max_output |-> 10, tool_tokens |-> t, edge_mode |-> FALSE, inject |-> FALSE, schema |-> << >>,
                   recent_turns |-> n, lang_style |-> Prose(1), examples |-> << >>,
                   env |-> <<[key |-> -1, text |-> Prose(4)]>>, repo |-> << >>, system_ids |-> <<"SYSTEM_BASE">>]
                   : h \in Histories, cap \in {10, 25, 40}, w \in {0, 25}, t \in {0, 8}, n \in {1, 2}}

\* Configuration files: one section with one or two of its fields at the edges
\* of their ranges, lists with entries that repeat or lack something, and
\* sections that fail or not before others.
Num(n) == <<"number", n, 0>>
Obj(o) == <<"object", o>>
Str(s) == <<"string", s>>
Edges(r) == {Num(r[1] - 1), Num(r[1]), Num(r[2]), Num(r[2] + 1), <<"number", r[1], 50>>, Str("x")}
Fields(s) == UNION {[{j, k} -> UNION {Edges(ST!Bounds[s][j]), Edges(ST!Bounds[s][k]), {Num(300)}}] :
                        j, k \in DOMAIN ST!Bounds[s]}
NumberDocs == UNION {{s :> Obj(o) : o \in Fields(s)} : s \in {"network", "budget"}}
               \cup {"memory" :> Obj(k :> v) : k \in {"max_entries"}, v \in Edges(ST!Bounds.memory.max_entries)}
               \cup {"network" :> Obj("jitter" :> v) : v \in {<<"number", 0, 99>>, Num(1), Str("x")}}
Id == {<< >>} \cup {"id" :> v : v \in {Str(""), Str("openai"), Str("anthropic"), Num(1)}}
ProviderDocs == {"providers" :> <<"array", l>> :
                    l \in SeqUpTo({Obj(i @@ o) : i \in Id,
                                    o \in {<< >>, "api_key" :> Str("k"), "base_url" :> Num(1)}} \cup {Num(1)}, 2)}
AgentDocs == {"agents" :> <<"array", l>> :
                 l \in SeqUpTo({Obj(i @@ o) : i \in Id,
                                 o \in {<< >>, "model" :> Str("gpt-5"), "model" :> Str(""),
                                        "model" :> Str("gpt-5") @@ "max_tokens" :> Num(-1),
                                        "model" :> Str("gpt-5") @@ "max_tokens" :> Num(7)}}, 2)}
ListDocs == {d1 @@ d2 @@ d3 : d1 \in {<< >>, "schema" :> Num(2), "schema" :> Num(0), "schema" :> <<"number", 1, 50>>, "providers" :> Num(1)},
                              d2 \in {<< >>, "edge_mode" :> <<"boolean", TRUE>>, "edge_mode" :> Str("x"),
                                      "network" :> Num(1)},
                              d3 \in {<< >>, "data_dir" :> Str("d"), "context_paths" :> <<"array", <<Str("p"), Num(1)>>>>,
                                      "context_paths" :> <<"array", <<Str("p"), Str("p")>>>>}}
Docs == NumberDocs \cup ProviderDocs \cup AgentDocs \cup ListDocs

\* What a host gives beside a file with a provider or two and an agent or two.
Listed(p, url) == Obj("id" :> Str(p) @@ "api_key" :> Str(p) @@ "base_url" :> Str(url))
FilesOf == {"providers" :> <<"array", l>> @@ "agents" :> <<"array", a>> :
               l \in SeqUpTo({Listed(p, u) : p \in {"openai", "anthropic", "openai_compat", "mine"}, u \in {"", "own"}}, 2),
               a \in SeqUpTo({Obj("id" :> Str(i) @@ "model" :> Str(m)) :
                                i \in {"default", "coder"}, m \in {"sonnet", "gpt-5", "other"}}, 2)}
Hosts == UNION {[K -> {"openai", "gpt-5", "coder", "sonnet"}] : K \in {{}, {"provider"}, {"model", "agent"}}}
SettingsCases == [doc : Docs, host : {<< >>}] \cup [doc : {f \in FilesOf : ST!load_config_json(ST!DefaultConfig, f).ok}, host : Hosts]

UrlCases == [url : SeqUpTo({"http", "://", "/", ":", "1", "2", "x"}, 6)]

\* Budgets, samples and lines.
DelayCases == [base : {0, 1, 3, 9}, max : {0, 5, 8}, jitter : {0, 3, 9}]
SampleCases == [samples : SeqUpTo({0, 1, 2, 3, 4, 5, 8}, 5), pct : {1, 50, 95, 100}]
LogCases == [cap : 0..9, pairs : SeqUpTo([k : {<<"k", "=">>}, v : SeqUpTo({"a", "s", "q"}, 2)], 2)]

\* A diff with a line of context in each of its hunks, and inside the script.
Regular(c) ==
    /\ c.cut <= Len(c.script)
    /\ \A half \in {SubSeq(c.script, 1, c.cut), SubSeq(c.script, c.cut + 1, Len(c.script))} :
          half = << >> \/ \E i \in 1..Len(half) : half[i].tag = " "

Graph(called) == [lookup  |-> [d \in {<<"a", "a">>, <<"a", "b">>} |-> Len(d) + Cardinality({d} \cap {<<"a", "b">>})],
                  callers |-> [id \in {2, 3} |-> IF (IF id = 2 THEN <<"a", "a">> ELSE <<"a", "b">>) \in called
                                                 THEN {9} ELSE {}]]

Before(c) == VE!join_lines(VE!LinesOf(VE!Before(c.script)))
After(c)  == VE!join_lines(VE!LinesOf(VE!After(c.script)))

Init ==
    /\ out = << >> /\ done = FALSE
    /\ \/ fn = "resolve" /\ case \in PathCases
       \/ fn = "glob" /\ case \in GlobCases
       \/ fn = "read" /\ case \in ReadCases
       \/ fn = "search" /\ case \in SearchCases
       \/ fn = "scan" /\ case \in ScanCases
       \/ fn = "patch" /\ case \in {c \in PatchCases : Regular(c)}
       \/ fn = "extract" /\ case \in ProgCases
       \/ fn = "symbols" /\ case \in DefCases
       \/ fn = "assemble" /\ case \in AssembleCases
       \/ fn = "message" /\ case \in MessageCases
       \/ fn = "settings" /\ case \in SettingsCases
       \/ fn = "suggest" /\ case \in [id : SeqUpTo({"a", "b"}, 6)]
       \/ fn = "url" /\ case \in UrlCases
       \/ fn = "delay" /\ case \in DelayCases
       \/ fn = "samples" /\ case \in SampleCases
       \/ fn = "log" /\ case \in LogCases

Reread(j) == IF j.ok THEN CO!from_json(j.v) ELSE j

Answer ==
    CASE fn = "resolve" -> PA!resolve_in_sandbox(case.path)
      [] fn = "glob" -> PA!glob_match(case.p, case.s)
      [] fn = "read" -> PA!FileRead(case.text, case.start, case.end, case.max)
      [] fn = "search" -> [list |-> PA!DirList(case.ws, case.path, TRUE, case.pattern),
                           found |-> PA!FileSearch(case.ws, case.path, case.pattern, TRUE, case.gi),
                           all |-> PA!FileSearch(case.ws, case.path, case.pattern, FALSE, case.gi)]
      [] fn = "scan" -> VE!check_syntax(case.text)
      [] fn = "patch" -> LET d == VE!DiffOf(case.script, case.cut)
                         IN  [forth |-> VE!apply(VE!parse(d), Before(case)),
                              back  |-> VE!apply(VE!parse(VE!reverse(d)), After(case))]
      [] fn = "extract" -> EX!extract_lang(case.lang, ProgText(case))
      [] fn = "symbols" -> VE!run_all([before |-> case.before, after |-> case.after, patch |-> << >>],
                                      [graph |-> Graph(case.called),
                                       mandatory |-> {"syntax", "symbols", "impact", "diff"}])
      [] fn = "assemble" -> PR!assemble(case, PR!load_templates(Template, << >>))
      [] fn = "message" -> LET e == CO!encode_message(case.m, {})
                           IN  [bytes |-> CO!encode_message(case.m, case.oom),
                                back  |-> CO!decode_message(e),
                                cuts  |-> {k \in 0..(Len(e) - 1) : CO!decode_message(SubSeq(e, 1, k)).ok},
                                json  |-> Reread(CO!parse_json(CO!to_json(CO!message_to_json(case.m))))]
      [] fn = "settings" -> LET a == ST!apply_config(case.doc, case.host)
                            IN  [load |-> ST!load_config_json(ST!DefaultConfig, case.doc), cfg |-> a.cfg,
                                 options |-> IF a.ok THEN ST!session_options_from_config(a.cfg, "") ELSE ST!Unknown]
      [] fn = "suggest" -> RS!suggest(case.id)
      [] fn = "url" -> RS!split_url(case.url)
      [] fn = "delay" -> [a \in 1..5 |-> TE!next_delay_ms(case, a)]
      [] fn = "samples" -> [hist |-> TE!percentile(TE!observe(case.samples), Len(case.samples), case.pct),
                            rtts |-> FoldLeft(TE!record_rtt, << >>, case.samples)]
      [] fn = "log" -> TE!log(case.cap, case.pairs)

Compute == ~done /\ done' = TRUE /\ out' = Answer /\ UNCHANGED <<fn, case>>

Spec == Init /\ [][Compute]_vars

Is(f) == fn = f /\ done

-----------------------------------------------------------------------------
(* Properties *)

\* A path is refused exactly when it is absolute, empty or steps above the
\* workspace on the way, and what is accepted has only names in it
\* (resolve_in_sandbox).
ResolveStaysInside ==
    Is("resolve") =>
      LET ok == case.path # << >> /\ case.path[1] # "" /\ PA!StaysInside(case.path)
      IN  IF ok THEN out \in Seq({"a", "b"}) /\ Len(out) = PA!Depth(case.path, Len(case.path))
          ELSE out = PA!Refused

\* The loop with one star to come back to finds a match whenever there is one
\* (glob_match).
GlobIsReference == Is("glob") => (out <=> PA!Matches(case.p, case.s))

\* file.read returns the bytes of the range, cut to the cap; a range that ends
\* before its start is taken for one without an end (FileReadTool::run).
ReadIsRange ==
    Is("read") =>
      LET n    == Len(case.text)
          lo   == IF case.start < 0 THEN 0 ELSE case.start
          hi   == IF case.end < 0 \/ case.end < lo THEN n ELSE case.end
          want == SubSeq(case.text, lo + 1, PA!Least(hi, n))
      IN  out = IF case.max < 0 THEN want ELSE SubSeq(want, 1, PA!Least(case.max, Len(want)))

\* The path below the searched directory.
Below(e) == LET at == PA!resolve_in_sandbox(case.path) IN SubSeq(e.path, Len(at) + 1, Len(e.path))

\* A search finds every file that a recursive listing shows under the same
\* pattern, but for those with ".git" anywhere in their path below the searched
\* directory, and what .gitignore takes away is only what it names
\* (FileSearchTool::run, DirListTool::run).
SearchCoversList ==
    Is("search") /\ case.pattern # << >> =>
      LET git(e)   == ".git" \in ToSet(PA!Flat(Below(e)))
          named(e) == \E ig \in case.gi, k \in 1..Len(e.path) :
                         PA!Matches(ig, PA!Flat(SubSeq(e.path, k, Len(e.path))))
      IN  /\ out.found.ok = out.list.ok
          /\ {e \in out.list.entries : ~e.dir /\ ~git(e)} \subseteq out.all.entries
          /\ out.found.entries \subseteq out.all.entries
          /\ \A e \in out.all.entries \ out.found.entries : named(e)

\* A text passes the syntax stage exactly when its literals and comments end
\* and the brackets outside them pair up, double semicolons aside
\* (Scanner::scan).
SyntaxIsBalance ==
    Is("scan") =>
      LET v == VE!Visible(case.text)
          semi == \E i \in 1..(Len(case.text) - 1) : case.text[i] = ";" /\ case.text[i + 1] = ";"
      IN  /\ (out = << >>) => v.ok /\ VE!Balanced(v.s)
          /\ (v.ok /\ VE!Balanced(v.s) /\ ~semi) => out = << >>

\* A diff whose hunks carry context takes the old text to the new one, unless a
\* removed or added line looks like a file header with its sign; its reverse takes
\* the new text back if no line begins with -- or ++, since it may print a line of
\* context as removed and added (patch::parse, apply, reverse).
Signed(c, tag, line) == \E i \in 1..Len(c.script) : c.script[i] = [tag |-> tag, line |-> line]
PatchRoundTrip ==
    Is("patch") =>
      /\ ~Signed(case, "-", <<"d">>) /\ ~Signed(case, "+", <<"p">>) => out.forth = After(case)
      /\ (\A i \in 1..Len(case.script) : case.script[i].line \notin {<<"d">>, <<"p">>}) => out.back = Before(case)

\* Every definition and every call outside comments and literals is found, and
\* each call is put down to the definition it stands in (extract_lang).
ExtractFindsCalls ==
    Is("extract") =>
      LET fs    == SelectSeq(out.syms, LAMBDA y : y.kind = "function")
          calls == SelectSeq(out.deps, LAMBDA d : d.kind = "call")
      IN  /\ [i \in 1..Len(fs) |-> fs[i].name] = [i \in 1..Len(case.prog) |-> <<case.prog[i].name>>]
          /\ \A i \in 1..Len(calls) : calls[i].from # 0
          /\ [i \in 1..Len(calls) |-> <<out.syms[calls[i].from].name[1], calls[i].to[1]>>]
               = TrueCalls(case)

\* Some line of the text begins with the word d.
Begins(text, d) ==
    \E i \in 1..Len(VE!split_lines(text)) :
       LET l == VE!split_lines(text)[i]
       IN  IsPrefix(d, l) /\ (Len(l) = Len(d) \/ l[Len(d) + 1] \notin {"a", "b"})
AllPass == \A i \in 1..Len(out) : out[i].pass

\* An edit after which no line begins with a called name any more, although one
\* did before, never passes all stages: the first word of a line is all that the
\* stage takes for a definition (check_symbols, extract_defs, run_all).
RemovedIsBlocked ==
    Is("symbols") /\ AllPass => \A d \in case.called : Begins(case.before, d) => Begins(case.after, d)

\* A stored message comes back as it was, repeated strings included; bytes cut
\* anywhere are refused, never read as a shorter message (decode_message).
CodecRoundTrips == Is("message") => out.back = [ok |-> TRUE, m |-> case.m] /\ out.cuts = {}

\* When memory runs out on the way the encoder returns nothing, never bytes with
\* a hole (EncodeBuf::ensure, view).
EncodeIsAllOrNothing ==
    Is("message") => out.bytes = << >> \/ CO!decode_message(out.bytes) = [ok |-> TRUE, m |-> case.m]

\* A message written as JSON text and parsed again is the same message, with
\* quotes, control characters and binary data in it (to_json, parse_json,
\* b64_encode, b64_decode).
JsonRoundTrips == Is("message") => out.json = [ok |-> TRUE, m |-> case.m]

Kept(i) == \E k \in 1..Len(out.plan.messages) : out.plan.messages[k].id = i
Folded == IF out.fold.folded THEN out.fold.of ELSE 0

\* Whatever the plan leaves out of the history is on its list of cuts, and what
\* it keeps stays in order (assemble_context; context.h: "Every
\* omission/truncation is recorded in the plan").
CutsAreReported ==
    Is("assemble") =>
      LET kept == out.plan.messages
          what(cut) == {out.plan.events[i].what : i \in {k \in 1..Len(out.plan.events) : out.plan.events[k].cut = cut}}
      IN  /\ \A i \in (Folded + 1)..Len(case.messages) : Kept(i) \/ i \in what("omitted")
          /\ \A k \in 1..Len(kept) : kept[k].id # 0 =>
                kept[k] = case.messages[kept[k].id] \/ kept[k].id \in what("truncated")
          /\ \A k \in 2..Len(kept) : kept[k - 1].id < kept[k].id

\* The last turns of the assistant and all that follows them are in the plan
\* whatever the budget, unless the fold has taken them (assemble_context,
\* fold_oldest).
RecentIsKept ==
    Is("assemble") =>
      LET h == case.messages
          turns(i) == Cardinality({j \in i..Len(h) : h[j].role = "assistant"})
      IN  /\ Kept(Len(h))
          /\ Folded \in {0, Len(h) - PR!KeepRecent}
          /\ \A i \in (Folded + 1)..Len(h) : h[i].role = "assistant" /\ turns(i) <= case.recent_turns
                => \A j \in i..Len(h) : Kept(j)

\* Older messages are taken only while the plan with its tools still fits
\* (assemble_context).
OlderFits ==
    Is("assemble") =>
      LET h == out.fold.messages
          from == PR!tier1_from(h, case.recent_turns)
          older == SelectSeq(out.plan.messages, LAMBDA m : \E i \in 1..(from - 1) : h[i].id = m.id)
      IN  older # << >> =>
            PR!Total([k \in 1..Len(older) |-> PR!estimate_message_tokens(older[k])])
              + PR!estimate_tokens(out.plan.system) + case.tool_tokens <= PR!Cap(case)

\* A configuration loads exactly when every field it gives is in range and of
\* its kind, no id repeats and the backoff's bounds are in order with the
\* defaults filled in; then every field has the value given (load_config_json;
\* config.hpp: "bad values fail with Err::e_invalid_cfg").
LoadIsExact ==
    Is("settings") =>
      LET doc == case.doc
          has(k) == k \in DOMAIN doc
          list(k) == IF has(k) /\ doc[k][1] = "array" THEN doc[k][2] ELSE << >>
          obj(e) == IF e[1] = "object" THEN e[2] ELSE << >>
          text(o, k) == k \in DOMAIN o /\ o[k][1] = "string" /\ o[k][2] # ""
          ids(k) == [i \in 1..Len(list(k)) |-> obj(list(k)[i])["id"]]
          in(s) == IF has(s) THEN obj(doc[s]) ELSE << >>
          value(s, k) == IF k \in DOMAIN in(s) THEN in(s)[k] ELSE Num(ST!DefaultConfig[s][k])
          int(s, k) == value(s, k)[1] = "number" /\ value(s, k)[3] = 0
                         /\ value(s, k)[2] \in ST!Bounds[s][k][1]..ST!Bounds[s][k][2]
          valid ==
            /\ has("schema") => doc["schema"] \in {Num(0), Num(1)}
            /\ \A k \in {"providers", "agents", "context_paths"} : has(k) => doc[k][1] = "array"
            /\ \A k \in {"network", "budget", "memory"} : has(k) => doc[k][1] = "object"
            /\ \A k \in {"providers", "agents"} :
                  /\ \A i \in 1..Len(list(k)) : text(obj(list(k)[i]), "id")
                  /\ IsInjective(ids(k))
            /\ \A i \in 1..Len(list("providers")) : LET o == obj(list("providers")[i]) IN
                  \A k \in DOMAIN o : o[k][1] = "string"
            /\ \A i \in 1..Len(list("agents")) : LET o == obj(list("agents")[i]) IN
                  text(o, "model") /\ ("max_tokens" \in DOMAIN o => o["max_tokens"][2] >= 0)
            /\ \A s \in {"network", "budget", "memory"} : \A k \in DOMAIN ST!Bounds[s] : int(s, k)
            /\ "jitter" \in DOMAIN in("network") => in("network")["jitter"][1] = "number" /\ in("network")["jitter"][2] = 0
            /\ value("network", "backoff_base_ms")[2] <= value("network", "backoff_max_ms")[2]
            /\ \A i \in 1..Len(list("context_paths")) : list("context_paths")[i][1] = "string"
            /\ has("data_dir") => doc["data_dir"][1] = "string"
            /\ has("edge_mode") => doc["edge_mode"][1] = "boolean"
      IN  /\ out.load.ok <=> valid
          /\ valid =>
                /\ \A s \in {"network", "budget", "memory"} : \A k \in DOMAIN ST!Bounds[s] :
                      out.load.cfg[s][k] = value(s, k)[2]
                /\ \A k \in {"providers", "agents"} : Len(out.load.cfg[k]) = Len(list(k))

\* A task that starts uses the entry of its model's provider, key, url and
\* adapter, where the configuration has one.  Without it the key and the adapter
\* are the first entry's, and so is the url if that entry gives one; if not, the
\* url is the catalog's of the model (session_options_from_config, make_provider).
OneProvider ==
    Is("settings") /\ out.options.ok =>
      LET o     == out.options
          own   == {p \in ToSet(out.cfg.providers) : p.id = o.model_provider}
          entry == IF own = {} THEN out.cfg.providers[1] ELSE CHOOSE p \in own : TRUE
          made  == ST!make_provider(o.provider_id, o.base_url)
      IN  /\ o.provider_id = entry.id /\ o.api_key = entry.api_key
          /\ own # {} => made.ok
          /\ made.ok => made.base_url = IF entry.base_url # "" THEN entry.base_url ELSE o.model_provider

\* The true distance of two words, over their prefixes.
Distance(a, b) ==
    LET d[i \in 0..Len(a), j \in 0..Len(b)] ==
          IF i = 0 \/ j = 0 THEN i + j
          ELSE RS!Least3(d[i - 1, j] + 1, d[i, j - 1] + 1, d[i - 1, j - 1] + (IF a[i] = b[j] THEN 0 ELSE 1))
    IN  d[Len(a), Len(b)]

\* The names suggested for an unknown one are the nearest there are, none twice,
\* although distances are cut off on the way (suggest, edit_distance).
SuggestsNearest ==
    Is("suggest") =>
      LET far(n) == Distance(case.id, n)
          near == {n \in ToSet(RS!Names) : far(n) = 1}
      IN  /\ IsInjective(out) /\ ToSet(out) \subseteq near
          /\ Len(out) = PA!Least(2, Cardinality(near))

\* What split_url accepts is the url it was given, but for slashes at its end;
\* what it refuses has no scheme it knows, no host or no port that can be.
UrlRoundTrips ==
    Is("url") =>
      LET u == case.url
          tail == SubSeq(u, 3, Len(u))
          end == Len(tail) + 1
          slash == {i \in 1..Len(tail) : tail[i] = "/"} \cup {end}
          first == CHOOSE i \in slash : \A j \in slash : i <= j
          authority == SubSeq(tail, 1, first - 1)
          splits == {[host |-> h, port |-> p] :
                       h \in {SubSeq(authority, 1, k) : k \in 1..Len(authority)},
                       p \in {0, 1, 2, 11, 12, 21}}
          digits(p) == CASE p = 1 -> <<"1">> [] p = 2 -> <<"2">> [] p = 11 -> <<"1", "1">>
                         [] p = 12 -> <<"1", "2">> [] p = 21 -> <<"2", "1">>
          spelt(s) == IF s.port = 0 THEN ":" \notin ToSet(s.host) /\ s.host = authority
                      ELSE s.host \o <<":">> \o digits(s.port) = authority
          good == /\ Len(u) >= 2 /\ u[1] = "http" /\ u[2] = "://"
                  /\ \E s \in splits : spelt(s)
      IN  /\ out.ok <=> good
          /\ good => /\ spelt([host |-> out.host, port |-> out.port])
                     /\ \E n \in 0..Len(tail) : authority \o out.path \o [k \in 1..n |-> "/"] = tail
                     /\ out.path # << >> => out.path[Len(out.path)] # "/"

\* Waits double from the base to the cap and the jitter is a share of them
\* (next_delay_ms, jitter_ms).
DelaysDouble ==
    Is("delay") =>
      \A a \in 1..5 :
        LET plain == PA!Least(case.max, case.base * 2 ^ (a - 1))
        IN  /\ plain \in out[a]
            /\ \A d \in out[a] : 10 * (d - plain) \in (-(plain * case.jitter))..(plain * case.jitter)

AtMost(s, x) == Cardinality({i \in 1..Len(s) : s[i] <= x})

\* A percentile of a histogram covers its share of the samples rounded down, at
\* least one, and half of it does not (Metrics::observe, percentile).
PercentileCovers ==
    Is("samples") /\ case.samples # << >> =>
      LET share == (case.pct * Len(case.samples)) \div 100
          rank  == IF share = 0 THEN 1 ELSE share
      IN  /\ AtMost(case.samples, out.hist) >= rank
          /\ out.hist > 1 => AtMost(case.samples, out.hist \div 2) < rank

\* The window holds the last round trips, and its percentiles cover their share
\* of them (record_rtt, Meter::percentile).
RttCovers ==
    Is("samples") =>
      /\ out.rtts = SubSeq(case.samples, Len(case.samples) - Len(out.rtts) + 1, Len(case.samples))
      /\ Len(out.rtts) = PA!Least(4, Len(case.samples))
      /\ out.rtts # << >> => 100 * AtMost(out.rtts, TE!RttPercentile(out.rtts, case.pct)) >= case.pct * Len(out.rtts)

\* A line stays in its buffer whatever is escaped in it, is never cut inside an
\* escape, and loses nothing when there is room (Logger::log, append_escaped).
LineFits ==
    Is("log") =>
      /\ Len(out) <= case.cap
      /\ \A i \in 1..Len(out) : out[i] = "bs" => i < Len(out) /\ out[i + 1] = "q"
      /\ LET whole == TE!log(100, case.pairs) IN Len(whole) < case.cap => out = whole

-----------------------------------------------------------------------------
(* The answers of each group of algorithms are those of their references.  *)

\* What the file tools reach: paths stay inside, patterns match as they should,
\* a read is its range and a search misses only ".git" of what a listing shows.
FilesAreFound == ResolveStaysInside /\ GlobIsReference /\ ReadIsRange /\ SearchCoversList

\* What an edit is judged by: brackets balance, a patch goes forth and back, all
\* calls are found, and no called name that begins a line goes away unnoticed.
EditsAreJudged == SyntaxIsBalance /\ PatchRoundTrip /\ ExtractFindsCalls /\ RemovedIsBlocked

\* What is stored of a message: all of it comes back from bytes and from JSON
\* text, and bytes with a part missing are never written nor accepted.
MessagesRoundTrip == CodecRoundTrips /\ EncodeIsAllOrNothing /\ JsonRoundTrips

\* What is planned for a request: cuts are reported, recent turns stay and older
\* ones are taken only while they fit.
PromptFits == CutsAreReported /\ RecentIsKept /\ OlderFits

\* What a task starts with: a configuration is read exactly, the model's provider
\* is used where there is an entry for it, and names and urls are taken for what they are.
SettingsAreExact == LoadIsExact /\ OneProvider /\ SuggestsNearest /\ UrlRoundTrips

\* What is measured and how long is waited: delays double, percentiles cover
\* their share, a histogram's rounded down, and a log line keeps to its buffer.
MeasuresCover == DelaysDouble /\ PercentileCovers /\ RttCovers /\ LineFits

-----------------------------------------------------------------------------
(* What the repository says and TLC refutes *)

\* opencode.h: "load an opencodepp JSON config file, then overlay any non-NULL
\* direct fields below on top".
HostModelIsUsed ==
    Is("settings") /\ out.options.ok /\ "model" \in DOMAIN case.host =>
        LET m == ST!resolve_model(case.host["model"])
        IN  out.options.model = IF m.ok THEN m.name ELSE case.host["model"]

\* config.hpp: "per-agent cap override".  The agent of a task is the first.
CapIsTheAgents ==
    Is("settings") /\ out.options.ok /\ out.cfg.agents # << >> =>
        ST!budget_cap(out.cfg) = IF out.cfg.agents[1].max_tokens # 0 THEN out.cfg.agents[1].max_tokens
                                 ELSE out.cfg.budget.max_tokens_per_task

\* policy.h: "Backoff delay for `attempt` (1-based), jittered and capped".
DelayIsCapped == Is("delay") => \A a \in 1..5 : \A d \in out[a] : d <= case.max

\* context.h: "Tier 1 (always): system core + active tool schema cost + newest
\* user message + last N assistant turns".
NewestUserIsKept ==
    Is("assemble") => \A i \in 1..Len(case.messages) :
        case.messages[i].role = "user" /\ (\A j \in (i + 1)..Len(case.messages) : case.messages[j].role # "user")
          => Kept(i)

\* util.h: "join_lines round-trips any text exactly".
JoinRoundTrips == \A text \in SeqUpTo({"x", VE!CR, VE!LF}, 3) :
                      VE!join_lines(VE!split_lines(text)) = text

\* read_only.cpp: "exclusive end byte offset".  An end before the start is none:
\* the difference wraps around, and the rest of the file is returned.
ReadStopsAtEnd ==
    Is("read") /\ case.end >= 0 /\ out # << >> => case.start < case.end

\* read_only.cpp: "honor .gitignore and skip .git".  Not asked to, the search
\* skips .git all the same, and every path that has it inside a name.
SearchSkipsGit ==
    Is("search") /\ case.pattern # << >> =>
        {e \in out.list.entries : ~e.dir} \subseteq out.all.entries

\* verify/symbols.cpp: "If a definition was removed and it's still referenced in
\* the workspace, the edit is blocked".  Not if a type stands before the name.
RemovedDefIsBlocked ==
    Is("symbols") /\ AllPass /\ <<"a", "a">> \in case.called /\ case.before = <<"a", "b", " ", "a", "a">>
        => \E i \in 1..Len(case.after) : SubSeq(case.after, i, i + 1) = <<"a", "a">>

\* patch.h: "Emit the reverse of `patch_text` (removed/added swapped), for
\* rollback and round-trip tests".  A line that begins with -- or ++ is taken
\* for a file header once its sign stands before it.
AnyPatchRoundTrips == Is("patch") => out.forth = After(case) /\ out.back = Before(case)

\* context.cpp: "then add older history newest-first while the budget holds".
\* The loop goes from the oldest message on.
NewestFirst ==
    Is("assemble") =>
        LET h == out.fold.messages IN
        \A i \in 1..(PR!tier1_from(h, case.recent_turns) - 2) : h[i].id # 0 /\ Kept(h[i].id) => Kept(h[i + 1].id)

\* session.h: "then the provider cfg for the model's provider id".  Without such
\* an entry the first one's key goes with the url the catalog has for the model,
\* through the first one's adapter.
KeyFitsUrl ==
    Is("settings") /\ out.options.ok =>
      LET o == out.options
          made == ST!make_provider(o.provider_id, o.base_url)
      IN  made.ok => \E p \in ToSet(out.cfg.providers) :
                        o.api_key = p.api_key /\ made.base_url \in {p.base_url, p.id}

\* metrics.h: "Percentile of a histogram by name".  The rank is rounded down, so
\* that the median of three samples covers one of them.
PercentileIsShare ==
    Is("samples") /\ case.samples # << >> =>
        100 * AtMost(case.samples, out.hist) >= case.pct * Len(case.samples)
=============================================================================
