------------------------------- MODULE Prompt -------------------------------
(***************************************************************************)
(* What is planned for a request: the token estimate (src/msg/tokens.cpp), *)
(* compiled templates and their registry (src/prompt/compiler.cpp,         *)
(* registry.cpp), the fold of an old history (src/memory/summarizer.cpp)   *)
(* and the tiered assembler (src/prompt/context.cpp), as Agent::assemble   *)
(* puts them together.  The loop does not send the plan: it passes the     *)
(* session's messages to stream_call.                                      *)
(*                                                                         *)
(* A text is a sequence of characters, each its class: "a" a letter or a   *)
(* digit, "{", "}" and ";" code symbols, "." other punctuation, " " and    *)
(* "lf", "hi" the first byte of a three-byte character, "u" any other byte *)
(* of one.  A name in a template is one symbol.                            *)
(***************************************************************************)
EXTENDS Integers, Sequences, SequencesExt

CONSTANTS NewestUserFloor, \* kNewestUserFloor
          Wrap             \* 2^64: where tier2_budget wraps around

Word(x) == x \notin {" ", "lf"}
Symbols == {"{", "}", ";"}
Count(s, S) == Len(SelectSeq(s, LAMBDA c : c \in S))
Larger(a, b) == IF a > b THEN a ELSE b
Smaller(a, b) == IF a < b THEN a ELSE b

-----------------------------------------------------------------------------
(* Token estimates *)

estimate_tokens(s) ==
    LET n        == Len(s)
        words    == Len(SelectSeq([i \in 1..n |-> Word(s[i]) /\ (i = 1 \/ ~Word(s[Larger(i - 1, 1)]))],
                                  LAMBDA starts : starts))
        newlines == Count(s, {"lf"})
        symbols  == Count(s, Symbols)
        cjk      == Count(s, {"hi"})
        code     == \/ newlines >= 2 /\ symbols >= 3
                    \/ newlines >= 1 /\ symbols > words \div 2
                    \/ symbols > n \div 6
    IN  IF n = 0 THEN 0
        ELSE IF cjk >= 4 /\ cjk * 2 >= words
        THEN (cjk * 11) \div 10 + (IF n >= cjk * 3 THEN n - cjk * 3 ELSE 0) \div 4
        ELSE IF code THEN Larger(1, n \div 4)
        ELSE IF words = 0 THEN 0
        ELSE Larger(1, (words * 13) \div 10)

PartTokens(p) ==
    CASE p.kind \in {"text", "reasoning"} -> estimate_tokens(p.text)
      [] p.kind = "image_url" -> 8 + Len(p.text) \div 4
      [] p.kind = "binary" -> 4 + Len(p.mime) \div 4 + Len(p.text) \div 4
      [] p.kind = "tool_call" -> 8 + Len(p.id) \div 2 + Len(p.name) \div 4 + estimate_tokens(p.text)
      [] p.kind = "tool_result" -> 2 + estimate_tokens(p.text)
      [] p.kind = "finish" -> 1

Total(s) == FoldLeft(LAMBDA acc, n : acc + n, 0, s)
estimate_message_tokens(m) == 4 + Total([i \in 1..Len(m.parts) |-> PartTokens(m.parts[i])])

OfKind(m, kind) == SelectSeq(m.parts, LAMBDA p : p.kind = kind)
content_text(m) == FlattenSeq([i \in 1..Len(OfKind(m, "text")) |-> OfKind(m, "text")[i].text])

-----------------------------------------------------------------------------
(* Templates *)

\* The first place at or after `from` where the pair of characters stands, or 0.
PairAt(s, c, from) ==
    LET at == {i \in from..(Len(s) - 1) : s[i] = c /\ s[i + 1] = c}
    IN  IF at = {} THEN 0 ELSE CHOOSE i \in at : \A j \in at : i <= j

\* find_placeholders: the names between {{ and }}, each once.
RECURSIVE find_placeholders(_, _, _)
find_placeholders(s, pos, out) ==
    LET open  == PairAt(s, "{", pos)
        close == PairAt(s, "}", open + 2)
        name  == SubSeq(s, open + 2, close - 1)
    IN  IF open = 0 \/ close = 0 THEN out
        ELSE find_placeholders(s, close + 2,
                               IF name = << >> \/ Contains(out, name) THEN out ELSE Append(out, name))

compile_prompt(id, source) ==
    LET names == find_placeholders(source, 1, << >>)
    IN  [id |-> id, text |-> source, placeholders |-> names, estimated |-> estimate_tokens(source)]

\* PromptRegistry: a template added again takes the place of the old one.
add(refs, ref) ==
    LET at == SelectInSeq(refs, LAMBDA r : r.id = ref.id)
    IN  IF at = 0 THEN Append(refs, ref) ELSE [refs EXCEPT ![at] = ref]
find(refs, id) == SelectSeq(refs, LAMBDA r : r.id = id)
load_templates(files, refs) ==
    FoldLeft(LAMBDA acc, f : add(acc, compile_prompt(f.stem, f.text)), refs, files)

\* substitute: every {{NAME}} of one name, left to right, and then the next
\* name.  What was put in is not searched for the same name again.
RECURSIVE replace(_, _, _, _)
replace(s, pos, name, value) ==
    LET mark == <<"{", "{", name, "}", "}">>
        at   == {i \in pos..(Len(s) - 4) : SubSeq(s, i, i + 4) = mark}
        i    == CHOOSE i \in at : \A j \in at : i <= j
    IN  IF at = {} THEN s
        ELSE replace(SubSeq(s, 1, i - 1) \o value \o SubSeq(s, i + 5, Len(s)), i + Len(value), name, value)
substitute(text, in) ==
    replace(replace(replace(text, 1, "TOOLS_SCHEMA", << >>), 1, "LANG_STYLE", in.lang_style),
            1, "EXAMPLES", in.examples)

-----------------------------------------------------------------------------
(* Folding the oldest turns *)

estimate_history_tokens(msgs) ==
    Total([i \in 1..Len(msgs) |-> estimate_tokens(content_text(msgs[i]))
                                    + 12 * Len(OfKind(msgs[i], "tool_call"))
                                    + 8 * Len(OfKind(msgs[i], "tool_result"))])

needs_fold(msgs, window, max_output, keep) ==
    /\ window # 0 /\ Len(msgs) > keep
    /\ estimate_history_tokens(msgs) > Larger(window - max_output, 0)

\* edge_lines: the first and the last line of what is not blank.
Trimmed(t) ==
    LET solid == {i \in 1..Len(t) : Word(t[i])}
    IN  IF solid = {} THEN << >>
        ELSE SubSeq(t, CHOOSE i \in solid : \A j \in solid : i <= j, CHOOSE i \in solid : \A j \in solid : i >= j)
Fragment(text) ==
    LET t == Trimmed(text)
        nls == {i \in 1..Len(t) : t[i] = "lf"}
        first == SubSeq(t, 1, (CHOOSE i \in nls : \A j \in nls : i <= j) - 1)
        last == Trimmed(SubSeq(t, (CHOOSE i \in nls : \A j \in nls : i >= j) + 1, Len(t)))
    IN  IF nls = {} THEN t ELSE IF first = last THEN first ELSE first \o <<" ", ".", ".", ".", " ">> \o last

\* local_fold_text: a line for each message and one for the outcome.
Mark == <<";", "a", ";", " ">>
Tally(n) == IF n = 0 THEN << >> ELSE <<" ", "a", ";", "a">>
local_fold_text(msgs) ==
    FlattenSeq([i \in 1..Len(msgs) |->
        (IF i = 1 THEN << >> ELSE <<"lf">>) \o Mark \o Fragment(content_text(msgs[i]))
          \o Tally(Len(OfKind(msgs[i], "tool_call"))) \o Tally(Len(OfKind(msgs[i], "tool_result")))])
      \o <<"lf", "a", ";", " ">>
      \o (IF content_text(Last(msgs)) = << >> THEN <<"a">> ELSE Fragment(content_text(Last(msgs))))

\* The summary carries the messages it stands for (`of`), which no code reads.
Unfolded(msgs) == [folded |-> FALSE, messages |-> msgs, of |-> 0]
fold_oldest(msgs, keep) ==
    LET old == SubSeq(msgs, 1, Len(msgs) - keep)
        summary == [id |-> 0, role |-> "user", parts |-> <<[kind |-> "text", text |-> Mark \o <<"lf">> \o local_fold_text(old)]>>]
    IN  IF Len(msgs) <= keep THEN Unfolded(msgs)
        ELSE [folded |-> TRUE, messages |-> <<summary>> \o SubSeq(msgs, Len(msgs) - keep + 1, Len(msgs)),
              of |-> Len(old)]

-----------------------------------------------------------------------------
(* Assembling *)

\* truncate_text: the longest prefix the search by halves finds, and a note.
RECURSIVE Halve(_, _, _, _)
Halve(text, budget, lo, hi) ==
    LET mid == (lo + hi + 1) \div 2
    IN  IF lo >= hi THEN lo
        ELSE IF estimate_tokens(SubSeq(text, 1, mid)) <= budget THEN Halve(text, budget, mid, hi)
        ELSE Halve(text, budget, lo, mid - 1)
Suffix == <<" ", "{", "a", " ", "a", "}">>
truncate_text(text, budget) == SubSeq(text, 1, Halve(text, budget, 0, Len(text))) \o Suffix

Omit(what) == [cut |-> "omitted", what |-> what]
Truncate(what) == [cut |-> "truncated", what |-> what]

Cap(in) ==
    LET asked == IF in.available # 0 THEN in.available ELSE in.hard_cap
        room  == in.context_window - in.max_output
        cap   == IF in.context_window # 0 /\ in.max_output # 0 /\ room > 0 THEN Smaller(asked, room) ELSE asked
    IN  Larger(cap, NewestUserFloor)

\* The system text: the templates, then the entries of the environment and of
\* the repository that fit the tier's budget one by one.
Line(text) == text \o <<"lf">>
Extras(in) ==
    LET budget == (Cap(in) - NewestUserFloor - in.tool_tokens) % Wrap
        fits(e) == ~in.edge_mode /\ estimate_tokens(e.text) <= budget
        all == in.env \o in.repo
    IN  [text   |-> FlattenSeq([i \in 1..Len(all) |-> IF fits(all[i]) THEN Line(all[i].text) ELSE << >>]),
         events |-> FlattenSeq([i \in 1..Len(all) |-> IF fits(all[i]) THEN << >> ELSE <<Omit(all[i].key)>>])]

\* Mutated form: one assistant turn fewer.
tier1_from_Fewer(hist, keep) ==
    LET turns == {i \in 1..Len(hist) : hist[i].role = "assistant"}
        after(i) == Len(SelectSeq(SubSeq(hist, i, Len(hist)), LAMBDA m : m.role = "assistant"))
        last == {i \in turns : after(i) < Larger(keep, 1)}
    IN  IF last = {} THEN Len(hist) ELSE CHOOSE i \in last : \A j \in last : i <= j

\* Where the last `keep` assistant turns begin: everything from there on is kept.
tier1_from(hist, keep) ==
    LET turns == {i \in 1..Len(hist) : hist[i].role = "assistant"}
        after(i) == Len(SelectSeq(SubSeq(hist, i, Len(hist)), LAMBDA m : m.role = "assistant"))
        last == {i \in turns : after(i) <= Larger(keep, 1)}
    IN  IF turns = {} THEN Len(hist) ELSE CHOOSE i \in last : \A j \in last : i <= j

OverCap(in, sys, acc, m) == acc.total + estimate_message_tokens(m) + sys + in.tool_tokens > Cap(in)

Dropped(acc, m) == [acc EXCEPT !.events = Append(@, Omit(m.id))]

\* One message of the history: omitted, cut to the floor or taken whole.
Window(in, sys, acc, i) ==
    LET m == in.messages[i]
        newest == m.role = "user" /\ i = Len(in.messages)
        cut == [m EXCEPT !.parts = <<[kind |-> "text", text |-> truncate_text(content_text(m), NewestUserFloor)]>>]
    IN  IF i < tier1_from(in.messages, in.recent_turns) /\ OverCap(in, sys, acc, m) THEN Dropped(acc, m)
        ELSE IF newest /\ estimate_tokens(content_text(m)) > NewestUserFloor
        THEN [messages |-> Append(acc.messages, cut), total |-> acc.total + estimate_message_tokens(cut),
              events |-> Append(acc.events, Truncate(m.id))]
        ELSE [acc EXCEPT !.messages = Append(@, m), !.total = @ + estimate_message_tokens(m)]

MissingCfg == [ok |-> FALSE]
assemble_context(in, refs) ==
    LET hits == [i \in 1..Len(in.system_ids) |-> find(refs, in.system_ids[i])]
        core == FlattenSeq([i \in 1..Len(hits) |-> Line(substitute(hits[i][1].text, in))])
        sys  == core \o Extras(in).text
        w    == FoldLeft(LAMBDA acc, i : Window(in, estimate_tokens(sys), acc, i),
                         [messages |-> << >>, total |-> 0, events |-> Extras(in).events],
                         [i \in 1..Len(in.messages) |-> i])
        text == IF in.inject THEN sys \o <<"lf">> \o in.schema ELSE sys
    IN  IF in.messages = << >> \/ \E i \in 1..Len(hits) : hits[i] = << >> THEN MissingCfg
        ELSE [ok |-> TRUE, system |-> text, messages |-> w.messages, events |-> w.events,
              estimated |-> w.total + estimate_tokens(text) + in.tool_tokens]

\* Agent::assemble: fold when the history is too long for the window, then
\* assemble what is left.
KeepRecent == 4
assemble(in, refs) ==
    LET fold == needs_fold(in.messages, in.context_window, in.max_output, KeepRecent)
        f == IF fold THEN fold_oldest(in.messages, KeepRecent) ELSE Unfolded(in.messages)
    IN  [fold |-> f, plan |-> assemble_context([in EXCEPT !.messages = f.messages], refs)]
=============================================================================
