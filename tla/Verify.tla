------------------------------- MODULE Verify -------------------------------
(***************************************************************************)
(* The verification gate every edit passes before a write tool runs:       *)
(* verify/gate.cpp and its stages (syntax, symbols, impact, diff, testmap  *)
(* .cpp) and the proposal the agent hands it (build_proposal in            *)
(* agent/loop.cpp).                                                        *)
(*                                                                         *)
(* Positions are kept as lines; columns and the wording of messages are    *)
(* left out.                                                               *)
(*                                                                         *)
(* Its diff stage applies patches, so the text side of file.patch          *)
(* (tools/exec/patch.cpp) and the line helpers it stands on                *)
(* (tools/exec/util.cpp) come first.                                       *)
(*                                                                         *)
(* A text is a sequence of symbols, of which only CR and LF matter; a line *)
(* is a sequence of symbols.  A diff is a sequence of lines already split: *)
(*   [tag |-> "@@", orig, new]   a hunk header with the numbers it carries *)
(*   [tag |-> " " | "-" | "+", line |-> l]                                 *)
(*   [tag |-> "other", line |-> l]  an empty line, or one that begins with *)
(*                               a backslash or anything else: passed over *)
(* parse() recognises file headers by the three characters "---" and "+++" *)
(* at the head of a diff line, so a removed line that itself begins with   *)
(* "--" looks like one: Dashes and Plusses are the lines that begin so.    *)
(***************************************************************************)
EXTENDS Naturals, Sequences, SequencesExt, FiniteSets

CONSTANTS Dashes,   \* lines that begin with "--"
          Plusses,  \* lines that begin with "++"
          Letters,  \* the symbols an identifier is made of
          Keywords  \* the identifiers extract_defs does not take for a definition

CR == "cr"
LF == "lf"
\* A hunk that fits nowhere, as lines and as a text.
HunkErr  == <<<<"e_tool_reject">>>>
Rejected == <<"e_tool_reject">>

-----------------------------------------------------------------------------
(* Lines and texts *)

\* A line without the carriage return that ends it.
DropCr(l) == IF l # << >> /\ Last(l) = CR THEN Front(l) ELSE l

\* The text cut at its line feeds; what follows the last one is a line of its
\* own unless it is empty.
split_lines(t) ==
    LET ends  == {i \in 1..Len(t) : t[i] = LF}
        cuts  == SetToSortSeq(ends, <)
        start(k) == IF k = 1 THEN 1 ELSE cuts[k - 1] + 1
        whole == [k \in 1..Len(cuts) |-> DropCr(SubSeq(t, start(k), cuts[k] - 1))]
        rest  == SubSeq(t, start(Len(cuts) + 1), Len(t))
    IN  IF rest = << >> THEN whole ELSE Append(whole, DropCr(rest))

join_lines(ls) == FlattenSeq([i \in 1..Len(ls) |-> Append(ls[i], LF)])

-----------------------------------------------------------------------------
(* Hunks: where the old lines should be, and the old and the new lines *)

Hunk(orig, new) == [orig |-> orig, new |-> new, old_body |-> << >>, new_body |-> << >>]

\* Headers count lines from one, hunks from zero; zero stays zero.
parse_start(n) == IF n > 0 THEN n - 1 ELSE 0

IsFileHeader(d) == \/ d.tag = "-" /\ d.line \in Dashes
                   \/ d.tag = "+" /\ d.line \in Plusses

\* One line of the diff read with the hunks found so far; lines before the
\* first header are dropped.
ParseLine(hunks, d) ==
    IF d.tag = "@@" THEN Append(hunks, Hunk(parse_start(d.orig), parse_start(d.new)))
    ELSE IF hunks = << >> \/ IsFileHeader(d) THEN hunks
    ELSE LET n == Len(hunks)
         IN  [hunks EXCEPT
                ![n].old_body = IF d.tag \in {" ", "-"} THEN Append(@, d.line) ELSE @,
                ![n].new_body = IF d.tag \in {" ", "+"} THEN Append(@, d.line) ELSE @]

parse(diff) == FoldLeft(ParseLine, << >>, diff)

\* The first place at or after the hunk's own where its old lines stand; a
\* start past the end of the text means the search begins at the top.
Places(h, lines) ==
    LET from == IF h.orig < Len(lines) THEN h.orig ELSE 0
    IN  {i \in from..Len(lines) :
            /\ i + Len(h.old_body) <= Len(lines)
            /\ SubSeq(lines, i + 1, i + Len(h.old_body)) = h.old_body}

ApplyHunk(h, lines) ==
    IF lines = HunkErr \/ Places(h, lines) = {} THEN HunkErr
    ELSE LET i == CHOOSE i \in Places(h, lines) : \A j \in Places(h, lines) : i <= j
         IN  SubSeq(lines, 1, i) \o h.new_body
               \o SubSeq(lines, i + Len(h.old_body) + 1, Len(lines))

\* The last hunk first, so the places of the others stay where they were.
ApplyLines(hunks, lines) == FoldRight(ApplyHunk, hunks, lines)

apply(hunks, text) ==
    LET lines == ApplyLines(hunks, split_lines(text))
    IN  IF lines = HunkErr THEN Rejected ELSE join_lines(lines)

\* The hunk printed again: two cursors over the old and the new lines, equal
\* lines as context, an old line as removed when the next new line is its
\* equal or no new line is left, and a new line as added otherwise.
emit_hunk(h) ==
    LET o == h.old_body
        n == h.new_body
        out[oi \in 1..(Len(o) + 1), ni \in 1..(Len(n) + 1)] ==
            IF oi > Len(o) /\ ni > Len(n) THEN << >>
            ELSE IF oi <= Len(o) /\ ni <= Len(n) /\ o[oi] = n[ni]
            THEN <<[tag |-> " ", line |-> o[oi]]>> \o out[oi + 1, ni + 1]
            ELSE IF /\ oi <= Len(o)
                    /\ \/ ni > Len(n)
                       \/ ni + 1 <= Len(n) /\ o[oi] = n[ni + 1]
            THEN <<[tag |-> "-", line |-> o[oi]]>> \o out[oi + 1, ni]
            ELSE <<[tag |-> "+", line |-> n[ni]]>> \o out[oi, ni + 1]
    IN  <<[tag |-> "@@", orig |-> h.orig + 1, new |-> h.new + 1]>> \o out[1, 1]

\* The diff that takes the patch back.
reverse(diff) ==
    LET back(h) == [orig |-> h.new, new |-> h.orig,
                    old_body |-> h.new_body, new_body |-> h.old_body]
        hunks   == parse(diff)
    IN  FlattenSeq([i \in 1..Len(hunks) |-> emit_hunk(back(hunks[i]))])

-----------------------------------------------------------------------------
(* What a diff means, independent of the code: a list of edits of one text, *)
(* each keeping, removing or adding a line.                                 *)

\* The text before and the text after a script of edits.
Before(script) == SelectSeq(script, LAMBDA e : e.tag # "+")
After(script)  == SelectSeq(script, LAMBDA e : e.tag # "-")
LinesOf(edits) == [i \in 1..Len(edits) |-> edits[i].line]

\* The diff of a script whose hunks are the stretches from cut to cut: every
\* stretch that changes something is a hunk, numbered from one as diff does.
Stretch(script, a, b) ==
    LET pre  == SubSeq(script, 1, a - 1)
        body == SubSeq(script, a, b)
    IN  IF \A i \in 1..Len(body) : body[i].tag = " " THEN << >>
        ELSE <<[tag |-> "@@", orig |-> Len(Before(pre)) + 1,
                new |-> Len(After(pre)) + 1]>> \o body

DiffOf(script, cut) == Stretch(script, 1, cut) \o Stretch(script, cut + 1, Len(script))

-----------------------------------------------------------------------------
(* The gate *)

None == "none"
Issue(line, msg) == [line |-> line, msg |-> msg]

-----------------------------------------------------------------------------
(* syntax.cpp: one pass over the text *)

Opens  == {"(", "[", "{"}
Closes == {")", "]", "}"}
is_balanced_close(open, close) == <<open, close>> \in {<<"(", ")">>, <<"[", "]">>, <<"{", "}">>}

NewScanner == [i |-> 1, state |-> "normal", esc |-> FALSE, line |-> 1,
               stack |-> << >>, issues |-> << >>]
Skip(s, n) == [s EXCEPT !.i = @ + n]
Report(s, line, msg) == [s EXCEPT !.issues = Append(@, Issue(line, msg))]
NewLine(s) == [s EXCEPT !.line = @ + 1]

\* A symbol inside a comment.
ScanComment(s, c, nx) ==
    IF s.state = "line_comment"
    THEN IF c = LF THEN Skip(NewLine([s EXCEPT !.state = "normal"]), 1) ELSE Skip(s, 1)
    ELSE IF c = "*" /\ nx = "/" THEN Skip([s EXCEPT !.state = "normal"], 2)
    ELSE Skip(IF c = LF THEN NewLine(s) ELSE s, 1)

\* A symbol inside a literal, which ends at its quote or, with a complaint, at
\* the end of the line.
ScanLiteral(s, c) ==
    LET quote == IF s.state = "string_literal" THEN "dq" ELSE "sq"
    IN  IF s.esc THEN Skip([s EXCEPT !.esc = FALSE], 1)
        ELSE IF c = "bs" THEN Skip([s EXCEPT !.esc = TRUE], 1)
        ELSE IF c = quote THEN Skip([s EXCEPT !.state = "normal"], 1)
        ELSE IF c = LF
        THEN Skip(NewLine(Report([s EXCEPT !.state = "normal"], s.line, "unterminated literal")), 1)
        ELSE Skip(s, 1)

\* A closing bracket against the bracket it closes.
ScanClose(s, c) ==
    IF s.stack = << >> THEN Report(s, s.line, "unexpected")
    ELSE LET top == Last(s.stack)
             st  == IF is_balanced_close(top.ch, c) THEN s ELSE Report(s, top.line, "unmatched")
         IN  [st EXCEPT !.stack = Front(@)]

\* Two semicolons in a row, outside the parentheses of a for.
DoubleSemi(t, s) == /\ ~(s.stack # << >> /\ Last(s.stack).ch = "(")
                    /\ s.i > 1 /\ t[s.i - 1] # "("

ScanStep(t, s) ==
    LET c  == t[s.i]
        nx == IF s.i < Len(t) THEN t[s.i + 1] ELSE None
    IN  IF s.state \in {"line_comment", "block_comment"} THEN ScanComment(s, c, nx)
        ELSE IF s.state # "normal" THEN ScanLiteral(s, c)
        ELSE IF c = "/" /\ nx = "/" THEN Skip([s EXCEPT !.state = "line_comment"], 2)
        ELSE IF c = "/" /\ nx = "*" THEN Skip([s EXCEPT !.state = "block_comment"], 2)
        ELSE IF c = "dq" THEN Skip([s EXCEPT !.state = "string_literal"], 1)
        ELSE IF c = "sq" THEN Skip([s EXCEPT !.state = "char_literal"], 1)
        ELSE IF c \in Opens
        THEN Skip([s EXCEPT !.stack = Append(@, [ch |-> c, line |-> s.line])], 1)
        ELSE IF c \in Closes THEN Skip(ScanClose(s, c), 1)
        ELSE IF c = ";" /\ nx = ";"
        THEN Skip(IF DoubleSemi(t, s) THEN Report(s, s.line, "double semicolon") ELSE s, 1)
        ELSE Skip(IF c = LF THEN NewLine(s) ELSE s, 1)

\* The issues of a text: the pass, then what is still open at its end.
check_syntax(t) ==
    LET run[n \in 0..Len(t)] == IF n = 0 THEN NewScanner
                                ELSE IF run[n - 1].i > Len(t) THEN run[n - 1]
                                ELSE ScanStep(t, run[n - 1])
        s    == run[Len(t)]
        tail == IF s.state \in {"normal", "line_comment"} THEN << >>
                ELSE <<Issue(s.line, "unterminated")>>
    IN  s.issues \o tail \o [k \in 1..Len(s.stack) |-> Issue(s.stack[k].line, "unterminated")]

-----------------------------------------------------------------------------
(* symbols.cpp and impact.cpp.  A graph is a record (an absent one knows no  *)
(* name) of                                                                  *)
(*   lookup  : a function from names to the id of their definition, and      *)
(*   callers : a function from ids to the ids of their callers.              *)

\* The first identifier of every line that begins with one of two symbols or
\* more; a line that begins with anything else (a blank, a comment, a
\* directive) has none.
Ident(line) ==
    LET n == CHOOSE n \in 0..Len(line) :
                /\ \A i \in 1..n : line[i] \in Letters
                /\ n = Len(line) \/ line[n + 1] \notin Letters
    IN  SubSeq(line, 1, n)

defs_of(text) == SelectSeq([i \in 1..Len(split_lines(text)) |-> Ident(split_lines(text)[i])],
                           LAMBDA w : Len(w) > 1)
extract_defs(text) == SelectSeq(defs_of(text), LAMBDA w : w \notin Keywords)

Removed(before, after) == SelectSeq(before, LAMBDA d : \A i \in 1..Len(after) : after[i] # d)

\* The definitions the edit takes away that somebody calls.
check_symbols(p, graph) ==
    SelectSeq(Removed(extract_defs(p.before), extract_defs(p.after)),
              LAMBDA d : d \in DOMAIN graph.lookup /\ graph.callers[graph.lookup[d]] # {})

\* The callers of what the edit takes away.  A caller is reported with the file
\* that looking up the empty name finds, so only where the empty name is known.
check_impact(p, graph) ==
    {<<d, c>> \in UNION {{d} \X graph.callers[graph.lookup[d]] :
                     d \in {d \in ToSet(Removed(defs_of(p.before), defs_of(p.after))) : d \in DOMAIN graph.lookup}} :
        << >> \in DOMAIN graph.lookup}

-----------------------------------------------------------------------------
(* diff.cpp *)

\* Lines as check_diff counts them: cut at line feeds, nothing taken off.
RawLines(t) ==
    LET cuts == SetToSortSeq({i \in 1..Len(t) : t[i] = LF} \cup
                             (IF t # << >> /\ Last(t) # LF THEN {Len(t) + 1} ELSE {}), <)
    IN  [k \in 1..Len(cuts) |->
            SubSeq(t, IF k = 1 THEN 1 ELSE cuts[k - 1] + 1, cuts[k] - 1)]

LineAt(ls, i) == IF i <= Len(ls) THEN ls[i] ELSE << >>
count_changed_lines(a, b) ==
    LET la == RawLines(a)
        lb == RawLines(b)
    IN  Cardinality({i \in 1..(IF Len(la) > Len(lb) THEN Len(la) ELSE Len(lb)) :
                        LineAt(la, i) # LineAt(lb, i)})

\* More than four fifths of a short text changed.
TooMuchChanged(p) ==
    LET after == Len(RawLines(p.after))
    IN  /\ after < 20 /\ p.before # << >> /\ after > 2
        /\ count_changed_lines(p.before, p.after) * 10 > after * 8

\* What is wrong with the change itself, or None.
check_diff(p) ==
    LET applied == apply(parse(p.patch), p.before)
    IN  IF p.patch # << >> /\ applied = Rejected THEN "does not apply"
        ELSE IF p.patch # << >> /\ applied # p.after THEN "result differs"
        ELSE IF p.patch = << >> /\ p.after = p.before THEN "no change"
        ELSE IF TooMuchChanged(p) THEN "too much" ELSE None

-----------------------------------------------------------------------------
(* gate.cpp and the agent's side of it *)

Stages == <<"syntax", "symbols", "impact", "diff", "testmap">>
Result(stage, pass, line) == [stage |-> stage, pass |-> pass, line |-> line]

RunStage(stage, p, ctx) ==
    LET syn == check_syntax(p.after)
    IN  CASE stage = "syntax"  -> Result(stage, syn = << >>, IF syn = << >> THEN 0 ELSE syn[1].line)
          [] stage = "symbols" -> Result(stage, check_symbols(p, ctx.graph) = << >>, 0)
          [] stage = "impact"  -> Result(stage, check_impact(p, ctx.graph) = {}, 0)
          [] stage = "diff"    -> Result(stage, check_diff(p) = None, 0)
          [] OTHER             -> Result(stage, TRUE, 0)

\* The stages in order, up to the first that fails and is mandatory.
run_all(p, ctx) ==
    LET all  == [k \in 1..5 |-> RunStage(Stages[k], p, ctx)]
        stop == {k \in 1..5 : ~all[k].pass /\ Stages[k] \in ctx.mandatory}
    IN  IF stop = {} THEN all
        ELSE SubSeq(all, 1, CHOOSE k \in stop : \A j \in stop : k <= j)

Passed == Result("none", TRUE, 0)

\* The first result that is no pass, mandatory or not, stops the agent.
Failure(results) ==
    LET bad == {k \in 1..Len(results) : ~results[k].pass}
    IN  IF bad = {} THEN Passed ELSE results[CHOOSE k \in bad : \A j \in bad : k <= j]

NoProposal == [invalid |-> TRUE]

\* The proposal for a call: a write carries the file as it is (empty when it
\* cannot be read) and as it will be, a patch only the patch.
build_proposal(call, current) ==
    IF call.path = None THEN NoProposal
    ELSE IF call.tool = "file.write"
    THEN [before |-> current, after |-> call.content, patch |-> << >>]
    ELSE [before |-> << >>, after |-> << >>, patch |-> call.patch]

\* The stages that run_tool makes mandatory; the agent has no symbol graph here.
ctx == [graph |-> [lookup |-> << >>, callers |-> << >>], mandatory |-> {"syntax", "symbols", "impact", "diff"}]

\* What run_tool makes of a call that writes, on the file's present text.
verify_call(call, current) ==
    LET p == build_proposal(call, current)
    IN  IF p = NoProposal THEN "invalid"
        ELSE IF Failure(run_all(p, ctx)) = Passed THEN "passed" ELSE "failed"

\* The text that file.patch makes of the present one, or Rejected.
patch_call(call, current) ==
    apply(parse(IF call.reverse THEN reverse(call.patch) ELSE call.patch), current)

-----------------------------------------------------------------------------
(* References *)

\* What is left of a text without its literals and comments, or None when one
\* of them does not end: found by jumping from the start of each to its end.
Visible(t) ==
    LET n == Len(t)
        at(i) == IF i <= n THEN t[i] ELSE None
        escaped(i, j) == Cardinality({k \in i..(j - 1) : \A m \in k..(j - 1) : t[m] = "bs"}) % 2 = 1
        ends(i, q) == {j \in i..n : t[j] = q /\ ~escaped(i, j)}
        least(S) == CHOOSE j \in S : \A k \in S : j <= k
        vis[i \in 1..(n + 3)] ==
            IF i > n THEN [ok |-> TRUE, s |-> << >>]
            ELSE IF t[i] = "/" /\ at(i + 1) = "/"
            THEN LET nl == {j \in (i + 2)..n : t[j] = LF}
                 IN  IF nl = {} THEN [ok |-> TRUE, s |-> << >>] ELSE vis[least(nl)]
            ELSE IF t[i] = "/" /\ at(i + 1) = "*"
            THEN LET e == {j \in (i + 2)..(n - 1) : t[j] = "*" /\ t[j + 1] = "/"}
                 IN  IF e = {} THEN [ok |-> FALSE, s |-> << >>] ELSE vis[least(e) + 2]
            ELSE IF t[i] \in {"dq", "sq"}
            THEN LET e == ends(i + 1, t[i])
                     nl == ends(i + 1, LF)
                 IN  IF e = {} \/ (nl # {} /\ least(nl) < least(e))
                     THEN [ok |-> FALSE, s |-> << >>] ELSE vis[least(e) + 1]
            ELSE [vis[i + 1] EXCEPT !.s = <<t[i]>> \o @]
    IN  vis[1]

\* Brackets that pair up: every prefix leaves a stack of open ones, the whole
\* text an empty one.
Balanced(s) ==
    LET push(st, c) == IF c \in Opens THEN Append(st, c)
                       ELSE IF c \notin Closes THEN st
                       ELSE IF st # << >> /\ is_balanced_close(Last(st), c) THEN Front(st)
                       ELSE <<"bad">> \o st
    IN  FoldLeft(push, << >>, s) = << >>
=============================================================================
