------------------------------ MODULE Extract ------------------------------
(***************************************************************************)
(* Finding symbols and calls in a source text (graph/symbols.cpp).         *)
(*                                                                         *)
(* A text is a sequence of symbols: an identifier, a keyword, a directive  *)
(* ("#include"), "::" and every punctuation mark is one symbol, "sp" a     *)
(* blank and LF the end of a line, so an offset is a position in the       *)
(* sequence.  A symbol found is [kind, name, start, end]; a dependency is  *)
(* [kind, from, to] with the number of the definition a call stands in, or *)
(* 0.  Names are sequences of symbols.                                     *)
(***************************************************************************)
EXTENDS Integers, Sequences, SequencesExt, FiniteSets

CONSTANTS Idents,      \* symbols made of identifier characters, keywords included
          CKeywords, GoKeywords   \* sets of them

LF == "lf"
Blank == "sp"
NoPos == 0

Least(S) == CHOOSE i \in S : \A j \in S : i <= j
Greatest(S) == CHOOSE i \in S : \A j \in S : i >= j
InOrder(S) == [k \in 1..Cardinality(S) |->
                  CHOOSE i \in S : Cardinality({j \in S : j <= i}) = k]
FirstIn(S) == IF S = {} THEN NoPos ELSE Least(S)

-----------------------------------------------------------------------------
(* The mask *)

\* The literal that opens at i: where it ends (past the text when it does not),
\* what is hidden of it, and what a backslash takes, the end of a line
\* included.  The backslash itself stays.
Literal(code, i) ==
    LET n == Len(code)
        at[j \in (i + 1)..(n + 2)] ==
            IF j > n THEN [end |-> n + 1, hide |-> {}, taken |-> {}]
            ELSE IF code[j] = "bs" THEN [at[j + 2 - (IF j = n THEN 1 ELSE 0)]
                                           EXCEPT !.taken = @ \cup {j + 1}]
            ELSE IF code[j] = code[i] THEN [end |-> j, hide |-> {j}, taken |-> {}]
            ELSE [at[j + 1] EXCEPT !.hide = @ \cup {j}]
    IN  at[i + 1]

\* The symbols from i on that the mask hides, and those hidden whatever they are.
Hidden(src) ==
    LET n == Len(src)
        nx(i) == IF i < n THEN src[i + 1] ELSE LF
        from[i \in 1..(n + 2)] ==
            IF i > n THEN [hide |-> {}, taken |-> {}]
            ELSE IF src[i] = "/" /\ nx(i) = "/"
            THEN LET nl == {j \in (i + 2)..n : src[j] = LF}
                     e  == IF nl = {} THEN n + 1 ELSE Least(nl)
                 IN  [from[e] EXCEPT !.hide = @ \cup (i..(e - 1))]
            ELSE IF src[i] = "/" /\ nx(i) = "*"
            THEN LET c == {j \in (i + 2)..(n - 1) : src[j] = "*" /\ src[j + 1] = "/"}
                     e == IF c = {} THEN n ELSE Least(c) + 1
                 IN  [from[e + 1] EXCEPT !.hide = @ \cup (i..e)]
            ELSE IF src[i] \in {"dq", "sq"}
            THEN LET lit == Literal(src, i)
                 IN  [from[lit.end + 1] EXCEPT !.hide = @ \cup {i} \cup lit.hide,
                                               !.taken = @ \cup lit.taken]
            ELSE from[i + 1]
    IN  from[1]

\* Comments and literals overwritten with blanks, length and lines kept.
mask_comments_and_strings(src) ==
    LET h == Hidden(src)
    IN  [i \in 1..Len(src) |->
            IF i \in h.taken \/ (i \in h.hide /\ src[i] # LF) THEN Blank ELSE src[i]]

-----------------------------------------------------------------------------
(* Lines, words and brackets *)

\* The lines as pairs [off, end]: the symbols off .. end - 1.
Lines(code) ==
    LET ends == InOrder({i \in 1..Len(code) : code[i] = LF} \cup {Len(code) + 1})
    IN  [k \in 1..Len(ends) |->
            [off |-> IF k = 1 THEN 1 ELSE ends[k - 1] + 1, end |-> ends[k]]]

\* The first position of the line from p on that is no blank, or its end.
ltrim(code, l, p) == LET q == {i \in p..(l.end - 1) : code[i] # Blank}
                     IN  IF q = {} THEN l.end ELSE Least(q)
At(code, l, p) == IF p < l.end THEN code[p] ELSE LF
IsIdent(c) == c \in Idents

\* The position just past the bracket that closes the one at `from`, before
\* `end`; NoPos when there is none.
match_brace(code, from, end, open, close) ==
    LET depth(i) == Cardinality({j \in from..i : code[j] = open})
                      - Cardinality({j \in from..i : code[j] = close})
    IN  FirstIn({i + 1 : i \in {i \in from..(end - 1) : code[i] = close /\ depth(i) = 0}})

Sym(kind, name, start, end) == [kind |-> kind, name |-> name, start |-> start, end |-> end]
Word(kind, code, p) == Sym(kind, <<code[p]>>, p, p + 1)
Dep(kind, from, to) == [kind |-> kind, from |-> from, to |-> to]

\* The results of the lines one after the other.
PerLine(code, result) == FlattenSeq([k \in 1..Len(Lines(code)) |-> result[Lines(code)[k]]])
LinesOf(code) == ToSet(Lines(code))

-----------------------------------------------------------------------------
(* C and C++ *)

\* An include: the name between its quotes or angles.
CppInclude(src, l) ==
    LET t == ltrim(src, l, l.off)
        p == ltrim(src, l, t + 1)
        close == IF At(src, l, p) = "<" THEN ">" ELSE "dq"
        e == FirstIn({i \in (p + 1)..(l.end - 1) : src[i] = close})
    IN  IF At(src, l, t) = "#include" /\ At(src, l, p) \in {"<", "dq"} /\ e # NoPos
        THEN <<Dep("include", 0, SubSeq(src, p + 1, e - 1))>> ELSE << >>

\* A call candidate: an identifier, no keyword, with "(" right behind it.
Callable(code, l, i, keywords) ==
    code[i] = "(" /\ i > l.off /\ IsIdent(code[i - 1]) /\ code[i - 1] \notin keywords

\* The start of the name that ends before i, taken back over its qualifiers.
NameStart(code, l, i) ==
    LET back[q \in 1..i] == IF q > 1 /\ code[q - 1] = "::"
                            THEN IF q - 1 > l.off /\ IsIdent(code[q - 2]) THEN back[q - 2]
                                 ELSE back[q - 1]
                            ELSE q
    IN  back[i - 1]

\* The definition the line starts, as a sequence of at most one: the first
\* candidate whose parenthesis closes on the line with "{" before any ";"
\* behind it, and whose "{" closes somewhere.
try_cpp_def(code, l) ==
    LET close(i) == match_brace(code, i, l.end, "(", ")")
        stop(i)  == FirstIn({k \in close(i)..(l.end - 1) : code[k] \in {"{", ";"}})
        good == {i \in l.off..(l.end - 1) :
                    /\ Callable(code, l, i, CKeywords) /\ close(i) # NoPos
                    /\ stop(i) # NoPos /\ code[stop(i)] = "{"
                    /\ match_brace(code, stop(i), Len(code) + 1, "{", "}") # NoPos}
        first == At(code, l, ltrim(code, l, l.off))
    IN  IF first \in {LF, "{", "}"} \/ good = {} THEN << >>
        ELSE LET i == Least(good)
                 ns == NameStart(code, l, i)
             IN  <<[name |-> SubSeq(code, ns, i - 1), name_off |-> ns, start |-> l.off,
                    open |-> stop(i),
                    end  |-> match_brace(code, stop(i), Len(code) + 1, "{", "}")]>>

TypeWords == {"struct", "class", "enum", "union"}
Directives == {"#include", "#define", "#if"}

\* What the line declares besides functions: a macro, a type or a namespace.
CppExtra(code, l) ==
    LET t  == ltrim(code, l, l.off)
        w  == IF At(code, l, t) = "typedef" THEN ltrim(code, l, t + 1) ELSE t
        n1 == ltrim(code, l, w + 1)
        n  == IF At(code, l, w) = "enum" /\ At(code, l, n1) = "class"
              THEN ltrim(code, l, n1 + 1) ELSE n1
        m  == ltrim(code, l, t + 1)
    IN  IF At(code, l, t) \in Directives
        THEN IF code[t] = "#define" /\ IsIdent(At(code, l, m)) THEN <<Word("macro", code, m)>>
             ELSE << >>
        ELSE IF At(code, l, w) \in TypeWords
        THEN IF IsIdent(At(code, l, n)) THEN <<Word(code[w], code, n)>> ELSE << >>
        ELSE IF At(code, l, t) = "namespace" /\ IsIdent(At(code, l, m))
        THEN <<Word("namespace", code, m)>> ELSE << >>

\* Lines of those kinds are not looked at for a function.
CppDefs(code, l) ==
    LET t == ltrim(code, l, l.off)
        w == IF At(code, l, t) = "typedef" THEN ltrim(code, l, t + 1) ELSE t
    IN  IF At(code, l, t) \in Directives \cup {"namespace"} \/ At(code, l, w) \in TypeWords
        THEN << >> ELSE try_cpp_def(code, l)

\* A mutant: a body has no end.
inside_def_Last(defs, p) == FirstIn({i \in 1..Len(defs) : p > defs[i].open})

\* The first definition whose body holds the position, or 0.
inside_def(defs, p) == FirstIn({i \in 1..Len(defs) : p > defs[i].open /\ p < defs[i].end})

\* [qualifier] TYPE NAME before "=", ";" or "[" outside every body.  The name is
\* cut from where the type ends, the blanks before it included.
CppGlobal(code, defs, l) ==
    LET t  == ltrim(code, l, l.off)
        ty == IF At(code, l, t) \in {"static", "const", "constexpr", "extern", "volatile"}
              THEN ltrim(code, l, t + 1) ELSE t
        n  == ltrim(code, l, ty + 1)
        p  == ltrim(code, l, n + 1)
    IN  IF /\ inside_def(defs, l.off) = 0
           /\ IsIdent(At(code, l, t)) /\ IsIdent(At(code, l, ty)) /\ IsIdent(At(code, l, n))
           /\ At(code, l, p) \in {"=", ";", "["}
        THEN <<Sym("global", SubSeq(code, ty + 1, n), ty + 1, n + 1)>> ELSE << >>

\* The calls of a line, each with the definition it stands in; the names of the
\* definitions themselves are no calls.
Calls(code, defs, keywords, l) ==
    LET at == InOrder({i \in l.off..(l.end - 1) :
                  /\ Callable(code, l, i, keywords)
                  /\ \A d \in 1..Len(defs) : defs[d].name_off # i - 1})
    IN  [k \in 1..Len(at) |->
            Dep("call", inside_def(defs, at[k] - 1), <<code[at[k] - 1]>>)]

Functions(defs) ==
    [i \in 1..Len(defs) |-> Sym("function", defs[i].name, defs[i].start, defs[i].end)]

extract_cpp(src) ==
    LET code == mask_comments_and_strings(src)
        defs == PerLine(code, [l \in LinesOf(code) |-> CppDefs(code, l)])
    IN  [syms |-> Functions(defs) \o PerLine(code, [l \in LinesOf(code) |-> CppExtra(code, l)])
                    \o PerLine(code, [l \in LinesOf(code) |-> CppGlobal(code, defs, l)]),
         deps |-> PerLine(src, [l \in LinesOf(src) |-> CppInclude(src, l)])
                    \o PerLine(code, [l \in LinesOf(code) |-> Calls(code, defs, CKeywords, l)])]

-----------------------------------------------------------------------------
(* Go *)

GoPackage(src, l) ==
    LET t == ltrim(src, l, l.off)
        n == ltrim(src, l, t + 1)
    IN  IF At(src, l, t) = "package" /\ IsIdent(At(src, l, n))
        THEN <<Word("package", src, n)>> ELSE << >>

\* The quoted name of a line, from p on.
push_imp(src, l, p) ==
    LET q == FirstIn({i \in p..(l.end - 1) : src[i] = "dq"})
        e == FirstIn({i \in (q + 1)..(l.end - 1) : src[i] = "dq"})
    IN  IF q # NoPos /\ e # NoPos THEN <<Dep("include", 0, SubSeq(src, q + 1, e - 1))>> ELSE << >>

\* One import, or the lines of a list of them up to its ")".
GoImports(src, k) ==
    LET ls == Lines(src)
        l  == ls[k]
        t  == ltrim(src, l, l.off)
        p  == ltrim(src, l, t + 1)
        stop == {j \in (k + 1)..Len(ls) : At(src, ls[j], ltrim(src, ls[j], ls[j].off)) = ")"}
        last == IF stop = {} THEN Len(ls) ELSE Least(stop) - 1
    IN  IF At(src, l, t) # "import" THEN << >>
        ELSE IF At(src, l, p) # "(" THEN push_imp(src, l, p)
        ELSE FlattenSeq([j \in 1..(last - k) |-> push_imp(src, ls[k + j], ls[k + j].off)])

\* A func line: receiver, name, type parameters, parameters and "{".
GoDefs(code, l) ==
    LET t    == ltrim(code, l, l.off)
        r    == ltrim(code, l, t + 1)
        recv == At(code, l, r) = "("
        rend == match_brace(code, r, l.end, "(", ")")
        n    == IF recv THEN ltrim(code, l, rend) ELSE r
        s0   == ltrim(code, l, n + 1)
        send == match_brace(code, s0, l.end, "[", "]")
        sig  == IF At(code, l, s0) = "[" /\ send # NoPos THEN ltrim(code, l, send) ELSE s0
        args == match_brace(code, sig, l.end, "(", ")")
        open == FirstIn({i \in args..(l.end - 1) : code[i] = "{"})
        end  == match_brace(code, open, Len(code) + 1, "{", "}")
    IN  IF /\ At(code, l, t) = "func" /\ At(code, l, t + 1) \in {Blank, LF}
           /\ recv => rend # NoPos
           /\ IsIdent(At(code, l, n)) /\ At(code, l, sig) = "("
           /\ args # NoPos /\ open # NoPos /\ end # NoPos
        THEN <<[name |-> <<code[n]>>, name_off |-> n, start |-> l.off, open |-> open, end |-> end,
                method |-> LET b == {i \in l.off..(n - 1) : code[i] # Blank}
                           IN  b # {} /\ code[Greatest(b)] = ")"]>>
        ELSE << >>

GoExtra(code, l) ==
    LET t == ltrim(code, l, l.off)
        n == ltrim(code, l, t + 1)
        kind == IF At(code, l, t) = "type" THEN "type"
                ELSE IF At(code, l, t) = "const" THEN "const" ELSE "global"
    IN  IF At(code, l, t) \in {"type", "var", "const"} /\ IsIdent(At(code, l, n))
        THEN <<Word(kind, code, n)>> ELSE << >>

extract_go(src) ==
    LET code == mask_comments_and_strings(src)
        defs == PerLine(code, [l \in LinesOf(code) |-> GoDefs(code, l)])
        pkg  == PerLine(src, [l \in LinesOf(src) |-> GoPackage(src, l)])
        \* The package comes first, so a definition's number is offset by it.
        off(d) == IF d.from = 0 THEN d ELSE [d EXCEPT !.from = @ + Len(pkg)]
        calls == PerLine(code, [l \in LinesOf(code) |-> Calls(code, defs, GoKeywords, l)])
    IN  [syms |-> pkg \o [i \in 1..Len(defs) |->
                            Sym(IF defs[i].method THEN "method" ELSE "function",
                                defs[i].name, defs[i].start, defs[i].end)]
                    \o PerLine(code, [l \in LinesOf(code) |-> GoExtra(code, l)]),
         deps |-> FlattenSeq([k \in 1..Len(Lines(src)) |-> GoImports(src, k)])
                    \o [i \in 1..Len(calls) |-> off(calls[i])]]

extract_lang(lang, src) == IF lang = "go" THEN extract_go(src) ELSE extract_cpp(src)
=============================================================================
