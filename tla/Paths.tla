------------------------------- MODULE Paths -------------------------------
(***************************************************************************)
(* Paths, patterns and the read-only file tools (tools/exec/util.cpp,      *)
(* tools/exec/read_only.cpp).                                              *)
(*                                                                         *)
(* A requested path is a sequence of segments, "" for what lies between    *)
(* two slashes; a path that begins with "" is absolute.  Names and         *)
(* patterns are sequences of symbols with the pattern's "*" and "?"; the   *)
(* four characters ".git" are one symbol.  A workspace is a set of entries *)
(* [path |-> segments, dir |-> BOOLEAN]; the contents of a file is a       *)
(* sequence of bytes.                                                      *)
(***************************************************************************)
EXTENDS Integers, Sequences, SequencesExt, FiniteSets

CONSTANTS WordBits,    \* the width of size_t, small so that a range can wrap
          Spelling(_)  \* the symbols of a segment

\* The answer for a path that is refused: no file is named "..".
Refused == <<"..">>

-----------------------------------------------------------------------------
(* resolve_in_sandbox *)

\* One segment of the path: "" and "." are skipped, ".." takes the last name
\* back or marks the path as escaped.
Segment(st, s) ==
    IF s \in {"", "."} THEN st
    ELSE IF s # ".." THEN [st EXCEPT !.at = Append(@, s)]
    ELSE IF st.at = << >> THEN [st EXCEPT !.escaped = TRUE]
    ELSE [st EXCEPT !.at = Front(@)]

\* The names below the workspace, or Refused.
resolve_in_sandbox(path) ==
    LET st == FoldLeft(Segment, [at |-> << >>, escaped |-> FALSE], path)
    IN  IF path \in {<< >>, <<"">>} \/ path[1] = "" \/ st.escaped THEN Refused ELSE st.at

\* What the path means: walking it never stands above the workspace.
Depth(path, n) ==
    LET p == SubSeq(path, 1, n)
    IN  Len(SelectSeq(p, LAMBDA s : s \notin {"", ".", ".."}))
          - Len(SelectSeq(p, LAMBDA s : s = ".."))
StaysInside(path) == \A n \in 0..Len(path) : Depth(path, n) >= 0

-----------------------------------------------------------------------------
(* glob_match *)

\* A mutant: a star is never given more than it took first.
GlobStep_NoRetry(p, s, st) ==
    IF st.pi <= Len(p) /\ (p[st.pi] = "?" \/ p[st.pi] = s[st.si])
    THEN [st EXCEPT !.pi = @ + 1, !.si = @ + 1]
    ELSE IF st.pi <= Len(p) /\ p[st.pi] = "*"
    THEN [st EXCEPT !.starp = st.pi, !.stars = st.si, !.pi = @ + 1]
    ELSE [st EXCEPT !.fail = TRUE]

\* One turn of the loop: a symbol that matches, a star to come back to, one
\* more symbol for the last star, or no match.
GlobStep(p, s, st) ==
    IF st.pi <= Len(p) /\ (p[st.pi] = "?" \/ p[st.pi] = s[st.si])
    THEN [st EXCEPT !.pi = @ + 1, !.si = @ + 1]
    ELSE IF st.pi <= Len(p) /\ p[st.pi] = "*"
    THEN [st EXCEPT !.starp = st.pi, !.stars = st.si, !.pi = @ + 1]
    ELSE IF st.starp # 0
    THEN [st EXCEPT !.pi = st.starp + 1, !.stars = @ + 1, !.si = st.stars + 1]
    ELSE [st EXCEPT !.fail = TRUE]

\* The loop runs while symbols are left; at most every star starts over at
\* every symbol.
GlobEnd(p, s) ==
    LET run[n \in Nat] ==
          IF n = 0 THEN [pi |-> 1, si |-> 1, starp |-> 0, stars |-> 0, fail |-> FALSE]
          ELSE LET st == run[n - 1]
               IN  IF st.fail \/ st.si > Len(s) THEN st ELSE GlobStep(p, s, st)
    IN  run[(Len(p) + 1) * (Len(s) + 1)]

glob_match(p, s) ==
    LET st == GlobEnd(p, s)
    IN  ~st.fail /\ \A i \in st.pi..Len(p) : p[i] = "*"

\* What a pattern means, by its first symbol.
Matches(p, s) ==
    LET m[i \in 1..(Len(p) + 1), j \in 1..(Len(s) + 1)] ==
          IF i > Len(p) THEN j > Len(s)
          ELSE IF p[i] = "*" THEN \E k \in j..(Len(s) + 1) : m[i + 1, k]
          ELSE j <= Len(s) /\ p[i] \in {"?", s[j]} /\ m[i + 1, j + 1]
    IN  m[1, 1]

-----------------------------------------------------------------------------
(* file.read *)

Wrap(n) == n % (2 ^ WordBits)
Least(a, b) == IF a < b THEN a ELSE b

\* The bytes file.read returns for a start, an exclusive end and a cap, the
\* last two negative when they are not given.  hi - lo is computed in size_t,
\* and substr takes what there is.
FileRead(text, start, end, max_bytes) ==
    LET lo   == IF start < 0 THEN 0 ELSE Least(start, Len(text))
        hi0  == IF end >= 0 /\ end < Len(text) THEN end ELSE Len(text)
        hi   == IF max_bytes >= 0 /\ Wrap(hi0 - lo) > max_bytes THEN lo + max_bytes ELSE hi0
    IN  SubSeq(text, lo + 1, Least(Len(text), lo + Wrap(hi - lo)))

-----------------------------------------------------------------------------
(* dir.list and file.search *)

Under(at, e) == IsStrictPrefix(at, e.path)
Flat(path) == FlattenSeq([i \in 1..Len(path) |-> (IF i = 1 THEN << >> ELSE <<"/">>) \o Spelling(path[i])])
Name(path) == Spelling(Last(path))

\* Both tools refuse a path outside the workspace and one that is no directory.
Answers(ws, at, found) ==
    LET ok == at # Refused /\ (at = << >> \/ \E e \in ws : e.path = at /\ e.dir)
    IN  [ok |-> ok, entries |-> IF ok THEN found ELSE {}]

\* The entries of a directory, or of the tree below it, whose own name fits
\* the pattern (every name, for the empty one).
DirList(ws, path, recurse, pattern) ==
    LET at == resolve_in_sandbox(path)
    IN  Answers(ws, at, {e \in ws : /\ Under(at, e)
                                    /\ recurse \/ Len(e.path) = Len(at) + 1
                                    /\ pattern = << >> \/ glob_match(pattern, Name(e.path))})

\* A pattern of the .gitignore is tried on the whole relative path and on the
\* name of the file.
Ignored(ignores, rel) ==
    \E ig \in ignores : glob_match(ig, Flat(rel)) \/ glob_match(ig, Name(rel))

Hit(pattern, rel) == glob_match(pattern, Flat(rel)) \/ glob_match(pattern, Name(rel))

\* The files below the path that the pattern fits; anything whose relative path
\* holds ".git", alone or inside a name, is passed over, asked for or not.  gi is the .gitignore found in
\* the search root, read when gitignore is asked for.  Regular expressions and
\* a cancellation on the way are left out.
FileSearch(ws, path, pattern, gitignore, gi) ==
    LET ignores == IF gitignore THEN gi ELSE {}
        at      == resolve_in_sandbox(path)
        rel(e)  == SubSeq(e.path, Len(at) + 1, Len(e.path))
    IN  Answers(ws, at, {e \in ws : /\ Under(at, e) /\ ~e.dir
                                    /\ ".git" \notin ToSet(Flat(rel(e)))
                                    /\ ~Ignored(ignores, rel(e))
                                    /\ Hit(pattern, rel(e))})
=============================================================================
