----------------------------- MODULE GraphCache -----------------------------
(***************************************************************************)
(* What the symbol index promises (graph/index.h): it is a cache from file *)
(* to what was found in the file when it was last parsed.  A parse gives   *)
(* one file its present content and may drop one file to make room; every  *)
(* other file keeps what it had.                                           *)
(***************************************************************************)
EXTENDS Functions

VARIABLES disk,     \* the files as they are: [there, text, mtime]
          parsed    \* file -> the text it was parsed from

Init == parsed = << >>

Edit == parsed' = parsed

Parse(f) ==
    LET now == [g \in DOMAIN parsed \cup {f} |-> IF g = f THEN disk[f].text ELSE parsed[g]]
    IN  /\ disk[f].there
        /\ \/ parsed' = now
           \/ \E g \in DOMAIN now : parsed' = Restrict(now, DOMAIN now \ {g})
        /\ disk' = disk

Next == Edit \/ \E f \in DOMAIN disk : Parse(f)

Spec == Init /\ [][Next]_<<disk, parsed>>
=============================================================================
