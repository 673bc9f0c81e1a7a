------------------------------- MODULE Arena -------------------------------
(***************************************************************************)
(* core::Arena (src/core/arena.cpp): bump allocation in a list of blocks   *)
(* that reset keeps for reuse.                                             *)
(*                                                                         *)
(* An address is a block and an offset into its aligned data; the numbers  *)
(* are small stand-ins for the code's constants.  Sizes are far below the  *)
(* range of size_t, so off + n does not wrap.                              *)
(***************************************************************************)
EXTENDS Integers, Sequences, FiniteSets

CONSTANTS
    FirstChunk,              \* first_chunk of the constructor
    DefaultChunk, MaxChunk,  \* kDefaultChunk, kMaxChunk
    MinAlign, MaxAlign,      \* alignof(max_align_t), kAlign
    Sizes, Aligns,           \* what callers ask for
    MaxBlocks, MaxAllocs, MaxNextCap   \* bounds

ArenaAssumption ==
    /\ FirstChunk \in Nat /\ DefaultChunk \in Nat /\ MaxChunk \in Nat
    /\ MinAlign \in Nat \ {0} /\ MaxAlign \in Nat /\ MinAlign <= MaxAlign
    /\ Sizes \subseteq Nat /\ Aligns \subseteq Nat

VARIABLES
    blocks,    \* the blocks, oldest first: [cap, off]
    cur,       \* cur_: the block being filled, 0 for none
    next_cap,  \* next_cap_
    used,      \* used_
    live       \* the allocations callers may still use: [block, at, n, align]

vars == <<blocks, cur, next_cap, used, live>>

Init == blocks = << >> /\ cur = 0 /\ next_cap = FirstChunk /\ used = 0 /\ live = {}

align_up(v, a) == ((v + a - 1) \div a) * a
Clamp(a) == IF a < MinAlign THEN MinAlign ELSE IF a > MaxAlign THEN MaxAlign ELSE a
AtLeastOne(n) == IF n = 0 THEN 1 ELSE n

\* The blocks from the cursor on to older ones in which the request fits.
Fitting(n, a) == {b \in 1..cur : align_up(blocks[b].off, a) + n <= blocks[b].cap}

\* A mutant: the padding is not counted as taken.
Taken_NoPad(b, n, a) == blocks[b].off + n

Taken(b, n, a) == align_up(blocks[b].off, a) + n

\* The caller gets n bytes of block b at offset at.
Placed(b, at, n, a) == live' = live \cup {[block |-> b, at |-> at, n |-> n, align |-> a]}

\* alloc finds room: the newest fitting block that is not newer than the cursor.
Bump(n, a) ==
    /\ \E b \in Fitting(n, a) :
       /\ \A c \in Fitting(n, a) : c <= b
       /\ blocks' = [blocks EXCEPT ![b].off = Taken(b, n, a)]
       /\ used' = used + Taken(b, n, a) - blocks[b].off
       /\ cur' = b
       /\ Placed(b, align_up(blocks[b].off, a), n, a)
    /\ UNCHANGED next_cap

\* grow doubles the next capacity up to kMaxChunk, also if malloc then fails.
Doubled == IF next_cap >= MaxChunk THEN next_cap + MaxChunk ELSE next_cap * 2

Grow(n, a) ==
    /\ Fitting(n, a) = {} /\ Len(blocks) < MaxBlocks /\ next_cap < MaxNextCap
    /\ next_cap' = Doubled
    /\ blocks' = Append(blocks, [cap |-> IF next_cap < n THEN n ELSE next_cap, off |-> n])
    /\ cur' = Len(blocks) + 1 /\ used' = used + n
    /\ Placed(Len(blocks) + 1, 0, n, a)

GrowFails(n, a) ==
    /\ Fitting(n, a) = {} /\ next_cap < MaxNextCap
    /\ next_cap' = Doubled
    /\ UNCHANGED <<blocks, cur, used, live>>

Alloc(n0, a0) ==
    LET n == AtLeastOne(n0)
        a == Clamp(a0)
    IN  Cardinality(live) < MaxAllocs /\ (Bump(n, a) \/ Grow(n, a) \/ GrowFails(n, a))

\* The allocations are over, the blocks stay; filling starts at the newest.
reset ==
    /\ blocks' = [b \in DOMAIN blocks |-> [blocks[b] EXCEPT !.off = 0]]
    /\ cur' = Len(blocks) /\ used' = 0 /\ live' = {} /\ UNCHANGED next_cap

Emptied == blocks' = << >> /\ cur' = 0 /\ used' = 0 /\ live' = {}

clear == Emptied /\ next_cap' = DefaultChunk

\* The arena is moved from: by the move constructor, or by an assignment, which
\* leaves next_cap_ as it is.  The blocks live on in the other arena.
MovedFrom(assigned) ==
    Emptied /\ next_cap' = IF assigned THEN next_cap ELSE DefaultChunk

Next ==
    \/ \E n \in Sizes, a \in Aligns : Alloc(n, a)
    \/ reset \/ clear
    \/ \E assigned \in BOOLEAN : MovedFrom(assigned)

Spec == Init /\ [][Next]_vars

-----------------------------------------------------------------------------
\* The bytes the blocks have handed out, padding included.
HandedOut == UNION {{b} \X (1 .. blocks[b].off) : b \in DOMAIN blocks}

\* Allocations between two resets never overlap, lie inside their block and are
\* aligned, whatever the sizes, the alignments and the resets before, and
\* bytes_used is what the blocks have handed out.
AllocsAreDisjoint ==
    /\ \A x \in live : /\ x.at % x.align = 0
                       /\ x.at + x.n <= blocks[x.block].off /\ blocks[x.block].off <= blocks[x.block].cap
    /\ \A x, y \in live : x # y /\ x.block = y.block => x.at + x.n <= y.at \/ y.at + y.n <= x.at
    /\ used = Cardinality(HandedOut)
=============================================================================
