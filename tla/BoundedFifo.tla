---------------------------- MODULE BoundedFifo ----------------------------
(***************************************************************************)
(* What core::Channel promises its users (the comment at the head of       *)
(* src/core/channel.h): a first-in first-out queue of at most Cap          *)
(* messages, which refuses a push when it is full or closed, goes on       *)
(* delivering what it holds after close, and forgets it after drop.        *)
(***************************************************************************)
EXTENDS Naturals, Sequences

CONSTANTS Msgs, Cap

VARIABLES q, open

Init == q = << >> /\ open = TRUE

Push(m) == open /\ Len(q) < Cap /\ q' = Append(q, m) /\ UNCHANGED open

Pop == q # << >> /\ q' = Tail(q) /\ UNCHANGED open

Close == open' = FALSE /\ UNCHANGED q

Drop == open' = FALSE /\ q' = << >>

Next == (\E m \in Msgs : Push(m)) \/ Pop \/ Close \/ Drop

Spec == Init /\ [][Next]_<<q, open>>

=============================================================================
