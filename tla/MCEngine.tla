------------------------------ MODULE MCEngine ------------------------------
(***************************************************************************)
(* Instances of Engine for TLC: c1 has a template that c2 lacks, and the   *)
(* config file of c2 has an agent that c2 does not name.                   *)
(***************************************************************************)
EXTENDS Engine, TLC

CONSTANTS c1, c2, i1, i2, default, other

TemplatesOf == (c1 :> {i1, i2}) @@ (c2 :> {i1})
FileAgentsOf == (c1 :> << >>) @@ (c2 :> <<other>>)
HostAgentOf == (c1 :> default) @@ (c2 :> default)

\* The cancelling threads are interchangeable.
SymmetricThreads == Permutations(Cancellers)
=============================================================================
