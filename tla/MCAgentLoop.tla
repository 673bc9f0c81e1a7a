---------------------------- MODULE MCAgentLoop ----------------------------
(* Instances of AgentLoop for TLC: the tool calls are an edit, a tool that  *)
(* honours the cancellation token, and a name nobody registered.            *)
EXTENDS AgentLoop

KindMixed == [c \in Calls |-> CASE c = "w" -> "write"
                                [] c = "h" -> "host"
                                [] OTHER   -> "unknown"]

=============================================================================
