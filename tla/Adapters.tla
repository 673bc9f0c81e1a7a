----------------------------- MODULE Adapters ------------------------------
(***************************************************************************)
(* How the three provider adapters turn the frames of a stream into the    *)
(* normalised events of provider.h: parse_frame, reset_stream and the      *)
(* finish-reason tables of src/provider/anthropic.cpp, openai.cpp and      *)
(* gemini.cpp.  openai_compat is the openai adapter.                       *)
(*                                                                         *)
(* A frame is the JSON object the adapter finds in the payload: a record   *)
(* whose absent members have the value the adapter's reader defaults to.   *)
(* Text, names and arguments are sequences of fragments.  BadFrame is a    *)
(* payload that is not JSON.                                               *)
(***************************************************************************)
EXTENDS Integers, Sequences, SequencesExt, FiniteSets

BadFrame == [bad |-> TRUE]
NoUsage  == [input |-> -1, output |-> -1]
ZeroUsage == [input |-> 0, output |-> 0]

Text(t)           == [kind |-> "text", text |-> t]
Reasoning(t)      == [kind |-> "reasoning", text |-> t]
CallDelta(c, f)   == [kind |-> "delta", id |-> c.id, name |-> c.name, frag |-> f]
CallDone(c)       == [kind |-> "call", id |-> c.id, name |-> c.name, args |-> c.args]
Start             == [kind |-> "start"]
Done(f, u)        == [kind |-> "done", finish |-> f, usage |-> u]
ProviderError(e)  == [kind |-> "error", ec |-> e]

NewCall == [id |-> "", name |-> << >>, args |-> << >>]

\* reset_stream
reset_stream ==
    [pending |-> << >>, finish |-> "unknown", done |-> FALSE, seq |-> 0,
     usage |-> ZeroUsage]

\* The pending tool calls, by index; reading an index creates its entry.
Entry(pending, i) == IF i \in DOMAIN pending THEN pending[i] ELSE NewCall
Set(pending, i, c) == [j \in DOMAIN pending \cup {i} |-> IF j = i THEN c ELSE pending[j]]
Without(pending, i) == [j \in DOMAIN pending \ {i} |-> pending[j]]

Result(p, evs) == [p |-> p, out |-> evs]

-----------------------------------------------------------------------------
(* Anthropic.                                                              *)

map_stop_reason(r) ==
    CASE r \in {"end_turn", "stop_sequence"} -> "end_turn"
      [] r = "max_tokens" -> "max_tokens"
      [] r = "tool_use" -> "tool_use"
      [] OTHER -> "unknown"

\* accumulate_usage: a count that is present replaces the one held.
Rollup(held, u) ==
    [input  |-> IF u.input < 0 THEN held.input ELSE u.input,
     output |-> IF u.output < 0 THEN held.output ELSE u.output]

AnthropicError(type) ==
    CASE type \in {"authentication_error", "permission_error"} -> "e_auth"
      [] type = "rate_limit_error" -> "e_rate_limit"
      [] OTHER -> "e_provider_err"

AnthropicDelta(p, f) ==
    LET c == Entry(p.pending, f.index)
        d == [c EXCEPT !.args = @ \o f.text]
    IN  CASE f.delta = "text_delta"     -> Result(p, <<Text(f.text)>>)
          [] f.delta = "thinking_delta" -> Result(p, <<Reasoning(f.text)>>)
          [] f.delta = "input_json_delta" ->
               Result([p EXCEPT !.pending = Set(@, f.index, d)],
                      <<CallDelta(c, f.text)>>)
          [] OTHER -> Result(p, << >>)

\* content_block_stop: the tool call of that block, if it is one.
AnthropicStop(p, f) ==
    IF f.index \in DOMAIN p.pending
      THEN Result([p EXCEPT !.pending = Without(@, f.index)],
                  <<CallDone(p.pending[f.index])>>)
      ELSE Result(p, << >>)

\* The frame's SSE event name selects the handler.
AnthropicFrame(p, event, f) ==
    CASE event = "ping" -> Result(p, << >>)
      [] event = "message_start" ->
           Result([p EXCEPT !.usage = Rollup(@, f.usage)], <<Start>>)
      [] event = "content_block_start" ->
           Result(IF f.block # "tool_use" THEN p
                  ELSE [p EXCEPT !.pending = Set(@, f.index,
                          [id |-> f.id, name |-> f.name, args |-> << >>])], << >>)
      [] event = "content_block_delta" -> AnthropicDelta(p, f)
      [] event = "content_block_stop" -> AnthropicStop(p, f)
      [] event = "message_delta" ->
           Result([p EXCEPT !.finish = IF f.stop = "" THEN @ ELSE map_stop_reason(f.stop),
                            !.usage = Rollup(@, f.usage)], << >>)
      [] event = "message_stop" -> Result(p, <<Done(p.finish, p.usage)>>)
      [] event = "error" -> Result(p, <<ProviderError(AnthropicError(f.stop))>>)
      [] OTHER -> Result(p, <<ProviderError("e_proto_parse")>>)

-----------------------------------------------------------------------------
(* OpenAI.                                                                 *)

OpenAiFinish(r) ==
    CASE r = "stop" -> "end_turn"
      [] r = "length" -> "max_tokens"
      [] r \in {"tool_calls", "function_call"} -> "tool_use"
      [] r = "content_filter" -> "error"
      [] OTHER -> "unknown"

OpenAiError(type) ==
    CASE type \in {"authentication_error", "invalid_api_key", "insufficient_quota"} -> "e_auth"
      [] type = "rate_limit_error" -> "e_rate_limit"
      [] OTHER -> "e_provider_err"

\* One element of delta.tool_calls: the first id stays, names and arguments
\* are appended.
OpenAiCall(r, tc) ==
    LET c == Entry(r.p.pending, tc.index)
        d == [c EXCEPT !.id = IF tc.id # "" /\ @ = "" THEN tc.id ELSE @,
                       !.name = @ \o tc.name,
                       !.args = @ \o tc.args]
    IN  Result([r.p EXCEPT !.pending = Set(@, tc.index, d)],
               IF tc.args = << >> THEN r.out ELSE Append(r.out, CallDelta(d, tc.args)))

OpenAiChoice(r, c) ==
    LET text  == IF c.content = << >> THEN r.out ELSE Append(r.out, Text(c.content))
        calls == FoldLeft(OpenAiCall, Result(r.p, text), c.calls)
    IN  IF c.finish # "" /\ calls.p.finish = "unknown"
          THEN [calls EXCEPT !.p.finish = OpenAiFinish(c.finish)]
          ELSE calls

\* Once a finish reason is known, every pending call and the message.
OpenAiDone(r) ==
    LET idx == SetToSortSeq(DOMAIN r.p.pending, <)
    IN  IF r.p.finish # "unknown" /\ ~r.p.done
          THEN Result([r.p EXCEPT !.done = TRUE],
                 r.out \o [i \in 1..Len(idx) |-> CallDone(r.p.pending[idx[i]])]
                       \o <<Done(r.p.finish, r.p.usage)>>)
          ELSE r

\* accumulate_usage reads an absent count as 0.
Counts(u) == [input |-> IF u.input < 0 THEN 0 ELSE u.input,
              output |-> IF u.output < 0 THEN 0 ELSE u.output]

OpenAiFrame(p, f) ==
    LET seen == FoldLeft(OpenAiChoice, Result(p, << >>), f.choices)
        used == IF f.usage = NoUsage THEN seen
                ELSE [seen EXCEPT !.p.usage = Counts(f.usage)]
    IN  IF f.error # "" THEN Result(p, <<ProviderError(OpenAiError(f.error))>>)
        ELSE OpenAiDone(used)

-----------------------------------------------------------------------------
(* Gemini.                                                                 *)

GeminiFinish(r) ==
    CASE r = "STOP" -> "end_turn"
      [] r = "MAX_TOKENS" -> "max_tokens"
      [] r \in {"SAFETY", "RECITATION", "BLOCKLIST"} -> "error"
      [] OTHER -> "unknown"

\* The ids "fc0", "fc1", ... that stand in for the ones the API lacks.
FcId(n) == <<"fc0", "fc1", "fc2", "fc3">>[n + 1]

GeminiPart(r, part) ==
    CASE part.fn # << >> ->
           Result([r.p EXCEPT !.seq = @ + 1],
                  Append(r.out, CallDone([id |-> FcId(r.p.seq), name |-> part.fn,
                                          args |-> part.text])))
      [] part.fn = << >> /\ part.text = << >> -> r
      [] part.fn = << >> /\ part.text # << >> ->
           [r EXCEPT !.out = Append(@, IF part.thought THEN Reasoning(part.text)
                                       ELSE Text(part.text))]

GeminiFrame(p, f) ==
    LET seen == FoldLeft(GeminiPart, Result(p, << >>), f.parts)
        used == IF f.usage = NoUsage THEN seen
                ELSE [seen EXCEPT !.p.usage = Counts(f.usage)]
    IN  IF f.finish # "" /\ ~p.done
          THEN Result([used.p EXCEPT !.done = TRUE],
                      Append(used.out, Done(GeminiFinish(f.finish), used.p.usage)))
          ELSE used

-----------------------------------------------------------------------------

StreamKind(adapter) == IF adapter = "gemini" THEN "jsonl" ELSE "sse"

parse_frame(adapter, p, event, f) ==
    IF f = BadFrame THEN Result(p, <<ProviderError("e_proto_parse")>>)
    ELSE CASE adapter = "anthropic" -> AnthropicFrame(p, event, f)
           [] adapter = "openai"    -> OpenAiFrame(p, f)
           [] adapter = "gemini"    -> GeminiFrame(p, f)

\* The sink of one_round: what a round keeps of the events of its stream.
NewRound == [text |-> << >>, calls |-> << >>, usage |-> ZeroUsage,
             finish |-> "unknown", err |-> "ok"]

Sink(r, ev) ==
    CASE ev.kind = "text"  -> [r EXCEPT !.text = @ \o ev.text]
      [] ev.kind = "call"  -> [r EXCEPT !.calls = Append(@,
                                 [id |-> ev.id, name |-> ev.name, args |-> ev.args])]
      [] ev.kind = "done"  -> [r EXCEPT !.usage = ev.usage, !.finish = ev.finish]
      [] ev.kind = "error" -> [r EXCEPT !.err = ev.ec]
      [] OTHER             -> r

=============================================================================
