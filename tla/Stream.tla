------------------------------- MODULE Stream -------------------------------
(***************************************************************************)
(* One round of the agent on the wire: the retry loop of Agent::one_round, *)
(* Agent::stream_call from the response head on, http_drain_body,          *)
(* sse_stream and the adapter's parse_frame (src/agent/loop.cpp,           *)
(* src/net/http1.cpp, src/net/sse.cpp, src/provider); and http_exchange,   *)
(* which collects a body instead of streaming it.                          *)
(*                                                                         *)
(* The server serialises an answer in the adapter's wire format; the       *)
(* network delivers the bytes in pieces of any size and may stop anywhere. *)
(***************************************************************************)
EXTENDS Framing, Adapters

CONSTANTS
    Adapters,   \* a subset of {"anthropic", "openai", "gemini"}
    Answers,    \* answers the model may give
    Responses,  \* how the server may send it: [status, eol, framing, chunk]
    DataSym, EventSym,  \* the line symbols of the i-th frame
    LenSym,     \* Content-Length symbol of a length
    Scratch,    \* size of the read buffer
    MaxRetries, \* RetryBudget::max_retries
    MaxResp     \* max_resp_bytes of http_exchange

VARIABLES
    mode,    \* "stream" or "exchange"
    adapter, \* the session's provider
    answer,  \* what the model answers
    frames,  \* the answer as the frames of the service
    resp,    \* how it is sent on this attempt
    over,    \* the connection has ended
    left,    \* the symbols of the response not yet read
    hp, sp, prov,  \* HttpParser, SseParser, Provider
    rnd,     \* what the sink of one_round has collected
    got,     \* the body http_exchange has collected, and whether it was cut
    pc, ec,
    attempt,
    clean,   \* no earlier attempt of the round delivered a frame (history)
    cancel   \* Agent::cancel_

vars == <<mode, adapter, answer, frames, resp, over, left, hp, sp, prov, rnd, got,
          pc, ec, attempt, clean, cancel>>
asked == <<mode, adapter, answer, frames>>
call  == <<asked, resp, over>>

-----------------------------------------------------------------------------
(* The services (external): an answer as the frames of each wire format.   *)

A == [bad |-> FALSE, index |-> 0, block |-> "", id |-> "", name |-> << >>,
      delta |-> "", text |-> << >>, stop |-> "", usage |-> NoUsage]
O == [bad |-> FALSE, error |-> "", choices |-> << >>, usage |-> NoUsage]
C == [content |-> << >>, calls |-> << >>, finish |-> ""]
Named(event, f) == [event |-> event, json |-> f]

AnthropicCall(i, c) ==
    <<Named("content_block_start", [A EXCEPT !.index = i, !.block = "tool_use",
                                             !.id = c.id, !.name = c.name])>>
    \o [k \in 1..Len(c.args) |->
          Named("content_block_delta", [A EXCEPT !.index = i,
             !.delta = "input_json_delta", !.text = <<c.args[k]>>])]
    \o <<Named("content_block_stop", [A EXCEPT !.index = i])>>

\* A frame the service may send in the middle of a stream: none, a keep-alive
\* or an error, which for gemini is no JSON line.
Extra(d, x) ==
    CASE x = "none" -> << >>
      [] x = "ping" -> IF d = "anthropic" THEN <<Named("ping", A)>> ELSE << >>
      [] x = "error" ->
           CASE d = "anthropic" -> <<Named("error", [A EXCEPT !.stop = "rate_limit_error"])>>
             [] d = "openai" -> <<Named("", [O EXCEPT !.error = "rate_limit_error"])>>
             [] OTHER -> <<Named("", BadFrame)>>

AnthropicFrames(a) ==
    <<Named("message_start", [A EXCEPT !.usage = [input |-> a.usage.input, output |-> 0]])>>
    \o [k \in 1..Len(a.text) |->
          Named("content_block_delta", [A EXCEPT !.delta = "text_delta",
                                                 !.text = <<a.text[k]>>])]
    \o FlattenSeq([i \in 1..Len(a.calls) |-> AnthropicCall(i, a.calls[i])])
    \o Extra("anthropic", a.extra)
    \o <<Named("message_delta", [A EXCEPT
           !.stop = IF a.calls = << >> THEN "end_turn" ELSE "tool_use",
           !.usage = [input |-> -1, output |-> a.usage.output]]),
         Named("message_stop", A)>>

\* Asked for with include_usage, the token counts come with the finish reason or
\* in a frame after it, and a line that is not JSON may end the stream.
Tails(d) == IF d = "openai" THEN {"with", "after", "sentinel"} ELSE {"with"}

OpenAiFrames(a) ==
    [k \in 1..Len(a.text) |->
       Named("", [O EXCEPT !.choices = <<[C EXCEPT !.content = <<a.text[k]>>]>>])]
    \o FlattenSeq([i \in 1..Len(a.calls) |->
         [k \in 1..Len(a.calls[i].args) |->
            LET tc == [index |-> i, id |-> IF k = 1 THEN a.calls[i].id ELSE "",
                       name |-> IF k = 1 THEN a.calls[i].name ELSE << >>,
                       args |-> <<a.calls[i].args[k]>>]
            IN  Named("", [O EXCEPT !.choices = <<[C EXCEPT !.calls = <<tc>>]>>])]])
    \o Extra("openai", a.extra)
    \o <<Named("", [O EXCEPT
           !.choices = <<[C EXCEPT !.finish =
                            IF a.calls = << >> THEN "stop" ELSE "tool_calls"]>>,
           !.usage = IF a.tail = "with" THEN a.usage ELSE NoUsage]),
         Named("", [O EXCEPT !.usage = IF a.tail = "with" THEN NoUsage ELSE a.usage])>>
    \o (IF a.tail = "sentinel" THEN <<Named("", BadFrame)>> ELSE << >>)

GeminiFrames(a) ==
    [k \in 1..Len(a.text) |->
       Named("", [parts |-> <<[fn |-> << >>, text |-> <<a.text[k]>>, thought |-> FALSE]>>,
                  finish |-> "", usage |-> NoUsage])]
    \o Extra("gemini", a.extra)
    \o <<Named("", [parts |-> [i \in 1..Len(a.calls) |->
                       [fn |-> a.calls[i].name, text |-> a.calls[i].args,
                        thought |-> FALSE]],
                    finish |-> "STOP", usage |-> a.usage])>>

Frames(d, a) ==
    CASE d = "anthropic" -> AnthropicFrames(a)
      [] d = "openai"    -> OpenAiFrames(a)
      [] d = "gemini"    -> GeminiFrames(a)

FrameLines(d, i, f, eol) ==
    IF StreamKind(d) = "jsonl" THEN <<DataSym[i]>> \o eol
    ELSE (IF f.event = "" THEN << >> ELSE <<EventSym[i]>> \o eol)
           \o <<DataSym[i]>> \o eol \o eol

BodyOf(d, fs, r) ==
    FlattenSeq([i \in 1..Len(fs) |-> FrameLines(d, i, fs[i], r.eol)])

RECURSIVE Chunks(_, _)
Chunks(body, n) ==
    LET k == IF Len(body) < n THEN Len(body) ELSE n
    IN  <<LenSym[k], CR, LF>> \o SubSeq(body, 1, k)
          \o (IF k = 0 THEN << >> ELSE <<CR, LF>> \o Chunks(After(body, k), n))

Wire(d, fs, r) ==
    LET body  == BodyOf(d, fs, r)
        field == CASE r.framing = "chunked" -> <<"te">> \o r.eol
                   [] r.framing = "length" -> <<LenSym[Len(body)]>> \o r.eol
                   [] OTHER -> << >>
    IN  <<r.status>> \o r.eol \o field \o r.eol
          \o (IF r.framing = "chunked" THEN Chunks(body, r.chunk) \o <<CR, LF>>
              ELSE body)

-----------------------------------------------------------------------------

Init ==
    /\ mode \in {"stream", "exchange"} /\ adapter \in Adapters
    /\ answer \in {a \in Answers : a.tail \in Tails(adapter)} /\ frames = Frames(adapter, answer)
    /\ resp \in Responses /\ left = Wire(adapter, frames, resp)
    /\ over = FALSE /\ hp = NewParser /\ sp = NewSse(StreamKind(adapter))
    /\ prov = reset_stream /\ rnd = NewRound
    /\ got = [body |-> << >>, truncated |-> FALSE]
    /\ pc = "head" /\ ec = "ok" /\ attempt = 1 /\ clean = TRUE /\ cancel = FALSE

Retryable == {"e_net_connect", "e_net_timeout", "e_net_http", "e_net_overflow",
              "e_rate_limit", "e_provider_err"}

\* The call failed or succeeded with e: leave the retry loop, or go round it
\* with a new connection.  The provider and the collected answer are kept.
CallEnds(e, r, p) ==
    /\ rnd' = r /\ prov' = p
    /\ \/ /\ \/ mode = "exchange"
             \/ e \in {"ok", "e_cancelled"} \/ r.err # "ok"
             \/ e \notin Retryable \/ attempt > MaxRetries
          /\ pc' = "end"
          /\ ec' = IF r.err # "ok" /\ e # "e_cancelled" THEN r.err ELSE e
          /\ UNCHANGED <<call, left, hp, sp, attempt, clean>>
       \/ /\ mode = "stream" /\ e \in Retryable /\ r.err = "ok"
          /\ attempt <= MaxRetries
          /\ pc' = "head" /\ attempt' = attempt + 1
          /\ clean' = (r = NewRound /\ p = reset_stream)
          /\ resp' \in Responses /\ over' = FALSE
          /\ left' = Wire(adapter, frames, resp')
          /\ hp' = NewParser /\ sp' = NewSse(StreamKind(adapter))
          /\ UNCHANGED <<asked, ec>>

\* Transport::read of k symbols.
Read(k) == SubSeq(left, 1, k)
Arrived ==
    IF over THEN {} ELSE 1..IF Len(left) < Scratch THEN Len(left) ELSE Scratch

\* The head loop of stream_call, after a read.
HeadRead ==
    /\ pc = "head" /\ mode = "stream" /\ ~cancel
    /\ \E k \in Arrived :
         LET f == feed(hp, Read(k))
             e == IF f.ec # "ok" THEN f.ec
                  ELSE IF f.p.head THEN http_status_error(f.p.code) ELSE "ok"
         IN  IF e # "ok" THEN CallEnds(e, rnd, prov)
             ELSE /\ hp' = f.p /\ left' = After(left, k)
                  /\ pc' = IF f.p.head THEN "drain" ELSE "head"
                  /\ UNCHANGED <<call, sp, prov, rnd, ec, attempt, clean>>
    /\ UNCHANGED <<got, cancel>>

\* The read loop of http_exchange: until the body is complete.
ExchangeRead ==
    /\ pc = "head" /\ mode = "exchange"
    /\ \E k \in Arrived :
         LET f == feed(hp, Read(k))
         IN  IF f.ec # "ok" THEN CallEnds(f.ec, rnd, prov)
             ELSE /\ hp' = f.p /\ left' = After(left, k)
                  /\ pc' = IF body_done(f.p) THEN "drain" ELSE "head"
                  /\ UNCHANGED <<call, sp, prov, rnd, ec, attempt, clean>>
    /\ UNCHANGED <<got, cancel>>

\* The connection ends or times out before the head, or in http_exchange
\* before the body, is complete.
HeadEnds ==
    /\ pc = "head" /\ (mode = "stream" => ~cancel)
    /\ \/ CallEnds("e_net_timeout", rnd, prov)
       \/ ~hp.head /\ CallEnds("e_net_connect", rnd, prov)
       \/ /\ hp.head /\ pc' = "drain" /\ over' = TRUE
          /\ UNCHANGED <<asked, resp, left, hp, sp, prov, rnd, ec, attempt, clean>>
    /\ UNCHANGED <<got, cancel>>

HeadCancelled ==
    /\ pc = "head" /\ mode = "stream" /\ cancel
    /\ CallEnds("e_cancelled", rnd, prov)
    /\ UNCHANGED <<got, cancel>>

\* Index of a line symbol's frame.
FrameOf(sym, syms) == CHOOSE i \in 1..Len(syms) : syms[i] = sym

\* The lambda of stream_call: parse one SSE event and sink what it yields.
Deliver(s, se) ==
    LET json  == IF Len(se.data) # 1 THEN BadFrame
                 ELSE frames[FrameOf(se.data[1], DataSym)].json
        event == IF se.event \in {"", "message"} THEN se.event
                 ELSE frames[FrameOf(se.event, EventSym)].event
        r     == parse_frame(adapter, s.p, event, json)
    IN  [p |-> r.p, rnd |-> FoldLeft(Sink, s.rnd, r.out)]

\* http_drain_body hands on the next piece of decoded body.
TakePiece ==
    /\ pc = "drain" /\ mode = "stream" /\ hp.body # << >>
    /\ LET piece == SubSeq(hp.body, 1, Scratch)
           s     == sse_feed(sp, IF Len(hp.body) < Scratch THEN hp.body ELSE piece, cancel)
           d     == FoldLeft(Deliver, [p |-> prov, rnd |-> rnd], s.out)
       IN  IF s.ec # "ok" THEN CallEnds(s.ec, d.rnd, d.p)
           ELSE /\ hp' = take(hp, Scratch) /\ sp' = [s EXCEPT !.out = << >>]
                /\ prov' = d.p /\ rnd' = d.rnd
                /\ UNCHANGED <<call, left, pc, ec, attempt, clean>>
    /\ UNCHANGED <<got, cancel>>

\* http_exchange's on_body: at most MaxResp, 0 is no bound.
Collect(g, piece) ==
    IF MaxResp = 0 \/ Len(g.body) + Len(piece) <= MaxResp
      THEN [g EXCEPT !.body = @ \o piece]
      ELSE [body |-> SubSeq(g.body \o piece, 1, MaxResp), truncated |-> TRUE]

TakeCollected ==
    /\ pc = "drain" /\ mode = "exchange" /\ hp.body # << >>
    /\ got' = Collect(got, SubSeq(hp.body, 1, IF Len(hp.body) < Scratch
                                              THEN Len(hp.body) ELSE Scratch))
    /\ hp' = take(hp, Scratch)
    /\ UNCHANGED <<call, left, sp, prov, rnd, pc, ec, attempt, clean, cancel>>

Drained == pc = "drain" /\ hp.body = << >>

DrainOver ==
    /\ Drained /\ body_done(hp) /\ CallEnds("ok", rnd, prov)
    /\ UNCHANGED <<got, cancel>>

BodyRead ==
    /\ Drained /\ ~body_done(hp)
    /\ \E k \in Arrived :
         LET f == feed(hp, Read(k))
         IN  IF f.ec # "ok" THEN CallEnds(f.ec, rnd, prov)
             ELSE /\ hp' = f.p /\ left' = After(left, k)
                  /\ UNCHANGED <<call, sp, prov, rnd, pc, ec, attempt, clean>>
    /\ UNCHANGED <<got, cancel>>

\* Mutant: an early end of the connection is taken for the end of the body.
EofResult_Lenient(p) == "ok"

EofResult(p) == IF p.framing = "eof" \/ body_done(p) THEN "ok" ELSE "e_net_connect"

\* The connection ends, or the deadline passes, while the body is read.
BodyEnds ==
    /\ Drained /\ ~body_done(hp)
    /\ CallEnds("e_net_timeout", rnd, prov) \/ CallEnds(EofResult(hp), rnd, prov)
    /\ UNCHANGED <<got, cancel>>

RequestCancel ==
    /\ ~cancel /\ mode = "stream" /\ pc # "end" /\ cancel' = TRUE
    /\ UNCHANGED <<call, left, hp, sp, prov, rnd, got, pc, ec, attempt, clean>>

Next == \/ HeadRead \/ ExchangeRead \/ HeadEnds \/ HeadCancelled \/ TakePiece
        \/ TakeCollected \/ DrainOver \/ BodyRead \/ BodyEnds \/ RequestCancel

Spec == Init /\ [][Next]_vars

-----------------------------------------------------------------------------
(* Properties.                                                             *)

\* The answer itself, whatever the provider: the ids are the adapter's.  The
\* token counts are the ones that came with the finish reason or before it.
Expected ==
    [text |-> answer.text, err |-> "ok",
     usage |-> IF answer.tail = "with" THEN answer.usage ELSE ZeroUsage,
     finish |-> IF answer.calls # << >> /\ adapter # "gemini" THEN "tool_use" ELSE "end_turn",
     calls |-> [i \in 1..Len(answer.calls) |->
       [answer.calls[i] EXCEPT !.id = IF adapter = "gemini" THEN FcId(i - 1) ELSE @]]]

\* However the bytes are split over reads, and wherever the connection ends,
\* the round holds a prefix of the answer, each fragment once and in order: a
\* call only whole and after the text, the finish only after everything else,
\* an error only if the service sent one or ended the stream with
\* a line that is not JSON.  HttpParser and SseParser never emit
\* part of a frame (sse.h, "never partially emitted").
PrefixOfAnswer ==
    mode = "stream" /\ clean =>
        /\ IsPrefix(rnd.text, answer.text)
        /\ IsPrefix(rnd.calls, Expected.calls)
        /\ rnd.calls # << >> => rnd.text = answer.text
        /\ rnd.finish # "unknown" => [rnd EXCEPT !.err = "ok"] = Expected
        /\ rnd.err # "ok" => answer.extra = "error" \/ answer.tail = "sentinel"

\* A call that succeeds on a clean round has brought the whole text and every
\* call, the same for every adapter, and the token counts if they came no later
\* than the finish reason, unless its end is marked only by the end of the
\* connection: an early end of a chunked or counted body is an error.
OkIsWhole ==
    mode = "stream" /\ pc = "end" /\ ec = "ok" /\ clean /\ resp.framing # "eof"
        => rnd = Expected

\* A collected body is the answer's body, or a part of it flagged as truncated
\* (HttpResponse::truncated), or was framed by the end of the connection.
CollectedIsWhole ==
    mode = "exchange" /\ pc = "end" /\ ec = "ok" =>
        /\ IsPrefix(got.body, BodyOf(adapter, frames, resp))
        /\ got.body = BodyOf(adapter, frames, resp) \/ got.truncated \/ resp.framing = "eof"

\* Nothing of the response is left in the connection, so that it could carry
\* another request (the keep-alive of pool.h).  Not so for a chunked response
\* whose last line arrives late: the parser is done before it has read it.
ConnectionIsClean ==
    pc = "end" /\ ec = "ok" /\ hp.keep /\ resp.framing # "eof"
        => left = << >>

\* The answer of a round is the answer of one call, even after a retry
\* (provider.h, "call reset_stream() before each request").  Not so: the
\* frames of a broken attempt are kept, and the retry adds the answer again.
AnswerIsOneCall ==
    mode = "stream" /\ pc = "end" /\ ec = "ok" /\ resp.framing # "eof"
        => rnd = Expected

\* loop.h, of one_round: "return tool calls + text + usage".  Not so for the
\* usage that follows the finish reason: the adapter has reported the end of
\* the message by then, and the round counts no tokens.
UsageIsReturned ==
    mode = "stream" /\ pc = "end" /\ ec = "ok" /\ clean /\ resp.framing # "eof"
        => rnd.usage = answer.usage

\* The same line: an answer that arrived whole, without an error of the service,
\* is returned.  Not so if a line that is not JSON ends the stream: the adapter
\* takes it for a bad frame, and the round fails.
WholeIsReturned ==
    mode = "stream" /\ pc = "end" /\ clean /\ answer.extra # "error"
      /\ rnd.finish # "unknown" => ec # "e_proto_parse"

=============================================================================
