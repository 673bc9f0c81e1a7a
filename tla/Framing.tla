------------------------------ MODULE Framing -------------------------------
(***************************************************************************)
(* The HTTP/1.1 client of src/net/http1.cpp: the incremental response      *)
(* parser HttpParser and http_status_error, as operators on a parser       *)
(* record.  Stream drives them.                                            *)
(*                                                                         *)
(* A wire symbol stands for the bytes between two places where the parser  *)
(* looks: a status line, a header line, a chunk-size digit, a piece of     *)
(* body, CR or LF.  Lengths and limits count symbols.                      *)
(*                                                                         *)
(* The incremental SSE / JSONL parser of src/net/sse.cpp is below it.  A   *)
(* line symbol stands for a whole line without its end of line; LineOf     *)
(* says how that parser reads it.                                          *)
(***************************************************************************)
EXTENDS Integers, Sequences, SequencesExt

CONSTANTS
    Codes,     \* status-line symbols the parser accepts -> their code
    Fields,    \* header-line symbols -> [name, value]
    Hex,       \* chunk-size digit symbols -> their value
    MaxHead,   \* kMaxHeadBytes
    MaxBody,   \* max_body_
    LineOf,    \* line symbol -> [field, value]; field "" is a comment line,
               \* a line without a colon, or one with a leading space
    MaxFrame,  \* max_frame_
    MaxEvents  \* max_events_, 0 = off

CR == "\r"
LF == "\n"

Ok(p) == [p |-> p, ec |-> "ok"]
Fail(p, e) == [p |-> p, ec |-> e]

-----------------------------------------------------------------------------
(* Responses.                                                              *)

NewParser ==
    [buf |-> << >>, head |-> FALSE, code |-> 0, keep |-> TRUE,
     framing |-> "none", length |-> 0, body |-> << >>, got |-> 0,
     seen |-> FALSE, size |-> 0, done |-> FALSE]

\* std::string::find: where pat first occurs in s, or 0.
Find(s, pat) ==
    LET at == {i \in 1..(Len(s) - Len(pat) + 1) :
                 \A k \in 1..Len(pat) : s[i + k - 1] = pat[k]}
    IN  IF at = {} THEN 0 ELSE CHOOSE i \in at : \A j \in at : i <= j

\* Up to the LF at nl, without a trailing CR; and what follows it.
Line(s, nl) ==
    LET l == SubSeq(s, 1, nl - 1)
    IN  IF l # << >> /\ Last(l) = CR THEN Front(l) ELSE l

After(s, n) == SubSeq(s, n + 1, Len(s))

RECURSIVE Lines(_)
Lines(s) ==
    LET nl == Find(s, <<LF>>)
    IN  IF s = << >> THEN << >>
        ELSE IF nl = 0 THEN <<Line(s, Len(s) + 1)>>
        ELSE <<Line(s, nl)>> \o Lines(After(s, nl))

http_header(fields, name) ==
    LET at == {i \in 1..Len(fields) : fields[i].name = name}
    IN  IF at = {} THEN "" ELSE fields[CHOOSE i \in at : \A j \in at : i <= j].value

\* The first blank line of the buffer, and the length of its terminator.
Blank(buf) ==
    LET term == Find(buf, <<CR, LF, CR, LF>>)
        alt  == Find(buf, <<LF, LF>>)
    IN  IF term > 0 THEN [at |-> term, len |-> 4] ELSE [at |-> alt, len |-> 2]

\* Header lines up to the first blank one; each must name a field.
HeaderLines(lines) ==
    LET ends == {i \in 1..Len(lines) : lines[i] = << >>}
    IN  IF ends = {} THEN lines
        ELSE SubSeq(lines, 1, (CHOOSE i \in ends : \A j \in ends : i <= j) - 1)

Framed(p, fields) ==
    LET te == http_header(fields, "Transfer-Encoding")
        cl == http_header(fields, "Content-Length")
    IN  IF te = "chunked" THEN Ok([p EXCEPT !.framing = "chunked"])
        ELSE IF cl = "" THEN Ok([p EXCEPT !.framing = "eof"])
        ELSE IF cl \notin DOMAIN Hex THEN Fail(p, "e_proto_parse")
        ELSE IF Hex[cl] > MaxBody THEN Fail(p, "e_net_overflow")
        ELSE Ok([p EXCEPT !.framing = "length", !.length = Hex[cl]])

parse_head(p) ==
    LET lines  == Lines(SubSeq(p.buf, 1, Blank(p.buf).at - 1))
        header == HeaderLines(Tail(lines))
        fields == [i \in 1..Len(header) |-> Fields[header[i][1]]]
        start  == [p EXCEPT !.code = Codes[lines[1][1]], !.head = TRUE,
                            !.keep = http_header(fields, "Connection") # "close"]
    IN  IF \/ lines = << >>
           \/ Len(lines[1]) # 1
           \/ lines[1][1] \notin DOMAIN Codes
           \/ \E i \in 1..Len(header) :
                Len(header[i]) # 1 \/ header[i][1] \notin DOMAIN Fields
          THEN Fail(p, "e_proto_parse")
          ELSE Framed(start, fields)

\* The size line of a chunk: digits up to an extension; an empty line is 0.
ChunkSize(line) ==
    LET ext == Find(line, <<";">>)
        hex == IF ext = 0 THEN line ELSE SubSeq(line, 1, ext - 1)
    IN  IF \E i \in 1..Len(hex) : hex[i] \notin DOMAIN Hex THEN -1
        ELSE FoldLeft(LAMBDA v, c : v * 16 + Hex[c], 0, hex)

\* Trailer lines are skipped up to a blank one or the end of the buffer.
RECURSIVE AfterTrailers(_)
AfterTrailers(s) ==
    LET nl == Find(s, <<LF>>)
    IN  IF nl = 0 THEN << >>
        ELSE IF Line(s, nl) = << >> THEN After(s, nl)
        ELSE AfterTrailers(After(s, nl))

RECURSIVE decode_chunked(_)
decode_chunked(p) ==
    LET nl   == Find(p.buf, <<LF>>)
        size == ChunkSize(Line(p.buf, nl))
        rest == After(p.buf, nl)
        took == [p EXCEPT !.body = @ \o SubSeq(p.buf, 1, p.size),
                          !.got = @ + p.size,
                          !.buf = After(p.buf, p.size + 2), !.seen = FALSE]
    IN  IF p.buf = << >> \/ (~p.seen /\ nl = 0) THEN Ok(p)
        ELSE IF ~p.seen THEN
          IF size < 0 THEN Fail(p, "e_proto_parse")
          ELSE IF size = 0
            THEN Ok([p EXCEPT !.buf = AfterTrailers(rest), !.seen = TRUE,
                              !.size = 0, !.done = TRUE])
          ELSE decode_chunked([p EXCEPT !.buf = rest, !.seen = TRUE, !.size = size])
        ELSE IF Len(p.buf) < p.size + 2 THEN Ok(p)
        ELSE IF took.got > MaxBody THEN Fail(took, "e_net_overflow")
        ELSE decode_chunked(took)

\* A body framed by its length, or by the end of the connection: all of the
\* buffer, or as much as the length leaves room for.  A length of 0 bounds
\* nothing here.
Plain(p) ==
    LET room == IF p.length > 0 THEN p.length - p.got ELSE Len(p.buf)
        n    == IF room < Len(p.buf) THEN room ELSE Len(p.buf)
        q    == [p EXCEPT !.body = @ \o SubSeq(p.buf, 1, n), !.got = @ + n,
                          !.buf = After(p.buf, n)]
    IN  IF p.length > 0 /\ p.got >= p.length THEN Ok([p EXCEPT !.buf = << >>])
        ELSE IF q.got > MaxBody THEN Fail(q, "e_net_overflow")
        ELSE Ok(q)

Body(p) ==
    CASE p.framing = "chunked" /\ ~p.done -> decode_chunked(p)
      [] p.framing = "chunked" /\ p.done  -> Ok(p)
      [] OTHER                            -> Plain(p)

feed(p, in) ==
    LET q == [p EXCEPT !.buf = @ \o in]
        b == Blank(q.buf)
        h == parse_head(q)
    IN  IF in = << >> THEN Ok(p)
        ELSE IF q.head THEN Body(q)
        ELSE IF b.at = 0
          THEN IF Len(q.buf) > MaxHead THEN Fail(q, "e_net_overflow") ELSE Ok(q)
        ELSE IF h.ec # "ok" THEN h
        ELSE Body([h.p EXCEPT !.buf = After(q.buf, b.at + b.len - 1)])

take(p, n) == [p EXCEPT !.body = After(p.body, n)]

body_done(p) ==
    /\ p.head
    /\ \/ p.framing = "chunked" /\ p.done
       \/ p.framing = "length" /\ p.got >= p.length

http_status_error(code) ==
    CASE code \in 200..299 -> "ok"
      [] code = 429 -> "e_rate_limit"
      [] code \in {401, 403} -> "e_auth"
      [] code \in (400..599) \ {429, 401, 403} -> "e_provider_err"
      [] OTHER -> "e_net_http"

-----------------------------------------------------------------------------
(* Frames.                                                                 *)

NewSse(kind) ==
    [kind |-> kind, frame |-> << >>, data |-> << >>, id |-> "", event |-> "",
     emitted |-> 0, dropped |-> 0, out |-> << >>, ec |-> "ok"]

\* Deliver the frame collected so far to the sink (appended to out).
emit(s) ==
    LET full == MaxEvents # 0 /\ s.emitted + 1 >= MaxEvents
        ev   == IF s.kind = "jsonl" THEN "message" ELSE s.event
    IN  IF s.kind = "jsonl" /\ s.data = << >> THEN s
        ELSE IF s.kind = "sse" /\ s.data = << >> /\ s.id = "" /\ s.event = ""
          THEN [s EXCEPT !.dropped = @ + 1]
        ELSE [s EXCEPT !.out = Append(@, [event |-> ev, data |-> s.data]),
                       !.data = << >>, !.id = "", !.event = "",
                       !.emitted = @ + 1,
                       !.ec = IF full THEN "e_net_overflow" ELSE "ok"]

\* One line.  A field other than data, id and event is ignored.
line(s, l) ==
    IF s.kind = "jsonl" THEN emit([s EXCEPT !.data = l])
    ELSE IF l = << >> THEN emit(s)
    ELSE LET f == LineOf[l[1]]
         IN  CASE f.field = "data"  -> [s EXCEPT !.data = Append(@, f.value)]
               [] f.field = "id"    -> [s EXCEPT !.id = f.value]
               [] f.field = "event" -> [s EXCEPT !.event = f.value]
               [] OTHER             -> s

\* Every complete line of the buffer, until one of them fails.
RECURSIVE CompleteLines(_)
CompleteLines(s) ==
    LET ends == {i \in 1..Len(s.frame) : s.frame[i] = "\n"}
        nl   == CHOOSE i \in ends : \A j \in ends : i <= j
        raw  == SubSeq(s.frame, 1, nl - 1)
        l    == IF raw # << >> /\ Last(raw) = "\r" THEN Front(raw) ELSE raw
        rest == SubSeq(s.frame, nl + 1, Len(s.frame))
    IN  IF ends = {} \/ s.ec # "ok" THEN s
        ELSE CompleteLines(line([s EXCEPT !.frame = rest], l))

\* SseParser::feed; the abort flag is looked at once, on entry.
sse_feed(s, in, abort) ==
    IF in = << >> THEN [s EXCEPT !.ec = "ok"]
    ELSE IF abort THEN [s EXCEPT !.ec = "e_cancelled"]
    ELSE IF Len(s.frame) + Len(in) > MaxFrame
      THEN [s EXCEPT !.ec = "e_net_overflow"]
    ELSE CompleteLines([s EXCEPT !.frame = @ \o in, !.ec = "ok"])
=============================================================================
