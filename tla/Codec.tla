------------------------------- MODULE Codec --------------------------------
(***************************************************************************)
(* Messages as bytes: the binary codec (src/msg/codec.cpp) that the SQLite *)
(* store keeps blobs in, and the JSON form (src/msg/message.cpp).          *)
(*                                                                         *)
(* A message is a record of its header fields and of its parts; a part is  *)
(* its kind and the values of its fields in the order of its struct.       *)
(*                                                                         *)
(* The JSON reader and writer (src/util/json.cpp) and base64               *)
(* (src/util/base64.cpp) come first.                                       *)
(* A text is a sequence of bytes.  A run of plain characters the code      *)
(* treats as one unit (the words true, false and null, and a field name)   *)
(* is one symbol above the bytes.  A number is kept as its digits: every   *)
(* number the engine writes is an integer below 2^53, which %.17g and      *)
(* from_chars carry over exactly.                                          *)
(***************************************************************************)
EXTENDS Integers, Sequences, SequencesExt, FiniteSetsExt

CONSTANTS InitialCap, \* kCodecInitialCap
          MaxParts    \* kCodecMaxParts

QT == 34
BS == 92
White == {32, 9, 10, 13}
Digits == 48..57
True == 1000
False == 1001
NullWord == 1002

Null == [kind |-> "null"]
Bool(b) == [kind |-> "boolean", b |-> b]
Num(n) == [kind |-> "number", n |-> n]
Str(s) == [kind |-> "string", s |-> s]
Array(a) == [kind |-> "array", a |-> a]
Object(o) == [kind |-> "object", o |-> o]
Missing == [kind |-> "missing"]

\* JVal::find: the first field of that name.
find(v, key) ==
    LET hits == IF v.kind = "object" THEN SelectSeq(v.o, LAMBDA f : f[1] = key) ELSE << >>
    IN  IF hits = << >> THEN Missing ELSE hits[1][2]

-----------------------------------------------------------------------------
(* The writer *)

\* The characters with an escape of one letter, and that letter.
Short == <<<<QT, QT>>, <<BS, BS>>, <<8, 98>>, <<12, 102>>, <<10, 110>>, <<13, 114>>, <<9, 116>>>>
HexDigit(n) == IF n < 10 THEN 48 + n ELSE 87 + n

Escape(c) ==
    LET two == SelectSeq(Short, LAMBDA e : e[1] = c)
    IN  IF two # << >> THEN <<BS, two[1][2]>>
        ELSE IF c < 32 THEN <<BS, 117, 48, 48, HexDigit(c \div 16), HexDigit(c % 16)>>
        ELSE <<c>>

write_escaped(s) == <<QT>> \o FlattenSeq([i \in 1..Len(s) |-> Escape(s[i])]) \o <<QT>>

\* The elements of a list with commas between them.
Commas(parts) == FlattenSeq([i \in 1..Len(parts) |-> IF i = 1 THEN parts[i] ELSE <<44>> \o parts[i]])

RECURSIVE to_json(_)
to_json(v) ==
    CASE v.kind = "null" -> <<NullWord>>
      [] v.kind = "boolean" -> <<IF v.b THEN True ELSE False>>
      [] v.kind = "number" -> v.n
      [] v.kind = "string" -> write_escaped(v.s)
      [] v.kind = "array" -> <<91>> \o Commas([i \in 1..Len(v.a) |-> to_json(v.a[i])]) \o <<93>>
      [] v.kind = "object" ->
            <<123>> \o Commas([i \in 1..Len(v.o) |->
                                 write_escaped(v.o[i][1]) \o <<58>> \o to_json(v.o[i][2])]) \o <<125>>

-----------------------------------------------------------------------------
(* The reader: `pos` is the next byte to read, from 1 *)

Failed(pos) == [ok |-> FALSE, pos |-> pos]
Done(pos, v) == [ok |-> TRUE, pos |-> pos, v |-> v]
At(in, pos) == IF pos <= Len(in) THEN in[pos] ELSE -1

RECURSIVE skip_ws(_, _)
skip_ws(in, pos) == IF At(in, pos) \in White THEN skip_ws(in, pos + 1) ELSE pos

HexOf(c) == IF c \in 48..57 THEN c - 48 ELSE IF c \in 97..102 THEN c - 87
            ELSE IF c \in 65..70 THEN c - 55 ELSE -1
\* Four hex digits from `pos`, or -1.
Hex4(in, pos) ==
    LET d == [i \in 0..3 |-> HexOf(At(in, pos + i))]
    IN  IF \E i \in 0..3 : d[i] < 0 THEN -1 ELSE 4096 * d[0] + 256 * d[1] + 16 * d[2] + d[3]

Utf8(cp) ==
    LET Tail6(k) == 128 + ((cp \div k) % 64)
    IN  IF cp < 128 THEN <<cp>>
        ELSE IF cp < 2048 THEN <<192 + cp \div 64, Tail6(1)>>
        ELSE IF cp < 65536 THEN <<224 + cp \div 4096, Tail6(64), Tail6(1)>>
        ELSE <<240 + cp \div 262144, Tail6(4096), Tail6(64), Tail6(1)>>

\* \u and what follows it: a high surrogate takes the next escape with it.
\* The second half is not checked to be a low surrogate.
CodePoint(in, pos) ==
    LET hi == Hex4(in, pos)
        lo == Hex4(in, pos + 6)
    IN  IF hi < 0 THEN Failed(pos)
        ELSE IF hi \notin 55296..56319 THEN Done(pos + 4, Utf8(hi))
        ELSE IF At(in, pos + 4) # BS \/ At(in, pos + 5) # 117 \/ lo < 0 THEN Failed(pos)
        ELSE Done(pos + 10, Utf8(65536 + (hi - 55296) * 1024 + (lo - 56320)))

Unescape(in, pos) ==
    LET e == At(in, pos)
        two == SelectSeq(Short \o <<<<47, 47>>>>, LAMBDA p : p[2] = e)
    IN  IF two # << >> THEN Done(pos + 1, <<two[1][1]>>)
        ELSE IF e = 117 THEN CodePoint(in, pos + 1)
        ELSE Failed(pos)

\* The body of a string up to its closing quote.
RECURSIVE StringBody(_, _, _)
StringBody(in, pos, owned) ==
    LET c == At(in, pos)
        u == Unescape(in, pos + 1)
    IN  IF c = QT THEN Done(pos + 1, owned)
        ELSE IF c = BS THEN IF u.ok THEN StringBody(in, u.pos, owned \o u.v) ELSE u
        ELSE IF c < 32 THEN Failed(pos)
        ELSE StringBody(in, pos + 1, owned \o <<c>>)

parse_string(in, pos) == IF At(in, pos) = QT THEN StringBody(in, pos + 1, << >>) ELSE Failed(pos)

RECURSIVE DigitsEnd(_, _)
DigitsEnd(in, pos) == IF At(in, pos) \in Digits THEN DigitsEnd(in, pos + 1) ELSE pos

\* -?digits[.digits][e[+-]digits]: each part that starts must have a digit.
parse_number(in, pos) ==
    LET whole == IF At(in, pos) = 45 THEN pos + 1 ELSE pos
        a == DigitsEnd(in, whole)
        frac == IF At(in, a) = 46 THEN a + 1 ELSE a
        b == IF frac > a THEN DigitsEnd(in, frac) ELSE a
        sign == IF At(in, b) \in {69, 101} THEN b + 1 ELSE b
        exp == IF sign > b /\ At(in, sign) \in {43, 45} THEN sign + 1 ELSE sign
        c == IF sign > b THEN DigitsEnd(in, exp) ELSE b
    IN  IF a = whole \/ (frac > a /\ b = frac) \/ (sign > b /\ c = exp) THEN Failed(pos)
        ELSE Done(c, Num(SubSeq(in, pos, c - 1)))

RECURSIVE parse_value(_, _), Elements(_, _, _), MoreElements(_, _, _), Fields(_, _, _),
          FieldAfter(_, _, _, _), MoreFields(_, _, _, _)
parse_value(in, p) ==
    LET pos == skip_ws(in, p)
        c == At(in, pos)
        s == parse_string(in, pos)
    IN  CASE c = 123 -> IF At(in, skip_ws(in, pos + 1)) = 125
                        THEN Done(skip_ws(in, pos + 1) + 1, Object(<< >>))
                        ELSE Fields(in, pos + 1, << >>)
          [] c = 91 -> IF At(in, skip_ws(in, pos + 1)) = 93
                       THEN Done(skip_ws(in, pos + 1) + 1, Array(<< >>))
                       ELSE Elements(in, pos + 1, << >>)
          [] c = QT -> IF s.ok THEN Done(s.pos, Str(s.v)) ELSE s
          [] c = True -> Done(pos + 1, Bool(TRUE))
          [] c = False -> Done(pos + 1, Bool(FALSE))
          [] c = NullWord -> Done(pos + 1, Null)
          [] OTHER -> parse_number(in, pos)

Elements(in, pos, arr) == MoreElements(in, parse_value(in, pos), arr)
MoreElements(in, e, arr) ==
    LET next == skip_ws(in, e.pos)
    IN  IF ~e.ok THEN e
        ELSE IF At(in, next) = 93 THEN Done(next + 1, Array(Append(arr, e.v)))
        ELSE IF At(in, next) # 44 THEN Failed(next)
        ELSE Elements(in, next + 1, Append(arr, e.v))

\* A key is a view into the input, so one with an escape in it is refused.
Fields(in, pos, obj) == FieldAfter(in, skip_ws(in, pos), parse_string(in, skip_ws(in, pos)), obj)
FieldAfter(in, at, k, obj) ==
    LET colon == skip_ws(in, k.pos)
    IN  IF ~k.ok THEN k
        ELSE IF Contains(SubSeq(in, at, k.pos - 1), BS) THEN Failed(k.pos)
        ELSE IF At(in, colon) # 58 THEN Failed(colon)
        ELSE MoreFields(in, k.v, parse_value(in, colon + 1), obj)
MoreFields(in, key, e, obj) ==
    LET next == skip_ws(in, e.pos)
    IN  IF ~e.ok THEN e
        ELSE IF At(in, next) = 125 THEN Done(next + 1, Object(Append(obj, <<key, e.v>>)))
        ELSE IF At(in, next) # 44 THEN Failed(next)
        ELSE Fields(in, next + 1, Append(obj, <<key, e.v>>))

AllRead(in, r) == IF r.ok /\ skip_ws(in, r.pos) <= Len(in) THEN Failed(skip_ws(in, r.pos)) ELSE r
parse_json(in) == AllRead(in, parse_value(in, 1))

-----------------------------------------------------------------------------
(* base64 *)

kAlphabet(i) == IF i < 26 THEN 65 + i ELSE IF i < 52 THEN 71 + i ELSE IF i < 62 THEN i - 4
                ELSE IF i = 62 THEN 43 ELSE 47
decode_char(c) == IF c \in 65..90 THEN c - 65 ELSE IF c \in 97..122 THEN c - 71
                  ELSE IF c \in 48..57 THEN c + 4 ELSE IF c = 43 THEN 62 ELSE IF c = 47 THEN 63 ELSE -1

\* Three bytes make four characters; one or two left over are padded.
Group(p) ==
    LET byte(i) == IF i <= Len(p) THEN p[i] ELSE 0
        v == 65536 * byte(1) + 256 * byte(2) + byte(3)
        ch == <<v \div 262144, (v \div 4096) % 64, (v \div 64) % 64, v % 64>>
    IN  [i \in 1..4 |-> IF i <= Len(p) + 1 THEN kAlphabet(ch[i]) ELSE 61]

b64_encode(data) ==
    FlattenSeq([g \in 1..((Len(data) + 2) \div 3) |->
                  Group(SubSeq(data, 3 * g - 2, IF 3 * g > Len(data) THEN Len(data) ELSE 3 * g))])

b64_decoded_size(n) == (n \div 4) * 3

\* Six bits at a time; a byte leaves when eight are there.  White space is
\* skipped, and nothing but padding may follow the first pad.
RECURSIVE B64Bits(_, _, _, _, _)
B64Bits(in, acc, bits, pad, out) ==
    IF in = << >> THEN [ok |-> TRUE, v |-> out]
    ELSE LET c == Head(in)
             v == decode_char(c)
             full == bits + 6 >= 8
             all == acc * 64 + v
             left == IF full THEN bits - 2 ELSE bits + 6
         IN  IF c \in White \/ (pad /\ c = 61) THEN B64Bits(Tail(in), acc, bits, pad, out)
             ELSE IF c = 61 THEN B64Bits(Tail(in), acc, bits, TRUE, out)
             ELSE IF pad \/ v < 0 THEN [ok |-> FALSE]
             ELSE B64Bits(Tail(in), all % 2^left, left, pad,
                          IF full THEN Append(out, all \div 2^left) ELSE out)

\* The caller's buffer has room for `cap` bytes.
b64_decode(in, cap) ==
    LET r == B64Bits(in, 0, 0, FALSE, << >>) IN IF r.ok /\ Len(r.v) > cap THEN [ok |-> FALSE] ELSE r

-----------------------------------------------------------------------------
(* Messages *)

kCodecVersion == 1
Roles == 0..3          \* user, assistant, system, tool
Reasons == 0..6        \* FinishReason, unknown last
Unknown == 6
Kinds == 0..6          \* PartKind
KBinary == 3
KCall == 4
KResult == 5
KFinish == 6

\* What the fields of each kind of part are.
Layout(kind) ==
    CASE kind \in 0..2 -> <<"str">>
      [] kind = KBinary -> <<"str", "raw">>
      [] kind = KCall -> <<"str", "str", "str", "bool">>
      [] kind = KResult -> <<"str", "str", "bool">>
      [] kind = KFinish -> <<"reason">>

-----------------------------------------------------------------------------
(* Encoding: a buffer that grows in the arena, and the strings seen so far. *)
(* `oom` holds the numbers of the allocations that fail.                    *)

NewBuf(oom) == [bytes |-> << >>, cap |-> 0, made |-> 0, oom |-> oom, failed |-> FALSE, dict |-> << >>]

\* EncodeBuf::ensure.
ensure(b, need) ==
    LET n == b.made + 1
        size == Max({InitialCap, 2 * b.cap, Len(b.bytes) + need})
    IN  IF b.cap > 0 /\ Len(b.bytes) + need <= b.cap THEN b
        ELSE IF n \in b.oom THEN [b EXCEPT !.made = n, !.failed = TRUE]
        ELSE [b EXCEPT !.made = n, !.cap = size]

put_bytes(b, s) ==
    LET e == ensure(b, Len(s))
    IN  IF Len(e.bytes) + Len(s) <= e.cap THEN [e EXCEPT !.bytes = @ \o s] ELSE e
put_u8(b, v) == put_bytes(b, <<v>>)

Varint[v \in Nat] == IF v < 128 THEN <<v>> ELSE <<128 + (v % 128)>> \o Varint[v \div 128]
put_varint(b, v) == put_bytes(b, Varint[v])

\* Mutated form: the interner numbers a string after it has put it in.
intern_Late(b, s) ==
    IF Contains(b.dict, s) THEN put_varint(put_u8(b, 1), SelectInSeq(b.dict, LAMBDA t : t = s))
    ELSE [put_bytes(put_varint(put_u8(b, 0), Len(s)), s) EXCEPT !.dict = Append(@, s)]

\* StringInterner::write: the text the first time, its number afterwards.
intern(b, s) ==
    IF Contains(b.dict, s) THEN put_varint(put_u8(b, 1), SelectInSeq(b.dict, LAMBDA t : t = s) - 1)
    ELSE [put_bytes(put_varint(put_u8(b, 0), Len(s)), s) EXCEPT !.dict = Append(@, s)]

PutField(b, type, v) ==
    CASE type = "str" -> intern(b, v)
      [] type = "raw" -> put_bytes(put_varint(b, Len(v)), v)
      [] type = "bool" -> put_u8(b, IF v THEN 1 ELSE 0)
      [] type = "reason" -> put_u8(b, v)

PutPart(b, p) ==
    LET type == Layout(p.kind)
    IN  FoldLeft(LAMBDA acc, i : PutField(acc, type[i], p.f[i]), put_u8(b, p.kind), [i \in 1..Len(type) |-> i])

encode_message(m, oom) ==
    LET head == intern(intern(put_u8(ensure(NewBuf(oom), InitialCap), kCodecVersion), m.id), m.session_id)
        body == put_varint(put_varint(intern(put_u8(head, m.role), m.model), m.created_at), Len(m.parts))
        b == FoldLeft(PutPart, body, m.parts)
    IN  IF b.failed \/ b.cap = 0 THEN << >> ELSE b.bytes

-----------------------------------------------------------------------------
(* Decoding: a cursor that remembers its first failure and where it was,    *)
(* and the values read                                                      *)

NewDecoder(s) == [s |-> s, pos |-> 0, failed |-> FALSE, err |-> 0, dict |-> << >>, got |-> << >>]
fail(d, offset) == [d EXCEPT !.failed = TRUE, !.err = offset]
Got(d, n, v) == [d EXCEPT !.pos = @ + n, !.got = Append(@, v)]
Left(d) == Len(d.s) - d.pos

take_u8(d, max) ==
    IF Left(d) < 1 THEN fail(d, d.pos)
    ELSE IF d.s[d.pos + 1] > max THEN fail(d, d.pos + 1)
    ELSE Got(d, 1, d.s[d.pos + 1])

\* The bytes of a varint at `pos`: up to the first below 128, ten at most.
VarintLen(s, pos) ==
    LET ends == {n \in 1..10 : pos + n <= Len(s) /\ s[pos + n] < 128}
    IN  IF ends = {} THEN 0 ELSE Min(ends)
VarintAt[s \in Seq(Nat), pos \in Nat, n \in Nat] ==
    IF n = 0 THEN 0 ELSE (s[pos + 1] % 128) + 128 * VarintAt[s, pos + 1, n - 1]
take_varint(d) ==
    LET n == VarintLen(d.s, d.pos)
    IN  IF n = 0 THEN fail(d, IF Left(d) < 10 THEN Len(d.s) ELSE d.pos + 9)
        ELSE Got(d, n, VarintAt[d.s, d.pos, n])

\* The value a take left last, and the decoder without it.
Last1(d) == d.got[Len(d.got)]
Pop(d, n) == [d EXCEPT !.got = SubSeq(@, 1, Len(@) - n)]

Raw(d) ==
    LET n == take_varint(d)
    IN  IF n.failed THEN n
        ELSE IF Last1(n) > Left(n) THEN fail(n, n.pos)
        ELSE Got(Pop(n, 1), Last1(n), SubSeq(n.s, n.pos + 1, n.pos + Last1(n)))

take_string(d) ==
    LET flag == take_u8(d, 255)
        idx == take_varint(Pop(flag, 1))
        text == Raw(Pop(flag, 1))
    IN  IF flag.failed THEN flag
        ELSE IF Last1(flag) = 1
        THEN IF idx.failed THEN idx
             ELSE IF Last1(idx) >= Len(idx.dict) THEN fail(idx, idx.pos)
             ELSE Got(Pop(idx, 1), 0, idx.dict[Last1(idx) + 1])
        ELSE IF Last1(flag) # 0 THEN fail(flag, flag.pos - 1)
        ELSE IF text.failed THEN text ELSE [text EXCEPT !.dict = Append(@, Last1(text))]

Take(d, type) ==
    IF d.failed THEN d
    ELSE CASE type = "str" -> take_string(d)
           [] type = "raw" -> Raw(d)
           [] type = "varint" -> take_varint(d)
           [] type = "bool" -> LET b == take_u8(d, 1)
                               IN  IF b.failed THEN b ELSE Got(Pop(b, 1), 0, Last1(b) = 1)
           [] type = "reason" -> take_u8(d, Unknown)
           [] type = "role" -> take_u8(d, 3)
           [] type = "kind" -> take_u8(d, KFinish)
TakeAll(d, types) == FoldLeft(Take, d, types)

\* One part: its kind and then its fields, put together as one value.
PartOf(f, kind, n) ==
    IF f.failed THEN f
    ELSE Got(Pop(f, n + 1), 0, [kind |-> kind, f |-> SubSeq(f.got, Len(f.got) - n + 1, Len(f.got))])
TakeFields(k) ==
    IF k.failed THEN k ELSE PartOf(TakeAll(k, Layout(Last1(k))), Last1(k), Len(Layout(Last1(k))))
TakePart(d, i) == TakeFields(Take(d, "kind"))

\* decode_message: what was read so far is dropped when anything fails.
Refused(offset) == [ok |-> FALSE, at |-> offset]
MessageOf(h, parts) ==
    IF parts.failed THEN Refused(parts.err)
    ELSE [ok |-> TRUE, m |-> [id |-> h.got[1], session_id |-> h.got[2], role |-> h.got[3],
                              model |-> h.got[4], created_at |-> h.got[5],
                              parts |-> SubSeq(parts.got, 7, Len(parts.got))]]
DecodeParts(h) ==
    IF h.failed THEN Refused(h.err)
    ELSE IF h.got[6] > MaxParts THEN Refused(h.pos)
    ELSE MessageOf(h, FoldLeft(TakePart, h, [i \in 1..h.got[6] |-> i]))
decode_message(s) ==
    IF s = << >> THEN Refused(0)
    ELSE IF s[1] # kCodecVersion THEN Refused(-1)
    ELSE DecodeParts(TakeAll([NewDecoder(s) EXCEPT !.pos = 1],
                             <<"str", "str", "role", "str", "varint", "varint">>))

-----------------------------------------------------------------------------
(* The JSON form *)

\* Field names and enumeration names are one symbol each.
FId == <<3001>>
FSession == <<3002>>
FRole == <<3003>>
FModel == <<3004>>
FCreated == <<3005>>
FParts == <<3006>>
FKind == <<3007>>
RoleName(r) == <<2100 + r>>
KindName(k) == <<2200 + k>>
ReasonName(r) == <<2300 + r>>
FieldName(kind, i) == <<2000 + 10 * kind + i>>

FieldToJson(type, v) ==
    CASE type = "str" -> Str(v)
      [] type = "raw" -> Str(b64_encode(v))
      [] type = "bool" -> Bool(v)
      [] type = "reason" -> Str(ReasonName(v))

PartToJson(p) ==
    LET type == Layout(p.kind)
    IN  Object(<<<<FKind, Str(KindName(p.kind))>>>>
                 \o [i \in 1..Len(type) |-> <<FieldName(p.kind, i), FieldToJson(type[i], p.f[i])>>])

DigitsOf[n \in Nat] == IF n < 10 THEN <<48 + n>> ELSE DigitsOf[n \div 10] \o <<48 + (n % 10)>>
NumberOf[d \in Seq(Nat)] == IF d = << >> THEN 0 ELSE 10 * NumberOf[Front(d)] + Last(d) - 48

message_to_json(m) ==
    Object(<<<<FId, Str(m.id)>>, <<FSession, Str(m.session_id)>>, <<FRole, Str(RoleName(m.role))>>,
             <<FModel, Str(m.model)>>, <<FCreated, Num(DigitsOf[m.created_at])>>,
             <<FParts, Array([i \in 1..Len(m.parts) |-> PartToJson(m.parts[i])])>>>>)

\* A field that is not there, or not a string, reads as the empty string.
js(v, key) == LET f == find(v, key) IN IF f.kind = "string" THEN f.s ELSE << >>

FromB64(s) == b64_decode(s, b64_decoded_size(Len(s)) + 1)
FieldFromJson(pj, key, type) ==
    LET f == find(pj, key)
        known == {r \in Reasons : ReasonName(r) = js(pj, key)}
    IN  CASE type = "str" -> js(pj, key)
          [] type = "raw" -> FromB64(js(pj, key)).v
          [] type = "bool" -> f.kind = "boolean" /\ f.b
          [] type = "reason" -> IF known = {} THEN Unknown ELSE CHOOSE r \in known : TRUE

\* from_json: the parts up to the first one that cannot be read.
PartFromJson(pj) ==
    LET kinds == {k \in Kinds : KindName(k) = js(pj, FKind)}
        k == CHOOSE k \in kinds : TRUE
    IN  IF pj.kind # "object" \/ kinds = {} THEN [ok |-> FALSE]
        ELSE IF k = KBinary /\ ~FromB64(js(pj, FieldName(k, 2))).ok THEN [ok |-> FALSE]
        ELSE [ok |-> TRUE, p |-> [kind |-> k, f |-> [i \in 1..Len(Layout(k)) |->
                                     FieldFromJson(pj, FieldName(k, i), Layout(k)[i])]]]

from_json(v) ==
    LET role == find(v, FRole)
        named == {r \in Roles : RoleName(r) = js(v, FRole)}
        created == find(v, FCreated)
        parts == find(v, FParts)
        read == [i \in 1..(IF parts.kind = "array" THEN Len(parts.a) ELSE 0) |-> PartFromJson(parts.a[i])]
    IN  IF v.kind # "object" \/ (role.kind # "missing" /\ named = {}) \/ parts.kind # "array"
             \/ \E i \in DOMAIN read : ~read[i].ok
        THEN [ok |-> FALSE]
        ELSE [ok |-> TRUE,
              m |-> [id |-> js(v, FId), session_id |-> js(v, FSession),
                     role |-> IF named = {} THEN 0 ELSE CHOOSE r \in named : TRUE,
                     model |-> js(v, FModel),
                     created_at |-> IF created.kind = "number" THEN NumberOf[created.n] ELSE 0,
                     parts |-> [i \in DOMAIN read |-> read[i].p]]]
=============================================================================
