------------------------------ MODULE MCStream ------------------------------
(***************************************************************************)
(* Instances of Stream and of Requests: what comes back from a provider    *)
(* and what is sent to it.  part says which of the two a behaviour is of;  *)
(* the variables of the other one stay as they are.                        *)
(***************************************************************************)
EXTENDS Stream, TLC

CONSTANTS Wires, Tools, MaxCalls, MaxRounds

VARIABLES part, wire, history, open, rounds

RQ == INSTANCE Requests

MCDataSym  == [i \in 1..12 |-> "d" \o ToString(i)]
MCEventSym == [i \in 1..12 |-> "e" \o ToString(i)]
MCLenSym   == [i \in 0..99 |-> ToString(i)]
MCHex      == [s \in Range(MCLenSym) |-> CHOOSE i \in 0..99 : ToString(i) = s]
MCCodes    == [s \in {"200", "429"} |-> IF s = "200" THEN 200 ELSE 429]
MCFields   == [s \in {"te"} \cup Range(MCLenSym) |->
                 IF s = "te" THEN [name |-> "Transfer-Encoding", value |-> "chunked"]
                 ELSE [name |-> "Content-Length", value |-> s]]
MCLineOf   == [s \in Range(MCDataSym) \cup Range(MCEventSym) |->
                 [field |-> IF s \in Range(MCDataSym) THEN "data" ELSE "event",
                  value |-> s]]

R(st, eol, f, c) == [status |-> st, eol |-> eol, framing |-> f, chunk |-> c]
MCResponses == {R("200", <<CR, LF>>, "chunked", 5), R("200", <<LF>>, "length", 0),
                R("200", <<LF>>, "eof", 0), R("429", <<CR, LF>>, "length", 0)}

Call(i, n, args) == [id |-> "c" \o ToString(i), name |-> <<n>>, args |-> args]
MCAnswers == [text : {<<"t">>}, usage : {[input |-> 3, output |-> 2]},
              extra : {"error", "ping"}, tail : {"with", "after", "sentinel"},
              calls : {<<Call(1, "read", <<"x", "y">>), Call(2, "write", <<"z">>)>>}]

\* Retries of a round that already holds frames of a broken call are cut off:
\* the checked properties are about clean rounds.
CleanRounds == clean

StreamIdle ==
    /\ mode = "none" /\ adapter = "" /\ answer = << >> /\ frames = << >>
    /\ resp = << >> /\ over = FALSE /\ left = << >> /\ hp = << >> /\ sp = << >>
    /\ prov = << >> /\ rnd = << >> /\ got = << >> /\ pc = "" /\ ec = ""
    /\ attempt = 0 /\ clean = TRUE /\ cancel = FALSE
RequestsIdle == wire = "" /\ history = << >> /\ open = << >> /\ rounds = 0

MCInit == \/ part = "stream" /\ Init /\ RequestsIdle
          \/ part = "requests" /\ RQ!RInit /\ StreamIdle
MCNext == \/ part = "stream" /\ Next /\ UNCHANGED <<part, wire, history, open, rounds>>
          \/ part = "requests" /\ RQ!RNext /\ UNCHANGED <<part, vars>>
MCSpec == MCInit /\ [][MCNext]_<<part, vars, wire, history, open, rounds>>

\* However the bytes are split and wherever the connection ends, a round holds a
\* prefix of the answer, a call that succeeds has all of it but for token counts
\* sent after the finish reason, and a collected body that is cut says so (Stream).
AnswerIsReceived == PrefixOfAnswer /\ OkIsWhole /\ CollectedIsWhole

\* A request that holds a tool result holds the call it answers, earlier and
\* under the same tool (Requests).
ResultsFollowCalls == part = "requests" => RQ!ResultsFollowCalls
=============================================================================
