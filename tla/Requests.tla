------------------------------ MODULE Requests ------------------------------
(***************************************************************************)
(* What the model is sent: build_request of the three adapters             *)
(* (src/provider/anthropic.cpp, openai.cpp, gemini.cpp) over the history   *)
(* that Session::append_user, append_assistant and append_tool_result      *)
(* build (src/agent/session.cpp) in the rounds of Agent::drive.            *)
(*                                                                         *)
(* A part of a message is its kind and what identifies it; a wire message  *)
(* is a role and a sequence of blocks.                                     *)
(***************************************************************************)
EXTENDS Integers, Sequences, FiniteSets, SequencesExt

CONSTANTS
    Wires,     \* a subset of {"anthropic", "openai", "gemini"}
    Tools,     \* names of the tools
    MaxCalls,  \* bound: calls of one round
    MaxRounds  \* bound: rounds of a session

VARIABLES
    wire,     \* the session's provider
    history,  \* Session::messages_
    open,     \* calls of the round that have no result yet
    rounds    \* rounds so far

rvars == <<wire, history, open, rounds>>

Part(kind, id, tool, json) == [kind |-> kind, id |-> id, tool |-> tool, json |-> json]
Msg(role, parts) == [role |-> role, parts |-> parts]
Block(type, id, name) == [type |-> type, id |-> id, name |-> name]

\* The parts of a message that table knows, as blocks.  A tool call whose
\* arguments are not JSON has no block.
Blocks(parts, table) ==
    LET kept == SelectSeq(parts, LAMBDA p : /\ p.kind \in DOMAIN table
                                            /\ p.kind = "tool_call" => p.json)
    IN  [i \in 1..Len(kept) |->
           Block(table[kept[i].kind], kept[i].id,
                 IF kept[i].kind = "tool_call" THEN kept[i].tool ELSE "")]

\* One wire message, unless it would be empty.
One(role, blocks) ==
    IF blocks = << >> THEN << >> ELSE <<[role |-> role, blocks |-> blocks]>>

-----------------------------------------------------------------------------
(* Anthropic.                                                              *)

build_user_blocks(m) ==
    Blocks(m.parts, [text |-> "text", image_url |-> "image", binary |-> "image",
                     tool_result |-> "tool_result"])
build_assistant_blocks(m) ==
    Blocks(m.parts, [text |-> "text", reasoning |-> "thinking",
                     tool_call |-> "tool_use"])

AnthropicMessage(m) ==
    CASE m.role = "user"      -> One("user", build_user_blocks(m))
      [] m.role = "assistant" -> One("assistant", build_assistant_blocks(m))
      [] OTHER                -> << >>

-----------------------------------------------------------------------------
(* OpenAI.                                                                 *)

OfKind(m, kinds) == SelectSeq(m.parts, LAMBDA p : p.kind \in kinds)

\* One string without images, else the texts followed by the images.
build_user_content(m) ==
    LET texts  == OfKind(m, {"text"})
        images == OfKind(m, {"image_url", "binary"})
    IN  IF images = << >>
          THEN IF texts = << >> THEN << >> ELSE <<Block("string", "", "")>>
          ELSE [i \in 1..Len(texts) |-> Block("text", "", "")]
                 \o [i \in 1..Len(images) |-> Block("image_url", "", "")]

ToolMessages(m) ==
    LET results == OfKind(m, {"tool_result"})
    IN  [i \in 1..Len(results) |->
           [role |-> "tool", blocks |-> <<Block("tool_result", results[i].id, "")>>]]

\* Mutant: a message without text is dropped with its tool results.
OpenAiUser_Dropped(m) ==
    IF build_user_content(m) = << >> THEN << >>
    ELSE One("user", build_user_content(m)) \o ToolMessages(m)

OpenAiUser(m) == One("user", build_user_content(m)) \o ToolMessages(m)

\* Texts and reasoning become one content string; calls keep their arguments
\* as a string, so they need not be JSON.
OpenAiAssistant(m) ==
    LET calls == OfKind(m, {"tool_call"})
        said  == OfKind(m, {"text", "reasoning"})
    IN  One("assistant",
            (IF said = << >> THEN << >> ELSE <<Block("string", "", "")>>)
            \o [i \in 1..Len(calls) |-> Block("tool_use", calls[i].id, calls[i].tool)])

OpenAiMessage(m) ==
    CASE m.role = "system"    -> One("system", build_user_content(m))
      [] m.role = "user"      -> OpenAiUser(m)
      [] m.role = "assistant" -> OpenAiAssistant(m)
      [] OTHER                -> << >>

-----------------------------------------------------------------------------
(* Gemini.                                                                 *)

\* call_names: the name under which each call id was first seen in the
\* assistant messages before position n (map::emplace).
CallName(msgs, n, id) ==
    LET calls == {<<i, j>> \in (1..(n - 1)) \X (1..MaxCalls + 2) :
                    /\ msgs[i].role = "assistant" /\ j <= Len(msgs[i].parts)
                    /\ msgs[i].parts[j].kind = "tool_call"
                    /\ msgs[i].parts[j].id = id}
        first == CHOOSE c \in calls : \A d \in calls :
                   c[1] < d[1] \/ (c[1] = d[1] /\ c[2] <= d[2])
    IN  IF calls = {} THEN "" ELSE msgs[first[1]].parts[first[2]].tool

\* A result whose call is not known is sent as text.
build_user_parts(msgs, n) ==
    LET bs == Blocks(msgs[n].parts, [text |-> "text", image_url |-> "fileData",
                 binary |-> "inlineData", tool_result |-> "tool_result"])
        Name(b) == CallName(msgs, n, b.id)
    IN  [i \in 1..Len(bs) |->
           IF bs[i].type # "tool_result" THEN bs[i]
           ELSE IF Name(bs[i]) = "" THEN Block("text", "", "")
           ELSE [bs[i] EXCEPT !.name = Name(bs[i])]]

build_model_parts(m) ==
    Blocks(m.parts, [text |-> "text", reasoning |-> "text", tool_call |-> "tool_use"])

GeminiMessage(msgs, n) ==
    CASE msgs[n].role = "user"      -> One("user", build_user_parts(msgs, n))
      [] msgs[n].role = "assistant" -> One("model", build_model_parts(msgs[n]))
      [] OTHER                      -> << >>

-----------------------------------------------------------------------------

\* The output limit of a request: the budget's, the model's, the adapter's.
max_tokens(lim) ==
    IF lim.budget > 0 THEN lim.budget
    ELSE IF lim.model > 0 THEN lim.model ELSE lim.adapter

System(msgs) == SelectSeq(msgs, LAMBDA m : m.role = "system")

\* A tool is declared with its schema, or with an empty one if it has none
\* that is a JSON object.
Declared(tools) ==
    [i \in 1..Len(tools) |->
       [name |-> tools[i].name, schema |-> IF tools[i].object THEN tools[i].schema ELSE {}]]

\* The requests: system text beside the messages, or among them for OpenAI;
\* a limit of 0 is left out, except that Anthropic's is always there.
AnthropicRequest(msgs, tools, lim) ==
    [system |-> System(msgs), messages |-> FlattenSeq([n \in 1..Len(msgs) |-> AnthropicMessage(msgs[n])]),
     tools |-> Declared(tools),
     max |-> <<max_tokens([lim EXCEPT !.adapter = IF @ = 0 THEN 4096 ELSE @])>>]

Limit(lim) == IF max_tokens(lim) > 0 THEN <<max_tokens(lim)>> ELSE << >>

OpenAiRequest(msgs, tools, lim) ==
    [system |-> << >>, messages |-> FlattenSeq([n \in 1..Len(msgs) |-> OpenAiMessage(msgs[n])]),
     tools |-> Declared(tools), max |-> Limit(lim)]

GeminiRequest(msgs, tools, lim) ==
    [system |-> System(msgs), messages |-> FlattenSeq([n \in 1..Len(msgs) |-> GeminiMessage(msgs, n)]),
     tools |-> Declared(tools), max |-> Limit(lim)]

build_request(w, msgs, tools, lim) ==
    CASE w = "anthropic" -> AnthropicRequest(msgs, tools, lim)
      [] w = "openai"    -> OpenAiRequest(msgs, tools, lim)
      [] w = "gemini"    -> GeminiRequest(msgs, tools, lim)

-----------------------------------------------------------------------------
(* Rounds.                                                                 *)

\* The id of the i-th call of a round: the server's own, or the adapter's.
CallId(w, r, i) ==
    IF w = "gemini" THEN <<"fc0", "fc1">>[i] ELSE <<<<"a0", "a1">>, <<"b0", "b1">>, <<"c0", "c1">>>>[r][i]

RInit == wire \in Wires /\ history = << >> /\ open = << >> /\ rounds = 0

append_user ==
    /\ open = << >> /\ rounds < MaxRounds
    /\ history # << >> => Last(history).role = "assistant"
    /\ \E image \in BOOLEAN :
         history' = Append(history, Msg("user", <<Part("text", "", "", TRUE)>>
           \o IF image THEN <<Part("binary", "", "", TRUE)>> ELSE << >>))
    /\ UNCHANGED <<wire, open, rounds>>

\* A model turn; arguments cut short by a broken stream are not JSON.
append_assistant ==
    /\ history # << >> /\ Last(history).role = "user" /\ open = << >>
    /\ rounds < MaxRounds /\ rounds' = rounds + 1
    /\ \E n \in 0..MaxCalls, text \in BOOLEAN, json \in BOOLEAN :
       \E names \in [1..n -> Tools] :
         LET calls == [i \in 1..n |->
               Part("tool_call", CallId(wire, rounds + 1, i), names[i], json)]
         IN  /\ open' = calls
             /\ history' = Append(history, Msg("assistant",
                  (IF text THEN <<Part("text", "", "", TRUE)>> ELSE << >>) \o calls
                    \o <<Part("finish", "", "", TRUE)>>))
    /\ UNCHANGED wire

\* The result of the next call.
append_tool_result ==
    /\ open # << >> /\ open' = Tail(open)
    /\ history' = Append(history, Msg("user",
         <<Part("tool_result", open[1].id, open[1].tool, TRUE)>>))
    /\ UNCHANGED <<wire, rounds>>

RNext == append_user \/ append_assistant \/ append_tool_result

RSpec == RInit /\ [][RNext]_rvars

-----------------------------------------------------------------------------

Sent ==
    build_request(wire, history, << >>, [budget |-> 0, model |-> 0, adapter |-> 0]).messages

IsResult(b) == b.type = "tool_result"

\* The last call block with that id before wire message n.
Caller(w, n, id) ==
    LET calls == {<<i, j>> \in (1..(n - 1)) \X (1..MaxCalls + 1) :
                    /\ j <= Len(w[i].blocks) /\ w[i].blocks[j].type = "tool_use"
                    /\ (wire # "gemini" => w[i].blocks[j].id = id)}
    IN  {w[c[1]].blocks[c[2]].name : c \in
           {d \in calls : \A e \in calls : e[1] <= d[1]}}

\* Every result of the history is on the wire, after a message with the call
\* it answers.
EachResultFollows(w) ==
    /\ Len(SelectSeq(history, LAMBDA m : m.parts[1].kind = "tool_result"))
         = Cardinality({n \in 1..Len(w) : \E j \in 1..Len(w[n].blocks) :
                                             IsResult(w[n].blocks[j])})
    /\ \A n \in 1..Len(w) : \A j \in 1..Len(w[n].blocks) :
         IsResult(w[n].blocks[j]) =>
           /\ Caller(w, n, w[n].blocks[j].id) # {}
           /\ wire = "gemini" => w[n].blocks[j].name \in Caller(w, n, "")

\* No call of the history carries arguments that are not JSON, and no call id
\* stands for two tools.
Regular ==
    /\ wire # "openai" =>
         \A i \in 1..Len(history) : \A j \in 1..Len(history[i].parts) :
           history[i].parts[j].json
    /\ \A i, k \in 1..Len(history) : \A j \in 1..Len(history[i].parts) :
       \A l \in 1..Len(history[k].parts) :
         LET p == history[i].parts[j]
             q == history[k].parts[l]
         IN  p.kind = "tool_call" /\ q.kind = "tool_call" /\ p.id = q.id
               => p.tool = q.tool

\* A request that holds a tool result holds the call it answers, earlier
\* and under the same tool, as the services require (session.cpp,
\* append_tool_result: "the adapters split them into role:tool / tool_result /
\* functionResponse wire blocks"): while the history is regular.
ResultsFollowCalls == Regular => EachResultFollows(Sent)

\* The same for every history.  Not so: Anthropic and Gemini drop a call whose
\* arguments are not JSON (provider.h has them "assembled, validated JSON") but
\* keep its result, and the ids that the Gemini adapter makes up start again
\* in every round, where build_request keeps the first name of an id.
ResultsAlwaysFollowCalls == EachResultFollows(Sent)

=============================================================================
