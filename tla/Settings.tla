------------------------------ MODULE Settings ------------------------------
(***************************************************************************)
(* From a configuration file and the host's fields to the provider a task  *)
(* talks to: load_config_json (config/config.cpp), the overlay of          *)
(* apply_config (abi/opencode_api.cpp), session_options_from_config        *)
(* (agent/session.cpp) and make_provider (provider/factory.cpp).           *)
(*                                                                         *)
(* A JSON value is a tuple that starts with its kind: <<"string", s>>,     *)
(* <<"number", whole, hundredths>>, <<"boolean", b>>, <<"array", s>>,      *)
(* <<"object", o>>, an object being a function from its keys.              *)
(*                                                                         *)
(* Before that, from a model's name to what the wire needs: the catalog    *)
(* (model/catalog.hpp), resolve_model with its suggestions and split_url   *)
(* (provider/resolver.cpp).                                                *)
(***************************************************************************)
EXTENDS Integers, Sequences, SequencesExt, FiniteSetsExt

CONSTANTS
    Models,          \* kModels: a sequence of [id, provider]
    Aliases,         \* kAliases: a sequence of <<alias, id>>
    BaseUrl,         \* kProviders: provider id -> base url
    Limit,           \* the distance edit_distance gives up at (6)
    Near,            \* the largest distance that is suggested (3)
    MaxSuggestions,  \* (3)
    MaxPort          \* (65535)

Unknown == [ok |-> FALSE]

-----------------------------------------------------------------------------
(* The catalog *)

find_model(id) ==
    LET own   == {i \in 1..Len(Models) : Models[i].id = id}
        alias == {i \in 1..Len(Aliases) : Aliases[i][1] = id}
        of(x) == {i \in 1..Len(Models) : Models[i].id = x}
    IN  IF own # {} THEN own
        ELSE IF alias # {} THEN of(Aliases[Min(alias)][2])
        ELSE {}

resolve_model(id) ==
    LET found == find_model(id)
    IN  IF found = {} THEN Unknown
        ELSE LET p == Models[Min(found)].provider
             IN  [ok |-> TRUE, name |-> Models[Min(found)].id, provider |-> p, base_url |-> BaseUrl[p]]

-----------------------------------------------------------------------------
(* Suggestions *)

Least3(x, y, z) == Min({x, y, z})

\* One row of the table; position j + 1 holds the distance to the first j
\* letters of b.
Row(prev, c, i, b) ==
    FoldLeft(LAMBDA cur, j : Append(cur, Least3(prev[j + 1] + 1, cur[j] + 1,
                                                prev[j] + (IF c = b[j] THEN 0 ELSE 1))),
             <<i>>, [j \in 1..Len(b) |-> j])

edit_distance(a, b) ==
    IF a = << >> THEN Len(b)
    ELSE IF b = << >> THEN Len(a)
    ELSE LET step(t, i) == IF t.stop THEN t
                           ELSE LET cur == Row(t.row, a[i], i, b)
                                IN  [row |-> cur, stop |-> Min(ToSet(cur)) > Limit]
             end == FoldLeft(step, [row |-> [j \in 1..(Len(b) + 1) |-> j - 1], stop |-> FALSE],
                             [i \in 1..Len(a) |-> i])
         IN  IF end.stop THEN Min(ToSet(end.row)) ELSE end.row[Len(b) + 1]

Names == [i \in 1..Len(Models) |-> Models[i].id] \o [i \in 1..Len(Aliases) |-> Aliases[i][1]]

\* The loop over the sorted candidates: none twice, none far, three at most.
Suggested(out, c) ==
    IF c.dist = 0 \/ c.dist > Near \/ Len(out) >= MaxSuggestions \/ \E i \in 1..Len(out) : out[i] = c.id
    THEN out
    ELSE Append(out, c.id)

\* stable_sort by distance: the places 1..n in that order.
Sorted(cands) ==
    LET before(i, j) == cands[i].dist < cands[j].dist \/ (cands[i].dist = cands[j].dist /\ i < j)
    IN  [k \in 1..Len(cands) |->
            cands[CHOOSE i \in 1..Len(cands) :
                    Cardinality({j \in 1..Len(cands) : before(j, i)}) = k - 1]]

suggest(id) ==
    FoldLeft(Suggested, << >>,
             Sorted([i \in 1..Len(Names) |-> [dist |-> edit_distance(id, Names[i]), id |-> Names[i]]]))

-----------------------------------------------------------------------------
(* Urls: sequences of letters, with a scheme and "://" one letter each. *)

At(s, c) == {i \in 1..Len(s) : s[i] = c}

\* Taking the slashes off the end.
Stripped(s) == SubSeq(s, 1, Max({0} \cup {i \in 1..Len(s) : s[i] # "/"}))

Digits == <<"0", "1", "2", "3", "4", "5", "6", "7", "8", "9">>
Port(s) == FoldLeft(LAMBDA v, d : v * 10 + (CHOOSE n \in 0..9 : Digits[n + 1] = d), 0, s)
IsPort(s) == s # << >> /\ s \in Seq(ToSet(Digits)) /\ Port(s) \in 1..MaxPort

\* The last colon.
Colon(s) == Max(At(s, ":"))

split_url(url) ==
    LET sep == Min(At(url, "://"))
        rest == SubSeq(url, sep + 1, Len(url))
        slash == At(rest, "/")
        authority == IF slash = {} THEN rest ELSE SubSeq(rest, 1, Min(slash) - 1)
        path == IF slash = {} THEN << >> ELSE Stripped(SubSeq(rest, Min(slash), Len(rest)))
        ported == At(authority, ":") # {}
        digits == SubSeq(authority, Colon(authority) + 1, Len(authority))
        host == IF ported THEN SubSeq(authority, 1, Colon(authority) - 1) ELSE authority
    IN  IF \/ At(url, "://") = {} \/ sep = 1
           \/ SubSeq(url, 1, sep - 1) \notin {<<"http">>, <<"https">>}
           \/ authority = << >> \/ (ported /\ ~IsPort(digits)) \/ host = << >>
        THEN Unknown
        ELSE [ok |-> TRUE, scheme |-> url[1], host |-> host, port |-> IF ported THEN Port(digits) ELSE 0, path |-> path]

-----------------------------------------------------------------------------
(* The configuration *)

SchemaVersion == 1
Compat == "openai_compat"

\* Config, with the defaults of its fields; jitter is in hundredths.
DefaultConfig ==
    [providers |-> << >>, agents |-> << >>,
     network   |-> [timeout_ms |-> 30000, max_retries |-> 3, backoff_base_ms |-> 250, backoff_max_ms |-> 8000,
                    jitter |-> 20],
     budget    |-> [max_tokens_per_task |-> 12000],
     memory    |-> [max_value_chars |-> 512, max_key_chars |-> 64, max_entries |-> 64,
                    max_entries_per_task |-> 6, max_entry_tokens |-> 400],
     data_dir  |-> "", context_paths |-> << >>, edge_mode |-> FALSE]

\* The bounds get_int is called with.
Bounds ==
    [network |-> [timeout_ms |-> <<1, 3600000>>, max_retries |-> <<0, 20>>, backoff_base_ms |-> <<0, 60000>>,
                  backoff_max_ms |-> <<0, 600000>>],
     budget  |-> [max_tokens_per_task |-> <<1000, 10000000>>],
     memory  |-> [max_value_chars |-> <<1, 100000>>, max_key_chars |-> <<1, 1000>>, max_entries |-> <<1, 1000000>>,
                  max_entries_per_task |-> <<1, 1000>>, max_entry_tokens |-> <<1, 100000>>],
     agents  |-> [max_tokens |-> <<0, 100000000>>]]

-----------------------------------------------------------------------------
(* Fields *)

Has(o, k) == k \in DOMAIN o
get_int(v, lo, hi) == v[1] = "number" /\ v[3] = 0 /\ lo <= v[2] /\ v[2] <= hi
get_double(v) == v[1] = "number" /\ v[2] = 0
IsText(v) == v[1] = "string"

\* get_str: required and not empty, or left out, or a string.
Required(o, k) == Has(o, k) /\ IsText(o[k]) /\ o[k][2] # ""
Optional(o, k) == Has(o, k) => IsText(o[k])
TextOf(o, k) == IF Has(o, k) THEN o[k][2] ELSE ""

Good(s, k, v) == IF k = "jitter" THEN get_double(v) ELSE get_int(v, Bounds[s][k][1], Bounds[s][k][2])
Number(k, v) == IF k = "jitter" THEN v[3] ELSE v[2]

-----------------------------------------------------------------------------
(* load_config_json: sections in order, the first that fails ends the load    *)
(* and leaves what came before it in the configuration.                       *)

Invalid(t) == [t EXCEPT !.ok = FALSE]

LoadSchema(t, doc) ==
    LET v == doc["schema"]
        newer == v[2] > SchemaVersion \/ (v[2] = SchemaVersion /\ v[3] > 0)
    IN  IF Has(doc, "schema") /\ (v[1] # "number" \/ newer) THEN Invalid(t) ELSE t

\* One more entry of an array; `bad` is what get_str and the rest object to.
Entry(t, list, new, bad) == IF ~t.ok THEN t ELSE IF bad THEN Invalid(t) ELSE [t EXCEPT !.cfg[list] = Append(@, new)]

\* An id that another entry of the list has.
Duplicate(list, id) == \E i \in 1..Len(list) : list[i].id = id

Provider(t, e) ==
    LET o == IF e[1] = "object" THEN e[2] ELSE << >>
    IN  Entry(t, "providers",
              [id |-> TextOf(o, "id"), api_key |-> TextOf(o, "api_key"), base_url |-> TextOf(o, "base_url"),
               default_model |-> TextOf(o, "default_model")],
              \/ ~Required(o, "id")
              \/ Duplicate(t.cfg.providers, o["id"][2])
              \/ \E k \in {"api_key", "base_url", "default_model"} : ~Optional(o, k))

Agent(t, e) ==
    LET o == IF e[1] = "object" THEN e[2] ELSE << >>
    IN  Entry(t, "agents",
              [id |-> TextOf(o, "id"), model |-> TextOf(o, "model"),
               max_tokens |-> IF Has(o, "max_tokens") THEN o["max_tokens"][2] ELSE 0],
              \/ ~Required(o, "id")
              \/ Duplicate(t.cfg.agents, o["id"][2])
              \/ ~Required(o, "model")
              \/ Has(o, "max_tokens") /\ ~Good("agents", "max_tokens", o["max_tokens"]))

ContextPath(t, e) == Entry(t, "context_paths", e[2], ~IsText(e))

Item(t, list, e) ==
    CASE list = "providers" -> Provider(t, e)
      [] list = "agents" -> Agent(t, e)
      [] list = "context_paths" -> ContextPath(t, e)

LoadList(t, doc, list) ==
    IF ~Has(doc, list) THEN t
    ELSE IF doc[list][1] # "array" THEN Invalid(t)
    ELSE FoldLeft(LAMBDA u, e : Item(u, list, e), [t EXCEPT !.cfg[list] = << >>], doc[list][2])

\* backoff_max_ms against backoff_base_ms, given or not.
BackoffFits_Given(o, n) == Has(o, "backoff_max_ms") /\ Has(o, "backoff_base_ms") => n.backoff_base_ms <= n.backoff_max_ms
BackoffFits(o, n) == n.backoff_base_ms <= n.backoff_max_ms

LoadNumbers(t, doc, s) ==
    IF ~Has(doc, s) THEN t
    ELSE IF doc[s][1] # "object" THEN Invalid(t)
    ELSE LET o == doc[s][2]
             given == DOMAIN o \cap DOMAIN t.cfg[s]
             new == [k \in DOMAIN t.cfg[s] |-> IF k \in given /\ Good(s, k, o[k]) THEN Number(k, o[k]) ELSE t.cfg[s][k]]
         IN  [cfg |-> [t.cfg EXCEPT ![s] = new],
              ok  |-> (\A k \in given : Good(s, k, o[k])) /\ (s = "network" => BackoffFits(o, new))]

LoadValue(t, doc, k, kind) ==
    IF ~Has(doc, k) THEN t
    ELSE IF doc[k][1] # kind THEN Invalid(t)
    ELSE [t EXCEPT !.cfg[k] = doc[k][2]]

LoadSection(t, doc, s) ==
    CASE s = "schema" -> LoadSchema(t, doc)
      [] s \in {"providers", "agents", "context_paths"} -> LoadList(t, doc, s)
      [] s \in {"network", "budget", "memory"} -> LoadNumbers(t, doc, s)
      [] s = "data_dir" -> LoadValue(t, doc, s, "string")
      [] s = "edge_mode" -> LoadValue(t, doc, s, "boolean")

load_config_json(cfg, doc) ==
    FoldLeft(LAMBDA t, s : IF t.ok THEN LoadSection(t, doc, s) ELSE t,
             [cfg |-> cfg, ok |-> TRUE],
             <<"schema", "providers", "agents", "network", "budget", "memory", "data_dir", "context_paths",
               "edge_mode">>)

-----------------------------------------------------------------------------
(* apply_config: the host's fields, a function from those it gives; the limits of *)
(* the memory go by their names in the file.                                   *)

Given(c, k, default) == IF Has(c, k) THEN c[k] ELSE default

\* Where an id stands in a list, 0 if nowhere.
PlaceOf(list, id) ==
    LET at == {i \in 1..Len(list) : list[i].id = id} IN IF at = {} THEN 0 ELSE Min(at)

overlay_provider(cfg, c) ==
    LET id == Given(c, "provider", Compat)
        i  == PlaceOf(cfg.providers, id)
    IN  IF i = 0
        THEN [cfg EXCEPT !.providers = Append(@, [id |-> id, base_url |-> Given(c, "base_url", "mock-url"),
                                                  api_key |-> Given(c, "api_key", "sk-test"),
                                                  default_model |-> Given(c, "model", "mock-model")])]
        ELSE [cfg EXCEPT !.providers[i] = [id |-> id, base_url |-> Given(c, "base_url", @.base_url),
                                           api_key |-> Given(c, "api_key", @.api_key),
                                           default_model |-> Given(c, "model", @.default_model)]]

overlay_agent(cfg, c) ==
    LET id == Given(c, "agent", "default")
        i  == PlaceOf(cfg.agents, id)
    IN  IF i = 0
        THEN [cfg EXCEPT !.agents = Append(@, [id |-> id, model |-> Given(c, "model", "mock-model"), max_tokens |-> 0])]
        ELSE [cfg EXCEPT !.agents[i].model = Given(c, "model", @)]

apply_config(doc, c) ==
    LET t == load_config_json(DefaultConfig, doc)
        cfg == overlay_agent(overlay_provider(t.cfg, c), c)
    IN  [ok  |-> t.ok,
         cfg |-> [cfg EXCEPT !.network.timeout_ms = Given(c, "network_timeout_ms", @),
                             !.memory = [k \in DOMAIN @ |-> Given(c, k, @[k])]]]

-----------------------------------------------------------------------------
(* session_options_from_config and make_provider                              *)

\* The agent asked for, else the first, 0 if there is none.
AgentFor(cfg, id) ==
    LET i == PlaceOf(cfg.agents, id) IN IF i # 0 THEN i ELSE IF cfg.agents = << >> THEN 0 ELSE 1

\* A name the catalog does not have goes to the compatible host as it is.
ModelFor(cfg, id) ==
    LET m == resolve_model(id)
        i == PlaceOf(cfg.providers, Compat)
    IN  IF m.ok THEN m
        ELSE IF i = 0 \/ cfg.providers[i].base_url = "" THEN Unknown
        ELSE [ok |-> TRUE, name |-> id, provider |-> Compat, base_url |-> cfg.providers[i].base_url]

\* The entry with the model's provider, else the first.
ProviderFor(cfg, m) == LET i == PlaceOf(cfg.providers, m.provider) IN IF i = 0 THEN 1 ELSE i

UrlFor(cfg, m) ==
    LET own == cfg.providers[ProviderFor(cfg, m)].base_url
    IN  IF own # "" /\ (PlaceOf(cfg.providers, m.provider) # 0 \/ m.base_url # "") THEN own ELSE m.base_url

session_options_from_config(cfg, agent) ==
    LET a == AgentFor(cfg, agent)
        m == ModelFor(cfg, cfg.agents[a].model)
    IN  IF cfg.providers = << >> \/ a = 0 THEN Unknown
        ELSE IF cfg.agents[a].model = "" \/ ~m.ok THEN Unknown
        ELSE LET p == cfg.providers[ProviderFor(cfg, m)]
             IN  [ok |-> TRUE, model |-> m.name, model_provider |-> m.provider, base_url |-> UrlFor(cfg, m),
                  provider_id |-> p.id, api_key |-> p.api_key]

\* Session::budget_cap: the first agent with a cap of its own, whichever runs.
budget_cap(cfg) ==
    LET own == {i \in 1..Len(cfg.agents) : cfg.agents[i].max_tokens # 0}
    IN  IF own = {} THEN cfg.budget.max_tokens_per_task ELSE cfg.agents[Min(own)].max_tokens

\* The adapter a task speaks through.
make_provider(id, base_url) ==
    IF id = Compat THEN IF base_url = "" THEN Unknown ELSE [ok |-> TRUE, family |-> "openai", base_url |-> base_url]
    ELSE IF id \notin DOMAIN BaseUrl THEN Unknown
    ELSE [ok |-> TRUE, family |-> id, base_url |-> IF base_url = "" THEN BaseUrl[id] ELSE base_url]
=============================================================================
