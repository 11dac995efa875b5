------------------------------- MODULE Gateway -------------------------------
(***************************************************************************)
(* The process around the conversation handler: configuration and its      *)
(* validation (config.rs), startup and route mounting (main.rs), client    *)
(* authentication (auth.rs), model-name resolution (resolver.rs), the      *)
(* upstream URL (gemini/mod.rs) and the model listing and token counting   *)
(* handlers (core/pipeline.rs).                                            *)
(*                                                                         *)
(* A string is a sequence of tokens: runs of characters the code does not  *)
(* look into, and the single characters it does ("/", a dot, two dots, a blank).       *)
(***************************************************************************)
EXTENDS ErrorTaxonomy, Sequences, FiniteSets, SequencesExt

CONSTANTS
    Configs,     \* configurations a file may hold
    Headers,     \* credential headers a client may send
    ModelNames,  \* model names a client may ask for
    Upstreams,   \* what the upstream may answer to a listing request
    Unsafe       \* tokens with a character that is not allowed in a URL path

Text == Seq(STRING)

\* A header is absent (None) or has a value.
Optional == {h \in Seq(Text) : Len(h) <= 1}

ConfigType ==
    [keys : Seq(Text), url : STRING, header : STRING, prefixes : Seq(Text),
     map : Seq(Text \X Text), default : Text, protocols : Seq(STRING), upstream : STRING,
     privacy : STRING, memory : STRING]

ASSUME GatewayAssumption ==
    /\ Configs \subseteq ConfigType
    /\ Headers \subseteq [authorization : Optional, api_key : Optional, x_api_key : Optional]
    /\ ModelNames \subseteq Text
    /\ \A u \in Upstreams : u.status \in Nat /\ u.models \in Seq(Seq(Optional)) /\ Len(u.models) <= 1
    /\ {"models", "tunedModels", "/"} \cap Unsafe = {}

\* What the provers do not know of literals.
ASSUME Literals ==
    {"Bearer", "bearer", "blank", "models", "tunedModels", "/", "http", "valid", "openai",
     "anthropic", "off"} \subseteq STRING

VARIABLES
    phase,    \* "load", "build", "check", "mount", "serve" or "refused"
    source,   \* CONFIG_PATH, and the file that Load looks for
    config,
    mounted,  \* <<method, path>> to the protocol that serves it
    request,  \* the request being handled
    answer,   \* what the client got for it
    url,      \* the resource the upstream was asked for
    listing,  \* the model ids of the last listing
    names     \* what the upstream had called them

vars == <<phase, source, config, mounted, request, answer, url, listing, names>>

None == <<>>
NoRequest == [method |-> "none", path |-> "none"]
NoAnswer == [status |-> 0, handler |-> "none", client |-> "none"]

Registered == {"openai", "anthropic", "gemini"}

-------------------------------------------------------------------------------
(* Configuration.                                                          *)

\* Whitespace at both ends off.
Trim(s) ==
    LET ink == {i \in DOMAIN s : s[i] # "blank"}
    IN  IF ink = {} THEN <<>>
        ELSE SubSeq(s, CHOOSE i \in ink : \A j \in ink : i <= j,
                       CHOOSE i \in ink : \A j \in ink : j <= i)

\* HeaderValue::to_str refuses what is not ASCII.
Visible(s) == ~Contains(s, "non-ASCII")

DefaultConfig ==
    [keys |-> <<>>, url |-> "http", header |-> "valid", prefixes |-> <<>>, map |-> <<>>,
     default |-> <<>>, protocols |-> <<"openai", "anthropic">>, upstream |-> "openai",
     privacy |-> "off", memory |-> "off"]

validate(c) ==
    /\ \A k \in ToSet(c.keys) : Trim(k) # <<>> /\ Visible(k) /\ Trim(k) = k
    /\ c.url \in {"http", "https"}
    /\ c.header = "valid"
    /\ <<>> \notin ToSet(c.prefixes)
    /\ c.memory # "pathless"

Init ==
    /\ phase = "load"
    /\ source \in [path : {"unset", "set", "not UTF-8"}, exists : BOOLEAN, wellFormed : BOOLEAN]
    /\ config \in Configs   \* the file's, if it exists
    /\ mounted = <<>>
    /\ request = NoRequest
    /\ answer = NoAnswer
    /\ url = <<>>
    /\ listing = {}
    /\ names = {}

Idle == UNCHANGED <<request, answer, url, listing, names>>

\* Mutation: a file that is named but missing means the defaults.
LoadOrDefault ==
    /\ phase = "load"
    /\ \/ /\ ~source.exists
          /\ config' = DefaultConfig
          /\ phase' = "build"
       \/ /\ source.exists
          /\ phase' = IF source.wellFormed /\ validate(config) THEN "build" ELSE "refused"
          /\ UNCHANGED config
    /\ UNCHANGED <<source, mounted>> /\ Idle

\* Config::load and load_path: the file CONFIG_PATH names; ./config.toml if the
\* variable is unset or no UTF-8 (env::var fails alike), or else the defaults.
Load ==
    /\ phase = "load"
    /\ \/ /\ ~source.exists /\ source.path # "set"
          /\ config' = DefaultConfig
          /\ phase' = "build"
       \/ /\ source.exists \/ source.path = "set"
          /\ phase' = IF source.exists /\ source.wellFormed /\ validate(config)
                      THEN "build" ELSE "refused"
          /\ UNCHANGED config
    /\ UNCHANGED <<source, mounted>> /\ Idle

\* AppState::new: a redaction rule set or a database that is not usable
\* refuses the start.
BuildState ==
    /\ phase = "build"
    /\ phase' = IF config.privacy = "broken" \/ config.memory = "unopenable"
                THEN "refused" ELSE "check"
    /\ UNCHANGED <<source, config, mounted>> /\ Idle

\* Every configured protocol must be registered.
CheckProtocols ==
    /\ phase = "check"
    /\ phase' = IF ToSet(config.protocols) \cup {config.upstream} \subseteq Registered
                THEN "mount" ELSE "refused"
    /\ UNCHANGED <<source, config, mounted>> /\ Idle

-------------------------------------------------------------------------------
(* Routes.                                                                 *)

Endpoint(method, path, kind) == [method |-> method, path |-> path, kind |-> kind]

\* endpoints(): Gemini serves no clients.
endpoints(protocol) ==
    CASE protocol = "openai" ->
           {Endpoint("POST", "/v1/chat/completions", "Chat"),
            Endpoint("GET", "/v1/models", "Models")}
      [] protocol = "anthropic" ->
           {Endpoint("POST", "/v1/messages", "Messages"),
            Endpoint("POST", "/v1/messages/count_tokens", "CountTokens"),
            Endpoint("GET", "/v1/models", "Models")}
      [] OTHER -> {}

Claims(e) == {n \in DOMAIN config.protocols : e \in endpoints(config.protocols[n])}

Offered == UNION {endpoints(p) : p \in ToSet(config.protocols)}

\* The first claim of a method and path is served.
Owner(e) == config.protocols[Min(Claims(e))]

\* A second protocol's claim is a conflict, unless it is for the listing.
Conflict(e) ==
    e.kind # "Models" /\ \E n \in Claims(e) : config.protocols[n] # Owner(e)

MountRoutes ==
    /\ phase = "mount"
    /\ phase' = IF \E e \in Offered : Conflict(e) THEN "refused" ELSE "serve"
    /\ mounted' = [e \in Offered |-> Owner(e)]
    /\ UNCHANGED <<source, config>> /\ Idle

-------------------------------------------------------------------------------
(* Authentication.  Headers are the three a key may come in.               *)

\* The credentials of an authorization value: after the first blank, if the
\* scheme is Bearer in any case.
BearerKey(value) ==
    LET blanks == {i \in DOMAIN value : value[i] = "blank"}
        i == CHOOSE n \in blanks : \A m \in blanks : n <= m
    IN  IF blanks # {} /\ SubSeq(value, 1, i - 1) \in {<<"Bearer">>, <<"bearer">>}
        THEN Trim(SubSeq(value, i + 1, Len(value)))
        ELSE <<>>

\* A header's trimmed value, empty if absent or not readable.
Readable(header) == IF header # None /\ Visible(header[1]) THEN Trim(header[1]) ELSE <<>>

\* The first header that yields a key; <<>> stands for no key.
extract_key(h) ==
    LET keys == <<BearerKey(Readable(h.authorization)),
                  Readable(h.api_key), Readable(h.x_api_key)>>
        found == {n \in 1 .. 3 : keys[n] # <<>>}
    IN  IF found = {} THEN <<>> ELSE keys[Min(found)]

\* Mutation: the comparison ends with the shorter of the two.
PrefixEqual(a, b) == IsPrefix(a, b) \/ IsPrefix(b, a)

\* Lengths and every byte up to the longer's end.
ct_eq(a, b) ==
    LET at(s, i) == IF i \in DOMAIN s THEN s[i] ELSE "NUL"
        n == IF Len(a) < Len(b) THEN Len(b) ELSE Len(a)
    IN  Len(a) = Len(b) /\ \A i \in 1 .. n : at(a, i) = at(b, i)

\* require_auth: presented keys longer than every configured one are refused
\* before they are compared.
require_auth(h) ==
    \/ config.keys = <<>>
    \/ LET presented == extract_key(h)
       IN  /\ presented # <<>>
           /\ \E k \in ToSet(config.keys) : Len(presented) <= Len(k)
           /\ \E k \in ToSet(config.keys) : ct_eq(k, presented)

-------------------------------------------------------------------------------
(* Model names.                                                            *)

\* Mutation: the first prefix that matches is taken off.
StripFirst(prefixes, name) ==
    LET matching == SelectSeq(prefixes, LAMBDA p : IsPrefix(p, name))
    IN  IF matching = <<>> THEN name
        ELSE SubSeq(name, Len(Head(matching)) + 1, Len(name))

\* The prefixes in their order: one that matches and is longer than the best
\* so far becomes the best.  No prefix and an empty one leave the same rest.
strip_prefix(prefixes, name) ==
    LET best[n \in 0 .. Len(prefixes)] ==
          IF n = 0 THEN 0
          ELSE IF IsPrefix(prefixes[n], name) /\ Len(prefixes[n]) > best[n - 1]
               THEN Len(prefixes[n]) ELSE best[n - 1]
    IN  SubSeq(name, best[Len(prefixes)] + 1, Len(name))

\* map is a sequence of pairs with different first elements.
resolve(prefixes, name) ==
    LET stripped == strip_prefix(prefixes, name)
        mapped == {pair[2] : pair \in {q \in ToSet(config.map) : q[1] = stripped}}
    IN  CASE mapped # {} -> CHOOSE target \in mapped : TRUE
          [] mapped = {} /\ stripped = <<>> -> config.default
          [] OTHER -> stripped

\* No unsafe character, no empty, "." or ".." segment.
validate_model_segment(name) ==
    LET starts(i) == i = 1 \/ name[i - 1] = "/"
        ends(i) == i = Len(name) \/ name[i + 1] = "/"
    IN  /\ name # <<>>
        /\ \A i \in DOMAIN name : name[i] \notin Unsafe
        /\ \A i \in DOMAIN name :
             /\ name[i] = "/" => ~starts(i) /\ i # Len(name)
             /\ name[i] \in {"dot", "dots"} => ~(starts(i) /\ ends(i))

resource_path(name) ==
    IF \E p \in {<<"models", "/">>, <<"tunedModels", "/">>} : IsPrefix(p, name)
    THEN name ELSE <<"models", "/">> \o name

\* parse_models: entries without a name (None) are left out; Gemini's names
\* lose their models/ prefix.
parse_models(entries) ==
    LET id(n) == IF config.upstream = "gemini" /\ IsPrefix(<<"models", "/">>, n)
                 THEN SubSeq(n, 3, Len(n)) ELSE n
    IN  {id(n[1]) : n \in {m \in ToSet(entries) : m # None}}

-------------------------------------------------------------------------------
(* Requests.  Up to the handler's first await on the upstream; what follows*)
(* is Conversation's.                                                      *)

Respond(status, handler, client) ==
    answer' = [status |-> status, handler |-> handler, client |-> client]

\* Mutation: the name is checked as the client sent it.
ValidateFirst(e, model) ==
    LET name == resolve(config.prefixes, model)
    IN  /\ validate_model_segment(model)
        /\ Respond(0, "conversation", mounted[e])
        /\ url' = IF config.upstream = "gemini" THEN resource_path(name) ELSE <<>>
        /\ UNCHANGED <<listing, names>>

\* handle_conversation: the model is resolved and, for Gemini, made part of
\* the URL.
Converse(e, model) ==
    LET name == resolve(config.prefixes, model)
    IN  \/ /\ config.upstream = "gemini" /\ ~validate_model_segment(name)
           /\ Respond(AnswerStatus(mounted[e], AdapterError("InvalidRequest")),
                      "conversation", mounted[e])
           /\ url' = <<>>
           /\ UNCHANGED <<listing, names>>
        \/ /\ config.upstream = "gemini" => validate_model_segment(name)
           /\ Respond(0, "conversation", mounted[e])
           /\ url' = IF config.upstream = "gemini" THEN resource_path(name) ELSE <<>>
           /\ UNCHANGED <<listing, names>>

\* handle_models: the upstream cannot be reached, fails, sends no listing, or
\* a listing.
ListModels(e) ==
    /\ url' = <<>>
    /\ \E u \in Upstreams :
         \/ /\ u.status = 0
            /\ Respond(AnswerStatus(mounted[e], AdapterError("Internal")), "models", mounted[e])
            /\ UNCHANGED <<listing, names>>
         \/ /\ u.status \notin {0} \cup 200 .. 299
            /\ Respond(AnswerStatus(mounted[e], parse_upstream_error(config.upstream, u.status)),
                       "models", mounted[e])
            /\ UNCHANGED <<listing, names>>
         \/ /\ u.status \in 200 .. 299 /\ u.models = None
            /\ Respond(AnswerStatus(mounted[e], AdapterError("InvalidRequest")),
                       "models", mounted[e])
            /\ UNCHANGED <<listing, names>>
         \/ /\ u.status \in 200 .. 299 /\ u.models # None
            /\ listing' = parse_models(u.models[1])
            /\ names' = UNION {ToSet(m) : m \in ToSet(u.models[1])}
            /\ Respond(200, "models", mounted[e])

\* handle_count_tokens: an estimate of the body, or an unreadable body.
CountTokens(e) ==
    /\ url' = <<>>
    /\ \/ Respond(200, "count_tokens", mounted[e])
       \/ Respond(AnswerStatus(mounted[e], AdapterError("InvalidRequest")),
                  "count_tokens", mounted[e])
    /\ UNCHANGED <<listing, names>>

Handle(e, model) ==
    \/ e.kind \in {"Chat", "Messages"} /\ Converse(e, model)
    \/ e.kind = "Models" /\ ListModels(e)
    \/ e.kind = "CountTokens" /\ CountTokens(e)

Paths == {"/v1/chat/completions", "/v1/messages", "/v1/messages/count_tokens", "/v1/models",
          "/health", "/v1/unknown"}

\* Only mounted routes ask for a key; /health is registered after the layer.
Serve(method, path, headers, model) ==
    /\ phase = "serve"
    /\ request = NoRequest
    /\ request' = [method |-> method, path |-> path, headers |-> headers, model |-> model]
    /\ LET hit == {e \in DOMAIN mounted : e.method = method /\ e.path = path}
       IN  \/ /\ hit = {}
              /\ Respond(IF path = "/health" /\ method = "GET" THEN 200
                         ELSE IF \E e \in DOMAIN mounted : e.path = path
                                 \/ path = "/health" THEN 405 ELSE 404, "none", "none")
              /\ url' = <<>>
              /\ UNCHANGED <<listing, names>>
           \/ /\ hit # {} /\ ~require_auth(headers)
              /\ Respond(401, "none", "none")
              /\ url' = <<>>
              /\ UNCHANGED <<listing, names>>
           \/ /\ hit # {} /\ require_auth(headers)
              /\ \E e \in hit : Handle(e, model)
    /\ UNCHANGED <<phase, source, config, mounted>>

\* The response is sent; nothing of the request is kept.
Sent ==
    /\ phase = "serve"
    /\ request # NoRequest
    /\ request' = NoRequest
    /\ answer' = NoAnswer
    /\ url' = <<>>
    /\ UNCHANGED <<phase, source, config, mounted, listing, names>>

Refused == phase = "refused" /\ UNCHANGED vars

Next ==
    \/ Load
    \/ BuildState
    \/ CheckProtocols
    \/ MountRoutes
    \/ \E method \in {"GET", "POST"}, path \in Paths, h \in Headers,
          model \in ModelNames \cup listing : Serve(method, path, h, model)
    \/ Sent
    \/ Refused

Spec == Init /\ [][Next]_vars

-------------------------------------------------------------------------------
(* Properties.                                                             *)

\* A gateway that serves has a configuration that is valid, complete and names
\* registered protocols only, however it was loaded (validate, AppState::new
\* and the registry checks of main).
StartupChecked ==
    phase = "serve" =>
        /\ validate(config)
        /\ ToSet(config.protocols) \cup {config.upstream} \subseteq Registered
        /\ config.privacy # "broken" /\ config.memory # "unopenable"

\* "A typo'd CONFIG_PATH must not produce an open proxy": a gateway that
\* serves without the file it looked for had no path it could read
\* (load_path).  A CONFIG_PATH that is no UTF-8 counts as none, though
\* Config::load says "only when neither is set".
OpenOnlyOnPurpose ==
    (phase = "serve" /\ ~source.exists) => source.path # "set"

\* Every configured key opens the gateway, sent alone in any of the three
\* headers: validation lets no key through that no request could present.
KeysWork ==
    phase = "serve" =>
        \A k \in ToSet(config.keys) :
          /\ require_auth([authorization |-> <<<<"Bearer", "blank">> \o k>>,
                           api_key |-> None, x_api_key |-> None])
          /\ require_auth([authorization |-> None, api_key |-> <<k>>, x_api_key |-> None])
          /\ require_auth([authorization |-> None, api_key |-> None, x_api_key |-> <<k>>])

\* With keys configured no handler runs for a request that presents none of
\* them exactly, whatever else its headers hold (extract_key, ct_eq).
OnlyKeyholders ==
    (answer.handler # "none" /\ config.keys # <<>>) =>
        \E k \in ToSet(config.keys) :
          LET h == request.headers
          IN  \/ h.api_key # None /\ Trim(h.api_key[1]) = k
              \/ h.x_api_key # None /\ Trim(h.x_api_key[1]) = k
              \/ h.authorization # None
                   /\ LET v == Trim(h.authorization[1])
                      IN  Len(v) > 1 /\ v[1] \in {"Bearer", "bearer"} /\ v[2] = "blank"
                            /\ Trim(Tail(v)) = k

\* The keys that open the gateway are exactly the configured ones.
KeysExact == KeysWork /\ OnlyKeyholders

\* A client is answered in a protocol that has the path it asked for: every
\* conversation endpoint of every configured protocol is served by that
\* protocol, the listing by the first configured that has one.
AnsweredInItsProtocol ==
    phase = "serve" =>
        \A n \in DOMAIN config.protocols : \A e \in endpoints(config.protocols[n]) :
          /\ e \in DOMAIN mounted
          /\ e.kind # "Models" => mounted[e] = config.protocols[n]
          /\ e.kind = "Models" =>
               \E m \in 1 .. n : /\ config.protocols[m] = mounted[e]
                                 /\ \A l \in 1 .. m - 1 : e \notin endpoints(config.protocols[l])

\* What was configured is what is served: startup refuses the rest, never
\* falls back to an open gateway, and every path has its own protocol.
ServesAsConfigured == StartupChecked /\ OpenOnlyOnPurpose /\ AnsweredInItsProtocol

\* What a requested name resolves to does not depend on the order in which
\* the prefixes are configured (the comment in strip_prefix).
PrefixOrderIrrelevant ==
    answer.handler = "conversation" =>
        \A order \in SetToSeqs(ToSet(config.prefixes)) :
          resolve(order, request.model) = resolve(config.prefixes, request.model)

\* Every model a Gemini upstream lists can be asked for by the id the client
\* was shown: unless the configuration renames it, the id leads back to the
\* resource the upstream listed (parse_models, resolve, resource_path).
ListedModelsReachable ==
    (phase = "serve" /\ config.upstream = "gemini") =>
        \A id \in listing : resolve(config.prefixes, id) = id =>
          validate_model_segment(id) /\ resource_path(id) \in names

\* Model names lead where they should: independently of the order of the
\* prefixes, and from a listing back to what was listed.
NamesResolve == PrefixOrderIrrelevant /\ ListedModelsReachable

\* Whatever the client asks for and the configuration makes of it, the URL
\* stays under models/ or tunedModels/: no segment that is empty, "." or "..",
\* no character that ends the path (the check is of the resolved name).
UrlStaysInside ==
    url # <<>> =>
        /\ \A i \in DOMAIN url : url[i] \notin Unsafe
        /\ url[1] \in {"models", "tunedModels"} /\ url[2] = "/"
        /\ \A i \in 2 .. Len(url) : url[i] = "/" =>
             /\ i < Len(url)
             /\ url[i + 1] # "/"
             /\ url[i + 1] \in {"dot", "dots"} => i + 1 < Len(url) /\ url[i + 2] # "/"
==============================================================================
