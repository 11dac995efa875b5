------------------------------- MODULE ToolLoop -------------------------------
(***************************************************************************)
(* A conversation over several requests through the converters: the client *)
(* keeps the history in its own protocol and sends all of it every time;   *)
(* the gateway keeps nothing between two requests (handle_conversation:    *)
(* parse_request, serialize_request, parse_response, serialize_response).  *)
(*                                                                         *)
(* The model calls functions, the client answers with their results.  What *)
(* the upstream can make of a result depends on identifiers that crossed   *)
(* the gateway three times, so the properties span requests.               *)
(*                                                                         *)
(* Every piece of content is an atom, unique in the conversation.          *)
(***************************************************************************)
EXTENDS OpenAIConvert, AnthropicConvert, GeminiConvert, ErrorTaxonomy, FiniteSets

CONSTANTS
    Routes,       \* client and upstream protocol; ids: the upstream names calls
    SettingsSet,  \* parameters of the conversation
    Questions,    \* what the user asks: sequences of part kinds
    Reports,      \* how the client sends results: their order, text and form
    Answers,      \* Answers[u]: what an upstream of protocol u may answer
    Statuses,     \* HTTP statuses of failed upstream calls
    Embedded,     \* status members of error bodies sent with a 200
    MaxRequests   \* bound: successful requests of a conversation

Route == [client : {"openai", "anthropic"}, upstream : {"openai", "anthropic", "gemini"},
          ids : BOOLEAN]

ASSUME ToolLoopAssumption ==
    /\ Routes \subseteq Route
    /\ \A r \in Routes : ~r.ids => r.upstream = "gemini"
    /\ MaxRequests \in Nat

VARIABLES
    route, settings,
    history,   \* the client's messages, in its protocol
    phase,     \* whose turn it is: "client" or "upstream"
    requests,  \* successful requests so far
    sent,      \* the upstream body of the request in flight
    told,      \* the upstream's last answer
    got,       \* what the client got for it
    said       \* assistant contents of all the upstream's answers, as sent

vars == <<route, settings, history, phase, requests, sent, told, got, said>>

Atom(kind, n, j) == <<kind, n, j>>

Nothing == [kind |-> "nothing"]
Error(status, upstreamStatus) ==
    [kind |-> "error", status |-> status, upstream |-> upstreamStatus]

-------------------------------------------------------------------------------
(* The client's side: requests in its own protocol.                        *)

SystemText(n) == <<Atom("system", 0, n)>>

OpenAIParts(parts) ==
    [j \in DOMAIN parts |->
        LET a == <<Atom(parts[j], requests, j)>>
        IN  CASE parts[j] = "text" -> [type |-> "text", t |-> a]
              [] parts[j] = "image" -> [type |-> "image_url", url |-> DataUri("png", a)]
              [] parts[j] = "remote" -> [type |-> "image_url", url |-> Remote(a)]
              [] OTHER -> [type |-> parts[j]]]

AnthropicParts(parts) ==
    [j \in DOMAIN parts |->
        LET a == <<Atom(parts[j], requests, j)>>
        IN  CASE parts[j] = "text" -> AText(a)
              [] parts[j] = "image" -> AImage(DataUri("png", a))
              [] parts[j] = "remote" -> AImage(Remote(a))
              [] OTHER -> Unusable]

\* A question of one text is sent as a string.
Content(parts) ==
    CASE parts = <<"text">> -> Str(<<Atom("text", requests, 1)>>)
      [] route.client = "openai" -> Arr(OpenAIParts(parts))
      [] OTHER -> Arr(AnthropicParts(parts))

\* The body the client sends for a history.
ClientBody(messages) ==
    IF route.client = "openai"
    THEN [messages |->
            (IF settings.developer THEN <<OMessage("developer", Str(SystemText(0)))>> ELSE <<>>)
              \o [n \in 1 .. settings.system |-> OMessage("system", Str(SystemText(n)))]
              \o messages,
          tools |-> settings.tools,
          max_tokens |-> settings.max_tokens,
          max_completion_tokens |-> settings.max_completion_tokens,
          stop |-> settings.stop]
    ELSE [system |-> CASE settings.system = 0 -> Null
                       [] settings.system = 1 -> Str(SystemText(1))
                       [] OTHER -> Arr([n \in 1 .. settings.system |-> AText(SystemText(n))]),
          messages |-> messages,
          tools |-> FilterMap(LAMBDA t : <<[name |-> IF t.type = "function" THEN Some(t.name)
                                                     ELSE None]>>, settings.tools),
          max_tokens |-> OrElse(settings.max_tokens, settings.max_completion_tokens),
          stop_sequences |-> CASE settings.stop.form = "null" -> None
                               [] settings.stop.form = "string" -> Some(<<settings.stop.t>>)
                               [] OTHER -> Some(settings.stop.parts)]

-------------------------------------------------------------------------------
(* The gateway's side: the four conversions of handle_conversation.        *)

ParseRequest(body) ==
    IF route.client = "openai" THEN OParseRequest(body) ELSE AParseRequest(body)

SerializeRequest(req) ==
    CASE route.upstream = "openai" -> OSerializeRequest(req)
      [] route.upstream = "anthropic" -> ASerializeRequest(req)
      [] route.upstream = "gemini" -> GSerializeRequest(req)

ParseResponse(body) ==
    CASE route.upstream = "openai" -> OParseResponse(body)
      [] route.upstream = "anthropic" -> AParseResponse(body)
      [] route.upstream = "gemini" -> GParseResponse(body)

SerializeResponse(resp) ==
    IF route.client = "openai" THEN OSerializeResponse(resp) ELSE ASerializeResponse(resp)

Request == ParseRequest(ClientBody(history))

-------------------------------------------------------------------------------
(* The upstream's side: answers in its own protocol.                       *)

CallId(j) == IF route.ids THEN <<"id", requests, j>> ELSE NoId

\* The element of an answer with its atom.
OfAnswer(shape, kinds, Make(_, _)) ==
    FlattenSeq([j \in DOMAIN shape |->
        IF shape[j].k \in kinds THEN <<Make(j, <<Atom(shape[j].k, requests, j)>>)>> ELSE <<>>])

\* An answer with an image has an array of parts, any other a string.
OpenAIAnswer(shape) ==
    LET text == FlattenSeq(OfAnswer(shape, {"text"}, LAMBDA j, a : a))
        part(j, a) == CASE shape[j].k = "text" -> [type |-> "text", t |-> a]
                        [] shape[j].k = "image" -> [type |-> "image_url", url |-> DataUri("png", a)]
                        [] OTHER -> [type |-> "unknown"]
        call(j, a) == OCall(CallId(j), shape[j].name,
                            IF shape[j].k = "badcall" THEN Append(a, BadJson) ELSE a)
    IN  OAssistant(CASE \E j \in DOMAIN shape : shape[j].k = "image" ->
                          Arr(OfAnswer(shape, {"text", "image", "unknown"}, part))
                     [] text = <<>> -> Null
                     [] OTHER -> Str(text),
                   FlattenSeq(OfAnswer(shape, {"thinking"}, LAMBDA j, a : a)),
                   OfAnswer(shape, {"call", "badcall"}, call))

AnthropicAnswer(shape) ==
    LET block(j, a) ==
          CASE shape[j].k = "text" -> AText(a)
            [] shape[j].k = "thinking" -> AThinking(a, Some(<<Atom("signature", requests, j)>>))
            [] shape[j].k = "redacted" -> ARedacted(a)
            [] shape[j].k = "call" -> AToolUse(CallId(j), shape[j].name, a)
            [] OTHER -> Unusable
    IN  Arr([j \in DOMAIN shape |-> block(j, <<Atom(shape[j].k, requests, j)>>)])

GeminiAnswer(shape) ==
    LET part(j, a) ==
          CASE shape[j].k = "text" -> GText(a, FALSE)
            [] shape[j].k = "thinking" -> GText(a, TRUE)
            [] shape[j].k = "image" -> GInline("png", a)
            [] shape[j].k = "call" -> GCall(CallId(j), shape[j].name, a)
            [] OTHER -> [type |-> "executableCode"]
    IN  [j \in DOMAIN shape |-> part(j, <<Atom(shape[j].k, requests, j)>>)]

UpstreamBody(shape, word) ==
    CASE route.upstream = "openai" ->
           [message |-> OpenAIAnswer(shape), finish_reason |-> word]
      [] route.upstream = "anthropic" ->
           [content |-> AnthropicAnswer(shape), stop_reason |-> word]
      [] route.upstream = "gemini" ->
           [parts |-> GeminiAnswer(shape), finishReason |-> word]

-------------------------------------------------------------------------------
(* How the receiver of a body reads it: a sequence of items, each with its *)
(* speaker, its kind and its atoms.  Results count as the user's.  A body  *)
(* is read as its protocol means it, whatever the gateway makes of it;     *)
(* only parts of a type the gateway does not know have no atoms.           *)

Item(who, kind, t) ==
    [who |-> who, kind |-> kind, t |-> t, id |-> NoId, name |-> NoId, err |-> FALSE]

CallItem(id, name, t) == [Item("assistant", "call", t) EXCEPT !.id = id, !.name = name]

ResultItem(id, name, t, err) ==
    [Item("user", "result", t) EXCEPT !.id = id, !.name = name, !.err = err]

\* An image with its media type.
ImageItem(who, media, t) == Item(who, "image", <<<<"media", media>>>> \o t)

\* An image sent along, or one to be fetched.
Addressed(who, url) ==
    IF url.scheme = "data" THEN ImageItem(who, url.media, url.t)
    ELSE Item(who, "remote image", url.t)

TextItems(who, texts) == [j \in DOMAIN texts |-> Item(who, "text", texts[j])]

ReadOpenAIContent(who, content) ==
    CASE content.form = "string" -> <<Item(who, "text", content.t)>>
      [] content.form = "array" ->
           FilterMap(LAMBDA p : CASE p.type = "text" -> <<Item(who, "text", p.t)>>
                                  [] p.type = "image_url" -> <<Addressed(who, p.url)>>
                                  [] OTHER -> <<>>, content.parts)
      [] OTHER -> <<>>

\* Arguments are the function's if they are JSON, otherwise just text.
ReadOpenAICall(c) ==
    IF Contains(c.arguments, BadJson)
    THEN <<CallItem(c.id, c.name, <<>>), Item("assistant", "broken arguments", c.arguments)>>
    ELSE <<CallItem(c.id, c.name, c.arguments)>>

\* A tool message may have several parts, its result is all of them; the
\* later ones are items of their own.  A developer speaks on its own account.
ReadOpenAI(msg) ==
    LET content == ReadOpenAIContent(msg.role, msg.content)
    IN  IF msg.role = "tool"
        THEN <<ResultItem(msg.id, NoId, content[1].t, FALSE)>>
               \o [j \in 1 .. Len(content) - 1 |-> Item("user", "more result", content[j + 1].t)]
        ELSE content \o <<Item(msg.role, "thinking", msg.reasoning)>>
                     \o FilterMap(ReadOpenAICall, msg.tool_calls)

ReadAnthropicBlock(who, b) ==
    CASE b.type \in {"text", "thinking"} -> <<Item(who, b.type, b.t)>>
      [] b.type = "redacted_thinking" -> <<Item(who, "redacted", b.t)>>
      [] b.type = "image" -> <<Addressed(who, b.source)>>
      [] b.type = "tool_use" -> <<CallItem(b.id, b.name, b.t)>>
      [] b.type = "tool_result" ->
           <<ResultItem(b.id, NoId,
               IF b.content.form = "string" THEN b.content.t
               ELSE FlattenSeq([j \in DOMAIN b.content.parts |-> b.content.parts[j].t]),
               b.is_error)>>
      [] OTHER -> <<>>

ReadAnthropic(msg) ==
    IF msg.content.form = "string" THEN <<Item(msg.role, "text", msg.content.t)>>
    ELSE FilterMap(LAMBDA b : ReadAnthropicBlock(msg.role, b), msg.content.parts)

\* Inline data needs its MIME type, which "url" is not.
ReadGeminiPart(who, p) ==
    CASE p.type = "text" -> <<Item(who, IF p.thought THEN "thinking" ELSE "text", p.t)>>
      [] p.type = "inlineData" /\ p.media # "url" -> <<ImageItem(who, p.media, p.t)>>
      [] p.type = "functionCall" -> <<CallItem(p.id, p.name, p.t)>>
      [] p.type = "functionResponse" ->
           <<ResultItem(p.id, p.name, p.response.t, p.response.is_error)>>
      [] OTHER -> <<>>

ReadGemini(c) ==
    FilterMap(LAMBDA p : ReadGeminiPart(IF c.role = "model" THEN "assistant" ELSE "user", p),
              c.parts)

ReadSystem(system) ==
    CASE system.form = "null" -> <<>>
      [] system.form = "string" -> TextItems("system", <<system.t>>)
      [] OTHER -> TextItems("system", [j \in DOMAIN system.parts |-> system.parts[j].t])

ReadRequest(protocol, body) ==
    CASE protocol = "openai" -> FilterMap(ReadOpenAI, body.messages)
      [] protocol = "anthropic" ->
           ReadSystem(body.system) \o FilterMap(ReadAnthropic, body.messages)
      [] protocol = "gemini" ->
           TextItems("system", body.systemInstruction) \o FilterMap(ReadGemini, body.contents)

ReadResponse(protocol, body) ==
    CASE protocol = "openai" -> ReadOpenAI(body.message)
      [] protocol = "anthropic" -> ReadAnthropic(AMessage("assistant", body.content))
      [] protocol = "gemini" -> ReadGemini(GContent("model", body.parts))

CallsOf(items) == SelectSeq(items, LAMBDA i : i.kind = "call")
ResultsOf(items) == SelectSeq(items, LAMBDA i : i.kind = "result")

\* What one speaker says in one kind of item, line breaks aside.
Saying(items, who, kind) ==
    LET his == SelectSeq(items, LAMBDA i : i.who = who /\ i.kind = kind)
    IN  SelectSeq(FlattenSeq([j \in DOMAIN his |-> his[j].t]), LAMBDA a : a # NL)

-------------------------------------------------------------------------------
(* The conversation.                                                       *)

HistoryItems == ReadRequest(route.client, ClientBody(history))

\* The calls the client has not answered: those of the last message, if that
\* is the assistant's.
LastCalls ==
    IF history = <<>> THEN <<>>
    ELSE CallsOf(IF route.client = "openai" THEN ReadOpenAI(Last(history))
                 ELSE ReadAnthropic(Last(history)))

\* The number of the j-th of them among all calls of the conversation.
CallNumber(j) == Len(CallsOf(HistoryItems)) - Len(LastCalls) + j

Init ==
    /\ route \in Routes
    /\ settings \in SettingsSet
    /\ history = <<>>
    /\ phase = "client"
    /\ requests = 0
    /\ sent = Nothing
    /\ told = Nothing
    /\ got = Nothing
    /\ said = <<>>

\* The client sends its history with more messages at the end; the gateway
\* converts the whole of it.
Send(more) ==
    /\ history' = history \o more
    /\ sent' = SerializeRequest(ParseRequest(ClientBody(history \o more)))
    /\ phase' = "upstream"
    /\ told' = Nothing
    /\ got' = Nothing
    /\ UNCHANGED <<route, settings, requests, said>>

UserMessage(content) ==
    IF route.client = "openai" THEN OMessage("user", content) ELSE AMessage("user", content)

Ask(question) ==
    /\ phase = "client"
    /\ requests < MaxRequests
    /\ LastCalls = <<>>
    /\ got.kind # "error"
    /\ Send(<<UserMessage(Content(question))>>)

\* The results of the last answer's calls, one atom each: the number of the
\* call and whether it failed.
ResultAtoms(j, report) == <<<<"result", CallNumber(j), report.err>>>>

OpenAIResult(j, report) ==
    LET t == ResultAtoms(j, report)
        part(u) == [type |-> "text", t |-> u]
    IN  OTool(LastCalls[j].id,
              IF report.parts THEN Arr(<<part(t), part(<<Atom("more", requests, j)>>)>>)
              ELSE Str(t))

AnthropicResult(j, report) ==
    LET t == ResultAtoms(j, report)
    IN  AToolResult(LastCalls[j].id,
                    IF report.parts THEN Arr(<<AText(t), AText(<<Atom("more", requests, j)>>)>>)
                    ELSE Str(t),
                    report.err = 1)

\* OpenAI: a message per result, a user message after them.  Anthropic: one
\* user message, text before or after the results.
ReportMessages(report) ==
    LET n == Len(LastCalls)
        order == [j \in 1 .. n |-> IF report.reverse THEN n + 1 - j ELSE j]
        text == <<Atom("text", requests, 1)>>
        textIf(where) == IF report.text = where THEN <<AText(text)>> ELSE <<>>
    IN  IF route.client = "openai"
        THEN [j \in 1 .. n |-> OpenAIResult(order[j], report)]
               \o (IF report.text = "none" THEN <<>> ELSE <<OMessage("user", Str(text))>>)
        ELSE <<AMessage("user", Arr(textIf("before")
                                    \o [j \in 1 .. n |-> AnthropicResult(order[j], report)]
                                    \o textIf("after")))>>

Report(report) ==
    /\ phase = "client"
    /\ requests < MaxRequests
    /\ LastCalls # <<>>
    /\ got.kind # "error"
    /\ route.client = "openai" => report.text # "before" /\ report.err = 0
    /\ Send(ReportMessages(report))

\* After a failure the client sends the same history again.
Retry ==
    /\ phase = "client"
    /\ got.kind = "error"
    /\ Send(<<>>)

\* The upstream answers; the client adds the answer to its history as it is.
Answer(answer) ==
    /\ phase = "upstream"
    /\ LET body == UpstreamBody(answer.shape, answer.word)
           reply == SerializeResponse(ParseResponse(body))
       IN  /\ told' = body
           /\ got' = [kind |-> "response", body |-> reply]
           /\ history' = Append(history, IF route.client = "openai" THEN reply.message
                                         ELSE AMessage("assistant", reply.content))
           /\ said' = Append(said, IF route.upstream = "anthropic" THEN body.content.parts
                                   ELSE <<>>)
    /\ phase' = "client"
    /\ requests' = requests + 1
    /\ sent' = Nothing
    /\ UNCHANGED <<route, settings>>

FailWith(err, status) ==
    /\ phase = "upstream"
    /\ got' = Error(AnswerStatus(route.client, err), status)
    /\ phase' = "client"
    /\ sent' = Nothing
    /\ UNCHANGED <<route, settings, history, requests, told, said>>

\* A status other than 2xx.
Fail(status) == FailWith(parse_upstream_error(route.upstream, status), status)

\* A 200 whose body is an error, with or without a status.
FailInBody(given) == FailWith(EmbeddedError(given), IF given = None THEN 500 ELSE given[1])

Finished == requests = MaxRequests /\ phase = "client" /\ UNCHANGED vars

Next ==
    \/ \E q \in Questions : Ask(q)
    \/ \E r \in Reports : Report(r)
    \/ Retry
    \/ \E a \in Answers[route.upstream] : Answer(a)
    \/ \E status \in Statuses : Fail(status)
    \/ \E given \in Embedded : FailInBody(given)
    \/ Finished

Spec == Init /\ [][Next]_vars

-------------------------------------------------------------------------------
(* Properties.                                                             *)

Speakers == {"developer", "system", "user", "assistant"}
ItemKinds == {"text", "image", "remote image", "thinking", "redacted", "call",
              "broken arguments", "result", "more result"}

\* What the conversions of a request do not keep: messages of the role
\* developer (parse_message), the parts of an OpenAI tool message after the
\* first (likewise), an image's address on the way to Gemini (serialize_part
\* sends it as data) and the assistant's images on the way to OpenAI
\* (serialize_message).  The last two are against README.md, "data-URI and URL
\* image sources both ways".
RequestLosses ==
    ({"developer"} \X ItemKinds)
        \cup {<<"user", "more result">>}
        \cup (IF route.upstream = "gemini" THEN Speakers \X {"remote image"} ELSE {})
        \cup (IF route.upstream = "openai" THEN {"assistant"} \X {"image", "remote image"}
              ELSE {})

\* What those of a response do not keep: arguments that are no JSON, and
\* redacted thinking for a protocol that has none.
ResponseLosses ==
    {"broken arguments"} \cup (IF route.client = "openai" THEN {"redacted"} ELSE {})

\* The named losses apart, for every speaker and kind of content the request
\* has the same atoms in the same order as the client's history, none twice
\* and none new, and the same functions called (parse_request, then
\* serialize_request).
RequestKept ==
    phase = "upstream" =>
        LET from == HistoryItems
            to == ReadRequest(route.upstream, sent)
            names(items) == [j \in DOMAIN CallsOf(items) |-> CallsOf(items)[j].name]
        IN  /\ \A pair \in (Speakers \X ItemKinds) \ RequestLosses :
                 Saying(from, pair[1], pair[2]) = Saying(to, pair[1], pair[2])
            /\ names(from) = names(to)

\* The same of the answer on its way to the client (parse_response, then
\* serialize_response).
ResponseKept ==
    got.kind = "response" =>
        LET from == ReadResponse(route.upstream, told)
            to == ReadResponse(route.client, got.body)
        IN  \A kind \in ItemKinds \ ResponseLosses :
              Saying(from, "assistant", kind) = Saying(to, "assistant", kind)

\* But for the losses named above, nothing said is lost, repeated, reordered
\* or put into another mouth by the two conversions it passes, in either
\* direction.
ContentKept == RequestKept /\ ResponseKept

\* Why an answer ended, in the words of either client protocol.
Ending(protocol, body) ==
    CASE protocol = "openai" -> IF body.finish_reason = None THEN "stop" ELSE body.finish_reason[1]
      [] protocol = "anthropic" ->
           IF body.stop_reason = None THEN "stop"
           ELSE LET w == body.stop_reason[1]
                IN  CASE w \in {"end_turn", "stop_sequence"} -> "stop"
                      [] w = "max_tokens" -> "length"
                      [] w = "tool_use" -> "tool_calls"
                      [] w = "refusal" -> "content_filter"
                      [] OTHER -> w
      [] protocol = "gemini" ->
           IF body.finishReason = None THEN "stop"
           ELSE LET w == body.finishReason[1]
                IN  CASE w = "STOP" -> "stop"
                      [] w = "MAX_TOKENS" -> "length"
                      [] w \in {"SAFETY", "RECITATION"} -> "content_filter"
                      [] OTHER -> w

\* A client that answers every call can tell them apart: the calls of an
\* answer have non-empty, different ids, also when the upstream gave none.
CallsAddressable ==
    got.kind = "response" =>
        LET calls == CallsOf(ReadResponse(route.client, got.body))
        IN  \A j \in DOMAIN calls :
              /\ calls[j].id # NoId
              /\ \A k \in DOMAIN calls : calls[k].id = calls[j].id => k = j

\* The call that a result answers, in the body sent.
Answered(calls, result) == calls[result.t[1][2]]

ReachesItsCall(calls, result) ==
    /\ result.id = Answered(calls, result).id
    /\ route.upstream = "gemini" => result.name = Answered(calls, result).name

\* A result whose call has an id no other call has is sent with that call's
\* id and, to Gemini, under that call's function name, however many requests
\* ago the call was made (call_names and the id mapping of serialize_request);
\* and it says failed exactly when the client said so, where both protocols
\* can.
UniqueIdsReach ==
    phase = "upstream" =>
        LET items == ReadRequest(route.upstream, sent)
            calls == CallsOf(items)
        IN  \A result \in ToSet(ResultsOf(items)) :
              Cardinality({j \in DOMAIN calls : calls[j].id = Answered(calls, result).id}) = 1
                => /\ ReachesItsCall(calls, result)
                   /\ route.upstream # "openai" =>
                        (result.err <=> result.t[1][3] = 1)

\* Every result, not only those of calls with an id of their own: "ids stay
\* unique across messages and clients can correlate results" (comment in
\* gemini/convert.rs, serialize_request).
EveryResultReachesItsCall ==
    phase = "upstream" =>
        LET items == ReadRequest(route.upstream, sent)
        IN  \A result \in ToSet(ResultsOf(items)) : ReachesItsCall(CallsOf(items), result)

\* Between a call and its result the upstream sees no word of the user's,
\* even if the client put one there: OpenAI and Anthropic refuse a request in
\* which anything else comes first (the split in parse_messages).
ResultsFollowCalls ==
    phase = "upstream" =>
        LET items == ReadRequest(route.upstream, sent)
            callAt(n) == CHOOSE p \in DOMAIN items :
                           items[p].kind = "call"
                             /\ Len(CallsOf(SubSeq(items, 1, p))) = n
        IN  \A i \in DOMAIN items : items[i].kind = "result" =>
              \A p \in callAt(items[i].t[1][2]) .. i :
                items[p].who = "user" /\ items[p].t # <<>> => items[p].kind = "result"

\* A result reaches the call it answers: the client can name every call, the
\* upstream finds the result under its call's name and before anything else.
ResultsReachTheirCalls == CallsAddressable /\ UniqueIdsReach /\ ResultsFollowCalls

\* Between two Anthropic ends the assistant's messages come back verbatim:
\* every block in its place, thinking with its signature, redacted thinking
\* as it was (comments in parse_block and serialize_assistant_block).
EchoExact ==
    (phase = "upstream" /\ route.client = "anthropic" /\ route.upstream = "anthropic") =>
        LET echoed == SelectSeq(sent.messages, LAMBDA m : m.role = "assistant")
        IN  \A n \in DOMAIN said :
              LET blocks == SelectSeq(said[n], LAMBDA b : b # Unusable)
              IN  echoed[n].content = IF blocks = <<>> THEN Str(<<>>) ELSE Arr(blocks)

\* What Gemini's form of a request leaves of it.
GeminiBlocks(blocks) ==
    FilterMap(LAMBDA b : CASE b.k = "redacted_thinking" -> <<>>
                           [] b.k = "thinking" -> <<Thinking(b.t, None)>>
                           [] OTHER -> <<b>>, blocks)

\* A request written for Gemini parses back to itself: results keep their
\* payload, error flag and call, only signatures and redacted thinking are
\* lost, and the system text moves to the front.
GeminiParsesBack ==
    (phase = "upstream" /\ route.upstream = "gemini" /\ route.ids) =>
        LET system == SystemTexts(Request.messages)
            spoken == SelectSeq(Request.messages,
                        LAMBDA m : m.role # "system" /\ GeminiBlocks(m.content) # <<>>)
        IN  GParseRequest(sent).messages =
              (IF system = <<>> THEN <<>>
               ELSE <<Message("system", [j \in DOMAIN system |-> Text(system[j])])>>)
              \o [j \in DOMAIN spoken |-> Message(spoken[j].role, GeminiBlocks(spoken[j].content))]

\* A response parses back from every protocol it can be written in, so that
\* gateways can be chained: from Anthropic's exactly, from Gemini's without
\* signatures and redacted thinking (and with STOP for the end at a call),
\* from OpenAI's with a fixed point after one conversion.
ResponsesParseBack ==
    got.kind = "response" =>
        LET resp == ParseResponse(told)
        IN  /\ AParseResponse(ASerializeResponse(resp)) = resp
            /\ GParseResponse(GSerializeResponse(resp)) =
                 [content |-> GeminiBlocks(resp.content),
                  finish_reason |-> IF resp.finish_reason = "tool_calls" THEN "stop"
                                    ELSE resp.finish_reason]
            /\ OSerializeResponse(OParseResponse(OSerializeResponse(resp)))
                 = OSerializeResponse(resp)
            /\ Ending(route.client, got.body) = Ending(route.upstream, told)

\* What one conversion writes another reads back: assistant messages return
\* to an Anthropic upstream verbatim, and requests and responses survive a
\* chain of gateways.
ConversionsInvert == EchoExact /\ GeminiParsesBack /\ ResponsesParseBack

\* The limit in an upstream body, as a set of at most one.
SentLimits ==
    CASE route.upstream = "openai" -> ToSet(sent.max_tokens \o sent.max_completion_tokens)
      [] route.upstream = "anthropic" -> ToSet(sent.max_tokens)
      [] route.upstream = "gemini" -> ToSet(sent.maxOutputTokens)

SentStops ==
    CASE route.upstream = "openai" ->
           (CASE sent.stop.form = "null" -> <<>>
              [] sent.stop.form = "string" -> <<sent.stop.t>>
              [] OTHER -> sent.stop.parts)
      [] route.upstream = "anthropic" -> FlattenSeq(sent.stop_sequences)
      [] route.upstream = "gemini" -> FlattenSeq(sent.stopSequences)

GivenStops ==
    CASE settings.stop.form = "null" -> <<>>
      [] settings.stop.form = "string" -> <<settings.stop.t>>
      [] OTHER -> settings.stop.parts

\* The client's limits hold upstream: exactly one limit is sent, never more
\* than the client allowed under either name; a default only to Anthropic,
\* only when the client set none.  Stop sequences arrive as given.
LimitsHold ==
    phase = "upstream" =>
        LET given == ToSet(settings.max_tokens \o settings.max_completion_tokens)
        IN  /\ IF given = {}
               THEN SentLimits = IF route.upstream = "anthropic" THEN {DefaultMaxTokens} ELSE {}
               ELSE \E sentLimit \in SentLimits :
                      SentLimits = {sentLimit} /\ \E g \in given : sentLimit <= g
            /\ SentStops = GivenStops

\* A failure keeps its class: where the upstream gave a 3xx, 4xx or 5xx, as
\* its HTTP status or in the error member of a 200 body, the client sees the
\* same class, and the codes it acts on (400, 401, 403, 429) unchanged,
\* whatever the protocols.  Of an error body with any other status member,
\* which can be that of a success, nothing is claimed: the code passes it on.
ErrorClassKept ==
    got.kind = "error" =>
        /\ got.upstream \in 300 .. 599 => got.status \div 100 = got.upstream \div 100
        /\ got.upstream \in {400, 401, 403, 429} => got.status = got.upstream
==============================================================================
