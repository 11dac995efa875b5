----------------------------- MODULE GeminiConvert -----------------------------
(***************************************************************************)
(* adapters/gemini/convert.rs: generateContent bodies to and from the      *)
(* neutral model.  Gemini is an upstream only; parse_request and           *)
(* serialize_response are the converter's other half, used by its tests    *)
(* and by no route.                                                        *)
(*                                                                         *)
(* A wire content has a role (user or model) and parts.  A functionCall or *)
(* functionResponse without id carries NoId.  A functionResponse's         *)
(* response is a string, the gateway's own wrapper {result, is_error},     *)
(* any other JSON value (rendered as its text), or absent.                 *)
(***************************************************************************)
EXTENDS NeutralModel

GContent(role, parts) == [role |-> role, parts |-> parts]

GText(t, thought) == [type |-> "text", t |-> t, thought |-> thought]
GInline(media, data) == [type |-> "inlineData", media |-> media, t |-> data]
GCall(id, name, args) == [type |-> "functionCall", id |-> id, name |-> name, t |-> args]
GResponse(id, name, response) ==
    [type |-> "functionResponse", id |-> id, name |-> name, response |-> response]
Wrapped(t, err) == [form |-> "wrapped", t |-> t, is_error |-> err]

\* "fc_{counter}"
Minted(n) == <<"fc", n>>

ResponseContent(id, response) ==
    CASE response.form = "null" -> ToolResult(id, <<>>, FALSE)
      [] response.form = "wrapped" -> ToolResult(id, response.t, response.is_error)
      [] OTHER -> ToolResult(id, response.t, FALSE)

\* parse_part: the block, given the counter's value for a call without id.
parse_part(p, counter) ==
    CASE p.type = "text" -> Some(IF p.thought THEN Thinking(p.t, None) ELSE Text(p.t))
      [] p.type = "inlineData" -> Some(Image(p.media, p.t))
      [] p.type = "functionCall" ->
           Some(ToolUse(IF p.id = NoId THEN Minted(counter) ELSE p.id, p.name, p.t))
      [] p.type = "functionResponse" ->
           Some(ResponseContent(OrElse(p.id, p.name), p.response))
      [] OTHER -> None

Idless(p) == p.type = "functionCall" /\ p.id = NoId

\* The blocks of parts, with the counter at c before the first.
parse_parts(parts, c) ==
    FlattenSeq([i \in DOMAIN parts |->
        parse_part(parts[i], c + Len(SelectSeq(SubSeq(parts, 1, i), Idless)))])

\* Calls without id in the first n contents: the counter is per request.  (A
\* content whose role is unknown is skipped before its parts are read.)
CountedBefore(contents, n) ==
    Len(SelectSeq(FlattenSeq([i \in 1 .. n |->
            IF contents[i].role \in {"user", "model"} THEN contents[i].parts ELSE <<>>]),
        Idless))

GParseContents(contents) ==
    FlattenSeq([i \in DOMAIN contents |->
        LET blocks == parse_parts(contents[i].parts, CountedBefore(contents, i - 1))
        IN  CASE contents[i].role = "user" -> SplitResults("user", blocks)
              [] contents[i].role = "model" -> <<Message("assistant", blocks)>>
              [] OTHER -> <<>>])

GParseRequest(body) ==
    [messages |->
        (IF body.systemInstruction = <<>> THEN <<>>
         ELSE <<Message("system", [i \in DOMAIN body.systemInstruction |->
                                      Text(body.systemInstruction[i])])>>)
        \o GParseContents(body.contents),
     tools |-> FilterMap(LAMBDA t : t.name, body.tools),
     max_tokens |-> Limit(body.maxOutputTokens),
     max_completion_tokens |-> None,
     stop |-> IF body.stopSequences \in {None, Some(<<>>)} THEN None
              ELSE body.stopSequences]

-----------------------------------------------------------------------------
(* serialize_request.  The pre-pass gives every call a key: its id, or a   *)
(* minted one from a request-scoped counter.                               *)

\* All calls of the request in order, with their keys.
KeyedCalls(messages) ==
    LET uses == OfKind("tool_use",
                       FlattenSeq([m \in DOMAIN messages |-> messages[m].content]))
        idless(n) == Len(SelectSeq(SubSeq(uses, 1, n), LAMBDA u : u.id = NoId))
    IN  [n \in DOMAIN uses |->
            [name |-> uses[n].name,
             key |-> IF uses[n].id = NoId THEN Minted(idless(n)) ELSE uses[n].id]]

\* The key of the call at position <<m, b>>.
KeyOf(messages, m, b) ==
    LET before == FlattenSeq([i \in 1 .. m |->
                      IF i < m THEN messages[i].content
                      ELSE SubSeq(messages[m].content, 1, b)])
    IN  KeyedCalls(messages)[Len(OfKind("tool_use", before))].key

\* Mutation: the id doubles as the name.
CorrelateById(calls, id) == [id |-> id, name |-> id]

\* call_names and id_by_name keep the FIRST entry; otherwise the result's id
\* is taken for a name.
Correlate(calls, id) ==
    LET byKey == {n \in DOMAIN calls : calls[n].key = id}
        byName == {n \in DOMAIN calls : calls[n].name = id}
    IN  CASE byKey # {} -> [id |-> id, name |-> calls[Min(byKey)].name]
          [] byKey = {} /\ byName # {} -> [id |-> calls[Min(byName)].key, name |-> id]
          [] OTHER -> [id |-> NoId, name |-> id]

serialize_part(b, key) ==
    CASE b.k = "text" -> Some(GText(b.t, FALSE))
      [] b.k = "image" -> Some(GInline(b.media, b.t))
      [] b.k = "thinking" -> Some(GText(b.t, TRUE))
      [] b.k = "tool_use" -> Some(GCall(key, b.name, b.t))
      [] OTHER -> None

GResult(calls, b) ==
    LET to == Correlate(calls, b.id)
    IN  GResponse(to.id, to.name, Wrapped(b.t, b.is_error))

GParts(messages, m) ==
    LET msg == messages[m]
        calls == KeyedCalls(messages)
    IN  IF msg.role = "tool"
        THEN FilterMap(LAMBDA b : IF Is(b, "tool_result") THEN Some(GResult(calls, b))
                                  ELSE None, msg.content)
        ELSE FlattenSeq([b \in DOMAIN msg.content |->
               serialize_part(msg.content[b],
                              IF Is(msg.content[b], "tool_use")
                              THEN KeyOf(messages, m, b) ELSE NoId)])

\* Messages without parts are left out; system messages are hoisted.
GContents(messages) ==
    FlattenSeq([m \in DOMAIN messages |->
        IF messages[m].role = "system" \/ GParts(messages, m) = <<>> THEN <<>>
        ELSE <<GContent(IF messages[m].role = "assistant" THEN "model" ELSE "user",
                        GParts(messages, m))>>])

GSerializeRequest(req) ==
    [systemInstruction |->
        FilterMap(LAMBDA m : IF m.role = "system" THEN Texts(m.content) ELSE <<>>,
                  req.messages),
     contents |-> GContents(req.messages),
     tools |-> [i \in DOMAIN req.tools |-> [name |-> Some(req.tools[i])]],
     maxOutputTokens |-> OrElse(req.max_tokens, req.max_completion_tokens),
     stopSequences |-> req.stop]

-----------------------------------------------------------------------------
GParseFinish(word) ==
    CASE word = "STOP" -> "stop"
      [] word = "MAX_TOKENS" -> "length"
      [] word \in {"SAFETY", "RECITATION"} -> "content_filter"
      [] OTHER -> word

\* The first candidate; its counter starts at zero in every response.
GParseResponse(body) ==
    [content |-> parse_parts(body.parts, 0),
     finish_reason |-> IF body.finishReason = None THEN "stop"
                       ELSE GParseFinish(body.finishReason[1])]

GSerializeFinish(reason) ==
    CASE reason \in {"stop", "tool_calls"} -> "STOP"
      [] reason = "length" -> "MAX_TOKENS"
      [] reason = "content_filter" -> "SAFETY"
      [] OTHER -> reason

GSerializeResponse(resp) ==
    [parts |-> FlattenSeq([b \in DOMAIN resp.content |->
                  serialize_part(resp.content[b],
                                 IF Is(resp.content[b], "tool_use")
                                 THEN resp.content[b].id ELSE NoId)]),
     finishReason |-> Some(GSerializeFinish(resp.finish_reason))]
==============================================================================
