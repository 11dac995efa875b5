---------------------------- MODULE OpenAIConvert ----------------------------
(***************************************************************************)
(* adapters/openai/convert.rs: chat-completions bodies to and from the     *)
(* neutral model.                                                          *)
(*                                                                         *)
(* A message on the wire is a record with the members role, content,       *)
(* reasoning (reasoning_content or reasoning, <<>> when absent),           *)
(* tool_calls and id (tool_call_id, or else name).  A call's arguments are *)
(* JSON text; BadJson in it makes it unparsable.                           *)
(***************************************************************************)
EXTENDS NeutralModel

LOCAL Wire(role, content, reasoning, calls, id) ==
    [role |-> role, content |-> content, reasoning |-> reasoning,
     tool_calls |-> calls, id |-> id]

OMessage(role, content) == Wire(role, content, <<>>, <<>>, NoId)
OAssistant(content, reasoning, calls) == Wire("assistant", content, reasoning, calls, NoId)
OTool(id, content) == Wire("tool", content, <<>>, <<>>, id)
OCall(id, name, arguments) == [id |-> id, name |-> name, arguments |-> arguments]

image_from_url(url) ==
    IF url.scheme = "data" THEN Image(url.media, url.t) ELSE Image("url", url.t)

image_to_url(b) == IF b.media = "url" THEN Remote(b.t) ELSE DataUri(b.media, b.t)

parse_content_part(part) ==
    CASE part.type = "text" -> Some(Text(part.t))
      [] part.type = "image_url" -> Some(image_from_url(part.url))
      [] OTHER -> None

OParseContent(content) ==
    CASE content.form = "string" /\ content.t # <<>> -> <<Text(content.t)>>
      [] content.form = "array" -> FilterMap(parse_content_part, content.parts)
      [] OTHER -> <<>>

parse_tool_call(call) ==
    ToolUse(call.id, call.name,
            IF Contains(call.arguments, BadJson) THEN <<>> ELSE call.arguments)

\* Text, then reasoning, then calls, whatever their order was.
OAssistantBlocks(msg) ==
    OParseContent(msg.content)
        \o (IF msg.reasoning = <<>> THEN <<>> ELSE <<Thinking(msg.reasoning, None)>>)
        \o [i \in DOMAIN msg.tool_calls |-> parse_tool_call(msg.tool_calls[i])]

\* Only the first part of a tool message's content is kept.
FirstText(blocks) ==
    IF blocks # <<>> /\ Is(blocks[1], "text") THEN blocks[1].t ELSE <<>>

parse_message(msg) ==
    CASE msg.role \in {"system", "user"} ->
           Some(Message(msg.role, OParseContent(msg.content)))
      [] msg.role = "assistant" -> Some(Message("assistant", OAssistantBlocks(msg)))
      [] msg.role \in {"tool", "function"} ->
           Some(Message("tool",
                  <<ToolResult(msg.id, FirstText(OParseContent(msg.content)), FALSE)>>))
      [] OTHER -> None

\* stop: a string, an array of strings, or absent; an empty array is absent.
OParseStop(stop) ==
    CASE stop.form = "string" -> Some(<<stop.t>>)
      [] stop.form = "array" /\ stop.parts # <<>> -> Some(stop.parts)
      [] OTHER -> None

OParseRequest(body) ==
    [messages |-> FilterMap(parse_message, body.messages),
     tools |-> FilterMap(LAMBDA t : IF t.type = "function" THEN Some(t.name) ELSE None,
                         body.tools),
     max_tokens |-> Limit(body.max_tokens),
     max_completion_tokens |-> Limit(body.max_completion_tokens),
     stop |-> OParseStop(body.stop)]

ContentPart(b) ==
    CASE b.k = "text" -> Some([type |-> "text", t |-> b.t])
      [] b.k = "image" -> Some([type |-> "image_url", url |-> image_to_url(b)])
      [] OTHER -> None

\* A string when there is no image, otherwise one part per block in order.
OContent(blocks) ==
    IF OfKind("image", blocks) = <<>>
    THEN Str(Join(Texts(blocks)))
    ELSE Arr(FilterMap(ContentPart, blocks))

OReasoning(blocks) ==
    LET thoughts == OfKind("thinking", blocks)
    IN  Join([i \in DOMAIN thoughts |-> thoughts[i].t])

OCalls(blocks) ==
    LET uses == OfKind("tool_use", blocks)
    IN  [i \in DOMAIN uses |-> OCall(uses[i].id, uses[i].name, uses[i].t)]

OResults(blocks) ==
    LET results == OfKind("tool_result", blocks)
    IN  [i \in DOMAIN results |-> OTool(results[i].id, Str(results[i].t))]

\* One wire message, except for a Tool message: one per result.
serialize_message(msg) ==
    CASE msg.role = "tool" -> OResults(msg.content)
      [] msg.role \in {"system", "user"} -> <<OMessage(msg.role, OContent(msg.content))>>
      [] msg.role = "assistant" ->
           <<OAssistant(Str(Join(Texts(msg.content))), OReasoning(msg.content),
                        OCalls(msg.content))>>

OSerializeStop(stop) ==
    CASE stop = None -> Null
      [] Len(stop[1]) = 1 -> Str(stop[1][1])
      [] OTHER -> Arr(stop[1])

OSerializeRequest(req) ==
    [messages |-> FilterMap(serialize_message, req.messages),
     tools |-> [i \in DOMAIN req.tools |-> [type |-> "function", name |-> req.tools[i]]],
     max_tokens |-> IF req.max_completion_tokens = None THEN req.max_tokens ELSE None,
     max_completion_tokens |-> req.max_completion_tokens,
     stop |-> OSerializeStop(req.stop)]

\* A response is its first choice's message and finish reason; the words are
\* the neutral model's own.
OParseResponse(body) ==
    [content |-> OAssistantBlocks(body.message),
     finish_reason |-> IF body.finish_reason = None THEN "stop"
                       ELSE body.finish_reason[1]]

OSerializeResponse(resp) ==
    [message |-> OAssistant(OContent(resp.content), OReasoning(resp.content),
                            OCalls(resp.content)),
     finish_reason |-> Some(resp.finish_reason)]
==============================================================================
