--------------------------- MODULE AnthropicConvert ---------------------------
(***************************************************************************)
(* adapters/anthropic/convert.rs: messages bodies to and from the neutral  *)
(* model.                                                                  *)
(*                                                                         *)
(* A wire message has a role and a content (string or array of typed       *)
(* blocks); the system text is a member of the body.  A block that lacks a *)
(* required member, or has an unknown type, is the block Unusable.         *)
(***************************************************************************)
EXTENDS NeutralModel

CONSTANT DefaultMaxTokens   \* DEFAULT_MAX_TOKENS: 1024 in the code

ASSUME DefaultMaxTokensAssumption == DefaultMaxTokens \in Nat \ {0}

AMessage(role, content) == [role |-> role, content |-> content]

AText(t) == [type |-> "text", t |-> t]
AImage(source) == [type |-> "image", source |-> source]
AThinking(t, signature) == [type |-> "thinking", t |-> t, signature |-> signature]
ARedacted(data) == [type |-> "redacted_thinking", t |-> data]
AToolUse(id, name, input) == [type |-> "tool_use", id |-> id, name |-> name, t |-> input]
AToolResult(id, content, err) ==
    [type |-> "tool_result", id |-> id, content |-> content, is_error |-> err]
Unusable == [type |-> "unusable"]

\* A tool result's content: a string, or the texts of an array's blocks.
ResultText(content) ==
    CASE content.form = "string" -> content.t
      [] content.form = "array" ->
           Join(FilterMap(LAMBDA b : IF b.type = "text" THEN Some(b.t) ELSE None,
                          content.parts))
      [] OTHER -> <<>>

parse_block(b) ==
    CASE b.type = "text" -> Some(Text(b.t))
      [] b.type = "image" ->
           Some(IF b.source.scheme = "data" THEN Image(b.source.media, b.source.t)
                ELSE Image("url", b.source.t))
      [] b.type = "thinking" -> Some(Thinking(b.t, b.signature))
      [] b.type = "redacted_thinking" -> Some(RedactedThinking(b.t))
      [] b.type = "tool_use" -> Some(ToolUse(b.id, b.name, b.t))
      [] b.type = "tool_result" ->
           Some(ToolResult(b.id, ResultText(b.content), b.is_error))
      [] OTHER -> None

parse_content_blocks(content) ==
    CASE content.form = "string" /\ content.t # <<>> -> <<Text(content.t)>>
      [] content.form = "array" -> FilterMap(parse_block, content.parts)
      [] OTHER -> <<>>

\* Mutation: a mixed message becomes a User message, results and all.
ParseUnsplit(msg) == <<Message(msg.role, parse_content_blocks(msg.content))>>

parse_messages(msg) ==
    IF msg.role \in {"user", "assistant"}
    THEN SplitResults(msg.role, parse_content_blocks(msg.content))
    ELSE <<>>

\* The system member: a string, or the texts of an array's blocks.
AParseSystem(system) ==
    LET texts == CASE system.form = "string" -> <<system.t>>
                   [] system.form = "array" ->
                        [i \in DOMAIN system.parts |-> system.parts[i].t]
                   [] OTHER -> <<>>
    IN  IF texts = <<>> THEN <<>>
        ELSE <<Message("system", [i \in DOMAIN texts |-> Text(texts[i])])>>

AParseRequest(body) ==
    [messages |-> AParseSystem(body.system) \o FilterMap(parse_messages, body.messages),
     tools |-> FilterMap(LAMBDA t : t.name, body.tools),
     max_tokens |-> Limit(body.max_tokens),
     max_completion_tokens |-> None,
     stop |-> IF body.stop_sequences \in {None, Some(<<>>)} THEN None
              ELSE body.stop_sequences]

\* User messages carry text and images only.
serialize_user_block(b) ==
    CASE b.k = "text" -> Some(AText(b.t))
      [] b.k = "image" ->
           Some(AImage(IF b.media = "url" THEN Remote(b.t) ELSE DataUri(b.media, b.t)))
      [] OTHER -> None

\* Mutation: thinking goes out without its signature.
SerializeUnsigned(b) ==
    CASE b.k = "thinking" -> Some(AThinking(b.t, None))
      [] b.k = "tool_use" -> Some(AToolUse(b.id, b.name, b.t))
      [] b.k = "redacted_thinking" -> Some(ARedacted(b.t))
      [] OTHER -> serialize_user_block(b)

serialize_assistant_block(b) ==
    CASE b.k = "thinking" -> Some(AThinking(b.t, b.signature))
      [] b.k = "tool_use" -> Some(AToolUse(b.id, b.name, b.t))
      [] b.k = "redacted_thinking" -> Some(ARedacted(b.t))
      [] OTHER -> serialize_user_block(b)

\* A single text collapses to a string, no block at all to the empty string.
serialize_user_blocks(content) ==
    LET blocks == FilterMap(serialize_user_block, content)
    IN  CASE Len(blocks) = 1 /\ blocks[1].type = "text" -> Str(blocks[1].t)
          [] blocks = <<>> -> Str(<<>>)
          [] OTHER -> Arr(blocks)

serialize_assistant_blocks(content) ==
    LET blocks == FilterMap(serialize_assistant_block, content)
    IN  IF blocks = <<>> THEN Str(<<>>) ELSE Arr(blocks)

AResults(content) ==
    FilterMap(LAMBDA b : IF Is(b, "tool_result")
                         THEN Some(AToolResult(b.id, Str(b.t), b.is_error)) ELSE None,
              content)

\* System messages leave the sequence; results become a user message.
ASerializeMessage(msg) ==
    CASE msg.role = "system" -> <<>>
      [] msg.role = "user" -> <<AMessage("user", serialize_user_blocks(msg.content))>>
      [] msg.role = "assistant" ->
           <<AMessage("assistant", serialize_assistant_blocks(msg.content))>>
      [] msg.role = "tool" ->
           IF AResults(msg.content) = <<>> THEN <<>>
           ELSE <<AMessage("user", Arr(AResults(msg.content)))>>

SystemTexts(messages) ==
    FilterMap(LAMBDA m : IF m.role = "system" THEN Texts(m.content) ELSE <<>>, messages)

ASerializeSystem(texts) ==
    CASE texts = <<>> -> Null
      [] Len(texts) = 1 -> Str(texts[1])
      [] OTHER -> Arr([i \in DOMAIN texts |-> AText(texts[i])])

\* Mutation: max_completion_tokens is not looked at.
LimitOrDefault(req) == OrElse(req.max_tokens, Some(DefaultMaxTokens))

\* max_tokens is required: the client's limit under either name, or the
\* default.
RequiredLimit(req) ==
    OrElse(OrElse(req.max_tokens, req.max_completion_tokens), Some(DefaultMaxTokens))

ASerializeRequest(req) ==
    [system |-> ASerializeSystem(SystemTexts(req.messages)),
     messages |-> FilterMap(ASerializeMessage, req.messages),
     tools |-> [i \in DOMAIN req.tools |-> [name |-> Some(req.tools[i])]],
     max_tokens |-> RequiredLimit(req),
     stop_sequences |-> req.stop]

parse_stop_reason(word) ==
    CASE word \in {"end_turn", "stop_sequence"} -> "stop"
      [] word = "max_tokens" -> "length"
      [] word = "tool_use" -> "tool_calls"
      [] word = "refusal" -> "content_filter"
      [] OTHER -> word

AParseResponse(body) ==
    [content |-> parse_content_blocks(body.content),
     finish_reason |-> IF body.stop_reason = None THEN "stop"
                       ELSE parse_stop_reason(body.stop_reason[1])]

serialize_stop_reason(reason) ==
    CASE reason = "stop" -> "end_turn"
      [] reason = "length" -> "max_tokens"
      [] reason = "tool_calls" -> "tool_use"
      [] reason = "content_filter" -> "refusal"
      [] OTHER -> reason

\* content is always an array here.
ASerializeResponse(resp) ==
    [content |-> Arr(FilterMap(serialize_assistant_block, resp.content)),
     stop_reason |-> Some(serialize_stop_reason(resp.finish_reason))]
==============================================================================
