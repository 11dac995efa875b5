----------------------------- MODULE NeutralModel -----------------------------
(***************************************************************************)
(* The protocol-neutral request and response (core/neutral.rs), and the    *)
(* JSON shapes the three converters share.                                 *)
(*                                                                         *)
(* A string is a sequence of atoms, so that joined texts can be told apart *)
(* again; NL is the line break a join puts in.  A JSON value carried as it *)
(* is (tool input, schema) is such a sequence too, <<>> being {}.          *)
(* An Option is a sequence of at most one element, which makes filter_map  *)
(* and flat_map the same operator.  Identifiers (call ids and function     *)
(* names) are tuples; the empty one is the empty string.                   *)
(* Model name, sampling parameters, tool schemas, usage and message ids    *)
(* are handed on unchanged and left out.                                   *)
(***************************************************************************)
EXTENDS Integers, Sequences, SequencesExt

CONSTANT TokenBits   \* width of the neutral token limits: 32 in the code

ASSUME TokenBitsAssumption == TokenBits \in Nat \ {0}

NL == <<"nl">>
BadJson == <<"not JSON">>

None == <<>>
Some(v) == <<v>>
OrElse(a, b) == IF a = None THEN b ELSE a
FilterMap(Op(_), s) == FlattenSeq([i \in DOMAIN s |-> Op(s[i])])

\* texts.join("\n")
Join(texts) ==
    IF texts = <<>> THEN <<>>
    ELSE FoldLeft(LAMBDA acc, t : acc \o <<NL>> \o t, Head(texts), Tail(texts))

NoId == <<>>

-----------------------------------------------------------------------------
(* Content blocks, messages, requests and responses.                       *)

Text(t) == [k |-> "text", t |-> t]
Image(media, data) == [k |-> "image", media |-> media, t |-> data]
Thinking(t, signature) == [k |-> "thinking", t |-> t, signature |-> signature]
RedactedThinking(data) == [k |-> "redacted_thinking", t |-> data]
ToolUse(id, name, input) == [k |-> "tool_use", id |-> id, name |-> name, t |-> input]
ToolResult(id, t, err) == [k |-> "tool_result", id |-> id, t |-> t, is_error |-> err]

Is(block, kind) == block.k = kind
OfKind(kind, blocks) == SelectSeq(blocks, LAMBDA b : b.k = kind)
Texts(blocks) == FilterMap(LAMBDA b : IF Is(b, "text") THEN Some(b.t) ELSE None, blocks)

Message(role, content) == [role |-> role, content |-> content]

\* FinishReason, by the word as_str gives it: the first four are variants of
\* their own, any other word is kept in Other.
FinishReasons == {"stop", "length", "tool_calls", "content_filter"}

\* as_u64().map(|v| v as u32): the upper bits are cut off.
Limit(given) == IF given = None THEN None ELSE Some(given[1] % 2 ^ TokenBits)

-----------------------------------------------------------------------------
(* JSON forms of a content member: a string, an array, or null/absent.     *)

Str(t) == [form |-> "string", t |-> t]
Arr(parts) == [form |-> "array", parts |-> parts]
Null == [form |-> "null"]

\* An image's address: a data: URI with its media type, or a remote URL.
DataUri(media, data) == [scheme |-> "data", media |-> media, t |-> data]
Remote(t) == [scheme |-> "remote", t |-> t]

\* A user message with tool results is split: results first, as a Tool
\* message, then the rest (the Anthropic and the Gemini parser).
SplitResults(role, blocks) ==
    LET results == OfKind("tool_result", blocks)
        rest == SelectSeq(blocks, LAMBDA b : ~Is(b, "tool_result"))
    IN  IF role # "user" \/ results = <<>>
        THEN <<Message(role, blocks)>>
        ELSE <<Message("tool", results)>>
               \o (IF rest = <<>> THEN <<>> ELSE <<Message("user", rest)>>)
==============================================================================
