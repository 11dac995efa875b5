--------------------------- MODULE StreamDecoders ---------------------------
(***************************************************************************)
(* The three StreamDecoder implementations: OpenAI, Anthropic and Gemini   *)
(* upstream payloads to neutral events.  A decoder is a state record and   *)
(* two operators: FeedX(d, p, n), which handles the n-th payload, and      *)
(* FinishDecoder(d), called once when the stream is over.  Both return the *)
(* next state and the events produced.                                     *)
(***************************************************************************)
EXTENDS NeutralStream, FiniteSets

\* One piece of content of a payload.  hd: the tool call's id/name are on the
\* wire;  c: it carries text (a tool-use block start carries none).
Part == [k : ContentKinds, i : Nat, hd : BOOLEAN, c : BOOLEAN]

PayloadTypes ==
    {"[DONE]", "ignored", "error", "content",
     "message_start", "signature", "message_delta", "message_stop"}

\* A decoded SSE payload.  "ignored" stands for every payload that the
\* decoder drops: unparseable JSON, ping, content_block_stop, a text
\* content_block_start.  fin: an OpenAI finish_reason / Gemini finishReason
\* is present.
Payload == [t : PayloadTypes, parts : Seq(Part), fin : BOOLEAN]

Upstreams == {"openai", "anthropic", "gemini"}

\* The payloads an upstream of protocol u can send.  An OpenAI chunk lists
\* text before reasoning before tool calls; an Anthropic event carries one
\* part; only Anthropic names its events.
Sendable(u) ==
    {p \in Payload :
        /\ p.fin => p.t = "content"
        /\ p.parts # <<>> => p.t = "content"
        /\ u = "anthropic" => ~p.fin /\ (p.t = "content" => Len(p.parts) = 1)
        /\ u # "anthropic" =>
             p.t \in {"[DONE]", "ignored", "error", "content"}
        /\ u = "openai" =>
             \A m, n \in 1 .. Len(p.parts) :
                m < n => \/ p.parts[m].k = "text"
                         \/ p.parts[m].k = "reason" /\ p.parts[n].k # "text"
                         \/ p.parts[m].k = "tool" /\ p.parts[n].k = "tool"}

\* started, failed, stop_emitted and pending_finish.is_some() of the three
\* decoder structs; seen is OpenAI's seen_tool_indices, next Gemini's
\* tool_index.
Decoder == [started : BOOLEAN, failed : BOOLEAN, stopped : BOOLEAN,
            finish : BOOLEAN, seen : SUBSET Nat, next : Nat]

NewDecoder == [started |-> FALSE, failed |-> FALSE, stopped |-> FALSE,
               finish |-> FALSE, seen |-> {}, next |-> 0]

Fed(d, events) == [dec |-> d, ev |-> events]

StopEvent(d) == Ev("stop", 0, d.finish, <<>>)

ToolIndices(parts) == {parts[m].i : m \in {l \in 1 .. Len(parts) : parts[l].k = "tool"}}

\* MessageStart is produced by the first chunk that is not an error.
StartOnce(d) == IF d.started THEN <<>> ELSE <<Plain("start")>>

ErrorPayload(d) == Fed([d EXCEPT !.failed = TRUE], <<Plain("error")>>)

\* parse_tool_call: id and name only count on the first fragment of an index.
OpenAIPart(d, p, n, j) ==
    LET q == p.parts[j]
        first == /\ q.i \notin d.seen
                 /\ \A m \in 1 .. j - 1 : p.parts[m].k = "tool" => p.parts[m].i # q.i
    IN  Ev(q.k, IF q.k = "tool" THEN q.i ELSE 0,
           q.k = "tool" /\ q.hd /\ first,
           IF q.c \/ q.k # "tool" THEN <<<<n, j>>>> ELSE <<>>)

FeedOpenAI(d, p, n) ==
    IF p.t = "error" THEN ErrorPayload(d)
    ELSE IF p.t # "content" THEN Fed(d, <<>>)
    ELSE Fed([d EXCEPT !.started = TRUE,
                       !.finish = @ \/ p.fin,
                       !.seen = @ \cup ToolIndices(p.parts)],
             StartOnce(d) \o [j \in 1 .. Len(p.parts) |-> OpenAIPart(d, p, n, j)])

\* A tool_use content_block_start opens the call with its id and no
\* arguments; a content_block_delta carries content for the block it names.
AnthropicPart(p, n) ==
    LET q == p.parts[1]
    IN  Ev(q.k, IF q.k = "tool" THEN q.i ELSE 0, q.k = "tool" /\ ~q.c /\ q.hd,
           IF q.c \/ q.k # "tool" THEN <<<<n, 1>>>> ELSE <<>>)

\* message_stop before or after an error: only stop_emitted is consulted.
FeedAnthropic(d, p, n) ==
    CASE p.t = "message_start" ->
           Fed([d EXCEPT !.started = TRUE], <<Plain("start")>>)
      [] p.t = "content" -> Fed(d, <<AnthropicPart(p, n)>>)
      [] p.t = "signature" -> Fed(d, <<Ev("signature", 0, FALSE, <<<<n, 1>>>>)>>)
      [] p.t = "message_delta" -> Fed([d EXCEPT !.finish = TRUE], <<>>)
      [] p.t = "message_stop" ->
           IF d.stopped THEN Fed(d, <<>>)
           ELSE Fed([d EXCEPT !.stopped = TRUE], <<StopEvent(d)>>)
      [] p.t = "error" -> ErrorPayload(d)
      [] OTHER -> Fed(d, <<>>)

\* Every functionCall part gets the next tool index, an id (minted when the
\* wire has none) and its whole argument object at once.
GeminiPart(d, p, n, j) ==
    LET q == p.parts[j]
        earlier == {m \in 1 .. j - 1 : p.parts[m].k = "tool"}
    IN  IF q.k = "tool"
        THEN Ev("tool", d.next + Cardinality(earlier), TRUE, <<<<n, j>>>>)
        ELSE Ev(q.k, 0, FALSE, <<<<n, j>>>>)

FeedGemini(d, p, n) ==
    LET finish == d.finish \/ p.fin
        stop == finish /\ ~d.stopped
    IN  IF p.t = "error" THEN ErrorPayload(d)
        ELSE IF p.t # "content" THEN Fed(d, <<>>)
        ELSE Fed([d EXCEPT !.started = TRUE,
                           !.finish = finish,
                           !.stopped = @ \/ stop,
                           !.next = @ + Cardinality(
                              {m \in 1 .. Len(p.parts) : p.parts[m].k = "tool"})],
                 StartOnce(d)
                   \o [j \in 1 .. Len(p.parts) |-> GeminiPart(d, p, n, j)]
                   \o (IF stop THEN <<Ev("stop", 0, finish, <<>>)>> ELSE <<>>))

Feed(u, d, p, n) ==
    CASE u = "openai"    -> FeedOpenAI(d, p, n)
      [] u = "anthropic" -> FeedAnthropic(d, p, n)
      [] u = "gemini"    -> FeedGemini(d, p, n)

\* Mutation: a failed stream gets a synthetic stop.
FinishFailed(d) ==
    IF ~d.started \/ d.stopped THEN Fed(d, <<>>)
    ELSE Fed([d EXCEPT !.stopped = TRUE], <<StopEvent(d)>>)

\* The same guard in the three implementations: no stop for a stream that
\* never started, failed, or was already stopped.
FinishDecoder(d) ==
    IF ~d.started \/ d.failed \/ d.stopped
    THEN Fed(d, <<>>)
    ELSE Fed([d EXCEPT !.stopped = TRUE], <<StopEvent(d)>>)
==============================================================================
