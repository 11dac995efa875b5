---------------------------- MODULE MCConversation ----------------------------
(***************************************************************************)
(* Model-checking instances of Conversation.                               *)
(***************************************************************************)
EXTENDS Conversation

P(type, content, finish) == [t |-> type, parts |-> content, fin |-> finish]

Pt(kind, index, header) == [k |-> kind, i |-> index, hd |-> header, c |-> TRUE]

B(payload, result, blocks) == [p |-> payload, parse |-> result, blocks |-> blocks]

Dropped == P("ignored", <<>>, FALSE)

MCBlocks == {<<>>, <<"text">>, <<"text", "tool", "text", "tool">>, <<"reason", "other", "tool", "reason">>}

\* For every protocol a body that is no JSON and an error with status 200;
\* responses and, where the protocol has them, single stream chunks.
MCCommon == {B(Dropped, "invalid", <<>>), B(P("error", <<>>, FALSE), "error", <<>>)}

MCOpenAI ==
    MCCommon
        \cup {B(P("content", <<>>, TRUE), "ok", blocks) : blocks \in MCBlocks}
        \cup {B(P("content", <<Pt("text", 0, FALSE), Pt("tool", 0, TRUE)>>, fin), "ok", <<>>) : fin \in BOOLEAN}

MCAnthropic ==
    MCCommon
        \cup {B(Dropped, "error", <<>>)}
        \cup {B(Dropped, "ok", blocks) : blocks \in MCBlocks}
        \cup {B(P("content", <<Pt("text", 0, FALSE)>>, FALSE), "ok", <<>>)}

\* A Gemini response has the shape of a stream chunk; only one without text
\* or calls is not read as one.
MCGemini ==
    MCCommon
        \cup {B(P("content", <<>>, fin), "ok", blocks) : fin \in BOOLEAN, blocks \in {<<>>, <<"other">>}}
        \cup {B(P("content", <<Pt("text", 0, FALSE), Pt("tool", 0, FALSE), Pt("tool", 0, FALSE)>>, fin),
                "ok", <<"text", "tool", "tool">>) : fin \in BOOLEAN}

MCBodies == [u \in Upstreams |-> CASE u = "openai" -> MCOpenAI
                                   [] u = "anthropic" -> MCAnthropic
                                   [] u = "gemini" -> MCGemini]

MCRoutes == Route
==============================================================================
