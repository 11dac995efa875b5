---------------------------- MODULE MCStreamRelay ----------------------------
(***************************************************************************)
(* Model-checking instances of StreamRelay: small payload alphabets.       *)
(***************************************************************************)
EXTENDS StreamRelay

P(type, content, finish) == [t |-> type, parts |-> content, fin |-> finish]

Pt(kind, index, header, content) ==
    [k |-> kind, i |-> index, hd |-> header, c |-> content]

MCText == Pt("text", 0, FALSE, TRUE)
MCReason == Pt("reason", 0, FALSE, TRUE)

\* OpenAI: text with a call, reasoning, two calls in the opposite order of
\* their numbers with the finish reason (one of them perhaps open already), the
\* final chunk, [DONE] (as good as any payload the decoder ignores), errors.
MCOpenAI ==
    {P("[DONE]", <<>>, FALSE), P("error", <<>>, FALSE),
     P("content", <<>>, TRUE),
     P("content", <<MCReason>>, FALSE),
     P("content", <<MCText, Pt("tool", 0, TRUE, TRUE)>>, FALSE),
     P("content", <<Pt("tool", 1, TRUE, FALSE), Pt("tool", 0, TRUE, TRUE)>>, TRUE)}

MCAnthropic ==
    {P("message_start", <<>>, FALSE), P("message_delta", <<>>, FALSE),
     P("message_stop", <<>>, FALSE), P("error", <<>>, FALSE),
     P("signature", <<>>, FALSE),
     P("content", <<MCText>>, FALSE), P("content", <<MCReason>>, FALSE),
     P("content", <<Pt("tool", 1, TRUE, FALSE)>>, FALSE),
     P("content", <<Pt("tool", 1, FALSE, TRUE)>>, FALSE)}

MCGemini ==
    {P("error", <<>>, FALSE),
     P("content", <<MCReason>>, FALSE),
     P("content", <<Pt("tool", 0, FALSE, TRUE), Pt("tool", 0, FALSE, TRUE)>>, FALSE),
     P("content", <<MCText>>, TRUE)}

MCWire == [u \in Upstreams |-> CASE u = "openai" -> MCOpenAI
                                 [] u = "anthropic" -> MCAnthropic
                                 [] u = "gemini" -> MCGemini]

MCConf(c, u, p, m) == [client |-> c, upstream |-> u, privacy |-> p, memory |-> m]

\* Every pair of protocols; for an Anthropic client, whose streams have blocks,
\* also with privacy.
MCRoutes ==
    {MCConf(c, u, FALSE, TRUE) : c \in Clients, u \in Upstreams}
        \cup {MCConf("anthropic", u, TRUE, u # "gemini") : u \in Upstreams}

MCAllRoutes == {MCConf(c, u, p, TRUE) : c \in Clients, u \in Upstreams, p \in BOOLEAN}
==============================================================================
