------------------------------ MODULE MCToolLoop ------------------------------
(***************************************************************************)
(* Model-checking instance of ToolLoop.                                    *)
(***************************************************************************)
EXTENDS ToolLoop

R(client, upstream, ids) == [client |-> client, upstream |-> upstream, ids |-> ids]

MCRoutes ==
    {R(c, u, TRUE) : c \in {"openai", "anthropic"}, u \in {"openai", "anthropic", "gemini"}}
        \cup {R(c, "gemini", FALSE) : c \in {"openai", "anthropic"}}

\* A classic Gemini upstream, whose calls have no id.
MCIdlessRoutes == {R("openai", "gemini", FALSE)}

F == <<"f">>
G == <<"g">>

Settings(system, developer, tools, limit, completion, stop) ==
    [system |-> system, developer |-> developer, tools |-> tools,
     max_tokens |-> limit, max_completion_tokens |-> completion, stop |-> stop]

Tool(type, name) == [type |-> type, name |-> name]

\* Limits at the width's edge (16 is one more than four bits hold), under
\* one name or both; stop sequences in every form.
MCSettings ==
    {Settings(0, FALSE, <<>>, None, None, Null),
     Settings(1, TRUE, <<Tool("function", F)>>, Some(15), None, Str(<<<<"s">>>>)),
     Settings(2, FALSE, <<Tool("function", F), Tool("builtin", <<>>), Tool("function", G)>>,
              None, Some(3), Arr(<<<<<<"s">>>>, <<<<"u">>>>>>)),
     Settings(1, FALSE, <<Tool("function", G)>>, Some(16), Some(19), Arr(<<>>))}

MCSettingsIdless == {Settings(0, FALSE, <<Tool("function", F), Tool("function", G)>>,
                              None, None, Null)}

MCQuestions == {<<"text">>, <<"text", "image", "unknown", "text">>, <<"remote", "text">>}

Rep(reverse, text, err, parts) ==
    [reverse |-> reverse, text |-> text, err |-> err, parts |-> parts]

MCReports ==
    {Rep(FALSE, "none", 0, FALSE), Rep(TRUE, "before", 1, FALSE), Rep(TRUE, "after", 0, TRUE),
     Rep(FALSE, "none", 1, FALSE)}

Say(kinds) == [j \in DOMAIN kinds |-> [k |-> kinds[j], name |-> NoId]]
Call(name) == [k |-> "call", name |-> name]
A(shape, word) == [shape |-> shape, word |-> Some(word)]

\* Answers all upstreams can give, with the words they end in.
Common(stop, calls, length) ==
    {A(Say(<<"thinking", "text">>), stop),
     A(Append(Say(<<"text">>), Call(F)), calls),
     A(<<Call(F), Call(G)>>, calls),
     A(<<Call(G), Call(G)>>, length)}

MCAnswers ==
    [openai |-> Common("stop", "tool_calls", "length")
        \cup {[shape |-> <<[k |-> "badcall", name |-> F]>>, word |-> None],
              A(Say(<<"text", "image", "unknown", "text">>), "content_filter")},
     anthropic |-> Common("end_turn", "tool_use", "max_tokens")
        \cup {A(Say(<<"thinking", "redacted", "text", "unknown", "text">>), "pause_turn"),
              A(Say(<<"redacted">>) \o <<Call(F)>> \o Say(<<"text">>), "refusal")},
     gemini |-> Common("STOP", "STOP", "MAX_TOKENS")
        \cup {A(Say(<<"text", "image", "unknown", "text">>), "SAFETY"),
              A(<<>>, "MALFORMED_FUNCTION_CALL")}]

\* No status, one of an error, those of a success and the informational, and
\* numbers that are none: cut to 16 bits they may become one.
MCEmbedded ==
    {None, Some(429), Some(200), Some(100), Some(999), Some(1000),
     Some(2 ^ 16), Some(2 ^ 16 + 200)}
==============================================================================
