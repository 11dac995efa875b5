------------------------------ MODULE MCGateway ------------------------------
(***************************************************************************)
(* Model-checking instance of Gateway.                                     *)
(***************************************************************************)
EXTENDS Gateway

Key == <<"k", "m">>
LongKey == <<"k", "m", "n">>
Spaced == <<"k", "blank", "m">>

X == <<"x">>
Y == <<"y">>
Models == <<"models", "/">>
Tuned == <<"tunedModels", "/">>
V == <<"v", "/">>
VW == <<"v", "/", "w", "/">>

\* Serving configurations.
Gemini == [DefaultConfig EXCEPT !.upstream = "gemini"]

MCConfigs ==
    {DefaultConfig,
     [Gemini EXCEPT !.keys = <<Key, Spaced>>, !.prefixes = <<V, VW>>],
     [Gemini EXCEPT !.keys = <<LongKey>>, !.prefixes = <<VW, <<"v">>>>, !.default = X,
                    !.map = <<<<<<"y">>, Tuned \o Y>>>>],
     [Gemini EXCEPT !.protocols = <<"anthropic", "openai", "anthropic">>, !.memory = "on"],
     [DefaultConfig EXCEPT !.upstream = "anthropic", !.protocols = <<"gemini", "openai">>,
                           !.privacy = "on"]}
    \cup   \* and those that are refused
    {[DefaultConfig EXCEPT !.keys = <<Key, <<>>>>],
     [DefaultConfig EXCEPT !.keys = <<<<"blank">>>>],
     [DefaultConfig EXCEPT !.keys = <<<<"k", "blank">>>>],
     [DefaultConfig EXCEPT !.keys = <<<<"k", "non-ASCII">>>>],
     [DefaultConfig EXCEPT !.url = "ftp"],
     [DefaultConfig EXCEPT !.header = "invalid"],
     [DefaultConfig EXCEPT !.prefixes = <<V, <<>>>>],
     [DefaultConfig EXCEPT !.memory = "pathless"],
     [DefaultConfig EXCEPT !.memory = "unopenable"],
     [DefaultConfig EXCEPT !.privacy = "broken"],
     [DefaultConfig EXCEPT !.protocols = <<"openai", "cohere">>],
     [DefaultConfig EXCEPT !.upstream = "cohere"]}

H(authorization, api_key, x_api_key) ==
    [authorization |-> authorization, api_key |-> api_key, x_api_key |-> x_api_key]

\* Right keys, parts of keys, longer ones, blanks, another scheme, and
\* several headers at once.
MCHeaders ==
    {H(None, None, None),
     H(<<<<"Bearer", "blank">> \o Key>>, None, None),
     H(<<<<"bearer", "blank", "blank">> \o Spaced \o <<"blank">>>>, None, None),
     H(<<<<"Bearer", "blank">>>>, <<LongKey>>, None),
     H(<<<<"Basic", "blank">> \o Key>>, None, <<Key>>),
     H(<<<<"Bearer", "blank", "k">>>>, <<Key>>, None),
     H(None, <<<<"k">>>>, <<Key>>),
     H(None, <<<<"non-ASCII">>>>, <<LongKey>>),
     H(None, <<<<"blank">>>>, <<LongKey \o <<"o">>>>)}

MCModelNames ==
    {<<>>, X, Y, V \o X, VW \o X, Models \o X, Tuned \o Y, <<"v", "/", "/">> \o X,
     V \o <<"dots">>, V \o <<"dots", "/">> \o X, <<"x", "dots">>, <<"x", "?">>, X \o <<"/">>}

Listing(ns) == [status |-> 200, models |-> <<ns>>]

MCUpstreams ==
    {[status |-> 0, models |-> None], [status |-> 429, models |-> None],
     [status |-> 200, models |-> None],
     Listing(<<<<Models \o X>>, None, <<Tuned \o Y>>>>),
     Listing(<<<<Models \o V \o X>>, <<Models \o Y>>>>)}
==============================================================================
