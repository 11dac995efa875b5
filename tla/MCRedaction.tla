----------------------------- MODULE MCRedaction -----------------------------
(***************************************************************************)
(* Model-checking instance of Redaction.                                   *)
(***************************************************************************)
EXTENDS Redaction

Rule(name, template, words) == [name |-> name, template |-> template, words |-> words]

X == <<"<", "X", "{n}", ">">>
X0 == <<"<", "X", "0", "{n}", ">">>
X1 == <<"<", "X", "1", "{n}", ">">>
Y == <<"<", "Y", "{n}", ">">>
Broken == <<"<", "X", "<", "{n}", ">">>

A == <<"a">>
B == <<"b">>
One == <<"1">>
C == <<"c">>
AB == <<"a", "b">>

\* Some words occur inside tokens ("1" and "X"), some inside other words, one
\* under two rules; in the second list both rules have one name; the last two
\* lists are refused.
MCRuleSets ==
    {<<Rule("r", X, {A, B, AB}), Rule("s", Y, {One, C, <<"X">>})>>,
     <<Rule("r", X0, {A, B}), Rule("r", X, {One, C, AB})>>,
     <<Rule("s", Y, {B, One}), Rule("r", X, {AB, C, One})>>,
     <<Rule("r", X, {A, C, AB}), Rule("s", X1, {One})>>,
     <<Rule("r", Broken, {A})>>}

MCNameChars == {"X", "Y", "0", "1"}

MCAllowed == {B}

\* The words alone, next to each other, and next to text that spells or
\* almost spells a token.
MCTexts ==
    {A, AB, A \o One, C \o B, C \o <<"d">> \o A, One \o C \o One,
     <<"X">> \o A, <<"d">>, <<"<", "X", "1", ">">>, <<"<">> \o A \o <<">">>}
==============================================================================
