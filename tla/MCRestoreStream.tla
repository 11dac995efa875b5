--------------------------- MODULE MCRestoreStream ---------------------------
(***************************************************************************)
(* Model-checking instances of RestoreStream.                              *)
(***************************************************************************)
EXTENDS RestoreStream

T1 == <<"<", "A", ">">>
T2 == <<"<", "A", "A", ">">>

MCTokens == {T1, T2}

\* One original holds a quote, which JSON text must escape; the other looks
\* like the beginning of a token.
MCOriginal == [t \in MCTokens |-> IF t = T1 THEN <<Quote, "v">> ELSE <<"<", "w">>]

\* Characters: token pieces, a two-byte character and, so that the text can
\* be JSON string text, an escape sequence.
MCChars == {<<"<">>, <<"A">>, <<">">>, <<"c", "c~">>, <<Backslash, Quote>>}

\* One character, or two at once.
MCFragments == MCChars \cup {a \o b : a, b \in MCChars}
==============================================================================
