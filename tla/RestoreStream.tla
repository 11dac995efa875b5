---------------------------- MODULE RestoreStream ----------------------------
(***************************************************************************)
(* RestoreStream (core/privacy.rs): the streaming restorer of one text     *)
(* channel.  Fragments arrive cut anywhere; tokens of the session's vault  *)
(* are replaced by their originals, and only text that may still become a  *)
(* token is held back.                                                     *)
(*                                                                         *)
(* Text is a sequence of bytes.  A fragment is a whole number of           *)
(* characters, as a Rust &str is; "c~" is the continuation byte of a two-  *)
(* byte character.  The vault does not change while a response streams.    *)
(* Names leave room for Redaction, the other half of the file, so that one *)
(* module can extend both.                                                 *)
(***************************************************************************)
EXTENDS Integers, Sequences, FiniteSets, FiniteSetsExt

CONSTANTS
    StreamTokens,  \* the tokens minted for this session
    Original,      \* Original[t]: the value token t stands for
    Fragments,     \* the fragments the upstream may send
    MaxTokenLen,   \* max_token_len of the engine
    MaxFed         \* bound: bytes fed

\* The two characters that JSON text escapes, by name.
Backslash == "bslash"

Quote == "quote"

\* The grammar validate_template enforces: one "<" in front, one ">" behind,
\* neither in between and nothing that JSON escapes; max_token_len covers every
\* token that can be minted.  Fragments are whole characters: none starts with a
\* continuation byte, and "<" is a character of its own.
ASSUME TokenGrammar ==
    /\ StreamTokens \subseteq Seq(STRING) /\ Fragments \subseteq Seq(STRING)
    /\ Original \in [StreamTokens -> Seq(STRING)]
    /\ \A t \in StreamTokens :
         /\ Len(t) \in 3 .. MaxTokenLen
         /\ \A n \in 1 .. Len(t) : /\ (t[n] = "<" <=> n = 1) /\ (t[n] = ">" <=> n = Len(t))
                                   /\ t[n] \notin {Backslash, Quote}
    /\ \A f \in Fragments : \A n \in 1 .. Len(f) : f[n] = "c~" => n > 1 /\ f[n - 1] # "<"
    /\ MaxTokenLen \in Nat \ {0}
    /\ MaxFed \in Nat

VARIABLES
    json,       \* json_escape: a tool-arguments channel
    buffer,
    fed,        \* history: everything fed
    out,        \* history: everything returned to the relay
    panicked,   \* a slice index fell inside a character
    ended       \* finish() has been called

streamVars == <<json, buffer, fed, out, panicked, ended>>

Suffix(s, n) == SubSeq(s, n, Len(s))

Prefix(s, n) == SubSeq(s, 1, n)

\* A token of the vault starts at byte n of s.
TokenAt(s, n) ==
    {t \in StreamTokens : n + Len(t) - 1 <= Len(s) /\ SubSeq(s, n, n + Len(t) - 1) = t}

Matches(s, n) == {m \in n .. Len(s) : TokenAt(s, m) # {}}

\* serde_json::to_string without its quotes.
JsonEscape(s) ==
    LET esc[n \in 0 .. Len(s)] ==
          IF n = 0 THEN <<>>
          ELSE IF s[n] \in {Backslash, Quote} THEN esc[n - 1] \o <<Backslash, s[n]>>
               ELSE Append(esc[n - 1], s[n])
    IN  esc[Len(s)]

\* Mutation: the original is spliced unescaped.
RawSplice(escape, t) == Original[t]

Splice(escape, t) == IF escape THEN JsonEscape(Original[t]) ELSE Original[t]

\* The find / emit / drain loop: everything up to the last token is
\* emitted, the rest stays.
RestoreTokens(b) ==
    LET loop[n \in 1 .. Len(b) + 1] ==
          IF Matches(b, n) = {} THEN [out |-> <<>>, rest |-> Suffix(b, n)]
          ELSE LET start == Min(Matches(b, n))
                   token == CHOOSE t \in TokenAt(b, start) : TRUE
                   next == loop[start + Len(token)]
               IN  [out |-> SubSeq(b, n, start - 1) \o Splice(json, token) \o next.out,
                    rest |-> next.rest]
    IN  loop[1]

IsCharBoundary(b, n) == n \in {0, Len(b)} \/ b[n + 1] # "c~"

\* Mutation: the window is one byte short.
WindowShort(b) == IF Len(b) > MaxTokenLen - 2 THEN Len(b) - (MaxTokenLen - 2) ELSE 0

\* Mutation: everything from the first "<" is held.
WindowWhole(b) == 0

\* The offset from which a token could still be incomplete, rounded down to
\* a character boundary.
WindowStart(b) ==
    LET raw == IF Len(b) > MaxTokenLen - 1 THEN Len(b) - (MaxTokenLen - 1) ELSE 0
    IN  Max({n \in 0 .. raw : n = 0 \/ IsCharBoundary(b, n)})

\* How many bytes in front of the first "<" of the window are released.
Keep(b) ==
    LET starts == {n \in WindowStart(b) + 1 .. Len(b) : b[n] = "<"}
    IN  IF starts = {} THEN Len(b) ELSE Min(starts) - 1

StreamInit ==
    /\ json \in BOOLEAN
    /\ buffer = <<>>
    /\ fed = <<>>
    /\ out = <<>>
    /\ panicked = FALSE
    /\ ended = FALSE

Feed(fragment) ==
    /\ ~panicked /\ ~ended
    /\ Len(fed) + Len(fragment) <= MaxFed
    /\ fed' = fed \o fragment
    /\ LET r == RestoreTokens(buffer \o fragment)
       IN  /\ panicked' = ~IsCharBoundary(r.rest, WindowStart(r.rest))
           /\ out' = out \o r.out \o Prefix(r.rest, Keep(r.rest))
           /\ buffer' = Suffix(r.rest, Keep(r.rest) + 1)
    /\ UNCHANGED <<json, ended>>

\* finish(): the stream ended before a token completed; emit it literally.
Finish ==
    /\ ~panicked /\ ~ended
    /\ ended' = TRUE
    /\ out' = out \o buffer
    /\ buffer' = <<>>
    /\ UNCHANGED <<json, fed, panicked>>

Done == (ended \/ panicked) /\ UNCHANGED streamVars

StreamNext == (\E fragment \in Fragments : Feed(fragment)) \/ Finish \/ Done

StreamSpec == StreamInit /\ [][StreamNext]_streamVars

\* What the client will have if the stream ends here.
Restored == out \o buffer

-------------------------------------------------------------------------------
(* Properties. *)

\* restore_text: the one-pass restore of a complete text.
RestoreWhole(s, escape) ==
    LET r[n \in 1 .. Len(s) + 1] ==
          IF n > Len(s) THEN <<>>
          ELSE IF TokenAt(s, n) = {} THEN <<s[n]>> \o r[n + 1]
               ELSE LET t == CHOOSE u \in TokenAt(s, n) : TRUE
                    IN  Splice(escape, t) \o r[n + Len(t)]
    IN  r[1]

\* However the text is cut into fragments, the window never cuts a character
\* in two, which would panic the relay, and the client gets what restore_text
\* makes of the whole: no token is missed because it was split, none is made
\* of pieces that were released separately.
StreamMatchesWhole == ~panicked /\ Restored = RestoreWhole(fed, json)

\* The hold-back is bounded and minimal: it starts with the "<" of a possible
\* token and is shorter than the longest token, so no text is delayed by more.
HoldBackBounded ==
    ~panicked => \/ buffer = <<>>
                 \/ buffer[1] = "<" /\ Len(buffer) <= MaxTokenLen - 1

\* The string a JSON text stands for: an escape stands for what it escapes, a
\* bare quote ends the string.
JsonValue(s) ==
    LET v[n \in 1 .. Len(s) + 2] ==
          IF n > Len(s) \/ s[n] = Quote THEN <<>>
          ELSE IF s[n] = Backslash /\ n < Len(s)
               THEN <<s[n + 1]>> \o v[n + 2]
               ELSE <<s[n]>> \o v[n + 1]
    IN  v[1]

\* On a tool-arguments channel, restoring the raw JSON text and then parsing
\* it gives what the non-streaming path gives, which parses first and then
\* restores the strings (restore_json), provided the upstream's JSON writer
\* leaves "<" and ">" unescaped.
ArgumentsAgree ==
    json /\ ~panicked => JsonValue(Restored) = RestoreWhole(JsonValue(fed), FALSE)
==============================================================================
