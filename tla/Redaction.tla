------------------------------ MODULE Redaction ------------------------------
(***************************************************************************)
(* The privacy guard of one request (core/privacy.rs): the rules accepted  *)
(* at startup, the session's vault of tokens and its cached automaton, the *)
(* redaction of the request block by block, and the restoration of an      *)
(* answer that repeats a redacted block.                                   *)
(*                                                                         *)
(* Text is a sequence of characters.  A regular expression is external: it *)
(* is the set of words it matches, and find_iter's leftmost non-overlapping*)
(* search over them (the longest first) is kept.  "{n}" is one character   *)
(* of a template.  The message structure around the texts does not matter  *)
(* to the session, so a request is a sequence of texts; JSON strings and   *)
(* the text-bearing blocks are treated alike by the code.                  *)
(***************************************************************************)
EXTENDS Integers, Sequences, FiniteSets, FiniteSetsExt

CONSTANTS
    RuleSets,    \* the configured rule lists considered
    Allowed,     \* the words that the allow list exempts
    Texts,       \* the texts a block of the request may hold
    NameChars,   \* the characters of a token name, the digits included
    Base,        \* counters are rendered in this base (10 in the code)
    MaxTokens,   \* MAX_SESSION_TOKENS
    MaxBlocks    \* bound: text blocks in a request

Digit == <<"0", "1", "2", "3", "4", "5", "6", "7", "8", "9">>

Digits == {Digit[n] : n \in 1 .. Base}

\* A compiled rule.
RuleRecord == [name : STRING, template : Seq(STRING), words : SUBSET Seq(STRING)]

\* No word contains a token delimiter: a pattern that spans "<" could match
\* half of a token and be skipped as a whole.
ASSUME RedactionAssumption ==
    /\ Base \in 2 .. 10 /\ Digits \subseteq NameChars
    /\ {"<", ">", "{n}"} \cap NameChars = {}
    /\ MaxTokens \in Nat /\ MaxBlocks \in Nat
    /\ Texts \subseteq Seq(STRING) /\ RuleSets \subseteq Seq(RuleRecord)
    /\ \A rs \in RuleSets : \A i \in 1 .. Len(rs) : \A w \in rs[i].words :
         \A n \in 1 .. Len(w) : w[n] \notin {"<", ">"}

VARIABLES
    rules,     \* the engine's compiled rules
    vault,     \* t2o, v2t, counters and version of the session's Vault
    cache,     \* the automaton and the vault version it was built for
    request,   \* the texts of the request
    work,      \* the redacted texts of the clone
    phase,
    answer     \* the last restored text of the upstream's answer

vars == <<rules, vault, cache, request, work, phase, answer>>

-------------------------------------------------------------------------------
(* RedactionEngine::new *)

\* validate_template: <NAME{n}> and nothing else.
ValidTemplate(t) ==
    /\ Len(t) > 3
    /\ t[1] = "<" /\ t[Len(t) - 1] = "{n}" /\ t[Len(t)] = ">"
    /\ \A n \in 2 .. Len(t) - 2 : t[n] \in NameChars

TemplatePrefix(t) == SubSeq(t, 2, Len(t) - 2)

\* Mutation: token names are only compared for equality.
NoSuffixCheck(p, q) == FALSE

\* Names that differ by digits only can mint the same token; not when the
\* digits start with a zero, which no counter does.
DigitSuffixCollides(p, q) ==
    LET long == IF Len(p) >= Len(q) THEN p ELSE q
        short == IF Len(p) >= Len(q) THEN q ELSE p
        suffix == SubSeq(long, Len(short) + 1, Len(long))
    IN  /\ SubSeq(long, 1, Len(short)) = short
        /\ suffix # <<>>
        /\ \A n \in 1 .. Len(suffix) : suffix[n] \in Digits
        /\ suffix[1] # "0"

CanMatchEmpty(rule) == <<>> \in rule.words

\* The configurations with which the gateway starts: it fails closed on the
\* others.
Accepted(rs) ==
    /\ \A i \in 1 .. Len(rs) : ValidTemplate(rs[i].template) /\ ~CanMatchEmpty(rs[i])
    /\ \A i, j \in 1 .. Len(rs) :
         i < j => LET p == TemplatePrefix(rs[i].template)
                      q == TemplatePrefix(rs[j].template)
                  IN  p # q /\ ~DigitSuffixCollides(p, q)

-------------------------------------------------------------------------------
(* The vault and the automaton. *)

OccursAt(s, n, w) == n + Len(w) - 1 <= Len(s) /\ SubSeq(s, n, n + Len(w) - 1) = w

\* Leftmost non-overlapping occurrences of words in s, as [from, to] records.
FindIter(s, words) ==
    LET At(n) == {w \in words : OccursAt(s, n, w)}
        find[n \in 1 .. Len(s) + 1] ==
          IF n > Len(s) THEN <<>>
          ELSE IF At(n) = {} THEN find[n + 1]
          ELSE LET end == n + Max({Len(w) : w \in At(n)})
               IN  <<[from |-> n, to |-> end - 1]>> \o find[end]
    IN  find[1]

EmptyVault == [t2o |-> <<>>, v2t |-> <<>>, counters |-> <<>>, version |-> 0]

\* The automaton's Option is None.
NoCache == [version |-> -1, tokens |-> {}]

\* Mutation: a cached automaton is used whatever the vault's version.
WithStaleAutomaton(v, c) ==
    IF c # NoCache THEN c ELSE
    IF v.t2o = <<>> THEN NoCache
    ELSE [version |-> v.version, tokens |-> DOMAIN v.t2o]

\* with_automaton: the cached automaton if its version is the vault's,
\* otherwise a new one over all tokens; none is built for an empty vault.
WithAutomaton(v, c) ==
    IF c.version = v.version \/ v.t2o = <<>> THEN c
    ELSE [version |-> v.version, tokens |-> DOMAIN v.t2o]

Render(n) ==
    LET digits[k \in Nat] ==
          IF k < Base THEN <<Digit[k + 1]>>
          ELSE Append(digits[k \div Base], Digit[(k % Base) + 1])
    IN  digits[n]

Put(f, x, y) == [z \in DOMAIN f \cup {x} |-> IF z = x THEN y ELSE f[z]]

Get(f, x, default) == IF x \in DOMAIN f THEN f[x] ELSE default

\* The result of token_for: the vault, and the text that replaces the match
\* or the error.
Minted(v, text) == [vault |-> v, text |-> text, failed |-> FALSE]

Failed(v) == [vault |-> v, text |-> <<>>, failed |-> TRUE]

\* Mutation: there is no cap.
Unlimited(v) == FALSE

AtCap(v) == Cardinality(DOMAIN v.t2o) >= MaxTokens

\* Mutation: at the cap the match is left as it is.
PassUnredacted(v, word) == Minted(v, word)

\* The cap is reached: refuse.
Refused(v, word) == Failed(v)

Known(v, key) == key \in DOMAIN v.v2t

\* token_for: reuse, refuse at the cap or mint.  The counter moves before
\* the collision check and is not taken back.
TokenFor(v, rule, word) ==
    LET key == <<rule.name, word>>
        n == Get(v.counters, rule.name, 0) + 1
        token == <<"<">> \o TemplatePrefix(rule.template) \o Render(n) \o <<">">>
        counted == [v EXCEPT !.counters = Put(@, rule.name, n)]
    IN  IF Known(v, key) THEN Minted(v, v.v2t[key])
        ELSE IF AtCap(v) THEN Refused(v, word)
        ELSE IF Get(v.t2o, token, word) # word THEN Failed(counted)
        ELSE Minted([counted EXCEPT !.t2o = Put(@, token, word),
                                    !.v2t = Put(@, key, token),
                                    !.version = @ + 1], token)

-------------------------------------------------------------------------------
(* redact_text and restore_text *)

Overlaps(m, spans) ==
    \E k \in 1 .. Len(spans) : m.from <= spans[k].to /\ m.to >= spans[k].from

\* is_allowed: an allow-list pattern or domain covers the match.
IsAllowed(word) == word \in Allowed

\* One rule over one text: matches that touch a token are skipped, allowed
\* ones stay, the others become tokens; the first failure ends it.
ApplyRule(rule, text, v, c) ==
    LET matches == FindIter(text, rule.words)
        spans == FindIter(text, c.tokens)
        pass[k \in 0 .. Len(matches)] ==
          IF k = 0 THEN [vault |-> v, out |-> <<>>, last |-> 0, failed |-> FALSE]
          ELSE LET p == pass[k - 1]
                   m == matches[k]
                   word == SubSeq(text, m.from, m.to)
                   t == IF IsAllowed(word) THEN Minted(p.vault, word)
                        ELSE TokenFor(p.vault, rule, word)
               IN  IF p.failed \/ Overlaps(m, spans) THEN p
                   ELSE [vault |-> t.vault, failed |-> t.failed, last |-> m.to,
                         out |-> p.out \o SubSeq(text, p.last + 1, m.from - 1) \o t.text]
        end == pass[Len(matches)]
    IN  [vault |-> end.vault, failed |-> end.failed, cache |-> c,
         text |-> end.out \o SubSeq(text, end.last + 1, Len(text))]

\* The rules in their order, each over what the one before it left.
RedactText(text) ==
    LET after[i \in 0 .. Len(rules)] ==
          IF i = 0 THEN [vault |-> vault, failed |-> FALSE, cache |-> cache, text |-> text]
          ELSE LET p == after[i - 1]
               IN  IF p.failed THEN p
                   ELSE ApplyRule(rules[i], p.text, p.vault, WithAutomaton(p.vault, p.cache))
    IN  after[Len(rules)]

\* Every token the automaton finds is replaced by its original.
RestoreText(text, c) ==
    LET spans == FindIter(text, c.tokens)
        done[k \in 0 .. Len(spans)] ==
          IF k = 0 THEN [out |-> <<>>, last |-> 0]
          ELSE [out |-> done[k - 1].out
                          \o SubSeq(text, done[k - 1].last + 1, spans[k].from - 1)
                          \o vault.t2o[SubSeq(text, spans[k].from, spans[k].to)],
                last |-> spans[k].to]
        end == done[Len(spans)]
    IN  end.out \o SubSeq(text, end.last + 1, Len(text))

-------------------------------------------------------------------------------
(* The request. *)

Init ==
    /\ rules \in {rs \in RuleSets : Accepted(rs)}
    /\ vault = EmptyVault
    /\ cache = NoCache
    /\ request = <<>>
    /\ work = <<>>
    /\ phase = "redacting"
    /\ answer = [block |-> 0, text |-> <<>>]

\* The next text of the clone is redacted.  A failure rejects the request:
\* nothing of the clone is forwarded.
RedactBlock(text) ==
    /\ phase = "redacting"
    /\ Len(request) < MaxBlocks
    /\ LET r == RedactText(text)
       IN  /\ vault' = r.vault
           /\ cache' = r.cache
           /\ request' = Append(request, text)
           /\ work' = IF r.failed THEN <<>> ELSE Append(work, r.text)
           /\ phase' = IF r.failed THEN "rejected" ELSE "redacting"
    /\ UNCHANGED <<rules, answer>>

\* redact_request returns Ok: the clone replaces the request.
Forward ==
    /\ phase = "redacting"
    /\ phase' = "forwarded"
    /\ UNCHANGED <<rules, vault, cache, request, work, answer>>

\* The upstream's answer repeats block k; restore_response restores it.
Restore(k) ==
    /\ phase = "forwarded"
    /\ cache' = WithAutomaton(vault, cache)
    /\ answer' = [block |-> k, text |-> RestoreText(work[k], cache')]
    /\ UNCHANGED <<rules, vault, request, work, phase>>

Finished ==
    /\ phase = "rejected" \/ (phase = "forwarded" /\ work = <<>>)
    /\ UNCHANGED vars

Next ==
    \/ \E text \in Texts : RedactBlock(text)
    \/ Forward
    \/ \E k \in 1 .. Len(work) : Restore(k)
    \/ Finished

Spec == Init /\ [][Next]_vars

-------------------------------------------------------------------------------
(* Properties. *)

Tokens == DOMAIN vault.t2o

Contains(s, w) == \E n \in 1 .. Len(s) : OccursAt(s, n, w)

\* Over all the texts of the request the upstream sees one symbol per value
\* of a rule, and each symbol stands for one value of one rule.
OneSymbolPerValue ==
    /\ \A key \in DOMAIN vault.v2t : vault.t2o[vault.v2t[key]] = key[2]
    /\ \A t \in Tokens : \E key \in DOMAIN vault.v2t : vault.v2t[key] = t
    /\ \A k, l \in DOMAIN vault.v2t : vault.v2t[k] = vault.v2t[l] => k = l

\* The types; in particular the vault never outgrows the cap and pairs values
\* with symbols one to one.
TypeOK ==
    /\ phase \in {"redacting", "forwarded", "rejected"}
    /\ Cardinality(Tokens) <= MaxTokens
    /\ vault.version = Cardinality(Tokens)
    /\ OneSymbolPerValue
    /\ cache.tokens \subseteq Tokens
    /\ Len(work) <= Len(request)

\* An answer that repeats what was forwarded reaches the client as the client
\* wrote it, whatever the rules rewrote and in whatever order blocks minted
\* the tokens; except that a client text which itself spells a minted token
\* cannot be told from that token.
RoundTrip ==
    /\ answer.block # 0
    /\ \A k \in 1 .. Len(request) : \A t \in Tokens : ~Contains(request[k], t)
    => answer.text = request[answer.block]

\* No word of any rule is left in what is forwarded, unless it is exempt or
\* part of a token: also not because a later text or a full vault found the
\* session in an unexpected state.
NothingLeaks ==
    \A k \in 1 .. Len(work) : \A i \in 1 .. Len(rules) :
      LET found == FindIter(work[k], rules[i].words)
      IN  \A n \in 1 .. Len(found) :
            \/ IsAllowed(SubSeq(work[k], found[n].from, found[n].to))
            \/ Overlaps(found[n], FindIter(work[k], Tokens))

\* A request is rejected only when its session has used up the cap: rules
\* that passed RedactionEngine::new never mint the same token for two
\* values, so the collision error cannot occur.
RejectedOnlyWhenFull == phase = "rejected" => Cardinality(Tokens) = MaxTokens
==============================================================================
