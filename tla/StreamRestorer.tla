--------------------------- MODULE StreamRestorer ---------------------------
(***************************************************************************)
(* StreamRestorer (core/privacy.rs) as the pipeline sees it: one hold-back *)
(* buffer per channel of the stream.  Which suffix of a channel is held    *)
(* back (it might be the start of a token) depends on the text, which      *)
(* RestoreStream models byte by byte; here it is any suffix.               *)
(***************************************************************************)
EXTENDS NeutralStream

\* The channels a stream may have.
ChannelIds == ContentKinds \X Nat

\* The text and reasoning channels exist from the start; the tool_args map
\* gains an entry per tool index.
NoneHeld == [ch \in {<<"text", 0>>, <<"reason", 0>>} |-> <<>>]

HeldOn(h, ch) == IF ch \in DOMAIN h THEN h[ch] ELSE <<>>

HoldOn(h, ch, atoms) == [c \in DOMAIN h \cup {ch} |-> IF c = ch THEN atoms ELSE h[c]]

\* Mutation: a new fragment replaces what its channel holds.
RestoreAlone(h, e) ==
    IF e.k \notin ContentKinds THEN {[held |-> h, ev |-> <<e>>]}
    ELSE {[held |-> HoldOn(h, ChannelOf(e), SubSeq(e.a, n + 1, Len(e.a))),
           ev |-> <<[e EXCEPT !.a = SubSeq(e.a, 1, n)]>>] : n \in 0 .. Len(e.a)}

\* restore_event: content joins its channel, a prefix of what the channel
\* now holds is released and the rest is held back; a delta left without any
\* information is swallowed.  An error's message is restored whole; everything
\* else passes through.
RestoreEvent(h, e) ==
    IF e.k \notin ContentKinds THEN {[held |-> h, ev |-> <<e>>]}
    ELSE LET all == HeldOn(h, ChannelOf(e)) \o e.a
         IN  {[held |-> HoldOn(h, ChannelOf(e), SubSeq(all, n + 1, Len(all))),
               ev |-> IF n = 0 /\ ~e.hd THEN <<>>
                      ELSE <<[e EXCEPT !.a = SubSeq(all, 1, n)]>>] : n \in 0 .. Len(all)}

\* The order in which StreamRestorer::finish flushes the channels: text,
\* reasoning, then the tool calls by index.
FlushedBefore(c, d) ==
    \/ c[1] = "text" /\ d[1] # "text"
    \/ c[1] = "reason" /\ d[1] = "tool"
    \/ c[1] = "tool" /\ d[1] = "tool" /\ c[2] < d[2]
==============================================================================
