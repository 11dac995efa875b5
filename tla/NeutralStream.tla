---------------------------- MODULE NeutralStream ----------------------------
(***************************************************************************)
(* The protocol-neutral stream events that pass from a StreamDecoder to a  *)
(* StreamEncoder (core/neutral.rs).                                        *)
(*                                                                         *)
(* Text is abstracted to atoms: an atom <<n, j>> is the content of the     *)
(* j-th event decoded from the n-th payload, so every piece of content is  *)
(* distinguishable and its place in the upstream stream is known.  Message *)
(* ids, model names, usage counters and finish-reason words are dropped;   *)
(* whether an id/name is present at all, and whether the upstream named a  *)
(* finish reason, are kept (field hd).                                     *)
(***************************************************************************)
EXTENDS Integers, Sequences

Atom == Nat \X Nat

ContentKinds == {"text", "reason", "tool"}

EventKinds == ContentKinds \cup {"start", "signature", "stop", "error"}

\* k: variant;  i: tool-call index (0 elsewhere);  hd: a tool delta carries
\* the call's id and name, a stop carries a reported finish reason;  a: the
\* text, reasoning, arguments or signature carried by the event.
Event == [k : EventKinds, i : Nat, hd : BOOLEAN, a : Seq(Atom)]

Ev(kind, index, header, atoms) ==
    [k |-> kind, i |-> index, hd |-> header, a |-> atoms]

Plain(kind) == Ev(kind, 0, FALSE, <<>>)

\* The independent text channels of a stream: one for text, one for
\* reasoning, one for the arguments of each tool call.
ChannelOf(e) == <<e.k, e.i>>

\* What sequence s (of events or of client lines, which share the fields k,
\* i and a) carries on channel ch, in order.
OnChannel(s, ch) ==
    LET sel[n \in 0 .. Len(s)] ==
          IF n = 0 THEN <<>>
          ELSE IF s[n].k \in ContentKinds /\ ChannelOf(s[n]) = ch
               THEN sel[n - 1] \o s[n].a
               ELSE sel[n - 1]
    IN  sel[Len(s)]
==============================================================================
