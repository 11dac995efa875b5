--------------------------- MODULE StreamEncoders ---------------------------
(***************************************************************************)
(* The StreamEncoder implementations that face clients: neutral events to  *)
(* OpenAI chunks and to the Anthropic event choreography.  (The Gemini     *)
(* encoder exists, but no client endpoint is mounted for Gemini.)          *)
(*                                                                         *)
(* A line is one SSE event written to the client.  Its JSON is abstracted  *)
(* to the fields the properties tell apart: l, the event name; b, the      *)
(* content-block index; k, i, hd and a as in a neutral event.              *)
(***************************************************************************)
EXTENDS NeutralStream

Clients == {"openai", "anthropic"}

LineNames == {"message_start", "block_start", "delta", "signature",
              "block_stop", "message_delta", "message_stop", "error", "[DONE]"}

Line == [l : LineNames, b : Nat, k : EventKinds \cup {"none"}, i : Nat,
         hd : BOOLEAN, a : Seq(Atom)]

Ln(name, block, kind, index, header, atoms) ==
    [l |-> name, b |-> block, k |-> kind, i |-> index, hd |-> header, a |-> atoms]

Bare(name) == Ln(name, 0, "none", 0, FALSE, <<>>)

\* AnthropicStreamEncoder: current_block ("none" when no block is open),
\* block_index, pending_signature, tool_blocks_open and open_tool_index (the
\* two Options as sequence and set of at most one element).  The OpenAI
\* encoder keeps no state that outlives an event but the message id.
Encoder == [cur : ContentKinds \cup {"none"}, idx : Nat, sig : Seq(Atom),
            tools : SUBSET Nat, open : SUBSET Nat]

NewEncoder == [cur |-> "none", idx |-> 0, sig |-> <<>>, tools |-> {}, open |-> {}]

Encoded(s, lines) == [enc |-> s, out |-> lines]

\* Mutation: closing a block does not advance the block index.
CloseKeepsIndex(s) ==
    IF s.cur = "none" THEN Encoded(s, <<>>)
    ELSE Encoded([s EXCEPT !.cur = "none", !.tools = @ \ s.open, !.open = {}],
                 <<Ln("block_stop", s.idx, "none", 0, FALSE, <<>>)>>)

\* close_block: the pending signature goes out with a thinking block, a
\* tool block releases its neutral index, the block index advances.
CloseBlock(s) ==
    IF s.cur = "none" THEN Encoded(s, <<>>)
    ELSE Encoded(
           [s EXCEPT !.cur = "none",
                     !.idx = @ + 1,
                     !.sig = IF s.cur = "reason" THEN <<>> ELSE @,
                     !.tools = IF s.cur = "tool" THEN @ \ s.open ELSE @,
                     !.open = IF s.cur = "tool" THEN {} ELSE @],
           (IF s.cur = "reason" /\ s.sig # <<>>
            THEN <<Ln("signature", s.idx, "signature", 0, FALSE, s.sig)>>
            ELSE <<>>)
           \o <<Ln("block_stop", s.idx, "none", 0, FALSE, <<>>)>>)

Delta(s, e) == Ln("delta", s.idx, e.k, e.i, FALSE, e.a)

\* Close whatever is open and start a block for event e.  A tool block
\* records the neutral index it was opened for.
OpenBlock(s, e) ==
    LET c == CloseBlock(s)
    IN  Encoded([c.enc EXCEPT !.cur = e.k,
                              !.tools = IF e.k = "tool" THEN @ \cup {e.i} ELSE @,
                              !.open = IF e.k = "tool" THEN {e.i} ELSE @],
                c.out \o <<Ln("block_start", c.enc.idx, e.k, e.i, e.hd, <<>>)>>)

\* ensure_block, then the delta.
EncodeTextual(s, e) ==
    LET o == IF s.cur = e.k THEN Encoded(s, <<>>) ELSE OpenBlock(s, e)
    IN  Encoded(o.enc, o.out \o <<Delta(o.enc, e)>>)

\* The block opens even when the fragment carries no id; an empty fragment
\* produces no delta.
EncodeToolCall(s, e) ==
    LET o == IF e.i \in s.tools THEN Encoded(s, <<>>) ELSE OpenBlock(s, e)
    IN  Encoded(o.enc, o.out \o (IF e.a = <<>> THEN <<>> ELSE <<Delta(o.enc, e)>>))

EncodeAnthropic(s, e) ==
    LET c == CloseBlock(s)
    IN  CASE e.k = "start" -> Encoded(s, <<Bare("message_start")>>)
          [] e.k \in {"text", "reason"} -> EncodeTextual(s, e)
          [] e.k = "signature" -> Encoded([s EXCEPT !.sig = e.a], <<>>)
          [] e.k = "tool" -> EncodeToolCall(s, e)
          [] e.k = "stop" ->
               Encoded(c.enc, c.out \o <<Ln("message_delta", 0, "none", 0, e.hd, <<>>),
                                         Bare("message_stop")>>)
          [] e.k = "error" -> Encoded(c.enc, c.out \o <<Bare("error")>>)

\* One chunk per event; the finish_reason chunk is this protocol's
\* message_stop; a signature has no OpenAI form.
EncodeOpenAI(s, e) ==
    CASE e.k = "start" -> Encoded(s, <<Bare("message_start")>>)
      [] e.k \in ContentKinds ->
           Encoded(s, <<Ln("delta", 0, e.k, e.i, e.hd, e.a)>>)
      [] e.k = "signature" -> Encoded(s, <<>>)
      [] e.k = "stop" ->
           Encoded(s, <<Ln("message_stop", 0, "none", 0, e.hd, <<>>)>>)
      [] e.k = "error" -> Encoded(s, <<Bare("error")>>)

Encode(client, s, e) ==
    IF client = "anthropic" THEN EncodeAnthropic(s, e) ELSE EncodeOpenAI(s, e)

\* done(): the [DONE] sentinel for OpenAI, the empty string for Anthropic.
DoneLines(client) == IF client = "openai" THEN <<Bare("[DONE]")>> ELSE <<>>
==============================================================================
