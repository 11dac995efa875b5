------------------------------ MODULE SseFraming ------------------------------
(***************************************************************************)
(* SseFraming (core/sse.rs): upstream bytes, in chunks cut anywhere, to    *)
(* event payloads.                                                         *)
(*                                                                         *)
(* The alphabet keeps what the parser tells apart: "nl" and "cr", "data:"  *)
(* (the field prefix, taken as one byte), "sp" (the optional space after   *)
(* it), "bad" (a byte that is not UTF-8) and ordinary text.  A line that   *)
(* does not begin with "data:" is a comment or another field.              *)
(***************************************************************************)
EXTENDS Integers, Sequences, FiniteSetsExt

CONSTANTS
    Byte,       \* the bytes the upstream sends
    Cap,        \* MAX_BUFFER_BYTES (64 MiB in the code)
    MaxChunk,   \* bound: bytes per chunk
    MaxRead     \* bound: bytes read

ASSUME FramingAssumption ==
    /\ "nl" \in Byte
    /\ Cap \in Nat \ {0}
    /\ MaxChunk \in Nat
    /\ MaxRead \in Nat

VARIABLES
    buffer,     \* bytes after the last newline
    data,       \* data_lines: the current event, a separator after each line
    bytes,      \* data_lines_bytes
    payloads,   \* history: everything returned, in order
    read,       \* history: everything pushed
    overflow,   \* history: what the cap made the parser discard: a "chunk",
                \* the "buffer", an "event"
    ended       \* finish() has been called

vars == <<buffer, data, bytes, payloads, read, overflow, ended>>

\* A line without its terminator: an optional carriage return is stripped.
StripCr(s) == IF s # <<>> /\ s[Len(s)] = "cr" THEN SubSeq(s, 1, Len(s) - 1) ELSE s

IsData(line) == line # <<>> /\ line[1] = "data:"

Utf8(s) == \A n \in 1 .. Len(s) : s[n] # "bad"

DataOf(line) ==
    LET rest == Tail(line)
    IN  IF rest # <<>> /\ rest[1] = "sp" THEN Tail(rest) ELSE rest

\* The parser's registers while it works through a chunk.
State(d, n, out, over) == [data |-> d, bytes |-> n, out |-> out, over |-> over]

\* The event without the separator that follows its last line.
Payload(d) == SubSeq(d, 1, Len(d) - 1)

\* Mutation: the count survives a reset.
StaleCount(n) == n

\* data_lines_bytes is reset together with data_lines.
FreshCount(n) == 0

\* A data line joins the event unless the event would exceed the cap, in
\* which case what was collected so far is dropped.
AddLine(s, text) ==
    LET n == s.bytes + Len(text) + 1
    IN  IF n > Cap THEN State(<<>>, FreshCount(n), s.out, s.over \cup {"event"})
        ELSE State(s.data \o text \o <<"nl">>, n, s.out, s.over)

\* Mutation: the last separator stays on the payload.
KeepSeparator(s) ==
    IF s.data = <<>> THEN s
    ELSE State(<<>>, FreshCount(s.bytes), Append(s.out, s.data), s.over)

\* A blank line ends the event; without data it ends nothing.
EndEvent(s) ==
    IF s.data = <<>> THEN s
    ELSE State(<<>>, FreshCount(s.bytes), Append(s.out, Payload(s.data)), s.over)

Line(s, raw) ==
    LET line == StripCr(raw)
    IN  IF line = <<>> THEN EndEvent(s)
        ELSE IF IsData(line) /\ Utf8(DataOf(line)) THEN AddLine(s, DataOf(line))
        ELSE s

\* The cursor loop over the lines of b, from byte n on.
Lines(b, s0) ==
    LET step[n \in 1 .. Len(b) + 1] ==
          \* the registers and the cursor after all lines that end before n
          IF n = 1 THEN [s |-> s0, from |-> 1]
          ELSE LET prev == step[n - 1]
               IN  IF b[n - 1] = "nl"
                   THEN [s |-> Line(prev.s, SubSeq(b, prev.from, n - 2)), from |-> n]
                   ELSE prev
    IN  step[Len(b) + 1]

Init ==
    /\ buffer = <<>>
    /\ data = <<>>
    /\ bytes = 0
    /\ payloads = <<>>
    /\ read = <<>>
    /\ overflow = {}
    /\ ended = FALSE

\* A chunk larger than the cap is ignored.
Oversized(chunk) ==
    /\ Len(chunk) > Cap
    /\ overflow' = overflow \cup {"chunk"}
    /\ UNCHANGED <<buffer, data, bytes, payloads>>

\* Otherwise the chunk joins the buffer, or replaces it and the event under
\* construction if both do not fit, and the complete lines are consumed.
Parsed(chunk) ==
    LET over == Len(buffer) + Len(chunk) > Cap
        b == (IF over THEN <<>> ELSE buffer) \o chunk
        s0 == IF over THEN State(<<>>, FreshCount(bytes), <<>>, overflow \cup {"buffer"})
              ELSE State(data, bytes, <<>>, overflow)
        r == Lines(b, s0)
    IN  /\ Len(chunk) <= Cap
        /\ buffer' = SubSeq(b, r.from, Len(b))
        /\ data' = r.s.data
        /\ bytes' = r.s.bytes
        /\ payloads' = payloads \o r.s.out
        /\ overflow' = r.s.over

Push(chunk) ==
    /\ ~ended
    /\ read' = read \o chunk
    /\ Oversized(chunk) \/ Parsed(chunk)
    /\ UNCHANGED ended

\* finish(): the event whose blank line never came; an unterminated line is
\* dropped.
Finish ==
    /\ ~ended
    /\ ended' = TRUE
    /\ payloads' = IF data = <<>> THEN payloads ELSE Append(payloads, Payload(data))
    /\ data' = <<>>
    /\ bytes' = 0
    /\ buffer' = <<>>
    /\ UNCHANGED <<read, overflow>>

Done == ended /\ UNCHANGED vars

Read ==
    \E n \in 1 .. MaxChunk :
        /\ Len(read) + n <= MaxRead
        /\ \E chunk \in [1 .. n -> Byte] : Push(chunk)

Next == Read \/ Finish \/ Done

Spec == Init /\ [][Next]_vars

-------------------------------------------------------------------------------
(* Properties. *)

\* The types, and the memory bound: neither the unterminated line nor the event
\* under construction outgrows the cap; the event's byte count is exact through
\* every discard and reset (a stale count would discard later events), and no
\* complete line waits in the buffer.
TypeOK ==
    /\ buffer \in Seq(Byte) /\ Len(buffer) <= Cap
    /\ data \in Seq(Byte) /\ Len(data) <= Cap
    /\ bytes = Len(data)
    /\ \A n \in 1 .. Len(buffer) : buffer[n] # "nl"
    /\ payloads \in Seq(Seq(Byte))
    /\ read \in Seq(Byte) /\ Len(read) <= MaxRead
    /\ overflow \subseteq {"chunk", "buffer", "event"}
    /\ ended \in BOOLEAN

\* The lines of a byte stream, terminators removed.
Ends(s) == {n \in 1 .. Len(s) : s[n] = "nl"}

LineEndingAt(s, n) ==
    LET before == {m \in Ends(s) : m < n}
    IN  StripCr(SubSeq(s, (IF before = {} THEN 0 ELSE Max(before)) + 1, n - 1))

Blank(s, n) == n \in Ends(s) /\ LineEndingAt(s, n) = <<>>

HasData(s, n) ==
    /\ n \in Ends(s)
    /\ IsData(LineEndingAt(s, n)) /\ Utf8(DataOf(LineEndingAt(s, n)))

\* The data lines that end in bytes m + 1 .. n of s, joined by newlines.
Joined(s, m, n) ==
    LET j[k \in m .. n] ==
          IF k = m THEN <<>>
          ELSE IF HasData(s, k) THEN j[k - 1] \o DataOf(LineEndingAt(s, k)) \o <<"nl">>
               ELSE j[k - 1]
    IN  j[n]

\* The payloads of a complete stream, blank line by blank line.
Events(s) ==
    LET e[n \in 0 .. Len(s)] ==
          IF n = 0 THEN <<>>
          ELSE IF Blank(s, n)
               THEN LET start == Max({0} \cup {m \in 1 .. n - 1 : Blank(s, m)})
                        text == Joined(s, start, n)
                    IN  IF text = <<>> THEN e[n - 1] ELSE Append(e[n - 1], Payload(text))
               ELSE e[n - 1]
    IN  e[Len(s)]

Rest(s) ==
    LET start == Max({0} \cup {m \in 1 .. Len(s) : Blank(s, m)})
    IN  Joined(s, start, Len(s))

\* Within the cap, how the bytes were cut into chunks does not matter: the
\* payloads are those of the whole stream, and finish() adds the event that
\* was not terminated.
ChunkingIrrelevant ==
    overflow = {} =>
        payloads = IF ended /\ Rest(read) # <<>>
                   THEN Append(Events(read), Payload(Rest(read)))
                   ELSE Events(read)
==============================================================================
