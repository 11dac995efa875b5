----------------------------- MODULE StreamRelay -----------------------------
(***************************************************************************)
(* The streaming relay of the gateway: the task spawned by                 *)
(* handle_streaming_response (core/pipeline.rs) between an upstream SSE    *)
(* stream and the client's response body.                                  *)
(*                                                                         *)
(* Three parties move independently: the upstream (payloads, end of        *)
(* stream, transport error, silence), the relay task, and the client, who  *)
(* reads the bounded channel and may disconnect at any moment.             *)
(*                                                                         *)
(* The relay is sequential between its awaits, so one action runs from one *)
(* await to the next.  Its awaits are the select! on (client gone, next    *)
(* chunk, idle timer) and every send on the bounded channel.               *)
(*                                                                         *)
(* How bytes become payloads is SseFraming's business: here a chunk yields *)
(* any sequence of sendable payloads, chosen one at a time.  Which suffix  *)
(* of a channel the privacy restorer holds back (it might be the start of  *)
(* a token) depends on the text: here it is any suffix.                    *)
(***************************************************************************)
EXTENDS StreamDecoders, StreamEncoders, StreamRestorer

CONSTANTS
    Wire,         \* Wire[u]: the payloads considered for upstream protocol u
    Configs,      \* the route configurations considered
    Cap,          \* capacity of the client channel (64 in the code)
    MaxPayloads   \* bound: payloads sent by the upstream

Config == [client : Clients, upstream : Upstreams,
           privacy : BOOLEAN, memory : BOOLEAN]

ASSUME RelayAssumption ==
    /\ \A u \in Upstreams : Wire[u] \subseteq Sendable(u)
    /\ Configs \subseteq Config
    /\ Cap \in Nat \ {0}
    /\ MaxPayloads \in Nat

VARIABLES
    conf,            \* protocols, privacy session and memory store of the route
    phase,           \* where the task is
    dec, enc,        \* decoder and encoder state
    held,            \* StreamRestorer: text held back on each channel
    events,          \* events of the current payload (or flush) still to relay
    terminal,        \* terminal_events: buffered MessageStop events
    upstreamFailed, sawError, clientGone,   \* the task's flags
    closed,          \* the client dropped the receiver
    queued,          \* messages in the client channel
    sent,            \* history: lines accepted by the channel
    log,             \* history: events decoded from the upstream
    lost,            \* history: some send failed
    count,           \* payloads sent so far
    record           \* status handed to the memory store: none, "ok", "error"

vars == <<conf, phase, dec, enc, held, events, terminal, upstreamFailed, sawError,
          clientGone, closed, queued, sent, log, lost, count, record>>

Phases == {"select",    \* awaiting a chunk, the idle timer or client close
           "chunk",     \* inside the payload loop of one chunk
           "drain",     \* the loop is over; tx.is_closed() not yet tested
           "framing",   \* relaying the payload left in the framer
           "restorer",  \* flushing the restorer's held text
           "terminal",  \* sending the buffered terminal events
           "marker",    \* sending the done marker
           "record",    \* recording the outcome
           "ended"}

\* The types; in particular the client channel holds at most Cap messages.
TypeOK ==
    /\ conf \in Config
    /\ phase \in Phases
    /\ dec \in Decoder
    /\ enc \in Encoder
    /\ DOMAIN held \subseteq ChannelIds
    /\ held \in [DOMAIN held -> Seq(Atom)]
    /\ events \in Seq(Event)
    /\ terminal \in Seq(Event)
    /\ upstreamFailed \in BOOLEAN
    /\ sawError \in BOOLEAN
    /\ clientGone \in BOOLEAN
    /\ closed \in BOOLEAN
    /\ queued \in 0 .. Cap
    /\ sent \in Seq(Line)
    /\ log \in Seq(Event)
    /\ lost \in BOOLEAN
    /\ count \in 0 .. MaxPayloads
    /\ record \in {"none", "ok", "error"}

Init ==
    /\ conf \in Configs
    /\ phase = "select"
    /\ dec = NewDecoder
    /\ enc = NewEncoder
    /\ held = NoneHeld
    /\ events = <<>>
    /\ terminal = <<>>
    /\ upstreamFailed = FALSE
    /\ sawError = FALSE
    /\ clientGone = FALSE
    /\ closed = FALSE
    /\ queued = 0
    /\ sent = <<>>
    /\ log = <<>>
    /\ lost = FALSE
    /\ count = 0
    /\ record = "none"

-------------------------------------------------------------------------------
(* The privacy restorer, seen from the relay. *)

Restored(e) ==
    IF conf.privacy THEN RestoreEvent(held, e) ELSE {[held |-> held, ev |-> <<e>>]}

Busy == {ch \in DOMAIN held : held[ch] # <<>>}

FirstBusy(ch) == ch \in Busy /\ \A d \in Busy \ {ch} : FlushedBefore(ch, d)

\* A flushed tail; for a tool call it carries neither id nor name.
HeldTail(ch) == Ev(ch[1], ch[2], FALSE, held[ch])

-------------------------------------------------------------------------------
(* send_lines: an empty batch is not sent; a batch is one message. *)

\* Mutation: the client channel is unbounded.
CanAlwaysSend == ~closed

CanSend == ~closed /\ queued < Cap

Accept(lines) ==
    \/ /\ lines = <<>>
       /\ UNCHANGED <<sent, queued>>
    \/ /\ lines # <<>>
       /\ CanSend
       /\ sent' = sent \o lines
       /\ queued' = queued + 1

\* Encode e and send its lines; the send succeeds ...
Deliver(e) ==
    LET x == Encode(conf.client, enc, e)
    IN  enc' = x.enc /\ Accept(x.out) /\ UNCHANGED lost

\* ... or fails because the client is gone.
Refuse(e) ==
    LET x == Encode(conf.client, enc, e)
    IN  /\ x.out # <<>> /\ closed
        /\ enc' = x.enc
        /\ lost' = TRUE
        /\ UNCHANGED <<sent, queued>>

Goto(q) ==
    /\ phase' = q
    /\ UNCHANGED <<conf, dec, enc, held, events, terminal, upstreamFailed, sawError,
                   clientGone, closed, queued, sent, log, lost, count, record>>

-------------------------------------------------------------------------------
(* The select! loop. *)

\* The payload loop takes the next payload of a chunk; "[DONE]" ends the
\* stream and drops the rest of its chunk.
NextPayload(p) ==
    /\ phase \in {"select", "chunk"}
    /\ events = <<>>
    /\ count < MaxPayloads
    /\ count' = count + 1
    /\ IF p.t = "[DONE]"
       THEN phase' = "drain" /\ UNCHANGED <<dec, events, log>>
       ELSE LET r == Feed(conf.upstream, dec, p, count + 1)
            IN  /\ phase' = "chunk"
                /\ dec' = r.dec
                /\ events' = r.ev
                /\ log' = log \o r.ev
    /\ UNCHANGED <<conf, enc, held, terminal, upstreamFailed, sawError, clientGone,
                   closed, queued, sent, lost, record>>

ChunkEnd ==
    /\ phase = "chunk"
    /\ events = <<>>
    /\ Goto("select")

LeaveLoop(failed, gone) ==
    /\ phase = "select"
    /\ phase' = "drain"
    /\ upstreamFailed' = failed
    /\ clientGone' = gone
    /\ UNCHANGED <<conf, dec, enc, held, events, terminal, sawError, closed, queued,
                   sent, log, lost, count, record>>

\* Mutation: the loop does not watch the client.
NotWatched == FALSE

ClientClosed == closed /\ LeaveLoop(FALSE, TRUE)

StreamEof == LeaveLoop(FALSE, FALSE)

StreamError == LeaveLoop(TRUE, FALSE)

\* Mutation: chunk reads have no time limit.
NoTimer == FALSE

IdleTimeout == LeaveLoop(TRUE, FALSE)

-------------------------------------------------------------------------------
(* process_payload: the events of one payload, in order. *)

\* Where the task goes when a send fails inside process_payload: out of the
\* read loop, or on to decoder.finish() when flushing the framer.
AfterRefusal == IF phase = "chunk" THEN "drain" ELSE "framing"

\* The event is swallowed by the restorer.
Swallow(r) ==
    /\ r.ev = <<>>
    /\ events' = Tail(events)
    /\ UNCHANGED <<phase, enc, terminal, sawError, queued, sent, lost>>

\* A MessageStop is buffered until the restorer has been flushed.
BufferStop(r) ==
    /\ r.ev # <<>> /\ r.ev[1].k = "stop"
    /\ terminal' = terminal \o r.ev
    /\ events' = Tail(events)
    /\ UNCHANGED <<phase, enc, sawError, queued, sent, lost>>

\* Any other event is encoded and sent; the rest of the payload is dropped when the client is gone.
Forward(r) ==
    /\ r.ev # <<>> /\ r.ev[1].k # "stop"
    /\ sawError' = (sawError \/ /\ r.ev[1].k = "error"
                                /\ Encode(conf.client, enc, r.ev[1]).out # <<>>)
    /\ \/ /\ Deliver(r.ev[1])
          /\ events' = Tail(events)
          /\ UNCHANGED phase
       \/ /\ Refuse(r.ev[1])
          /\ events' = <<>>
          /\ phase' = AfterRefusal
    /\ UNCHANGED terminal

RelayEvent ==
    /\ phase \in {"chunk", "framing"}
    /\ events # <<>>
    /\ \E r \in Restored(Head(events)) :
         /\ held' = r.held
         /\ Swallow(r) \/ BufferStop(r) \/ Forward(r)
    /\ UNCHANGED <<conf, dec, upstreamFailed, clientGone, closed, log, count, record>>

-------------------------------------------------------------------------------
(* After the loop. *)

\* A closed channel skips the whole flush, the record included.
SkipFlush ==
    /\ phase = "drain"
    /\ closed
    /\ Goto("ended")

\* framing.finish() returns nothing (or the stream-end marker) ...
FramerEmpty ==
    /\ phase = "drain"
    /\ ~closed
    /\ Goto("framing")

\* ... or the payload of an event whose blank line never came.
FramerRest(p) ==
    /\ phase = "drain"
    /\ ~closed
    /\ count < MaxPayloads
    /\ p.t # "[DONE]"
    /\ count' = count + 1
    /\ phase' = "framing"
    /\ LET r == Feed(conf.upstream, dec, p, count + 1)
       IN  /\ dec' = r.dec
           /\ events' = r.ev
           /\ log' = log \o r.ev
    /\ UNCHANGED <<conf, enc, held, terminal, upstreamFailed, sawError, clientGone,
                   closed, queued, sent, lost, record>>

\* Mutation: the decoder's last event is encoded at once.
FinishAtOnce ==
    /\ phase = "framing"
    /\ events = <<>>
    /\ LET f == IF upstreamFailed THEN Fed(dec, <<>>) ELSE FinishDecoder(dec)
       IN  /\ dec' = f.dec
           /\ log' = log \o f.ev
           /\ IF f.ev = <<>> THEN UNCHANGED <<enc, sent, queued, lost>>
              ELSE Deliver(f.ev[1]) \/ Refuse(f.ev[1])
    /\ phase' = "restorer"
    /\ UNCHANGED <<conf, held, events, terminal, upstreamFailed, sawError, clientGone,
                   closed, count, record>>

\* decoder.finish() unless the upstream failed: its only event, MessageStop,
\* joins the terminal events.
FinishStream ==
    /\ phase = "framing"
    /\ events = <<>>
    /\ LET f == IF upstreamFailed THEN Fed(dec, <<>>) ELSE FinishDecoder(dec)
       IN  /\ dec' = f.dec
           /\ terminal' = terminal \o f.ev
           /\ log' = log \o f.ev
    /\ phase' = "restorer"
    /\ UNCHANGED <<conf, enc, held, events, upstreamFailed, sawError, clientGone,
                   closed, queued, sent, lost, count, record>>

\* restorer.finish(), failed upstream or not, one tail at a time.  A refused
\* send abandons the rest of this flush, not the flushes after it.
FlushHeld ==
    /\ phase = "restorer"
    /\ \E ch \in Busy :
         /\ FirstBusy(ch)
         /\ \/ Deliver(HeldTail(ch)) /\ held' = HoldOn(held, ch, <<>>)
            \/ Refuse(HeldTail(ch)) /\ held' = NoneHeld
    /\ UNCHANGED <<conf, phase, dec, events, terminal, upstreamFailed, sawError,
                   clientGone, closed, log, count, record>>

\* Mutation: a failed upstream ends like a complete one.
CompleteAnyway ==
    /\ phase = "restorer"
    /\ Busy = {}
    /\ Goto("terminal")

\* On a transport failure neither terminal event nor marker is sent.
HeldFlushed ==
    /\ phase = "restorer"
    /\ Busy = {}
    /\ Goto(IF upstreamFailed THEN "record" ELSE "terminal")

FlushTerminal ==
    /\ phase = "terminal"
    /\ terminal # <<>>
    /\ \/ Deliver(Head(terminal)) /\ terminal' = Tail(terminal)
       \/ Refuse(Head(terminal)) /\ terminal' = <<>>
    /\ UNCHANGED <<conf, phase, dec, held, events, upstreamFailed, sawError,
                   clientGone, closed, log, count, record>>

\* Mutation: the marker follows an error.
MarkerAnyway ==
    /\ phase = "terminal"
    /\ terminal = <<>>
    /\ Goto("marker")

TerminalFlushed ==
    /\ phase = "terminal"
    /\ terminal = <<>>
    /\ Goto(IF sawError THEN "record" ELSE "marker")

\* done() is sent even when it is empty (Anthropic); a failure is ignored.
SendMarker ==
    /\ phase = "marker"
    /\ \/ /\ CanSend
          /\ sent' = sent \o DoneLines(conf.client)
          /\ queued' = queued + 1
          /\ UNCHANGED lost
       \/ /\ closed
          /\ lost' = TRUE
          /\ UNCHANGED <<sent, queued>>
    /\ phase' = "record"
    /\ UNCHANGED <<conf, dec, enc, held, events, terminal, upstreamFailed, sawError,
                   clientGone, closed, log, count, record>>

\* Mutation: an error event does not count as a failure.
OutcomeOfTransport == IF upstreamFailed \/ clientGone THEN "error" ELSE "ok"

Outcome == IF upstreamFailed \/ sawError \/ clientGone THEN "error" ELSE "ok"

RecordOutcome ==
    /\ phase = "record"
    /\ record' = IF conf.memory THEN Outcome ELSE record
    /\ phase' = "ended"
    /\ UNCHANGED <<conf, dec, enc, held, events, terminal, upstreamFailed, sawError,
                   clientGone, closed, queued, sent, log, lost, count>>

-------------------------------------------------------------------------------
(* The client: external, seen through the receiver end of the channel. *)

Receive ==
    /\ ~closed
    /\ queued > 0
    /\ queued' = queued - 1
    /\ UNCHANGED <<conf, phase, dec, enc, held, events, terminal, upstreamFailed,
                   sawError, clientGone, closed, sent, log, lost, count, record>>

Disconnect ==
    /\ ~closed
    /\ phase # "ended"
    /\ closed' = TRUE
    /\ queued' = 0
    /\ UNCHANGED <<conf, phase, dec, enc, held, events, terminal, upstreamFailed,
                   sawError, clientGone, sent, log, lost, count, record>>

\* The task has returned and the client has read everything.
Finished == phase = "ended" /\ queued = 0 /\ UNCHANGED vars

Upstream == \/ \E p \in Wire[conf.upstream] : NextPayload(p)
            \/ StreamEof \/ StreamError

Relay == \/ ChunkEnd \/ ClientClosed \/ RelayEvent
         \/ SkipFlush \/ FramerEmpty \/ (\E p \in Wire[conf.upstream] : FramerRest(p))
         \/ FinishStream \/ FlushHeld \/ HeldFlushed
         \/ FlushTerminal \/ TerminalFlushed \/ SendMarker \/ RecordOutcome

Next == Upstream \/ IdleTimeout \/ Relay \/ Receive \/ Disconnect \/ Finished

Spec == Init /\ [][Next]_vars

\* The runtime keeps polling the task, and the client keeps reading or goes
\* away.  Nothing is assumed of the upstream, which may go silent for ever.
FairSpec == Spec /\ WF_vars(Relay) /\ WF_vars(Receive)

-------------------------------------------------------------------------------
(* Properties. *)

Has(s, name) == \E n \in 1 .. Len(s) : s[n].l = name

Wrote(name) == Has(sent, name)

TerminalLast(s) ==
    \A m, n \in 1 .. Len(s) :
        m < n => /\ s[m].l # "[DONE]"
                 /\ s[m].l = "message_stop" => s[n].l = "[DONE]"

\* Nothing follows the terminal event but the done marker, and nothing at all
\* follows the marker: the held-back text and every other content line is
\* flushed first (terminal flush ordering, pipeline.rs 634-670).
NothingAfterTerminal == TerminalLast(sent)

\* A stream whose upstream connection failed or stalled is never completed:
\* neither a terminal event nor the marker reaches the client, even when the
\* decoder had already produced MessageStop (pipeline.rs 545-548).
FailedNotCompleted ==
    upstreamFailed => ~Wrote("message_stop") /\ ~Wrote("[DONE]")

\* The done marker never ends a stream on which an error was delivered
\* (pipeline.rs 672-674).
MarkerMeansNoError == ~(Wrote("[DONE]") /\ Wrote("error"))

\* With an OpenAI upstream an error chunk also suppresses the terminal event,
\* whatever else the upstream sends before or after it.
OpenAIErrorNotCompleted ==
    conf.upstream = "openai" => ~(Wrote("error") /\ Wrote("message_stop"))

\* The strengthening that makes the three properties above inductive: the
\* decoder's single stop is in exactly one place (the event queue, the
\* terminal buffer or the wire), and each phase fixes what can have been
\* written so far.
StopPending ==
    /\ Len(terminal) <= 1
    /\ \A n \in 1 .. Len(terminal) : terminal[n].k = "stop"
    /\ terminal # <<>> => dec.stopped /\ ~Wrote("message_stop")
    /\ \A n \in 1 .. Len(events) : events[n].k = "stop" =>
          /\ dec.stopped /\ terminal = <<>>
          /\ \A m \in 1 .. Len(events) : events[m].k = "stop" => m = n

PhaseHistory ==
    /\ phase \in {"select", "chunk", "drain", "framing", "restorer"}
          => ~Wrote("message_stop")
    /\ phase \notin {"record", "ended"} => ~Wrote("[DONE]")
    /\ phase \in {"select", "chunk", "terminal", "marker"} => ~upstreamFailed
    /\ phase = "marker" => ~sawError
    /\ Wrote("error") => sawError
    /\ Wrote("[DONE]") => ~sawError

RelayInv ==
    /\ TypeOK
    /\ StopPending
    /\ PhaseHistory
    /\ NothingAfterTerminal
    /\ FailedNotCompleted

\* What pipeline.rs 550-551 asks of every upstream: after an explicit
\* upstream error the stream is not completed.
ErrorNotCompleted == ~(Wrote("error") /\ Wrote("message_stop"))

ChannelsOf(s) == {ChannelOf(s[n]) : n \in {m \in 1 .. Len(s) : s[m].k \in ContentKinds}}

\* Per channel, the client receives the upstream's content in order, without
\* duplication or gaps; and unless a send failed all of it has been sent
\* before the terminal event, a failed upstream included.
ContentIntact ==
    \A ch \in ChannelsOf(log) :
        LET got == OnChannel(sent, ch)
            fed == OnChannel(log, ch)
        IN  /\ got = SubSeq(fed, 1, Len(got))
            /\ ~lost /\ phase \in {"terminal", "marker", "record"} => got = fed

Earlier(n, name) == Cardinality({m \in 1 .. n - 1 : sent[m].l = name})

\* Line n is inside the block that line m started.
Within(m, n) ==
    /\ m < n
    /\ sent[m].l = "block_start"
    /\ sent[m].b = sent[n].b
    /\ \A o \in m + 1 .. n - 1 : sent[o].l \notin {"block_start", "block_stop"}

\* The Anthropic choreography: blocks are numbered in sequence and never
\* overlap; every delta lands in the open block of its own kind and its own
\* tool call, signatures only in thinking blocks; the terminal event finds
\* every block closed.
BlocksMatched ==
    conf.client = "anthropic" =>
    \A n \in 1 .. Len(sent) :
        /\ sent[n].l = "block_start" =>
             /\ sent[n].b = Earlier(n, "block_start")
             /\ sent[n].b = Earlier(n, "block_stop")
        /\ sent[n].l \in {"delta", "signature", "block_stop"} =>
             \E m \in 1 .. n : /\ Within(m, n)
                               /\ sent[n].l = "delta" => ChannelOf(sent[m]) = ChannelOf(sent[n])
                               /\ sent[n].l = "signature" => sent[m].k = "reason"
        /\ sent[n].l \in {"message_stop", "error"} =>
             Earlier(n, "block_start") = Earlier(n, "block_stop")

ToolBlocks == {n \in 1 .. Len(sent) : sent[n].l = "block_start" /\ sent[n].k = "tool"}

\* Every tool_use block an Anthropic client sees is one whole tool call: it
\* carries the call's id and name, and no call is split over two blocks.
ToolCallsWhole ==
    conf.client = "anthropic" =>
        \A n \in ToolBlocks : /\ sent[n].hd
                              /\ \A m \in ToolBlocks : sent[m].i = sent[n].i => m = n

\* An Anthropic client sees matched blocks; with a Gemini upstream, whose
\* decoder numbers and names every call, and without the privacy restorer also
\* one block per tool call.
BlocksWellFormed ==
    /\ BlocksMatched
    /\ conf.upstream = "gemini" /\ ~conf.privacy => ToolCallsWhole

\* A stream recorded "ok", none of whose sends failed, was complete: no error
\* line, a terminal event for every stream the upstream started, and the
\* marker for an OpenAI client.
OkMeansComplete ==
    record = "ok" /\ ~lost =>
        /\ ~Wrote("error")
        /\ dec.started => Wrote("message_stop")
        /\ conf.client = "openai" => sent[Len(sent)].l = "[DONE]"

\* The relay task always ends, provided the idle timer of a silent upstream
\* fires: backpressure, a silent upstream or a vanished client cannot keep it.
StreamEnds == WF_vars(IdleTimeout) => <>(phase = "ended")

\* A disconnect alone ends the task, without waiting for the idle timer
\* (pipeline.rs 560-563).
DisconnectEndsRelay == closed ~> phase = "ended"
==============================================================================
