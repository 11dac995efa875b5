-------------------------- MODULE StreamRelayProofs --------------------------
(***************************************************************************)
(* What holds of the relay for every wire alphabet, every set of routes,   *)
(* every channel capacity and any number of payloads.                      *)
(*                                                                         *)
(* The argument: a decoder produces at most one stop in its life           *)
(* (FeedStops, FinishStops); an encoder writes message_stop for a stop     *)
(* only, as its last line, and error for an error only (EncodeAnswer); so  *)
(* while the stop is queued or buffered no terminal event is written, and  *)
(* the phases order content, stop and marker (RelayInv).  CompletionInv    *)
(* adds how a stream ends, IntactInv where each channel's content is, and  *)
(* BlocksInv which block is open.                                          *)
(***************************************************************************)
EXTENDS StreamRelay, StreamCodecProofs

-------------------------------------------------------------------------------
(* What a send, and a pass through the restorer, do to the state. *)

\* A line of two concatenated batches is a line of one of them.
LEMMA HasConcat ==
    ASSUME NEW a \in Seq(Line), NEW b \in Seq(Line), NEW x
    PROVE  Has(a \o b, x) <=> Has(a, x) \/ Has(b, x)
<1>1. ASSUME Has(a \o b, x) PROVE Has(a, x) \/ Has(b, x)
  <2>1. PICK n \in 1 .. Len(a \o b) : (a \o b)[n].l = x BY <1>1 DEF Has
  <2>2. CASE n <= Len(a) BY <2>1, <2>2 DEF Has
  <2>3. CASE n > Len(a)
    <3>1. n - Len(a) \in 1 .. Len(b) /\ (a \o b)[n] = b[n - Len(a)] BY <2>3
    <3> QED BY <2>1, <3>1 DEF Has
  <2> QED BY <2>2, <2>3
<1>2. ASSUME Has(a, x) PROVE Has(a \o b, x)
  <2>1. PICK n \in 1 .. Len(a) : a[n].l = x BY <1>2 DEF Has
  <2>2. n \in 1 .. Len(a \o b) /\ (a \o b)[n] = a[n] OBVIOUS
  <2> QED BY <2>1, <2>2 DEF Has
<1>3. ASSUME Has(b, x) PROVE Has(a \o b, x)
  <2>1. PICK n \in 1 .. Len(b) : b[n].l = x BY <1>3 DEF Has
  <2>2. n + Len(a) \in 1 .. Len(a \o b) /\ (a \o b)[n + Len(a)] = b[n] OBVIOUS
  <2> QED BY <2>1, <2>2 DEF Has
<1> QED BY <1>1, <1>2, <1>3

\* Lines whose only terminal event comes last keep a stream that has none
\* well ordered.
LEMMA TerminalConcat ==
    ASSUME NEW a \in Seq(Line), NEW b \in Seq(Line),
           ~Has(a, "message_stop"), ~Has(a, "[DONE]"), ~Has(b, "[DONE]"),
           \A n \in 1 .. Len(b) : b[n].l = "message_stop" => n = Len(b)
    PROVE  TerminalLast(a \o b)
<1> SUFFICES ASSUME NEW m \in 1 .. Len(a \o b), NEW n \in 1 .. Len(a \o b), m < n
             PROVE  (a \o b)[m].l # "[DONE]" /\ (a \o b)[m].l # "message_stop"
  BY DEF TerminalLast
<1>1. CASE m <= Len(a)
  <2>1. m \in 1 .. Len(a) /\ (a \o b)[m] = a[m] BY <1>1
  <2> QED BY <2>1 DEF Has
<1>2. CASE m > Len(a)
  <2>1. m - Len(a) \in 1 .. Len(b) /\ (a \o b)[m] = b[m - Len(a)] BY <1>2
  <2>2. m - Len(a) # Len(b) OBVIOUS
  <2> QED BY <2>1, <2>2 DEF Has
<1> QED BY <1>1, <1>2

\* The marker may be appended to a well-ordered stream without marker.
LEMMA MarkerConcat ==
    ASSUME NEW a \in Seq(Line), NEW b \in Seq(Line),
           TerminalLast(a), ~Has(a, "[DONE]"),
           Len(b) <= 1, \A n \in 1 .. Len(b) : b[n].l = "[DONE]"
    PROVE  TerminalLast(a \o b)
<1> SUFFICES ASSUME NEW m \in 1 .. Len(a \o b), NEW n \in 1 .. Len(a \o b), m < n
             PROVE  /\ (a \o b)[m].l # "[DONE]"
                    /\ (a \o b)[m].l = "message_stop" => (a \o b)[n].l = "[DONE]"
  BY DEF TerminalLast
<1>1. m \in 1 .. Len(a) /\ (a \o b)[m] = a[m] OBVIOUS
<1>2. CASE n <= Len(a)
  <2>1. n \in 1 .. Len(a) /\ (a \o b)[n] = a[n] BY <1>2
  <2> QED BY <1>1, <2>1 DEF TerminalLast
<1>3. CASE n > Len(a)
  <2>1. n - Len(a) \in 1 .. Len(b) /\ (a \o b)[n] = b[n - Len(a)] BY <1>3
  <2> QED BY <1>1, <2>1 DEF Has
<1> QED BY <1>2, <1>3

\* The outcome of relaying event e: its lines are written, or nothing is.
LEMMA SendFacts ==
    ASSUME TypeOK, NEW e \in Event, Deliver(e) \/ Refuse(e)
    PROVE  LET out == Encode(conf.client, enc, e).out
           IN  /\ enc' \in Encoder
               /\ lost' \in BOOLEAN
               /\ queued' \in 0 .. Cap
               /\ out \in Seq(Line)
               /\ sent' = sent \/ sent' = sent \o out
               /\ Answer(Encode(conf.client, enc, e), e)
<1> DEFINE o == Encode(conf.client, enc, e)
<1>1. Answer(o, e) BY EncodeAnswer DEF TypeOK
<1>2. o.enc \in Encoder /\ o.out \in Seq(Line) BY <1>1 DEF Answer
<1>3. CASE Deliver(e)
  <2>1. enc' = o.enc /\ Accept(o.out) /\ lost' = lost BY <1>3 DEF Deliver
  <2> HIDE DEF o
  <2>2. queued' \in 0 .. Cap BY <2>1, RelayAssumption DEF Accept, CanSend, TypeOK
  <2>3. sent' = sent \/ sent' = sent \o o.out BY <2>1 DEF Accept
  <2> QED BY <1>1, <1>2, <2>1, <2>2, <2>3 DEF TypeOK, o
<1>4. CASE Refuse(e)
  <2>1. enc' = o.enc /\ lost' = TRUE /\ sent' = sent /\ queued' = queued
    BY <1>4 DEF Refuse
  <2> QED BY <1>1, <1>2, <2>1 DEF TypeOK
<1> QED BY <1>3, <1>4

\* A send keeps the types, the channel's capacity included.
LEMMA SendType ==
    ASSUME TypeOK, NEW e \in Event, Deliver(e) \/ Refuse(e)
    PROVE  enc' \in Encoder /\ lost' \in BOOLEAN /\ queued' \in 0 .. Cap /\ sent' \in Seq(Line)
<1> DEFINE out == Encode(conf.client, enc, e).out
<1>1. /\ enc' \in Encoder /\ lost' \in BOOLEAN /\ queued' \in 0 .. Cap
      /\ out \in Seq(Line) /\ (sent' = sent \/ sent' = sent \o out)
  BY SendFacts
<1> HIDE DEF out
<1>2. sent \in Seq(Line) BY DEF TypeOK
<1>3. sent \o out \in Seq(Line) BY <1>1, <1>2
<1>4. sent' \in Seq(Line) BY <1>1, <1>2, <1>3, Zenon
<1> QED BY <1>1, <1>4, Zenon

\* Only names that e allows are added.
LEMMA SendNames ==
    ASSUME TypeOK, NEW e \in Event, Deliver(e) \/ Refuse(e), NEW x
    PROVE  Has(sent', x) => Has(sent, x) \/ x \in NamesFor(e)
<1> DEFINE out == Encode(conf.client, enc, e).out
<1>1. /\ out \in Seq(Line) /\ (sent' = sent \/ sent' = sent \o out)
      /\ AllNamed(out, NamesFor(e))
  BY SendFacts DEF Answer
<1> HIDE DEF out
<1>2. sent \in Seq(Line) BY DEF TypeOK
<1>3. Has(out, x) => x \in NamesFor(e) BY <1>1 DEF Has, AllNamed
<1>4. Has(sent \o out, x) <=> Has(sent, x) \/ Has(out, x) BY <1>1, <1>2, HasConcat
<1>5. CASE sent' = sent BY <1>5
<1>6. CASE sent' = sent \o out BY <1>3, <1>4, <1>6
<1> QED BY <1>1, <1>5, <1>6

\* A send before the terminal event keeps the stream well ordered.
LEMMA SendOrder ==
    ASSUME TypeOK, NEW e \in Event, Deliver(e) \/ Refuse(e),
           ~Wrote("message_stop"), ~Wrote("[DONE]"), NothingAfterTerminal
    PROVE  TerminalLast(sent')
<1> DEFINE out == Encode(conf.client, enc, e).out
<1>1. /\ out \in Seq(Line) /\ (sent' = sent \/ sent' = sent \o out)
      /\ AllNamed(out, NamesFor(e))
      /\ \A n \in 1 .. Len(out) : out[n].l = "message_stop" => n = Len(out)
  BY SendFacts DEF Answer
<1> HIDE DEF out
<1>2. sent \in Seq(Line) BY DEF TypeOK
<1>3. "[DONE]" \notin NamesFor(e)
  BY EventFields DEF NamesFor, BlockNames, EventKinds, ContentKinds
<1>4. ~Has(out, "[DONE]") BY <1>1, <1>3 DEF Has, AllNamed
<1>5. CASE sent' = sent BY <1>5 DEF NothingAfterTerminal, TerminalLast
<1>6. CASE sent' = sent \o out
  BY <1>1, <1>2, <1>4, <1>6, TerminalConcat DEF Wrote
<1> QED BY <1>1, <1>5, <1>6

\* The restorer, or its absence, swallows an event or passes on one of the
\* same kind.
LEMMA RestoreFacts ==
    ASSUME TypeOK, NEW e \in Event, NEW r \in Restored(e)
    PROVE  /\ HeldType(r.held)
           /\ \/ r.ev = <<>>
              \/ /\ r.ev \in Seq(Event) /\ Len(r.ev) = 1
                 /\ r.ev[1] \in Event /\ r.ev[1].k = e.k
<1>1. HeldType(held) BY DEF TypeOK, HeldType
<1>2. <<e>> \in Seq(Event) /\ Len(<<e>>) = 1 /\ <<e>>[1] = e OBVIOUS
<1>3. CASE ~conf.privacy
  <2>1. r.held = held /\ r.ev = <<e>> BY <1>3 DEF Restored
  <2> QED BY <1>1, <1>2, <2>1
<1>4. CASE conf.privacy
  <2>1. r \in RestoreEvent(held, e) BY <1>4 DEF Restored
  <2> QED BY <1>1, <2>1, RestoreEventFacts
<1> QED BY <1>3, <1>4
-------------------------------------------------------------------------------
(* Type correctness. *)

\* The payloads of a run keep the one-stop contract.
LEMMA FedType ==
    ASSUME TypeOK, NEW p \in Wire[conf.upstream]
    PROVE  StopsOnce(dec, Feed(conf.upstream, dec, p, count + 1))
<1>1. conf.upstream \in Upstreams BY DEF TypeOK, Config
<1>2. p \in Sendable(conf.upstream) BY <1>1, RelayAssumption
<1>3. count + 1 \in Nat /\ dec \in Decoder BY RelayAssumption DEF TypeOK
<1> QED BY <1>1, <1>2, <1>3, FeedStops

\* A flushed tail is a content event.
LEMMA HeldTailType ==
    ASSUME TypeOK, NEW ch \in Busy
    PROVE  HeldTail(ch) \in Event /\ HeldTail(ch).k \in ContentKinds
<1>1. /\ ch \in ChannelIds /\ ch[1] \in ContentKinds /\ ch[2] \in Nat
      /\ held[ch] \in Seq(Atom)
  BY DEF Busy, TypeOK, ChannelIds
<1>2. HeldTail(ch) \in Event BY <1>1, EvType DEF HeldTail, EventKinds
<1>3. HeldTail(ch).k = ch[1] BY DEF HeldTail, Ev
<1> QED BY <1>1, <1>2, <1>3

\* The initial states are typed.
LEMMA InitType == Init => TypeOK
<1> SUFFICES ASSUME Init PROVE TypeOK OBVIOUS
<1>1. NewDecoder \in Decoder BY DEF NewDecoder, Decoder
<1>2. NewEncoder \in Encoder BY AtomSeq DEF NewEncoder, Encoder
<1>3. HeldType(held) BY EmptyHeld DEF Init
<1>4. conf \in Config BY RelayAssumption DEF Init
<1>5. 0 \in 0 .. Cap /\ 0 \in 0 .. MaxPayloads BY RelayAssumption
<1>6. <<>> \in Seq(Event) /\ <<>> \in Seq(Line) OBVIOUS
<1>7. phase \in Phases BY DEF Init, Phases
<1> QED BY <1>1, <1>2, <1>3, <1>4, <1>5, <1>6, <1>7 DEF Init, TypeOK, HeldType

\* Every step keeps the types: one case per action.
LEMMA NextType == TypeOK /\ [Next]_vars => TypeOK'
<1> SUFFICES ASSUME TypeOK, [Next]_vars PROVE TypeOK' OBVIOUS
<1>1. ASSUME NEW p \in Wire[conf.upstream], NextPayload(p) PROVE TypeOK'
  <2> DEFINE r == Feed(conf.upstream, dec, p, count + 1)
  <2>1. r.dec \in Decoder /\ r.ev \in Seq(Event) BY FedType DEF StopsOnce
  <2> HIDE DEF r
  <2>2. CASE p.t = "[DONE]"
    BY <1>1, <2>2, RelayAssumption DEF NextPayload, TypeOK, Phases
  <2>3. CASE p.t # "[DONE]"
    <3>1. dec' = r.dec /\ events' = r.ev /\ log' = log \o r.ev /\ phase' = "chunk"
      BY <1>1, <2>3 DEF NextPayload, r
    <3> QED BY <1>1, <2>1, <3>1, RelayAssumption DEF NextPayload, TypeOK, Phases
  <2> QED BY <2>2, <2>3
<1>2. ASSUME NEW q \in Phases, Goto(q) PROVE TypeOK'
  BY <1>2 DEF Goto, TypeOK
<1>3. ASSUME NEW f \in BOOLEAN, NEW g \in BOOLEAN, LeaveLoop(f, g) PROVE TypeOK'
  BY <1>3 DEF LeaveLoop, TypeOK, Phases
<1>4. CASE RelayEvent
  <2>1. events # <<>> /\ Head(events) \in Event /\ Tail(events) \in Seq(Event)
    BY <1>4 DEF RelayEvent, TypeOK
  <2>2. PICK r \in Restored(Head(events)) :
          held' = r.held /\ (Swallow(r) \/ BufferStop(r) \/ Forward(r))
    BY <1>4 DEF RelayEvent
  <2>3. /\ HeldType(r.held)
        /\ \/ r.ev = <<>>
           \/ r.ev \in Seq(Event) /\ Len(r.ev) = 1 /\ r.ev[1] \in Event
    BY <2>1, RestoreFacts
  <2>4. HeldType(held)' BY <2>2, <2>3 DEF HeldType
  <2>5. UNCHANGED <<conf, dec, upstreamFailed, clientGone, closed, log, count, record>>
    BY <1>4 DEF RelayEvent
  <2>6. CASE Swallow(r)
    BY <2>1, <2>4, <2>5, <2>6 DEF Swallow, TypeOK, HeldType
  <2>7. CASE BufferStop(r)
    BY <2>1, <2>3, <2>4, <2>5, <2>7 DEF BufferStop, TypeOK, HeldType
  <2>8. CASE Forward(r)
    <3>1. r.ev[1] \in Event BY <2>3, <2>8 DEF Forward
    <3>2. Deliver(r.ev[1]) \/ Refuse(r.ev[1]) BY <2>8 DEF Forward
    <3>3. enc' \in Encoder /\ lost' \in BOOLEAN /\ queued' \in 0 .. Cap /\ sent' \in Seq(Line)
      BY <3>1, <3>2, SendType
    <3>4. /\ events' \in Seq(Event) /\ phase' \in Phases
          /\ sawError' \in BOOLEAN /\ terminal' = terminal
      <4>1. events' = Tail(events) \/ events' = <<>> BY <2>8 DEF Forward
      <4>2. phase' \in Phases BY <2>8 DEF Forward, AfterRefusal, TypeOK, Phases
      <4>3. sawError' \in BOOLEAN BY <2>8 DEF Forward
      <4>4. <<>> \in Seq(Event) OBVIOUS
      <4>5. events' \in Seq(Event) BY <2>1, <4>1, <4>4, Zenon
      <4> QED BY <2>8, <4>2, <4>3, <4>5 DEF Forward
    <3> QED BY <2>4, <2>5, <3>3, <3>4 DEF TypeOK, HeldType
  <2> QED BY <2>2, <2>6, <2>7, <2>8
<1>5. ASSUME NEW p \in Wire[conf.upstream], FramerRest(p) PROVE TypeOK'
  <2> DEFINE r == Feed(conf.upstream, dec, p, count + 1)
  <2>1. r.dec \in Decoder /\ r.ev \in Seq(Event) BY FedType DEF StopsOnce
  <2> HIDE DEF r
  <2>2. dec' = r.dec /\ events' = r.ev /\ log' = log \o r.ev
    BY <1>5 DEF FramerRest, r
  <2> QED BY <1>5, <2>1, <2>2, RelayAssumption DEF FramerRest, TypeOK, Phases
<1>6. CASE FinishStream
  <2> DEFINE f == IF upstreamFailed THEN Fed(dec, <<>>) ELSE FinishDecoder(dec)
  <2>1. f.dec \in Decoder /\ f.ev \in Seq(Event)
    <3>1. dec \in Decoder BY DEF TypeOK
    <3>2. Fed(dec, <<>>).dec \in Decoder /\ Fed(dec, <<>>).ev \in Seq(Event)
      BY <3>1 DEF Fed
    <3>3. FinishDecoder(dec).dec \in Decoder /\ FinishDecoder(dec).ev \in Seq(Event)
      BY <3>1, FinishType
    <3> QED BY <3>2, <3>3, Zenon
  <2> HIDE DEF f
  <2>2. dec' = f.dec /\ terminal' = terminal \o f.ev /\ log' = log \o f.ev
    BY <1>6 DEF FinishStream, f
  <2>3. terminal' \in Seq(Event) /\ log' \in Seq(Event) BY <2>1, <2>2 DEF TypeOK
  <2> QED BY <1>6, <2>1, <2>2, <2>3 DEF FinishStream, TypeOK, Phases
<1>7. CASE FlushHeld
  <2>1. PICK ch \in Busy :
          \/ Deliver(HeldTail(ch)) /\ held' = HoldOn(held, ch, <<>>)
          \/ Refuse(HeldTail(ch)) /\ held' = NoneHeld
    BY <1>7 DEF FlushHeld
  <2>2. HeldTail(ch) \in Event BY HeldTailType
  <2>3. enc' \in Encoder /\ lost' \in BOOLEAN /\ queued' \in 0 .. Cap /\ sent' \in Seq(Line)
    BY <2>1, <2>2, SendType
  <2>4. HeldType(held) /\ ch \in ChannelIds BY DEF Busy, TypeOK, HeldType
  <2>5. HeldType(HoldOn(held, ch, <<>>)) BY <2>4, AtomSeq, HoldType
  <2>6. HeldType(held)' BY <2>1, <2>5, EmptyHeld DEF HeldType
  <2> QED BY <1>7, <2>3, <2>6 DEF FlushHeld, TypeOK, HeldType
<1>8. CASE FlushTerminal
  <2>1. Head(terminal) \in Event /\ Tail(terminal) \in Seq(Event)
    BY <1>8 DEF FlushTerminal, TypeOK
  <2>2. Deliver(Head(terminal)) \/ Refuse(Head(terminal)) BY <1>8 DEF FlushTerminal
  <2>3. enc' \in Encoder /\ lost' \in BOOLEAN /\ queued' \in 0 .. Cap /\ sent' \in Seq(Line)
    BY <2>1, <2>2, SendType
  <2>4. terminal' \in Seq(Event)
    <3>1. terminal' = Tail(terminal) \/ terminal' = <<>> BY <1>8 DEF FlushTerminal
    <3>2. <<>> \in Seq(Event) OBVIOUS
    <3> QED BY <2>1, <3>1, <3>2, Zenon
  <2> QED BY <1>8, <2>3, <2>4 DEF FlushTerminal, TypeOK
<1>9. CASE SendMarker
  <2>1. DoneLines(conf.client) \in Seq(Line)
    BY BareType, NoLines DEF DoneLines, LineNames
  <2>2. sent' \in Seq(Line)
    <3>1. sent \in Seq(Line) BY DEF TypeOK
    <3>2. sent \o DoneLines(conf.client) \in Seq(Line) BY <2>1, <3>1
    <3>3. sent' = sent \/ sent' = sent \o DoneLines(conf.client) BY <1>9 DEF SendMarker
    <3> QED BY <3>1, <3>2, <3>3, Zenon
  <2>3. queued' \in 0 .. Cap BY <1>9, RelayAssumption DEF SendMarker, CanSend, TypeOK
  <2> QED BY <1>9, <2>2, <2>3 DEF SendMarker, TypeOK, Phases
<1>10. CASE RecordOutcome
  BY <1>10 DEF RecordOutcome, Outcome, TypeOK, Phases
<1>11. CASE Receive
  BY <1>11, RelayAssumption DEF Receive, TypeOK
<1>12. CASE Disconnect
  BY <1>12, RelayAssumption DEF Disconnect, TypeOK
<1>13. CASE Finished \/ UNCHANGED vars
  BY <1>13 DEF Finished, vars, TypeOK
<1>14. CASE ChunkEnd \/ SkipFlush \/ FramerEmpty \/ HeldFlushed \/ TerminalFlushed
  BY <1>2, <1>14 DEF ChunkEnd, SkipFlush, FramerEmpty, HeldFlushed, TerminalFlushed, Phases
<1>15. CASE ClientClosed \/ StreamEof \/ StreamError \/ IdleTimeout
  BY <1>3, <1>15 DEF ClientClosed, StreamEof, StreamError, IdleTimeout
<1> QED
  BY <1>1, <1>4, <1>5, <1>6, <1>7, <1>8, <1>9, <1>10, <1>11, <1>12, <1>13, <1>14, <1>15
  DEF Next, Upstream, Relay

\* Every reachable state of the relay is well typed, in particular the
\* client channel never exceeds its capacity.
THEOREM TypeCorrect == Spec => []TypeOK
BY InitType, NextType, PTL DEF Spec
-------------------------------------------------------------------------------
(* The inductive invariant. *)

\* A step that writes nothing, and leaves decoder, queue and buffer alone.
LEMMA StillPending ==
    ASSUME StopPending, UNCHANGED <<sent, terminal, events, dec>>
    PROVE  StopPending'
BY DEF StopPending, Wrote, Has

\* A payload is fed when the event queue is empty.
LEMMA FeedPending ==
    ASSUME TypeOK, StopPending, NEW p \in Wire[conf.upstream],
           dec' = Feed(conf.upstream, dec, p, count + 1).dec,
           events' = Feed(conf.upstream, dec, p, count + 1).ev,
           UNCHANGED <<sent, terminal>>
    PROVE  StopPending'
<1> DEFINE r == Feed(conf.upstream, dec, p, count + 1)
<1>1. StopsOnce(dec, r) BY FedType
<1> HIDE DEF r
<1>2. dec' = r.dec /\ events' = r.ev BY DEF r
<1>3. \A n \in 1 .. Len(events') : events'[n].k = "stop" =>
          /\ ~dec.stopped /\ dec'.stopped
          /\ \A m \in 1 .. Len(events') : events'[m].k = "stop" => m = n
  BY <1>1, <1>2 DEF StopsOnce, IsStop
<1>4. dec.stopped => dec'.stopped BY <1>1, <1>2 DEF StopsOnce
<1>5. ~dec.stopped => terminal = <<>> BY DEF StopPending
<1> QED BY <1>3, <1>4, <1>5 DEF StopPending, Wrote, Has

\* Dropping events from the queue, all of them or the first.
LEMMA DropPending ==
    ASSUME TypeOK, StopPending, events # <<>>,
           events' = Tail(events) \/ events' = <<>>,
           dec' = dec, terminal' = terminal,
           Wrote("message_stop")' => Wrote("message_stop")
    PROVE  StopPending'
<1>1. CASE events' = <<>>
  <2>1. \A n \in 1 .. Len(events') : FALSE BY <1>1
  <2> QED BY <2>1 DEF StopPending
<1>2. CASE events' = Tail(events)
  <2>1. \A n \in 1 .. Len(events') :
          n + 1 \in 1 .. Len(events) /\ events'[n] = events[n + 1]
    BY <1>2 DEF TypeOK
  <2>2. \A n \in 1 .. Len(events') : events'[n].k = "stop" =>
          /\ dec.stopped /\ terminal = <<>>
          /\ \A m \in 1 .. Len(events') : events'[m].k = "stop" => m = n
    <3> SUFFICES ASSUME NEW n \in 1 .. Len(events'), events'[n].k = "stop"
                 PROVE  /\ dec.stopped /\ terminal = <<>>
                        /\ \A m \in 1 .. Len(events') : events'[m].k = "stop" => m = n
      OBVIOUS
    <3>1. n + 1 \in 1 .. Len(events) /\ events[n + 1].k = "stop" BY <2>1
    <3>2. /\ dec.stopped /\ terminal = <<>>
          /\ \A m \in 1 .. Len(events) : events[m].k = "stop" => m = n + 1
      BY <3>1 DEF StopPending
    <3>3. ASSUME NEW m \in 1 .. Len(events'), events'[m].k = "stop" PROVE m = n
      <4>1. m + 1 = n + 1 BY <2>1, <3>2, <3>3
      <4>2. m \in Int /\ n \in Int OBVIOUS
      <4> QED BY <4>1, <4>2
    <3> QED BY <3>2, <3>3
  <2> QED BY <2>2 DEF StopPending
<1> QED BY <1>1, <1>2

\* Feeding a payload: the queue receives at most the one stop.
LEMMA PayloadInv ==
    ASSUME RelayInv, NEW p \in Wire[conf.upstream], NextPayload(p) \/ FramerRest(p)
    PROVE  StopPending' /\ PhaseHistory' /\ NothingAfterTerminal' /\ FailedNotCompleted'
<1>1. UNCHANGED <<sent, terminal, upstreamFailed, sawError>>
  BY DEF NextPayload, FramerRest
<1>2. StopPending'
  <2>1. CASE UNCHANGED <<dec, events>> BY <1>1, <2>1, StillPending DEF RelayInv
  <2>2. CASE ~UNCHANGED <<dec, events>>
    <3>1. /\ dec' = Feed(conf.upstream, dec, p, count + 1).dec
          /\ events' = Feed(conf.upstream, dec, p, count + 1).ev
      BY <2>2 DEF NextPayload, FramerRest
    <3> QED BY <1>1, <3>1, FeedPending DEF RelayInv
  <2> QED BY <2>1, <2>2
<1>3. \A x : Has(sent', x) <=> Has(sent, x) BY <1>1
<1>4. \/ phase \in {"select", "chunk"} /\ phase' \in {"chunk", "drain"}
      \/ phase = "drain" /\ phase' = "framing"
  BY DEF NextPayload, FramerRest
<1>5. PhaseHistory' BY <1>1, <1>3, <1>4 DEF RelayInv, PhaseHistory, Wrote
<1>6. NothingAfterTerminal' /\ FailedNotCompleted'
  BY <1>1, <1>3 DEF RelayInv, NothingAfterTerminal, FailedNotCompleted, Wrote, TerminalLast
<1> QED BY <1>2, <1>5, <1>6

\* Steps that only move the task, the client or the outcome: what they write
\* is nothing, and where they go is QuietMove.
Silent == UNCHANGED <<sent, terminal, events, dec, sawError>>

QuietMove ==
    \/ phase' \in {"ended", phase} /\ upstreamFailed' = upstreamFailed
    \/ phase = "chunk" /\ phase' = "select" /\ upstreamFailed' = upstreamFailed
    \/ phase = "select" /\ phase' = "drain"
    \/ phase = "drain" /\ phase' = "framing" /\ upstreamFailed' = upstreamFailed
    \/ /\ phase = "restorer" /\ ~upstreamFailed
       /\ phase' = "terminal" /\ upstreamFailed' = upstreamFailed
    \/ /\ phase \in {"restorer", "terminal"}
       /\ phase' = "record" /\ upstreamFailed' = upstreamFailed
    \/ /\ phase = "terminal" /\ ~sawError
       /\ phase' = "marker" /\ upstreamFailed' = upstreamFailed

\* Steps that write nothing and only move on.
LEMMA QuietInv ==
    ASSUME RelayInv, Silent, QuietMove
    PROVE  StopPending' /\ PhaseHistory' /\ NothingAfterTerminal' /\ FailedNotCompleted'
<1>0. UNCHANGED <<sent, terminal, events, dec, sawError>> BY DEF Silent
<1>1. StopPending' BY <1>0, StillPending DEF RelayInv
<1>2. \A x : Has(sent', x) <=> Has(sent, x) BY <1>0
<1>3. PhaseHistory' BY <1>0, <1>2 DEF RelayInv, PhaseHistory, Wrote, QuietMove
<1>4. NothingAfterTerminal' BY <1>0 DEF RelayInv, NothingAfterTerminal, TerminalLast
<1>5. FailedNotCompleted'
  BY <1>0, <1>2 DEF RelayInv, PhaseHistory, FailedNotCompleted, Wrote, QuietMove
<1> QED BY <1>1, <1>3, <1>4, <1>5

\* An event that is no stop is sent (or refused) before the terminal phase.
LEMMA ContentInv ==
    ASSUME RelayInv, NEW e \in Event, e.k # "stop", Deliver(e) \/ Refuse(e),
           phase \in {"chunk", "framing", "restorer"},
           phase' \in {"chunk", "drain", "framing", "restorer"},
           phase' = "chunk" => phase = "chunk",
           e.k = "error" => sawError', sawError => sawError',
           upstreamFailed' = upstreamFailed, terminal' = terminal, dec' = dec,
           events' = events \/ (events # <<>> /\ events' \in {Tail(events), <<>>})
    PROVE  StopPending' /\ PhaseHistory' /\ NothingAfterTerminal' /\ FailedNotCompleted'
<1>0. TypeOK /\ ~Wrote("message_stop") /\ ~Wrote("[DONE]") /\ NothingAfterTerminal
  BY DEF RelayInv, PhaseHistory
<1>1. "message_stop" \notin NamesFor(e) /\ "[DONE]" \notin NamesFor(e)
  BY EventFields DEF NamesFor, BlockNames, EventKinds, ContentKinds
<1>2. "error" \in NamesFor(e) => e.k = "error"
  BY EventFields DEF NamesFor, BlockNames, EventKinds, ContentKinds
<1>3. ~Has(sent', "message_stop") /\ ~Has(sent', "[DONE]")
  BY <1>0, <1>1, SendNames DEF Wrote
<1>4. Has(sent', "error") => Has(sent, "error") \/ e.k = "error"
  BY <1>0, <1>2, SendNames
<1>5. StopPending'
  <2>1. CASE events' = events
    BY <1>3, <2>1 DEF RelayInv, StopPending, Wrote
  <2>2. CASE events # <<>> /\ events' \in {Tail(events), <<>>}
    BY <1>0, <1>3, <2>2, DropPending DEF RelayInv, Wrote
  <2> QED BY <2>1, <2>2
<1>6. PhaseHistory'
  BY <1>3, <1>4 DEF RelayInv, PhaseHistory, Wrote
<1>7. NothingAfterTerminal' BY <1>0, SendOrder DEF NothingAfterTerminal
<1>8. FailedNotCompleted' BY <1>3 DEF FailedNotCompleted, Wrote
<1> QED BY <1>5, <1>6, <1>7, <1>8

\* Relaying an event: swallowed, buffered as the stop, or sent.
LEMMA RelayEventInv ==
    ASSUME RelayInv, RelayEvent
    PROVE  StopPending' /\ PhaseHistory' /\ NothingAfterTerminal' /\ FailedNotCompleted'
<1>0. TypeOK /\ phase \in {"chunk", "framing"} /\ events # <<>>
  BY DEF RelayInv, RelayEvent
<1>1. Head(events) \in Event /\ Head(events) = events[1] /\ 1 \in 1 .. Len(events)
  BY <1>0 DEF TypeOK
<1>2. PICK r \in Restored(Head(events)) : Swallow(r) \/ BufferStop(r) \/ Forward(r)
  BY DEF RelayEvent
<1>3. \/ r.ev = <<>>
      \/ /\ r.ev \in Seq(Event) /\ Len(r.ev) = 1
         /\ r.ev[1] \in Event /\ r.ev[1].k = Head(events).k
  BY <1>0, <1>1, RestoreFacts
<1>4. dec' = dec /\ upstreamFailed' = upstreamFailed BY DEF RelayEvent
<1>5. CASE Swallow(r)
  <2>1. /\ events' = Tail(events) /\ phase' = phase /\ sent' = sent
        /\ terminal' = terminal /\ sawError' = sawError
    BY <1>5 DEF Swallow
  <2>2. \A x : Has(sent', x) <=> Has(sent, x) BY <2>1
  <2>3. StopPending' BY <1>0, <1>4, <2>1, <2>2, DropPending DEF RelayInv, Wrote
  <2>4. PhaseHistory' /\ FailedNotCompleted'
    BY <1>4, <2>1, <2>2 DEF RelayInv, PhaseHistory, FailedNotCompleted, Wrote
  <2>5. NothingAfterTerminal' BY <2>1 DEF RelayInv, NothingAfterTerminal, TerminalLast
  <2> QED BY <2>3, <2>4, <2>5
<1>6. CASE BufferStop(r)
  <2>1. /\ events' = Tail(events) /\ phase' = phase /\ sent' = sent
        /\ terminal' = terminal \o r.ev /\ sawError' = sawError /\ r.ev # <<>>
        /\ r.ev[1].k = "stop"
    BY <1>6 DEF BufferStop
  <2>2. \A x : Has(sent', x) <=> Has(sent, x) BY <2>1
  <2>3. events[1].k = "stop" BY <1>1, <1>3, <2>1
  <2>4. dec.stopped /\ terminal = <<>> /\ \A m \in 1 .. Len(events) : events[m].k = "stop" => m = 1
    BY <1>1, <2>3 DEF RelayInv, StopPending
  <2>5. terminal' = r.ev /\ Len(terminal') = 1 /\ terminal'[1].k = "stop"
    <3>1. <<>> \o r.ev = r.ev BY <1>3, <2>1
    <3> QED BY <1>3, <2>1, <2>4, <3>1
  <2>6. \A n \in 1 .. Len(events') : events'[n].k # "stop"
    <3>1. \A n \in 1 .. Len(events') :
            n + 1 \in 1 .. Len(events) /\ events'[n] = events[n + 1] /\ n + 1 # 1
      BY <1>0, <2>1 DEF TypeOK
    <3> QED BY <2>4, <3>1
  <2>7. ~Wrote("message_stop") BY <1>0 DEF RelayInv, PhaseHistory
  <2>8. \A n \in 1 .. Len(terminal') : n = 1 BY <2>5
  <2>9. StopPending' BY <1>4, <2>2, <2>4, <2>5, <2>6, <2>7, <2>8 DEF StopPending, Wrote
  <2>10. PhaseHistory' /\ FailedNotCompleted'
    BY <1>4, <2>1, <2>2 DEF RelayInv, PhaseHistory, FailedNotCompleted, Wrote
  <2>11. NothingAfterTerminal' BY <2>1 DEF RelayInv, NothingAfterTerminal, TerminalLast
  <2> QED BY <2>9, <2>10, <2>11
<1>7. CASE Forward(r)
  <2> DEFINE e == r.ev[1]
  <2>1. e \in Event /\ e.k # "stop" BY <1>3, <1>7 DEF Forward
  <2>2. Deliver(e) \/ Refuse(e) BY <1>7 DEF Forward
  <2>3. /\ phase' \in {"chunk", "drain", "framing", "restorer"}
        /\ phase' = "chunk" => phase = "chunk"
    BY <1>0, <1>7 DEF Forward, AfterRefusal
  <2>4. events' \in {Tail(events), <<>>} /\ terminal' = terminal BY <1>7 DEF Forward
  <2>5. sawError => sawError' BY <1>7 DEF Forward
  <2>6. e.k = "error" => sawError'
    <3> SUFFICES ASSUME e.k = "error" PROVE sawError' OBVIOUS
    <3>1. Encode(conf.client, enc, e).out # <<>>
      <4>1. enc \in Encoder BY <1>0 DEF TypeOK
      <4>2. CloseBlock(enc).out \in Seq(Line) BY <4>1, CloseFacts
      <4>3. Bare("error") \in Line BY BareType DEF LineNames
      <4>4. CASE conf.client = "anthropic"
        <5>1. Encode(conf.client, enc, e).out = CloseBlock(enc).out \o <<Bare("error")>>
          BY <4>4 DEF Encode, EncodeAnthropic, Encoded
        <5>2. Len(CloseBlock(enc).out \o <<Bare("error")>>) > 0 BY <4>2, <4>3
        <5> QED BY <5>1, <5>2
      <4>5. CASE conf.client # "anthropic"
        <5>1. Encode(conf.client, enc, e).out = <<Bare("error")>>
          BY <4>5 DEF Encode, EncodeOpenAI, Encoded, ContentKinds
        <5> QED BY <5>1
      <4> QED BY <4>4, <4>5
    <3> QED BY <1>7, <3>1 DEF Forward
  <2> HIDE DEF e
  <2> QED BY <1>0, <1>4, <2>1, <2>2, <2>3, <2>4, <2>5, <2>6, ContentInv
<1> QED BY <1>2, <1>5, <1>6, <1>7

\* decoder.finish() adds the stop only if none is pending or written.
LEMMA FinishInv ==
    ASSUME RelayInv, FinishStream
    PROVE  StopPending' /\ PhaseHistory' /\ NothingAfterTerminal' /\ FailedNotCompleted'
<1> DEFINE f == IF upstreamFailed THEN Fed(dec, <<>>) ELSE FinishDecoder(dec)
<1>0. TypeOK BY DEF RelayInv
<1>1. /\ StopsOnce(dec, f)
      /\ f.ev = <<>> \/ f.ev = <<StopEvent(dec)>>
  <2>1. dec \in Decoder BY <1>0 DEF TypeOK
  <2>2. CASE upstreamFailed BY <2>1, <2>2, NoEvents DEF Fed
  <2>3. CASE ~upstreamFailed BY <2>1, <2>3, FinishStops
  <2> QED BY <2>2, <2>3
<1>2. dec' = f.dec /\ terminal' = terminal \o f.ev BY DEF FinishStream
<1>3. /\ UNCHANGED <<sent, events, upstreamFailed, sawError>> /\ events = <<>>
      /\ phase = "framing" /\ phase' = "restorer"
  BY DEF FinishStream
<1> HIDE DEF f
<1>4. \A x : Has(sent', x) <=> Has(sent, x) BY <1>3
<1>5. ~Wrote("message_stop") BY <1>3 DEF RelayInv, PhaseHistory
<1>6. \A n \in 1 .. Len(events') : FALSE BY <1>3
<1>7. dec.stopped => dec'.stopped BY <1>1, <1>2 DEF StopsOnce
<1>8. terminal \in Seq(Event) /\ (terminal # <<>> => dec.stopped)
  BY <1>0 DEF RelayInv, StopPending, TypeOK
<1>9. CASE f.ev = <<>>
  <2>1. terminal' = terminal BY <1>2, <1>8, <1>9
  <2>2. StopPending' BY <1>4, <1>6, <1>7, <2>1 DEF RelayInv, StopPending, Wrote
  <2> QED BY <1>3, <1>4, <2>2 DEF RelayInv, PhaseHistory, NothingAfterTerminal,
             FailedNotCompleted, TerminalLast, Wrote
<1>10. CASE f.ev = <<StopEvent(dec)>>
  <2>1. StopEvent(dec) \in Event /\ StopEvent(dec).k = "stop"
    BY <1>0, StopType DEF TypeOK
  <2>2. f.ev[1].k = "stop" /\ 1 \in 1 .. Len(f.ev) BY <1>10, <2>1
  <2>3. ~dec.stopped /\ dec'.stopped BY <1>1, <1>2, <2>2 DEF StopsOnce, IsStop
  <2>4. terminal' = <<StopEvent(dec)>>
    <3>1. <<>> \o <<StopEvent(dec)>> = <<StopEvent(dec)>> BY <2>1
    <3> QED BY <1>2, <1>8, <1>10, <2>3, <3>1
  <2>5. Len(terminal') = 1 /\ \A n \in 1 .. Len(terminal') : terminal'[n].k = "stop"
    BY <2>1, <2>4
  <2>6. StopPending' BY <1>4, <1>5, <1>6, <2>3, <2>5 DEF StopPending, Wrote
  <2> QED BY <1>3, <1>4, <2>6 DEF RelayInv, PhaseHistory, NothingAfterTerminal,
             FailedNotCompleted, TerminalLast, Wrote
<1> QED BY <1>1, <1>9, <1>10

\* Flushing held text happens before the terminal event.
LEMMA FlushHeldInv ==
    ASSUME RelayInv, FlushHeld
    PROVE  StopPending' /\ PhaseHistory' /\ NothingAfterTerminal' /\ FailedNotCompleted'
<1>1. PICK ch \in Busy : Deliver(HeldTail(ch)) \/ Refuse(HeldTail(ch)) BY DEF FlushHeld
<1>2. HeldTail(ch) \in Event /\ HeldTail(ch).k \in ContentKinds
  BY HeldTailType DEF RelayInv
<1>3. HeldTail(ch).k # "stop" /\ HeldTail(ch).k # "error" BY <1>2 DEF ContentKinds
<1>4. phase = "restorer" /\ UNCHANGED <<phase, dec, events, terminal, upstreamFailed, sawError>>
  BY DEF FlushHeld
<1> QED BY <1>1, <1>2, <1>3, <1>4, ContentInv

\* A sequence of at most one element has an empty tail.
LEMMA OneLeft ==
    ASSUME NEW S, NEW s \in Seq(S), s # <<>>, Len(s) <= 1
    PROVE  Tail(s) = <<>>
<1>1. Len(s) \in Nat \ {0} BY EmptySeq
<1>2. Tail(s) \in Seq(S) /\ Len(Tail(s)) = Len(s) - 1 BY HeadTailProperties
<1>3. Len(Tail(s)) = 0 BY <1>1, <1>2
<1> QED BY <1>2, <1>3, EmptySeq, SMT

\* The terminal event is the last line so far.
LEMMA FlushTerminalInv ==
    ASSUME RelayInv, FlushTerminal
    PROVE  StopPending' /\ PhaseHistory' /\ NothingAfterTerminal' /\ FailedNotCompleted'
<1> DEFINE e == Head(terminal)
<1>0. TypeOK /\ terminal # <<>> /\ phase = "terminal" BY DEF RelayInv, FlushTerminal
<1>1. e \in Event /\ e.k = "stop"
  <2>1. e = terminal[1] /\ 1 \in 1 .. Len(terminal) /\ e \in Event BY <1>0 DEF TypeOK
  <2> QED BY <2>1 DEF RelayInv, StopPending
<1>2. Deliver(e) \/ Refuse(e) BY DEF FlushTerminal
<1>3. UNCHANGED <<phase, dec, events, upstreamFailed, sawError>> BY DEF FlushTerminal
<1>4. terminal' = <<>>
  <2>0. terminal \in Seq(Event) /\ terminal # <<>> BY <1>0 DEF TypeOK
  <2>a. Len(terminal) <= 1 BY DEF RelayInv, StopPending
  <2>2. Tail(terminal) = <<>> BY <2>0, <2>a, OneLeft
  <2> QED BY <2>2 DEF FlushTerminal
<1>5. ~Wrote("message_stop") /\ ~Wrote("[DONE]") /\ ~upstreamFailed /\ NothingAfterTerminal
  BY <1>0 DEF RelayInv, StopPending, PhaseHistory
<1> HIDE DEF e
<1>6. NamesFor(e) = {"signature", "block_stop", "message_delta", "message_stop"}
  BY <1>1 DEF NamesFor, ContentKinds
<1>7. ~Has(sent', "[DONE]") /\ (Has(sent', "error") => Has(sent, "error"))
  BY <1>0, <1>1, <1>2, <1>5, <1>6, SendNames DEF Wrote
<1>8. \A n \in 1 .. Len(events) : events[n].k # "stop"
  BY <1>0 DEF RelayInv, StopPending
<1>9. \A n \in 1 .. Len(terminal') : FALSE BY <1>4
<1>10. StopPending' BY <1>3, <1>4, <1>8, <1>9 DEF StopPending
<1>11. PhaseHistory' /\ FailedNotCompleted'
  BY <1>0, <1>3, <1>5, <1>7 DEF RelayInv, PhaseHistory, FailedNotCompleted, Wrote
<1>12. NothingAfterTerminal' BY <1>0, <1>1, <1>2, <1>5, SendOrder DEF NothingAfterTerminal
<1> QED BY <1>10, <1>11, <1>12

\* The marker ends the stream.
LEMMA MarkerInv ==
    ASSUME RelayInv, SendMarker
    PROVE  StopPending' /\ PhaseHistory' /\ NothingAfterTerminal' /\ FailedNotCompleted'
<1> DEFINE b == DoneLines(conf.client)
<1>0. TypeOK /\ phase = "marker" /\ phase' = "record" BY DEF RelayInv, SendMarker
<1>1. UNCHANGED <<dec, events, terminal, upstreamFailed, sawError>> BY DEF SendMarker
<1>2. ~sawError /\ ~upstreamFailed /\ ~Wrote("[DONE]") /\ NothingAfterTerminal
  BY <1>0 DEF RelayInv, PhaseHistory
<1>3. /\ b \in Seq(Line) /\ Len(b) <= 1
      /\ \A n \in 1 .. Len(b) : b[n].l = "[DONE]"
  <2>1. Bare("[DONE]") \in Line /\ Bare("[DONE]").l = "[DONE]" BY BareType DEF LineNames
  <2>2. b = <<>> \/ b = <<Bare("[DONE]")>> BY DEF DoneLines
  <2> HIDE DEF b
  <2>3. CASE b = <<>> BY <2>3
  <2>4. CASE b = <<Bare("[DONE]")>> BY <2>1, <2>4
  <2> QED BY <2>2, <2>3, <2>4
<1>4. sent \in Seq(Line) BY <1>0 DEF TypeOK
<1>5. sent' = sent \/ sent' = sent \o b BY DEF SendMarker
<1> HIDE DEF b
<1>6. \A x : Has(b, x) => x = "[DONE]" BY <1>3 DEF Has
<1>7. ASSUME NEW x, x # "[DONE]" PROVE Has(sent', x) => Has(sent, x)
  <2>1. Has(sent \o b, x) <=> Has(sent, x) \/ Has(b, x) BY <1>3, <1>4, HasConcat
  <2>2. ~Has(b, x) BY <1>6, <1>7
  <2>3. CASE sent' = sent BY <2>3
  <2>4. CASE sent' = sent \o b BY <2>1, <2>2, <2>4
  <2> QED BY <1>5, <2>3, <2>4
<1>8. Has(sent', "message_stop") => Has(sent, "message_stop") BY <1>7
<1>9. Has(sent', "error") => Has(sent, "error") BY <1>7
<1>10. StopPending' BY <1>1, <1>8 DEF RelayInv, StopPending, Wrote
<1>11. PhaseHistory' /\ FailedNotCompleted'
  BY <1>0, <1>1, <1>2, <1>9 DEF RelayInv, PhaseHistory, FailedNotCompleted, Wrote
<1>12. NothingAfterTerminal'
  <2>1. TerminalLast(sent \o b) BY <1>2, <1>3, <1>4, MarkerConcat DEF Wrote, NothingAfterTerminal
  <2> QED BY <1>2, <1>5, <2>1 DEF NothingAfterTerminal
<1> QED BY <1>10, <1>11, <1>12

\* The invariant holds initially.
LEMMA InitInv == Init => RelayInv
<1> SUFFICES ASSUME Init PROVE RelayInv OBVIOUS
<1>1. \A x : ~Has(sent, x) BY DEF Init, Has
<1>2. \A n \in 1 .. Len(events) : FALSE BY DEF Init
<1>3. \A n \in 1 .. Len(terminal) : FALSE BY DEF Init
<1>4. Len(terminal) <= 1 BY DEF Init
<1>5. StopPending BY <1>1, <1>2, <1>3, <1>4 DEF Init, StopPending, Wrote
<1>6. PhaseHistory BY <1>1 DEF Init, PhaseHistory, Wrote
<1>7. NothingAfterTerminal BY DEF Init, NothingAfterTerminal, TerminalLast
<1>8. FailedNotCompleted BY DEF Init, FailedNotCompleted
<1> QED BY <1>5, <1>6, <1>7, <1>8, InitType DEF RelayInv

\* Every step keeps the invariant: one case per action.
LEMMA NextInv == RelayInv /\ [Next]_vars => RelayInv'
<1> SUFFICES ASSUME RelayInv, [Next]_vars
             PROVE  StopPending' /\ PhaseHistory' /\ NothingAfterTerminal' /\ FailedNotCompleted'
  BY NextType DEF RelayInv
<1>1. CASE \E p \in Wire[conf.upstream] : NextPayload(p) \/ FramerRest(p)
  BY <1>1, PayloadInv
<1>2. CASE RelayEvent BY <1>2, RelayEventInv
<1>3. CASE FinishStream BY <1>3, FinishInv
<1>4. CASE FlushHeld BY <1>4, FlushHeldInv
<1>5. CASE FlushTerminal BY <1>5, FlushTerminalInv
<1>6. CASE SendMarker BY <1>6, MarkerInv
<1>7. CASE ChunkEnd \/ SkipFlush \/ FramerEmpty
  <2>1. Silent BY <1>7 DEF ChunkEnd, SkipFlush, FramerEmpty, Goto, Silent
  <2>2. QuietMove BY <1>7 DEF ChunkEnd, SkipFlush, FramerEmpty, Goto, QuietMove
  <2> QED BY <2>1, <2>2, QuietInv
<1>8. CASE HeldFlushed
  <2>1. Silent BY <1>8 DEF HeldFlushed, Goto, Silent
  <2>2. QuietMove BY <1>8 DEF HeldFlushed, Goto, QuietMove
  <2> QED BY <2>1, <2>2, QuietInv
<1>9. CASE TerminalFlushed
  <2>1. Silent BY <1>9 DEF TerminalFlushed, Goto, Silent
  <2>2. QuietMove BY <1>9 DEF TerminalFlushed, Goto, QuietMove
  <2> QED BY <2>1, <2>2, QuietInv
<1>10. CASE ClientClosed \/ StreamEof \/ StreamError \/ IdleTimeout
  <2>1. Silent
    BY <1>10 DEF ClientClosed, StreamEof, StreamError, IdleTimeout, LeaveLoop, Silent
  <2>2. QuietMove
    BY <1>10 DEF ClientClosed, StreamEof, StreamError, IdleTimeout, LeaveLoop, QuietMove
  <2> QED BY <2>1, <2>2, QuietInv
<1>11. CASE RecordOutcome
  <2>1. Silent BY <1>11 DEF RecordOutcome, Silent
  <2>2. QuietMove BY <1>11 DEF RecordOutcome, QuietMove
  <2> QED BY <2>1, <2>2, QuietInv
<1>12. CASE Receive \/ Disconnect \/ Finished \/ UNCHANGED vars
  <2>1. Silent BY <1>12 DEF Receive, Disconnect, Finished, vars, Silent
  <2>2. QuietMove BY <1>12 DEF Receive, Disconnect, Finished, vars, QuietMove
  <2> QED BY <2>1, <2>2, QuietInv
<1> QED
  BY <1>1, <1>2, <1>3, <1>4, <1>5, <1>6, <1>7, <1>8, <1>9, <1>10, <1>11, <1>12
  DEF Next, Upstream, Relay

\* The relay's inductive invariant: one pending stop, and each phase's history.
THEOREM RelayInvariant == Spec => []RelayInv
BY InitInv, NextInv, PTL DEF Spec

\* Whatever the upstream sends and whenever the client leaves, no line follows
\* the terminal event except the done marker, and none follows the marker.
THEOREM TerminalIsLast == Spec => []NothingAfterTerminal
<1>1. RelayInv => NothingAfterTerminal BY DEF RelayInv
<1> QED BY <1>1, RelayInvariant, PTL

\* A failed or stalled upstream never yields a completed stream.
THEOREM FailureNeverCompletes == Spec => []FailedNotCompleted
<1>1. RelayInv => FailedNotCompleted BY DEF RelayInv
<1> QED BY <1>1, RelayInvariant, PTL

\* The done marker and an error line are never on the same stream.
THEOREM MarkerExcludesError == Spec => []MarkerMeansNoError
<1>1. RelayInv => MarkerMeansNoError BY DEF RelayInv, PhaseHistory, MarkerMeansNoError
<1> QED BY <1>1, RelayInvariant, PTL

-------------------------------------------------------------------------------
(* Completion: what a failed decoder, an emitted stop and an outcome leave *)
(* behind.                                                                 *)

HasEvent(kind) == \E n \in 1 .. Len(events) : events[n].k = kind

\* The payload loop is over and the decoder has been finished.
Flushing == phase \in {"restorer", "terminal", "marker", "record"} \/ record # "none"

\* Unless a send failed, an error of the decoder is queued or was delivered,
\* its stop is queued, buffered or written, and a finished decoder that had
\* started has one or the other.
NothingForgotten ==
    ~lost =>
      /\ dec.failed => sawError \/ HasEvent("error")
      /\ dec.stopped => Wrote("message_stop") \/ terminal # <<>> \/ HasEvent("stop")
      /\ Flushing /\ ~upstreamFailed =>
           /\ dec.started => dec.failed \/ dec.stopped
           /\ phase \in {"marker", "record"} \/ record # "none" => terminal = <<>>

\* Each phase of the end has done its part.
EndHistory ==
    /\ phase \notin {"chunk", "framing"} => events = <<>>
    /\ record # "none" => phase = "ended"
    /\ record = "ok" => ~upstreamFailed /\ ~sawError
    /\ ~lost /\ (phase = "record" \/ record # "none") /\ conf.client = "openai"
         /\ ~upstreamFailed /\ ~sawError => sent # <<>> /\ sent[Len(sent)].l = "[DONE]"

\* An OpenAI decoder produces a stop only when it is finished without error.
OpenAIHistory ==
    conf.upstream = "openai" =>
      /\ ~HasEvent("stop")
      /\ HasEvent("error") \/ Wrote("error") => dec.failed
      /\ terminal # <<>> \/ Wrote("message_stop") =>
           ~dec.failed /\ phase \in {"restorer", "terminal", "marker", "record", "ended"}

CompletionInv == RelayInv /\ NothingForgotten /\ EndHistory /\ OpenAIHistory

\* Only content is swallowed by the restorer.
LEMMA PassedOn ==
    ASSUME TypeOK, NEW e \in Event, NEW r \in Restored(e), e.k \notin ContentKinds
    PROVE  r.ev = <<e>>
BY DEF Restored, RestoreEvent

\* The encoder's answer to a stop has the terminal event.
LEMMA StopWritten ==
    ASSUME NEW client, NEW s \in Encoder, NEW e \in Event, e.k = "stop"
    PROVE  Has(Encode(client, s, e).out, "message_stop")
<1> DEFINE o == Encode(client, s, e)
<1>1. CloseBlock(s).out \in Seq(Line) BY CloseFacts
<1>2. e.hd \in BOOLEAN BY EventFields
<1>3. CASE client = "anthropic"
  <2> DEFINE c == CloseBlock(s).out
             x == Ln("message_delta", 0, "none", 0, e.hd, <<>>)
             y == Bare("message_stop")
  <2>1. o.out = c \o <<x, y>>
    BY <1>3 DEF Encode, EncodeAnthropic, Encoded, ContentKinds
  <2>2. y.l = "message_stop" BY BareType DEF LineNames
  <2> HIDE DEF c, x, y, o
  <2>3. Len(c) + 2 \in 1 .. Len(c \o <<x, y>>) /\ (c \o <<x, y>>)[Len(c) + 2] = y
    BY <1>1 DEF c
  <2> QED BY <2>1, <2>2, <2>3 DEF Has, o
<1>4. CASE client # "anthropic"
  <2> DEFINE y == Ln("message_stop", 0, "none", 0, e.hd, <<>>)
  <2>1. o.out = <<y>>
    BY <1>4 DEF Encode, EncodeOpenAI, Encoded, ContentKinds
  <2>2. y.l = "message_stop" BY DEF Ln
  <2> HIDE DEF y, o
  <2>3. 1 \in 1 .. Len(<<y>>) /\ <<y>>[1] = y OBVIOUS
  <2> QED BY <2>1, <2>2, <2>3 DEF Has, o
<1> QED BY <1>3, <1>4

\* What was written stays written.
LEMMA SendKeeps ==
    ASSUME TypeOK, NEW e \in Event, Deliver(e) \/ Refuse(e), NEW x, Has(sent, x)
    PROVE  Has(sent', x)
<1> DEFINE out == Encode(conf.client, enc, e).out
<1>1. out \in Seq(Line) /\ (sent' = sent \/ sent' = sent \o out) BY SendFacts
<1> HIDE DEF out
<1>2. sent \in Seq(Line) BY DEF TypeOK
<1>3. Has(sent \o out, x) BY <1>1, <1>2, HasConcat
<1>4. CASE sent' = sent BY <1>4
<1>5. CASE sent' = sent \o out BY <1>3, <1>5
<1> QED BY <1>1, <1>4, <1>5

\* A stop that is delivered is written.
LEMMA StopDelivered ==
    ASSUME TypeOK, NEW e \in Event, e.k = "stop", Deliver(e)
    PROVE  Has(sent', "message_stop")
<1> DEFINE out == Encode(conf.client, enc, e).out
<1>1. out \in Seq(Line) BY SendFacts
<1>2. Has(out, "message_stop") BY StopWritten DEF TypeOK
<1>3. Accept(out) BY DEF Deliver
<1> HIDE DEF out
<1>4. out # <<>> BY <1>2 DEF Has
<1>5. sent' = sent \o out BY <1>3, <1>4 DEF Accept
<1>6. sent \in Seq(Line) BY DEF TypeOK
<1> QED BY <1>1, <1>2, <1>5, <1>6, HasConcat

\* Dropping the first event leaves the events of other kinds.
LEMMA TailKinds ==
    ASSUME TypeOK, events # <<>>, events' = Tail(events), NEW kind
    PROVE  /\ HasEvent(kind)' => HasEvent(kind)
           /\ HasEvent(kind) => HasEvent(kind)' \/ Head(events).k = kind
<1>0. events \in Seq(Event) BY DEF TypeOK
<1>1. Len(events) \in Nat /\ Len(events) > 0 /\ Head(events) = events[1] BY <1>0
<1>2. Len(events') = Len(events) - 1 /\ \A n \in 1 .. Len(events) - 1 : events'[n] = events[n + 1]
  BY <1>0, <1>1
<1>3. ASSUME HasEvent(kind)' PROVE HasEvent(kind)
  <2>1. PICK n \in 1 .. Len(events) - 1 : events[n + 1].k = kind
    BY <1>2, <1>3 DEF HasEvent
  <2>2. n + 1 \in 1 .. Len(events) BY <1>1
  <2> QED BY <2>1, <2>2 DEF HasEvent
<1>4. ASSUME HasEvent(kind), Head(events).k # kind PROVE HasEvent(kind)'
  <2>1. PICK n \in 1 .. Len(events) : events[n].k = kind BY <1>4 DEF HasEvent
  <2>2. n # 1 BY <1>1, <1>4, <2>1
  <2>3. n - 1 \in 1 .. Len(events) - 1 /\ (n - 1) + 1 = n BY <1>1, <2>2
  <2>4. events'[n - 1].k = kind BY <1>2, <2>1, <2>3
  <2> QED BY <1>2, <2>3, <2>4 DEF HasEvent
<1> QED BY <1>3, <1>4

\* An empty queue has no events.
LEMMA NoneQueued ==
    ASSUME events = <<>>
    PROVE  \A kind : ~HasEvent(kind)
BY DEF HasEvent

\* Feeding a payload queues the events that announce what it changed.
LEMMA PayloadCompletion ==
    ASSUME CompletionInv, NEW p \in Wire[conf.upstream], NextPayload(p) \/ FramerRest(p)
    PROVE  NothingForgotten' /\ EndHistory' /\ OpenAIHistory'
<1>1. /\ UNCHANGED <<sent, terminal, upstreamFailed, sawError, lost, record, conf>>
      /\ phase \in {"select", "chunk", "drain"}
      /\ phase' \in {"chunk", "framing"} \/ (phase' = "drain" /\ events' = events /\ dec' = dec)
  BY DEF NextPayload, FramerRest
<1>2. events = <<>>
  BY <1>1 DEF NextPayload, FramerRest, CompletionInv, EndHistory
<1>3. record = "none" /\ ~Flushing'
  BY <1>1 DEF CompletionInv, EndHistory, Flushing
<1>4. \A x : Has(sent', x) <=> Has(sent, x) BY <1>1
<1>5. \A kind : ~HasEvent(kind) BY <1>2, NoneQueued
<1>6. EndHistory'
  BY <1>1, <1>2, <1>3 DEF EndHistory
<1>7. ~Wrote("message_stop") BY <1>1 DEF CompletionInv, RelayInv, PhaseHistory
<1>8. conf.upstream = "openai" => terminal = <<>>
  BY <1>1 DEF CompletionInv, OpenAIHistory
<1>9. CASE UNCHANGED <<dec, events>>
  <2>1. \A kind : ~HasEvent(kind)' BY <1>2, <1>9 DEF HasEvent
  <2>2. NothingForgotten'
    BY <1>1, <1>3, <1>4, <1>5, <1>9, <2>1 DEF CompletionInv, NothingForgotten, Wrote
  <2>3. OpenAIHistory'
    BY <1>1, <1>4, <1>5, <1>7, <1>8, <1>9, <2>1 DEF CompletionInv, OpenAIHistory, Wrote
  <2> QED BY <1>6, <2>2, <2>3
<1>10. CASE ~UNCHANGED <<dec, events>>
  <2> DEFINE r == Feed(conf.upstream, dec, p, count + 1)
  <2>1. dec' = r.dec /\ events' = r.ev
    BY <1>10 DEF NextPayload, FramerRest
  <2>2. TypeOK BY DEF CompletionInv, RelayInv
  <2>3. conf.upstream \in Upstreams BY <2>2 DEF TypeOK, Config
  <2>4. p \in Sendable(conf.upstream) /\ p \in Payload BY <2>3, RelayAssumption DEF Sendable
  <2>5. count + 1 \in Nat /\ dec \in Decoder BY <2>2, RelayAssumption DEF TypeOK
  <2>6. Announced(dec, r) BY <2>3, <2>4, <2>5, FeedAnnounced
  <2>7. conf.upstream = "openai" =>
          /\ r.dec.failed <=> dec.failed \/ HasKind(r.ev, "error")
          /\ ~HasKind(r.ev, "stop")
    BY <2>4, <2>5, OpenAIAnnounced DEF Feed
  <2> HIDE DEF r
  <2>8. \A kind : HasEvent(kind)' <=> HasKind(r.ev, kind)
    BY <2>1 DEF HasEvent, HasKind
  <2>9. NothingForgotten'
    BY <1>1, <1>3, <1>4, <1>5, <2>1, <2>6, <2>8
    DEF CompletionInv, NothingForgotten, Wrote, Announced
  <2>10. OpenAIHistory'
    BY <1>1, <1>4, <1>5, <1>7, <1>8, <2>1, <2>7, <2>8 DEF CompletionInv, OpenAIHistory, Wrote
  <2> QED BY <1>6, <2>9, <2>10
<1> QED BY <1>9, <1>10

\* An error event is never encoded to nothing.
LEMMA ErrorWritten ==
    ASSUME NEW client, NEW s \in Encoder, NEW e \in Event, e.k = "error"
    PROVE  Encode(client, s, e).out # <<>>
<1>1. CloseBlock(s).out \in Seq(Line) BY CloseFacts
<1>2. Bare("error") \in Line BY BareType DEF LineNames
<1>3. CASE client = "anthropic"
  <2>1. Encode(client, s, e).out = CloseBlock(s).out \o <<Bare("error")>>
    BY <1>3 DEF Encode, EncodeAnthropic, Encoded, ContentKinds
  <2>2. Len(CloseBlock(s).out \o <<Bare("error")>>) > 0 BY <1>1, <1>2
  <2> QED BY <2>1, <2>2
<1>4. CASE client # "anthropic"
  <2>1. Encode(client, s, e).out = <<Bare("error")>>
    BY <1>4 DEF Encode, EncodeOpenAI, Encoded, ContentKinds
  <2> QED BY <2>1
<1> QED BY <1>3, <1>4

\* Relaying an event: an error is delivered or its send fails, the stop is
\* buffered, and only content is swallowed.
LEMMA RelayEventCompletion ==
    ASSUME CompletionInv, RelayEvent
    PROVE  NothingForgotten' /\ EndHistory' /\ OpenAIHistory'
<1>0. /\ TypeOK /\ phase \in {"chunk", "framing"} /\ events # <<>>
      /\ UNCHANGED <<conf, dec, upstreamFailed, record>>
  BY DEF CompletionInv, RelayInv, RelayEvent
<1>1. Head(events) \in Event /\ Head(events) = events[1] /\ 1 \in 1 .. Len(events)
  BY <1>0 DEF TypeOK
<1>2. PICK r \in Restored(Head(events)) : Swallow(r) \/ BufferStop(r) \/ Forward(r)
  BY DEF RelayEvent
<1> DEFINE h == Head(events)
<1>3. \/ r.ev = <<>>
      \/ /\ r.ev \in Seq(Event) /\ Len(r.ev) = 1
         /\ r.ev[1] \in Event /\ r.ev[1].k = h.k
  BY <1>0, <1>1, RestoreFacts
<1>4. record = "none" BY <1>0 DEF CompletionInv, EndHistory
<1>5. ~Wrote("message_stop") BY <1>0 DEF CompletionInv, RelayInv, PhaseHistory
<1>6. conf.upstream = "openai" => terminal = <<>> /\ ~HasEvent("stop")
  BY <1>0 DEF CompletionInv, OpenAIHistory
<1>7. HasEvent(h.k) BY <1>1 DEF HasEvent
<1>8. CASE Swallow(r)
  <2>1. /\ events' = Tail(events) /\ r.ev = <<>>
        /\ UNCHANGED <<phase, sent, terminal, sawError, lost>>
    BY <1>8 DEF Swallow
  <2>2. h.k \in ContentKinds
    <3>1. <<h>> # <<>> OBVIOUS
    <3> QED BY <1>0, <1>1, <2>1, <3>1, PassedOn
  <2>3. h.k # "stop" /\ h.k # "error" BY <2>2 DEF ContentKinds
  <2>4. /\ HasEvent("stop")' <=> HasEvent("stop")
        /\ HasEvent("error")' <=> HasEvent("error")
    BY <1>0, <2>1, <2>3, TailKinds
  <2>5. \A x : Has(sent', x) <=> Has(sent, x) BY <2>1
  <2>6. NothingForgotten'
    BY <1>0, <1>4, <2>1, <2>4, <2>5 DEF CompletionInv, NothingForgotten, Wrote, Flushing
  <2>7. EndHistory' BY <1>0, <1>4, <2>1 DEF EndHistory
  <2>8. OpenAIHistory' BY <1>0, <2>1, <2>4, <2>5 DEF CompletionInv, OpenAIHistory, Wrote
  <2> QED BY <2>6, <2>7, <2>8
<1>9. CASE BufferStop(r)
  <2>1. /\ events' = Tail(events) /\ r.ev # <<>> /\ r.ev[1].k = "stop"
        /\ terminal' = terminal \o r.ev
        /\ UNCHANGED <<phase, sent, sawError, lost>>
    BY <1>9 DEF BufferStop
  <2>2. h.k = "stop" BY <1>3, <2>1
  <2>3. terminal' # <<>>
    <3>1. terminal \in Seq(Event) BY <1>0 DEF TypeOK
    <3>2. Len(terminal \o r.ev) > 0 BY <1>3, <2>1, <3>1
    <3> QED BY <2>1, <3>2
  <2>4. conf.upstream # "openai" BY <1>6, <1>7, <2>2
  <2>5. HasEvent("error") => HasEvent("error")' BY <1>0, <2>1, <2>2, TailKinds
  <2>6. NothingForgotten'
    BY <1>0, <1>4, <2>1, <2>3, <2>5 DEF CompletionInv, NothingForgotten, Flushing
  <2>7. EndHistory' BY <1>0, <1>4, <2>1 DEF EndHistory
  <2>8. OpenAIHistory' BY <1>0, <2>4 DEF OpenAIHistory
  <2> QED BY <2>6, <2>7, <2>8
<1>10. CASE Forward(r)
  <2> DEFINE e == r.ev[1]
  <2>1. e \in Event /\ e.k = h.k /\ e.k # "stop" BY <1>3, <1>10 DEF Forward
  <2>2. sawError => sawError' BY <1>10 DEF Forward
  <2>3. e.k = "error" => sawError'
    <3>1. e.k = "error" => Encode(conf.client, enc, e).out # <<>>
      BY <1>0, <2>1, ErrorWritten DEF TypeOK
    <3> QED BY <1>10, <3>1 DEF Forward
  <2>4. terminal' = terminal /\ (Deliver(e) \/ Refuse(e)) BY <1>10 DEF Forward
  <2>5. \/ lost' = lost /\ events' = Tail(events) /\ phase' = phase
        \/ lost' /\ events' = <<>> /\ phase' \in {"drain", "framing"}
    BY <1>10 DEF Forward, Deliver, Refuse, AfterRefusal
  <2> HIDE DEF e
  <2>6. "message_stop" \notin NamesFor(e) /\ ("error" \in NamesFor(e) => e.k = "error")
    BY <2>1, EventFields DEF NamesFor, BlockNames, EventKinds, ContentKinds
  <2>7. ~Has(sent', "message_stop") /\ (Has(sent', "error") => Has(sent, "error") \/ e.k = "error")
    BY <1>0, <1>5, <2>1, <2>4, <2>6, SendNames DEF Wrote
  <2>8. ~Flushing' BY <1>0, <1>4, <2>5 DEF Flushing
  <2>9. EndHistory' BY <1>0, <1>4, <2>5 DEF EndHistory
  <2>10. HasEvent("error")' => HasEvent("error")
    <3>1. CASE events' = Tail(events) BY <1>0, <3>1, TailKinds
    <3>2. CASE events' = <<>> BY <3>2 DEF HasEvent
    <3> QED BY <2>5, <3>1, <3>2
  <2>11. HasEvent("stop")' => HasEvent("stop")
    <3>1. CASE events' = Tail(events) BY <1>0, <3>1, TailKinds
    <3>2. CASE events' = <<>> BY <3>2 DEF HasEvent
    <3> QED BY <2>5, <3>1, <3>2
  <2>12. OpenAIHistory'
    <3> SUFFICES ASSUME conf.upstream = "openai" PROVE OpenAIHistory'
      BY <1>0 DEF OpenAIHistory
    <3>1. HasEvent("error")' \/ Has(sent', "error") => dec.failed
      BY <1>7, <2>1, <2>7, <2>10 DEF CompletionInv, OpenAIHistory, Wrote
    <3> QED BY <1>0, <1>6, <2>4, <2>7, <2>11, <3>1 DEF OpenAIHistory, Wrote
  <2>13. NothingForgotten'
    <3>1. CASE lost' BY <3>1 DEF NothingForgotten
    <3>2. CASE ~lost'
      <4>1. ~lost /\ events' = Tail(events) BY <2>5, <3>2
      <4>2. HasEvent("stop") => HasEvent("stop")' BY <1>0, <2>1, <4>1, TailKinds
      <4>3. HasEvent("error") => HasEvent("error")' \/ e.k = "error"
        BY <1>0, <2>1, <4>1, TailKinds
      <4> QED BY <1>0, <1>5, <2>2, <2>3, <2>4, <2>8, <4>1, <4>2, <4>3
          DEF CompletionInv, NothingForgotten
    <3> QED BY <3>1, <3>2
  <2> QED BY <2>9, <2>12, <2>13
<1> QED BY <1>2, <1>8, <1>9, <1>10

\* Finishing the decoder of a stream that started leaves a stop, unless it
\* failed.
LEMMA FinishCompletion ==
    ASSUME CompletionInv, FinishStream
    PROVE  NothingForgotten' /\ EndHistory' /\ OpenAIHistory'
<1>0. /\ TypeOK /\ phase = "framing" /\ phase' = "restorer" /\ events = <<>> /\ events' = <<>>
      /\ UNCHANGED <<conf, upstreamFailed, sawError, sent, lost, record>>
  BY DEF CompletionInv, RelayInv, FinishStream
<1>1. dec \in Decoder /\ terminal \in Seq(Event) BY <1>0 DEF TypeOK
<1>2. record = "none" BY <1>0 DEF CompletionInv, EndHistory
<1>3. \A kind : ~HasEvent(kind) /\ ~HasEvent(kind)' BY <1>0 DEF HasEvent
<1>4. \A x : Has(sent', x) <=> Has(sent, x) BY <1>0
<1>5. EndHistory' BY <1>0, <1>2 DEF EndHistory
<1>6. conf.upstream = "openai" => terminal = <<>> /\ ~Wrote("message_stop")
  BY <1>0 DEF CompletionInv, OpenAIHistory
<1>7. CASE upstreamFailed \/ ~dec.started \/ dec.failed \/ dec.stopped
  <2>1. dec' = dec /\ terminal' = terminal
    <3>1. dec' = dec /\ terminal' = terminal \o <<>>
      BY <1>7 DEF FinishStream, FinishDecoder, Fed
    <3> QED BY <1>1, <3>1
  <2>2. NothingForgotten'
    BY <1>0, <1>2, <1>3, <1>4, <1>7, <2>1 DEF CompletionInv, NothingForgotten, Wrote, Flushing
  <2>3. OpenAIHistory'
    BY <1>0, <1>3, <1>4, <1>6, <2>1 DEF CompletionInv, OpenAIHistory, Wrote
  <2> QED BY <1>5, <2>2, <2>3
<1>8. CASE ~(upstreamFailed \/ ~dec.started \/ dec.failed \/ dec.stopped)
  <2>1. dec' = [dec EXCEPT !.stopped = TRUE] /\ terminal' = terminal \o <<StopEvent(dec)>>
    BY <1>8 DEF FinishStream, FinishDecoder, Fed
  <2>2. ~dec'.failed /\ dec'.stopped BY <1>1, <1>8, <2>1 DEF Decoder
  <2>3. StopEvent(dec) \in Event BY <1>1, StopType
  <2>4. terminal' # <<>>
    <3>1. Len(terminal \o <<StopEvent(dec)>>) > 0 BY <1>1, <2>3
    <3> QED BY <2>1, <3>1
  <2>5. NothingForgotten'
    BY <1>0, <1>2, <2>2, <2>4 DEF NothingForgotten, Flushing
  <2>6. OpenAIHistory'
    BY <1>0, <1>3, <1>4, <1>8, <2>2 DEF CompletionInv, OpenAIHistory, Wrote
  <2> QED BY <1>5, <2>5, <2>6
<1> QED BY <1>7, <1>8

\* Flushing held text writes content only.
LEMMA FlushHeldCompletion ==
    ASSUME CompletionInv, FlushHeld
    PROVE  NothingForgotten' /\ EndHistory' /\ OpenAIHistory'
<1>0. /\ TypeOK /\ phase = "restorer"
      /\ UNCHANGED <<conf, phase, dec, events, terminal, upstreamFailed, sawError, record>>
  BY DEF CompletionInv, RelayInv, FlushHeld
<1>1. PICK ch \in Busy : Deliver(HeldTail(ch)) \/ Refuse(HeldTail(ch)) BY DEF FlushHeld
<1> DEFINE e == HeldTail(ch)
<1>2. e \in Event /\ e.k \in ContentKinds BY <1>0, HeldTailType
<1>3. lost' = lost \/ lost' BY <1>1 DEF Deliver, Refuse
<1> HIDE DEF e
<1>4. "message_stop" \notin NamesFor(e) /\ "error" \notin NamesFor(e)
  BY <1>2 DEF NamesFor, BlockNames, ContentKinds
<1>5. Has(sent', "message_stop") <=> Has(sent, "message_stop")
  BY <1>0, <1>1, <1>2, <1>4, SendNames, SendKeeps DEF e
<1>6. Has(sent', "error") => Has(sent, "error")
  BY <1>0, <1>1, <1>2, <1>4, SendNames DEF e
<1>7. record = "none" /\ events = <<>> BY <1>0 DEF CompletionInv, EndHistory
<1>8. \A kind : ~HasEvent(kind) /\ ~HasEvent(kind)' BY <1>0, <1>7 DEF HasEvent
<1>9. EndHistory' BY <1>0, <1>7 DEF EndHistory
<1>10. OpenAIHistory'
  BY <1>0, <1>5, <1>6, <1>8 DEF CompletionInv, OpenAIHistory, Wrote
<1>11. NothingForgotten'
  <2>1. CASE lost' BY <2>1 DEF NothingForgotten
  <2>2. CASE lost' = lost
    BY <1>0, <1>5, <1>7, <1>8, <2>2 DEF CompletionInv, NothingForgotten, Wrote, Flushing
  <2> QED BY <1>3, <2>1, <2>2
<1> QED BY <1>9, <1>10, <1>11

\* The buffered stop is written, or its send fails.
LEMMA FlushTerminalCompletion ==
    ASSUME CompletionInv, FlushTerminal
    PROVE  NothingForgotten' /\ EndHistory' /\ OpenAIHistory'
<1> DEFINE e == Head(terminal)
<1>0. /\ TypeOK /\ phase = "terminal" /\ terminal # <<>>
      /\ UNCHANGED <<conf, phase, dec, events, upstreamFailed, sawError, record>>
  BY DEF CompletionInv, RelayInv, FlushTerminal
<1>1. e \in Event /\ e.k = "stop"
  <2>1. e = terminal[1] /\ 1 \in 1 .. Len(terminal) /\ e \in Event BY <1>0 DEF TypeOK
  <2> QED BY <2>1 DEF CompletionInv, RelayInv, StopPending
<1>2. \/ Deliver(e) /\ terminal' = Tail(terminal)
      \/ Refuse(e) /\ terminal' = <<>>
  BY DEF FlushTerminal
<1> HIDE DEF e
<1>3. "error" \notin NamesFor(e) BY <1>1 DEF NamesFor, ContentKinds
<1>4. Has(sent', "error") => Has(sent, "error") BY <1>0, <1>1, <1>2, <1>3, SendNames
<1>5. record = "none" /\ events = <<>> BY <1>0 DEF CompletionInv, EndHistory
<1>6. \A kind : ~HasEvent(kind) /\ ~HasEvent(kind)' BY <1>0, <1>5 DEF HasEvent
<1>7. EndHistory' BY <1>0, <1>5 DEF EndHistory
<1>8. OpenAIHistory'
  BY <1>0, <1>4, <1>6 DEF CompletionInv, OpenAIHistory, Wrote
<1>9. NothingForgotten'
  <2>1. CASE Refuse(e) BY <2>1 DEF Refuse, NothingForgotten
  <2>2. CASE Deliver(e)
    <3>1. Has(sent', "message_stop") BY <1>0, <1>1, <2>2, StopDelivered
    <3>2. lost' = lost BY <2>2 DEF Deliver
    <3> QED BY <1>0, <1>5, <1>6, <3>1, <3>2 DEF CompletionInv, NothingForgotten, Wrote, Flushing
  <2> QED BY <1>2, <2>1, <2>2
<1> QED BY <1>7, <1>8, <1>9

\* The marker is the last line, or its send fails.
LEMMA MarkerCompletion ==
    ASSUME CompletionInv, SendMarker
    PROVE  NothingForgotten' /\ EndHistory' /\ OpenAIHistory'
<1> DEFINE b == DoneLines(conf.client)
<1>0. /\ TypeOK /\ phase = "marker" /\ phase' = "record"
      /\ UNCHANGED <<conf, dec, events, terminal, upstreamFailed, sawError, record>>
  BY DEF CompletionInv, RelayInv, SendMarker
<1>1. record = "none" /\ events = <<>> BY <1>0 DEF CompletionInv, EndHistory
<1>2. \A kind : ~HasEvent(kind) /\ ~HasEvent(kind)' BY <1>0, <1>1 DEF HasEvent
<1>3. sent \in Seq(Line) BY <1>0 DEF TypeOK
<1>4. Bare("[DONE]") \in Line /\ Bare("[DONE]").l = "[DONE]" BY BareType DEF LineNames
<1>5. /\ b \in Seq(Line) /\ \A n \in 1 .. Len(b) : b[n].l = "[DONE]"
      /\ conf.client = "openai" => b = <<Bare("[DONE]")>>
  <2>1. b = <<>> \/ b = <<Bare("[DONE]")>> BY DEF DoneLines
  <2>2. conf.client = "openai" => b = <<Bare("[DONE]")>> BY DEF DoneLines
  <2> HIDE DEF b
  <2>3. CASE b = <<>> BY <2>2, <2>3
  <2>4. CASE b = <<Bare("[DONE]")>> BY <1>4, <2>4
  <2> QED BY <2>1, <2>3, <2>4
<1>6. (sent' = sent \o b /\ lost' = lost) \/ (sent' = sent /\ lost')
  BY DEF SendMarker
<1> HIDE DEF b
<1>7. ASSUME NEW x, x # "[DONE]" PROVE Has(sent', x) <=> Has(sent, x)
  <2>1. Has(sent \o b, x) <=> Has(sent, x) \/ Has(b, x) BY <1>3, <1>5, HasConcat
  <2>2. ~Has(b, x) BY <1>5, <1>7 DEF Has
  <2>3. CASE sent' = sent BY <2>3
  <2>4. CASE sent' = sent \o b BY <2>1, <2>2, <2>4
  <2> QED BY <1>6, <2>3, <2>4
<1>8. Has(sent', "message_stop") <=> Has(sent, "message_stop") BY <1>7
<1>9. Has(sent', "error") <=> Has(sent, "error") BY <1>7
<1>10. OpenAIHistory'
  BY <1>0, <1>2, <1>8, <1>9 DEF CompletionInv, OpenAIHistory, Wrote
<1>11. NothingForgotten'
  <2>1. CASE lost' BY <2>1 DEF NothingForgotten
  <2>2. CASE lost' = lost
    BY <1>0, <1>1, <1>2, <1>8, <2>2 DEF CompletionInv, NothingForgotten, Wrote, Flushing
  <2> QED BY <1>6, <2>1, <2>2
<1>12. EndHistory'
  <2>1. ~lost' /\ conf.client = "openai" => sent' # <<>> /\ sent'[Len(sent')].l = "[DONE]"
    <3> SUFFICES ASSUME ~lost', conf.client = "openai"
                 PROVE  sent' # <<>> /\ sent'[Len(sent')].l = "[DONE]"
      OBVIOUS
    <3> DEFINE x == Bare("[DONE]")
    <3>1. sent' = sent \o <<x>> BY <1>5, <1>6
    <3>2. x \in Line /\ x.l = "[DONE]" BY <1>4
    <3> HIDE DEF x
    <3>3. Len(sent \o <<x>>) = Len(sent) + 1 /\ (sent \o <<x>>)[Len(sent) + 1] = x
          /\ Len(sent) \in Nat
      BY <1>3, <3>2
    <3>4. sent \o <<x>> # <<>> BY <3>3
    <3> QED BY <3>1, <3>2, <3>3, <3>4
  <2> QED BY <1>0, <1>1, <2>1 DEF EndHistory
<1> QED BY <1>10, <1>11, <1>12

\* Steps that write and decode nothing.
LEMMA SilentCompletion ==
    ASSUME CompletionInv, Silent, UNCHANGED <<conf, lost>>,
           \/ /\ UNCHANGED <<upstreamFailed, record>>
              /\ \/ phase' = phase
                 \/ phase = "chunk" /\ phase' = "select" /\ events = <<>>
                 \/ phase = "drain" /\ phase' \in {"framing", "ended"}
                 \/ phase = "restorer"
                      /\ phase' = IF upstreamFailed THEN "record" ELSE "terminal"
                 \/ phase = "terminal" /\ terminal = <<>>
                      /\ phase' = IF sawError THEN "record" ELSE "marker"
           \/ phase = "select" /\ phase' = "drain" /\ record' = record
           \/ /\ phase = "record" /\ phase' = "ended" /\ upstreamFailed' = upstreamFailed
              /\ record' \in {record, Outcome}
    PROVE  NothingForgotten' /\ EndHistory' /\ OpenAIHistory'
<1>0. UNCHANGED <<sent, terminal, events, dec, sawError, conf, lost>> BY DEF Silent
<1>1. \A x : Has(sent', x) <=> Has(sent, x) BY <1>0
<1>2. \A kind : HasEvent(kind)' <=> HasEvent(kind) BY <1>0 DEF HasEvent
<1>3. EndHistory'
  BY <1>0 DEF CompletionInv, EndHistory, Outcome
<1>4. OpenAIHistory'
  BY <1>0, <1>1, <1>2 DEF CompletionInv, OpenAIHistory, Wrote
<1>5. NothingForgotten'
  BY <1>0, <1>1, <1>2 DEF CompletionInv, EndHistory, NothingForgotten, Wrote, Flushing
<1> QED BY <1>3, <1>4, <1>5

\* The invariant holds initially.
LEMMA CompletionInit == Init => CompletionInv
<1> SUFFICES ASSUME Init PROVE CompletionInv OBVIOUS
<1>1. \A x : ~Has(sent, x) BY DEF Init, Has
<1>2. \A kind : ~HasEvent(kind) BY DEF Init, HasEvent
<1>3. ~dec.failed /\ ~dec.stopped /\ ~dec.started BY DEF Init, NewDecoder
<1>4. NothingForgotten BY <1>3 DEF Init, NothingForgotten, Flushing
<1>5. EndHistory BY DEF Init, EndHistory
<1>6. OpenAIHistory BY <1>1, <1>2, <1>3 DEF Init, OpenAIHistory, Wrote
<1> QED BY <1>4, <1>5, <1>6, InitInv DEF CompletionInv

\* Every step keeps it: one case per action.
LEMMA CompletionNext == CompletionInv /\ [Next]_vars => CompletionInv'
<1> SUFFICES ASSUME CompletionInv, [Next]_vars
             PROVE  NothingForgotten' /\ EndHistory' /\ OpenAIHistory'
  BY NextInv DEF CompletionInv
<1>1. CASE \E p \in Wire[conf.upstream] : NextPayload(p) \/ FramerRest(p)
  BY <1>1, PayloadCompletion
<1>2. CASE RelayEvent BY <1>2, RelayEventCompletion
<1>3. CASE FinishStream BY <1>3, FinishCompletion
<1>4. CASE FlushHeld BY <1>4, FlushHeldCompletion
<1>5. CASE FlushTerminal BY <1>5, FlushTerminalCompletion
<1>6. CASE SendMarker BY <1>6, MarkerCompletion
<1>7. CASE ChunkEnd \/ SkipFlush \/ FramerEmpty
  <2>1. Silent /\ UNCHANGED <<conf, lost, upstreamFailed, record>>
    BY <1>7 DEF ChunkEnd, SkipFlush, FramerEmpty, Goto, Silent
  <2>2. \/ phase = "chunk" /\ phase' = "select" /\ events = <<>>
        \/ phase = "drain" /\ phase' \in {"framing", "ended"}
    BY <1>7 DEF ChunkEnd, SkipFlush, FramerEmpty, Goto
  <2> QED BY <2>1, <2>2, SilentCompletion
<1>8. CASE HeldFlushed
  <2>1. Silent /\ UNCHANGED <<conf, lost, upstreamFailed, record>>
    BY <1>8 DEF HeldFlushed, Goto, Silent
  <2>2. phase = "restorer" /\ phase' = IF upstreamFailed THEN "record" ELSE "terminal"
    BY <1>8 DEF HeldFlushed, Goto
  <2> QED BY <2>1, <2>2, SilentCompletion
<1>9. CASE TerminalFlushed
  <2>1. Silent /\ UNCHANGED <<conf, lost, upstreamFailed, record>>
    BY <1>9 DEF TerminalFlushed, Goto, Silent
  <2>2. /\ phase = "terminal" /\ terminal = <<>>
        /\ phase' = IF sawError THEN "record" ELSE "marker"
    BY <1>9 DEF TerminalFlushed, Goto
  <2> QED BY <2>1, <2>2, SilentCompletion
<1>10. CASE ClientClosed \/ StreamEof \/ StreamError \/ IdleTimeout
  <2>1. Silent /\ UNCHANGED <<conf, lost, record>>
    BY <1>10 DEF ClientClosed, StreamEof, StreamError, IdleTimeout, LeaveLoop, Silent
  <2>2. phase = "select" /\ phase' = "drain"
    BY <1>10 DEF ClientClosed, StreamEof, StreamError, IdleTimeout, LeaveLoop
  <2> QED BY <2>1, <2>2, SilentCompletion
<1>11. CASE RecordOutcome
  <2>1. Silent /\ UNCHANGED <<conf, lost, upstreamFailed>> BY <1>11 DEF RecordOutcome, Silent
  <2>2. phase = "record" /\ phase' = "ended" /\ record' \in {record, Outcome}
    BY <1>11 DEF RecordOutcome
  <2> QED BY <2>1, <2>2, SilentCompletion
<1>12. CASE Receive \/ Disconnect \/ Finished \/ UNCHANGED vars
  <2>1. Silent /\ UNCHANGED <<conf, lost, upstreamFailed, record, phase>>
    BY <1>12 DEF Receive, Disconnect, Finished, vars, Silent
  <2> QED BY <2>1, SilentCompletion
<1> QED
  BY <1>1, <1>2, <1>3, <1>4, <1>5, <1>6, <1>7, <1>8, <1>9, <1>10, <1>11, <1>12
  DEF Next, Upstream, Relay

\* What every phase owes the client: an error or a stop of the decoder is
\* queued, buffered or written unless a send failed.
THEOREM CompletionInvariant == Spec => []CompletionInv
BY CompletionInit, CompletionNext, PTL DEF Spec

\* After an error chunk of an OpenAI upstream the terminal event is never
\* written, whatever else the upstream sends before or after it.
THEOREM OpenAIErrorSuppressesStop == Spec => []OpenAIErrorNotCompleted
<1>1. CompletionInv => OpenAIErrorNotCompleted
  BY DEF CompletionInv, OpenAIHistory, OpenAIErrorNotCompleted
<1> QED BY <1>1, CompletionInvariant, PTL

\* A stream recorded "ok", none of whose sends failed, is complete: no error
\* line, a terminal event if the upstream started one, the marker for OpenAI.
THEOREM OkStreamsAreComplete == Spec => []OkMeansComplete
<1>1. CompletionInv => OkMeansComplete
  <2> SUFFICES ASSUME CompletionInv, record = "ok", ~lost
               PROVE  /\ ~Wrote("error")
                      /\ dec.started => Wrote("message_stop")
                      /\ conf.client = "openai" => sent[Len(sent)].l = "[DONE]"
    BY DEF OkMeansComplete
  <2>1. phase = "ended" /\ ~upstreamFailed /\ ~sawError /\ events = <<>>
    BY DEF CompletionInv, EndHistory
  <2>2. ~Wrote("error") BY <2>1 DEF CompletionInv, RelayInv, PhaseHistory
  <2>3. \A kind : ~HasEvent(kind) BY <2>1 DEF HasEvent
  <2>4. dec.started => Wrote("message_stop")
    BY <2>1, <2>3 DEF CompletionInv, NothingForgotten, Flushing
  <2>5. conf.client = "openai" => sent[Len(sent)].l = "[DONE]"
    BY <2>1 DEF CompletionInv, EndHistory
  <2> QED BY <2>2, <2>4, <2>5
<1> QED BY <1>1, CompletionInvariant, PTL

-------------------------------------------------------------------------------
(* Content: what was decoded is sent, held back or still queued.           *)

\* Nothing is held back.
Released == \A ch \in ChannelIds : HeldOn(held, ch) = <<>>

\* While no send failed, what was decoded on a channel is what was sent, then
\* what the restorer holds, then what is queued ...
Ledger ==
    \A ch \in ChannelIds :
      OnChannel(log, ch) = OnChannel(sent, ch) \o (HeldOn(held, ch) \o OnChannel(events, ch))

\* ... and once one failed, what was sent is a part of it.
Prefix ==
    \A ch \in ChannelIds : \E rest \in Seq(Atom) : OnChannel(log, ch) = OnChannel(sent, ch) \o rest

Conserved ==
    /\ lost => closed
    /\ IF lost THEN Prefix ELSE Ledger
    /\ ~conf.privacy => Released
    /\ phase \in {"terminal", "marker", "record"} => Released

IntactInv == CompletionInv /\ Conserved

\* The texts of a channel.
LEMMA ChannelTypes ==
    ASSUME TypeOK, NEW ch
    PROVE  /\ OnChannel(log, ch) \in Seq(Atom) /\ OnChannel(sent, ch) \in Seq(Atom)
           /\ OnChannel(events, ch) \in Seq(Atom) /\ HeldOn(held, ch) \in Seq(Atom)
<1>1. log \in Seq(Event) /\ events \in Seq(Event) /\ sent \in Seq(Line) BY DEF TypeOK
<1>2. HeldType(held) BY DEF TypeOK, HeldType
<1>3. OnChannel(log, ch) \in Seq(Atom) /\ OnChannel(events, ch) \in Seq(Atom)
  BY <1>1, BothCarry, OnChannelType
<1>4. OnChannel(sent, ch) \in Seq(Atom) BY <1>1, BothCarry, OnChannelType
<1> QED BY <1>2, <1>3, <1>4, HeldOnType

\* A send that succeeds puts what the event carries behind what was sent; on a
\* closed channel it has nothing to send.
LEMMA DeliverCarries ==
    ASSUME TypeOK, NEW e \in Event, Deliver(e)
    PROVE  /\ \A ch : OnChannel(sent', ch) = OnChannel(sent, ch) \o Carried(e, ch)
           /\ closed => sent' = sent
           /\ lost' = lost
<1> DEFINE out == Encode(conf.client, enc, e).out
<1>1. out \in Seq(Line) BY SendFacts
<1>2. Accept(out) /\ lost' = lost BY DEF Deliver
<1>3. \A ch : OnChannel(out, ch) = Carried(e, ch) BY EncodeCarries DEF TypeOK
<1> HIDE DEF out
<1>4. sent \in Seq(Line) BY DEF TypeOK
<1>5. closed => sent' = sent BY <1>2 DEF Accept, CanSend
<1>6. sent' = sent \o out
  <2>1. CASE out = <<>> BY <1>2, <1>4, <2>1 DEF Accept
  <2>2. CASE out # <<>> BY <1>2, <2>2 DEF Accept
  <2> QED BY <2>1, <2>2
<1>7. ASSUME NEW ch PROVE OnChannel(sent', ch) = OnChannel(sent, ch) \o Carried(e, ch)
  <2>1. OnChannel(sent \o out, ch) = OnChannel(sent, ch) \o OnChannel(out, ch)
    BY <1>1, <1>4, BothCarry, OnChannelConcat
  <2> QED BY <1>3, <1>6, <2>1
<1> QED BY <1>2, <1>5, <1>7

\* The restorer, or its absence, keeps the content of every channel.
LEMMA RestoredCarries ==
    ASSUME TypeOK, ~conf.privacy => Released, NEW e \in Event, NEW r \in Restored(e),
           NEW ch \in ChannelIds
    PROVE  /\ OnChannel(r.ev, ch) \o HeldOn(r.held, ch) = HeldOn(held, ch) \o Carried(e, ch)
           /\ ~conf.privacy => r.held = held
<1>1. HeldType(held) BY DEF TypeOK, HeldType
<1>2. CASE conf.privacy
  <2>1. r \in RestoreEvent(held, e) BY <1>2 DEF Restored
  <2> QED BY <1>1, <1>2, <2>1, RestoreCarries
<1>3. CASE ~conf.privacy
  <2>1. r.held = held /\ r.ev = <<e>> BY <1>3 DEF Restored
  <2>2. HeldOn(held, ch) = <<>> BY <1>3 DEF Released
  <2>3. OnChannel(<<e>>, ch) = Carried(e, ch) /\ Carried(e, ch) \in Seq(Atom)
    BY BothCarry, OneOnChannel, CarriedType
  <2>4. Carried(e, ch) \o <<>> = <<>> \o Carried(e, ch) BY <2>3
  <2> QED BY <2>1, <2>2, <2>3, <2>4
<1> QED BY <1>2, <1>3

\* What a closed channel was sent stays what it was sent.
LEMMA PrefixKept ==
    ASSUME Prefix, UNCHANGED <<log, sent>>
    PROVE  Prefix'
BY DEF Prefix

\* Decoded events join the log.
LEMMA PrefixGrows ==
    ASSUME TypeOK, Prefix, NEW ev \in Seq(Event), log' = log \o ev, sent' = sent
    PROVE  Prefix'
<1> SUFFICES ASSUME NEW ch \in ChannelIds
             PROVE  \E rest \in Seq(Atom) : OnChannel(log', ch) = OnChannel(sent', ch) \o rest
  BY DEF Prefix
<1>1. PICK rest \in Seq(Atom) : OnChannel(log, ch) = OnChannel(sent, ch) \o rest BY DEF Prefix
<1>2. log \in Seq(Event) BY DEF TypeOK
<1>3. OnChannel(log', ch) = OnChannel(log, ch) \o OnChannel(ev, ch)
  BY <1>2, BothCarry, OnChannelConcat
<1>4. OnChannel(ev, ch) \in Seq(Atom) /\ OnChannel(sent, ch) \in Seq(Atom)
  BY BothCarry, OnChannelType, ChannelTypes
<1>5. (OnChannel(sent, ch) \o rest) \o OnChannel(ev, ch) =
        OnChannel(sent, ch) \o (rest \o OnChannel(ev, ch))
  BY <1>4, TextAssociative, Zenon
<1>6. rest \o OnChannel(ev, ch) \in Seq(Atom) BY <1>4
<1> QED BY <1>1, <1>3, <1>5, <1>6

\* While no send failed the sent text is a part of what was decoded.
LEMMA LedgerPrefix == TypeOK /\ Ledger => Prefix
<1> SUFFICES ASSUME TypeOK, Ledger, NEW ch \in ChannelIds
             PROVE  \E rest \in Seq(Atom) : OnChannel(log, ch) = OnChannel(sent, ch) \o rest
  BY DEF Prefix
<1>1. HeldOn(held, ch) \o OnChannel(events, ch) \in Seq(Atom) BY ChannelTypes
<1> QED BY <1>1 DEF Ledger

\* Steps that neither decode nor send.
LEMMA ConservedKept ==
    ASSUME Conserved, UNCHANGED <<log, sent, held, events, lost, conf>>, closed => closed',
           phase' \in {"terminal", "marker", "record"} =>
             phase \in {"terminal", "marker", "record"} \/ Released
    PROVE  Conserved'
<1>1. Released' <=> Released BY DEF Released
<1>2. Prefix' <=> Prefix BY DEF Prefix
<1>3. Ledger' <=> Ledger BY DEF Ledger
<1> QED BY <1>1, <1>2, <1>3 DEF Conserved

\* A payload: its events are decoded and queued.
LEMMA PayloadConserved ==
    ASSUME IntactInv, NEW p \in Wire[conf.upstream], NextPayload(p) \/ FramerRest(p)
    PROVE  Conserved'
<1> DEFINE ev == Feed(conf.upstream, dec, p, count + 1).ev
<1>0. TypeOK /\ Conserved BY DEF IntactInv, CompletionInv, RelayInv
<1>1. /\ UNCHANGED <<sent, held, lost, conf, closed>>
      /\ phase \in {"select", "chunk", "drain"} /\ phase' \in {"chunk", "framing", "drain"}
      /\ UNCHANGED <<log, events>> \/ (events' = ev /\ log' = log \o ev)
  BY DEF NextPayload, FramerRest
<1>2. events = <<>>
  BY <1>1 DEF NextPayload, FramerRest, IntactInv, CompletionInv, EndHistory
<1>3. ev \in Seq(Event) BY <1>0, FedType DEF StopsOnce
<1> HIDE DEF ev
<1>4. CASE UNCHANGED <<log, events>> BY <1>0, <1>1, <1>4, ConservedKept
<1>5. CASE events' = ev /\ log' = log \o ev
  <2>1. Released' <=> Released BY <1>1 DEF Released
  <2>2. Prefix => Prefix' BY <1>0, <1>1, <1>3, <1>5, PrefixGrows
  <2>3. Ledger => Ledger'
    <3> SUFFICES ASSUME Ledger, NEW ch \in ChannelIds
                 PROVE  OnChannel(log', ch) =
                          OnChannel(sent', ch) \o (HeldOn(held', ch) \o OnChannel(events', ch))
      BY DEF Ledger
    <3> DEFINE S == OnChannel(sent, ch)
               H == HeldOn(held, ch)
               E == OnChannel(ev, ch)
    <3>1. S \in Seq(Atom) /\ H \in Seq(Atom) /\ E \in Seq(Atom)
      BY <1>0, <1>3, ChannelTypes, BothCarry, OnChannelType
    <3>2. log \in Seq(Event) BY <1>0 DEF TypeOK
    <3>3. OnChannel(log', ch) = OnChannel(log, ch) \o E
      <4>1. OnChannel(log \o ev, ch) = OnChannel(log, ch) \o OnChannel(ev, ch)
        BY <1>3, <3>2, BothCarry, OnChannelConcat
      <4> QED BY <1>5, <4>1
    <3>4. OnChannel(log, ch) = S \o (H \o <<>>) BY <1>2, NothingOnChannel DEF Ledger
    <3>5. UNCHANGED <<sent, held>> BY <1>1
    <3> HIDE DEF S, H, E
    <3>6. H \o <<>> = H BY <3>1
    <3>7. (S \o H) \o E = S \o (H \o E) BY <3>1, TextAssociative
    <3>8. OnChannel(log', ch) = S \o (H \o E) BY <3>3, <3>4, <3>6, <3>7
    <3> QED BY <1>5, <3>5, <3>8 DEF S, H, E
  <2> QED BY <1>0, <1>1, <2>1, <2>2, <2>3 DEF Conserved
<1> QED BY <1>1, <1>4, <1>5

\* An event leaves the queue: it is sent, held back, or buffered as a stop.
LEMMA RelayEventConserved ==
    ASSUME IntactInv, RelayEvent
    PROVE  Conserved'
<1> DEFINE e == Head(events)
<1>0. /\ TypeOK /\ Conserved /\ phase \in {"chunk", "framing"} /\ events # <<>>
      /\ UNCHANGED <<conf, closed, log>>
  BY DEF IntactInv, CompletionInv, RelayInv, RelayEvent
<1>1. events \in Seq(Event) BY <1>0 DEF TypeOK
<1>2. e \in Event /\ Tail(events) \in Seq(Event) BY <1>0, <1>1
<1>3. PICK r \in Restored(e) : held' = r.held /\ (Swallow(r) \/ BufferStop(r) \/ Forward(r))
  BY DEF RelayEvent
<1>4. \/ r.ev = <<>>
      \/ r.ev \in Seq(Event) /\ Len(r.ev) = 1 /\ r.ev[1] \in Event /\ r.ev[1].k = e.k
  BY <1>0, <1>2, RestoreFacts
<1>5. ~conf.privacy => Released BY <1>0 DEF Conserved
<1>6. \A ch \in ChannelIds :
        /\ OnChannel(r.ev, ch) \o HeldOn(r.held, ch) = HeldOn(held, ch) \o Carried(e, ch)
        /\ ~conf.privacy => r.held = held
  BY <1>0, <1>2, <1>5, RestoredCarries
<1>7. \A ch : OnChannel(events, ch) = Carried(e, ch) \o OnChannel(Tail(events), ch)
  BY <1>0, <1>1, BothCarry, OnChannelHead
<1> HIDE DEF e
<1>8. (~conf.privacy => Released)' BY <1>0, <1>3, <1>5, <1>6 DEF Released
<1>9. phase' \notin {"terminal", "marker", "record"}
  BY <1>0, <1>3 DEF Swallow, BufferStop, Forward, AfterRefusal
<1>10. \/ /\ lost' = lost /\ events' = Tail(events)
          /\ \A ch : OnChannel(sent', ch) = OnChannel(sent, ch) \o OnChannel(r.ev, ch)
          /\ closed => sent' = sent
       \/ lost' /\ closed /\ sent' = sent
  <2>1. CASE r.ev = <<>>
    <3>1. sent' = sent /\ lost' = lost /\ events' = Tail(events)
      BY <1>3, <2>1 DEF Swallow, BufferStop, Forward
    <3>2. ASSUME NEW ch PROVE OnChannel(sent', ch) = OnChannel(sent, ch) \o OnChannel(r.ev, ch)
      <4>1. OnChannel(sent, ch) \in Seq(Atom) BY <1>0, ChannelTypes
      <4>2. OnChannel(sent, ch) \o <<>> = OnChannel(sent, ch) BY <4>1
      <4> QED BY <2>1, <3>1, <4>2, NothingOnChannel
    <3> QED BY <3>1, <3>2
  <2>2. CASE r.ev # <<>>
    <3> DEFINE x == r.ev[1]
    <3>1. x \in Event /\ r.ev = <<x>> /\ x.k = e.k BY <1>4, <2>2
    <3>2. \A ch : OnChannel(r.ev, ch) = Carried(x, ch) BY <3>1, BothCarry, OneOnChannel
    <3>3. CASE Swallow(r) BY <2>2, <3>3 DEF Swallow
    <3>4. CASE BufferStop(r)
      <4>1. sent' = sent /\ lost' = lost /\ events' = Tail(events) /\ x.k = "stop"
        BY <3>4 DEF BufferStop
      <4>2. ASSUME NEW ch PROVE OnChannel(sent', ch) = OnChannel(sent, ch) \o OnChannel(r.ev, ch)
        <5>1. OnChannel(sent, ch) \in Seq(Atom) BY <1>0, ChannelTypes
        <5>2. OnChannel(sent, ch) \o <<>> = OnChannel(sent, ch) BY <5>1
        <5>3. Carried(x, ch) = <<>> BY <4>1 DEF Carried, ContentKinds
        <5> QED BY <3>2, <4>1, <5>2, <5>3
      <4> QED BY <4>1, <4>2
    <3>5. CASE Forward(r)
      <4>1. \/ Deliver(x) /\ events' = Tail(events)
            \/ Refuse(x)
        BY <3>5 DEF Forward
      <4>2. CASE Refuse(x) BY <4>2 DEF Refuse
      <4>3. CASE Deliver(x) /\ events' = Tail(events)
        <5> HIDE DEF x
        <5>1. /\ \A ch : OnChannel(sent', ch) = OnChannel(sent, ch) \o Carried(x, ch)
              /\ closed => sent' = sent /\ lost' = lost
              /\ lost' = lost
          BY <1>0, <3>1, <4>3, DeliverCarries
        <5> QED BY <3>2, <4>3, <5>1
      <4> QED BY <4>1, <4>2, <4>3
    <3> QED BY <1>3, <3>3, <3>4, <3>5
  <2> QED BY <2>1, <2>2
<1>11. CASE lost' /\ closed /\ sent' = sent
  <2>1. Prefix BY <1>0, LedgerPrefix DEF Conserved
  <2>2. Prefix' BY <1>0, <1>11, <2>1, PrefixKept
  <2> QED BY <1>0, <1>8, <1>9, <1>11, <2>2 DEF Conserved
<1>12. CASE lost /\ lost' = lost /\ (closed => sent' = sent)
  <2>1. closed /\ Prefix BY <1>0, <1>12 DEF Conserved
  <2>2. Prefix' BY <1>0, <1>12, <2>1, PrefixKept
  <2> QED BY <1>0, <1>8, <1>9, <1>12, <2>1, <2>2 DEF Conserved
<1>13. CASE /\ ~lost /\ lost' = lost /\ events' = Tail(events)
            /\ \A ch : OnChannel(sent', ch) = OnChannel(sent, ch) \o OnChannel(r.ev, ch)
  <2>1. Ledger BY <1>0, <1>13 DEF Conserved
  <2>2. Ledger'
    <3> SUFFICES ASSUME NEW ch \in ChannelIds
                 PROVE  OnChannel(log', ch) =
                          OnChannel(sent', ch) \o (HeldOn(held', ch) \o OnChannel(events', ch))
      BY DEF Ledger
    <3> DEFINE S == OnChannel(sent, ch)
               H == HeldOn(held, ch)
               C == Carried(e, ch)
               Q == OnChannel(Tail(events), ch)
               O == OnChannel(r.ev, ch)
               G == HeldOn(r.held, ch)
    <3>1. S \in Seq(Atom) /\ H \in Seq(Atom) BY <1>0, ChannelTypes
    <3>2. C \in Seq(Atom) /\ Q \in Seq(Atom)
      BY <1>2, BothCarry, CarriedType, OnChannelType
    <3>3. O \in Seq(Atom)
      <4>1. CASE r.ev = <<>> BY <4>1, NothingOnChannel, AtomSeq
      <4>2. CASE r.ev # <<>> BY <1>4, <4>2, BothCarry, OnChannelType
      <4> QED BY <4>1, <4>2
    <3>4. G \in Seq(Atom) BY <1>0, <1>2, RestoreFacts, HeldOnType
    <3>5. OnChannel(log, ch) = S \o (H \o (C \o Q)) BY <1>7, <2>1 DEF Ledger
    <3>6. O \o G = H \o C BY <1>6
    <3>7. OnChannel(sent', ch) = S \o O /\ HeldOn(held', ch) = G /\ OnChannel(events', ch) = Q
      BY <1>3, <1>13
    <3> HIDE DEF S, H, C, Q, O, G
    <3>8. H \o (C \o Q) = (H \o C) \o Q BY <3>1, <3>2, TextAssociative
    <3>9. (O \o G) \o Q = O \o (G \o Q) BY <3>2, <3>3, <3>4, TextAssociative
    <3>10. G \o Q \in Seq(Atom) BY <3>2, <3>4
    <3>11. S \o (O \o (G \o Q)) = (S \o O) \o (G \o Q) BY <3>1, <3>3, <3>10, TextAssociative
    <3> QED BY <1>0, <3>5, <3>6, <3>7, <3>8, <3>9, <3>11
  <2> QED BY <1>8, <1>9, <1>13, <2>2 DEF Conserved
<1> QED BY <1>10, <1>11, <1>12, <1>13

\* A send outside the payload loop: what the event carries was held back, or is
\* nothing.
LEMMA SendConserved ==
    ASSUME IntactInv, NEW e \in Event, Deliver(e) \/ Refuse(e), UNCHANGED <<conf, closed, log, phase>>,
           events = <<>>, events' = <<>>, Released => Released',
           Deliver(e) => \A ch \in ChannelIds :
                           HeldOn(held, ch) = Carried(e, ch) \o HeldOn(held', ch)
                             /\ HeldOn(held', ch) \in Seq(Atom)
    PROVE  Conserved'
<1>0. TypeOK /\ Conserved BY DEF IntactInv, CompletionInv, RelayInv
<1>1. CASE lost \/ Refuse(e)
  <2>1. closed /\ lost' /\ sent' = sent
    <3>1. CASE Refuse(e) BY <3>1 DEF Refuse
    <3>2. CASE Deliver(e) /\ lost BY <1>0, <3>2, DeliverCarries DEF Conserved
    <3> QED BY <1>1, <3>1, <3>2
  <2>2. Prefix BY <1>0, LedgerPrefix DEF Conserved
  <2>3. Prefix' BY <2>1, <2>2, PrefixKept
  <2> QED BY <1>0, <2>1, <2>3 DEF Conserved
<1>2. CASE ~lost /\ Deliver(e)
  <2>1. ~lost' /\ Ledger BY <1>0, <1>2, DeliverCarries DEF Conserved
  <2>2. Ledger'
    <3> SUFFICES ASSUME NEW ch \in ChannelIds
                 PROVE  OnChannel(log', ch) =
                          OnChannel(sent', ch) \o (HeldOn(held', ch) \o OnChannel(events', ch))
      BY DEF Ledger
    <3> DEFINE S == OnChannel(sent, ch)
               C == Carried(e, ch)
               G == HeldOn(held', ch)
    <3>1. S \in Seq(Atom) /\ C \in Seq(Atom) BY <1>0, ChannelTypes, BothCarry, CarriedType
    <3>2. G \in Seq(Atom) /\ HeldOn(held, ch) = C \o G BY <1>2
    <3>3. OnChannel(log, ch) = S \o ((C \o G) \o <<>>)
      BY <2>1, <3>2, NothingOnChannel DEF Ledger
    <3>4. OnChannel(sent', ch) = S \o C BY <1>0, <1>2, DeliverCarries
    <3>5. OnChannel(events', ch) = <<>> BY NothingOnChannel
    <3> HIDE DEF S, C, G
    <3>6. (C \o G) \o <<>> = C \o G /\ G \o <<>> = G BY <3>1, <3>2
    <3>7. S \o (C \o G) = (S \o C) \o G BY <3>1, <3>2, TextAssociative
    <3>8. OnChannel(log', ch) = (S \o C) \o (G \o <<>>) BY <3>3, <3>6, <3>7
    <3> QED BY <3>4, <3>5, <3>8 DEF G
  <2> QED BY <1>0, <1>2, <2>1, <2>2 DEF Conserved
<1> QED BY <1>1, <1>2

\* A held tail is sent.
LEMMA FlushHeldConserved ==
    ASSUME IntactInv, FlushHeld
    PROVE  Conserved'
<1>0. /\ TypeOK /\ phase = "restorer" /\ UNCHANGED <<conf, phase, events, closed, log>>
  BY DEF IntactInv, CompletionInv, RelayInv, FlushHeld
<1>1. PICK own \in Busy : \/ Deliver(HeldTail(own)) /\ held' = HoldOn(held, own, <<>>)
                          \/ Refuse(HeldTail(own)) /\ held' = NoneHeld
  BY DEF FlushHeld
<1> DEFINE e == HeldTail(own)
<1>2. e \in Event /\ e.k \in ContentKinds BY <1>0, HeldTailType
<1>3. events = <<>> BY <1>0 DEF IntactInv, CompletionInv, EndHistory
<1>4. own \in ChannelIds /\ own \in DOMAIN held BY <1>0 DEF Busy, TypeOK
<1>5. \A ch : Carried(e, ch) = IF ch = own THEN held[own] ELSE <<>>
  <2>1. own = <<own[1], own[2]>> BY <1>4 DEF ChannelIds
  <2>2. e.k = own[1] /\ e.i = own[2] /\ e.a = held[own] BY DEF HeldTail, Ev
  <2> QED BY <1>2, <2>1, <2>2 DEF Carried, ChannelOf
<1> HIDE DEF e
<1>6. Released => Released'
  <2>1. CASE held' = NoneHeld BY <2>1 DEF Released, HeldOn, NoneHeld
  <2>2. CASE held' = HoldOn(held, own, <<>>)
    <3>1. \A ch : HeldOn(held', ch) = IF ch = own THEN <<>> ELSE HeldOn(held, ch)
      BY <2>2, HeldAfterHold
    <3> QED BY <3>1 DEF Released
  <2> QED BY <1>1, <2>1, <2>2
<1>7. CASE Deliver(e) /\ held' = HoldOn(held, own, <<>>)
  <2>1. ASSUME NEW ch \in ChannelIds
        PROVE  /\ HeldOn(held, ch) = Carried(e, ch) \o HeldOn(held', ch)
               /\ HeldOn(held', ch) \in Seq(Atom)
    <3>1. HeldOn(held', ch) = IF ch = own THEN <<>> ELSE HeldOn(held, ch)
      BY <1>7, HeldAfterHold
    <3>2. HeldOn(held, ch) \in Seq(Atom) BY <1>0, ChannelTypes
    <3>3. HeldOn(held, own) = held[own] BY <1>4 DEF HeldOn
    <3>4. HeldOn(held, ch) \o <<>> = HeldOn(held, ch) /\ <<>> \o HeldOn(held, ch) = HeldOn(held, ch)
      BY <3>2
    <3>5. CASE ch = own BY <1>5, <3>1, <3>3, <3>4, <3>5, AtomSeq
    <3>6. CASE ch # own BY <1>5, <3>1, <3>2, <3>4, <3>6
    <3> QED BY <3>5, <3>6
  <2> QED BY <1>0, <1>2, <1>3, <1>6, <1>7, <2>1, SendConserved
<1>8. CASE Refuse(e) /\ held' = NoneHeld
  <2>1. CASE Deliver(e)
    <3>1. closed /\ Encode(conf.client, enc, e).out # <<>> BY <1>8 DEF Refuse
    <3> QED BY <2>1, <3>1 DEF Deliver, Accept, CanSend
  <2>2. CASE ~Deliver(e) BY <1>0, <1>2, <1>3, <1>6, <1>8, <2>2, SendConserved
  <2> QED BY <2>1, <2>2
<1> QED BY <1>1, <1>7, <1>8 DEF e

\* The buffered stop carries no content.
LEMMA FlushTerminalConserved ==
    ASSUME IntactInv, FlushTerminal
    PROVE  Conserved'
<1> DEFINE e == Head(terminal)
<1>0. /\ TypeOK /\ phase = "terminal" /\ terminal # <<>>
      /\ UNCHANGED <<conf, phase, events, held, closed, log>>
  BY DEF IntactInv, CompletionInv, RelayInv, FlushTerminal
<1>1. e \in Event /\ e.k = "stop"
  <2>1. e = terminal[1] /\ 1 \in 1 .. Len(terminal) /\ e \in Event BY <1>0 DEF TypeOK
  <2> QED BY <2>1 DEF IntactInv, CompletionInv, RelayInv, StopPending
<1>2. Deliver(e) \/ Refuse(e) BY DEF FlushTerminal
<1>3. events = <<>> BY <1>0 DEF IntactInv, CompletionInv, EndHistory
<1> HIDE DEF e
<1>4. \A ch : Carried(e, ch) = <<>> BY <1>1 DEF Carried, ContentKinds
<1>5. ASSUME NEW ch PROVE HeldOn(held, ch) = Carried(e, ch) \o HeldOn(held', ch)
                          /\ HeldOn(held', ch) \in Seq(Atom)
  <2>1. HeldOn(held, ch) \in Seq(Atom) /\ held' = held BY <1>0, ChannelTypes
  <2>2. <<>> \o HeldOn(held, ch) = HeldOn(held, ch) BY <2>1
  <2> QED BY <1>4, <2>1, <2>2
<1>6. Released => Released' BY <1>0 DEF Released
<1> QED BY <1>0, <1>1, <1>2, <1>3, <1>5, <1>6, SendConserved

\* Nor does the marker.
LEMMA MarkerConserved ==
    ASSUME IntactInv, SendMarker
    PROVE  Conserved'
<1> DEFINE b == DoneLines(conf.client)
<1>0. /\ TypeOK /\ Conserved /\ phase = "marker" /\ phase' = "record"
      /\ UNCHANGED <<conf, events, held, closed, log>>
  BY DEF IntactInv, CompletionInv, RelayInv, SendMarker
<1>1. b \in Seq(Line)
  <2>1. Bare("[DONE]") \in Line BY BareType DEF LineNames
  <2> QED BY <2>1 DEF DoneLines
<1>2. \/ ~closed /\ sent' = sent \o b /\ lost' = lost
      \/ closed /\ sent' = sent /\ lost'
  BY DEF SendMarker, CanSend
<1>3. \A ch : OnChannel(b, ch) = <<>> BY DoneCarries
<1> HIDE DEF b
<1>4. Released' BY <1>0 DEF Conserved, Released
<1>5. CASE closed /\ sent' = sent /\ lost'
  <2>1. Prefix BY <1>0, LedgerPrefix DEF Conserved
  <2>2. Prefix' BY <1>0, <1>5, <2>1, PrefixKept
  <2> QED BY <1>0, <1>4, <1>5, <2>2 DEF Conserved
<1>6. CASE ~closed /\ sent' = sent \o b /\ lost' = lost
  <2>1. ~lost /\ Ledger BY <1>0, <1>6 DEF Conserved
  <2>2. ASSUME NEW ch PROVE OnChannel(sent', ch) = OnChannel(sent, ch)
    <3>1. sent \in Seq(Line) BY <1>0 DEF TypeOK
    <3>2. OnChannel(sent \o b, ch) = OnChannel(sent, ch) \o OnChannel(b, ch)
      BY <1>1, <3>1, BothCarry, OnChannelConcat
    <3>3. OnChannel(sent, ch) \in Seq(Atom) BY <1>0, ChannelTypes
    <3>4. OnChannel(sent, ch) \o <<>> = OnChannel(sent, ch) BY <3>3
    <3> QED BY <1>3, <1>6, <3>2, <3>4
  <2>3. Ledger' BY <1>0, <2>1, <2>2 DEF Ledger
  <2> QED BY <1>0, <1>4, <1>6, <2>1, <2>3 DEF Conserved
<1> QED BY <1>2, <1>5, <1>6

\* Nor does the decoder's last stop.
LEMMA FinishConserved ==
    ASSUME IntactInv, FinishStream
    PROVE  Conserved'
<1> DEFINE f == IF upstreamFailed THEN Fed(dec, <<>>) ELSE FinishDecoder(dec)
<1>0. /\ TypeOK /\ Conserved /\ phase = "framing" /\ phase' = "restorer"
      /\ UNCHANGED <<conf, events, held, closed, sent, lost>>
  BY DEF IntactInv, CompletionInv, RelayInv, FinishStream
<1>1. log' = log \o f.ev BY DEF FinishStream
<1>2. dec \in Decoder /\ log \in Seq(Event) BY <1>0 DEF TypeOK
<1>3. f.ev = <<>> \/ f.ev = <<StopEvent(dec)>>
  <2>1. CASE upstreamFailed BY <2>1 DEF Fed
  <2>2. CASE ~upstreamFailed BY <1>2, <2>2, FinishStops
  <2> QED BY <2>1, <2>2
<1>4. StopEvent(dec) \in Event /\ StopEvent(dec).k = "stop" BY <1>2, StopType
<1> HIDE DEF f
<1>5. f.ev \in Seq(Event)
  <2>1. <<StopEvent(dec)>> \in Seq(Event) /\ <<>> \in Seq(Event) BY <1>4
  <2> QED BY <1>3, <2>1
<1>6. ASSUME NEW ch PROVE OnChannel(log', ch) = OnChannel(log, ch)
  <2>1. OnChannel(f.ev, ch) = <<>>
    <3>1. CASE f.ev = <<>> BY <3>1, NothingOnChannel
    <3>2. CASE f.ev = <<StopEvent(dec)>>
      <4>1. Carried(StopEvent(dec), ch) = <<>> BY <1>4 DEF Carried, ContentKinds
      <4> QED BY <1>4, <3>2, <4>1, BothCarry, OneOnChannel
    <3> QED BY <1>3, <3>1, <3>2
  <2>2. OnChannel(log \o f.ev, ch) = OnChannel(log, ch) \o OnChannel(f.ev, ch)
    BY <1>2, <1>5, BothCarry, OnChannelConcat
  <2>3. OnChannel(log, ch) \in Seq(Atom) BY <1>0, ChannelTypes
  <2>4. OnChannel(log, ch) \o <<>> = OnChannel(log, ch) BY <2>3
  <2> QED BY <1>1, <2>1, <2>2, <2>4
<1>7. Released' <=> Released BY <1>0 DEF Released
<1>8. Ledger' <=> Ledger BY <1>0, <1>6 DEF Ledger
<1>9. Prefix' <=> Prefix BY <1>0, <1>6 DEF Prefix
<1> QED BY <1>0, <1>7, <1>8, <1>9 DEF Conserved

\* The invariant holds initially.
LEMMA IntactInit == Init => IntactInv
<1> SUFFICES ASSUME Init PROVE Conserved BY CompletionInit DEF IntactInv
<1>1. Released BY DEF Init, Released, HeldOn, NoneHeld
<1>2. Ledger
  <2> SUFFICES ASSUME NEW ch \in ChannelIds
               PROVE  OnChannel(log, ch) =
                        OnChannel(sent, ch) \o (HeldOn(held, ch) \o OnChannel(events, ch))
    BY DEF Ledger
  <2>1. /\ OnChannel(log, ch) = <<>> /\ OnChannel(sent, ch) = <<>>
        /\ OnChannel(events, ch) = <<>> /\ HeldOn(held, ch) = <<>>
    BY <1>1, NothingOnChannel DEF Init, Released
  <2> QED BY <2>1
<1> QED BY <1>1, <1>2 DEF Init, Conserved

\* Every step keeps it: one case per action.
LEMMA IntactNext == IntactInv /\ [Next]_vars => IntactInv'
<1> SUFFICES ASSUME IntactInv, [Next]_vars PROVE Conserved'
  BY CompletionNext DEF IntactInv
<1>0. Conserved BY DEF IntactInv
<1>1. CASE \E p \in Wire[conf.upstream] : NextPayload(p) \/ FramerRest(p)
  BY <1>1, PayloadConserved
<1>2. CASE RelayEvent BY <1>2, RelayEventConserved
<1>3. CASE FinishStream BY <1>3, FinishConserved
<1>4. CASE FlushHeld BY <1>4, FlushHeldConserved
<1>5. CASE FlushTerminal BY <1>5, FlushTerminalConserved
<1>6. CASE SendMarker BY <1>6, MarkerConserved
<1>7. CASE ChunkEnd \/ SkipFlush \/ FramerEmpty
  <2>1. /\ UNCHANGED <<log, sent, held, events, lost, conf, closed>>
        /\ phase' \in {"select", "ended", "framing"}
    BY <1>7 DEF ChunkEnd, SkipFlush, FramerEmpty, Goto
  <2> QED BY <1>0, <2>1, ConservedKept
<1>8. CASE HeldFlushed
  <2>1. UNCHANGED <<log, sent, held, events, lost, conf, closed>> /\ Busy = {}
    BY <1>8 DEF HeldFlushed, Goto
  <2>2. Released BY <2>1 DEF Released, HeldOn, Busy
  <2> QED BY <1>0, <2>1, <2>2, ConservedKept
<1>9. CASE TerminalFlushed
  <2>1. UNCHANGED <<log, sent, held, events, lost, conf, closed>> /\ phase = "terminal"
    BY <1>9 DEF TerminalFlushed, Goto
  <2> QED BY <1>0, <2>1, ConservedKept
<1>10. CASE ClientClosed \/ StreamEof \/ StreamError \/ IdleTimeout
  <2>1. UNCHANGED <<log, sent, held, events, lost, conf, closed>> /\ phase' = "drain"
    BY <1>10 DEF ClientClosed, StreamEof, StreamError, IdleTimeout, LeaveLoop
  <2> QED BY <1>0, <2>1, ConservedKept
<1>11. CASE RecordOutcome
  <2>1. UNCHANGED <<log, sent, held, events, lost, conf, closed>> /\ phase' = "ended"
    BY <1>11 DEF RecordOutcome
  <2> QED BY <1>0, <2>1, ConservedKept
<1>12. CASE Receive \/ Disconnect \/ Finished \/ UNCHANGED vars
  <2>1. UNCHANGED <<log, sent, held, events, lost, conf, phase>> /\ (closed => closed')
    BY <1>12 DEF Receive, Disconnect, Finished, vars
  <2> QED BY <1>0, <2>1, ConservedKept
<1> QED
  BY <1>1, <1>2, <1>3, <1>4, <1>5, <1>6, <1>7, <1>8, <1>9, <1>10, <1>11, <1>12
  DEF Next, Upstream, Relay

\* On every channel, what was decoded is accounted for at every moment.
THEOREM IntactInvariant == Spec => []IntactInv
BY IntactInit, IntactNext, PTL DEF Spec

\* Per channel the client receives the upstream's content in order, without
\* duplicates or gaps, and all of it before the terminal event unless a send
\* failed; whatever the restorer holds back and wherever the stream breaks.
THEOREM ContentArrivesIntact == Spec => []ContentIntact
<1>1. IntactInv => ContentIntact
  <2> SUFFICES ASSUME IntactInv, NEW ch \in ChannelsOf(log)
               PROVE  LET got == OnChannel(sent, ch)
                          fed == OnChannel(log, ch)
                      IN  /\ got = SubSeq(fed, 1, Len(got))
                          /\ ~lost /\ phase \in {"terminal", "marker", "record"} => got = fed
    BY DEF ContentIntact
  <2> DEFINE got == OnChannel(sent, ch)
             fed == OnChannel(log, ch)
  <2>0. TypeOK /\ Conserved BY DEF IntactInv, CompletionInv, RelayInv
  <2>1. ch \in ChannelIds
    <3>1. PICK n \in 1 .. Len(log) : log[n].k \in ContentKinds /\ ch = ChannelOf(log[n])
      BY DEF ChannelsOf
    <3>2. log[n] \in Event BY <2>0 DEF TypeOK
    <3> QED BY <3>1, <3>2, EventFields DEF ChannelOf, ChannelIds
  <2>2. got \in Seq(Atom) /\ fed \in Seq(Atom) BY <2>0, ChannelTypes
  <2>3. PICK rest \in Seq(Atom) : fed = got \o rest
    BY <2>0, <2>1, LedgerPrefix DEF Conserved, Prefix
  <2>4. ~lost /\ phase \in {"terminal", "marker", "record"} => got = fed
    <3> SUFFICES ASSUME ~lost, phase \in {"terminal", "marker", "record"} PROVE got = fed
      OBVIOUS
    <3>1. HeldOn(held, ch) = <<>> BY <2>0, <2>1 DEF Conserved, Released
    <3>2. events = <<>> BY DEF IntactInv, CompletionInv, EndHistory
    <3>3. OnChannel(events, ch) = <<>> BY <3>2, NothingOnChannel
    <3>4. fed = got \o (<<>> \o <<>>) BY <2>0, <2>1, <3>1, <3>3 DEF Conserved, Ledger
    <3> HIDE DEF got, fed
    <3> QED BY <2>2, <3>4
  <2> HIDE DEF got, fed
  <2>5. got = SubSeq(fed, 1, Len(got))
    <3>1. Len(got) \in Nat /\ Len(got) <= Len(got \o rest) BY <2>2
    <3>2. SubSeq(got \o rest, 1, Len(got)) = got
      <4> DEFINE pre == SubSeq(got \o rest, 1, Len(got))
      <4>1. got \o rest \in Seq(Atom) BY <2>2
      <4>2. pre \in Seq(Atom) /\ Len(pre) = Len(got) BY <3>1, <4>1
      <4>3. \A i \in 1 .. Len(pre) : pre[i] = got[i] BY <2>2, <3>1, <4>1, <4>2
      <4> HIDE DEF pre
      <4> QED BY <2>2, <4>2, <4>3, SeqEqual DEF pre
    <3> QED BY <2>3, <3>2
  <2> QED BY <2>4, <2>5 DEF got, fed
<1> QED BY <1>1, IntactInvariant, PTL
-------------------------------------------------------------------------------
(* The choreography of content blocks. *)

\* Only tool calls are numbered, in the queue and in the restorer.
NumberedState ==
    /\ AllNumbered(events)
    /\ \A ch \in DOMAIN held : ch[1] \in {"text", "reason"} => ch[2] = 0

\* While the client listens, the encoder knows which block is open.
BlockState ==
    conf.client = "anthropic" => Matched(sent) /\ (~closed => InStep(sent, enc))

\* Without a restorer the calls of a Gemini stream are written in the order of
\* their numbers: written, then queued, then those the decoder will give out.
CallsInOrder ==
    conf.upstream = "gemini" /\ ~conf.privacy =>
        /\ Busy = {}
        /\ CallsFrom(events, 0, dec.next)
        /\ Rising(sent)
        /\ \A n \in Starts(sent) :
             /\ sent[n].hd /\ sent[n].i < dec.next
             /\ \A m \in 1 .. Len(events) : events[m].k = "tool" => sent[n].i < events[m].i

BlocksInv == RelayInv /\ NumberedState /\ BlockState /\ CallsInOrder

\* Delivered or refused, an event leaves the blocks well formed, and the
\* encoder in step unless the client is gone.
LEMMA SendBlocks ==
    ASSUME TypeOK, BlockState, NEW e \in Event, Numbered(e), Deliver(e) \/ Refuse(e),
           UNCHANGED <<conf, closed>>
    PROVE  BlockState'
<1> SUFFICES ASSUME conf.client = "anthropic"
             PROVE  Matched(sent') /\ (~closed => InStep(sent', enc'))
  BY DEF BlockState
<1> DEFINE o == EncodeAnthropic(enc, e)
<1>0. sent \in Seq(Line) /\ enc \in Encoder BY DEF TypeOK
<1>1. Matched(sent) /\ (~closed => InStep(sent, enc)) BY DEF BlockState
<1>2. Encode(conf.client, enc, e) = o BY DEF Encode
<1>3. CASE closed
  <2>1. sent' = sent BY <1>3 DEF Deliver, Refuse, Accept, CanSend
  <2> QED BY <1>1, <1>3, <2>1
<1>4. CASE ~closed
  <2>1. Deliver(e) BY <1>4 DEF Refuse
  <2>2. enc' = o.enc /\ Accept(o.out) BY <1>2, <2>1 DEF Deliver
  <2>3. Matched(sent \o o.out) /\ InStep(sent \o o.out, o.enc)
    BY <1>0, <1>1, <1>4, EncodeInStep
  <2>4. sent \o <<>> = sent BY <1>0
  <2> HIDE DEF o
  <2>5. sent' = sent \o o.out BY <2>2, <2>4 DEF Accept
  <2> QED BY <2>2, <2>3, <2>5
<1> QED BY <1>3, <1>4

\* A call above all written ones keeps the written calls in order.
LEMMA SendCalls ==
    ASSUME TypeOK, NEW e \in Event, Deliver(e) \/ Refuse(e), Rising(sent),
           e.k = "tool" => \A n \in Starts(sent) : sent[n].i < e.i
    PROVE  /\ Rising(sent')
           /\ \A n \in Starts(sent') :
                 \/ n \in Starts(sent) /\ sent'[n] = sent[n]
                 \/ e.k = "tool" /\ sent'[n].i = e.i /\ sent'[n].hd = e.hd
<1> DEFINE out == Encode(conf.client, enc, e).out
<1>0. sent \in Seq(Line) /\ enc \in Encoder BY DEF TypeOK
<1>1. out \in Seq(Line) /\ (sent' = sent \/ sent' = sent \o out) BY SendFacts
<1>2. OneStart(out, e) BY <1>0, EncodeStarts
<1> HIDE DEF out
<1>3. CASE sent' = sent BY <1>3
<1>4. CASE sent' = sent \o out BY <1>0, <1>1, <1>2, <1>4, RisingConcat
<1> QED BY <1>1, <1>3, <1>4

\* What the restorer passes on is numbered as what it was given, and only
\* tool channels get numbers.
LEMMA RestoredNumbered ==
    ASSUME TypeOK, NumberedState, NEW e \in Event, Numbered(e), NEW r \in Restored(e)
    PROVE  /\ \A ch \in DOMAIN r.held : ch[1] \in {"text", "reason"} => ch[2] = 0
           /\ r.ev # <<>> => Numbered(r.ev[1])
           /\ ~conf.privacy => r.held = held /\ r.ev = <<e>>
<1>1. CASE ~conf.privacy
  <2>1. r.held = held /\ r.ev = <<e>> BY <1>1 DEF Restored
  <2>2. <<e>>[1] = e OBVIOUS
  <2> QED BY <2>1, <2>2 DEF NumberedState
<1>2. CASE conf.privacy /\ e.k \notin ContentKinds
  <2>1. r.held = held /\ r.ev = <<e>> BY <1>2 DEF Restored, RestoreEvent
  <2>2. <<e>>[1] = e OBVIOUS
  <2> QED BY <1>2, <2>1, <2>2 DEF NumberedState
<1>3. CASE conf.privacy /\ e.k \in ContentKinds
  <2> DEFINE ch == ChannelOf(e)
             all == HeldOn(held, ch) \o e.a
             R(n) == [held |-> HoldOn(held, ch, SubSeq(all, n + 1, Len(all))),
                      ev |-> IF n = 0 /\ ~e.hd THEN <<>>
                             ELSE <<[e EXCEPT !.a = SubSeq(all, 1, n)]>>]
  <2>1. r \in RestoreEvent(held, e) BY <1>3 DEF Restored
  <2>2. r \in {R(n) : n \in 0 .. Len(all)} BY <1>3, <2>1, Zenon DEF RestoreEvent
  <2>3. PICK n \in 0 .. Len(all) : r = R(n) BY <2>2
  <2> DEFINE x == [e EXCEPT !.a = SubSeq(all, 1, n)]
             h == HoldOn(held, ch, SubSeq(all, n + 1, Len(all)))
  <2>4. r.held = h /\ (r.ev = <<>> \/ r.ev = <<x>>) BY <2>3
  <2>5. x.k = e.k /\ x.i = e.i BY DEF Event
  <2>6. DOMAIN h = DOMAIN held \cup {ch} BY DEF HoldOn
  <2>7. ch[1] \in {"text", "reason"} => ch[2] = 0 BY DEF ChannelOf, Numbered
  <2> HIDE DEF x, h, ch
  <2>8. \A c \in DOMAIN h : c[1] \in {"text", "reason"} => c[2] = 0
    BY <2>6, <2>7 DEF NumberedState
  <2>9. Numbered(x) BY <2>5 DEF Numbered
  <2>10. <<x>>[1] = x OBVIOUS
  <2> QED BY <1>3, <2>4, <2>8, <2>9, <2>10
<1> QED BY <1>1, <1>2, <1>3

\* A step that leaves queue, decoder, encoder, restorer and stream alone.
LEMMA BlocksKept ==
    ASSUME NumberedState, BlockState, CallsInOrder,
           UNCHANGED <<conf, enc, held, events, sent>>, dec'.next = dec.next, closed => closed'
    PROVE  NumberedState' /\ BlockState' /\ CallsInOrder'
<1>1. NumberedState' BY DEF NumberedState
<1>2. BlockState' BY DEF BlockState
<1>3. CallsInOrder' BY DEF CallsInOrder, Busy
<1> QED BY <1>1, <1>2, <1>3

\* A payload: new calls are numbered above all earlier ones.
LEMMA PayloadBlocks ==
    ASSUME BlocksInv, NEW p \in Wire[conf.upstream], NextPayload(p) \/ FramerRest(p)
    PROVE  NumberedState' /\ BlockState' /\ CallsInOrder'
<1> DEFINE r == Feed(conf.upstream, dec, p, count + 1)
<1>0. TypeOK /\ NumberedState /\ BlockState /\ CallsInOrder BY DEF BlocksInv, RelayInv
<1>1. UNCHANGED <<conf, enc, held, sent, closed>> BY DEF NextPayload, FramerRest
<1>2. CASE p.t = "[DONE]"
  <2>1. UNCHANGED <<dec, events>> BY <1>2 DEF NextPayload, FramerRest
  <2> QED BY <1>0, <1>1, <2>1, BlocksKept
<1>3. CASE p.t # "[DONE]"
  <2>1. dec' = r.dec /\ events' = r.ev BY <1>3 DEF NextPayload, FramerRest
  <2>2. conf.upstream \in Upstreams /\ p \in Sendable(conf.upstream)
    BY <1>0, RelayAssumption DEF TypeOK, Config
  <2>3. count + 1 \in Nat /\ dec \in Decoder /\ dec.next \in Nat
    BY <1>0, RelayAssumption DEF TypeOK, Decoder
  <2>4. AllNumbered(r.ev) /\ r.ev \in Seq(Event)
    BY <1>0, <2>2, <2>3, FeedNumbered, FedType DEF StopsOnce
  <2>5. NumberedState' BY <1>0, <1>1, <2>1, <2>4 DEF NumberedState
  <2>6. BlockState' BY <1>0, <1>1 DEF BlockState
  <2>7. ASSUME conf.upstream = "gemini", ~conf.privacy PROVE CallsInOrder'
    <3>1. r = FeedGemini(dec, p, count + 1) BY <2>7 DEF Feed
    <3>2. p \in Payload BY <2>2 DEF Sendable
    <3> HIDE DEF r
    <3>3. r.dec.next \in Nat /\ dec.next <= r.dec.next /\ CallsFrom(r.ev, dec.next, r.dec.next)
      BY <2>3, <3>1, <3>2, GeminiCalls
    <3>4. \A m \in 1 .. Len(r.ev) : r.ev[m].i \in Nat BY <2>4, EventFields
    <3>5. CallsFrom(r.ev, 0, r.dec.next) BY <3>3, <3>4 DEF CallsFrom
    <3>6. \A n \in Starts(sent) : sent[n].i \in Nat
      <4>1. \A n \in Starts(sent) : sent[n] \in Line BY <1>0 DEF TypeOK, Starts
      <4> QED BY <4>1 DEF Line
    <3>7. Busy = {} /\ Rising(sent) /\ \A n \in Starts(sent) : sent[n].hd /\ sent[n].i < dec.next
      BY <1>0, <2>7 DEF CallsInOrder
    <3>8. Busy' = {} BY <1>1, <3>7 DEF Busy
    <3>9. \A n \in Starts(sent) :
             /\ sent[n].hd /\ sent[n].i < r.dec.next
             /\ \A m \in 1 .. Len(r.ev) : r.ev[m].k = "tool" => sent[n].i < r.ev[m].i
      <4>1. \A m \in 1 .. Len(r.ev) : r.ev[m].k = "tool" => dec.next <= r.ev[m].i
        BY <3>3 DEF CallsFrom
      <4> QED BY <2>3, <3>3, <3>4, <3>6, <3>7, <4>1
    <3> QED BY <1>1, <2>1, <3>5, <3>7, <3>8, <3>9 DEF CallsInOrder
  <2>8. CallsInOrder' BY <1>1, <2>7 DEF CallsInOrder
  <2> QED BY <2>5, <2>6, <2>8
<1> QED BY <1>2, <1>3

\* The queue after its head, or nothing, is left.
LEMMA QueueShortened ==
    ASSUME NEW q \in Seq(Event), q # <<>>, NEW z, z = Tail(q) \/ z = <<>>
    PROVE  /\ AllNumbered(q) => AllNumbered(z)
           /\ \A n \in 1 .. Len(z) : n + 1 \in 1 .. Len(q) /\ z[n] = q[n + 1]
           /\ Head(q) = q[1] /\ 1 \in 1 .. Len(q)
<1>1. Len(q) \in Nat /\ Len(q) > 0 /\ Head(q) = q[1] /\ 1 \in 1 .. Len(q) OBVIOUS
<1>2. \A n \in 1 .. Len(z) : n + 1 \in 1 .. Len(q) /\ z[n] = q[n + 1]
  <2>1. CASE z = <<>> BY <2>1
  <2>2. CASE z = Tail(q) BY <2>2
  <2> QED BY <2>1, <2>2
<1> QED BY <1>1, <1>2 DEF AllNumbered

\* Relaying the next event of the queue.
LEMMA RelayEventBlocks ==
    ASSUME BlocksInv, RelayEvent
    PROVE  NumberedState' /\ BlockState' /\ CallsInOrder'
<1> DEFINE e == Head(events)
<1>0. /\ TypeOK /\ NumberedState /\ BlockState /\ CallsInOrder
      /\ events \in Seq(Event) /\ events # <<>>
  BY DEF BlocksInv, RelayInv, TypeOK, RelayEvent
<1>1. PICK r \in Restored(e) : held' = r.held /\ (Swallow(r) \/ BufferStop(r) \/ Forward(r))
  BY DEF RelayEvent
<1>2. UNCHANGED <<conf, dec, closed>> BY DEF RelayEvent
<1>3. events' = Tail(events) \/ events' = <<>>
  BY <1>1 DEF Swallow, BufferStop, Forward
<1>4. /\ AllNumbered(events')
      /\ \A n \in 1 .. Len(events') : n + 1 \in 1 .. Len(events) /\ events'[n] = events[n + 1]
      /\ e = events[1] /\ 1 \in 1 .. Len(events)
  BY <1>0, <1>3, QueueShortened DEF NumberedState
<1>5. e \in Event /\ Numbered(e)
  BY <1>0, <1>4 DEF NumberedState, AllNumbered
<1> HIDE DEF e
<1>6. /\ \A ch \in DOMAIN r.held : ch[1] \in {"text", "reason"} => ch[2] = 0
      /\ r.ev # <<>> => Numbered(r.ev[1])
      /\ ~conf.privacy => r.held = held /\ r.ev = <<e>>
  BY <1>0, <1>5, RestoredNumbered
<1>7. r.ev = <<>> \/ r.ev[1] \in Event BY <1>0, <1>5, RestoreFacts
<1>8. NumberedState' BY <1>1, <1>4, <1>6 DEF NumberedState
<1>9. (Swallow(r) \/ BufferStop(r)) => sent' = sent /\ enc' = enc
  BY DEF Swallow, BufferStop
<1>10. Forward(r) => /\ r.ev # <<>> /\ r.ev[1] \in Event /\ Numbered(r.ev[1])
                     /\ Deliver(r.ev[1]) \/ Refuse(r.ev[1])
  BY <1>6, <1>7 DEF Forward
<1>11. BlockState'
  <2>1. CASE Swallow(r) \/ BufferStop(r) BY <1>0, <1>2, <1>9, <2>1 DEF BlockState
  <2>2. CASE Forward(r) BY <1>0, <1>2, <1>10, <2>2, SendBlocks
  <2> QED BY <1>1, <2>1, <2>2
<1>12. ASSUME conf.upstream = "gemini", ~conf.privacy PROVE CallsInOrder'
  <2>0. /\ Busy = {} /\ CallsFrom(events, 0, dec.next) /\ Rising(sent)
        /\ \A n \in Starts(sent) :
             /\ sent[n].hd /\ sent[n].i < dec.next
             /\ \A m \in 1 .. Len(events) : events[m].k = "tool" => sent[n].i < events[m].i
    BY <1>0, <1>12 DEF CallsInOrder
  <2>1. Busy' = {} BY <1>1, <1>6, <1>12, <2>0 DEF Busy
  <2>2. \A m \in 1 .. Len(events') : events'[m].k = "tool" =>
          \A n \in 1 .. m : events[n].k = "tool" => events[n].i < events'[m].i
    <3> SUFFICES ASSUME NEW m \in 1 .. Len(events'), events'[m].k = "tool", NEW n \in 1 .. m,
                        events[n].k = "tool"
                 PROVE  events[n].i < events'[m].i
      OBVIOUS
    <3>1. m + 1 \in 1 .. Len(events) /\ events'[m] = events[m + 1] BY <1>4
    <3>2. n \in 1 .. (m + 1) - 1 OBVIOUS
    <3> QED BY <2>0, <3>1, <3>2 DEF CallsFrom
  <2>3. CallsFrom(events', 0, dec.next)
    <3> SUFFICES ASSUME NEW k \in 1 .. Len(events'), events'[k].k = "tool"
                 PROVE  /\ events'[k].hd /\ 0 <= events'[k].i /\ events'[k].i < dec.next
                        /\ \A m \in 1 .. k - 1 : events'[m].k = "tool" => events'[m].i < events'[k].i
      BY DEF CallsFrom
    <3>1. k + 1 \in 1 .. Len(events) /\ events'[k] = events[k + 1] BY <1>4
    <3>2. events'[k].hd /\ 0 <= events'[k].i /\ events'[k].i < dec.next
      BY <2>0, <3>1 DEF CallsFrom
    <3>3. ASSUME NEW m \in 1 .. k - 1, events'[m].k = "tool" PROVE events'[m].i < events'[k].i
      <4>1. m \in 1 .. Len(events') /\ m + 1 \in 1 .. k BY <3>1
      <4>2. events'[m] = events[m + 1] BY <1>4, <4>1
      <4> QED BY <2>2, <3>3, <4>1, <4>2
    <3> QED BY <3>2, <3>3
  <2>4. \A n \in Starts(sent) : \A m \in 1 .. Len(events') :
           events'[m].k = "tool" => sent[n].i < events'[m].i
    BY <1>4, <2>0
  <2>5. CASE sent' = sent
    BY <1>2, <2>0, <2>1, <2>3, <2>4, <2>5 DEF CallsInOrder
  <2>6. CASE Forward(r)
    <3>1. r.ev[1] = e
      <4>1. r.ev = <<e>> BY <1>6, <1>12
      <4> QED BY <4>1
    <3>2. Deliver(e) \/ Refuse(e) BY <1>10, <2>6, <3>1
    <3>3. e.k = "tool" => \A n \in Starts(sent) : sent[n].i < e.i BY <1>4, <2>0
    <3>4. /\ Rising(sent')
          /\ \A n \in Starts(sent') :
                 \/ n \in Starts(sent) /\ sent'[n] = sent[n]
                 \/ e.k = "tool" /\ sent'[n].i = e.i /\ sent'[n].hd = e.hd
      BY <1>0, <1>5, <2>0, <3>2, <3>3, SendCalls
    <3>5. e.k = "tool" => e.hd /\ e.i < dec.next BY <1>4, <2>0 DEF CallsFrom
    <3>6. e.k = "tool" => \A m \in 1 .. Len(events') : events'[m].k = "tool" => e.i < events'[m].i
      <4>1. \A m \in 1 .. Len(events') : 1 \in 1 .. m OBVIOUS
      <4> QED BY <1>4, <2>2, <4>1
    <3>7. \A n \in Starts(sent') :
             /\ sent'[n].hd /\ sent'[n].i < dec.next
             /\ \A m \in 1 .. Len(events') : events'[m].k = "tool" => sent'[n].i < events'[m].i
      BY <2>0, <2>4, <3>4, <3>5, <3>6
    <3> QED BY <1>2, <2>1, <2>3, <3>4, <3>7 DEF CallsInOrder
  <2> QED BY <1>1, <1>9, <2>5, <2>6
<1>13. CallsInOrder' BY <1>2, <1>12 DEF CallsInOrder
<1> QED BY <1>8, <1>11, <1>13

\* decoder.finish() adds no call.
LEMMA FinishBlocks ==
    ASSUME BlocksInv, FinishStream
    PROVE  NumberedState' /\ BlockState' /\ CallsInOrder'
<1>0. dec \in Decoder /\ NumberedState /\ BlockState /\ CallsInOrder
  BY DEF BlocksInv, RelayInv, TypeOK
<1>1. UNCHANGED <<conf, enc, held, events, sent, closed>> BY DEF FinishStream
<1>2. dec' = dec \/ dec' = [dec EXCEPT !.stopped = TRUE]
  BY DEF FinishStream, FinishDecoder, Fed
<1>3. dec'.next = dec.next BY <1>0, <1>2 DEF Decoder
<1> QED BY <1>0, <1>1, <1>3, BlocksKept

\* A flushed tail continues its block or reopens one; a route without
\* restorer has none.
LEMMA FlushHeldBlocks ==
    ASSUME BlocksInv, FlushHeld
    PROVE  NumberedState' /\ BlockState' /\ CallsInOrder'
<1>0. TypeOK /\ NumberedState /\ BlockState /\ CallsInOrder BY DEF BlocksInv, RelayInv
<1>1. PICK ch \in Busy :
          \/ Deliver(HeldTail(ch)) /\ held' = HoldOn(held, ch, <<>>)
          \/ Refuse(HeldTail(ch)) /\ held' = NoneHeld
  BY DEF FlushHeld
<1>2. UNCHANGED <<conf, dec, events, closed>> BY DEF FlushHeld
<1>3. HeldTail(ch) \in Event BY <1>0, HeldTailType
<1>4. ch \in DOMAIN held /\ (ch[1] \in {"text", "reason"} => ch[2] = 0)
  BY <1>0 DEF Busy, NumberedState
<1>5. Numbered(HeldTail(ch)) BY <1>4 DEF Numbered, HeldTail, Ev
<1>6. BlockState' BY <1>0, <1>1, <1>2, <1>3, <1>5, SendBlocks
<1>7. \A c \in DOMAIN held' : c[1] \in {"text", "reason"} => c[2] = 0
  <2>1. CASE held' = HoldOn(held, ch, <<>>)
    <3>1. DOMAIN held' = DOMAIN held \cup {ch} BY <2>1 DEF HoldOn
    <3> QED BY <1>0, <1>4, <3>1 DEF NumberedState
  <2>2. CASE held' = NoneHeld
    <3>1. DOMAIN held' = {<<"text", 0>>, <<"reason", 0>>} BY <2>2 DEF NoneHeld
    <3> QED BY <3>1
  <2> QED BY <1>1, <2>1, <2>2
<1>8. NumberedState' BY <1>0, <1>2, <1>7 DEF NumberedState
<1>9. CallsInOrder' BY <1>0, <1>2 DEF CallsInOrder
<1> QED BY <1>6, <1>8, <1>9

\* The terminal event is no call.
LEMMA FlushTerminalBlocks ==
    ASSUME BlocksInv, FlushTerminal
    PROVE  NumberedState' /\ BlockState' /\ CallsInOrder'
<1> DEFINE e == Head(terminal)
<1>0. TypeOK /\ NumberedState /\ BlockState /\ CallsInOrder BY DEF BlocksInv, RelayInv
<1>1. e \in Event /\ e.k = "stop"
  <2>1. terminal \in Seq(Event) /\ terminal # <<>> BY <1>0 DEF TypeOK, FlushTerminal
  <2>2. e = terminal[1] /\ 1 \in 1 .. Len(terminal) BY <2>1
  <2> QED BY <2>1, <2>2 DEF BlocksInv, RelayInv, StopPending
<1>2. Deliver(e) \/ Refuse(e) BY DEF FlushTerminal
<1> HIDE DEF e
<1>3. UNCHANGED <<conf, dec, held, events, closed>> BY DEF FlushTerminal
<1>4. Numbered(e) BY <1>1 DEF Numbered
<1>5. BlockState' BY <1>0, <1>1, <1>2, <1>3, <1>4, SendBlocks
<1>6. NumberedState' BY <1>0, <1>3 DEF NumberedState
<1>7. ASSUME conf.upstream = "gemini", ~conf.privacy PROVE CallsInOrder'
  <2>1. /\ Busy = {} /\ CallsFrom(events, 0, dec.next) /\ Rising(sent)
        /\ \A n \in Starts(sent) :
             /\ sent[n].hd /\ sent[n].i < dec.next
             /\ \A m \in 1 .. Len(events) : events[m].k = "tool" => sent[n].i < events[m].i
    BY <1>0, <1>7 DEF CallsInOrder
  <2>2. Rising(sent') /\ \A n \in Starts(sent') : n \in Starts(sent) /\ sent'[n] = sent[n]
    BY <1>0, <1>1, <1>2, <2>1, SendCalls
  <2>3. Busy' = {} BY <1>3, <2>1 DEF Busy
  <2> QED BY <1>3, <2>1, <2>2, <2>3 DEF CallsInOrder
<1>8. CallsInOrder' BY <1>3, <1>7 DEF CallsInOrder
<1> QED BY <1>5, <1>6, <1>8

\* The marker is no block.
LEMMA MarkerBlocks ==
    ASSUME BlocksInv, SendMarker
    PROVE  NumberedState' /\ BlockState' /\ CallsInOrder'
<1> DEFINE out == DoneLines(conf.client)
<1>0. TypeOK /\ NumberedState /\ BlockState /\ CallsInOrder BY DEF BlocksInv, RelayInv
<1>1. UNCHANGED <<conf, dec, enc, held, events, closed>> BY DEF SendMarker
<1>2. sent \in Seq(Line) BY <1>0 DEF TypeOK
<1>3. sent' = sent \/ sent' = sent \o out BY DEF SendMarker
<1>4. conf.client = "anthropic" => sent' = sent
  <2>1. conf.client = "anthropic" => out = <<>> BY DEF DoneLines
  <2>2. sent \o <<>> = sent BY <1>2
  <2> QED BY <1>3, <2>1, <2>2
<1>5. BlockState' BY <1>0, <1>1, <1>4 DEF BlockState
<1>6. NumberedState' BY <1>0, <1>1 DEF NumberedState
<1>7. out \in Seq(Line) /\ Starts(out) = {}
  <2>1. Bare("[DONE]") \in Line /\ Bare("[DONE]").l = "[DONE]" BY BareType DEF LineNames
  <2>2. Starts(<<Bare("[DONE]")>>) = {} /\ <<Bare("[DONE]")>> \in Seq(Line) BY <2>1, StartOne
  <2>3. Starts(<<>>) = {} /\ <<>> \in Seq(Line) BY DEF Starts
  <2> QED BY <2>2, <2>3 DEF DoneLines
<1> HIDE DEF out
<1>8. \A n \in Starts(sent') : n \in Starts(sent) /\ sent'[n] = sent[n]
  BY <1>2, <1>3, <1>7, StartsConcat
<1>9. CallsInOrder'
  <2>1. Busy' = Busy BY <1>1 DEF Busy
  <2> QED BY <1>0, <1>1, <1>8, <2>1 DEF CallsInOrder, Rising
<1> QED BY <1>5, <1>6, <1>9

\* Nothing is written and no block is open at first.
LEMMA BlocksInit == Init => BlocksInv
<1> SUFFICES ASSUME Init PROVE NumberedState /\ BlockState /\ CallsInOrder
  BY InitInv DEF BlocksInv
<1>1. events = <<>> /\ sent = <<>> /\ enc = NewEncoder /\ held = NoneHeld BY DEF Init
<1>2. /\ DOMAIN NoneHeld = {<<"text", 0>>, <<"reason", 0>>}
      /\ \A c \in DOMAIN NoneHeld : NoneHeld[c] = <<>>
  BY DEF NoneHeld
<1>3. NumberedState BY <1>1, <1>2, NumberedOne DEF NumberedState
<1>4. \A name : Before(<<>>, Len(<<>>) + 1, name) = 0
  <2> TAKE name
  <2> DEFINE s == <<>>
             R == {m \in 1 .. Len(s) + 1 - 1 : s[m].l = name}
  <2>1. R = {} OBVIOUS
  <2> HIDE DEF s
  <2>2. Before(s, Len(s) + 1, name) = Cardinality(R) BY DEF Before
  <2> HIDE DEF R
  <2>3. Before(s, Len(s) + 1, name) = 0 BY <2>1, <2>2, FS_EmptySet
  <2> QED BY <2>3 DEF s
<1>5. Matched(<<>>) BY DEF Matched
<1>6. InStep(<<>>, NewEncoder) BY <1>4 DEF InStep, NewEncoder
<1>7. BlockState BY <1>1, <1>5, <1>6 DEF BlockState
<1>8. Starts(<<>>) = {} BY DEF Starts
<1>9. Busy = {} BY <1>1, <1>2 DEF Busy
<1>10. CallsInOrder BY <1>1, <1>8, <1>9 DEF CallsInOrder, CallsFrom, Rising
<1> QED BY <1>3, <1>7, <1>10

\* Every step keeps it: one case per action.
LEMMA BlocksNext == BlocksInv /\ [Next]_vars => BlocksInv'
<1> SUFFICES ASSUME BlocksInv, [Next]_vars PROVE NumberedState' /\ BlockState' /\ CallsInOrder'
  BY NextInv DEF BlocksInv
<1>0. NumberedState /\ BlockState /\ CallsInOrder BY DEF BlocksInv
<1>1. CASE \E p \in Wire[conf.upstream] : NextPayload(p) \/ FramerRest(p)
  BY <1>1, PayloadBlocks
<1>2. CASE RelayEvent BY <1>2, RelayEventBlocks
<1>3. CASE FinishStream BY <1>3, FinishBlocks
<1>4. CASE FlushHeld BY <1>4, FlushHeldBlocks
<1>5. CASE FlushTerminal BY <1>5, FlushTerminalBlocks
<1>6. CASE SendMarker BY <1>6, MarkerBlocks
<1>7. CASE ChunkEnd \/ SkipFlush \/ FramerEmpty \/ HeldFlushed \/ TerminalFlushed
  <2>1. UNCHANGED <<conf, dec, enc, held, events, sent, closed>>
    BY <1>7 DEF ChunkEnd, SkipFlush, FramerEmpty, HeldFlushed, TerminalFlushed, Goto
  <2> QED BY <1>0, <2>1, BlocksKept
<1>8. CASE ClientClosed \/ StreamEof \/ StreamError \/ IdleTimeout
  <2>1. UNCHANGED <<conf, dec, enc, held, events, sent, closed>>
    BY <1>8 DEF ClientClosed, StreamEof, StreamError, IdleTimeout, LeaveLoop
  <2> QED BY <1>0, <2>1, BlocksKept
<1>9. CASE RecordOutcome \/ Receive \/ Disconnect \/ Finished \/ UNCHANGED vars
  <2>1. UNCHANGED <<conf, dec, enc, held, events, sent>> /\ (closed => closed')
    BY <1>9 DEF RecordOutcome, Receive, Disconnect, Finished, vars
  <2> QED BY <1>0, <2>1, BlocksKept
<1> QED
  BY <1>1, <1>2, <1>3, <1>4, <1>5, <1>6, <1>7, <1>8, <1>9 DEF Next, Upstream, Relay

\* Stream and encoder stay in step, and calls in order, at every moment.
THEOREM BlocksInvariant == Spec => []BlocksInv
BY BlocksInit, BlocksNext, PTL DEF Spec

\* The block choreography is correct on every stream: block_start and
\* block_stop alternate and are numbered in sequence, every delta lands in the
\* open block of its own channel, signatures only in thinking blocks, and
\* terminal event and error find every block closed, wherever the client
\* leaves or the upstream fails; a Gemini tool call is one whole block.
THEOREM BlocksAreWellFormed == Spec => []BlocksWellFormed
<1>1. BlocksInv => BlocksWellFormed
  <2> SUFFICES ASSUME BlocksInv PROVE BlocksWellFormed OBVIOUS
  <2>1. BlocksMatched
    <3> SUFFICES ASSUME conf.client = "anthropic", NEW n \in 1 .. Len(sent)
                 PROVE  /\ sent[n].l = "block_start" =>
                             /\ sent[n].b = Earlier(n, "block_start")
                             /\ sent[n].b = Earlier(n, "block_stop")
                        /\ sent[n].l \in {"delta", "signature", "block_stop"} =>
                             \E m \in 1 .. n :
                                /\ Within(m, n)
                                /\ sent[n].l = "delta" => ChannelOf(sent[m]) = ChannelOf(sent[n])
                                /\ sent[n].l = "signature" => sent[m].k = "reason"
                        /\ sent[n].l \in {"message_stop", "error"} =>
                             Earlier(n, "block_start") = Earlier(n, "block_stop")
      BY DEF BlocksMatched
    <3>1. LineFits(sent, n) BY DEF BlocksInv, BlockState, Matched
    <3>2. \A name : Earlier(n, name) = Before(sent, n, name) BY DEF Earlier, Before
    <3>3. \A m \in 1 .. n : Within(m, n) <=> Inside(sent, m, n) BY DEF Within, Inside
    <3> QED BY <3>1, <3>2, <3>3 DEF LineFits
  <2>2. ASSUME conf.upstream = "gemini", ~conf.privacy PROVE ToolCallsWhole
    <3>1. ToolBlocks = Starts(sent) BY DEF ToolBlocks, Starts
    <3>2. Rising(sent) /\ \A n \in Starts(sent) : sent[n].hd
      BY <2>2 DEF BlocksInv, CallsInOrder
    <3>3. \A n \in Starts(sent) : n \in Int /\ sent[n].i \in Nat
      <4>1. \A n \in Starts(sent) : n \in Int /\ sent[n] \in Line
        BY DEF BlocksInv, RelayInv, TypeOK, Starts
      <4> QED BY <4>1 DEF Line
    <3>4. ASSUME NEW m \in Starts(sent), NEW n \in Starts(sent), sent[m].i = sent[n].i PROVE m = n
      <4>1. ~(m < n) /\ ~(n < m) BY <3>2, <3>3, <3>4 DEF Rising
      <4> QED BY <3>3, <4>1
    <3> QED BY <3>1, <3>2, <3>4 DEF ToolCallsWhole
  <2> QED BY <2>1, <2>2 DEF BlocksWellFormed
<1> QED BY <1>1, BlocksInvariant, PTL
==============================================================================
