-------------------------- MODULE StreamCodecProofs --------------------------
(***************************************************************************)
(* What the relay and the conversation handler need to know of the stream  *)
(* decoders, the stream encoders and the restorer: for every payload and   *)
(* every event of their types, whatever the state.                         *)
(*                                                                         *)
(* A decoder produces at most one stop in its life (FeedStops,             *)
(* FinishStops); an encoder writes message_stop for a stop only, as its    *)
(* last line, and error for an error only (EncodeAnswer); the restorer     *)
(* swallows an event or passes on one of its kind (RestoreEventFacts).     *)
(* Content is moved along its channel (EncodeCarries, RestoreCarries), and *)
(* an Anthropic encoder keeps in step with the blocks it has written       *)
(* (EncodeInStep).                                                         *)
(***************************************************************************)
EXTENDS StreamDecoders, StreamEncoders, StreamRestorer,
        FiniteRecursion, FiniteSetTheorems, SequenceTheorems, TLAPS

\* An event built from typed parts is an event.
LEMMA EvType ==
    ASSUME NEW k \in EventKinds, NEW i \in Nat, NEW h \in BOOLEAN, NEW a \in Seq(Atom)
    PROVE  Ev(k, i, h, a) \in Event
BY DEF Ev, Event

\* The content of an event: nothing, or one atom.
LEMMA AtomSeq ==
    /\ <<>> \in Seq(Atom)
    /\ \A n, j \in Nat : <<<<n, j>>>> \in Seq(Atom)
<1>1. \A n, j \in Nat : <<n, j>> \in Atom
  BY DEF Atom
<1> QED BY <1>1

\* Events without content are events of their kind.
LEMMA PlainType ==
    ASSUME NEW k \in EventKinds
    PROVE  Plain(k) \in Event /\ Plain(k).k = k
<1>1. Plain(k) \in Event
  BY EvType, AtomSeq DEF Plain
<1> QED BY <1>1 DEF Plain, Ev

\* The decoder's last event is a stop.
LEMMA StopType ==
    ASSUME NEW d \in Decoder
    PROVE  StopEvent(d) \in Event /\ StopEvent(d).k = "stop"
<1>1. d.finish \in BOOLEAN
  BY DEF Decoder
<1>2. StopEvent(d) \in Event
  BY <1>1, EvType, AtomSeq DEF StopEvent, EventKinds
<1> QED BY <1>2 DEF StopEvent, Ev

\* finish() keeps the decoder's type and produces events.
LEMMA FinishType ==
    ASSUME NEW d \in Decoder
    PROVE  /\ FinishDecoder(d).dec \in Decoder
           /\ FinishDecoder(d).ev \in Seq(Event)
<1>2. [d EXCEPT !.stopped = TRUE] \in Decoder
  BY DEF Decoder
<1> QED BY StopType, <1>2 DEF FinishDecoder, Fed

\* The start event, if any, is an event.
LEMMA StartType ==
    ASSUME NEW d \in Decoder
    PROVE  StartOnce(d) \in Seq(Event)
<1>1. Plain("start") \in Event
  BY PlainType DEF EventKinds
<1> QED BY <1>1 DEF StartOnce

\* Parts of a payload a provider can send have their types.
LEMMA PartType ==
    ASSUME NEW p \in Payload, NEW j \in 1 .. Len(p.parts)
    PROVE  /\ p.parts[j].k \in ContentKinds
           /\ p.parts[j].i \in Nat
           /\ p.parts[j].hd \in BOOLEAN
           /\ p.parts[j].c \in BOOLEAN
<1>1. p.parts[j] \in Part
  BY DEF Payload
<1> QED BY <1>1 DEF Part

\* A content part of an OpenAI chunk becomes one event that is no stop.
LEMMA OpenAIPartType ==
    ASSUME NEW d \in Decoder, NEW p \in Payload, NEW n \in Nat, NEW j \in 1 .. Len(p.parts)
    PROVE  OpenAIPart(d, p, n, j) \in Event
<1> DEFINE q == p.parts[j]
           first == /\ q.i \notin d.seen
                    /\ \A m \in 1 .. j - 1 : p.parts[m].k = "tool" => p.parts[m].i # q.i
           i == IF q.k = "tool" THEN q.i ELSE 0
           h == q.k = "tool" /\ q.hd /\ first
           a == IF q.c \/ q.k # "tool" THEN <<<<n, j>>>> ELSE <<>>
<1>1. i \in Nat BY PartType
<1>2. h \in BOOLEAN OBVIOUS
<1>3. a \in Seq(Atom)
  <2>1. j \in Nat BY DEF Payload
  <2> QED BY <2>1, AtomSeq
<1>4. q.k \in EventKinds BY PartType DEF EventKinds
<1> HIDE DEF i, h, a, q
<1>5. Ev(q.k, i, h, a) \in Event BY <1>1, <1>2, <1>3, <1>4, EvType
<1> QED BY <1>5 DEF OpenAIPart, q, i, h, a

IsStop(s, n) == s[n].k = "stop"

\* What the relay needs to know of the outcome r of feeding a decoder in
\* state d: at most one stop is produced, only by a decoder that has not
\* stopped yet, and it stops the decoder.
StopsOnce(d, r) ==
    /\ r.dec \in Decoder
    /\ r.ev \in Seq(Event)
    /\ d.stopped => r.dec.stopped
    /\ \A n \in 1 .. Len(r.ev) : IsStop(r.ev, n) =>
          /\ ~d.stopped
          /\ r.dec.stopped
          /\ \A m \in 1 .. Len(r.ev) : IsStop(r.ev, m) => m = n

\* A decoder that produces nothing keeps the one-stop contract.
LEMMA NoEvents ==
    ASSUME NEW d \in Decoder, NEW c \in Decoder, d.stopped => c.stopped
    PROVE  StopsOnce(d, Fed(c, <<>>))
BY DEF StopsOnce, Fed

\* So does one that produces a single event, a stop only if it was not stopped.
LEMMA OneEvent ==
    ASSUME NEW d \in Decoder, NEW c \in Decoder, NEW e \in Event,
           d.stopped => c.stopped,
           e.k = "stop" => ~d.stopped /\ c.stopped
    PROVE  StopsOnce(d, Fed(c, <<e>>))
<1> DEFINE r == Fed(c, <<e>>)
<1>1. r.dec = c /\ r.ev = <<e>> BY DEF Fed
<1> HIDE DEF r
<1>2. <<e>> \in Seq(Event) /\ Len(<<e>>) = 1 /\ <<e>>[1] = e OBVIOUS
<1>3. \A n \in 1 .. Len(r.ev) : n = 1 BY <1>1, <1>2
<1>4. StopsOnce(d, r) BY <1>1, <1>2, <1>3 DEF StopsOnce, IsStop
<1> QED BY <1>4 DEF r

\* An error payload keeps the contract.
LEMMA ErrorStops ==
    ASSUME NEW d \in Decoder
    PROVE  StopsOnce(d, ErrorPayload(d))
<1>1. [d EXCEPT !.failed = TRUE] \in Decoder /\ [d EXCEPT !.failed = TRUE].stopped = d.stopped
  BY DEF Decoder
<1>2. Plain("error") \in Event /\ Plain("error").k = "error"
  BY PlainType DEF EventKinds
<1> QED BY <1>1, <1>2, OneEvent DEF ErrorPayload

\* The decoder state after it has produced its stop.
LEMMA StoppedType ==
    ASSUME NEW d \in Decoder
    PROVE  [d EXCEPT !.stopped = TRUE] \in Decoder /\ [d EXCEPT !.stopped = TRUE].stopped
BY DEF Decoder

\* finish() keeps the contract and produces a stop or nothing.
LEMMA FinishStops ==
    ASSUME NEW d \in Decoder
    PROVE  /\ StopsOnce(d, FinishDecoder(d))
           /\ FinishDecoder(d).ev = <<>> \/ FinishDecoder(d).ev = <<StopEvent(d)>>
<1>1. CASE ~d.started \/ d.failed \/ d.stopped
  <2>1. FinishDecoder(d) = Fed(d, <<>>) BY <1>1 DEF FinishDecoder
  <2> QED BY <2>1, NoEvents DEF Fed
<1>2. CASE ~(~d.started \/ d.failed \/ d.stopped)
  <2>1. FinishDecoder(d) = Fed([d EXCEPT !.stopped = TRUE], <<StopEvent(d)>>)
    BY <1>2 DEF FinishDecoder
  <2>2. StopsOnce(d, FinishDecoder(d))
    BY <1>2, <2>1, StopType, StoppedType, OneEvent
  <2> QED BY <2>1, <2>2 DEF Fed
<1> QED BY <1>1, <1>2

\* The OpenAI decoder keeps the contract on every chunk.
LEMMA OpenAIStops ==
    ASSUME NEW d \in Decoder, NEW p \in Payload, NEW n \in Nat
    PROVE  StopsOnce(d, FeedOpenAI(d, p, n))
<1> DEFINE evs == [j \in 1 .. Len(p.parts) |-> OpenAIPart(d, p, n, j)]
           r == FeedOpenAI(d, p, n)
<1>1. CASE p.t = "error"
  BY <1>1, ErrorStops DEF FeedOpenAI
<1>2. CASE p.t # "error" /\ p.t # "content"
  BY <1>2, NoEvents DEF FeedOpenAI
<1>3. CASE p.t = "content"
  <2>1. ToolIndices(p.parts) \in SUBSET Nat
    <3>1. \A m \in 1 .. Len(p.parts) : p.parts[m].i \in Nat BY PartType
    <3> QED BY <3>1 DEF ToolIndices
  <2>2. r.dec \in Decoder /\ r.dec.stopped = d.stopped
    <3>1. p.fin \in BOOLEAN BY DEF Payload
    <3> QED BY <1>3, <2>1, <3>1 DEF FeedOpenAI, Fed, Decoder
  <2>3. r.ev = StartOnce(d) \o evs
    BY <1>3 DEF FeedOpenAI, Fed
  <2>4. Len(p.parts) \in Nat BY DEF Payload
  <2>5. evs \in Seq(Event) /\ Len(evs) = Len(p.parts)
    BY <2>4, OpenAIPartType
  <2>6. \A j \in 1 .. Len(evs) : evs[j].k # "stop"
    <3>1. \A j \in 1 .. Len(p.parts) : evs[j].k = p.parts[j].k
      BY DEF OpenAIPart, Ev
    <3> QED BY <3>1, <2>5, PartType DEF ContentKinds
  <2>7. StartOnce(d) \in Seq(Event) /\ \A j \in 1 .. Len(StartOnce(d)) : StartOnce(d)[j].k # "stop"
    BY StartType DEF StartOnce, Plain, Ev
  <2> HIDE DEF evs, r
  <2>8. r.ev \in Seq(Event) /\ \A j \in 1 .. Len(r.ev) : r.ev[j].k # "stop"
    BY <2>3, <2>5, <2>6, <2>7
  <2> QED BY <2>2, <2>8 DEF StopsOnce, IsStop, r
<1> QED BY <1>1, <1>2, <1>3

\* The Anthropic decoder keeps the contract on every event.
LEMMA AnthropicStops ==
    ASSUME NEW d \in Decoder, NEW p \in Sendable("anthropic"), NEW n \in Nat
    PROVE  StopsOnce(d, FeedAnthropic(d, p, n))
<1> DEFINE r == FeedAnthropic(d, p, n)
<1>0. p \in Payload /\ p.t \in PayloadTypes BY DEF Sendable, Payload
<1>1. CASE p.t = "message_start"
  <2>1. r = Fed([d EXCEPT !.started = TRUE], <<Plain("start")>>)
    BY <1>1 DEF FeedAnthropic
  <2>2. Plain("start") \in Event /\ Plain("start").k = "start"
    BY PlainType DEF EventKinds
  <2>3. /\ [d EXCEPT !.started = TRUE] \in Decoder
        /\ [d EXCEPT !.started = TRUE].stopped = d.stopped
    BY DEF Decoder
  <2> QED BY <2>1, <2>2, <2>3, OneEvent
<1>2. CASE p.t = "content"
  <2>1. r = Fed(d, <<AnthropicPart(p, n)>>)
    BY <1>2 DEF FeedAnthropic
  <2>2. 1 \in 1 .. Len(p.parts)
    <3>1. Len(p.parts) = 1 BY <1>2 DEF Sendable
    <3> QED BY <3>1
  <2>3. AnthropicPart(p, n) \in Event /\ AnthropicPart(p, n).k # "stop"
    <3> DEFINE q == p.parts[1]
               i == IF q.k = "tool" THEN q.i ELSE 0
               h == q.k = "tool" /\ ~q.c /\ q.hd
               a == IF q.c \/ q.k # "tool" THEN <<<<n, 1>>>> ELSE <<>>
    <3>1. q.k \in ContentKinds /\ i \in Nat BY <1>0, <2>2, PartType
    <3>2. h \in BOOLEAN OBVIOUS
    <3>3. a \in Seq(Atom) BY AtomSeq
    <3>4. AnthropicPart(p, n) = Ev(q.k, i, h, a) BY DEF AnthropicPart
    <3> HIDE DEF q, i, h, a
    <3>5. Ev(q.k, i, h, a) \in Event BY <3>1, <3>2, <3>3, EvType DEF EventKinds
    <3> QED BY <3>1, <3>4, <3>5 DEF Ev, ContentKinds
  <2> QED BY <2>1, <2>3, OneEvent
<1>3. CASE p.t = "signature"
  <2>1. r = Fed(d, <<Ev("signature", 0, FALSE, <<<<n, 1>>>>)>>)
    BY <1>3 DEF FeedAnthropic
  <2>2. Ev("signature", 0, FALSE, <<<<n, 1>>>>) \in Event
    BY EvType, AtomSeq DEF EventKinds
  <2>3. Ev("signature", 0, FALSE, <<<<n, 1>>>>).k # "stop"
    BY DEF Ev
  <2> QED BY <2>1, <2>2, <2>3, OneEvent
<1>4. CASE p.t = "message_delta"
  <2>1. r = Fed([d EXCEPT !.finish = TRUE], <<>>)
    BY <1>4 DEF FeedAnthropic
  <2>2. /\ [d EXCEPT !.finish = TRUE] \in Decoder
        /\ [d EXCEPT !.finish = TRUE].stopped = d.stopped
    BY DEF Decoder
  <2> QED BY <2>1, <2>2, NoEvents
<1>5. CASE p.t = "message_stop" /\ d.stopped
  BY <1>5, NoEvents DEF FeedAnthropic
<1>6. CASE p.t = "message_stop" /\ ~d.stopped
  <2>1. r = Fed([d EXCEPT !.stopped = TRUE], <<StopEvent(d)>>)
    BY <1>6 DEF FeedAnthropic
  <2> QED BY <1>6, <2>1, StopType, StoppedType, OneEvent
<1>7. CASE p.t = "error"
  BY <1>7, ErrorStops DEF FeedAnthropic
<1>8. CASE p.t \in {"[DONE]", "ignored"}
  BY <1>8, NoEvents DEF FeedAnthropic
<1> QED BY <1>0, <1>1, <1>2, <1>3, <1>4, <1>5, <1>6, <1>7, <1>8 DEF PayloadTypes

\* A Gemini part becomes events that are no stops.
LEMMA GeminiPartType ==
    ASSUME NEW d \in Decoder, NEW p \in Payload, NEW n \in Nat, NEW j \in 1 .. Len(p.parts)
    PROVE  GeminiPart(d, p, n, j) \in Event /\ GeminiPart(d, p, n, j).k # "stop"
<1> DEFINE q == p.parts[j]
           earlier == {m \in 1 .. j - 1 : p.parts[m].k = "tool"}
<1>0. j \in Nat BY DEF Payload
<1>1. Cardinality(earlier) \in Nat
  <2>1. IsFiniteSet(1 .. j - 1) BY <1>0, FS_Interval
  <2>2. earlier \subseteq 1 .. j - 1 OBVIOUS
  <2>3. IsFiniteSet(earlier) BY <2>1, <2>2, FS_Subset
  <2> QED BY <2>3, FS_CardinalityType
<1>2. d.next \in Nat BY DEF Decoder
<1>3. q.k \in ContentKinds BY PartType
<1> HIDE DEF earlier
<1>4. d.next + Cardinality(earlier) \in Nat BY <1>1, <1>2
<1>5. <<<<n, j>>>> \in Seq(Atom) BY <1>0, AtomSeq
<1>6. CASE q.k = "tool"
  <2>1. GeminiPart(d, p, n, j) = Ev("tool", d.next + Cardinality(earlier), TRUE, <<<<n, j>>>>)
    BY <1>6 DEF GeminiPart, earlier
  <2>2. Ev("tool", d.next + Cardinality(earlier), TRUE, <<<<n, j>>>>) \in Event
    BY <1>4, <1>5, EvType DEF EventKinds, ContentKinds
  <2> QED BY <2>1, <2>2 DEF Ev
<1>7. CASE q.k # "tool"
  <2>1. GeminiPart(d, p, n, j) = Ev(q.k, 0, FALSE, <<<<n, j>>>>)
    BY <1>7 DEF GeminiPart
  <2>2. Ev(q.k, 0, FALSE, <<<<n, j>>>>) \in Event
    BY <1>3, <1>5, EvType DEF EventKinds
  <2>3. Ev(q.k, 0, FALSE, <<<<n, j>>>>).k = q.k BY DEF Ev
  <2> QED BY <1>3, <2>1, <2>2, <2>3 DEF ContentKinds
<1> QED BY <1>6, <1>7

\* The Gemini decoder keeps the contract on every chunk.
LEMMA GeminiStops ==
    ASSUME NEW d \in Decoder, NEW p \in Payload, NEW n \in Nat
    PROVE  StopsOnce(d, FeedGemini(d, p, n))
<1> DEFINE evs == [j \in 1 .. Len(p.parts) |-> GeminiPart(d, p, n, j)]
           calls == {m \in 1 .. Len(p.parts) : p.parts[m].k = "tool"}
           finish == d.finish \/ p.fin
           stop == finish /\ ~d.stopped
           c == [d EXCEPT !.started = TRUE, !.finish = finish, !.stopped = @ \/ stop,
                          !.next = @ + Cardinality(calls)]
           last == IF stop THEN <<Ev("stop", 0, finish, <<>>)>> ELSE <<>>
           r == FeedGemini(d, p, n)
<1>1. CASE p.t = "error"
  BY <1>1, ErrorStops DEF FeedGemini
<1>2. CASE p.t # "error" /\ p.t # "content"
  BY <1>2, NoEvents DEF FeedGemini
<1>3. CASE p.t = "content"
  <2>0. Len(p.parts) \in Nat BY DEF Payload
  <2>1. Cardinality(calls) \in Nat
    <3>1. IsFiniteSet(1 .. Len(p.parts)) BY <2>0, FS_Interval
    <3>2. calls \subseteq 1 .. Len(p.parts) OBVIOUS
    <3>3. IsFiniteSet(calls) BY <3>1, <3>2, FS_Subset
    <3> QED BY <3>3, FS_CardinalityType
  <2>2. r.dec = c /\ r.ev = StartOnce(d) \o evs \o last
    BY <1>3 DEF FeedGemini, Fed
  <2>3. finish \in BOOLEAN /\ stop \in BOOLEAN OBVIOUS
  <2>4. c \in Decoder /\ c.stopped = (d.stopped \/ stop)
    <3> DEFINE st == d.stopped \/ stop
    <3>1. st \in BOOLEAN OBVIOUS
    <3>2. d.next + Cardinality(calls) \in Nat BY <2>1 DEF Decoder
    <3> HIDE DEF finish, stop, calls, st
    <3>3. c = [d EXCEPT !.started = TRUE, !.finish = finish, !.stopped = st,
                        !.next = d.next + Cardinality(calls)]
      BY DEF st, Decoder
    <3> HIDE DEF c
    <3>4. c.stopped = st BY <3>3 DEF Decoder
    <3>5. c \in Decoder BY <2>3, <3>1, <3>2, <3>3 DEF Decoder
    <3> QED BY <3>4, <3>5 DEF st
  <2>5. evs \in Seq(Event) /\ Len(evs) = Len(p.parts)
    BY <2>0, GeminiPartType
  <2>6. \A j \in 1 .. Len(evs) : evs[j].k # "stop"
    BY <2>5, GeminiPartType
  <2>7. /\ StartOnce(d) \in Seq(Event)
        /\ \A j \in 1 .. Len(StartOnce(d)) : StartOnce(d)[j].k # "stop"
    BY StartType DEF StartOnce, Plain, Ev
  <2>8. last \in Seq(Event) /\ Len(last) \in {0, 1} /\ (Len(last) = 1 <=> stop)
    <3>1. Ev("stop", 0, finish, <<>>) \in Event
      BY <2>3, EvType, AtomSeq DEF EventKinds
    <3> QED BY <3>1
  <2> DEFINE pre == StartOnce(d) \o evs
  <2> HIDE DEF evs, r, c, last, stop, finish
  <2>9. pre \in Seq(Event) /\ \A j \in 1 .. Len(pre) : pre[j].k # "stop"
    BY <2>5, <2>6, <2>7
  <2>10. r.ev = pre \o last BY <2>2 DEF pre
  <2> HIDE DEF pre
  <2>11. /\ r.ev \in Seq(Event)
         /\ Len(r.ev) = Len(pre) + Len(last)
         /\ Len(pre) \in Nat
         /\ \A j \in 1 .. Len(pre) : r.ev[j] = pre[j]
    BY <2>8, <2>9, <2>10
  <2>12. \A j \in 1 .. Len(r.ev) : r.ev[j].k = "stop" => j = Len(pre) + 1 /\ stop
    <3>1. SUFFICES ASSUME NEW j \in 1 .. Len(r.ev), r.ev[j].k = "stop"
                   PROVE  j = Len(pre) + 1 /\ stop
      OBVIOUS
    <3>2. j \notin 1 .. Len(pre) BY <2>9, <2>11, <3>1
    <3>3. Len(r.ev) = Len(pre) + Len(last) /\ Len(last) \in {0, 1} /\ Len(pre) \in Nat
      BY <2>8, <2>11
    <3>4. \A a \in Nat, b \in {0, 1} : \A m \in 1 .. a + b :
              m \notin 1 .. a => m = a + 1 /\ b = 1
      OBVIOUS
    <3>5. j \in 1 .. Len(pre) + Len(last) BY <3>1, <3>3, Zenon
    <3>6. j = Len(pre) + 1 /\ Len(last) = 1 BY <3>2, <3>3, <3>4, <3>5, Zenon
    <3> QED BY <2>8, <3>6, Zenon
  <2>13. stop => ~d.stopped BY DEF stop
  <2>14. StopsOnce(d, r) BY <2>2, <2>4, <2>11, <2>12, <2>13 DEF StopsOnce, IsStop
  <2> QED BY <2>14 DEF r
<1> QED BY <1>1, <1>2, <1>3

\* Every decoder, on every payload its upstream can send.
LEMMA FeedStops ==
    ASSUME NEW u \in Upstreams, NEW d \in Decoder, NEW p \in Sendable(u), NEW n \in Nat
    PROVE  StopsOnce(d, Feed(u, d, p, n))
<1>1. p \in Payload BY DEF Sendable
<1>2. CASE u = "openai" BY <1>1, <1>2, OpenAIStops DEF Feed
<1>3. CASE u = "anthropic" BY <1>1, <1>3, AnthropicStops DEF Feed
<1>4. CASE u = "gemini" BY <1>1, <1>4, GeminiStops DEF Feed
<1> QED BY <1>2, <1>3, <1>4 DEF Upstreams

HasKind(s, kind) == \E n \in 1 .. Len(s) : s[n].k = kind

\* What the outcome r of feeding a decoder in state d shows of its flags: a
\* failure and a stop are announced by their events.
Announced(d, r) ==
    /\ r.dec.failed => d.failed \/ HasKind(r.ev, "error")
    /\ r.dec.stopped => d.stopped \/ HasKind(r.ev, "stop")

\* What a decoder of one event has.
LEMMA OneKind ==
    ASSUME NEW e, NEW kind
    PROVE  HasKind(<<e>>, kind) <=> e.k = kind
<1>1. Len(<<e>>) = 1 /\ <<e>>[1] = e
  OBVIOUS
<1>2. \A n \in 1 .. Len(<<e>>) : n = 1
  BY <1>1
<1>3. 1 \in 1 .. Len(<<e>>)
  BY <1>1
<1> QED BY <1>1, <1>2, <1>3 DEF HasKind

\* And none.
LEMMA NoKind == \A kind : ~HasKind(<<>>, kind)
BY DEF HasKind

\* An error payload announces the failure.
LEMMA ErrorAnnounced ==
    ASSUME NEW d \in Decoder
    PROVE  LET r == ErrorPayload(d)
           IN  r.dec.failed /\ r.dec.stopped = d.stopped
                 /\ HasKind(r.ev, "error") /\ ~HasKind(r.ev, "stop")
<1>1. Plain("error").k = "error"
  BY PlainType DEF EventKinds
<1>2. HasKind(<<Plain("error")>>, "error") /\ ~HasKind(<<Plain("error")>>, "stop")
  BY <1>1, OneKind
<1>3. [d EXCEPT !.failed = TRUE].failed /\ [d EXCEPT !.failed = TRUE].stopped = d.stopped
  BY DEF Decoder
<1> QED BY <1>2, <1>3 DEF ErrorPayload, Fed

\* The OpenAI decoder announces its failure and never stops by itself.
LEMMA OpenAIAnnounced ==
    ASSUME NEW d \in Decoder, NEW p \in Payload, NEW n \in Nat
    PROVE  LET r == FeedOpenAI(d, p, n)
           IN  /\ r.dec.stopped = d.stopped
               /\ r.dec.failed <=> d.failed \/ HasKind(r.ev, "error")
               /\ ~HasKind(r.ev, "stop")
<1> DEFINE evs == [j \in 1 .. Len(p.parts) |-> OpenAIPart(d, p, n, j)]
           r == FeedOpenAI(d, p, n)
<1>1. CASE p.t = "error"
  <2>1. r = ErrorPayload(d) BY <1>1 DEF FeedOpenAI
  <2> QED BY <2>1, ErrorAnnounced
<1>2. CASE p.t # "error" /\ p.t # "content"
  <2>1. r.dec = d /\ r.ev = <<>> BY <1>2 DEF FeedOpenAI, Fed
  <2> QED BY <2>1, NoKind
<1>3. CASE p.t = "content"
  <2>1. r.dec.failed = d.failed /\ r.dec.stopped = d.stopped
    BY <1>3 DEF FeedOpenAI, Fed, Decoder
  <2>2. r.ev = StartOnce(d) \o evs
    BY <1>3 DEF FeedOpenAI, Fed
  <2>3. Len(p.parts) \in Nat BY DEF Payload
  <2>4. evs \in Seq(Event) /\ Len(evs) = Len(p.parts)
    BY <2>3, OpenAIPartType
  <2>5. \A j \in 1 .. Len(evs) : evs[j].k \notin {"stop", "error"}
    <3>1. \A j \in 1 .. Len(p.parts) : evs[j].k = p.parts[j].k
      BY DEF OpenAIPart, Ev
    <3> QED BY <3>1, <2>4, PartType DEF ContentKinds
  <2>6. /\ StartOnce(d) \in Seq(Event)
        /\ \A j \in 1 .. Len(StartOnce(d)) : StartOnce(d)[j].k \notin {"stop", "error"}
    BY StartType DEF StartOnce, Plain, Ev
  <2> HIDE DEF evs, r
  <2>7. \A j \in 1 .. Len(r.ev) : r.ev[j].k \notin {"stop", "error"}
    BY <2>2, <2>4, <2>5, <2>6
  <2> QED BY <2>1, <2>7 DEF HasKind, r
<1> QED BY <1>1, <1>2, <1>3

\* So does the Anthropic decoder, which also announces its stop.
LEMMA AnthropicAnnounced ==
    ASSUME NEW d \in Decoder, NEW p \in Sendable("anthropic"), NEW n \in Nat
    PROVE  Announced(d, FeedAnthropic(d, p, n))
<1> DEFINE r == FeedAnthropic(d, p, n)
<1>0. p.t \in PayloadTypes BY DEF Sendable, Payload
<1>1. CASE p.t \in {"message_start", "content", "signature", "message_delta", "[DONE]", "ignored"}
  <2>1. r.dec.failed = d.failed /\ r.dec.stopped = d.stopped
    BY <1>1 DEF FeedAnthropic, Fed, Decoder
  <2> QED BY <2>1 DEF Announced
<1>2. CASE p.t = "message_stop" /\ d.stopped
  <2>1. r.dec = d BY <1>2 DEF FeedAnthropic, Fed
  <2> QED BY <2>1 DEF Announced
<1>3. CASE p.t = "message_stop" /\ ~d.stopped
  <2>1. r.dec = [d EXCEPT !.stopped = TRUE] /\ r.ev = <<StopEvent(d)>>
    BY <1>3 DEF FeedAnthropic, Fed
  <2>2. HasKind(r.ev, "stop") BY <2>1, StopType, OneKind
  <2>3. r.dec.failed = d.failed BY <2>1 DEF Decoder
  <2> QED BY <2>2, <2>3 DEF Announced
<1>4. CASE p.t = "error"
  <2>1. r = ErrorPayload(d) BY <1>4 DEF FeedAnthropic
  <2> QED BY <2>1, ErrorAnnounced DEF Announced
<1> QED BY <1>0, <1>1, <1>2, <1>3, <1>4 DEF PayloadTypes

\* And the Gemini decoder.
LEMMA GeminiAnnounced ==
    ASSUME NEW d \in Decoder, NEW p \in Payload, NEW n \in Nat
    PROVE  Announced(d, FeedGemini(d, p, n))
<1> DEFINE evs == [j \in 1 .. Len(p.parts) |-> GeminiPart(d, p, n, j)]
           finish == d.finish \/ p.fin
           stop == finish /\ ~d.stopped
           last == IF stop THEN <<Ev("stop", 0, finish, <<>>)>> ELSE <<>>
           r == FeedGemini(d, p, n)
<1>1. CASE p.t = "error"
  <2>1. r = ErrorPayload(d) BY <1>1 DEF FeedGemini
  <2> QED BY <2>1, ErrorAnnounced DEF Announced
<1>2. CASE p.t # "error" /\ p.t # "content"
  <2>1. r.dec = d BY <1>2 DEF FeedGemini, Fed
  <2> QED BY <2>1 DEF Announced
<1>3. CASE p.t = "content"
  <2>1. r.dec.failed = d.failed /\ (r.dec.stopped => d.stopped \/ stop)
    BY <1>3 DEF FeedGemini, Fed, Decoder
  <2>2. r.ev = (StartOnce(d) \o evs) \o last
    BY <1>3 DEF FeedGemini, Fed
  <2>3. Len(p.parts) \in Nat BY DEF Payload
  <2>4. evs \in Seq(Event) BY <2>3, GeminiPartType
  <2> DEFINE pre == StartOnce(d) \o evs
  <2> HIDE DEF evs
  <2>5. pre \in Seq(Event) BY <2>4, StartType
  <2>6. stop => HasKind(r.ev, "stop")
    <3> SUFFICES ASSUME stop PROVE HasKind(r.ev, "stop") OBVIOUS
    <3> DEFINE x == Ev("stop", 0, finish, <<>>)
    <3>1. last = <<x>> OBVIOUS
    <3>2. x.k = "stop" /\ x \in Event
      <4>1. finish \in BOOLEAN OBVIOUS
      <4> QED BY <4>1, EvType, AtomSeq DEF Ev, EventKinds
    <3> HIDE DEF x, last, pre, r
    <3>3. r.ev = pre \o <<x>> BY <2>2, <3>1 DEF pre
    <3>4. Len(pre) + 1 \in 1 .. Len(r.ev) /\ r.ev[Len(pre) + 1] = x
      BY <2>5, <3>2, <3>3
    <3> QED BY <3>2, <3>4 DEF HasKind
  <2> QED BY <2>1, <2>6 DEF Announced
<1> QED BY <1>1, <1>2, <1>3

\* Every decoder announces failure and stop, on every payload.
LEMMA FeedAnnounced ==
    ASSUME NEW u \in Upstreams, NEW d \in Decoder, NEW p \in Sendable(u), NEW n \in Nat
    PROVE  Announced(d, Feed(u, d, p, n))
<1>1. p \in Payload BY DEF Sendable
<1>2. CASE u = "openai" BY <1>1, <1>2, OpenAIAnnounced DEF Feed, Announced
<1>3. CASE u = "anthropic" BY <1>1, <1>3, AnthropicAnnounced DEF Feed
<1>4. CASE u = "gemini" BY <1>1, <1>4, GeminiAnnounced DEF Feed
<1> QED BY <1>2, <1>3, <1>4 DEF Upstreams
-------------------------------------------------------------------------------
(* Which lines the encoders write. *)

AllNamed(out, names) == \A n \in 1 .. Len(out) : out[n].l \in names

BlockNames == {"signature", "block_stop", "block_start", "delta"}

\* A line built from typed parts is a line of its name.
LEMMA LnType ==
    ASSUME NEW l \in LineNames, NEW b \in Nat, NEW k \in EventKinds \cup {"none"},
           NEW i \in Nat, NEW h \in BOOLEAN, NEW a \in Seq(Atom)
    PROVE  Ln(l, b, k, i, h, a) \in Line /\ Ln(l, b, k, i, h, a).l = l
<1>1. Ln(l, b, k, i, h, a) \in Line BY DEF Ln, Line
<1> QED BY <1>1 DEF Ln

\* A line without content is a line of its name.
LEMMA BareType ==
    ASSUME NEW l \in LineNames
    PROVE  Bare(l) \in Line /\ Bare(l).l = l
<1>1. "none" \in EventKinds \cup {"none"} OBVIOUS
<1>2. 0 \in Nat /\ FALSE \in BOOLEAN /\ <<>> \in Seq(Atom) BY AtomSeq
<1> QED BY <1>1, <1>2, LnType, Zenon DEF Bare

\* Names of concatenated lines.
LEMMA ConcatNamed ==
    ASSUME NEW a \in Seq(Line), NEW b \in Seq(Line), NEW N,
           AllNamed(a, N), AllNamed(b, N)
    PROVE  a \o b \in Seq(Line) /\ AllNamed(a \o b, N)
BY DEF AllNamed

\* Names of a single line.
LEMMA OneNamed ==
    ASSUME NEW x \in Line, NEW N, x.l \in N
    PROVE  <<x>> \in Seq(Line) /\ AllNamed(<<x>>, N)
<1>1. <<x>> \in Seq(Line) /\ Len(<<x>>) = 1 /\ <<x>>[1] = x OBVIOUS
<1>2. \A n \in 1 .. Len(<<x>>) : n = 1 BY <1>1
<1> QED BY <1>1, <1>2 DEF AllNamed

\* No lines have any names.
LEMMA NoLines ==
    ASSUME NEW N
    PROVE  <<>> \in Seq(Line) /\ AllNamed(<<>>, N)
BY DEF AllNamed

\* The fields of an event.
LEMMA EventFields ==
    ASSUME NEW e \in Event
    PROVE  /\ e.k \in EventKinds /\ e.i \in Nat /\ e.hd \in BOOLEAN /\ e.a \in Seq(Atom)
BY DEF Event

\* The fields of an encoder state.
LEMMA EncoderFields ==
    ASSUME NEW s \in Encoder
    PROVE  /\ s.cur \in ContentKinds \cup {"none"} /\ s.idx \in Nat /\ s.sig \in Seq(Atom)
           /\ s.tools \in SUBSET Nat /\ s.open \in SUBSET Nat
BY DEF Encoder

\* Closing a block writes nothing but signature and block_stop.
LEMMA CloseFacts ==
    ASSUME NEW s \in Encoder
    PROVE  /\ CloseBlock(s).enc \in Encoder
           /\ CloseBlock(s).out \in Seq(Line)
           /\ AllNamed(CloseBlock(s).out, {"signature", "block_stop"})
<1> DEFINE N == {"signature", "block_stop"}
           sig == Ln("signature", s.idx, "signature", 0, FALSE, s.sig)
           stop == Ln("block_stop", s.idx, "none", 0, FALSE, <<>>)
           pre == IF s.cur = "reason" /\ s.sig # <<>> THEN <<sig>> ELSE <<>>
           t == [s EXCEPT !.cur = "none",
                     !.idx = @ + 1,
                     !.sig = IF s.cur = "reason" THEN <<>> ELSE @,
                     !.tools = IF s.cur = "tool" THEN @ \ s.open ELSE @,
                     !.open = IF s.cur = "tool" THEN {} ELSE @]
<1>1. CASE s.cur = "none"
  BY <1>1, NoLines DEF CloseBlock, Encoded
<1>2. CASE s.cur # "none"
  <2>1. sig \in Line /\ sig.l = "signature"
    <3>1. "signature" \in LineNames /\ "signature" \in EventKinds \cup {"none"}
      BY DEF LineNames, EventKinds
    <3>2. s.idx \in Nat /\ s.sig \in Seq(Atom) /\ 0 \in Nat /\ FALSE \in BOOLEAN
      BY EncoderFields
    <3> QED BY <3>1, <3>2 DEF Ln, Line
  <2>2. stop \in Line /\ stop.l = "block_stop"
    <3>1. "block_stop" \in LineNames /\ "none" \in EventKinds \cup {"none"}
      BY DEF LineNames
    <3>2. s.idx \in Nat /\ <<>> \in Seq(Atom) /\ 0 \in Nat /\ FALSE \in BOOLEAN
      BY EncoderFields, AtomSeq
    <3> QED BY <3>1, <3>2 DEF Ln, Line
  <2>3. CloseBlock(s).enc = t /\ CloseBlock(s).out = pre \o <<stop>>
    BY <1>2 DEF CloseBlock, Encoded
  <2>4. t \in Encoder
    <3> DEFINE f == IF s.cur = "reason" THEN <<>> ELSE s.sig
               g == IF s.cur = "tool" THEN s.tools \ s.open ELSE s.tools
               h == IF s.cur = "tool" THEN {} ELSE s.open
    <3>1. f \in Seq(Atom) /\ g \in SUBSET Nat /\ h \in SUBSET Nat /\ s.idx + 1 \in Nat
      BY EncoderFields, AtomSeq
    <3>2. t = [s EXCEPT !.cur = "none", !.idx = s.idx + 1, !.sig = f, !.tools = g, !.open = h]
      BY DEF Encoder
    <3> HIDE DEF f, g, h, t
    <3> QED BY <3>1, <3>2 DEF Encoder
  <2> HIDE DEF sig, stop, t
  <2>5. <<sig>> \in Seq(Line) /\ AllNamed(<<sig>>, N) BY <2>1, OneNamed
  <2>6. <<stop>> \in Seq(Line) /\ AllNamed(<<stop>>, N) BY <2>2, OneNamed
  <2>7. pre \in Seq(Line) /\ AllNamed(pre, N) BY <2>5, NoLines
  <2> HIDE DEF pre, N
  <2>8. pre \o <<stop>> \in Seq(Line) /\ AllNamed(pre \o <<stop>>, N)
    BY <2>6, <2>7, ConcatNamed
  <2> QED BY <2>3, <2>4, <2>8 DEF N
<1> QED BY <1>1, <1>2

\* A larger set of names.
LEMMA Widen ==
    ASSUME NEW a, NEW N, NEW M, AllNamed(a, N), N \subseteq M
    PROVE  AllNamed(a, M)
BY DEF AllNamed

\* Opening a block writes nothing but block lines.
LEMMA OpenFacts ==
    ASSUME NEW s \in Encoder, NEW e \in Event, e.k \in ContentKinds
    PROVE  /\ OpenBlock(s, e).enc \in Encoder
           /\ OpenBlock(s, e).out \in Seq(Line)
           /\ AllNamed(OpenBlock(s, e).out, BlockNames)
<1> DEFINE c == CloseBlock(s)
           x == Ln("block_start", c.enc.idx, e.k, e.i, e.hd, <<>>)
           t == [c.enc EXCEPT !.cur = e.k,
                              !.tools = IF e.k = "tool" THEN @ \cup {e.i} ELSE @,
                              !.open = IF e.k = "tool" THEN {e.i} ELSE @]
<1>1. /\ c.enc \in Encoder /\ c.out \in Seq(Line)
      /\ AllNamed(c.out, {"signature", "block_stop"})
  BY CloseFacts
<1>2. AllNamed(c.out, BlockNames) BY <1>1, Widen DEF BlockNames
<1> HIDE DEF c
<1>3. x \in Line /\ x.l = "block_start"
  <2>1. "block_start" \in LineNames /\ e.k \in EventKinds \cup {"none"}
    BY EventFields DEF LineNames
  <2>2. c.enc.idx \in Nat /\ e.i \in Nat /\ e.hd \in BOOLEAN /\ <<>> \in Seq(Atom)
    BY <1>1, EncoderFields, EventFields, AtomSeq
  <2> QED BY <2>1, <2>2 DEF Ln, Line
<1>4. t \in Encoder BY <1>1, EncoderFields, EventFields DEF Encoder
<1>5. OpenBlock(s, e).enc = t /\ OpenBlock(s, e).out = c.out \o <<x>>
  BY DEF OpenBlock, Encoded, c
<1> HIDE DEF x, t
<1>6. <<x>> \in Seq(Line) /\ AllNamed(<<x>>, BlockNames) BY <1>3, OneNamed DEF BlockNames
<1> QED BY <1>1, <1>2, <1>4, <1>5, <1>6, ConcatNamed

\* Text, reasoning and tool calls write nothing but block lines.
LEMMA ContentFacts ==
    ASSUME NEW s \in Encoder, NEW e \in Event, e.k \in ContentKinds
    PROVE  /\ EncodeTextual(s, e).enc \in Encoder
           /\ EncodeTextual(s, e).out \in Seq(Line)
           /\ AllNamed(EncodeTextual(s, e).out, BlockNames)
           /\ EncodeToolCall(s, e).enc \in Encoder
           /\ EncodeToolCall(s, e).out \in Seq(Line)
           /\ AllNamed(EncodeToolCall(s, e).out, BlockNames)
<1> DEFINE Good(o) == /\ o.enc \in Encoder /\ o.out \in Seq(Line)
                      /\ AllNamed(o.out, BlockNames)
<1>1. Good(Encoded(s, <<>>)) BY NoLines DEF Encoded
<1>2. Good(OpenBlock(s, e)) BY OpenFacts
<1>3. ASSUME NEW o, Good(o)
      PROVE  /\ Good(Encoded(o.enc, o.out \o <<Delta(o.enc, e)>>))
             /\ Good(Encoded(o.enc, o.out \o <<>>))
  <2>1. Delta(o.enc, e) \in Line /\ Delta(o.enc, e).l = "delta"
    <3>1. "delta" \in LineNames /\ e.k \in EventKinds \cup {"none"}
      BY EventFields DEF LineNames
    <3>2. o.enc.idx \in Nat /\ e.i \in Nat /\ FALSE \in BOOLEAN /\ e.a \in Seq(Atom)
      BY <1>3, EncoderFields, EventFields
    <3> QED BY <3>1, <3>2 DEF Delta, Ln, Line
  <2>2. /\ <<Delta(o.enc, e)>> \in Seq(Line)
        /\ AllNamed(<<Delta(o.enc, e)>>, BlockNames)
    BY <2>1, OneNamed DEF BlockNames
  <2>3. /\ o.out \o <<Delta(o.enc, e)>> \in Seq(Line)
        /\ AllNamed(o.out \o <<Delta(o.enc, e)>>, BlockNames)
    BY <1>3, <2>2, ConcatNamed
  <2>4. o.out \o <<>> \in Seq(Line) /\ AllNamed(o.out \o <<>>, BlockNames)
    BY <1>3, NoLines, ConcatNamed
  <2> QED BY <1>3, <2>3, <2>4 DEF Encoded
<1> HIDE DEF Good
<1>4. Good(EncodeTextual(s, e))
  <2>1. CASE s.cur = e.k BY <1>1, <1>3, <2>1 DEF EncodeTextual
  <2>2. CASE s.cur # e.k BY <1>2, <1>3, <2>2 DEF EncodeTextual
  <2> QED BY <2>1, <2>2
<1>5. Good(EncodeToolCall(s, e))
  <2>1. CASE e.i \in s.tools BY <1>1, <1>3, <2>1 DEF EncodeToolCall
  <2>2. CASE e.i \notin s.tools BY <1>2, <1>3, <2>2 DEF EncodeToolCall
  <2> QED BY <2>1, <2>2
<1> QED BY <1>4, <1>5 DEF Good

\* The line names an encoder may write for an event, whatever the client.
NamesFor(e) ==
    CASE e.k = "start" -> {"message_start"}
      [] e.k \in ContentKinds -> BlockNames
      [] e.k = "signature" -> {}
      [] e.k = "stop" -> {"signature", "block_stop", "message_delta", "message_stop"}
      [] e.k = "error" -> {"signature", "block_stop", "error"}

\* The shape of an encoder's answer o to event e.
Answer(o, e) ==
    /\ o.enc \in Encoder
    /\ o.out \in Seq(Line)
    /\ AllNamed(o.out, NamesFor(e))
    /\ \A n \in 1 .. Len(o.out) : o.out[n].l = "message_stop" => n = Len(o.out)

\* An answer to anything but a stop holds no message_stop.
LEMMA QuietAnswer ==
    ASSUME NEW t \in Encoder, NEW e, NEW out \in Seq(Line),
           AllNamed(out, NamesFor(e)), e.k # "stop", e.k \in EventKinds
    PROVE  Answer(Encoded(t, out), e)
<1>1. "message_stop" \notin NamesFor(e)
  BY DEF NamesFor, BlockNames, EventKinds, ContentKinds
<1>2. \A n \in 1 .. Len(out) : out[n].l # "message_stop"
  BY <1>1 DEF AllNamed
<1> QED BY <1>2 DEF Answer, Encoded

\* What the OpenAI encoder writes for each event.
LEMMA OpenAIAnswer ==
    ASSUME NEW s \in Encoder, NEW e \in Event
    PROVE  Answer(EncodeOpenAI(s, e), e)
<1>0. e.k \in EventKinds BY EventFields
<1>1. CASE e.k = "start"
  <2>1. EncodeOpenAI(s, e) = Encoded(s, <<Bare("message_start")>>)
    BY <1>1 DEF EncodeOpenAI, ContentKinds
  <2>2. Bare("message_start") \in Line /\ Bare("message_start").l = "message_start"
    BY BareType DEF LineNames
  <2>3. NamesFor(e) = {"message_start"} BY <1>1 DEF NamesFor, ContentKinds
  <2> QED BY <1>0, <1>1, <2>1, <2>2, <2>3, OneNamed, QuietAnswer
<1>2. CASE e.k \in ContentKinds
  <2> DEFINE x == Ln("delta", 0, e.k, e.i, e.hd, e.a)
  <2>1. EncodeOpenAI(s, e) = Encoded(s, <<x>>)
    BY <1>2 DEF EncodeOpenAI, ContentKinds
  <2>2. x \in Line /\ x.l = "delta"
    BY EventFields DEF Ln, Line, LineNames
  <2>3. "delta" \in NamesFor(e) BY <1>2 DEF NamesFor, ContentKinds, BlockNames
  <2>4. e.k # "stop" BY <1>2 DEF ContentKinds
  <2> HIDE DEF x
  <2> QED BY <1>0, <2>1, <2>2, <2>3, <2>4, OneNamed, QuietAnswer
<1>3. CASE e.k = "signature"
  <2>1. EncodeOpenAI(s, e) = Encoded(s, <<>>)
    BY <1>3 DEF EncodeOpenAI, ContentKinds
  <2> QED BY <1>0, <1>3, <2>1, NoLines, QuietAnswer
<1>4. CASE e.k = "stop"
  <2> DEFINE x == Ln("message_stop", 0, "none", 0, e.hd, <<>>)
  <2>1. EncodeOpenAI(s, e).enc = s /\ EncodeOpenAI(s, e).out = <<x>>
    BY <1>4 DEF EncodeOpenAI, ContentKinds, Encoded
  <2>2. x \in Line /\ x.l = "message_stop"
    BY EventFields, AtomSeq DEF Ln, Line, LineNames
  <2>3. "message_stop" \in NamesFor(e) BY <1>4 DEF NamesFor, ContentKinds
  <2> HIDE DEF x
  <2>4. <<x>> \in Seq(Line) /\ AllNamed(<<x>>, NamesFor(e)) BY <2>2, <2>3, OneNamed
  <2>5. \A n \in 1 .. Len(<<x>>) : n = Len(<<x>>) OBVIOUS
  <2> QED BY <2>1, <2>4, <2>5 DEF Answer
<1>5. CASE e.k = "error"
  <2>1. EncodeOpenAI(s, e) = Encoded(s, <<Bare("error")>>)
    BY <1>5 DEF EncodeOpenAI, ContentKinds
  <2>2. Bare("error") \in Line /\ Bare("error").l = "error"
    BY BareType DEF LineNames
  <2>3. "error" \in NamesFor(e) BY <1>5 DEF NamesFor, ContentKinds
  <2> QED BY <1>0, <1>5, <2>1, <2>2, <2>3, OneNamed, QuietAnswer
<1> QED BY <1>0, <1>1, <1>2, <1>3, <1>4, <1>5 DEF EventKinds

\* What the Anthropic encoder writes for each event.
LEMMA AnthropicAnswer ==
    ASSUME NEW s \in Encoder, NEW e \in Event
    PROVE  Answer(EncodeAnthropic(s, e), e)
<1> DEFINE c == CloseBlock(s)
<1>0. e.k \in EventKinds BY EventFields
<1>c. /\ c.enc \in Encoder /\ c.out \in Seq(Line)
      /\ AllNamed(c.out, {"signature", "block_stop"})
  BY CloseFacts
<1>1. CASE e.k = "start"
  <2>1. EncodeAnthropic(s, e) = Encoded(s, <<Bare("message_start")>>)
    BY <1>1 DEF EncodeAnthropic
  <2>2. Bare("message_start") \in Line /\ Bare("message_start").l = "message_start"
    BY BareType DEF LineNames
  <2>3. NamesFor(e) = {"message_start"} BY <1>1 DEF NamesFor, ContentKinds
  <2> QED BY <1>0, <1>1, <2>1, <2>2, <2>3, OneNamed, QuietAnswer
<1>2. CASE e.k \in ContentKinds
  <2>1. EncodeAnthropic(s, e) = IF e.k = "tool" THEN EncodeToolCall(s, e) ELSE EncodeTextual(s, e)
    BY <1>2 DEF EncodeAnthropic, ContentKinds
  <2>2. NamesFor(e) = BlockNames BY <1>2 DEF NamesFor, ContentKinds
  <2>3. /\ EncodeAnthropic(s, e).enc \in Encoder
        /\ EncodeAnthropic(s, e).out \in Seq(Line)
        /\ AllNamed(EncodeAnthropic(s, e).out, NamesFor(e))
    BY <1>2, <2>1, <2>2, ContentFacts
  <2>4. \A n \in 1 .. Len(EncodeAnthropic(s, e).out) :
           EncodeAnthropic(s, e).out[n].l # "message_stop"
    BY <2>2, <2>3 DEF AllNamed, BlockNames
  <2> QED BY <2>3, <2>4 DEF Answer
<1>3. CASE e.k = "signature"
  <2>1. EncodeAnthropic(s, e) = Encoded([s EXCEPT !.sig = e.a], <<>>)
    BY <1>3 DEF EncodeAnthropic
  <2>2. [s EXCEPT !.sig = e.a] \in Encoder BY EventFields DEF Encoder
  <2> QED BY <1>0, <1>3, <2>1, <2>2, NoLines, QuietAnswer
<1>4. CASE e.k = "stop"
  <2> DEFINE x == Ln("message_delta", 0, "none", 0, e.hd, <<>>)
             y == Bare("message_stop")
             o == EncodeAnthropic(s, e)
  <2>1. o.enc = c.enc /\ o.out = c.out \o <<x, y>>
    BY <1>4 DEF EncodeAnthropic, Encoded
  <2>2. x \in Line /\ x.l = "message_delta"
    BY EventFields, AtomSeq DEF Ln, Line, LineNames
  <2>3. y \in Line /\ y.l = "message_stop" BY BareType DEF LineNames
  <2>4. NamesFor(e) = {"signature", "block_stop", "message_delta", "message_stop"}
    BY <1>4 DEF NamesFor, ContentKinds
  <2> HIDE DEF c, o, x, y
  <2>5. /\ o.out \in Seq(Line)
        /\ Len(o.out) = Len(c.out) + 2
        /\ Len(c.out) \in Nat
        /\ \A n \in 1 .. Len(c.out) : o.out[n] = c.out[n]
        /\ o.out[Len(c.out) + 1] = x
        /\ o.out[Len(c.out) + 2] = y
    BY <1>c, <2>1, <2>2, <2>3
  <2>6. \A n \in 1 .. Len(o.out) :
           \/ n \in 1 .. Len(c.out)
           \/ n = Len(c.out) + 1
           \/ n = Len(o.out) /\ n = Len(c.out) + 2
    BY <2>5
  <2>7. AllNamed(o.out, NamesFor(e))
    BY <1>c, <2>2, <2>3, <2>4, <2>5, <2>6 DEF AllNamed
  <2>8. \A n \in 1 .. Len(o.out) : o.out[n].l = "message_stop" => n = Len(o.out)
    BY <1>c, <2>2, <2>5, <2>6 DEF AllNamed
  <2>9. Answer(o, e) BY <1>c, <2>1, <2>5, <2>7, <2>8 DEF Answer
  <2> QED BY <2>9 DEF o
<1>5. CASE e.k = "error"
  <2>1. EncodeAnthropic(s, e) = Encoded(c.enc, c.out \o <<Bare("error")>>)
    BY <1>5 DEF EncodeAnthropic
  <2>2. Bare("error") \in Line /\ Bare("error").l = "error"
    BY BareType DEF LineNames
  <2>3. NamesFor(e) = {"signature", "block_stop", "error"}
    BY <1>5 DEF NamesFor, ContentKinds
  <2> HIDE DEF c
  <2>4. AllNamed(c.out, NamesFor(e)) BY <1>c, <2>3, Widen
  <2>5. <<Bare("error")>> \in Seq(Line) /\ AllNamed(<<Bare("error")>>, NamesFor(e))
    BY <2>2, <2>3, OneNamed
  <2>6. /\ c.out \o <<Bare("error")>> \in Seq(Line)
        /\ AllNamed(c.out \o <<Bare("error")>>, NamesFor(e))
    BY <1>c, <2>4, <2>5, ConcatNamed
  <2> QED BY <1>0, <1>c, <1>5, <2>1, <2>6, QuietAnswer
<1> QED BY <1>0, <1>1, <1>2, <1>3, <1>4, <1>5 DEF EventKinds

\* Either encoder answers an event with the lines that event allows.
LEMMA EncodeAnswer ==
    ASSUME NEW client, NEW s \in Encoder, NEW e \in Event
    PROVE  Answer(Encode(client, s, e), e)
BY OpenAIAnswer, AnthropicAnswer DEF Encode
-------------------------------------------------------------------------------
(* The restorer. *)

HeldType(h) == DOMAIN h \subseteq ChannelIds /\ h \in [DOMAIN h -> Seq(Atom)]

\* Holding text on a channel keeps the restorer's type.
LEMMA HoldType ==
    ASSUME NEW h, HeldType(h), NEW ch \in ChannelIds, NEW a \in Seq(Atom)
    PROVE  HeldType(HoldOn(h, ch, a))
BY DEF HeldType, HoldOn

\* The initial channels have their types.
LEMMA EmptyHeld == HeldType(NoneHeld)
<1>1. <<"text", 0>> \in ChannelIds /\ <<"reason", 0>> \in ChannelIds
  BY DEF ChannelIds, ContentKinds
<1> QED BY <1>1, AtomSeq DEF HeldType, NoneHeld

\* The restorer swallows an event or passes on one of the same kind.
LEMMA RestoreEventFacts ==
    ASSUME NEW held, HeldType(held), NEW e \in Event, NEW r \in RestoreEvent(held, e)
    PROVE  /\ HeldType(r.held)
           /\ \/ r.ev = <<>>
              \/ /\ r.ev \in Seq(Event) /\ Len(r.ev) = 1
                 /\ r.ev[1] \in Event /\ r.ev[1].k = e.k
<1>2. <<e>> \in Seq(Event) /\ Len(<<e>>) = 1 /\ <<e>>[1] = e OBVIOUS
<1>3. CASE e.k \notin ContentKinds
  <2>1. r.held = held /\ r.ev = <<e>> BY <1>3 DEF RestoreEvent
  <2> QED BY <1>2, <2>1
<1>4. CASE e.k \in ContentKinds
  <2> DEFINE ch == ChannelOf(e)
             all == HeldOn(held, ch) \o e.a
  <2>1. ch \in ChannelIds BY <1>4, EventFields DEF ChannelOf, ChannelIds
  <2>2. HeldOn(held, ch) \in Seq(Atom) BY AtomSeq DEF HeldOn, HeldType
  <2>3. all \in Seq(Atom) BY <2>2, EventFields
  <2>4. PICK n \in 0 .. Len(all) :
          /\ r.held = HoldOn(held, ch, SubSeq(all, n + 1, Len(all)))
          /\ r.ev = IF n = 0 /\ ~e.hd THEN <<>> ELSE <<[e EXCEPT !.a = SubSeq(all, 1, n)]>>
    <3> DEFINE R(n) == [held |-> HoldOn(held, ch, SubSeq(all, n + 1, Len(all))),
                        ev |-> IF n = 0 /\ ~e.hd THEN <<>>
                               ELSE <<[e EXCEPT !.a = SubSeq(all, 1, n)]>>]
    <3>2. r \in {R(n) : n \in 0 .. Len(all)} BY <1>4, Zenon DEF RestoreEvent
    <3>3. PICK n \in 0 .. Len(all) : r = R(n) BY <3>2
    <3> QED BY <3>3
  <2> HIDE DEF all, ch
  <2>5. SubSeq(all, n + 1, Len(all)) \in Seq(Atom) /\ SubSeq(all, 1, n) \in Seq(Atom)
    BY <2>3
  <2>6. HeldType(r.held) BY <2>1, <2>4, <2>5, HoldType
  <2> DEFINE x == [e EXCEPT !.a = SubSeq(all, 1, n)]
  <2>7. x \in Event /\ x.k = e.k BY <2>5 DEF Event
  <2>8. r.ev = <<>> \/ r.ev = <<x>> BY <2>4
  <2> HIDE DEF x
  <2>9. <<x>> \in Seq(Event) /\ Len(<<x>>) = 1 /\ <<x>>[1] = x BY <2>7
  <2> QED BY <2>6, <2>7, <2>8, <2>9
<1> QED BY <1>3, <1>4

-------------------------------------------------------------------------------
(* The content of a channel. *)

\* What one event or one line carries on channel ch.
Carried(x, ch) == IF x.k \in ContentKinds /\ ChannelOf(x) = ch THEN x.a ELSE <<>>

\* T: events or lines.
CarryText(T) == \A x \in T : x.a \in Seq(Atom)

\* Events and lines both carry text.
LEMMA BothCarry == CarryText(Event) /\ CarryText(Line)
BY DEF CarryText, Event, Line

\* What one element carries is text.
LEMMA CarriedType ==
    ASSUME NEW T, CarryText(T), NEW x \in T, NEW ch
    PROVE  Carried(x, ch) \in Seq(Atom)
BY AtomSeq DEF Carried, CarryText

\* Three texts in a row.
LEMMA TextAssociative ==
    ASSUME NEW a \in Seq(Atom), NEW b \in Seq(Atom), NEW c \in Seq(Atom)
    PROVE  (a \o b) \o c = a \o (b \o c)
BY ConcatAssociative

\* OnChannel collects the parts one after the other.
LEMMA OnChannelLoop ==
    ASSUME NEW T, CarryText(T), NEW s \in Seq(T), NEW ch
    PROVE  \E f \in [0 .. Len(s) -> Seq(Atom)] :
             /\ f[0] = <<>>
             /\ \A k \in 1 .. Len(s) : f[k] = f[k - 1] \o Carried(s[k], ch)
             /\ OnChannel(s, ch) = f[Len(s)]
<1> DEFINE N == Len(s)
           sel[n \in 0 .. Len(s)] ==
             IF n = 0 THEN <<>>
             ELSE IF s[n].k \in ContentKinds /\ ChannelOf(s[n]) = ch
                  THEN sel[n - 1] \o s[n].a
                  ELSE sel[n - 1]
           Body(g) == [n \in 0 .. Len(s) |->
                         IF n = 0 THEN <<>>
                         ELSE IF s[n].k \in ContentKinds /\ ChannelOf(s[n]) = ch
                              THEN g[n - 1] \o s[n].a
                              ELSE g[n - 1]]
           step == [x \in (1 .. N) \X Seq(Atom) |-> x[2] \o Carried(s[x[1]], ch)]
<1>1. OnChannel(s, ch) = sel[Len(s)] BY DEF OnChannel
<1>2. sel = CHOOSE g : g = Body(g) OBVIOUS
<1>3. N \in Nat OBVIOUS
<1>4. \A k \in 1 .. N : Carried(s[k], ch) \in Seq(Atom)
  <2> TAKE k \in 1 .. N
  <2>1. s[k] \in T OBVIOUS
  <2> QED BY <2>1, CarriedType
<1>5. step \in [(1 .. N) \X Seq(Atom) -> Seq(Atom)]
  <2>1. ASSUME NEW x \in (1 .. N) \X Seq(Atom) PROVE x[2] \o Carried(s[x[1]], ch) \in Seq(Atom)
    <3>1. x[2] \in Seq(Atom) /\ Carried(s[x[1]], ch) \in Seq(Atom) BY <1>4
    <3> QED BY <3>1
  <2> QED BY <2>1
<1> HIDE DEF sel
<1>6. PICK f \in [0 .. N -> Seq(Atom)] :
        f[0] = <<>> /\ \A k \in 1 .. N : f[k] = step[<<k, f[k - 1]>>]
  <2> DEFINE V == Seq(Atom)
             z == <<>>
  <2>1. z \in V BY AtomSeq
  <2>2. step \in [(1 .. N) \X V -> V] BY <1>5
  <2> HIDE DEF step, N, Body, V, z
  <2>3. \E f \in [0 .. N -> V] : IsLoop(f, N, z, step)
    BY <1>3, <2>1, <2>2, LoopExists, Zenon
  <2> QED BY <2>3, Zenon DEF V, z, IsLoop
<1>7. ASSUME NEW k \in 1 .. N PROVE f[k] = f[k - 1] \o Carried(s[k], ch)
  <2>1. f[k - 1] \in Seq(Atom) BY <1>3
  <2>2. <<k, f[k - 1]>> \in (1 .. N) \X Seq(Atom) BY <2>1
  <2>3. step[<<k, f[k - 1]>>] = f[k - 1] \o Carried(s[k], ch) BY <2>2
  <2> QED BY <1>6, <2>3
<1>8. f = Body(f)
  <2>1. ASSUME NEW n \in 0 .. N PROVE f[n] = Body(f)[n]
    <3>1. CASE n = 0 BY <1>6, <3>1
    <3>2. CASE n # 0
      <4>1. n \in 1 .. N /\ n - 1 \in 0 .. N BY <1>3, <3>2
      <4>2. f[n] = f[n - 1] \o Carried(s[n], ch) BY <1>7, <4>1
      <4>3. f[n - 1] \in Seq(Atom) BY <4>1
      <4>4. f[n - 1] \o <<>> = f[n - 1] BY <4>3
      <4> QED BY <3>2, <4>1, <4>2, <4>4 DEF Carried
    <3> QED BY <3>1, <3>2
  <2> QED BY <2>1
<1>9. sel = Body(sel)
  <2> HIDE DEF Body
  <2> QED BY <1>2, <1>8
<1> HIDE DEF step
<1>10. N \in {m \in 0 .. N : sel[m] = f[m]}
  <2> DEFINE S == {m \in 0 .. N : sel[m] = f[m]}
  <2>0. \A m \in 0 .. N : sel[m] = Body(sel)[m] /\ f[m] = Body(f)[m] BY <1>8, <1>9
  <2>1. 0 \in S BY <1>3, <2>0
  <2>2. ASSUME NEW k \in 1 .. N, k - 1 \in S PROVE k \in S
    <3>1. k \in 0 .. N /\ k # 0 /\ sel[k - 1] = f[k - 1] BY <1>3, <2>2
    <3>2. Body(sel)[k] = Body(f)[k] BY <3>1
    <3>3. sel[k] = f[k]
      <4> HIDE DEF Body
      <4> QED BY <2>0, <3>1, <3>2
    <3> QED BY <3>1, <3>3
  <2> HIDE DEF S
  <2>3. 0 .. N \subseteq S BY <1>3, <2>1, <2>2, InductiveSet
  <2> QED BY <1>3, <2>3 DEF S
<1> QED BY <1>1, <1>6, <1>7, <1>10

\* What a channel carries is text.
LEMMA OnChannelType ==
    ASSUME NEW T, CarryText(T), NEW s \in Seq(T), NEW ch
    PROVE  OnChannel(s, ch) \in Seq(Atom)
<1>1. PICK f \in [0 .. Len(s) -> Seq(Atom)] : OnChannel(s, ch) = f[Len(s)]
  BY OnChannelLoop
<1>2. Len(s) \in 0 .. Len(s) OBVIOUS
<1> QED BY <1>1, <1>2

\* An empty sequence carries nothing.
LEMMA NothingOnChannel == \A ch : OnChannel(<<>>, ch) = <<>>
<1> TAKE ch
<1>1. <<>> \in Seq(Event) /\ Len(<<>>) = 0 OBVIOUS
<1>2. PICK f \in [0 .. Len(<<>>) -> Seq(Atom)] :
        f[0] = <<>> /\ OnChannel(<<>>, ch) = f[Len(<<>>)]
  BY <1>1, BothCarry, OnChannelLoop
<1> QED BY <1>1, <1>2

\* One element carries its part.
LEMMA OneOnChannel ==
    ASSUME NEW T, CarryText(T), NEW x \in T, NEW ch
    PROVE  OnChannel(<<x>>, ch) = Carried(x, ch)
<1>1. <<x>> \in Seq(T) /\ Len(<<x>>) = 1 /\ <<x>>[1] = x OBVIOUS
<1>2. PICK f \in [0 .. Len(<<x>>) -> Seq(Atom)] :
        /\ f[0] = <<>>
        /\ \A k \in 1 .. Len(<<x>>) : f[k] = f[k - 1] \o Carried(<<x>>[k], ch)
        /\ OnChannel(<<x>>, ch) = f[Len(<<x>>)]
  BY <1>1, OnChannelLoop
<1>3. 1 \in 1 .. Len(<<x>>) /\ 1 - 1 = 0 BY <1>1
<1>4. f[1] = f[0] \o Carried(x, ch) BY <1>1, <1>2, <1>3
<1>5. <<>> \o Carried(x, ch) = Carried(x, ch) BY CarriedType
<1> QED BY <1>1, <1>2, <1>4, <1>5

\* A channel of a concatenation carries what its parts carry, in order.
LEMMA OnChannelConcat ==
    ASSUME NEW T, CarryText(T), NEW s \in Seq(T), NEW t \in Seq(T), NEW ch
    PROVE  OnChannel(s \o t, ch) = OnChannel(s, ch) \o OnChannel(t, ch)
<1> DEFINE A == Seq(Atom)
           M == Len(s)
           N == Len(t)
           u == s \o t
<1>1. M \in Nat /\ N \in Nat /\ u \in Seq(T) /\ Len(u) = M + N OBVIOUS
<1>2. PICK f \in [0 .. M -> A] :
        /\ f[0] = <<>> /\ OnChannel(s, ch) = f[M]
        /\ \A k \in 1 .. M : f[k] = f[k - 1] \o Carried(s[k], ch)
  BY OnChannelLoop
<1>3. PICK g \in [0 .. N -> A] :
        /\ g[0] = <<>> /\ OnChannel(t, ch) = g[N]
        /\ \A k \in 1 .. N : g[k] = g[k - 1] \o Carried(t[k], ch)
  BY OnChannelLoop
<1>4. PICK h \in [0 .. Len(u) -> A] :
        /\ h[0] = <<>> /\ OnChannel(u, ch) = h[Len(u)]
        /\ \A k \in 1 .. Len(u) : h[k] = h[k - 1] \o Carried(u[k], ch)
  BY <1>1, OnChannelLoop
<1>5. \A k \in 1 .. M : k \in 1 .. Len(u) /\ u[k] = s[k] BY <1>1
<1>6. \A k \in 1 .. N : M + k \in 1 .. Len(u) /\ u[M + k] = t[k] /\ (M + k) - 1 = M + (k - 1)
  BY <1>1
<1>7. \A k \in 1 .. N : Carried(t[k], ch) \in A
  <2> TAKE k \in 1 .. N
  <2>1. t[k] \in T OBVIOUS
  <2> QED BY <2>1, CarriedType
<1> HIDE DEF A, M, N, u
<1>8. h[M] = f[M]
  <2> DEFINE S == {k \in 0 .. M : h[k] = f[k]}
  <2>1. 0 \in S BY <1>1, <1>2, <1>4
  <2>2. ASSUME NEW k \in 1 .. M, k - 1 \in S PROVE k \in S
    <3>1. h[k - 1] = f[k - 1] /\ k \in 0 .. M BY <1>1, <2>2
    <3>2. h[k] = h[k - 1] \o Carried(u[k], ch) /\ f[k] = f[k - 1] \o Carried(s[k], ch)
      BY <1>2, <1>4, <1>5
    <3> QED BY <1>5, <3>1, <3>2
  <2> HIDE DEF S
  <2>3. 0 .. M \subseteq S BY <1>1, <2>1, <2>2, InductiveSet
  <2> QED BY <1>1, <2>3 DEF S
<1>9. f[M] \in A BY <1>1, <1>2
<1>10. h[M + N] = f[M] \o g[N]
  <2> DEFINE S == {k \in 0 .. N : h[M + k] = f[M] \o g[k]}
  <2>1. 0 \in S
    <3>1. f[M] \o <<>> = f[M] BY <1>9 DEF A
    <3>2. M + 0 = M /\ 0 \in 0 .. N BY <1>1
    <3>3. h[M + 0] = f[M] \o g[0] BY <1>3, <1>8, <3>1, <3>2
    <3> QED BY <3>2, <3>3
  <2>2. ASSUME NEW k \in 1 .. N, k - 1 \in S PROVE k \in S
    <3>1. h[M + (k - 1)] = f[M] \o g[k - 1] /\ k \in 0 .. N /\ k - 1 \in 0 .. N
      BY <1>1, <2>2
    <3>2. h[M + k] = h[M + (k - 1)] \o Carried(t[k], ch) BY <1>4, <1>6
    <3>3. g[k] = g[k - 1] \o Carried(t[k], ch) BY <1>3
    <3>4. g[k - 1] \in A /\ Carried(t[k], ch) \in A BY <1>3, <1>7, <3>1
    <3>5. (f[M] \o g[k - 1]) \o Carried(t[k], ch) = f[M] \o (g[k - 1] \o Carried(t[k], ch))
      BY <1>9, <3>4, TextAssociative, Zenon DEF A
    <3> QED BY <3>1, <3>2, <3>3, <3>5
  <2> HIDE DEF S
  <2>3. 0 .. N \subseteq S BY <1>1, <2>1, <2>2, InductiveSet
  <2> QED BY <1>1, <2>3 DEF S
<1>11. OnChannel(u, ch) = OnChannel(s, ch) \o OnChannel(t, ch) BY <1>1, <1>2, <1>3, <1>4, <1>10
<1> QED BY <1>11 DEF u

\* One more element.
LEMMA OnChannelAppend ==
    ASSUME NEW T, CarryText(T), NEW s \in Seq(T), NEW x \in T, NEW ch
    PROVE  OnChannel(s \o <<x>>, ch) = OnChannel(s, ch) \o Carried(x, ch)
<1>1. <<x>> \in Seq(T) OBVIOUS
<1>2. OnChannel(<<x>>, ch) = Carried(x, ch) BY OneOnChannel
<1>3. OnChannel(s \o <<x>>, ch) = OnChannel(s, ch) \o OnChannel(<<x>>, ch)
  <2> DEFINE t == <<x>>
  <2>1. t \in Seq(T) BY <1>1
  <2> HIDE DEF t
  <2>2. OnChannel(s \o t, ch) = OnChannel(s, ch) \o OnChannel(t, ch) BY <2>1, OnChannelConcat
  <2> QED BY <2>2 DEF t
<1> QED BY <1>2, <1>3

\* The first element and the rest.
LEMMA OnChannelHead ==
    ASSUME NEW T, CarryText(T), NEW s \in Seq(T), s # <<>>, NEW ch
    PROVE  /\ Head(s) \in T /\ Tail(s) \in Seq(T)
           /\ OnChannel(s, ch) = Carried(Head(s), ch) \o OnChannel(Tail(s), ch)
<1>1. Head(s) \in T /\ Tail(s) \in Seq(T) /\ s = <<Head(s)>> \o Tail(s) BY HeadTailProperties
<1>2. <<Head(s)>> \in Seq(T) BY <1>1
<1>3. OnChannel(<<Head(s)>> \o Tail(s), ch) = OnChannel(<<Head(s)>>, ch) \o OnChannel(Tail(s), ch)
  <2> DEFINE h == <<Head(s)>>
             t == Tail(s)
  <2>1. h \in Seq(T) /\ t \in Seq(T) BY <1>1, <1>2
  <2> HIDE DEF h, t
  <2>2. OnChannel(h \o t, ch) = OnChannel(h, ch) \o OnChannel(t, ch) BY <2>1, OnChannelConcat
  <2> QED BY <2>2 DEF h, t
<1>4. OnChannel(<<Head(s)>>, ch) = Carried(Head(s), ch) BY <1>1, OneOnChannel
<1> QED BY <1>1, <1>3, <1>4

\* Lines without text.
Quiet(out) ==
    out \in Seq(Line) /\ \A n \in 1 .. Len(out) : out[n].k \notin ContentKinds \/ out[n].a = <<>>

\* Lines without text carry nothing.
LEMMA QuietNothing ==
    ASSUME NEW out, Quiet(out), NEW ch
    PROVE  OnChannel(out, ch) = <<>>
<1> DEFINE N == Len(out)
<1>1. out \in Seq(Line) /\ N \in Nat BY DEF Quiet
<1>2. PICK f \in [0 .. N -> Seq(Atom)] :
        /\ f[0] = <<>> /\ OnChannel(out, ch) = f[N]
        /\ \A k \in 1 .. N : f[k] = f[k - 1] \o Carried(out[k], ch)
  BY <1>1, BothCarry, OnChannelLoop
<1>3. \A k \in 1 .. N : Carried(out[k], ch) = <<>> BY DEF Quiet, Carried
<1> HIDE DEF N
<1> DEFINE S == {k \in 0 .. N : f[k] = <<>>}
<1>4. 0 \in S BY <1>1, <1>2
<1>5. ASSUME NEW k \in 1 .. N, k - 1 \in S PROVE k \in S
  <2>1. f[k - 1] = <<>> /\ k \in 0 .. N BY <1>1, <1>5
  <2>2. f[k] = <<>> \o <<>> BY <1>2, <1>3, <2>1
  <2> QED BY <2>1, <2>2
<1> HIDE DEF S
<1>6. 0 .. N \subseteq S BY <1>1, <1>4, <1>5, InductiveSet
<1> QED BY <1>1, <1>2, <1>6 DEF S

\* Two quiet sequences in a row are quiet.
LEMMA QuietConcat ==
    ASSUME NEW a, NEW b, Quiet(a), Quiet(b)
    PROVE  Quiet(a \o b)
BY DEF Quiet

\* A line that carries nothing is quiet on its own.
LEMMA QuietOne ==
    ASSUME NEW x \in Line, x.k \notin ContentKinds \/ x.a = <<>>
    PROVE  Quiet(<<x>>)
<1>1. <<x>> \in Seq(Line) /\ Len(<<x>>) = 1 /\ <<x>>[1] = x OBVIOUS
<1>2. \A n \in 1 .. Len(<<x>>) : n = 1 BY <1>1
<1> QED BY <1>1, <1>2 DEF Quiet

\* A bare line is quiet.
LEMMA BareQuiet ==
    ASSUME NEW l \in LineNames
    PROVE  Quiet(<<Bare(l)>>)
<1>1. Bare(l) \in Line BY BareType
<1>2. Bare(l).a = <<>> BY DEF Bare, Ln
<1> QED BY <1>1, <1>2, QuietOne

\* Closing a block carries no content: the signature is not content.
LEMMA CloseQuiet ==
    ASSUME NEW s \in Encoder
    PROVE  Quiet(CloseBlock(s).out)
<1> DEFINE x == Ln("signature", s.idx, "signature", 0, FALSE, s.sig)
           y == Ln("block_stop", s.idx, "none", 0, FALSE, <<>>)
<1>1. s.idx \in Nat /\ s.sig \in Seq(Atom) BY EncoderFields
<1>2. x \in Line BY <1>1, LnType DEF LineNames, EventKinds
<1>3. y \in Line BY <1>1, LnType, AtomSeq DEF LineNames
<1>4. x.k = "signature" /\ y.a = <<>> BY DEF Ln
<1>5. Quiet(<<>>) BY DEF Quiet
<1>6. CloseBlock(s).out \in {<<>>, <<>> \o <<y>>, <<x>> \o <<y>>}
  BY DEF CloseBlock, Encoded
<1> HIDE DEF x, y
<1>7. Quiet(<<x>>) BY <1>2, <1>4, QuietOne DEF ContentKinds
<1>8. Quiet(<<y>>) BY <1>3, <1>4, QuietOne
<1>9. Quiet(<<>> \o <<y>>) BY <1>5, <1>8, QuietConcat
<1>10. Quiet(<<x>> \o <<y>>) BY <1>7, <1>8, QuietConcat
<1> QED BY <1>5, <1>6, <1>9, <1>10

\* Neither does opening one.
LEMMA OpenQuiet ==
    ASSUME NEW s \in Encoder, NEW e \in Event, e.k \in ContentKinds
    PROVE  Quiet(OpenBlock(s, e).out)
<1> DEFINE c == CloseBlock(s)
           x == Ln("block_start", c.enc.idx, e.k, e.i, e.hd, <<>>)
<1>1. c.enc \in Encoder /\ Quiet(c.out) BY CloseFacts, CloseQuiet
<1>2. c.enc.idx \in Nat BY <1>1, EncoderFields
<1>3. x \in Line BY <1>2, EventFields, LnType, AtomSeq DEF LineNames
<1>4. x.a = <<>> BY DEF Ln
<1>5. OpenBlock(s, e).out = c.out \o <<x>> BY DEF OpenBlock, Encoded
<1> HIDE DEF c, x
<1>6. Quiet(<<x>>) BY <1>3, <1>4, QuietOne
<1> QED BY <1>1, <1>5, <1>6, QuietConcat

\* A quiet sequence and one line carry what the line carries.
LEMMA QuietThenLine ==
    ASSUME NEW out, Quiet(out), NEW x \in Line, NEW ch
    PROVE  OnChannel(out \o <<x>>, ch) = Carried(x, ch)
<1>1. out \in Seq(Line) BY DEF Quiet
<1>2. OnChannel(out \o <<x>>, ch) = OnChannel(out, ch) \o Carried(x, ch)
  BY <1>1, BothCarry, OnChannelAppend
<1>3. OnChannel(out, ch) = <<>> BY QuietNothing
<1>4. Carried(x, ch) \in Seq(Atom) BY BothCarry, CarriedType
<1>5. <<>> \o Carried(x, ch) = Carried(x, ch) BY <1>4
<1> QED BY <1>2, <1>3, <1>5

\* A delta carries its event's text.
LEMMA DeltaCarries ==
    ASSUME NEW s \in Encoder, NEW e \in Event, NEW ch
    PROVE  Delta(s, e) \in Line /\ Carried(Delta(s, e), ch) = Carried(e, ch)
<1>1. s.idx \in Nat BY EncoderFields
<1>2. e.k \in EventKinds /\ e.i \in Nat /\ e.a \in Seq(Atom) BY EventFields
<1>3. Delta(s, e) \in Line BY <1>1, <1>2, LnType DEF Delta, LineNames
<1>4. Delta(s, e).k = e.k /\ Delta(s, e).i = e.i /\ Delta(s, e).a = e.a BY DEF Delta, Ln
<1> QED BY <1>3, <1>4 DEF Carried, ChannelOf

\* The block choreography carries exactly the event's text.
LEMMA BlockCarries ==
    ASSUME NEW s \in Encoder, NEW e \in Event, e.k \in ContentKinds, NEW ch
    PROVE  /\ OnChannel(EncodeTextual(s, e).out, ch) = Carried(e, ch)
           /\ OnChannel(EncodeToolCall(s, e).out, ch) = Carried(e, ch)
<1>0. Quiet(<<>>) BY DEF Quiet
<1>1. ASSUME NEW o, o = Encoded(s, <<>>) \/ o = OpenBlock(s, e)
      PROVE  /\ Quiet(o.out)
             /\ OnChannel(o.out \o <<Delta(o.enc, e)>>, ch) = Carried(e, ch)
  <2>1. o.enc \in Encoder /\ Quiet(o.out)
    <3>1. CASE o = Encoded(s, <<>>) BY <1>0, <3>1 DEF Encoded
    <3>2. CASE o = OpenBlock(s, e) BY <3>2, OpenFacts, OpenQuiet
    <3> QED BY <1>1, <3>1, <3>2
  <2>2. Delta(o.enc, e) \in Line /\ Carried(Delta(o.enc, e), ch) = Carried(e, ch)
    BY <2>1, DeltaCarries
  <2> QED BY <2>1, <2>2, QuietThenLine
<1>2. OnChannel(EncodeTextual(s, e).out, ch) = Carried(e, ch)
  <2> DEFINE o == IF s.cur = e.k THEN Encoded(s, <<>>) ELSE OpenBlock(s, e)
  <2>1. EncodeTextual(s, e).out = o.out \o <<Delta(o.enc, e)>> BY DEF EncodeTextual, Encoded
  <2>2. o = Encoded(s, <<>>) \/ o = OpenBlock(s, e) OBVIOUS
  <2> HIDE DEF o
  <2> QED BY <1>1, <2>1, <2>2
<1>3. OnChannel(EncodeToolCall(s, e).out, ch) = Carried(e, ch)
  <2> DEFINE o == IF e.i \in s.tools THEN Encoded(s, <<>>) ELSE OpenBlock(s, e)
  <2>1. EncodeToolCall(s, e).out =
          o.out \o (IF e.a = <<>> THEN <<>> ELSE <<Delta(o.enc, e)>>)
    BY DEF EncodeToolCall, Encoded
  <2>2. o = Encoded(s, <<>>) \/ o = OpenBlock(s, e) OBVIOUS
  <2> HIDE DEF o
  <2>3. CASE e.a = <<>>
    <3>1. Quiet(o.out) BY <1>1, <2>2
    <3>2. o.out \o <<>> = o.out BY <3>1 DEF Quiet
    <3>3. OnChannel(o.out, ch) = <<>> BY <3>1, QuietNothing
    <3>4. Carried(e, ch) = <<>> BY <2>3 DEF Carried
    <3> QED BY <2>1, <2>3, <3>2, <3>3, <3>4
  <2>4. CASE e.a # <<>> BY <1>1, <2>1, <2>2, <2>4
  <2> QED BY <2>3, <2>4
<1> QED BY <1>2, <1>3

\* The lines written for an event carry its content and nothing else, for
\* either client and in whatever state the encoder is.
LEMMA EncodeCarries ==
    ASSUME NEW client, NEW s \in Encoder, NEW e \in Event, NEW ch
    PROVE  OnChannel(Encode(client, s, e).out, ch) = Carried(e, ch)
<1> DEFINE out == Encode(client, s, e).out
<1>0. e.k \in EventKinds /\ e.i \in Nat /\ e.hd \in BOOLEAN /\ e.a \in Seq(Atom) BY EventFields
<1>1. CASE e.k \in ContentKinds /\ client = "anthropic"
  <2>1. out = EncodeTextual(s, e).out \/ out = EncodeToolCall(s, e).out
    BY <1>1 DEF Encode, EncodeAnthropic, ContentKinds
  <2> QED BY <1>1, <2>1, BlockCarries
<1>2. CASE e.k \in ContentKinds /\ client # "anthropic"
  <2> DEFINE x == Ln("delta", 0, e.k, e.i, e.hd, e.a)
  <2>1. out = <<x>> BY <1>2 DEF Encode, EncodeOpenAI, ContentKinds, Encoded
  <2>2. x \in Line BY <1>0, LnType DEF LineNames
  <2>3. Carried(x, ch) = Carried(e, ch) BY DEF Ln, Carried, ChannelOf
  <2> HIDE DEF x, out
  <2> QED BY <2>1, <2>2, <2>3, BothCarry, OneOnChannel DEF out
<1>3. CASE e.k \notin ContentKinds
  <2> DEFINE c == CloseBlock(s).out
             d == Ln("message_delta", 0, "none", 0, e.hd, <<>>)
             f == Ln("message_stop", 0, "none", 0, e.hd, <<>>)
  <2>1. Quiet(<<>>) /\ Quiet(c) BY CloseQuiet DEF Quiet
  <2>2. Quiet(<<Bare("message_start")>>) /\ Quiet(<<Bare("error")>>) /\ Quiet(<<Bare("message_stop")>>)
    BY BareQuiet DEF LineNames
  <2>3. d \in Line /\ f \in Line BY <1>0, LnType, AtomSeq, ZenonT(30) DEF LineNames
  <2>4. d.a = <<>> /\ f.a = <<>> BY DEF Ln
  <2>5. out \in {<<Bare("message_start")>>, <<>>, c \o <<d, Bare("message_stop")>>,
                 c \o <<Bare("error")>>, <<f>>, <<Bare("error")>>}
    BY <1>0, <1>3 DEF Encode, EncodeAnthropic, EncodeOpenAI, EventKinds, ContentKinds, Encoded
  <2> HIDE DEF c, d, f, out
  <2>6. Quiet(<<d>>) /\ Quiet(<<f>>) BY <2>3, <2>4, QuietOne
  <2>8. Quiet(<<d, Bare("message_stop")>>)
    <3> DEFINE y == Bare("message_stop")
    <3>1. y \in Line BY BareType DEF LineNames
    <3>2. y.a = <<>> BY DEF Bare, Ln
    <3> HIDE DEF y
    <3>3. /\ <<d, y>> \in Seq(Line) /\ Len(<<d, y>>) = 2
          /\ <<d, y>>[1] = d /\ <<d, y>>[2] = y
      BY <2>3, <3>1
    <3>4. \A n \in 1 .. Len(<<d, y>>) : n = 1 \/ n = 2 BY <3>3
    <3>5. Quiet(<<d, y>>) BY <2>4, <3>2, <3>3, <3>4 DEF Quiet
    <3> QED BY <3>5 DEF y
  <2>9. Quiet(out) BY <2>1, <2>2, <2>5, <2>6, <2>8, QuietConcat
  <2>10. Carried(e, ch) = <<>> BY <1>3 DEF Carried
  <2> QED BY <2>9, <2>10, QuietNothing DEF out
<1> QED BY <1>1, <1>2, <1>3

\* The done marker carries nothing.
LEMMA DoneCarries == \A client, ch : OnChannel(DoneLines(client), ch) = <<>>
<1> TAKE client, ch
<1>1. Quiet(<<Bare("[DONE]")>>) BY BareQuiet DEF LineNames
<1>2. Quiet(<<>>) BY DEF Quiet
<1>3. DoneLines(client) = <<>> \/ DoneLines(client) = <<Bare("[DONE]")>> BY DEF DoneLines
<1>4. Quiet(DoneLines(client)) BY <1>1, <1>2, <1>3
<1> QED BY <1>4, QuietNothing

\* What a channel holds is text.
LEMMA HeldOnType ==
    ASSUME NEW h, HeldType(h), NEW ch
    PROVE  HeldOn(h, ch) \in Seq(Atom)
BY AtomSeq DEF HeldOn, HeldType

\* Holding text on one channel changes that channel alone.
LEMMA HeldAfterHold ==
    ASSUME NEW h, NEW ch, NEW a, NEW other
    PROVE  HeldOn(HoldOn(h, ch, a), other) = IF other = ch THEN a ELSE HeldOn(h, other)
BY DEF HeldOn, HoldOn

\* What the restorer passes on and what it holds afterwards is what it held
\* and what the event carries: per channel nothing is lost, added or moved.
LEMMA RestoreCarries ==
    ASSUME NEW h, HeldType(h), NEW e \in Event, NEW r \in RestoreEvent(h, e), NEW ch
    PROVE  OnChannel(r.ev, ch) \o HeldOn(r.held, ch) = HeldOn(h, ch) \o Carried(e, ch)
<1> DEFINE old == HeldOn(h, ch)
<1>0. old \in Seq(Atom) BY HeldOnType
<1>1. CASE e.k \notin ContentKinds
  <2>1. r.held = h /\ r.ev = <<e>> BY <1>1 DEF RestoreEvent
  <2>2. Carried(e, ch) = <<>> BY <1>1 DEF Carried
  <2>3. OnChannel(<<e>>, ch) = <<>> BY <2>2, BothCarry, OneOnChannel
  <2> HIDE DEF old
  <2>4. <<>> \o old = old \o <<>> BY <1>0
  <2> QED BY <2>1, <2>2, <2>3, <2>4 DEF old
<1>2. CASE e.k \in ContentKinds
  <2> DEFINE own == ChannelOf(e)
             all == HeldOn(h, own) \o e.a
  <2>1. PICK n \in 0 .. Len(all) :
          /\ r.held = HoldOn(h, own, SubSeq(all, n + 1, Len(all)))
          /\ r.ev = IF n = 0 /\ ~e.hd THEN <<>> ELSE <<[e EXCEPT !.a = SubSeq(all, 1, n)]>>
    <3> DEFINE R(n) == [held |-> HoldOn(h, own, SubSeq(all, n + 1, Len(all))),
                        ev |-> IF n = 0 /\ ~e.hd THEN <<>>
                               ELSE <<[e EXCEPT !.a = SubSeq(all, 1, n)]>>]
    <3>1. r \in {R(n) : n \in 0 .. Len(all)} BY <1>2, Zenon DEF RestoreEvent
    <3>2. PICK n \in 0 .. Len(all) : r = R(n) BY <3>1
    <3> QED BY <3>2
  <2>2. all \in Seq(Atom)
    <3>1. HeldOn(h, own) \in Seq(Atom) /\ e.a \in Seq(Atom) BY HeldOnType, EventFields
    <3> HIDE DEF own
    <3> QED BY <3>1
  <2> DEFINE front == SubSeq(all, 1, n)
             rest == SubSeq(all, n + 1, Len(all))
             x == [e EXCEPT !.a = front]
  <2>3. HeldOn(r.held, ch) = IF ch = own THEN rest ELSE old BY <2>1, HeldAfterHold
  <2>4. all = HeldOn(h, own) \o e.a OBVIOUS
  <2>5. Carried(e, ch) = IF ch = own THEN e.a ELSE <<>> BY <1>2 DEF Carried
  <2> HIDE DEF all, own
  <2>6. front \in Seq(Atom) /\ rest \in Seq(Atom) /\ front \o rest = all /\ (n = 0 => front = <<>>)
    <3>1. front \in Seq(Atom) /\ rest \in Seq(Atom) BY <2>2
    <3>2. Len(all) \in Nat /\ n \in 0 .. Len(all) BY <2>2
    <3>3. front \o rest = SubSeq(all, 1, Len(all))
      <4>1. 1 \in 1 .. Len(all) + 1 /\ n \in 1 - 1 .. Len(all) /\ Len(all) \in n .. Len(all)
        BY <3>2
      <4> QED BY <2>2, <4>1, ConcatAdjacentSubSeq
    <3>4. SubSeq(all, 1, Len(all)) = all BY <2>2, SubSeqFull
    <3>5. n = 0 => front = <<>> BY <2>2
    <3> HIDE DEF front, rest
    <3> QED BY <3>1, <3>3, <3>4, <3>5
  <2>7. x \in Event /\ x.k = e.k /\ x.i = e.i /\ x.a = front BY <2>6 DEF Event
  <2>8. OnChannel(r.ev, ch) = IF ch = own THEN front ELSE <<>>
    <3>1. CASE n = 0 /\ ~e.hd
      <4>1. r.ev = <<>> /\ front = <<>> BY <2>1, <2>6, <3>1
      <4> QED BY <4>1, NothingOnChannel
    <3>2. CASE ~(n = 0 /\ ~e.hd)
      <4>1. r.ev = <<x>> BY <2>1, <3>2
      <4>2. Carried(x, ch) = IF ch = own THEN front ELSE <<>>
        BY <1>2, <2>7 DEF Carried, ChannelOf, own
      <4> HIDE DEF x
      <4> QED BY <2>7, <4>1, <4>2, BothCarry, OneOnChannel
    <3> QED BY <3>1, <3>2
  <2> HIDE DEF front, rest, x
  <2>9. CASE ch = own BY <2>3, <2>4, <2>5, <2>6, <2>8, <2>9
  <2>10. CASE ch # own
    <3>1. <<>> \o old = old \o <<>> BY <1>0
    <3> QED BY <2>3, <2>5, <2>8, <2>10, <3>1
  <2> QED BY <2>9, <2>10
<1> QED BY <1>1, <1>2

-------------------------------------------------------------------------------
(* The choreography of content blocks that an Anthropic client sees. *)

\* How many of the lines before line n of s have this name.
Before(s, n, name) == Cardinality({m \in 1 .. n - 1 : s[m].l = name})

\* Line n of s is inside the block that line m started.
Inside(s, m, n) ==
    /\ m < n
    /\ s[m].l = "block_start"
    /\ s[m].b = s[n].b
    /\ \A o \in m + 1 .. n - 1 : s[o].l \notin {"block_start", "block_stop"}

\* Line n of s is where the choreography allows it.
LineFits(s, n) ==
    /\ s[n].l = "block_start" =>
         /\ s[n].b = Before(s, n, "block_start")
         /\ s[n].b = Before(s, n, "block_stop")
    /\ s[n].l \in {"delta", "signature", "block_stop"} =>
         \E m \in 1 .. n : /\ Inside(s, m, n)
                           /\ s[n].l = "delta" => ChannelOf(s[m]) = ChannelOf(s[n])
                           /\ s[n].l = "signature" => s[m].k = "reason"
    /\ s[n].l \in {"message_stop", "error"} =>
         Before(s, n, "block_start") = Before(s, n, "block_stop")

Matched(s) == \A n \in 1 .. Len(s) : LineFits(s, n)

\* Line m of s started the block that encoder state t has open.
OpenAt(s, m, t) ==
    /\ s[m].l = "block_start"
    /\ s[m].b = t.idx
    /\ s[m].k = t.cur
    /\ t.cur = "tool" => t.tools = {s[m].i}
    /\ t.cur # "tool" => s[m].i = 0
    /\ \A o \in m + 1 .. Len(s) : s[o].l \notin {"block_start", "block_stop"}

\* Encoder state t is in step with the lines s written so far.
InStep(s, t) ==
    /\ Before(s, Len(s) + 1, "block_stop") = t.idx
    /\ Before(s, Len(s) + 1, "block_start") = (IF t.cur = "none" THEN t.idx ELSE t.idx + 1)
    /\ t.cur # "none" => \E m \in 1 .. Len(s) : OpenAt(s, m, t)
    /\ t.tools = t.open
    /\ t.cur # "tool" => t.tools = {}

\* Only tool calls are numbered.
Numbered(e) == e.k \in {"text", "reason"} => e.i = 0

\* The lines of a longer stream.
LEMMA LineAppended ==
    ASSUME NEW s \in Seq(Line), NEW x \in Line
    PROVE  /\ Append(s, x) \in Seq(Line) /\ Len(s) \in Nat
           /\ Len(Append(s, x)) = Len(s) + 1
           /\ \A n \in 1 .. Len(s) : Append(s, x)[n] = s[n]
           /\ Append(s, x)[Len(s) + 1] = x
OBVIOUS

\* A line written later does not change what came before a line.
LEMMA BeforeKept ==
    ASSUME NEW s \in Seq(Line), NEW x \in Line, NEW n \in 1 .. Len(s) + 1, NEW name
    PROVE  Before(Append(s, x), n, name) = Before(s, n, name)
<1>1. \A m \in 1 .. n - 1 : Append(s, x)[m] = s[m]
  BY LineAppended
<1>2. {m \in 1 .. n - 1 : Append(s, x)[m].l = name} = {m \in 1 .. n - 1 : s[m].l = name}
  BY <1>1
<1> QED BY <1>2 DEF Before

\* The number of lines of a name is a number, and a line of that name adds one.
LEMMA BeforeAppended ==
    ASSUME NEW s \in Seq(Line), NEW x \in Line, NEW name
    PROVE  /\ Before(s, Len(s) + 1, name) \in Nat
           /\ Before(Append(s, x), Len(Append(s, x)) + 1, name)
                = IF x.l = name THEN Before(s, Len(s) + 1, name) + 1
                                ELSE Before(s, Len(s) + 1, name)
<1> DEFINE k == Len(s)
           P == {m \in 1 .. k : s[m].l = name}
           Q == {m \in 1 .. k + 1 : Append(s, x)[m].l = name}
<1>0. k \in Nat /\ Len(Append(s, x)) = k + 1
  BY LineAppended
<1>1. Before(s, Len(s) + 1, name) = Cardinality(P)
  <2> DEFINE R == {m \in 1 .. Len(s) + 1 - 1 : s[m].l = name}
  <2>1. R = P BY <1>0
  <2>2. Before(s, Len(s) + 1, name) = Cardinality(R) BY DEF Before
  <2> HIDE DEF P, R
  <2> QED BY <2>1, <2>2
<1>2. Before(Append(s, x), Len(Append(s, x)) + 1, name) = Cardinality(Q)
  <2> DEFINE u == Append(s, x)
             R == {m \in 1 .. Len(u) + 1 - 1 : u[m].l = name}
  <2>1. R = Q BY <1>0
  <2> HIDE DEF Q, u
  <2>2. Before(u, Len(u) + 1, name) = Cardinality(R) BY DEF Before
  <2> HIDE DEF R
  <2> QED BY <2>1, <2>2 DEF u
<1>3. IsFiniteSet(P)
  <2>1. IsFiniteSet(1 .. k) BY <1>0, FS_Interval
  <2>2. P \in SUBSET (1 .. k) OBVIOUS
  <2> QED BY <2>1, <2>2, FS_Subset
<1>4. k + 1 \notin P BY <1>0
<1>5. Q = IF x.l = name THEN P \cup {k + 1} ELSE P
  <2>1. \A m \in 1 .. k + 1 : m \in 1 .. k \/ m = k + 1 BY <1>0
  <2>2. \A m \in 1 .. k : m \in 1 .. k + 1 /\ Append(s, x)[m] = s[m] BY <1>0, LineAppended
  <2>3. k + 1 \in 1 .. k + 1 /\ Append(s, x)[k + 1] = x BY <1>0, LineAppended
  <2> QED BY <2>1, <2>2, <2>3
<1> HIDE DEF P, Q, k
<1>6. Cardinality(P) \in Nat BY <1>3, FS_CardinalityType
<1>7. Cardinality(P \cup {k + 1}) = Cardinality(P) + 1 BY <1>3, <1>4, FS_AddElement
<1> QED BY <1>1, <1>2, <1>5, <1>6, <1>7

\* A stream stays well formed when the line that is added fits.
LEMMA MatchedAppend ==
    ASSUME NEW s \in Seq(Line), NEW x \in Line, Matched(s),
           LineFits(Append(s, x), Len(s) + 1)
    PROVE  Matched(Append(s, x))
<1> DEFINE t == Append(s, x)
<1>0. Len(s) \in Nat /\ Len(t) = Len(s) + 1 /\ \A n \in 1 .. Len(s) : t[n] = s[n]
  BY LineAppended
<1>1. ASSUME NEW n \in 1 .. Len(s) PROVE LineFits(t, n)
  <2>1. n \in 1 .. Len(s) + 1 /\ t[n] = s[n] BY <1>0
  <2>2. \A name : Before(t, n, name) = Before(s, n, name) BY <2>1, BeforeKept
  <2>3. \A m \in 1 .. n : t[m] = s[m] BY <1>0
  <2>4. ASSUME NEW m \in 1 .. n, Inside(s, m, n) PROVE Inside(t, m, n)
    <3>1. \A o \in m + 1 .. n - 1 : t[o] = s[o] BY <1>0
    <3>2. t[m] = s[m] /\ t[n] = s[n] BY <2>3, <2>1
    <3> HIDE DEF t
    <3> QED BY <2>4, <3>1, <3>2 DEF Inside
  <2>5. LineFits(s, n) BY DEF Matched
  <2> HIDE DEF t
  <2> QED BY <2>1, <2>2, <2>3, <2>4, <2>5 DEF LineFits, ChannelOf
<1>2. \A n \in 1 .. Len(t) : n \in 1 .. Len(s) \/ n = Len(s) + 1 BY <1>0
<1> HIDE DEF t
<1> QED BY <1>1, <1>2 DEF Matched, t

\* A line that neither starts nor ends a block leaves encoder and stream in
\* step.
LEMMA StepAppend ==
    ASSUME NEW s \in Seq(Line), NEW x \in Line, NEW t \in Encoder, InStep(s, t),
           x.l \notin {"block_start", "block_stop"}
    PROVE  InStep(Append(s, x), t)
<1> DEFINE u == Append(s, x)
<1>0. Len(s) \in Nat /\ Len(u) = Len(s) + 1 /\ u[Len(s) + 1] = x
      /\ \A n \in 1 .. Len(s) : u[n] = s[n]
  BY LineAppended
<1>1. /\ Before(u, Len(u) + 1, "block_stop") = Before(s, Len(s) + 1, "block_stop")
      /\ Before(u, Len(u) + 1, "block_start") = Before(s, Len(s) + 1, "block_start")
  BY BeforeAppended
<1> HIDE DEF u
<1>2. ASSUME NEW m \in 1 .. Len(s), OpenAt(s, m, t) PROVE m \in 1 .. Len(u) /\ OpenAt(u, m, t)
  <2>1. m \in 1 .. Len(u) /\ u[m] = s[m] BY <1>0
  <2>2. ASSUME NEW o \in m + 1 .. Len(u) PROVE u[o].l \notin {"block_start", "block_stop"}
    <3>1. CASE o = Len(s) + 1 BY <1>0, <3>1
    <3>2. CASE o # Len(s) + 1
      <4>1. o \in m + 1 .. Len(s) /\ u[o] = s[o] BY <1>0, <3>2
      <4> QED BY <1>2, <4>1 DEF OpenAt
    <3> QED BY <3>1, <3>2
  <2> QED BY <1>2, <2>1, <2>2 DEF OpenAt
<1>3. InStep(u, t) BY <1>1, <1>2 DEF InStep
<1> QED BY <1>3 DEF u

\* A line of the message as a whole fits anywhere.
LEMMA PlainAppend ==
    ASSUME NEW s \in Seq(Line), NEW x \in Line, NEW t \in Encoder, Matched(s), InStep(s, t),
           x.l \in {"message_start", "message_delta", "[DONE]"}
    PROVE  Matched(Append(s, x)) /\ InStep(Append(s, x), t)
<1>1. LineFits(Append(s, x), Len(s) + 1) BY LineAppended DEF LineFits
<1> QED BY <1>1, MatchedAppend, StepAppend

\* The terminal event and an error fit when no block is open.
LEMMA EndAppend ==
    ASSUME NEW s \in Seq(Line), NEW x \in Line, NEW t \in Encoder, Matched(s), InStep(s, t),
           x.l \in {"message_stop", "error"}, t.cur = "none"
    PROVE  Matched(Append(s, x)) /\ InStep(Append(s, x), t)
<1>0. Len(s) + 1 \in 1 .. Len(s) + 1 BY LineAppended
<1>1. \A name : Before(Append(s, x), Len(s) + 1, name) = Before(s, Len(s) + 1, name)
  BY <1>0, BeforeKept
<1>2. Before(s, Len(s) + 1, "block_start") = Before(s, Len(s) + 1, "block_stop")
  BY DEF InStep
<1>3. Append(s, x)[Len(s) + 1] = x BY LineAppended
<1>4. LineFits(Append(s, x), Len(s) + 1) BY <1>1, <1>2, <1>3 DEF LineFits
<1> QED BY <1>4, MatchedAppend, StepAppend

\* The block that is open contains the line after the last.
LEMMA InsideOpen ==
    ASSUME NEW s \in Seq(Line), NEW x \in Line, NEW t \in Encoder, InStep(s, t),
           t.cur # "none", x.b = t.idx
    PROVE  \E m \in 1 .. Len(s) + 1 :
              /\ Inside(Append(s, x), m, Len(s) + 1)
              /\ Append(s, x)[m].k = t.cur
              /\ t.cur = "tool" => t.tools = {Append(s, x)[m].i}
              /\ t.cur # "tool" => Append(s, x)[m].i = 0
<1> DEFINE u == Append(s, x)
<1>0. Len(s) \in Nat /\ u[Len(s) + 1] = x /\ \A n \in 1 .. Len(s) : u[n] = s[n]
  BY LineAppended
<1> HIDE DEF u
<1>1. PICK m \in 1 .. Len(s) : OpenAt(s, m, t) BY DEF InStep
<1>2. m \in 1 .. Len(s) + 1 /\ m < Len(s) + 1 /\ u[m] = s[m] BY <1>0
<1>3. ASSUME NEW o \in m + 1 .. Len(s) + 1 - 1 PROVE u[o].l \notin {"block_start", "block_stop"}
  <2>1. o \in m + 1 .. Len(s) /\ u[o] = s[o] BY <1>0
  <2> QED BY <1>1, <2>1 DEF OpenAt
<1>4. Inside(u, m, Len(s) + 1) BY <1>0, <1>1, <1>2, <1>3 DEF OpenAt, Inside
<1>5. /\ u[m].k = t.cur
      /\ t.cur = "tool" => t.tools = {u[m].i}
      /\ t.cur # "tool" => u[m].i = 0
  BY <1>1, <1>2 DEF OpenAt
<1> QED BY <1>2, <1>4, <1>5 DEF u

\* A delta fits the open block of its channel.
LEMMA DeltaAppend ==
    ASSUME NEW s \in Seq(Line), NEW t \in Encoder, NEW e \in Event, Matched(s), InStep(s, t),
           Delta(t, e) \in Line, e.k \in ContentKinds, t.cur = e.k, Numbered(e),
           e.k = "tool" => e.i \in t.tools
    PROVE  Matched(Append(s, Delta(t, e))) /\ InStep(Append(s, Delta(t, e)), t)
<1> DEFINE x == Delta(t, e)
<1>0. x.l = "delta" /\ x.b = t.idx /\ x.k = e.k /\ x.i = e.i /\ t.cur # "none"
  BY DEF Delta, Ln, ContentKinds
<1> HIDE DEF x
<1>x. x \in Line BY DEF x
<1>1. Append(s, x)[Len(s) + 1] = x BY <1>x, LineAppended
<1>2. PICK m \in 1 .. Len(s) + 1 :
              /\ Inside(Append(s, x), m, Len(s) + 1)
              /\ Append(s, x)[m].k = t.cur
              /\ t.cur = "tool" => t.tools = {Append(s, x)[m].i}
              /\ t.cur # "tool" => Append(s, x)[m].i = 0
  BY <1>0, <1>x, InsideOpen
<1>3. Append(s, x)[m].i = e.i BY <1>2 DEF Numbered, ContentKinds
<1>4. ChannelOf(Append(s, x)[m]) = ChannelOf(x) BY <1>0, <1>2, <1>3 DEF ChannelOf
<1>5. LineFits(Append(s, x), Len(s) + 1) BY <1>0, <1>1, <1>2, <1>4 DEF LineFits
<1>6. Matched(Append(s, x)) /\ InStep(Append(s, x), t)
  BY <1>0, <1>x, <1>5, MatchedAppend, StepAppend
<1> QED BY <1>6 DEF x

\* A signature fits an open thinking block.
LEMMA SignatureAppend ==
    ASSUME NEW s \in Seq(Line), NEW x \in Line, NEW t \in Encoder, Matched(s), InStep(s, t),
           x.l = "signature", x.b = t.idx, t.cur = "reason"
    PROVE  Matched(Append(s, x)) /\ InStep(Append(s, x), t)
<1>1. Append(s, x)[Len(s) + 1] = x BY LineAppended
<1>2. \E m \in 1 .. Len(s) + 1 :
         Inside(Append(s, x), m, Len(s) + 1) /\ Append(s, x)[m].k = "reason"
  BY InsideOpen
<1>3. LineFits(Append(s, x), Len(s) + 1) BY <1>1, <1>2 DEF LineFits
<1> QED BY <1>3, MatchedAppend, StepAppend

\* The start of the next block fits when none is open, and opens it.
LEMMA StartAppend ==
    ASSUME NEW s \in Seq(Line), NEW x \in Line, NEW t \in Encoder, NEW v \in Encoder,
           Matched(s), InStep(s, t), t.cur = "none",
           x.l = "block_start", x.b = t.idx, x.k \in ContentKinds, x.k # "tool" => x.i = 0,
           v.cur = x.k, v.idx = t.idx,
           v.tools = (IF x.k = "tool" THEN {x.i} ELSE {}), v.open = v.tools
    PROVE  Matched(Append(s, x)) /\ InStep(Append(s, x), v)
<1> DEFINE u == Append(s, x)
<1>0. Len(s) \in Nat /\ Len(u) = Len(s) + 1 /\ u[Len(s) + 1] = x
  BY LineAppended
<1>1. \A name : Before(u, Len(s) + 1, name) = Before(s, Len(s) + 1, name)
  <2>1. Len(s) + 1 \in 1 .. Len(s) + 1 BY <1>0
  <2> QED BY <2>1, BeforeKept
<1>2. /\ Before(s, Len(s) + 1, "block_start") = t.idx
      /\ Before(s, Len(s) + 1, "block_stop") = t.idx
  BY DEF InStep
<1>3. /\ Before(u, Len(u) + 1, "block_start") = t.idx + 1
      /\ Before(u, Len(u) + 1, "block_stop") = t.idx
  BY <1>2, BeforeAppended
<1> HIDE DEF u
<1>4. LineFits(u, Len(s) + 1) BY <1>0, <1>1, <1>2 DEF LineFits
<1>5. Matched(u) BY <1>4, MatchedAppend DEF u
<1>6. Len(s) + 1 \in 1 .. Len(u) /\ Len(s) + 1 + 1 .. Len(u) = {} BY <1>0
<1>7. OpenAt(u, Len(s) + 1, v) BY <1>0, <1>6 DEF OpenAt
<1>8. v.cur # "none" BY DEF ContentKinds
<1>9. InStep(u, v) BY <1>3, <1>6, <1>7, <1>8 DEF InStep
<1> QED BY <1>5, <1>9 DEF u

\* The end of a block fits when it is open, and closes it.
LEMMA StopAppend ==
    ASSUME NEW s \in Seq(Line), NEW x \in Line, NEW t \in Encoder, NEW v \in Encoder,
           Matched(s), InStep(s, t), t.cur # "none", x.l = "block_stop", x.b = t.idx,
           v.cur = "none", v.idx = t.idx + 1, v.tools = {}, v.open = {}
    PROVE  Matched(Append(s, x)) /\ InStep(Append(s, x), v)
<1> DEFINE u == Append(s, x)
<1>0. Len(s) \in Nat /\ Len(u) = Len(s) + 1 /\ u[Len(s) + 1] = x
  BY LineAppended
<1>1. \E m \in 1 .. Len(s) + 1 : Inside(u, m, Len(s) + 1)
  BY InsideOpen
<1>2. /\ Before(u, Len(u) + 1, "block_start") = t.idx + 1
      /\ Before(u, Len(u) + 1, "block_stop") = t.idx + 1
  BY BeforeAppended DEF InStep
<1> HIDE DEF u
<1>3. LineFits(u, Len(s) + 1) BY <1>0, <1>1 DEF LineFits
<1>4. Matched(u) BY <1>3, MatchedAppend DEF u
<1>5. InStep(u, v) BY <1>2 DEF InStep
<1> QED BY <1>4, <1>5 DEF u

\* A batch of lines grows at its end.
LEMMA BatchGrows ==
    ASSUME NEW s \in Seq(Line), NEW a \in Seq(Line), NEW x \in Line
    PROVE  /\ s \o (a \o <<x>>) = Append(s \o a, x)
           /\ s \o <<x>> = Append(s, x)
           /\ s \o <<>> = s /\ s \o a \in Seq(Line)
<1>1. <<x>> \in Seq(Line) OBVIOUS
<1>2. (s \o a) \o <<x>> = s \o (a \o <<x>>) BY <1>1, ConcatAssociative
<1>3. s \o a \in Seq(Line) /\ s \o <<>> = s OBVIOUS
<1>4. \A r \in Seq(Line) : r \o <<x>> = Append(r, x) OBVIOUS
<1> QED BY <1>2, <1>3, <1>4

\* What close_block writes closes the open block.
LEMMA CloseInStep ==
    ASSUME NEW s \in Seq(Line), NEW t \in Encoder, Matched(s), InStep(s, t)
    PROVE  LET c == CloseBlock(t)
           IN  /\ Matched(s \o c.out) /\ InStep(s \o c.out, c.enc)
               /\ c.enc.cur = "none" /\ s \o c.out \in Seq(Line)
<1> DEFINE c == CloseBlock(t)
           sig == Ln("signature", t.idx, "signature", 0, FALSE, t.sig)
           stop == Ln("block_stop", t.idx, "none", 0, FALSE, <<>>)
<1>0. c.enc \in Encoder /\ c.out \in Seq(Line) BY CloseFacts
<1>f. t.idx \in Nat /\ t.sig \in Seq(Atom) /\ t.cur \in ContentKinds \cup {"none"}
  BY EncoderFields
<1>1. CASE t.cur = "none"
  <2>1. c.enc = t /\ c.out = <<>> BY <1>1 DEF CloseBlock, Encoded
  <2>2. s \o <<>> = s OBVIOUS
  <2> QED BY <1>1, <2>1, <2>2
<1>2. CASE t.cur # "none"
  <2>1. stop \in Line /\ sig \in Line
    BY <1>f, LnType, AtomSeq, Zenon DEF LineNames, EventKinds
  <2>2. stop.l = "block_stop" /\ stop.b = t.idx /\ sig.l = "signature" /\ sig.b = t.idx
    BY DEF Ln
  <2>3. /\ c.enc.cur = "none" /\ c.enc.idx = t.idx + 1
        /\ c.enc.tools = (IF t.cur = "tool" THEN t.tools \ t.open ELSE t.tools)
        /\ c.enc.open = (IF t.cur = "tool" THEN {} ELSE t.open)
    BY <1>2 DEF CloseBlock, Encoded, Encoder
  <2>4. c.enc.tools = {} /\ c.enc.open = {} BY <2>3 DEF InStep
  <2>5. \/ c.out = <<>> \o <<stop>>
        \/ t.cur = "reason" /\ c.out = <<sig>> \o <<stop>>
    BY <1>2 DEF CloseBlock, Encoded
  <2> HIDE DEF c, sig, stop
  <2>6. CASE c.out = <<>> \o <<stop>>
    <3>1. <<>> \in Seq(Line) /\ s \o <<>> = s OBVIOUS
    <3>2. s \o c.out = Append(s, stop)
      <4>1. s \o (<<>> \o <<stop>>) = Append(s \o <<>>, stop) BY <2>1, <3>1, BatchGrows
      <4> QED BY <2>6, <3>1, <4>1, Zenon
    <3>3. Matched(Append(s, stop)) /\ InStep(Append(s, stop), c.enc)
      BY <1>0, <1>2, <2>1, <2>2, <2>3, <2>4, StopAppend
    <3>4. Append(s, stop) \in Seq(Line) BY <2>1
    <3> QED BY <2>3, <3>2, <3>3, <3>4 DEF c
  <2>7. CASE t.cur = "reason" /\ c.out = <<sig>> \o <<stop>>
    <3> DEFINE r == Append(s, sig)
    <3>1. <<sig>> \in Seq(Line) /\ r \in Seq(Line) BY <2>1
    <3>2. s \o c.out = Append(r, stop)
      <4>1. s \o (<<sig>> \o <<stop>>) = Append(s \o <<sig>>, stop) BY <2>1, <3>1, BatchGrows
      <4>2. s \o <<sig>> = r BY <2>1, BatchGrows
      <4> QED BY <2>7, <4>1, <4>2, Zenon
    <3>3. Matched(r) /\ InStep(r, t) BY <2>1, <2>2, <2>7, SignatureAppend
    <3> HIDE DEF r
    <3>4. Matched(Append(r, stop)) /\ InStep(Append(r, stop), c.enc)
      BY <1>0, <1>2, <2>1, <2>2, <2>3, <2>4, <3>1, <3>3, StopAppend
    <3>5. Append(r, stop) \in Seq(Line) BY <2>1, <3>1
    <3> QED BY <2>3, <3>2, <3>4, <3>5 DEF c
  <2> QED BY <2>5, <2>6, <2>7
<1> QED BY <1>1, <1>2

\* What opening a block writes closes the last block and opens this one.
LEMMA OpenInStep ==
    ASSUME NEW s \in Seq(Line), NEW t \in Encoder, NEW e \in Event, Matched(s), InStep(s, t),
           e.k \in ContentKinds, Numbered(e)
    PROVE  LET o == OpenBlock(t, e)
           IN  /\ Matched(s \o o.out) /\ InStep(s \o o.out, o.enc) /\ s \o o.out \in Seq(Line)
               /\ o.enc.cur = e.k /\ (e.k = "tool" => e.i \in o.enc.tools)
<1> DEFINE c == CloseBlock(t)
           o == OpenBlock(t, e)
           x == Ln("block_start", c.enc.idx, e.k, e.i, e.hd, <<>>)
           r == s \o c.out
<1>1. c.enc \in Encoder /\ c.out \in Seq(Line) /\ o.enc \in Encoder BY CloseFacts, OpenFacts
<1>2. Matched(r) /\ InStep(r, c.enc) /\ c.enc.cur = "none" /\ r \in Seq(Line)
  BY CloseInStep
<1>3. x \in Line
  BY <1>1, EventFields, EncoderFields, LnType, AtomSeq, ZenonT(30) DEF LineNames
<1>4. x.l = "block_start" /\ x.b = c.enc.idx /\ x.k = e.k /\ x.i = e.i BY DEF Ln
<1>5. c.enc.tools = {} /\ c.enc.open = {} BY <1>2 DEF InStep
<1>6. o.enc = [c.enc EXCEPT !.cur = e.k,
                            !.tools = IF e.k = "tool" THEN @ \cup {e.i} ELSE @,
                            !.open = IF e.k = "tool" THEN {e.i} ELSE @]
      /\ o.out = c.out \o <<x>>
  BY DEF OpenBlock, Encoded
<1> HIDE DEF c, o, x
<1>7. /\ o.enc.cur = e.k /\ o.enc.idx = c.enc.idx
      /\ o.enc.tools = (IF e.k = "tool" THEN {e.i} ELSE {}) /\ o.enc.open = o.enc.tools
  BY <1>1, <1>5, <1>6 DEF Encoder
<1>8. s \o o.out = Append(r, x) BY <1>1, <1>3, <1>6, BatchGrows
<1> HIDE DEF r
<1>9. e.k # "tool" => e.i = 0 BY DEF Numbered, ContentKinds
<1>10. Matched(Append(r, x)) /\ InStep(Append(r, x), o.enc)
  BY <1>1, <1>2, <1>3, <1>4, <1>7, <1>9, StartAppend
<1>11. Append(r, x) \in Seq(Line) BY <1>2, <1>3
<1>12. e.k = "tool" => e.i \in o.enc.tools BY <1>7
<1> QED BY <1>7, <1>8, <1>10, <1>11, <1>12 DEF o

\* The block of a content event is open, then comes its delta.
LEMMA ContentInStep ==
    ASSUME NEW s \in Seq(Line), NEW t \in Encoder, NEW e \in Event, Matched(s), InStep(s, t),
           e.k \in ContentKinds, Numbered(e)
    PROVE  LET o == IF e.k = "tool" THEN EncodeToolCall(t, e) ELSE EncodeTextual(t, e)
           IN  Matched(s \o o.out) /\ InStep(s \o o.out, o.enc)
<1> DEFINE Ready(b) == /\ b.enc \in Encoder /\ b.out \in Seq(Line) /\ s \o b.out \in Seq(Line)
                       /\ Matched(s \o b.out) /\ InStep(s \o b.out, b.enc)
                       /\ b.enc.cur = e.k /\ (e.k = "tool" => e.i \in b.enc.tools)
           Done(b) == Matched(s \o b.out) /\ InStep(s \o b.out, b.enc)
<1>1. ASSUME NEW b, Ready(b)
      PROVE  /\ Done(Encoded(b.enc, b.out \o <<Delta(b.enc, e)>>))
             /\ Done(Encoded(b.enc, b.out \o <<>>))
  <2> DEFINE x == Delta(b.enc, e)
             r == s \o b.out
  <2>1. x \in Line
    <3>1. "delta" \in LineNames /\ e.k \in EventKinds \cup {"none"} BY EventFields DEF LineNames
    <3>2. b.enc.idx \in Nat /\ e.i \in Nat /\ FALSE \in BOOLEAN /\ e.a \in Seq(Atom)
      BY <1>1, EncoderFields, EventFields
    <3> QED BY <3>1, <3>2, LnType, Zenon DEF Delta
  <2>2. Matched(Append(r, x)) /\ InStep(Append(r, x), b.enc) BY <1>1, <2>1, DeltaAppend
  <2> HIDE DEF x
  <2>3. s \o (b.out \o <<x>>) = Append(r, x) BY <1>1, <2>1, BatchGrows
  <2>4. b.out \o <<>> = b.out BY <1>1
  <2>5. /\ Encoded(b.enc, b.out \o <<x>>).enc = b.enc
        /\ Encoded(b.enc, b.out \o <<x>>).out = b.out \o <<x>>
        /\ Encoded(b.enc, b.out \o <<>>).enc = b.enc
        /\ Encoded(b.enc, b.out \o <<>>).out = b.out \o <<>>
    BY DEF Encoded
  <2>6. Done(Encoded(b.enc, b.out \o <<x>>)) BY <2>2, <2>3, <2>5, Zenon
  <2>7. Done(Encoded(b.enc, b.out \o <<>>)) BY <1>1, <2>4, <2>5, Zenon
  <2> QED BY <2>6, <2>7 DEF x
<1>2. Ready(OpenBlock(t, e)) BY OpenInStep, OpenFacts
<1>3. ASSUME t.cur = e.k, e.k = "tool" => e.i \in t.tools PROVE Ready(Encoded(t, <<>>))
  <2>1. Encoded(t, <<>>).enc = t /\ Encoded(t, <<>>).out = <<>> BY DEF Encoded
  <2>2. s \o <<>> = s /\ <<>> \in Seq(Line) OBVIOUS
  <2> QED BY <1>3, <2>1, <2>2
<1>4. e.k = "tool" /\ e.i \in t.tools => t.cur = e.k BY DEF InStep
<1> HIDE DEF Ready, Done
<1>5. CASE e.k = "tool"
  <2> DEFINE b == IF e.i \in t.tools THEN Encoded(t, <<>>) ELSE OpenBlock(t, e)
  <2>1. Ready(b) BY <1>2, <1>3, <1>4, <1>5
  <2>2. EncodeToolCall(t, e)
          = Encoded(b.enc, b.out \o (IF e.a = <<>> THEN <<>> ELSE <<Delta(b.enc, e)>>))
    BY DEF EncodeToolCall
  <2> HIDE DEF b
  <2>3. Done(EncodeToolCall(t, e)) BY <1>1, <2>1, <2>2
  <2> QED BY <1>5, <2>3 DEF Done
<1>6. CASE e.k # "tool"
  <2> DEFINE b == IF t.cur = e.k THEN Encoded(t, <<>>) ELSE OpenBlock(t, e)
  <2>1. Ready(b) BY <1>2, <1>3, <1>6
  <2>2. EncodeTextual(t, e) = Encoded(b.enc, b.out \o <<Delta(b.enc, e)>>) BY DEF EncodeTextual
  <2> HIDE DEF b
  <2>3. Done(EncodeTextual(t, e)) BY <1>1, <2>1, <2>2
  <2> QED BY <1>6, <2>3 DEF Done
<1> QED BY <1>5, <1>6

\* Whatever the event, the Anthropic encoder's lines continue a well-formed
\* stream and leave the encoder in step with it.
LEMMA EncodeInStep ==
    ASSUME NEW s \in Seq(Line), NEW t \in Encoder, NEW e \in Event, Matched(s), InStep(s, t),
           Numbered(e)
    PROVE  LET o == EncodeAnthropic(t, e)
           IN  Matched(s \o o.out) /\ InStep(s \o o.out, o.enc)
<1> DEFINE c == CloseBlock(t)
           o == EncodeAnthropic(t, e)
           r == s \o c.out
<1>0. e.k \in EventKinds /\ e.hd \in BOOLEAN BY EventFields
<1>1. c.enc \in Encoder /\ c.out \in Seq(Line) BY CloseFacts
<1>2. Matched(r) /\ InStep(r, c.enc) /\ c.enc.cur = "none" /\ r \in Seq(Line)
  BY CloseInStep
<1>3. CASE e.k = "start"
  <2> DEFINE x == Bare("message_start")
  <2>1. o.enc = t /\ o.out = <<x>> BY <1>3 DEF EncodeAnthropic, Encoded
  <2>2. x \in Line /\ x.l = "message_start" BY BareType DEF LineNames
  <2> HIDE DEF x
  <2>3. s \o <<x>> = Append(s, x) BY <2>2
  <2> QED BY <2>1, <2>2, <2>3, PlainAppend
<1>4. CASE e.k \in ContentKinds
  <2>1. o = IF e.k = "tool" THEN EncodeToolCall(t, e) ELSE EncodeTextual(t, e)
    BY <1>4 DEF EncodeAnthropic, ContentKinds
  <2> HIDE DEF o
  <2>2. Matched(s \o o.out) /\ InStep(s \o o.out, o.enc) BY <1>4, <2>1, ContentInStep
  <2> QED BY <2>2 DEF o
<1>5. CASE e.k = "signature"
  <2>1. o.enc = [t EXCEPT !.sig = e.a] /\ o.out = <<>> BY <1>5 DEF EncodeAnthropic, Encoded
  <2>2. /\ o.enc.cur = t.cur /\ o.enc.idx = t.idx /\ o.enc.tools = t.tools /\ o.enc.open = t.open
    BY <2>1 DEF Encoder
  <2>3. s \o <<>> = s OBVIOUS
  <2> HIDE DEF o
  <2>4. InStep(s, o.enc) BY <2>2 DEF InStep, OpenAt
  <2> QED BY <2>1, <2>3, <2>4 DEF o
<1>6. CASE e.k = "stop"
  <2> DEFINE x == Ln("message_delta", 0, "none", 0, e.hd, <<>>)
             y == Bare("message_stop")
  <2>1. o.enc = c.enc /\ o.out = c.out \o <<x, y>> BY <1>6 DEF EncodeAnthropic, Encoded
  <2>2. x \in Line /\ x.l = "message_delta"
    BY EventFields, AtomSeq DEF Ln, Line, LineNames
  <2>3. y \in Line /\ y.l = "message_stop" BY BareType DEF LineNames
  <2> HIDE DEF x, y, c, o
  <2>4. s \o (c.out \o <<x, y>>) = Append(Append(r, x), y)
    <3>1. c.out \o <<x, y>> = (c.out \o <<x>>) \o <<y>>
      <4>1. <<x>> \in Seq(Line) /\ <<y>> \in Seq(Line) BY <2>2, <2>3
      <4>2. <<x, y>> = <<x>> \o <<y>>
        <5> DEFINE a == <<x, y>>
                   b == <<x>> \o <<y>>
        <5>1. a \in Seq(Line) /\ Len(a) = 2 /\ a[1] = x /\ a[2] = y BY <2>2, <2>3
        <5>2. b \in Seq(Line) /\ Len(b) = 2 /\ b[1] = x /\ b[2] = y BY <4>1
        <5> HIDE DEF a, b
        <5>3. \A n \in 1 .. Len(a) : n = 1 \/ n = 2 BY <5>1
        <5>4. a = b BY <5>1, <5>2, <5>3, SeqEqual
        <5> QED BY <5>4 DEF a, b
      <4> QED BY <1>1, <4>1, <4>2, ConcatAssociative
    <3>2. c.out \o <<x>> \in Seq(Line) BY <1>1, <2>2
    <3>3. s \o ((c.out \o <<x>>) \o <<y>>) = Append(s \o (c.out \o <<x>>), y)
      BY <2>3, <3>2, BatchGrows
    <3>4. s \o (c.out \o <<x>>) = Append(r, x) BY <1>1, <2>2, BatchGrows
    <3> QED BY <3>1, <3>3, <3>4, Zenon
  <2> HIDE DEF r
  <2>5. Append(r, x) \in Seq(Line) BY <1>2, <2>2
  <2>6. Matched(Append(r, x)) /\ InStep(Append(r, x), c.enc) BY <1>1, <1>2, <2>2, PlainAppend
  <2>7. /\ Matched(Append(Append(r, x), y))
        /\ InStep(Append(Append(r, x), y), c.enc)
    BY <1>1, <1>2, <2>3, <2>5, <2>6, EndAppend
  <2>8. Matched(s \o o.out) /\ InStep(s \o o.out, o.enc) BY <2>1, <2>4, <2>7, Zenon
  <2> QED BY <2>8 DEF o
<1>7. CASE e.k = "error"
  <2> DEFINE x == Bare("error")
  <2>1. o.enc = c.enc /\ o.out = c.out \o <<x>> BY <1>7 DEF EncodeAnthropic, Encoded
  <2>2. x \in Line /\ x.l = "error" BY BareType DEF LineNames
  <2> HIDE DEF x, c, o
  <2>3. s \o (c.out \o <<x>>) = Append(r, x) BY <1>1, <2>2, BatchGrows
  <2> HIDE DEF r
  <2>4. Matched(Append(r, x)) /\ InStep(Append(r, x), c.enc) BY <1>1, <1>2, <2>2, EndAppend
  <2>5. Matched(s \o o.out) /\ InStep(s \o o.out, o.enc) BY <2>1, <2>3, <2>4, Zenon
  <2> QED BY <2>5 DEF o
<1> QED BY <1>0, <1>3, <1>4, <1>5, <1>6, <1>7 DEF EventKinds

-------------------------------------------------------------------------------
(* How the decoders number tool calls. *)

AllNumbered(s) == \A n \in 1 .. Len(s) : Numbered(s[n])

\* Numbering is a matter of single events.
LEMMA NumberedConcat ==
    ASSUME NEW a \in Seq(Event), NEW b \in Seq(Event), AllNumbered(a), AllNumbered(b)
    PROVE  AllNumbered(a \o b)
<1> SUFFICES ASSUME NEW n \in 1 .. Len(a \o b) PROVE Numbered((a \o b)[n]) BY DEF AllNumbered
<1>1. CASE n <= Len(a)
  <2>1. n \in 1 .. Len(a) /\ (a \o b)[n] = a[n] BY <1>1
  <2> QED BY <2>1 DEF AllNumbered
<1>2. CASE n > Len(a)
  <2>1. n - Len(a) \in 1 .. Len(b) /\ (a \o b)[n] = b[n - Len(a)] BY <1>2
  <2> QED BY <2>1 DEF AllNumbered
<1> QED BY <1>1, <1>2

\* One event, or none.
LEMMA NumberedOne ==
    /\ AllNumbered(<<>>)
    /\ \A e \in Event : Numbered(e) => AllNumbered(<<e>>)
<1>1. AllNumbered(<<>>) BY DEF AllNumbered
<1>2. ASSUME NEW e \in Event, Numbered(e) PROVE AllNumbered(<<e>>)
  <2>1. Len(<<e>>) = 1 /\ <<e>>[1] = e OBVIOUS
  <2>2. \A n \in 1 .. Len(<<e>>) : n = 1 BY <2>1
  <2> QED BY <1>2, <2>1, <2>2 DEF AllNumbered
<1> QED BY <1>1, <1>2

\* Start, error and stop are no content.
LEMMA NumberedPlain ==
    ASSUME NEW d \in Decoder
    PROVE  AllNumbered(StartOnce(d)) /\ AllNumbered(ErrorPayload(d).ev) /\ Numbered(StopEvent(d))
<1>1. Plain("start") \in Event /\ Plain("start").k = "start" BY PlainType DEF EventKinds
<1>2. Plain("error") \in Event /\ Plain("error").k = "error" BY PlainType DEF EventKinds
<1>3. Numbered(Plain("start")) /\ Numbered(Plain("error")) BY <1>1, <1>2 DEF Numbered
<1>4. AllNumbered(StartOnce(d)) BY <1>1, <1>3, NumberedOne DEF StartOnce
<1>5. AllNumbered(ErrorPayload(d).ev) BY <1>2, <1>3, NumberedOne DEF ErrorPayload, Fed
<1> QED BY <1>4, <1>5, StopType DEF Numbered

\* Whatever the upstream, a decoder numbers tool calls only.
LEMMA FeedNumbered ==
    ASSUME NEW u \in Upstreams, NEW d \in Decoder, NEW p \in Sendable(u), NEW n \in Nat
    PROVE  AllNumbered(Feed(u, d, p, n).ev)
<1>0. p \in Payload /\ Len(p.parts) \in Nat /\ p.t \in PayloadTypes BY DEF Sendable, Payload
<1>s. StartOnce(d) \in Seq(Event) BY StartType
<1>1. CASE u = "openai"
  <2> DEFINE evs == [j \in 1 .. Len(p.parts) |-> OpenAIPart(d, p, n, j)]
             r == FeedOpenAI(d, p, n)
  <2>1. evs \in Seq(Event) /\ Len(evs) = Len(p.parts) BY <1>0, OpenAIPartType
  <2>2. AllNumbered(evs)
    <3>1. \A j \in 1 .. Len(p.parts) : Numbered(evs[j]) BY DEF OpenAIPart, Ev, Numbered
    <3> QED BY <2>1, <3>1 DEF AllNumbered
  <2>3. \/ r.ev = ErrorPayload(d).ev
        \/ r.ev = <<>>
        \/ r.ev = StartOnce(d) \o evs
    BY DEF FeedOpenAI, Fed
  <2> HIDE DEF evs, r
  <2>4. AllNumbered(r.ev)
    BY <1>s, <2>1, <2>2, <2>3, NumberedConcat, NumberedOne, NumberedPlain
  <2> QED BY <1>1, <2>4 DEF Feed, r
<1>2. CASE u = "anthropic"
  <2> DEFINE r == FeedAnthropic(d, p, n)
             sig == Ev("signature", 0, FALSE, <<<<n, 1>>>>)
  <2>1. Plain("start") \in Event /\ Numbered(Plain("start"))
    BY PlainType DEF EventKinds, Numbered
  <2>2. sig \in Event /\ Numbered(sig)
    <3>1. sig \in Event BY EvType, AtomSeq DEF EventKinds
    <3> QED BY <3>1 DEF Ev, Numbered
  <2>3. p.t = "content" => AnthropicPart(p, n) \in Event /\ Numbered(AnthropicPart(p, n))
    <3> SUFFICES ASSUME p.t = "content"
                 PROVE  AnthropicPart(p, n) \in Event /\ Numbered(AnthropicPart(p, n))
      OBVIOUS
    <3>1. 1 \in 1 .. Len(p.parts)
      <4>1. Len(p.parts) = 1 BY <1>2 DEF Sendable
      <4> QED BY <4>1
    <3> DEFINE q == p.parts[1]
    <3>2. q.k \in ContentKinds /\ q.i \in Nat /\ q.hd \in BOOLEAN /\ q.c \in BOOLEAN
      BY <1>0, <3>1, PartType
    <3>3. Numbered(AnthropicPart(p, n)) BY <3>2 DEF AnthropicPart, Ev, Numbered
    <3>4. AnthropicPart(p, n) \in Event
      <4> DEFINE i == IF q.k = "tool" THEN q.i ELSE 0
                 h == q.k = "tool" /\ ~q.c /\ q.hd
                 a == IF q.c \/ q.k # "tool" THEN <<<<n, 1>>>> ELSE <<>>
      <4>1. i \in Nat /\ h \in BOOLEAN BY <3>2
      <4>2. a \in Seq(Atom) BY AtomSeq
      <4>3. AnthropicPart(p, n) = Ev(q.k, i, h, a) BY DEF AnthropicPart
      <4> HIDE DEF i, h, a, q
      <4> QED BY <3>2, <4>1, <4>2, <4>3, EvType DEF EventKinds
    <3> QED BY <3>3, <3>4
  <2>4. StopEvent(d) \in Event /\ Numbered(StopEvent(d)) BY StopType, NumberedPlain
  <2>5. \/ r.ev = <<Plain("start")>>
        \/ p.t = "content" /\ r.ev = <<AnthropicPart(p, n)>>
        \/ r.ev = <<sig>> \/ r.ev = <<>> \/ r.ev = <<StopEvent(d)>>
        \/ r.ev = ErrorPayload(d).ev
    BY <1>0 DEF FeedAnthropic, Fed, PayloadTypes
  <2> HIDE DEF r, sig
  <2>6. AllNumbered(r.ev) BY <2>1, <2>2, <2>3, <2>4, <2>5, NumberedOne, NumberedPlain
  <2> QED BY <1>2, <2>6 DEF Feed, r
<1>3. CASE u = "gemini"
  <2> DEFINE evs == [j \in 1 .. Len(p.parts) |-> GeminiPart(d, p, n, j)]
             finish == d.finish \/ p.fin
             x == Ev("stop", 0, finish, <<>>)
             last == IF finish /\ ~d.stopped THEN <<x>> ELSE <<>>
             r == FeedGemini(d, p, n)
  <2>1. evs \in Seq(Event) /\ Len(evs) = Len(p.parts) BY <1>0, GeminiPartType
  <2>2. AllNumbered(evs)
    <3>1. \A j \in 1 .. Len(p.parts) : Numbered(evs[j]) BY DEF GeminiPart, Ev, Numbered
    <3> QED BY <2>1, <3>1 DEF AllNumbered
  <2>3. x \in Event /\ Numbered(x)
    <3>1. finish \in BOOLEAN OBVIOUS
    <3>2. x \in Event BY <3>1, EvType, AtomSeq DEF EventKinds
    <3> QED BY <3>2 DEF Ev, Numbered
  <2> HIDE DEF x
  <2>4. last \in Seq(Event) /\ AllNumbered(last) BY <2>3, NumberedOne
  <2>5. \/ r.ev = ErrorPayload(d).ev
        \/ r.ev = <<>>
        \/ r.ev = (StartOnce(d) \o evs) \o last
    BY DEF FeedGemini, Fed, x
  <2> HIDE DEF evs, r, last
  <2>6. StartOnce(d) \o evs \in Seq(Event) /\ AllNumbered(StartOnce(d) \o evs)
    BY <1>s, <2>1, <2>2, NumberedConcat, NumberedPlain
  <2>7. AllNumbered(r.ev)
    BY <2>4, <2>5, <2>6, NumberedConcat, NumberedOne, NumberedPlain
  <2> QED BY <1>3, <2>7 DEF Feed, r
<1> QED BY <1>1, <1>2, <1>3 DEF Upstreams

\* The tool calls among events s carry id and name and are numbered upwards,
\* from lo on and below hi.
CallsFrom(s, lo, hi) ==
    \A n \in 1 .. Len(s) : s[n].k = "tool" =>
        /\ s[n].hd
        /\ lo <= s[n].i /\ s[n].i < hi
        /\ \A m \in 1 .. n - 1 : s[m].k = "tool" => s[m].i < s[n].i

\* The Gemini decoder numbers every call of its stream, in order.
LEMMA GeminiCalls ==
    ASSUME NEW d \in Decoder, NEW p \in Payload, NEW n \in Nat
    PROVE  LET r == FeedGemini(d, p, n)
           IN  /\ r.dec.next \in Nat /\ d.next <= r.dec.next
               /\ CallsFrom(r.ev, d.next, r.dec.next)
<1> DEFINE r == FeedGemini(d, p, n)
           L == Len(p.parts)
           T(j) == {m \in 1 .. j : p.parts[m].k = "tool"}
<1>0. L \in Nat /\ d.next \in Nat BY DEF Payload, Decoder
<1>1. CASE p.t # "content"
  <2>1. r.dec.next = d.next BY <1>1 DEF FeedGemini, ErrorPayload, Fed, Decoder
  <2>2. r.ev = <<>> \/ r.ev = <<Plain("error")>> BY <1>1 DEF FeedGemini, ErrorPayload, Fed
  <2>3. Plain("error") \in Event /\ Plain("error").k = "error" BY PlainType DEF EventKinds
  <2>4. \A k \in 1 .. Len(r.ev) : r.ev[k].k # "tool"
    <3>1. CASE r.ev = <<>> BY <3>1
    <3>2. CASE r.ev = <<Plain("error")>>
      <4>1. Len(r.ev) = 1 /\ r.ev[1].k = "error" BY <2>3, <3>2
      <4>2. \A k \in 1 .. Len(r.ev) : k = 1 BY <4>1
      <4> QED BY <4>1, <4>2
    <3> QED BY <2>2, <3>1, <3>2
  <2> HIDE DEF r
  <2>5. r.dec.next \in Nat /\ d.next <= r.dec.next /\ CallsFrom(r.ev, d.next, r.dec.next)
    BY <1>0, <2>1, <2>4 DEF CallsFrom
  <2> QED BY <2>5 DEF r
<1>2. CASE p.t = "content"
  <2> DEFINE evs == [j \in 1 .. L |-> GeminiPart(d, p, n, j)]
             finish == d.finish \/ p.fin
             x == Ev("stop", 0, finish, <<>>)
             last == IF finish /\ ~d.stopped THEN <<x>> ELSE <<>>
             st == StartOnce(d)
             C(j) == Cardinality(T(j))
  <2>1. \A j \in 0 .. L : IsFiniteSet(T(j)) /\ C(j) \in Nat
    <3> TAKE j \in 0 .. L
    <3>1. IsFiniteSet(1 .. j) BY <1>0, FS_Interval
    <3>2. T(j) \in SUBSET (1 .. j) OBVIOUS
    <3>3. IsFiniteSet(T(j)) BY <3>1, <3>2, FS_Subset
    <3> QED BY <3>3, FS_CardinalityType
  <2>2. ASSUME NEW i \in 0 .. L, NEW j \in 0 .. L, i <= j PROVE C(i) <= C(j)
    <3>1. T(i) \in SUBSET T(j) BY <1>0, <2>2
    <3> QED BY <2>1, <3>1, FS_Subset
  <2>3. ASSUME NEW j \in 1 .. L, p.parts[j].k = "tool"
        PROVE  C(j) = C(j - 1) + 1 /\ C(j - 1) \in Nat
    <3>1. j - 1 \in 0 .. L /\ j \notin T(j - 1) BY <1>0
    <3>2. T(j) = T(j - 1) \cup {j} BY <1>0, <2>3
    <3>3. IsFiniteSet(T(j - 1)) /\ C(j - 1) \in Nat BY <2>1, <3>1
    <3> HIDE DEF T
    <3> QED BY <3>1, <3>2, <3>3, FS_AddElement
  <2>4. r.dec.next = d.next + C(L)
    BY <1>2 DEF FeedGemini, Fed, Decoder
  <2>5. r.ev = (st \o evs) \o last BY <1>2 DEF FeedGemini, Fed
  <2>6. evs \in Seq(Event) /\ Len(evs) = L /\ st \in Seq(Event)
    BY <1>0, GeminiPartType, StartType
  <2>7. ASSUME NEW j \in 1 .. L
        PROVE  /\ evs[j].k = p.parts[j].k
               /\ p.parts[j].k = "tool" => evs[j].hd /\ evs[j].i = d.next + C(j - 1)
    BY DEF GeminiPart, Ev
  <2>8. last \in Seq(Event) /\ \A k \in 1 .. Len(last) : last[k].k # "tool"
    <3>1. finish \in BOOLEAN OBVIOUS
    <3>2. x \in Event BY <3>1, EvType, AtomSeq DEF EventKinds
    <3>3. x.k = "stop" BY DEF Ev
    <3> HIDE DEF x
    <3>4. CASE last = <<>> BY <3>4
    <3>5. CASE last = <<x>>
      <4>1. \A k \in 1 .. Len(<<x>>) : <<x>>[k] = x BY <3>2
      <4> QED BY <3>2, <3>3, <3>5, <4>1
    <3> QED BY <3>4, <3>5
  <2>9. \A k \in 1 .. Len(st) : st[k].k # "tool" BY DEF StartOnce, Plain, Ev
  <2> HIDE DEF evs, last, st, C, T, r, L
  <2>10. ASSUME NEW k \in 1 .. Len(r.ev), r.ev[k].k = "tool"
         PROVE  k - Len(st) \in 1 .. L /\ r.ev[k] = evs[k - Len(st)]
    <3>1. Len(st) \in Nat /\ Len(last) \in Nat /\ Len(st \o evs) = Len(st) + L
          /\ st \o evs \in Seq(Event)
      <4>1. Len(st) \in Nat /\ Len(last) \in Nat BY <2>6, <2>8, LenProperties
      <4>2. st \o evs \in Seq(Event) /\ Len(st \o evs) = Len(st) + Len(evs)
        BY <2>6, ConcatProperties
      <4> QED BY <2>6, <4>1, <4>2, Zenon
    <3>2. CASE k <= Len(st)
      <4>1. k \in 1 .. Len(st) /\ r.ev[k] = st[k] BY <2>5, <2>6, <2>8, <3>1, <3>2
      <4> QED BY <2>9, <2>10, <4>1
    <3>3. CASE k > Len(st) + L
      <4>1. k - (Len(st) + L) \in 1 .. Len(last) /\ r.ev[k] = last[k - (Len(st) + L)]
        BY <1>0, <2>5, <2>8, <3>1, <3>3
      <4> QED BY <2>8, <2>10, <4>1
    <3>4. CASE k > Len(st) /\ k <= Len(st) + L
      <4>1. r.ev[k] = (st \o evs)[k] BY <1>0, <2>5, <2>8, <3>1, <3>4
      <4>2. k - Len(st) \in 1 .. L /\ (st \o evs)[k] = evs[k - Len(st)]
        BY <1>0, <2>6, <3>1, <3>4
      <4> QED BY <4>1, <4>2
    <3>5. k \in Int /\ Len(st) \in Int BY <3>1
    <3> QED BY <1>0, <3>2, <3>3, <3>4, <3>5
  <2>11. ASSUME NEW k \in 1 .. Len(r.ev), r.ev[k].k = "tool"
         PROVE  /\ r.ev[k].hd /\ d.next <= r.ev[k].i /\ r.ev[k].i < r.dec.next
                /\ \A m \in 1 .. k - 1 : r.ev[m].k = "tool" => r.ev[m].i < r.ev[k].i
    <3> DEFINE j == k - Len(st)
    <3>0. Len(st) \in Nat /\ Len(r.ev) \in Nat BY <2>5, <2>6, <2>8
    <3>1. j \in 1 .. L /\ r.ev[k] = evs[j] BY <2>10, <2>11
    <3> HIDE DEF j
    <3>2. p.parts[j].k = "tool" /\ evs[j].hd /\ evs[j].i = d.next + C(j - 1) BY <2>7, <2>11, <3>1
    <3>3. C(j) = C(j - 1) + 1 /\ C(j - 1) \in Nat BY <2>3, <3>1, <3>2
    <3>4. C(j) <= C(L) /\ C(L) \in Nat BY <1>0, <2>1, <2>2, <3>1
    <3>5. ASSUME NEW m \in 1 .. k - 1, r.ev[m].k = "tool" PROVE r.ev[m].i < r.ev[k].i
      <4> DEFINE i == m - Len(st)
      <4>1. m \in 1 .. Len(r.ev) BY <3>0
      <4>2. i \in 1 .. L /\ r.ev[m] = evs[i] /\ i <= j - 1 BY <2>10, <3>0, <3>5, <4>1 DEF j
      <4> HIDE DEF i
      <4>3. p.parts[i].k = "tool" /\ evs[i].i = d.next + C(i - 1) BY <2>7, <3>5, <4>2
      <4>4. C(i) = C(i - 1) + 1 /\ C(i - 1) \in Nat BY <2>3, <4>2, <4>3
      <4>5. C(i) <= C(j - 1) BY <1>0, <2>2, <3>1, <4>2
      <4> QED BY <1>0, <3>1, <3>2, <3>3, <4>2, <4>3, <4>4, <4>5
    <3> QED BY <1>0, <2>4, <3>1, <3>2, <3>3, <3>4, <3>5
  <2>12. C(L) \in Nat BY <1>0, <2>1
  <2>13. r.dec.next \in Nat /\ d.next <= r.dec.next BY <1>0, <2>4, <2>12
  <2>14. CallsFrom(r.ev, d.next, r.dec.next) BY <2>11 DEF CallsFrom
  <2> QED BY <2>13, <2>14 DEF r
<1> QED BY <1>1, <1>2

-------------------------------------------------------------------------------
(* Which lines start a tool block. *)

Starts(s) == {n \in 1 .. Len(s) : s[n].l = "block_start" /\ s[n].k = "tool"}

\* Lines s start at most one tool block, that of tool event e.
OneStart(s, e) ==
    \A n \in Starts(s) : /\ e.k = "tool" /\ s[n].i = e.i /\ s[n].hd = e.hd
                         /\ \A m \in Starts(s) : m = n

\* Where the starts of concatenated lines come from.
LEMMA StartsConcat ==
    ASSUME NEW a \in Seq(Line), NEW b \in Seq(Line)
    PROVE  \A n \in Starts(a \o b) :
              \/ n \in Starts(a) /\ (a \o b)[n] = a[n] /\ n <= Len(a)
              \/ n - Len(a) \in Starts(b) /\ (a \o b)[n] = b[n - Len(a)] /\ n > Len(a)
<1> SUFFICES ASSUME NEW n \in Starts(a \o b)
             PROVE  \/ n \in Starts(a) /\ (a \o b)[n] = a[n] /\ n <= Len(a)
                    \/ n - Len(a) \in Starts(b) /\ (a \o b)[n] = b[n - Len(a)] /\ n > Len(a)
  OBVIOUS
<1>0. n \in 1 .. Len(a \o b) /\ (a \o b)[n].l = "block_start" /\ (a \o b)[n].k = "tool"
  BY DEF Starts
<1>1. CASE n <= Len(a)
  <2>1. n \in 1 .. Len(a) /\ (a \o b)[n] = a[n] BY <1>0, <1>1
  <2> QED BY <1>0, <1>1, <2>1 DEF Starts
<1>2. CASE n > Len(a)
  <2>1. n - Len(a) \in 1 .. Len(b) /\ (a \o b)[n] = b[n - Len(a)] BY <1>0, <1>2
  <2> QED BY <1>0, <1>2, <2>1 DEF Starts
<1>3. n <= Len(a) \/ n > Len(a) BY <1>0
<1> QED BY <1>1, <1>2, <1>3, Zenon

\* Lines without a start add none.
LEMMA OneStartConcat ==
    ASSUME NEW a \in Seq(Line), NEW b \in Seq(Line), NEW e
    PROVE  /\ OneStart(a, e) /\ Starts(b) = {} => OneStart(a \o b, e)
           /\ Starts(a) = {} /\ OneStart(b, e) => OneStart(a \o b, e)
<1>0. Len(a) \in Nat /\ Starts(a \o b) \subseteq Int BY DEF Starts
<1>1. ASSUME OneStart(a, e), Starts(b) = {} PROVE OneStart(a \o b, e)
  <2>1. \A n \in Starts(a \o b) : n \in Starts(a) /\ (a \o b)[n] = a[n]
    BY <1>1, StartsConcat
  <2> QED BY <1>1, <2>1 DEF OneStart
<1>2. ASSUME Starts(a) = {}, OneStart(b, e) PROVE OneStart(a \o b, e)
  <2>1. \A n \in Starts(a \o b) : n - Len(a) \in Starts(b) /\ (a \o b)[n] = b[n - Len(a)]
    BY <1>2, StartsConcat
  <2>2. \A m, n \in Starts(a \o b) : m - Len(a) = n - Len(a) => m = n BY <1>0
  <2> QED BY <1>2, <2>1, <2>2 DEF OneStart
<1> QED BY <1>1, <1>2

\* Lines of other names.
LEMMA NoStart ==
    ASSUME NEW s, NEW N, AllNamed(s, N), "block_start" \notin N
    PROVE  Starts(s) = {}
BY DEF AllNamed, Starts

\* One line.
LEMMA StartOne ==
    ASSUME NEW x \in Line, NEW e
    PROVE  /\ x.l # "block_start" => Starts(<<x>>) = {}
           /\ (x.l = "block_start" /\ x.k = "tool" => e.k = "tool" /\ x.i = e.i /\ x.hd = e.hd)
                => OneStart(<<x>>, e)
<1>1. Len(<<x>>) = 1 /\ <<x>>[1] = x OBVIOUS
<1>2. \A n \in 1 .. Len(<<x>>) : n = 1 BY <1>1
<1> QED BY <1>1, <1>2 DEF Starts, OneStart

\* An encoder starts a tool block for a tool call only, and no second one.
LEMMA EncodeStarts ==
    ASSUME NEW client, NEW t \in Encoder, NEW e \in Event
    PROVE  OneStart(Encode(client, t, e).out, e)
<1> DEFINE o == Encode(client, t, e)
<1>0. Starts(<<>>) = {} /\ OneStart(<<>>, e) BY DEF Starts, OneStart
<1>a. Answer(o, e) BY EncodeAnswer
<1>1. CASE e.k \notin ContentKinds
  <2>1. "block_start" \notin NamesFor(e)
    BY <1>1, EventFields DEF NamesFor, EventKinds
  <2>2. Starts(o.out) = {} BY <1>a, <2>1, NoStart DEF Answer
  <2> QED BY <2>2 DEF OneStart
<1>2. CASE e.k \in ContentKinds /\ client # "anthropic"
  <2> DEFINE x == Ln("delta", 0, e.k, e.i, e.hd, e.a)
  <2>1. o.out = <<x>> BY <1>2 DEF Encode, EncodeOpenAI, Encoded, ContentKinds
  <2>2. x \in Line /\ x.l = "delta" BY EventFields, LnType DEF LineNames
  <2> HIDE DEF x
  <2> QED BY <2>1, <2>2, StartOne
<1>3. CASE e.k \in ContentKinds /\ client = "anthropic"
  <2> DEFINE c == CloseBlock(t)
             x == Ln("block_start", c.enc.idx, e.k, e.i, e.hd, <<>>)
             Good(b) == b.enc \in Encoder /\ b.out \in Seq(Line) /\ OneStart(b.out, e)
  <2>1. Good(OpenBlock(t, e))
    <3>1. /\ c.enc \in Encoder /\ c.out \in Seq(Line)
          /\ AllNamed(c.out, {"signature", "block_stop"})
      BY CloseFacts
    <3>2. Starts(c.out) = {} BY <3>1, NoStart
    <3>3. OpenBlock(t, e).out = c.out \o <<x>> BY DEF OpenBlock, Encoded
    <3>4. x \in Line
      BY <3>1, EventFields, EncoderFields, LnType, AtomSeq, ZenonT(30) DEF LineNames
    <3>5. x.i = e.i /\ x.k = e.k /\ x.hd = e.hd BY DEF Ln
    <3> HIDE DEF c, x
    <3>6. <<x>> \in Seq(Line) /\ OneStart(<<x>>, e) BY <3>4, <3>5, StartOne
    <3>7. OneStart(c.out \o <<x>>, e) BY <3>1, <3>2, <3>6, OneStartConcat
    <3> QED BY <1>3, <3>3, <3>7, OpenFacts
  <2>2. Good(Encoded(t, <<>>)) BY <1>0 DEF Encoded
  <2>3. ASSUME NEW b, Good(b)
        PROVE  OneStart(b.out \o <<Delta(b.enc, e)>>, e) /\ OneStart(b.out \o <<>>, e)
    <3> DEFINE y == Delta(b.enc, e)
    <3>1. y \in Line /\ y.l = "delta"
      <4>1. "delta" \in LineNames /\ e.k \in EventKinds \cup {"none"} BY EventFields DEF LineNames
      <4>2. b.enc.idx \in Nat /\ e.i \in Nat /\ FALSE \in BOOLEAN /\ e.a \in Seq(Atom)
        BY <2>3, EncoderFields, EventFields
      <4> QED BY <4>1, <4>2 DEF Delta, Ln, Line
    <3> HIDE DEF y
    <3>2. <<y>> \in Seq(Line) /\ Starts(<<y>>) = {} BY <3>1, StartOne
    <3>3. OneStart(b.out \o <<y>>, e) BY <2>3, <3>2, OneStartConcat
    <3>4. b.out \o <<>> = b.out BY <2>3
    <3> QED BY <2>3, <3>3, <3>4 DEF y
  <2> HIDE DEF Good
  <2>4. CASE e.k = "tool"
    <3> DEFINE b == IF e.i \in t.tools THEN Encoded(t, <<>>) ELSE OpenBlock(t, e)
    <3>1. Good(b) BY <2>1, <2>2
    <3>2. o.out = b.out \o (IF e.a = <<>> THEN <<>> ELSE <<Delta(b.enc, e)>>)
      BY <1>3, <2>4 DEF Encode, EncodeAnthropic, EncodeToolCall, Encoded
    <3> HIDE DEF b, o
    <3>3. OneStart(o.out, e) BY <2>3, <3>1, <3>2
    <3> QED BY <3>3 DEF o
  <2>5. CASE e.k # "tool"
    <3> DEFINE b == IF t.cur = e.k THEN Encoded(t, <<>>) ELSE OpenBlock(t, e)
    <3>1. Good(b) BY <2>1, <2>2
    <3>2. o.out = b.out \o <<Delta(b.enc, e)>>
      BY <1>3, <2>5 DEF Encode, EncodeAnthropic, EncodeTextual, Encoded, ContentKinds
    <3> HIDE DEF b, o
    <3>3. OneStart(o.out, e) BY <2>3, <3>1, <3>2
    <3> QED BY <3>3 DEF o
  <2> QED BY <2>4, <2>5
<1> QED BY <1>1, <1>2, <1>3

\* Tool blocks of lines s are numbered upwards.
Rising(s) == \A m, n \in Starts(s) : m < n => s[m].i < s[n].i

\* A new tool block numbered above all others keeps the numbers rising.
LEMMA RisingConcat ==
    ASSUME NEW s \in Seq(Line), NEW a \in Seq(Line), NEW e \in Event, Rising(s), OneStart(a, e),
           e.k = "tool" => \A n \in Starts(s) : s[n].i < e.i
    PROVE  /\ Rising(s \o a)
           /\ \A n \in Starts(s \o a) :
                 \/ n \in Starts(s) /\ (s \o a)[n] = s[n]
                 \/ e.k = "tool" /\ (s \o a)[n].i = e.i /\ (s \o a)[n].hd = e.hd
<1> DEFINE u == s \o a
<1>0. Len(s) \in Nat /\ Starts(u) \subseteq Int BY DEF Starts
<1>1. \A n \in Starts(u) :
              \/ n \in Starts(s) /\ u[n] = s[n] /\ n <= Len(s)
              \/ n - Len(s) \in Starts(a) /\ u[n] = a[n - Len(s)] /\ n > Len(s)
  BY StartsConcat
<1> HIDE DEF u
<1>2. ASSUME NEW n \in Starts(u), n > Len(s)
      PROVE  /\ n - Len(s) \in Starts(a)
             /\ e.k = "tool" /\ u[n].i = e.i /\ u[n].hd = e.hd
  <2>1. n \in Int BY <1>0
  <2>2. n - Len(s) \in Starts(a) /\ u[n] = a[n - Len(s)] BY <1>0, <1>1, <1>2, <2>1
  <2> QED BY <2>2 DEF OneStart
<1>3. ASSUME NEW m \in Starts(u), NEW n \in Starts(u), m < n PROVE u[m].i < u[n].i
  <2>0. m \in Int /\ n \in Int BY <1>0
  <2>1. CASE n <= Len(s)
    <3>1. m \in Starts(s) /\ n \in Starts(s) /\ u[m] = s[m] /\ u[n] = s[n]
      BY <1>0, <1>1, <1>3, <2>0, <2>1
    <3> QED BY <1>3, <3>1 DEF Rising
  <2>2. CASE n > Len(s) /\ m <= Len(s)
    <3>1. m \in Starts(s) /\ u[m] = s[m] BY <1>0, <1>1, <2>0, <2>2
    <3> QED BY <1>2, <2>2, <3>1
  <2>3. CASE n > Len(s) /\ m > Len(s)
    <3>1. m - Len(s) \in Starts(a) /\ n - Len(s) \in Starts(a) BY <1>2, <2>3
    <3>2. m - Len(s) = n - Len(s) BY <3>1 DEF OneStart
    <3> QED BY <1>0, <1>3, <2>0, <3>2
  <2> QED BY <1>0, <2>0, <2>1, <2>2, <2>3
<1>4. Rising(u) BY <1>3 DEF Rising
<1>5. \A n \in Starts(u) :
         \/ n \in Starts(s) /\ u[n] = s[n]
         \/ e.k = "tool" /\ u[n].i = e.i /\ u[n].hd = e.hd
  BY <1>0, <1>1, <1>2
<1> QED BY <1>4, <1>5 DEF u
==============================================================================
