------------------------- MODULE ConversationProofs -------------------------
(***************************************************************************)
(* What holds of the conversation handler for every set of routes and      *)
(* every set of upstream bodies.                                           *)
(***************************************************************************)
EXTENDS Conversation, StreamCodecProofs

-------------------------------------------------------------------------------
(* The events of a JSON answer. *)

\* A sequence of content deltas.
Deltas == {d \in Seq(Event) : \A n \in 1 .. Len(d) : d[n].k \in ContentKinds}

\* The deltas of one block.
LEMMA BlockDeltas ==
    ASSUME NEW blocks \in Seq(BlockKinds), NEW j \in 1 .. Len(blocks)
    PROVE  BlockEvents(blocks, j) \in Deltas
<1>1. blocks[j] \in BlockKinds OBVIOUS
<1>2. CASE blocks[j] = "other"
  <2>1. BlockEvents(blocks, j) = <<>> BY <1>2 DEF BlockEvents
  <2>2. <<>> \in Deltas BY DEF Deltas
  <2> QED BY <2>1, <2>2
<1>3. CASE blocks[j] # "other"
  <2> DEFINE i == IF blocks[j] = "tool" THEN ToolsBefore(blocks, j) ELSE 0
             e == Ev(blocks[j], i, blocks[j] = "tool", <<<<1, j>>>>)
  <2>1. blocks[j] \in ContentKinds BY <1>1, <1>3 DEF BlockKinds
  <2>2. ToolsBefore(blocks, j) \in Nat
    <3> DEFINE S == {m \in 1 .. j - 1 : blocks[m] = "tool"}
    <3>1. IsFiniteSet(1 .. j - 1) BY FS_Interval
    <3>2. IsFiniteSet(S) BY <3>1, FS_Subset
    <3> HIDE DEF S
    <3>3. Cardinality(S) \in Nat BY <3>2, FS_CardinalityType
    <3> QED BY <3>3 DEF S, ToolsBefore
  <2>3. i \in Nat BY <2>2
  <2>4. <<<<1, j>>>> \in Seq(Atom) BY AtomSeq
  <2> HIDE DEF i
  <2>5. e \in Event BY <2>1, <2>3, <2>4, EvType DEF EventKinds
  <2>6. e.k \in ContentKinds BY <2>1 DEF Ev
  <2>7. BlockEvents(blocks, j) = <<e>> BY <1>3 DEF BlockEvents, i
  <2> HIDE DEF e
  <2>8. <<e>> \in Seq(Event) /\ Len(<<e>>) = 1 /\ <<e>>[1] = e BY <2>5
  <2>9. <<e>> \in Deltas BY <2>6, <2>8 DEF Deltas
  <2> QED BY <2>7, <2>9
<1> QED BY <1>2, <1>3

\* Deltas after deltas.
LEMMA ConcatDeltas ==
    ASSUME NEW a \in Deltas, NEW b \in Deltas
    PROVE  a \o b \in Deltas
<1>1. a \in Seq(Event) /\ b \in Seq(Event) BY DEF Deltas
<1>2. a \o b \in Seq(Event) BY <1>1
<1>3. ASSUME NEW n \in 1 .. Len(a \o b) PROVE (a \o b)[n].k \in ContentKinds
  <2>1. CASE n <= Len(a) BY <1>1, <2>1 DEF Deltas
  <2>2. CASE n > Len(a)
    <3>1. n - Len(a) \in 1 .. Len(b) /\ (a \o b)[n] = b[n - Len(a)] BY <1>1, <2>2
    <3> QED BY <3>1 DEF Deltas
  <2> QED BY <1>1, <2>1, <2>2
<1> QED BY <1>2, <1>3 DEF Deltas

\* response_to_events: a start, the deltas of the blocks in their order, one stop.
LEMMA ResponseLoop ==
    ASSUME NEW blocks \in Seq(BlockKinds)
    PROVE  \E f \in [0 .. Len(blocks) -> Deltas] :
             /\ f[0] = <<>>
             /\ \A k \in 1 .. Len(blocks) : f[k] = f[k - 1] \o BlockEvents(blocks, k)
             /\ ResponseToEvents(blocks) =
                  <<Plain("start")>> \o f[Len(blocks)] \o <<Ev("stop", 0, TRUE, <<>>)>>
<1> DEFINE N == Len(blocks)
           deltas[j \in 0 .. Len(blocks)] ==
             IF j = 0 THEN <<>> ELSE deltas[j - 1] \o BlockEvents(blocks, j)
           Unfold(g) == [j \in 0 .. Len(blocks) |->
                         IF j = 0 THEN <<>> ELSE g[j - 1] \o BlockEvents(blocks, j)]
           step == [x \in (1 .. N) \X Deltas |-> x[2] \o BlockEvents(blocks, x[1])]
<1>1. ResponseToEvents(blocks) =
        <<Plain("start")>> \o deltas[Len(blocks)] \o <<Ev("stop", 0, TRUE, <<>>)>>
  BY DEF ResponseToEvents
<1>2. deltas = CHOOSE g : g = Unfold(g) OBVIOUS
<1>3. N \in Nat OBVIOUS
<1>4. step \in [(1 .. N) \X Deltas -> Deltas]
  <2>1. ASSUME NEW x \in (1 .. N) \X Deltas PROVE x[2] \o BlockEvents(blocks, x[1]) \in Deltas
    <3>1. x[1] \in 1 .. N /\ x[2] \in Deltas OBVIOUS
    <3>2. BlockEvents(blocks, x[1]) \in Deltas BY <3>1, BlockDeltas
    <3> QED BY <3>1, <3>2, ConcatDeltas
  <2> QED BY <2>1
<1> HIDE DEF deltas
<1>5. <<>> \in Deltas BY DEF Deltas
<1>6. PICK f \in [0 .. N -> Deltas] :
        f[0] = <<>> /\ \A k \in 1 .. N : f[k] = step[<<k, f[k - 1]>>]
  <2> DEFINE z == <<>>
  <2>1. z \in Deltas BY <1>5
  <2> HIDE DEF step, N, Unfold, z
  <2>2. \E f \in [0 .. N -> Deltas] : IsLoop(f, N, z, step)
    BY <1>3, <1>4, <2>1, LoopExists, Zenon
  <2> QED BY <2>2, Zenon DEF z, IsLoop
<1>7. f = Unfold(f)
  <2>1. ASSUME NEW n \in 0 .. N PROVE f[n] = Unfold(f)[n]
    <3>1. CASE n = 0 BY <1>6, <3>1
    <3>2. CASE n # 0
      <4>1. n \in 1 .. N /\ n - 1 \in 0 .. N BY <1>3, <3>2
      <4>2. <<n, f[n - 1]>> \in (1 .. N) \X Deltas BY <4>1
      <4>3. step[<<n, f[n - 1]>>] = f[n - 1] \o BlockEvents(blocks, n) BY <4>2
      <4>4. f[n] = f[n - 1] \o BlockEvents(blocks, n) BY <1>6, <4>1, <4>3
      <4> QED BY <3>2, <4>4
    <3> QED BY <3>1, <3>2
  <2> QED BY <2>1
<1> HIDE DEF step
<1>8. deltas = Unfold(deltas)
  <2> HIDE DEF Unfold
  <2> QED BY <1>2, <1>7
<1>9. 0 .. N \subseteq {m \in 0 .. N : deltas[m] \in Deltas}
  <2> DEFINE S == {m \in 0 .. N : deltas[m] \in Deltas}
  <2>0. \A m \in 0 .. N : deltas[m] = Unfold(deltas)[m] BY <1>8
  <2>1. 0 \in S BY <1>3, <1>5, <2>0
  <2>2. ASSUME NEW k \in 1 .. N, k - 1 \in S PROVE k \in S
    <3>1. k \in 0 .. N /\ k # 0 /\ deltas[k - 1] \in Deltas BY <1>3, <2>2
    <3>2. deltas[k] = deltas[k - 1] \o BlockEvents(blocks, k) BY <2>0, <3>1
    <3>3. BlockEvents(blocks, k) \in Deltas BY BlockDeltas
    <3> QED BY <3>1, <3>2, <3>3, ConcatDeltas
  <2> HIDE DEF S
  <2>3. 0 .. N \subseteq S BY <1>3, <2>1, <2>2, InductiveSet
  <2> QED BY <2>3 DEF S
<1>10. deltas \in [0 .. N -> Deltas]
  <2>1. DOMAIN deltas = 0 .. N /\ deltas = [m \in 0 .. N |-> deltas[m]]
    <3> DEFINE u == Unfold(deltas)
    <3>1. DOMAIN u = 0 .. N /\ u = [m \in 0 .. N |-> u[m]] OBVIOUS
    <3> HIDE DEF u
    <3>2. deltas = u BY <1>8 DEF u
    <3> QED BY <3>1, <3>2
  <2> QED BY <1>9, <2>1
<1>11. deltas[0] = <<>> /\ \A k \in 1 .. N : deltas[k] = deltas[k - 1] \o BlockEvents(blocks, k)
  <2>0. \A m \in 0 .. N : deltas[m] = Unfold(deltas)[m] BY <1>8
  <2>1. 0 \in 0 .. N /\ \A k \in 1 .. N : k \in 0 .. N /\ k # 0 BY <1>3
  <2>2. deltas[0] = <<>> BY <2>0, <2>1
  <2>3. ASSUME NEW k \in 1 .. N PROVE deltas[k] = deltas[k - 1] \o BlockEvents(blocks, k) BY <2>0, <2>1
  <2> QED BY <2>2, <2>3
<1> QED BY <1>1, <1>10, <1>11

\* In particular.
LEMMA ResponseEvents ==
    ASSUME NEW blocks \in Seq(BlockKinds)
    PROVE  \E d \in Deltas :
             ResponseToEvents(blocks) = <<Plain("start")>> \o d \o <<Ev("stop", 0, TRUE, <<>>)>>
<1>1. Len(blocks) \in 0 .. Len(blocks) OBVIOUS
<1> QED BY <1>1, ResponseLoop

-------------------------------------------------------------------------------
(* The buffered stops. *)

Encodings == [enc : Encoder, out : Seq(Line)]

\* The states of the encoder and the lines after each of the events.
LEMMA EncodeAllLoop ==
    ASSUME NEW client, NEW s \in Encoder, NEW evs \in Seq(Event)
    PROVE  \E f \in [0 .. Len(evs) -> Encodings] :
             /\ f[0] = Encoded(s, <<>>)
             /\ \A k \in 1 .. Len(evs) :
                  LET x == Encode(client, f[k - 1].enc, evs[k])
                  IN  f[k] = Encoded(x.enc, f[k - 1].out \o x.out)
             /\ EncodeAll(client, s, evs) = f[Len(evs)]
<1> DEFINE N == Len(evs)
           X(g, n) == Encode(client, g.enc, evs[n])
           St(g, n) == Encoded(X(g, n).enc, g.out \o X(g, n).out)
           upto[n \in 0 .. Len(evs)] ==
             IF n = 0 THEN Encoded(s, <<>>)
             ELSE LET x == Encode(client, upto[n - 1].enc, evs[n])
                  IN  Encoded(x.enc, upto[n - 1].out \o x.out)
           Unfold(g) == [n \in 0 .. Len(evs) |->
                           IF n = 0 THEN Encoded(s, <<>>)
                           ELSE LET x == Encode(client, g[n - 1].enc, evs[n])
                                IN  Encoded(x.enc, g[n - 1].out \o x.out)]
           step == [x \in (1 .. N) \X Encodings |-> St(x[2], x[1])]
<1>1. EncodeAll(client, s, evs) = upto[Len(evs)] BY DEF EncodeAll
<1>2. upto = CHOOSE g : g = Unfold(g) OBVIOUS
<1>3. N \in Nat OBVIOUS
<1>4. ASSUME NEW g \in Encodings, NEW n \in 1 .. N PROVE St(g, n) \in Encodings
  <2>1. g.enc \in Encoder /\ g.out \in Seq(Line) /\ evs[n] \in Event BY DEF Encodings
  <2>2. Answer(X(g, n), evs[n]) BY <2>1, EncodeAnswer
  <2>3. X(g, n).enc \in Encoder /\ X(g, n).out \in Seq(Line) BY <2>2 DEF Answer
  <2>4. g.out \o X(g, n).out \in Seq(Line) BY <2>1, <2>3
  <2> HIDE DEF X
  <2> QED BY <2>3, <2>4 DEF Encodings, Encoded
<1>5. step \in [(1 .. N) \X Encodings -> Encodings]
  <2> HIDE DEF St
  <2> QED BY <1>4
<1> HIDE DEF upto
<1>6. Encoded(s, <<>>) \in Encodings BY DEF Encoded, Encodings
<1>7. PICK f \in [0 .. N -> Encodings] :
        f[0] = Encoded(s, <<>>) /\ \A k \in 1 .. N : f[k] = step[<<k, f[k - 1]>>]
  <2> DEFINE z == Encoded(s, <<>>)
  <2>1. z \in Encodings BY <1>6
  <2> HIDE DEF step, N, Unfold, z
  <2>2. \E f \in [0 .. N -> Encodings] : IsLoop(f, N, z, step)
    BY <1>3, <1>5, <2>1, LoopExists, Zenon
  <2> QED BY <2>2, Zenon DEF z, IsLoop
<1>8. ASSUME NEW k \in 1 .. N PROVE f[k] = St(f[k - 1], k)
  <2>1. k - 1 \in 0 .. N BY <1>3
  <2>2. <<k, f[k - 1]>> \in (1 .. N) \X Encodings BY <2>1
  <2> HIDE DEF St
  <2>3. step[<<k, f[k - 1]>>] = St(f[k - 1], k) BY <2>2
  <2> QED BY <1>7, <2>3
<1>9. f = Unfold(f)
  <2>1. ASSUME NEW n \in 0 .. N PROVE f[n] = Unfold(f)[n]
    <3>1. CASE n = 0 BY <1>7, <3>1
    <3>2. CASE n # 0
      <4>1. n \in 1 .. N BY <1>3, <3>2
      <4>2. f[n] = St(f[n - 1], n) BY <1>8, <4>1
      <4>3. Unfold(f)[n] = St(f[n - 1], n) BY <3>2
      <4> QED BY <4>2, <4>3
    <3> QED BY <3>1, <3>2
  <2> QED BY <2>1
<1> HIDE DEF step
<1>10. upto = Unfold(upto)
  <2> HIDE DEF Unfold
  <2> QED BY <1>2, <1>9
<1>11. N \in {m \in 0 .. N : upto[m] = f[m]}
  <2> DEFINE S == {m \in 0 .. N : upto[m] = f[m]}
  <2>0. \A m \in 0 .. N : upto[m] = Unfold(upto)[m] /\ f[m] = Unfold(f)[m] BY <1>9, <1>10
  <2>1. 0 \in S BY <1>3, <2>0
  <2>2. ASSUME NEW k \in 1 .. N, k - 1 \in S PROVE k \in S
    <3>1. k \in 0 .. N /\ k # 0 /\ upto[k - 1] = f[k - 1] BY <1>3, <2>2
    <3>2. Unfold(upto)[k] = Unfold(f)[k] BY <3>1
    <3>3. upto[k] = f[k]
      <4> HIDE DEF Unfold
      <4> QED BY <2>0, <3>1, <3>2
    <3> QED BY <3>1, <3>3
  <2> HIDE DEF S
  <2>3. 0 .. N \subseteq S BY <1>3, <2>1, <2>2, InductiveSet
  <2> QED BY <1>3, <2>3 DEF S
<1> QED BY <1>1, <1>7, <1>8, <1>11

\* All of them have their types.
LEMMA EncodeAllType ==
    ASSUME NEW client, NEW s \in Encoder, NEW evs \in Seq(Event)
    PROVE  EncodeAll(client, s, evs).enc \in Encoder /\ EncodeAll(client, s, evs).out \in Seq(Line)
<1>1. PICK f \in [0 .. Len(evs) -> Encodings] : EncodeAll(client, s, evs) = f[Len(evs)]
  BY EncodeAllLoop
<1>2. Len(evs) \in 0 .. Len(evs) OBVIOUS
<1>3. f[Len(evs)] \in Encodings BY <1>2
<1> QED BY <1>1, <1>3 DEF Encodings

\* The marker is a line.
LEMMA DoneType == \A client : DoneLines(client) \in Seq(Line)
<1>1. Bare("[DONE]") \in Line BY BareType DEF LineNames
<1> QED BY <1>1 DEF DoneLines

-------------------------------------------------------------------------------
(* The handler's types, and what it has recorded by when. *)

\* Before the answer nothing is recorded or returned, and only a streaming
\* request is turned into a stream.
Unanswered ==
    phase \in {"client", "headers", "upstream", "json"} => records = <<>> /\ answer = NoAnswer

HandlerInv ==
    /\ TypeOK
    /\ Unanswered
    /\ phase = "json" => route.stream
    /\ RecordMatchesAnswer

\* A single record.
LEMMA RecordType ==
    ASSUME TypeOK, records = <<>>, NEW status \in {"ok", "error"}
    PROVE  /\ Recorded(status) \in Seq([mode : {"stream", "non_stream"}, status : {"ok", "error"}])
           /\ Len(Recorded(status)) <= 1
           /\ \A n \in 1 .. Len(Recorded(status)) :
                Recorded(status)[n].status = status /\ Recorded(status)[n].mode = Mode
           /\ route.memory => Recorded(status) # <<>>
<1> DEFINE R == [mode : {"stream", "non_stream"}, status : {"ok", "error"}]
           x == [mode |-> Mode, status |-> status]
<1>1. x \in R BY DEF Mode
<1>2. x.status = status /\ x.mode = Mode OBVIOUS
<1>3. Recorded(status) = IF route.memory THEN Append(<<>>, x) ELSE <<>> BY DEF Recorded
<1> HIDE DEF x
<1>4. Append(<<>>, x) = <<x>> OBVIOUS
<1>5. <<x>> \in Seq(R) /\ Len(<<x>>) = 1 /\ <<x>>[1] = x /\ <<x>> # <<>> BY <1>1
<1>6. \A n \in 1 .. Len(<<x>>) : <<x>>[n] = x BY <1>5
<1>7. CASE route.memory
  <2>1. Recorded(status) = <<x>> BY <1>3, <1>4, <1>7
  <2> HIDE DEF R
  <2> QED BY <1>2, <1>5, <1>6, <2>1 DEF R
<1>8. CASE ~route.memory
  <2>1. Recorded(status) = <<>> BY <1>3, <1>8
  <2>2. <<>> \in Seq(R) /\ Len(<<>>) = 0 /\ \A n \in 1 .. Len(<<>>) : FALSE OBVIOUS
  <2> QED BY <1>8, <2>1, <2>2
<1> QED BY <1>7, <1>8

\* The bodies of the route's upstream.
LEMMA BodyType ==
    ASSUME TypeOK, NEW b \in Bodies[route.upstream]
    PROVE  /\ b \in Body /\ b.p \in Sendable(route.upstream) /\ b.blocks \in Seq(BlockKinds)
           /\ b.p.t = "error" => b.parse = "error"
           /\ b.parse # "ok" => b.p.parts = <<>> /\ b.blocks = <<>>
<1>1. route.upstream \in Upstreams BY DEF TypeOK, Route
<1>2. b \in Body BY <1>1, ConversationAssumption
<1> QED BY <1>1, <1>2, ConversationAssumption DEF Body

\* What the decoder makes of a body.
LEMMA DecodedType ==
    ASSUME TypeOK, NEW b \in Bodies[route.upstream]
    PROVE  DecodedEvents(b) \in Seq(Event)
<1> DEFINE f == Feed(route.upstream, NewDecoder, b.p, 1)
<1>1. route.upstream \in Upstreams /\ b.p \in Sendable(route.upstream)
  BY BodyType DEF TypeOK, Route
<1>2. NewDecoder \in Decoder BY DEF NewDecoder, Decoder
<1>3. StopsOnce(NewDecoder, f) BY <1>1, <1>2, FeedStops
<1>4. f.dec \in Decoder /\ f.ev \in Seq(Event) BY <1>3 DEF StopsOnce
<1>5. FinishDecoder(f.dec).ev \in Seq(Event) BY <1>4, FinishType
<1> HIDE DEF f
<1>6. f.ev \o FinishDecoder(f.dec).ev \in Seq(Event) BY <1>4, <1>5
<1> QED BY <1>6 DEF DecodedEvents, f

\* The events of a parsed response.
LEMMA ResponseType ==
    ASSUME NEW blocks \in Seq(BlockKinds)
    PROVE  ResponseToEvents(blocks) \in Seq(Event)
<1> DEFINE x == Plain("start")
           y == Ev("stop", 0, TRUE, <<>>)
<1>1. PICK d \in Deltas : ResponseToEvents(blocks) = <<x>> \o d \o <<y>> BY ResponseEvents
<1>2. x \in Event BY PlainType DEF EventKinds
<1>3. y \in Event BY EvType, AtomSeq DEF EventKinds
<1>4. d \in Seq(Event) BY DEF Deltas
<1> HIDE DEF x, y
<1>5. <<x>> \in Seq(Event) /\ <<y>> \in Seq(Event) BY <1>2, <1>3
<1>6. <<x>> \o d \o <<y>> \in Seq(Event) BY <1>4, <1>5
<1> QED BY <1>1, <1>6

\* The restorer's types.
LEMMA RestoredType ==
    ASSUME TypeOK, NEW e \in Event, NEW r \in RestoredEvents(e)
    PROVE  /\ HeldType(r.held)
           /\ r.ev = <<>> \/ (r.ev \in Seq(Event) /\ Len(r.ev) = 1
                                /\ r.ev[1] \in Event /\ r.ev[1].k = e.k)
<1>1. HeldType(held) BY DEF TypeOK, HeldType
<1>2. <<e>> \in Seq(Event) /\ Len(<<e>>) = 1 /\ <<e>>[1] = e OBVIOUS
<1>3. CASE ~route.privacy
  <2>1. r.held = held /\ r.ev = <<e>> BY <1>3 DEF RestoredEvents
  <2> QED BY <1>1, <1>2, <2>1
<1>4. CASE route.privacy
  <2>1. r \in RestoreEvent(held, e) BY <1>4 DEF RestoredEvents
  <2> QED BY <1>1, <2>1, RestoreEventFacts
<1> QED BY <1>3, <1>4

\* Encoding one event.
LEMMA EncodeEventType ==
    ASSUME TypeOK, NEW e \in Event, EncodeEvent(e)
    PROVE  enc' \in Encoder /\ lines' \in Seq(Line) /\ sawError' \in BOOLEAN
<1> DEFINE x == Encode(route.client, enc, e)
<1>1. enc \in Encoder /\ lines \in Seq(Line) BY DEF TypeOK
<1>2. Answer(x, e) BY <1>1, EncodeAnswer
<1>3. x.enc \in Encoder /\ x.out \in Seq(Line) BY <1>2 DEF Answer
<1>4. /\ enc' = x.enc /\ lines' = lines \o x.out
      /\ sawError' = (sawError \/ (e.k = "error" /\ x.out # <<>>))
  BY DEF EncodeEvent
<1> HIDE DEF x
<1>5. lines \o x.out \in Seq(Line) BY <1>1, <1>3
<1>6. sawError' \in BOOLEAN BY <1>4
<1> QED BY <1>3, <1>4, <1>5, <1>6

\* The invariant holds initially.
LEMMA HandlerInit == Init => HandlerInv
<1> SUFFICES ASSUME Init PROVE HandlerInv OBVIOUS
<1>1. HeldType(held) BY EmptyHeld DEF Init
<1>2. NewEncoder \in Encoder BY AtomSeq DEF NewEncoder, Encoder
<1>3. body \in Body
  <2> DEFINE p == [t |-> "ignored", parts |-> <<>>, fin |-> FALSE]
  <2>1. p \in Payload BY DEF Payload, PayloadTypes
  <2>2. body = [p |-> p, parse |-> "invalid", blocks |-> <<>>] BY DEF Init, NoBody
  <2> HIDE DEF p
  <2> QED BY <2>1, <2>2 DEF Body
<1>4. route \in Route BY ConversationAssumption DEF Init
<1>5. phase \in Phases BY DEF Init, Phases
<1>6. /\ events \in Seq(Event) /\ terminal \in Seq(Event) /\ lines \in Seq(Line)
      /\ records \in Seq([mode : {"stream", "non_stream"}, status : {"ok", "error"}])
      /\ Len(records) <= 1
  BY DEF Init
<1>7. enc \in Encoder /\ success \in BOOLEAN /\ sawError \in BOOLEAN BY <1>2 DEF Init
<1>8. TypeOK BY <1>1, <1>3, <1>4, <1>5, <1>6, <1>7 DEF TypeOK, HeldType
<1> QED BY <1>8 DEF Init, HandlerInv, Unanswered, RecordMatchesAnswer

\* A step that leaves the stream's locals alone.
LEMMA PlainStep ==
    ASSUME HandlerInv, UNCHANGED <<route, streamVars>>, phase' \in Phases, success' \in BOOLEAN,
           body' \in Body,
           records' \in Seq([mode : {"stream", "non_stream"}, status : {"ok", "error"}]),
           Len(records') <= 1
    PROVE  TypeOK'
BY DEF HandlerInv, TypeOK, streamVars

\* Returns that record nothing.
LEMMA SilentReturn ==
    ASSUME HandlerInv, UNCHANGED <<route, streamVars, records>>, success' \in BOOLEAN,
           body' \in Body, phase \in {"client", "headers", "upstream", "json"},
           phase' = "answered",
           answer'.kind # "response", answer'.why \notin {"forward", "upstream_status"}
    PROVE  HandlerInv'
<1>1. records = <<>> BY DEF HandlerInv, Unanswered
<1>2. TypeOK'
  <2>1. /\ records' \in Seq([mode : {"stream", "non_stream"}, status : {"ok", "error"}])
        /\ Len(records') <= 1
    BY <1>1
  <2>2. phase' \in Phases BY DEF Phases
  <2> QED BY <2>1, <2>2, PlainStep
<1>3. \A n \in 1 .. Len(records') : FALSE BY <1>1
<1>4. RecordMatchesAnswer' BY <1>3 DEF RecordMatchesAnswer
<1> QED BY <1>2, <1>4 DEF HandlerInv, Unanswered

\* Returns that record the outcome.
LEMMA RecordedReturn ==
    ASSUME HandlerInv, UNCHANGED <<route, streamVars>>, success' \in BOOLEAN, body' \in Body,
           phase \in {"client", "headers", "upstream", "json"}, phase' = "answered",
           NEW status \in {"ok", "error"}, records' = Recorded(status),
           IF status = "ok" THEN success' /\ body'.parse = "ok" ELSE answer'.kind = "error"
    PROVE  HandlerInv'
<1>1. TypeOK /\ records = <<>> BY DEF HandlerInv, Unanswered
<1>2. /\ records' \in Seq([mode : {"stream", "non_stream"}, status : {"ok", "error"}])
      /\ Len(records') <= 1
      /\ \A n \in 1 .. Len(records') : records'[n].status = status /\ records'[n].mode = Mode
      /\ route.memory => records' # <<>>
  BY <1>1, RecordType
<1>3. TypeOK' BY <1>2, PlainStep DEF Phases
<1>4. Mode' = Mode /\ route' = route BY DEF Mode
<1>5. RecordMatchesAnswer' BY <1>2, <1>4 DEF RecordMatchesAnswer
<1> QED BY <1>3, <1>5 DEF HandlerInv, Unanswered

\* Steps of the handler that return nothing.
LEMMA MoveStep ==
    ASSUME HandlerInv, UNCHANGED <<route, streamVars, records, answer, body>>,
           success' \in BOOLEAN,
           \/ UNCHANGED <<phase, success>>
           \/ /\ phase \in {"client", "headers", "upstream"}
              /\ phase' \in {"headers", "upstream", "relay", "dropped"}
    PROVE  HandlerInv'
<1>1. TypeOK' BY PlainStep DEF HandlerInv, TypeOK, Phases
<1>2. CASE UNCHANGED <<phase, success>>
  <2>1. Mode' = Mode BY DEF Mode
  <2>2. RecordMatchesAnswer' BY <1>2, <2>1 DEF HandlerInv, RecordMatchesAnswer
  <2> QED BY <1>1, <1>2, <2>2 DEF HandlerInv, Unanswered
<1>3. CASE phase' \in {"headers", "upstream", "relay", "dropped"}
  BY <1>1, <1>3 DEF HandlerInv, Unanswered, RecordMatchesAnswer
<1> QED BY <1>2, <1>3

\* The body is turned into events.
LEMMA JsonAsStreamStep ==
    ASSUME HandlerInv, NEW b \in Bodies[route.upstream], JsonAsStream(b)
    PROVE  HandlerInv'
<1>0. TypeOK BY DEF HandlerInv
<1>1. b \in Body /\ b.blocks \in Seq(BlockKinds) BY <1>0, BodyType
<1>2. DecodedEvents(b) \in Seq(Event) /\ ResponseToEvents(b.blocks) \in Seq(Event)
  BY <1>0, <1>1, DecodedType, ResponseType
<1>3. events' \in Seq(Event) BY <1>2 DEF JsonAsStream
<1>4. TypeOK' BY <1>0, <1>1, <1>3 DEF TypeOK, JsonAsStream, Phases
<1> QED BY <1>4 DEF HandlerInv, Unanswered, RecordMatchesAnswer, JsonAsStream

\* One iteration over the events.
LEMMA EncodeNextStep ==
    ASSUME HandlerInv, EncodeNext
    PROVE  HandlerInv'
<1>0. TypeOK /\ events # <<>> /\ phase = "json"
      /\ UNCHANGED <<route, phase, success, body, records, answer>>
  BY DEF HandlerInv, EncodeNext
<1>1. Head(events) \in Event /\ Tail(events) \in Seq(Event) BY <1>0 DEF TypeOK
<1>2. PICK r \in RestoredEvents(Head(events)) :
        /\ held' = r.held
        /\ \/ r.ev = <<>> /\ UNCHANGED <<enc, lines, sawError, terminal>>
           \/ r.ev # <<>> /\ RelayJson(r.ev[1])
  BY DEF EncodeNext
<1>3. /\ HeldType(r.held)
      /\ r.ev = <<>> \/ r.ev[1] \in Event
  BY <1>0, <1>1, RestoredType
<1>4. enc' \in Encoder /\ lines' \in Seq(Line) /\ sawError' \in BOOLEAN /\ terminal' \in Seq(Event)
  <2>1. CASE r.ev = <<>> BY <1>0, <1>2, <2>1 DEF TypeOK
  <2>2. CASE r.ev # <<>>
    <3> DEFINE x == r.ev[1]
    <3>1. x \in Event /\ RelayJson(x) BY <1>2, <1>3, <2>2
    <3> HIDE DEF x
    <3>2. CASE EncodeEvent(x) /\ terminal' = terminal
      <4>1. enc' \in Encoder /\ lines' \in Seq(Line) /\ sawError' \in BOOLEAN
        BY <1>0, <3>1, <3>2, EncodeEventType
      <4> QED BY <1>0, <3>2, <4>1 DEF TypeOK
    <3>3. CASE terminal' = Append(terminal, x) /\ UNCHANGED <<enc, lines, sawError>>
      BY <1>0, <3>1, <3>3 DEF TypeOK
    <3> QED BY <3>1, <3>2, <3>3 DEF RelayJson
  <2> QED BY <2>1, <2>2
<1>5. events' = Tail(events) BY DEF EncodeNext
<1>6. TypeOK' BY <1>0, <1>1, <1>2, <1>3, <1>4, <1>5 DEF TypeOK, HeldType
<1> QED BY <1>0, <1>6 DEF HandlerInv, Unanswered, RecordMatchesAnswer

\* One held tail.
LEMMA FlushNextStep ==
    ASSUME HandlerInv, FlushNext
    PROVE  HandlerInv'
<1>0. /\ TypeOK /\ phase = "json"
      /\ UNCHANGED <<route, phase, success, body, events, terminal, records, answer>>
  BY DEF HandlerInv, FlushNext
<1>1. PICK ch \in Waiting :
        EncodeEvent(Ev(ch[1], ch[2], FALSE, held[ch])) /\ held' = HoldOn(held, ch, <<>>)
  BY DEF FlushNext
<1> DEFINE e == Ev(ch[1], ch[2], FALSE, held[ch])
<1>2. ch \in ChannelIds /\ held[ch] \in Seq(Atom) BY <1>0 DEF Waiting, TypeOK
<1>3. ch[1] \in EventKinds /\ ch[2] \in Nat BY <1>2 DEF ChannelIds, EventKinds
<1>4. e \in Event BY <1>2, <1>3, EvType
<1> HIDE DEF e
<1>5. enc' \in Encoder /\ lines' \in Seq(Line) /\ sawError' \in BOOLEAN
  BY <1>0, <1>1, <1>4, EncodeEventType DEF e
<1>6. HeldType(held') BY <1>0, <1>1, <1>2, HoldType, AtomSeq DEF TypeOK, HeldType
<1>7. TypeOK' BY <1>0, <1>5, <1>6 DEF TypeOK, HeldType
<1> QED BY <1>0, <1>7 DEF HandlerInv, Unanswered, RecordMatchesAnswer

\* The stream is returned.
LEMMA CloseStreamStep ==
    ASSUME HandlerInv, CloseStream
    PROVE  HandlerInv'
<1> DEFINE end == EncodeAll(route.client, enc, terminal)
           done == IF sawError THEN <<>> ELSE DoneLines(route.client)
<1>0. /\ TypeOK /\ phase = "json" /\ phase' = "answered"
      /\ UNCHANGED <<route, success, body, events, held, terminal, sawError, records>>
  BY DEF HandlerInv, CloseStream
<1>1. enc' = end.enc /\ lines' = lines \o end.out \o done BY DEF CloseStream
<1>2. end.enc \in Encoder /\ end.out \in Seq(Line) BY <1>0, EncodeAllType DEF TypeOK
<1>3. done \in Seq(Line) BY DoneType
<1>4. lines \in Seq(Line) BY <1>0 DEF TypeOK
<1> HIDE DEF end, done
<1>5. lines \o end.out \o done \in Seq(Line) BY <1>2, <1>3, <1>4
<1>6. TypeOK' BY <1>0, <1>1, <1>2, <1>5 DEF TypeOK, Phases
<1>7. records = <<>> /\ route.stream BY <1>0 DEF HandlerInv, Unanswered
<1>8. answer'.kind = "stream" /\ answer'.why = "none" BY DEF CloseStream
<1>9. \A n \in 1 .. Len(records') : FALSE BY <1>0, <1>7
<1>10. RecordMatchesAnswer' BY <1>0, <1>7, <1>8, <1>9 DEF RecordMatchesAnswer
<1> QED BY <1>0, <1>6, <1>10 DEF HandlerInv, Unanswered

\* Every step keeps the invariant: one case per action.
LEMMA HandlerNext == HandlerInv /\ [Next]_vars => HandlerInv'
<1> SUFFICES ASSUME HandlerInv, [Next]_vars PROVE HandlerInv' OBVIOUS
<1>0. TypeOK /\ success \in BOOLEAN /\ body \in Body BY DEF HandlerInv, TypeOK
<1>1. ASSUME NEW reason \in Refusals, Refuse(reason) PROVE HandlerInv'
  <2>1. reason \notin {"forward", "upstream_status"} BY <1>1 DEF Refusals
  <2> QED BY <1>0, <1>1, <2>1, SilentReturn DEF Refuse, ReturnError
<1>2. CASE ForwardRequest BY <1>0, <1>2, MoveStep DEF ForwardRequest
<1>3. CASE ForwardFails \/ HeadersTimeout
  BY <1>0, <1>3, RecordedReturn DEF ForwardFails, HeadersTimeout, ReturnError
<1>4. ASSUME NEW ok \in BOOLEAN, NEW json \in BOOLEAN, Headers(ok, json) PROVE HandlerInv'
  BY <1>4, MoveStep DEF Headers
<1>5. CASE BodyFails \/ TotalTimeout
  BY <1>0, <1>5, SilentReturn DEF BodyFails, TotalTimeout, ReturnError
<1>6. ASSUME NEW b \in Bodies[route.upstream], UpstreamError(b) \/ ParseError(b) PROVE HandlerInv'
  <2>1. b \in Body BY <1>0, BodyType
  <2> QED BY <1>0, <1>6, <2>1, RecordedReturn DEF UpstreamError, ParseError, ReturnError
<1>7. ASSUME NEW b \in Bodies[route.upstream], Respond(b) PROVE HandlerInv'
  <2>1. b \in Body BY <1>0, BodyType
  <2> QED BY <1>0, <1>7, <2>1, RecordedReturn DEF Respond, ReturnError
<1>8. ASSUME NEW b \in Bodies[route.upstream], JsonAsStream(b) PROVE HandlerInv'
  BY <1>8, JsonAsStreamStep
<1>9. ASSUME NEW b \in Bodies[route.upstream], JsonParseError(b) PROVE HandlerInv'
  <2>1. b \in Body BY <1>0, BodyType
  <2> QED BY <1>0, <1>9, <2>1, SilentReturn DEF JsonParseError, ReturnError
<1>10. CASE EncodeNext BY <1>10, EncodeNextStep
<1>11. CASE FlushNext BY <1>11, FlushNextStep
<1>12. CASE CloseStream BY <1>12, CloseStreamStep
<1>13. CASE ClientLeaves BY <1>0, <1>13, MoveStep DEF ClientLeaves
<1>14. CASE Finished \/ UNCHANGED vars
  BY <1>0, <1>14, MoveStep DEF Finished, vars, streamVars
<1> QED
  BY <1>1, <1>2, <1>3, <1>4, <1>5, <1>6, <1>7, <1>8, <1>9, <1>10, <1>11, <1>12, <1>13, <1>14
  DEF Next, BodyRead, JsonStep

\* The handler's inductive invariant.
THEOREM HandlerInvariant == Spec => []HandlerInv
BY HandlerInit, HandlerNext, PTL DEF Spec

\* Every variable keeps its type, and a request is recorded at most once.
THEOREM HandlerTypes == Spec => []TypeOK
<1>1. HandlerInv => TypeOK BY DEF HandlerInv
<1> QED BY <1>1, HandlerInvariant, PTL

\* On every route and for every body, a record tells how the exchange went, and
\* every response, unreachable upstream and upstream status leaves one.
THEOREM HandlerRecordsAnswer == Spec => []RecordMatchesAnswer
<1>1. HandlerInv => RecordMatchesAnswer BY DEF HandlerInv
<1> QED BY <1>1, HandlerInvariant, PTL

-------------------------------------------------------------------------------
(* Where the atoms of a channel stand. *)

\* Atom z is in line n of s, which belongs to channel ch.
Bears(s, n, ch, z) ==
    /\ s[n].k \in ContentKinds /\ ChannelOf(s[n]) = ch
    /\ \E m \in 1 .. Len(s[n].a) : s[n].a[m] = z

\* Two sequences in a row.
LEMMA Joins ==
    ASSUME NEW T, NEW a \in Seq(T), NEW b \in Seq(T)
    PROVE  /\ a \o b \in Seq(T) /\ Len(a \o b) = Len(a) + Len(b)
           /\ Len(a) \in Nat /\ Len(b) \in Nat
           /\ \A x \in 1 .. Len(a) : (a \o b)[x] = a[x]
           /\ \A x \in 1 .. Len(b) : (a \o b)[Len(a) + x] = b[x]
<1>1. Len(a) \in Nat /\ Len(b) \in Nat OBVIOUS
<1>2. /\ a \o b \in Seq(T) /\ Len(a \o b) = Len(a) + Len(b)
      /\ \A i \in 1 .. Len(a) + Len(b) : (a \o b)[i] = IF i <= Len(a) THEN a[i] ELSE b[i - Len(a)]
  BY ConcatProperties
<1>3. ASSUME NEW x \in 1 .. Len(a) PROVE (a \o b)[x] = a[x]
  <2>1. x \in 1 .. Len(a) + Len(b) /\ x <= Len(a) BY <1>1
  <2> QED BY <1>2, <2>1
<1>4. ASSUME NEW x \in 1 .. Len(b) PROVE (a \o b)[Len(a) + x] = b[x]
  <2>1. Len(a) + x \in 1 .. Len(a) + Len(b) /\ ~(Len(a) + x <= Len(a)) /\ (Len(a) + x) - Len(a) = x BY <1>1
  <2> QED BY <1>2, <2>1
<1> QED BY <1>1, <1>2, <1>3, <1>4

\* The texts of three stretches in a row.
LEMMA ThreeTexts ==
    ASSUME NEW a \in Seq(Atom), NEW b \in Seq(Atom), NEW c \in Seq(Atom)
    PROVE  LET s == (a \o b) \o c
           IN  /\ s \in Seq(Atom) /\ Len(s) = Len(a) + Len(b) + Len(c)
               /\ Len(a) \in Nat /\ Len(b) \in Nat /\ Len(c) \in Nat
               /\ \A x \in 1 .. Len(a) : s[x] = a[x]
               /\ \A x \in 1 .. Len(b) : s[Len(a) + x] = b[x]
               /\ \A x \in 1 .. Len(c) : s[Len(a) + Len(b) + x] = c[x]
<1> DEFINE d == a \o b
<1>1. /\ d \in Seq(Atom) /\ Len(d) = Len(a) + Len(b) /\ Len(a) \in Nat /\ Len(b) \in Nat
      /\ \A x \in 1 .. Len(a) : d[x] = a[x]
      /\ \A x \in 1 .. Len(b) : d[Len(a) + x] = b[x]
  BY Joins
<1> HIDE DEF d
<1>2. /\ d \o c \in Seq(Atom) /\ Len(d \o c) = Len(d) + Len(c) /\ Len(c) \in Nat
      /\ \A x \in 1 .. Len(d) : (d \o c)[x] = d[x]
      /\ \A x \in 1 .. Len(c) : (d \o c)[Len(d) + x] = c[x]
  <2>1. d \in Seq(Atom) BY <1>1
  <2> QED BY <2>1, Joins
<1>3. /\ \A x \in 1 .. Len(a) : (d \o c)[x] = a[x]
      /\ \A x \in 1 .. Len(b) : (d \o c)[Len(a) + x] = b[x]
  <2>1. ASSUME NEW x \in 1 .. Len(a) PROVE (d \o c)[x] = a[x]
    <3>1. x \in 1 .. Len(d) BY <1>1
    <3> QED BY <1>1, <1>2, <3>1
  <2>2. ASSUME NEW x \in 1 .. Len(b) PROVE (d \o c)[Len(a) + x] = b[x]
    <3>1. Len(a) + x \in 1 .. Len(d) BY <1>1
    <3> QED BY <1>1, <1>2, <3>1
  <2> QED BY <2>1, <2>2
<1> QED BY <1>1, <1>2, <1>3 DEF d

\* A stream cut before and after line n.
LEMMA CutAround ==
    ASSUME NEW s \in Seq(Line), NEW n \in 1 .. Len(s)
    PROVE  /\ SubSeq(s, 1, n - 1) \in Seq(Line) /\ SubSeq(s, n + 1, Len(s)) \in Seq(Line)
           /\ Len(SubSeq(s, 1, n - 1)) = n - 1 /\ Len(SubSeq(s, n + 1, Len(s))) = Len(s) - n
           /\ \A k \in 1 .. n - 1 : SubSeq(s, 1, n - 1)[k] = s[k]
           /\ \A k \in 1 .. Len(s) - n : SubSeq(s, n + 1, Len(s))[k] = s[n + k]
           /\ s[n] \in Line
           /\ s = (SubSeq(s, 1, n - 1) \o <<s[n]>>) \o SubSeq(s, n + 1, Len(s))
<1> DEFINE p == SubSeq(s, 1, n - 1)
           q == SubSeq(s, n + 1, Len(s))
           t == (p \o <<s[n]>>) \o q
<1>0. Len(s) \in Nat /\ s[n] \in Line OBVIOUS
<1>1. /\ p \in Seq(Line) /\ Len(p) = n - 1 /\ \A k \in 1 .. n - 1 : p[k] = s[k]
  BY <1>0, SubSeqProperties
<1>2. /\ q \in Seq(Line) /\ Len(q) = Len(s) - n /\ \A k \in 1 .. Len(s) - n : q[k] = s[n + k]
  <2>1. /\ \A i \in n + 1 .. Len(s) : s[i] \in Line
        /\ n + 1 <= Len(s) + 1 /\ n + 1 \in Nat /\ Len(s) - (n + 1) + 1 = Len(s) - n
    BY <1>0
  <2>2. /\ q \in Seq(Line)
        /\ Len(q) = IF n + 1 <= Len(s) THEN Len(s) - (n + 1) + 1 ELSE 0
        /\ \A i \in 1 .. Len(s) - (n + 1) + 1 : q[i] = s[(n + 1) + i - 1]
    BY <1>0, <2>1, SubSeqProperties
  <2>3. Len(q) = Len(s) - n BY <1>0, <2>2
  <2>4. \A k \in 1 .. Len(s) - n : (n + 1) + k - 1 = n + k BY <1>0
  <2> QED BY <2>1, <2>2, <2>3, <2>4
<1> HIDE DEF p, q
<1>3. /\ p \o <<s[n]>> \in Seq(Line) /\ Len(p \o <<s[n]>>) = n
      /\ \A k \in 1 .. n - 1 : (p \o <<s[n]>>)[k] = s[k]
      /\ (p \o <<s[n]>>)[n] = s[n]
  BY <1>0, <1>1
<1>4. ASSUME NEW k \in 1 .. n PROVE (p \o <<s[n]>>)[k] = s[k]
  <2>1. k \in 1 .. n - 1 \/ k = n BY <1>0
  <2> QED BY <1>3, <2>1
<1> DEFINE pn == p \o <<s[n]>>
<1>5. pn \in Seq(Line) /\ Len(pn) = n /\ \A k \in 1 .. n : pn[k] = s[k] BY <1>3, <1>4
<1> HIDE DEF pn
<1>6. /\ pn \o q \in Seq(Line) /\ Len(pn \o q) = Len(s)
      /\ \A k \in 1 .. n : (pn \o q)[k] = s[k]
      /\ \A k \in n + 1 .. Len(s) : (pn \o q)[k] = s[k]
  <2>0. /\ pn \o q \in Seq(Line) /\ Len(pn \o q) = Len(pn) + Len(q)
        /\ \A k \in 1 .. Len(pn) : (pn \o q)[k] = pn[k]
        /\ \A k \in 1 .. Len(q) : (pn \o q)[Len(pn) + k] = q[k]
    <3>1. pn \in Seq(Line) /\ q \in Seq(Line) BY <1>2, <1>5
    <3> QED BY <3>1, Joins
  <2>1. pn \o q \in Seq(Line) /\ Len(pn \o q) = Len(s) BY <1>0, <1>2, <1>5, <2>0
  <2>2. \A k \in 1 .. n : (pn \o q)[k] = s[k] BY <1>5, <2>0
  <2>3. ASSUME NEW k \in n + 1 .. Len(s) PROVE (pn \o q)[k] = s[k]
    <3>1. k - n \in 1 .. Len(q) /\ n + (k - n) = k BY <1>0, <1>2
    <3>2. (pn \o q)[k] = q[k - n] BY <1>5, <2>0, <3>1
    <3> QED BY <1>2, <3>1, <3>2
  <2> QED BY <2>1, <2>2, <2>3
<1>7. \A k \in 1 .. Len(s) : (pn \o q)[k] = s[k]
  <2> TAKE k \in 1 .. Len(s)
  <2>1. k \in 1 .. n \/ k \in n + 1 .. Len(s) BY <1>0
  <2> QED BY <1>6, <2>1
<1>8. pn \o q = s BY <1>6, <1>7, SeqEqual
<1> QED BY <1>0, <1>1, <1>2, <1>8 DEF p, q, pn

\* Lines in a row.
LEMMA LinesConcat ==
    \A a, b \in Seq(Line) : \A ch : OnChannel(a \o b, ch) = OnChannel(a, ch) \o OnChannel(b, ch)
BY BothCarry, OnChannelConcat

\* Events in a row.
LEMMA EventsConcat ==
    \A a, b \in Seq(Event) : \A ch : OnChannel(a \o b, ch) = OnChannel(a, ch) \o OnChannel(b, ch)
BY BothCarry, OnChannelConcat

\* What a channel carries is what it carries before, in and after a line of it.
LEMMA ChannelAround ==
    ASSUME NEW s \in Seq(Line), NEW n \in 1 .. Len(s), s[n].k \in ContentKinds, NEW ch, ch = ChannelOf(s[n])
    PROVE  OnChannel(s, ch) =
             (OnChannel(SubSeq(s, 1, n - 1), ch) \o s[n].a) \o OnChannel(SubSeq(s, n + 1, Len(s)), ch)
<1> DEFINE p == SubSeq(s, 1, n - 1)
           q == SubSeq(s, n + 1, Len(s))
           x == s[n]
<1>1. p \in Seq(Line) /\ q \in Seq(Line) /\ x \in Line /\ s = (p \o <<x>>) \o q BY CutAround
<1>2. Carried(x, ch) = x.a BY DEF Carried
<1> HIDE DEF p, q, x
<1>3. p \o <<x>> \in Seq(Line) BY <1>1
<1>4. OnChannel((p \o <<x>>) \o q, ch) = OnChannel(p \o <<x>>, ch) \o OnChannel(q, ch)
  BY <1>1, <1>3, LinesConcat
<1>5. OnChannel(p \o <<x>>, ch) = OnChannel(p, ch) \o Carried(x, ch)
  BY <1>1, BothCarry, OnChannelAppend
<1>6. OnChannel(s, ch) = (OnChannel(p, ch) \o x.a) \o OnChannel(q, ch) BY <1>1, <1>2, <1>4, <1>5
<1> QED BY <1>6 DEF p, q, x

\* The atoms of a line are atoms of its channel.
LEMMA BornCarried ==
    ASSUME NEW s \in Seq(Line), NEW n \in 1 .. Len(s), NEW ch, NEW z, Bears(s, n, ch, z)
    PROVE  \E x \in 1 .. Len(OnChannel(s, ch)) : OnChannel(s, ch)[x] = z
<1> DEFINE p == SubSeq(s, 1, n - 1)
           q == SubSeq(s, n + 1, Len(s))
           a == OnChannel(p, ch)
           b == s[n].a
           c == OnChannel(q, ch)
<1>1. p \in Seq(Line) /\ q \in Seq(Line) /\ s[n] \in Line BY CutAround
<1>2. OnChannel(s, ch) = (a \o b) \o c BY ChannelAround DEF Bears
<1>3. b \in Seq(Atom) BY <1>1 DEF Line
<1> HIDE DEF p, q
<1>4. a \in Seq(Atom) /\ c \in Seq(Atom) BY <1>1, BothCarry, OnChannelType
<1>5. PICK m \in 1 .. Len(b) : b[m] = z BY DEF Bears
<1> HIDE DEF a, b, c
<1>6. /\ Len((a \o b) \o c) = Len(a) + Len(b) + Len(c) /\ Len(a) \in Nat /\ Len(b) \in Nat /\ Len(c) \in Nat
      /\ ((a \o b) \o c)[Len(a) + m] = b[m]
  BY <1>3, <1>4, ThreeTexts
<1>7. Len(a) + m \in 1 .. Len((a \o b) \o c) BY <1>6
<1> QED BY <1>2, <1>5, <1>6, <1>7

\* The atoms of two lines of a channel stand on it in the order of the lines.
LEMMA BornInOrder ==
    ASSUME NEW s \in Seq(Line), NEW n \in 1 .. Len(s), NEW o \in 1 .. Len(s), n < o,
           NEW ch, NEW y, NEW z, Bears(s, n, ch, y), Bears(s, o, ch, z)
    PROVE  \E i, j \in 1 .. Len(OnChannel(s, ch)) :
             i < j /\ OnChannel(s, ch)[i] = y /\ OnChannel(s, ch)[j] = z
<1> DEFINE p == SubSeq(s, 1, n - 1)
           q == SubSeq(s, n + 1, Len(s))
           a == OnChannel(p, ch)
           b == s[n].a
           c == OnChannel(q, ch)
<1>0. Len(s) \in Nat OBVIOUS
<1>1. /\ p \in Seq(Line) /\ q \in Seq(Line) /\ s[n] \in Line
      /\ Len(q) = Len(s) - n /\ \A k \in 1 .. Len(s) - n : q[k] = s[n + k]
  BY CutAround
<1>2. OnChannel(s, ch) = (a \o b) \o c BY ChannelAround DEF Bears
<1>3. b \in Seq(Atom) BY <1>1 DEF Line
<1>4. PICK m \in 1 .. Len(b) : b[m] = y BY DEF Bears
<1> HIDE DEF p, q, b
<1>5. a \in Seq(Atom) /\ c \in Seq(Atom) BY <1>1, BothCarry, OnChannelType
<1>6. PICK l \in 1 .. Len(c) : c[l] = z
  <2>1. o - n \in 1 .. Len(q) /\ n + (o - n) = o BY <1>0, <1>1
  <2>2. q[o - n] = s[o] BY <1>1, <2>1
  <2>3. Bears(q, o - n, ch, z) BY <2>2 DEF Bears
  <2> QED BY <1>1, <2>1, <2>3, BornCarried
<1> HIDE DEF a, c
<1>7. /\ Len((a \o b) \o c) = Len(a) + Len(b) + Len(c) /\ Len(a) \in Nat /\ Len(b) \in Nat /\ Len(c) \in Nat
      /\ ((a \o b) \o c)[Len(a) + m] = b[m] /\ ((a \o b) \o c)[Len(a) + Len(b) + l] = c[l]
  <2>1. LET w == (a \o b) \o c
        IN  /\ w \in Seq(Atom) /\ Len(w) = Len(a) + Len(b) + Len(c)
            /\ Len(a) \in Nat /\ Len(b) \in Nat /\ Len(c) \in Nat
            /\ \A x \in 1 .. Len(a) : w[x] = a[x]
            /\ \A x \in 1 .. Len(b) : w[Len(a) + x] = b[x]
            /\ \A x \in 1 .. Len(c) : w[Len(a) + Len(b) + x] = c[x]
    BY <1>3, <1>5, ThreeTexts, Zenon
  <2> QED BY <1>4, <1>6, <2>1, Zenon
<1>8. /\ Len(a) + m \in 1 .. Len((a \o b) \o c) /\ Len(a) + Len(b) + l \in 1 .. Len((a \o b) \o c)
      /\ Len(a) + m < Len(a) + Len(b) + l
  BY <1>7
<1> QED BY <1>2, <1>4, <1>6, <1>7, <1>8

\* Every atom of a channel is in a line of it.
LEMMA CarriedBorn ==
    ASSUME NEW s \in Seq(Line), NEW ch, NEW x \in 1 .. Len(OnChannel(s, ch))
    PROVE  \E n \in 1 .. Len(s) : Bears(s, n, ch, OnChannel(s, ch)[x])
<1> DEFINE N == Len(s)
<1>0. N \in Nat OBVIOUS
<1>1. PICK f \in [0 .. N -> Seq(Atom)] :
        /\ f[0] = <<>>
        /\ \A k \in 1 .. N : f[k] = f[k - 1] \o Carried(s[k], ch)
        /\ OnChannel(s, ch) = f[N]
  BY BothCarry, OnChannelLoop
<1> DEFINE At(y) == \E n \in 1 .. N : Bears(s, n, ch, y)
           S == {k \in 0 .. N : \A i \in 1 .. Len(f[k]) : At(f[k][i])}
<1>2. 0 \in S BY <1>0, <1>1
<1>3. ASSUME NEW k \in 1 .. N, k - 1 \in S PROVE k \in S
  <2> DEFINE g == f[k - 1]
             c == Carried(s[k], ch)
  <2>1. k - 1 \in 0 .. N /\ k \in 0 .. N BY <1>0
  <2>2. s[k] \in Line BY <1>0
  <2>3. g \in Seq(Atom) /\ f[k] = g \o c /\ \A i \in 1 .. Len(g) : At(g[i]) BY <1>1, <1>3, <2>1
  <2>4. c \in Seq(Atom) BY <2>2, BothCarry, CarriedType
  <2>5. ASSUME NEW i \in 1 .. Len(c) PROVE At(c[i])
    <3>1. s[k].k \in ContentKinds /\ ChannelOf(s[k]) = ch /\ c = s[k].a BY <2>5 DEF Carried
    <3>2. Bears(s, k, ch, c[i])
      <4>1. i \in 1 .. Len(s[k].a) /\ s[k].a[i] = c[i] BY <3>1
      <4> HIDE DEF c
      <4> QED BY <3>1, <4>1 DEF Bears
    <3> QED BY <3>2
  <2> HIDE DEF g, c, At
  <2>6. ASSUME NEW i \in 1 .. Len(g \o c) PROVE At((g \o c)[i])
    <3>1. Len(g) \in Nat /\ Len(c) \in Nat /\ Len(g \o c) = Len(g) + Len(c) BY <2>3, <2>4
    <3>2. CASE i <= Len(g)
      <4>1. i \in 1 .. Len(g) /\ (g \o c)[i] = g[i] BY <2>3, <2>4, <3>1, <3>2
      <4> QED BY <2>3, <4>1
    <3>3. CASE ~(i <= Len(g))
      <4>1. i - Len(g) \in 1 .. Len(c) /\ (g \o c)[i] = c[i - Len(g)] BY <2>3, <2>4, <3>1, <3>3
      <4> QED BY <2>5, <4>1
    <3> QED BY <3>2, <3>3
  <2> QED BY <2>1, <2>3, <2>6
<1> HIDE DEF S
<1>4. 0 .. N \subseteq S BY <1>0, <1>2, <1>3, InductiveSet
<1>5. N \in S BY <1>0, <1>4
<1> QED BY <1>1, <1>5 DEF S

-------------------------------------------------------------------------------
(* What the events of a parsed response carry. *)

\* The channel of a block.
BlockChannel(blocks, j) ==
    <<blocks[j], IF blocks[j] = "tool" THEN ToolsBefore(blocks, j) ELSE 0>>

\* w is the blocks up to k that belong to channel ch, in their order.
Listed(w, blocks, ch, k) ==
    /\ w \in Seq(Atom)
    /\ \A x \in 1 .. Len(w) : \E j \in 1 .. k :
         w[x] = <<1, j>> /\ blocks[j] # "other" /\ BlockChannel(blocks, j) = ch
    /\ \A x, y \in 1 .. Len(w) : x < y => w[x][2] < w[y][2]
    /\ \A j \in 1 .. k : blocks[j] # "other" /\ BlockChannel(blocks, j) = ch =>
         \E x \in 1 .. Len(w) : w[x] = <<1, j>>

\* One more block.
LEMMA ListedBlock ==
    ASSUME NEW blocks \in Seq(BlockKinds), NEW k \in 1 .. Len(blocks), NEW ch, NEW w,
           Listed(w, blocks, ch, k - 1)
    PROVE  Listed(w \o OnChannel(BlockEvents(blocks, k), ch), blocks, ch, k)
<1> DEFINE b == OnChannel(BlockEvents(blocks, k), ch)
           mine == blocks[k] # "other" /\ BlockChannel(blocks, k) = ch
<1>0. /\ w \in Seq(Atom) /\ Len(w) \in Nat /\ k \in Nat /\ Len(blocks) \in Nat
      /\ \A j \in 1 .. k - 1 : j \in 1 .. k /\ j < k
      /\ k \in 1 .. k /\ \A j \in 1 .. k : j \in 1 .. k - 1 \/ j = k
  BY DEF Listed
<1>1. ~mine => b = <<>>
  <2> SUFFICES ASSUME ~mine PROVE b = <<>> OBVIOUS
  <2>1. CASE blocks[k] = "other"
    <3>1. BlockEvents(blocks, k) = <<>> BY <2>1 DEF BlockEvents
    <3> QED BY <3>1, NothingOnChannel
  <2>2. CASE blocks[k] # "other"
    <3> DEFINE i == IF blocks[k] = "tool" THEN ToolsBefore(blocks, k) ELSE 0
               e == Ev(blocks[k], i, blocks[k] = "tool", <<<<1, k>>>>)
    <3>1. BlockEvents(blocks, k) = <<e>> BY <2>2 DEF BlockEvents
    <3>2. e.k = blocks[k] /\ e.i = i BY DEF Ev
    <3>3. ChannelOf(e) = BlockChannel(blocks, k) BY <3>2 DEF ChannelOf, BlockChannel
    <3>4. BlockEvents(blocks, k) \in Deltas BY BlockDeltas
    <3> HIDE DEF e
    <3>5. e \in Event
      <4>1. <<e>> \in Seq(Event) BY <3>1, <3>4 DEF Deltas
      <4> QED BY <4>1
    <3>6. Carried(e, ch) = <<>> BY <2>2, <3>3 DEF Carried
    <3> QED BY <3>1, <3>5, <3>6, BothCarry, OneOnChannel
  <2> QED BY <2>1, <2>2
<1>2. mine => b = <<<<1, k>>>>
  <2> SUFFICES ASSUME mine PROVE b = <<<<1, k>>>> OBVIOUS
  <2> DEFINE i == IF blocks[k] = "tool" THEN ToolsBefore(blocks, k) ELSE 0
             e == Ev(blocks[k], i, blocks[k] = "tool", <<<<1, k>>>>)
  <2>1. BlockEvents(blocks, k) = <<e>> BY DEF BlockEvents
  <2>2. e.k = blocks[k] /\ e.i = i /\ e.a = <<<<1, k>>>> BY DEF Ev
  <2>3. ChannelOf(e) = ch BY <2>2 DEF ChannelOf, BlockChannel
  <2>4. blocks[k] \in ContentKinds BY DEF BlockKinds
  <2>5. BlockEvents(blocks, k) \in Deltas BY BlockDeltas
  <2> HIDE DEF e
  <2>6. e \in Event
    <3>1. <<e>> \in Seq(Event) BY <2>1, <2>5 DEF Deltas
    <3> QED BY <3>1
  <2>7. Carried(e, ch) = <<<<1, k>>>> BY <2>2, <2>3, <2>4 DEF Carried
  <2> QED BY <2>1, <2>6, <2>7, BothCarry, OneOnChannel
<1> HIDE DEF b, mine
<1>3. CASE ~mine
  <2>1. w \o b = w BY <1>0, <1>1, <1>3
  <2>2. \A x \in 1 .. Len(w) : \E j \in 1 .. k :
          w[x] = <<1, j>> /\ blocks[j] # "other" /\ BlockChannel(blocks, j) = ch
    BY <1>0 DEF Listed
  <2>3. \A j \in 1 .. k : blocks[j] # "other" /\ BlockChannel(blocks, j) = ch =>
          \E x \in 1 .. Len(w) : w[x] = <<1, j>>
    BY <1>0, <1>3 DEF Listed, mine
  <2>4. Listed(w, blocks, ch, k) BY <2>2, <2>3 DEF Listed
  <2> QED BY <2>1, <2>4 DEF b
<1>4. CASE mine
  <2> DEFINE z == <<1, k>>
             v == w \o <<z>>
  <2>1. z \in Atom /\ z[2] = k BY <1>0 DEF Atom
  <2> HIDE DEF z
  <2>2. <<z>> \in Seq(Atom) /\ Len(<<z>>) = 1 /\ <<z>>[1] = z BY <2>1
  <2>3. /\ v \in Seq(Atom) /\ Len(v) = Len(w) + 1
        /\ \A x \in 1 .. Len(w) : v[x] = w[x]
        /\ v[Len(w) + 1] = z
    BY <1>0, <2>2, Joins
  <2> HIDE DEF v
  <2>4. \A x \in 1 .. Len(v) : x \in 1 .. Len(w) \/ x = Len(w) + 1 BY <1>0, <2>3
  <2>5. ASSUME NEW x \in 1 .. Len(v)
        PROVE  \E j \in 1 .. k : v[x] = <<1, j>> /\ blocks[j] # "other" /\ BlockChannel(blocks, j) = ch
    <3>1. CASE x \in 1 .. Len(w)
      <4>1. PICK j \in 1 .. k - 1 : w[x] = <<1, j>> /\ blocks[j] # "other" /\ BlockChannel(blocks, j) = ch
        BY <3>1 DEF Listed
      <4> QED BY <1>0, <2>3, <3>1, <4>1
    <3>2. CASE x = Len(w) + 1 BY <1>0, <1>4, <2>3, <3>2 DEF mine, z
    <3> QED BY <2>4, <3>1, <3>2
  <2>6. ASSUME NEW x \in 1 .. Len(v), NEW y \in 1 .. Len(v), x < y PROVE v[x][2] < v[y][2]
    <3>1. x \in 1 .. Len(w) BY <1>0, <2>3, <2>6
    <3>2. CASE y \in 1 .. Len(w) BY <2>3, <2>6, <3>1, <3>2 DEF Listed
    <3>3. CASE y = Len(w) + 1
      <4>1. PICK j \in 1 .. k - 1 : w[x] = <<1, j>> BY <3>1 DEF Listed
      <4>2. v[x][2] = j /\ v[y][2] = k BY <2>1, <2>3, <3>1, <3>3, <4>1
      <4> QED BY <1>0, <4>2
    <3> QED BY <2>4, <3>2, <3>3
  <2>7. ASSUME NEW j \in 1 .. k, blocks[j] # "other", BlockChannel(blocks, j) = ch
        PROVE  \E x \in 1 .. Len(v) : v[x] = <<1, j>>
    <3>1. CASE j = k
      <4>1. Len(w) + 1 \in 1 .. Len(v) BY <1>0, <2>3
      <4> QED BY <2>3, <3>1, <4>1 DEF z
    <3>2. CASE j \in 1 .. k - 1
      <4>1. PICK x \in 1 .. Len(w) : w[x] = <<1, j>> BY <2>7, <3>2 DEF Listed
      <4>2. x \in 1 .. Len(v) BY <1>0, <2>3
      <4> QED BY <2>3, <4>1, <4>2
    <3> QED BY <1>0, <3>1, <3>2
  <2>8. Listed(v, blocks, ch, k) BY <2>3, <2>5, <2>6, <2>7 DEF Listed
  <2>9. w \o b = v BY <1>2, <1>4 DEF v, z
  <2> QED BY <2>8, <2>9 DEF b
<1> QED BY <1>3, <1>4

\* What response_to_events puts on a channel are the blocks of that channel, each once
\* and in their order.
LEMMA ResponseListed ==
    ASSUME NEW blocks \in Seq(BlockKinds), NEW ch
    PROVE  Listed(OnChannel(ResponseToEvents(blocks), ch), blocks, ch, Len(blocks))
<1> DEFINE N == Len(blocks)
           x == Plain("start")
           y == Ev("stop", 0, TRUE, <<>>)
<1>0. N \in Nat OBVIOUS
<1>1. PICK f \in [0 .. N -> Deltas] :
        /\ f[0] = <<>> /\ \A k \in 1 .. N : f[k] = f[k - 1] \o BlockEvents(blocks, k)
        /\ ResponseToEvents(blocks) = <<x>> \o f[N] \o <<y>>
  BY ResponseLoop
<1> DEFINE S == {k \in 0 .. N : Listed(OnChannel(f[k], ch), blocks, ch, k)}
<1>2. 0 \in S
  <2>1. Listed(<<>>, blocks, ch, 0) BY AtomSeq DEF Listed
  <2> QED BY <1>0, <1>1, <2>1, NothingOnChannel
<1>3. ASSUME NEW k \in 1 .. N, k - 1 \in S PROVE k \in S
  <2>1. k - 1 \in 0 .. N /\ k \in 0 .. N BY <1>0
  <2>2. f[k - 1] \in Deltas /\ BlockEvents(blocks, k) \in Deltas BY <2>1, BlockDeltas
  <2>3. f[k - 1] \in Seq(Event) /\ BlockEvents(blocks, k) \in Seq(Event) BY <2>2 DEF Deltas
  <2>4. OnChannel(f[k - 1] \o BlockEvents(blocks, k), ch) =
          OnChannel(f[k - 1], ch) \o OnChannel(BlockEvents(blocks, k), ch)
    BY <2>3, EventsConcat
  <2>5. Listed(OnChannel(f[k - 1], ch), blocks, ch, k - 1) BY <1>3
  <2>6. Listed(OnChannel(f[k - 1], ch) \o OnChannel(BlockEvents(blocks, k), ch), blocks, ch, k)
    BY <2>5, ListedBlock
  <2> QED BY <1>1, <2>1, <2>4, <2>6
<1> HIDE DEF S
<1>4. 0 .. N \subseteq S BY <1>0, <1>2, <1>3, InductiveSet
<1>5. N \in 0 .. N BY <1>0
<1>6. Listed(OnChannel(f[N], ch), blocks, ch, N) BY <1>4, <1>5 DEF S
<1>7. OnChannel(ResponseToEvents(blocks), ch) = OnChannel(f[N], ch)
  <2> DEFINE d == f[N]
  <2>1. x \in Event /\ x.k = "start" BY PlainType DEF EventKinds
  <2>2. y \in Event /\ y.k = "stop"
    <3>1. y \in Event BY EvType, AtomSeq DEF EventKinds
    <3> QED BY <3>1 DEF Ev
  <2>3. d \in Seq(Event) BY <1>5 DEF Deltas
  <2> HIDE DEF x, y, d
  <2>4. OnChannel(<<x>>, ch) = <<>> /\ OnChannel(<<y>>, ch) = <<>>
    <3>1. Carried(x, ch) = <<>> /\ Carried(y, ch) = <<>> BY <2>1, <2>2 DEF Carried, ContentKinds
    <3> QED BY <2>1, <2>2, <3>1, BothCarry, OneOnChannel
  <2>5. <<x>> \in Seq(Event) /\ <<y>> \in Seq(Event) /\ <<x>> \o d \in Seq(Event) BY <2>1, <2>2, <2>3
  <2>6. OnChannel((<<x>> \o d) \o <<y>>, ch) = OnChannel(<<x>> \o d, ch) \o OnChannel(<<y>>, ch)
    BY <2>5, EventsConcat
  <2>7. OnChannel(<<x>> \o d, ch) = OnChannel(<<x>>, ch) \o OnChannel(d, ch)
    <3> DEFINE xs == <<x>>
    <3>1. xs \in Seq(Event) /\ d \in Seq(Event) BY <2>3, <2>5
    <3> HIDE DEF xs
    <3>2. OnChannel(xs \o d, ch) = OnChannel(xs, ch) \o OnChannel(d, ch) BY <3>1, EventsConcat
    <3> QED BY <3>2 DEF xs
  <2>8. OnChannel(d, ch) \in Seq(Atom) BY <2>3, BothCarry, OnChannelType
  <2>9. (<<>> \o OnChannel(d, ch)) \o <<>> = OnChannel(d, ch) BY <2>8
  <2> QED BY <1>1, <2>4, <2>6, <2>7, <2>9 DEF d
<1> QED BY <1>6, <1>7

-------------------------------------------------------------------------------
(* A stream that carries a response. *)

\* Lines without content have no text either: no signature is written.
Unsigned(s) == \A n \in 1 .. Len(s) : s[n].k \notin ContentKinds => s[n].a = <<>>

\* Line n of s contains atom z.
Contains(s, n, z) == \E m \in 1 .. Len(s[n].a) : s[n].a[m] = z

\* A line that contains something belongs to a channel.
LEMMA ContainsBears ==
    ASSUME NEW s \in Seq(Line), Unsigned(s), NEW n \in 1 .. Len(s), NEW z, Contains(s, n, z)
    PROVE  ChannelOf(s[n]) \in ChannelIds /\ Bears(s, n, ChannelOf(s[n]), z)
<1>1. s[n] \in Line OBVIOUS
<1>2. s[n].a # <<>> BY DEF Contains
<1>3. s[n].k \in ContentKinds BY <1>2 DEF Unsigned
<1>4. s[n].i \in Nat BY <1>1 DEF Line
<1> QED BY <1>3, <1>4 DEF Bears, Contains, ChannelOf, ChannelIds

\* The channel of a block that bears text.
LEMMA BlockChannelType ==
    ASSUME NEW blocks \in Seq(BlockKinds), NEW j \in 1 .. Len(blocks), blocks[j] # "other"
    PROVE  BlockChannel(blocks, j) \in ChannelIds
<1>1. blocks[j] \in ContentKinds BY DEF BlockKinds
<1>2. ToolsBefore(blocks, j) \in Nat
  <2> DEFINE S == {m \in 1 .. j - 1 : blocks[m] = "tool"}
  <2>1. IsFiniteSet(1 .. j - 1) BY FS_Interval
  <2>2. IsFiniteSet(S) BY <2>1, FS_Subset
  <2> HIDE DEF S
  <2>3. Cardinality(S) \in Nat BY <2>2, FS_CardinalityType
  <2> QED BY <2>3 DEF S, ToolsBefore
<1> QED BY <1>1, <1>2 DEF BlockChannel, ChannelIds

\* Every channel of s carries what the events of the response carry on it.
SameChannels(s, blocks) ==
    \A ch \in ChannelIds : OnChannel(s, ch) = OnChannel(ResponseToEvents(blocks), ch)

\* Then each block is in a line of its channel.
LEMMA BlockBorn ==
    ASSUME NEW s \in Seq(Line), NEW blocks \in Seq(BlockKinds), SameChannels(s, blocks),
           NEW j \in 1 .. Len(blocks), blocks[j] # "other"
    PROVE  \E n \in 1 .. Len(s) : Bears(s, n, BlockChannel(blocks, j), <<1, j>>)
<1> DEFINE ch == BlockChannel(blocks, j)
           w == OnChannel(s, ch)
<1>1. ch \in ChannelIds BY BlockChannelType
<1>2. w = OnChannel(ResponseToEvents(blocks), ch) BY <1>1 DEF SameChannels
<1>3. Listed(w, blocks, ch, Len(blocks)) BY <1>2, ResponseListed
<1>4. PICK x \in 1 .. Len(w) : w[x] = <<1, j>> BY <1>3 DEF Listed
<1> HIDE DEF ch
<1>5. \E n \in 1 .. Len(s) : Bears(s, n, ch, w[x]) BY CarriedBorn
<1> QED BY <1>4, <1>5 DEF ch

\* And the blocks of a channel are in lines that follow each other as the blocks do.
LEMMA BlocksInOrder ==
    ASSUME NEW s \in Seq(Line), NEW blocks \in Seq(BlockKinds), SameChannels(s, blocks),
           NEW i \in Nat, NEW j \in Nat, NEW ch \in ChannelIds, NEW n \in 1 .. Len(s), NEW o \in 1 .. Len(s),
           Bears(s, n, ch, <<1, i>>), Bears(s, o, ch, <<1, j>>), n < o
    PROVE  i < j
<1> DEFINE w == OnChannel(s, ch)
           y == <<1, i>>
           z == <<1, j>>
<1>1. w = OnChannel(ResponseToEvents(blocks), ch) BY DEF SameChannels
<1>2. Listed(w, blocks, ch, Len(blocks)) BY <1>1, ResponseListed
<1>3. Bears(s, n, ch, y) /\ Bears(s, o, ch, z) OBVIOUS
<1> HIDE DEF y, z
<1>4. PICK k, l \in 1 .. Len(w) : k < l /\ w[k] = y /\ w[l] = z BY <1>3, BornInOrder
<1>5. w[k][2] < w[l][2] BY <1>2, <1>4 DEF Listed
<1>6. y[2] = i /\ z[2] = j BY DEF y, z
<1> QED BY <1>4, <1>5, <1>6

\* A line that bears a block belongs to the block's channel.
LEMMA BearsOwn ==
    ASSUME NEW s \in Seq(Line), NEW blocks \in Seq(BlockKinds), SameChannels(s, blocks),
           NEW j \in Nat, NEW ch \in ChannelIds, NEW n \in 1 .. Len(s), Bears(s, n, ch, <<1, j>>)
    PROVE  BlockChannel(blocks, j) = ch
<1> DEFINE w == OnChannel(s, ch)
           z == <<1, j>>
<1>1. w = OnChannel(ResponseToEvents(blocks), ch) BY DEF SameChannels
<1>2. Listed(w, blocks, ch, Len(blocks)) BY <1>1, ResponseListed
<1>3. Bears(s, n, ch, z) OBVIOUS
<1>4. z[2] = j OBVIOUS
<1> HIDE DEF z
<1>5. PICK x \in 1 .. Len(w) : w[x] = z BY <1>3, BornCarried
<1>6. PICK k \in 1 .. Len(blocks) : w[x] = <<1, k>> /\ BlockChannel(blocks, k) = ch BY <1>2 DEF Listed
<1>7. k = j BY <1>4, <1>5, <1>6
<1> QED BY <1>6, <1>7

\* Such a stream carries the response: each block once, as what it was, in order.
LEMMA CarriesBlock ==
    ASSUME NEW s \in Seq(Line), Unsigned(s), NEW blocks \in Seq(BlockKinds), SameChannels(s, blocks),
           NEW j \in 1 .. Len(blocks), blocks[j] # "other"
    PROVE  \E n \in 1 .. Len(s) :
             /\ {m \in 1 .. Len(s) : Contains(s, m, <<1, j>>)} = {n}
             /\ s[n].k = blocks[j]
             /\ IF s[n].k = "tool"
                THEN s[n].i = ToolsBefore(blocks, j)
                ELSE \A m \in 1 .. j - 1 : blocks[m] = blocks[j] => \E l \in 1 .. n : Contains(s, l, <<1, m>>)
<1> DEFINE ch == BlockChannel(blocks, j)
           z == <<1, j>>
<1>0. Len(s) \in Nat /\ Len(blocks) \in Nat /\ j \in Nat OBVIOUS
<1>1. ch \in ChannelIds BY BlockChannelType
<1>2. PICK n \in 1 .. Len(s) : Bears(s, n, ch, z) BY BlockBorn
<1>3. Contains(s, n, z) /\ ChannelOf(s[n]) = ch BY <1>2 DEF Bears, Contains
<1>4. s[n].k = blocks[j] /\ (s[n].k = "tool" => s[n].i = ToolsBefore(blocks, j))
  BY <1>3 DEF ChannelOf, BlockChannel
<1>5. ASSUME NEW m \in 1 .. Len(s), Contains(s, m, z) PROVE m = n
  <2> DEFINE c == ChannelOf(s[m])
  <2>1. c \in ChannelIds /\ Bears(s, m, c, z) BY <1>5, ContainsBears
  <2> HIDE DEF c
  <2>2. ch = c BY <1>0, <2>1, BearsOwn
  <2>3. Bears(s, m, ch, z) BY <2>1, <2>2
  <2> HIDE DEF ch
  <2>4. ~(m < n)
    <3>1. m < n => j < j BY <1>0, <1>1, <1>2, <2>3, BlocksInOrder
    <3> QED BY <1>0, <3>1
  <2>5. ~(n < m)
    <3>1. n < m => j < j BY <1>0, <1>1, <1>2, <2>3, BlocksInOrder
    <3> QED BY <1>0, <3>1
  <2> QED BY <1>0, <2>4, <2>5
<1>6. ASSUME NEW m \in 1 .. j - 1, blocks[m] = blocks[j], blocks[j] # "tool"
      PROVE  \E l \in 1 .. n : Contains(s, l, <<1, m>>)
  <2>1. m \in 1 .. Len(blocks) /\ m \in Nat /\ m < j BY <1>0
  <2>2. BlockChannel(blocks, m) = ch BY <1>6 DEF BlockChannel
  <2>3. PICK l \in 1 .. Len(s) : Bears(s, l, ch, <<1, m>>)
    <3>1. \E l \in 1 .. Len(s) : Bears(s, l, BlockChannel(blocks, m), <<1, m>>) BY <1>6, <2>1, BlockBorn
    <3> QED BY <2>2, <3>1
  <2>4. ~(n < l)
    <3> HIDE DEF ch
    <3>1. n < l => j < m BY <1>0, <1>1, <1>2, <2>1, <2>3, BlocksInOrder
    <3> QED BY <1>0, <2>1, <3>1
  <2>5. l \in 1 .. n BY <1>0, <2>4
  <2>6. Contains(s, l, <<1, m>>) BY <2>3 DEF Bears, Contains
  <2> QED BY <2>5, <2>6
<1> HIDE DEF z
<1>7. {m \in 1 .. Len(s) : Contains(s, m, z)} = {n} BY <1>3, <1>5
<1> QED BY <1>4, <1>6, <1>7 DEF z

-------------------------------------------------------------------------------
(* What the decoder makes of a whole body. *)

\* Events of a stream: deltas, starts, and a stop at the end or none.
Streamed(evs) ==
    \A n \in 1 .. Len(evs) :
      evs[n].k \in ContentKinds \cup {"start", "stop"} /\ (evs[n].k = "stop" => n = Len(evs))

\* A stream that starts also stops.
Framed(evs) == evs \in Seq(Event) /\ Streamed(evs) /\ (HasKind(evs, "start") => HasKind(evs, "stop"))

\* Deltas alone.
LEMMA DeltasFramed ==
    ASSUME NEW d \in Deltas
    PROVE  Framed(d)
<1>1. d \in Seq(Event) /\ \A n \in 1 .. Len(d) : d[n].k \in ContentKinds BY DEF Deltas
<1>2. Streamed(d) BY <1>1 DEF Streamed, ContentKinds
<1>3. ~HasKind(d, "start") BY <1>1 DEF HasKind, ContentKinds
<1> QED BY <1>1, <1>2, <1>3 DEF Framed

\* Deltas between a start and a stop.
LEMMA AnswerFramed ==
    ASSUME NEW d \in Deltas, NEW x \in Event, x.k = "start", NEW y \in Event, y.k = "stop"
    PROVE  /\ Framed((<<x>> \o d) \o <<y>>)
           /\ d = <<>> => ~HasContent((<<x>> \o d) \o <<y>>)
<1> DEFINE s == (<<x>> \o d) \o <<y>>
<1>1. d \in Seq(Event) /\ Len(d) \in Nat /\ \A n \in 1 .. Len(d) : d[n].k \in ContentKinds BY DEF Deltas
<1>2. /\ s \in Seq(Event) /\ Len(s) = Len(d) + 2 /\ s[1] = x /\ s[Len(d) + 2] = y
      /\ \A n \in 1 .. Len(d) : s[n + 1] = d[n]
  BY <1>1
<1> HIDE DEF s
<1>3. \A n \in 1 .. Len(s) : n = 1 \/ n = Len(d) + 2 \/ (n - 1 \in 1 .. Len(d) /\ (n - 1) + 1 = n) BY <1>1, <1>2
<1>4. ASSUME NEW n \in 1 .. Len(s)
      PROVE  s[n].k \in ContentKinds \cup {"start", "stop"} /\ (s[n].k = "stop" => n = Len(s))
  <2>1. CASE n = 1 BY <1>2, <2>1
  <2>2. CASE n = Len(d) + 2 BY <1>2, <2>2
  <2>3. CASE n - 1 \in 1 .. Len(d) /\ (n - 1) + 1 = n
    <3>1. s[n].k \in ContentKinds BY <1>1, <1>2, <2>3
    <3> QED BY <3>1 DEF ContentKinds
  <2> QED BY <1>3, <2>1, <2>2, <2>3
<1>5. Len(s) \in 1 .. Len(s) /\ s[Len(s)].k = "stop" BY <1>1, <1>2
<1>6. HasKind(s, "stop") BY <1>5 DEF HasKind
<1>7. Framed(s) BY <1>2, <1>4, <1>6 DEF Framed, Streamed
<1>8. ASSUME d = <<>> PROVE ~HasContent(s)
  <2>1. Len(d) = 0 BY <1>8
  <2>2. \A n \in 1 .. Len(s) : s[n] = x \/ s[n] = y BY <1>2, <1>3, <2>1
  <2> QED BY <2>2 DEF HasContent, ContentKinds
<1> QED BY <1>7, <1>8 DEF s

\* What a decoder makes of a body that is one payload.
Decoded(u, p) ==
    LET f == Feed(u, NewDecoder, p, 1) IN f.ev \o FinishDecoder(f.dec).ev

\* A content payload.
LEMMA DecodedContent ==
    ASSUME NEW u \in Upstreams, NEW p \in Sendable(u), p.t = "content"
    PROVE  \E d \in Deltas :
             /\ d = <<>> <=> p.parts = <<>>
             /\ \/ Decoded(u, p) = d
                \/ \E x, y \in Event : /\ x.k = "start" /\ y.k = "stop"
                                       /\ Decoded(u, p) = (<<x>> \o d) \o <<y>>
<1> DEFINE D == NewDecoder
           N == Len(p.parts)
           x == Plain("start")
           f == Feed(u, D, p, 1)
<1>0. /\ p \in Payload /\ N \in Nat /\ p.parts \in Seq(Part) /\ D \in Decoder
      /\ u = "anthropic" => N = 1
  BY DEF Sendable, Payload, NewDecoder, Decoder
<1>1. x \in Event /\ x.k = "start" BY PlainType DEF EventKinds
<1>2. StartOnce(D) = <<x>> BY DEF StartOnce, NewDecoder
<1>3. /\ D.started = FALSE /\ D.failed = FALSE /\ D.stopped = FALSE /\ D.finish = FALSE
  BY DEF NewDecoder
<1>4. N = 0 <=> p.parts = <<>> BY <1>0
<1>5. CASE u = "anthropic"
  <2> DEFINE e == AnthropicPart(p, 1)
  <2>1. f.dec = D /\ f.ev = <<e>> BY <1>5 DEF Feed, FeedAnthropic, Fed
  <2>2. FinishDecoder(D).ev = <<>> BY <1>3 DEF FinishDecoder, Fed
  <2>3. Len(p.parts) = 1 /\ 1 \in 1 .. 1 BY <1>0, <1>5
  <2>4. e.k = p.parts[1].k BY DEF AnthropicPart, Ev
  <2>5. e \in Event
    <3>1. StopsOnce(D, f) BY <1>0, FeedStops
    <3>2. <<e>> \in Seq(Event) BY <2>1, <3>1 DEF StopsOnce
    <3> HIDE DEF e
    <3> QED BY <3>2
  <2>6. e.k \in ContentKinds
    <3>1. 1 \in 1 .. Len(p.parts) BY <2>3
    <3> QED BY <1>0, <2>4, <3>1, PartType
  <2> HIDE DEF e, f
  <2>7. <<e>> \in Seq(Event) /\ Len(<<e>>) = 1 /\ <<e>>[1] = e /\ <<e>> # <<>> BY <2>5
  <2>8. \A n \in 1 .. Len(<<e>>) : n = 1 BY <2>7
  <2>9. <<e>> \in Deltas BY <2>6, <2>7, <2>8 DEF Deltas
  <2>10. Decoded(u, p) = <<e>>
    <3>1. Decoded(u, p) = <<e>> \o <<>> BY <2>1, <2>2 DEF Decoded, f
    <3>2. <<e>> \o <<>> = <<e>> BY <2>5
    <3> QED BY <3>1, <3>2
  <2> QED BY <1>0, <1>4, <1>5, <2>7, <2>9, <2>10
<1>6. CASE u = "openai"
  <2> DEFINE d == [j \in 1 .. Len(p.parts) |-> OpenAIPart(D, p, 1, j)]
             c == [D EXCEPT !.started = TRUE, !.finish = @ \/ p.fin, !.seen = @ \cup ToolIndices(p.parts)]
  <2>1. f.dec = c /\ f.ev = <<x>> \o d BY <1>2, <1>6 DEF Feed, FeedOpenAI, Fed
  <2>2. c.started = TRUE /\ c.failed = FALSE /\ c.stopped = FALSE BY DEF NewDecoder
  <2>3. \A j \in 1 .. N : OpenAIPart(D, p, 1, j) \in Event /\ OpenAIPart(D, p, 1, j).k \in ContentKinds
    <3> TAKE j \in 1 .. N
    <3>1. OpenAIPart(D, p, 1, j).k = p.parts[j].k BY DEF OpenAIPart, Ev
    <3> QED BY <1>0, <3>1, OpenAIPartType, PartType
  <2>4. d \in Seq(Event) /\ Len(d) = N /\ \A j \in 1 .. N : d[j].k \in ContentKinds BY <1>0, <2>3
  <2>5. d \in Deltas BY <2>4 DEF Deltas
  <2>6. StopEvent(c) \in Event /\ StopEvent(c).k = "stop"
    <3>1. StopsOnce(D, f) BY <1>0, FeedStops
    <3>2. c \in Decoder BY <2>1, <3>1 DEF StopsOnce
    <3> QED BY <3>2, StopType
  <2>7. FinishDecoder(c).ev = <<StopEvent(c)>> BY <2>2 DEF FinishDecoder, Fed
  <2> HIDE DEF d, c, f, x
  <2>8. Decoded(u, p) = (<<x>> \o d) \o <<StopEvent(c)>> BY <2>1, <2>7 DEF Decoded, f
  <2>9. d = <<>> <=> p.parts = <<>> BY <1>0, <1>4, <2>4
  <2> QED BY <1>1, <2>5, <2>6, <2>8, <2>9
<1>7. CASE u = "gemini"
  <2> DEFINE d == [j \in 1 .. Len(p.parts) |-> GeminiPart(D, p, 1, j)]
             fin == D.finish \/ p.fin
             stop == fin /\ ~D.stopped
             c == [D EXCEPT !.started = TRUE, !.finish = fin, !.stopped = @ \/ stop,
                            !.next = @ + Cardinality({m \in 1 .. Len(p.parts) : p.parts[m].k = "tool"})]
             y == Ev("stop", 0, fin, <<>>)
             last == IF stop THEN <<y>> ELSE <<>>
  <2>1. f.dec = c /\ f.ev = (<<x>> \o d) \o last BY <1>2, <1>7 DEF Feed, FeedGemini, Fed
  <2>2. c.started = TRUE /\ c.failed = FALSE /\ c.stopped = p.fin
    <3>1. D.stopped = FALSE /\ D.finish = FALSE /\ p.fin \in BOOLEAN BY <1>0, <1>3 DEF Payload
    <3>2. c.stopped = (D.stopped \/ stop) BY DEF NewDecoder
    <3> QED BY <3>1, <3>2 DEF NewDecoder
  <2>3. \A j \in 1 .. N : GeminiPart(D, p, 1, j) \in Event /\ GeminiPart(D, p, 1, j).k \in ContentKinds
    <3> TAKE j \in 1 .. N
    <3>1. GeminiPart(D, p, 1, j).k = p.parts[j].k BY DEF GeminiPart, Ev
    <3> QED BY <1>0, <3>1, GeminiPartType, PartType
  <2>4. d \in Seq(Event) /\ Len(d) = N /\ \A j \in 1 .. N : d[j].k \in ContentKinds BY <1>0, <2>3
  <2>5. d \in Deltas BY <2>4 DEF Deltas
  <2>6. StopEvent(c) \in Event /\ StopEvent(c).k = "stop"
    <3>1. StopsOnce(D, f) BY <1>0, FeedStops
    <3>2. c \in Decoder BY <2>1, <3>1 DEF StopsOnce
    <3> QED BY <3>2, StopType
  <2>7. FinishDecoder(c).ev = IF p.fin THEN <<>> ELSE <<StopEvent(c)>> BY <2>2 DEF FinishDecoder, Fed
  <2>8. last = IF p.fin THEN <<y>> ELSE <<>> BY <1>3
  <2>9. y \in Event /\ y.k = "stop"
    <3>1. fin \in BOOLEAN OBVIOUS
    <3>2. y \in Event BY <3>1, EvType, AtomSeq DEF EventKinds
    <3> QED BY <3>2 DEF Ev
  <2>10. d = <<>> <=> p.parts = <<>> BY <1>0, <1>4, <2>4
  <2> HIDE DEF d, c, f, x, y, last, stop, fin
  <2>11. Decoded(u, p) = ((<<x>> \o d) \o last) \o FinishDecoder(c).ev BY <2>1 DEF Decoded, f
  <2>12. <<x>> \o d \in Seq(Event) BY <1>1, <2>4
  <2> DEFINE pre == <<x>> \o d
  <2> HIDE DEF pre
  <2>13. pre \in Seq(Event) /\ Decoded(u, p) = (pre \o last) \o FinishDecoder(c).ev BY <2>11, <2>12 DEF pre
  <2>14. CASE p.fin
    <3>1. (pre \o <<y>>) \o <<>> = pre \o <<y>> BY <2>9, <2>13
    <3>2. Decoded(u, p) = pre \o <<y>> BY <2>7, <2>8, <2>13, <2>14, <3>1
    <3> QED BY <1>1, <2>5, <2>9, <2>10, <3>2 DEF pre
  <2>15. CASE ~p.fin
    <3>1. pre \o <<>> = pre BY <2>13
    <3>2. Decoded(u, p) = pre \o <<StopEvent(c)>> BY <2>7, <2>8, <2>13, <2>15, <3>1
    <3> QED BY <1>1, <2>5, <2>6, <2>10, <3>2 DEF pre
  <2> QED BY <2>14, <2>15
<1> QED BY <1>5, <1>6, <1>7 DEF Upstreams

\* At most two events without content.
LEMMA FewEvents ==
    ASSUME NEW a, NEW b, a = <<>> \/ \E x : a = <<x>> /\ x.k \notin ContentKinds,
           b = <<>> \/ \E y : b = <<y>> /\ y.k \notin ContentKinds
    PROVE  ~HasContent(a \o b)
<1>1. CASE a = <<>> /\ b = <<>>
  <2>1. Len(a \o b) = 0 BY <1>1
  <2> QED BY <2>1 DEF HasContent
<1>2. CASE a = <<>> /\ b # <<>>
  <2>1. PICK y : b = <<y>> /\ y.k \notin ContentKinds BY <1>2
  <2>2. a \o b = <<y>> BY <1>2, <2>1
  <2>3. Len(<<y>>) = 1 /\ <<y>>[1] = y OBVIOUS
  <2>4. \A n \in 1 .. Len(<<y>>) : <<y>>[n] = y BY <2>3
  <2> QED BY <2>1, <2>2, <2>4 DEF HasContent
<1>3. CASE a # <<>> /\ b = <<>>
  <2>1. PICK y : a = <<y>> /\ y.k \notin ContentKinds BY <1>3
  <2>2. a \o b = <<y>> BY <1>3, <2>1
  <2>3. Len(<<y>>) = 1 /\ <<y>>[1] = y OBVIOUS
  <2>4. \A n \in 1 .. Len(<<y>>) : <<y>>[n] = y BY <2>3
  <2> QED BY <2>1, <2>2, <2>4 DEF HasContent
<1>4. CASE a # <<>> /\ b # <<>>
  <2>1. PICK x : a = <<x>> /\ x.k \notin ContentKinds BY <1>4
  <2>2. PICK y : b = <<y>> /\ y.k \notin ContentKinds BY <1>4
  <2> DEFINE T == {x, y}
  <2>3. a \in Seq(T) /\ b \in Seq(T) BY <2>1, <2>2
  <2> HIDE DEF T
  <2>4. a \o b \in Seq(T) BY <2>3
  <2>5. \A n \in 1 .. Len(a \o b) : (a \o b)[n] = x \/ (a \o b)[n] = y BY <2>4 DEF T
  <2> QED BY <2>1, <2>2, <2>5 DEF HasContent
<1> QED BY <1>1, <1>2, <1>3, <1>4

\* A payload of another kind carries no content.
LEMMA DecodedOther ==
    ASSUME NEW u \in Upstreams, NEW p \in Sendable(u), p.t # "content"
    PROVE  ~HasContent(Decoded(u, p))
<1> DEFINE D == NewDecoder
           f == Feed(u, D, p, 1)
           z == FinishDecoder(f.dec).ev
           sg == Ev("signature", 0, FALSE, <<<<1, 1>>>>)
<1>1. /\ Plain("start").k = "start" /\ Plain("error").k = "error" /\ sg.k = "signature"
      /\ StopEvent(D).k = "stop" /\ \A d : StopEvent(d).k = "stop"
  BY DEF Plain, Ev, StopEvent
<1>2. f.ev \in {<<>>, <<Plain("start")>>, <<Plain("error")>>, <<sg>>, <<StopEvent(D)>>}
  BY DEF Upstreams, Feed, FeedOpenAI, FeedAnthropic, FeedGemini, ErrorPayload, Fed
<1>3. z \in {<<>>, <<StopEvent(f.dec)>>} BY DEF FinishDecoder, Fed
<1>4. Decoded(u, p) = f.ev \o z BY DEF Decoded
<1> HIDE DEF f, z, sg
<1>5. f.ev = <<>> \/ \E x : f.ev = <<x>> /\ x.k \notin ContentKinds BY <1>1, <1>2 DEF ContentKinds
<1>6. z = <<>> \/ \E y : z = <<y>> /\ y.k \notin ContentKinds BY <1>1, <1>3 DEF ContentKinds
<1>7. ~HasContent(f.ev \o z) BY <1>5, <1>6, FewEvents
<1> QED BY <1>4, <1>7

\* A body read as a stream is a framed one, and it has parts.
LEMMA DecodedFramed ==
    ASSUME NEW u \in Upstreams, NEW p \in Sendable(u), HasContent(Decoded(u, p))
    PROVE  Framed(Decoded(u, p)) /\ p.parts # <<>>
<1>1. p.t = "content" BY DecodedOther
<1>2. PICK d \in Deltas :
        /\ d = <<>> <=> p.parts = <<>>
        /\ \/ Decoded(u, p) = d
           \/ \E x, y \in Event : /\ x.k = "start" /\ y.k = "stop"
                                  /\ Decoded(u, p) = (<<x>> \o d) \o <<y>>
  BY <1>1, DecodedContent
<1>3. CASE Decoded(u, p) = d
  <2>1. d # <<>> BY <1>3 DEF HasContent
  <2> QED BY <1>2, <1>3, <2>1, DeltasFramed
<1>4. CASE \E x, y \in Event : x.k = "start" /\ y.k = "stop" /\ Decoded(u, p) = (<<x>> \o d) \o <<y>>
  <2>1. PICK x, y \in Event : x.k = "start" /\ y.k = "stop" /\ Decoded(u, p) = (<<x>> \o d) \o <<y>>
    BY <1>4
  <2> QED BY <1>2, <2>1, AnswerFramed
<1> QED BY <1>2, <1>3, <1>4

\* The events of a parsed response are framed.
LEMMA ResponseFramed ==
    ASSUME NEW blocks \in Seq(BlockKinds)
    PROVE  Framed(ResponseToEvents(blocks))
<1> DEFINE x == Plain("start")
           y == Ev("stop", 0, TRUE, <<>>)
<1>1. x \in Event /\ x.k = "start" BY PlainType DEF EventKinds
<1>2. y \in Event /\ y.k = "stop"
  <2>1. y \in Event BY EvType, AtomSeq DEF EventKinds
  <2> QED BY <2>1 DEF Ev
<1>3. PICK d \in Deltas : ResponseToEvents(blocks) = <<x>> \o d \o <<y>> BY ResponseEvents
<1> HIDE DEF x, y
<1>4. Framed((<<x>> \o d) \o <<y>>) BY <1>1, <1>2, AnswerFramed
<1> QED BY <1>3, <1>4

-------------------------------------------------------------------------------
(* Encoding without signatures. *)

\* Lines in a row.
LEMMA UnsignedConcat ==
    ASSUME NEW a \in Seq(Line), NEW b \in Seq(Line), Unsigned(a), Unsigned(b)
    PROVE  Unsigned(a \o b)
BY DEF Unsigned

\* A line without text, or with content.
LEMMA UnsignedOne ==
    ASSUME NEW x \in Line, x.a = <<>> \/ x.k \in ContentKinds
    PROVE  <<x>> \in Seq(Line) /\ Unsigned(<<x>>)
<1>1. <<x>> \in Seq(Line) /\ Len(<<x>>) = 1 /\ <<x>>[1] = x OBVIOUS
<1>2. \A n \in 1 .. Len(<<x>>) : <<x>>[n] = x BY <1>1
<1> QED BY <1>1, <1>2 DEF Unsigned

\* A bare line.
LEMMA UnsignedBare ==
    ASSUME NEW l \in LineNames
    PROVE  <<Bare(l)>> \in Seq(Line) /\ Unsigned(<<Bare(l)>>)
<1>1. Bare(l) \in Line BY BareType
<1>2. Bare(l).a = <<>> BY DEF Bare, Ln
<1> HIDE DEF Bare
<1> QED BY <1>1, <1>2, UnsignedOne

\* The outcome o of encoding keeps the encoder free of signatures.
Clean(o) == o.enc \in Encoder /\ o.enc.sig = <<>> /\ o.out \in Seq(Line) /\ Unsigned(o.out)

\* Nothing is written.
LEMMA CleanNothing ==
    ASSUME NEW s \in Encoder, s.sig = <<>>
    PROVE  Clean(Encoded(s, <<>>))
BY DEF Clean, Encoded, Unsigned

\* More lines are written.
LEMMA CleanMore ==
    ASSUME NEW o, Clean(o), NEW out \in Seq(Line), Unsigned(out)
    PROVE  Clean(Encoded(o.enc, o.out \o out))
<1>1. o.out \in Seq(Line) BY DEF Clean
<1>2. o.out \o out \in Seq(Line) BY <1>1
<1>3. Unsigned(o.out \o out) BY <1>1, UnsignedConcat DEF Clean
<1> QED BY <1>2, <1>3 DEF Clean, Encoded

\* Closing a block.
LEMMA CleanClose ==
    ASSUME NEW s \in Encoder, s.sig = <<>>
    PROVE  Clean(CloseBlock(s))
<1> DEFINE y == Ln("block_stop", s.idx, "none", 0, FALSE, <<>>)
           c == CloseBlock(s)
<1>1. s.idx \in Nat BY EncoderFields
<1>2. y \in Line BY <1>1, LnType, AtomSeq DEF LineNames
<1>3. y.a = <<>> BY DEF Ln
<1>4. c.enc \in Encoder /\ c.out \in Seq(Line) BY CloseFacts
<1>5. c.enc.sig = <<>>
  <2>1. CASE s.cur = "none" BY <2>1 DEF CloseBlock, Encoded
  <2>2. CASE s.cur # "none"
    <3>1. c.enc = [s EXCEPT !.cur = "none", !.idx = @ + 1,
                            !.sig = IF s.cur = "reason" THEN <<>> ELSE @,
                            !.tools = IF s.cur = "tool" THEN @ \ s.open ELSE @,
                            !.open = IF s.cur = "tool" THEN {} ELSE @]
      BY <2>2 DEF CloseBlock, Encoded
    <3> HIDE DEF c
    <3>2. c.enc.sig = IF s.cur = "reason" THEN <<>> ELSE s.sig BY <3>1 DEF Encoder
    <3> QED BY <3>2
  <2> QED BY <2>1, <2>2
<1>6. c.out \in {<<>>, <<>> \o <<y>>} BY DEF CloseBlock, Encoded
<1> HIDE DEF y, c
<1>7. <<y>> \in Seq(Line) /\ Unsigned(<<y>>) BY <1>2, <1>3, UnsignedOne
<1>8. <<>> \o <<y>> = <<y>> BY <1>2
<1>9. Unsigned(<<>>) BY DEF Unsigned
<1>10. Unsigned(c.out) BY <1>6, <1>7, <1>8, <1>9
<1> QED BY <1>4, <1>5, <1>10 DEF Clean, c

\* Opening one.
LEMMA CleanOpen ==
    ASSUME NEW s \in Encoder, s.sig = <<>>, NEW e \in Event, e.k \in ContentKinds
    PROVE  Clean(OpenBlock(s, e))
<1> DEFINE c == CloseBlock(s)
           x == Ln("block_start", c.enc.idx, e.k, e.i, e.hd, <<>>)
           o == OpenBlock(s, e)
<1>1. Clean(c) BY CleanClose
<1>2. o.enc \in Encoder /\ o.out \in Seq(Line) BY OpenFacts
<1>3. c.enc \in Encoder /\ c.enc.sig = <<>> /\ c.out \in Seq(Line) /\ Unsigned(c.out) BY <1>1 DEF Clean
<1>4. c.enc.idx \in Nat BY <1>3, EncoderFields
<1>5. x \in Line BY <1>4, EventFields, LnType, AtomSeq DEF LineNames
<1>6. x.a = <<>> BY DEF Ln
<1>7. o.out = c.out \o <<x>> BY DEF OpenBlock, Encoded
<1>8. o.enc = [c.enc EXCEPT !.cur = e.k,
                            !.tools = IF e.k = "tool" THEN @ \cup {e.i} ELSE @,
                            !.open = IF e.k = "tool" THEN {e.i} ELSE @]
  BY DEF OpenBlock, Encoded
<1> HIDE DEF c, o, x
<1>9. o.enc.sig = <<>> BY <1>3, <1>8 DEF Encoder
<1>10. <<x>> \in Seq(Line) /\ Unsigned(<<x>>) BY <1>5, <1>6, UnsignedOne
<1>11. Unsigned(o.out) BY <1>3, <1>7, <1>10, UnsignedConcat
<1> QED BY <1>2, <1>9, <1>11 DEF Clean, o

\* The deltas of an Anthropic client.
LEMMA CleanContent ==
    ASSUME NEW s \in Encoder, s.sig = <<>>, NEW e \in Event, e.k \in ContentKinds
    PROVE  Clean(EncodeTextual(s, e)) /\ Clean(EncodeToolCall(s, e))
<1>1. Clean(Encoded(s, <<>>)) /\ Clean(OpenBlock(s, e)) BY CleanNothing, CleanOpen
<1>2. ASSUME NEW o, Clean(o)
      PROVE  Clean(Encoded(o.enc, o.out \o <<Delta(o.enc, e)>>)) /\ Clean(Encoded(o.enc, o.out \o <<>>))
  <2> DEFINE x == Delta(o.enc, e)
  <2>1. o.enc \in Encoder BY <1>2 DEF Clean
  <2>2. x \in Line BY <2>1, DeltaCarries
  <2>3. x.k \in ContentKinds BY DEF Delta, Ln
  <2> HIDE DEF x
  <2>4. <<x>> \in Seq(Line) /\ Unsigned(<<x>>) BY <2>2, <2>3, UnsignedOne
  <2>5. <<>> \in Seq(Line) /\ Unsigned(<<>>) BY DEF Unsigned
  <2>6. Clean(Encoded(o.enc, o.out \o <<>>)) BY <1>2, <2>5, CleanMore
  <2>7. Clean(Encoded(o.enc, o.out \o <<x>>)) BY <1>2, <2>4, CleanMore
  <2> QED BY <2>6, <2>7 DEF x
<1>3. Clean(EncodeTextual(s, e))
  <2> DEFINE o == IF s.cur = e.k THEN Encoded(s, <<>>) ELSE OpenBlock(s, e)
  <2>1. EncodeTextual(s, e) = Encoded(o.enc, o.out \o <<Delta(o.enc, e)>>) BY DEF EncodeTextual
  <2>2. Clean(o) BY <1>1
  <2> HIDE DEF o
  <2> QED BY <1>2, <2>1, <2>2
<1>4. Clean(EncodeToolCall(s, e))
  <2> DEFINE o == IF e.i \in s.tools THEN Encoded(s, <<>>) ELSE OpenBlock(s, e)
  <2>1. EncodeToolCall(s, e) =
          Encoded(o.enc, o.out \o (IF e.a = <<>> THEN <<>> ELSE <<Delta(o.enc, e)>>))
    BY DEF EncodeToolCall
  <2>2. Clean(o) BY <1>1
  <2> HIDE DEF o
  <2>3. CASE e.a = <<>> BY <1>2, <2>1, <2>2, <2>3
  <2>4. CASE e.a # <<>> BY <1>2, <2>1, <2>2, <2>4
  <2> QED BY <2>3, <2>4
<1> QED BY <1>3, <1>4

\* Every event of a JSON answer, for either client; a stop ends with message_stop.
LEMMA EncodeClean ==
    ASSUME NEW client, NEW s \in Encoder, s.sig = <<>>, NEW e \in Event,
           e.k \in ContentKinds \cup {"start", "stop"}
    PROVE  /\ Clean(Encode(client, s, e))
           /\ e.k = "stop" => LET out == Encode(client, s, e).out
                              IN  Len(out) >= 1 /\ out[Len(out)].l = "message_stop"
<1> DEFINE o == Encode(client, s, e)
           st == Bare("message_start")
<1>0. e.k \in EventKinds /\ e.i \in Nat /\ e.hd \in BOOLEAN /\ e.a \in Seq(Atom) BY EventFields
<1>1. CASE e.k = "start"
  <2>1. o = Encoded(s, <<st>>) BY <1>1 DEF Encode, EncodeAnthropic, EncodeOpenAI, ContentKinds
  <2>2. <<st>> \in Seq(Line) /\ Unsigned(<<st>>) BY UnsignedBare DEF LineNames
  <2> HIDE DEF st
  <2>3. Clean(o) BY <2>1, <2>2 DEF Clean, Encoded
  <2> QED BY <1>1, <2>3
<1>2. CASE e.k \in ContentKinds
  <2>0. e.k # "stop" BY <1>2 DEF ContentKinds
  <2>1. CASE client = "anthropic"
    <3>1. o = EncodeTextual(s, e) \/ o = EncodeToolCall(s, e)
      BY <1>2, <2>1 DEF Encode, EncodeAnthropic, ContentKinds
    <3> QED BY <1>2, <2>0, <3>1, CleanContent
  <2>2. CASE client # "anthropic"
    <3> DEFINE x == Ln("delta", 0, e.k, e.i, e.hd, e.a)
    <3>1. o = Encoded(s, <<x>>) BY <1>2, <2>2 DEF Encode, EncodeOpenAI, ContentKinds
    <3>2. x \in Line BY <1>0, LnType DEF LineNames
    <3>3. x.k \in ContentKinds BY <1>2 DEF Ln
    <3> HIDE DEF x
    <3>4. <<x>> \in Seq(Line) /\ Unsigned(<<x>>) BY <3>2, <3>3, UnsignedOne
    <3> QED BY <2>0, <3>1, <3>4 DEF Clean, Encoded
  <2> QED BY <2>1, <2>2
<1>3. CASE e.k = "stop"
  <2>1. CASE client = "anthropic"
    <3> DEFINE c == CloseBlock(s)
               x == Ln("message_delta", 0, "none", 0, e.hd, <<>>)
               y == Bare("message_stop")
    <3>1. o = Encoded(c.enc, c.out \o <<x, y>>) BY <1>3, <2>1 DEF Encode, EncodeAnthropic
    <3>2. Clean(c) BY CleanClose
    <3>3. x \in Line
      <4>1. "message_delta" \in LineNames /\ "none" \in EventKinds \cup {"none"} BY DEF LineNames
      <4>2. 0 \in Nat /\ e.hd \in BOOLEAN /\ <<>> \in Seq(Atom) BY <1>0, AtomSeq
      <4> QED BY <4>1, <4>2, LnType, Zenon
    <3>4. y \in Line /\ y.l = "message_stop" BY BareType DEF LineNames
    <3>5. x.a = <<>> /\ y.a = <<>> BY DEF Bare, Ln
    <3> HIDE DEF c, x, y
    <3>6. <<x, y>> \in Seq(Line) /\ Len(<<x, y>>) = 2 /\ <<x, y>>[1] = x /\ <<x, y>>[2] = y BY <3>3, <3>4
    <3>7. \A n \in 1 .. Len(<<x, y>>) : n = 1 \/ n = 2 BY <3>6
    <3>8. Unsigned(<<x, y>>) BY <3>5, <3>6, <3>7 DEF Unsigned
    <3> DEFINE z == <<x, y>>
    <3>9. z \in Seq(Line) /\ Unsigned(z) /\ Len(z) = 2 /\ z[2].l = "message_stop" /\ o = Encoded(c.enc, c.out \o z)
      BY <3>1, <3>4, <3>6, <3>8
    <3> HIDE DEF z, o
    <3>10. Clean(o) BY <3>2, <3>9, CleanMore
    <3>11. c.out \in Seq(Line) /\ o.out = c.out \o z BY <3>2, <3>9 DEF Clean, Encoded
    <3>12. /\ Len(c.out \o z) = Len(c.out) + Len(z) /\ Len(c.out) \in Nat
           /\ \A k \in 1 .. Len(z) : (c.out \o z)[Len(c.out) + k] = z[k]
      <4>1. c.out \in Seq(Line) /\ z \in Seq(Line) BY <3>9, <3>11
      <4> QED BY <4>1, Joins
    <3>13. Len(o.out) = Len(c.out) + 2 /\ o.out[Len(c.out) + 2] = z[2]
      <4>1. 2 \in 1 .. Len(z) BY <3>9
      <4> QED BY <3>9, <3>11, <3>12, <4>1
    <3>14. Len(o.out) >= 1 /\ o.out[Len(o.out)].l = "message_stop" BY <3>9, <3>12, <3>13
    <3> QED BY <3>10, <3>14 DEF o
  <2>2. CASE client # "anthropic"
    <3> DEFINE x == Ln("message_stop", 0, "none", 0, e.hd, <<>>)
    <3>1. o = Encoded(s, <<x>>) BY <1>3, <2>2 DEF Encode, EncodeOpenAI, ContentKinds
    <3>2. x \in Line
      <4>1. "message_stop" \in LineNames /\ "none" \in EventKinds \cup {"none"} BY DEF LineNames
      <4>2. 0 \in Nat /\ e.hd \in BOOLEAN /\ <<>> \in Seq(Atom) BY <1>0, AtomSeq
      <4> QED BY <4>1, <4>2, LnType, Zenon
    <3>3. x.a = <<>> /\ x.l = "message_stop" BY DEF Ln
    <3> HIDE DEF x, o
    <3>4. <<x>> \in Seq(Line) /\ Unsigned(<<x>>) BY <3>2, <3>3, UnsignedOne
    <3>5. Clean(o) BY <3>1, <3>4 DEF Clean, Encoded
    <3>6. o.out = <<x>> /\ Len(<<x>>) = 1 /\ <<x>>[1] = x BY <3>1 DEF Encoded
    <3>7. Len(o.out) >= 1 /\ o.out[Len(o.out)].l = "message_stop" BY <3>3, <3>6
    <3> QED BY <3>5, <3>7 DEF o
  <2> QED BY <2>1, <2>2
<1> QED BY <1>1, <1>2, <1>3

-------------------------------------------------------------------------------
(* The stream made of a JSON answer. *)

\* The stream has started, or is about to.
Starting == HasKind(events, "start") \/ \E n \in 1 .. Len(lines) : lines[n].l = "message_start"

\* What a channel has to carry is what is written, then what is held back, then what
\* is in the events still to be encoded.
Ledger ==
    \A ch \in ChannelIds :
      OnChannel(lines, ch) \o (HeldOn(held, ch) \o OnChannel(events, ch)) =
        OnChannel(ResponseToEvents(body.blocks), ch)

Streaming ==
    /\ Streamed(events)
    /\ terminal = <<>> \/ (events = <<>> /\ \E e \in Event : e.k = "stop" /\ terminal = <<e>>)
    /\ Starting => HasKind(events, "stop") \/ terminal # <<>>
    /\ sawError = FALSE /\ AllNamed(lines, BlockNames \cup {"message_start"})
    /\ enc.sig = <<>> /\ Unsigned(lines)
    /\ ~route.privacy => \A ch : HeldOn(held, ch) = <<>>
    /\ body.p.parts = <<>> => Ledger

\* Nothing of it exists before the body is read.
Fresh ==
    /\ events = <<>> /\ lines = <<>> /\ terminal = <<>> /\ enc = NewEncoder
    /\ held = NoneHeld /\ sawError = FALSE

JsonInv ==
    /\ HandlerInv
    /\ phase \in {"client", "headers", "upstream"} => Fresh
    /\ phase = "json" => Streaming
    /\ JsonStreamWhole

\* One event less.
LEMMA TailStreamed ==
    ASSUME NEW s \in Seq(Event), s # <<>>, Streamed(s)
    PROVE  /\ Head(s) \in Event /\ Tail(s) \in Seq(Event) /\ Streamed(Tail(s))
           /\ Head(s).k \in ContentKinds \cup {"start", "stop"}
           /\ Head(s).k = "stop" => Tail(s) = <<>>
           /\ HasKind(s, "start") <=> Head(s).k = "start" \/ HasKind(Tail(s), "start")
           /\ HasKind(s, "stop") <=> Head(s).k = "stop" \/ HasKind(Tail(s), "stop")
<1> DEFINE t == Tail(s)
<1>1. /\ Len(s) \in Nat /\ Len(s) >= 1 /\ Head(s) = s[1] /\ Head(s) \in Event
      /\ t \in Seq(Event) /\ Len(t) = Len(s) - 1 /\ \A n \in 1 .. Len(t) : t[n] = s[n + 1]
  <2>1. Head(s) \in Event /\ t \in Seq(Event) /\ Len(t) = Len(s) - 1 BY HeadTailProperties
  <2>2. Len(s) \in Nat /\ Len(s) >= 1 /\ Head(s) = s[1] BY EmptySeq
  <2>3. \A n \in 1 .. Len(t) : t[n] = s[n + 1] BY <2>1
  <2> QED BY <2>1, <2>2, <2>3
<1> HIDE DEF t
<1>2. 1 \in 1 .. Len(s) /\ \A n \in 1 .. Len(t) : n + 1 \in 1 .. Len(s) BY <1>1
<1>3. \A n \in 1 .. Len(s) : n = 1 \/ (n - 1 \in 1 .. Len(t) /\ (n - 1) + 1 = n) BY <1>1
<1>4. \A n \in 1 .. Len(t) : n + 1 = Len(s) => n = Len(t) BY <1>1
<1>5. Streamed(t) BY <1>1, <1>2, <1>4 DEF Streamed
<1>6. s[1].k \in ContentKinds \cup {"start", "stop"} /\ (s[1].k = "stop" => 1 = Len(s)) BY <1>2 DEF Streamed
<1>7. Len(s) = 1 => t = <<>> BY <1>1
<1>8. \A kind : HasKind(s, kind) <=> s[1].k = kind \/ HasKind(t, kind)
  <2> TAKE kind
  <2>1. ASSUME HasKind(s, kind) PROVE s[1].k = kind \/ HasKind(t, kind)
    <3>1. PICK n \in 1 .. Len(s) : s[n].k = kind BY <2>1 DEF HasKind
    <3>2. CASE n = 1 BY <3>1, <3>2
    <3>3. CASE n - 1 \in 1 .. Len(t) /\ (n - 1) + 1 = n
      <4>1. t[n - 1] = s[n] BY <1>1, <3>3
      <4> QED BY <3>1, <3>3, <4>1 DEF HasKind
    <3> QED BY <1>3, <3>2, <3>3
  <2>2. ASSUME s[1].k = kind PROVE HasKind(s, kind) BY <1>2, <2>2 DEF HasKind
  <2>3. ASSUME HasKind(t, kind) PROVE HasKind(s, kind)
    <3>1. PICK n \in 1 .. Len(t) : t[n].k = kind BY <2>3 DEF HasKind
    <3>2. n + 1 \in 1 .. Len(s) /\ s[n + 1].k = kind BY <1>1, <1>2, <3>1
    <3> QED BY <3>2 DEF HasKind
  <2> QED BY <2>1, <2>2, <2>3
<1> QED BY <1>1, <1>5, <1>6, <1>7, <1>8 DEF t

\* What is restored and what is held afterwards is what was held and the event.
LEMMA RestoredCarries ==
    ASSUME TypeOK, ~route.privacy => \A ch : HeldOn(held, ch) = <<>>,
           NEW e \in Event, NEW r \in RestoredEvents(e), NEW ch
    PROVE  OnChannel(r.ev, ch) \o HeldOn(r.held, ch) = HeldOn(held, ch) \o Carried(e, ch)
<1>1. HeldType(held) BY DEF TypeOK, HeldType
<1>2. CASE route.privacy
  <2>1. r \in RestoreEvent(held, e) BY <1>2 DEF RestoredEvents
  <2> QED BY <1>1, <2>1, RestoreCarries
<1>3. CASE ~route.privacy
  <2>1. r.held = held /\ r.ev = <<e>> BY <1>3 DEF RestoredEvents
  <2>2. OnChannel(<<e>>, ch) = Carried(e, ch) BY BothCarry, OneOnChannel
  <2>3. Carried(e, ch) \in Seq(Atom) BY BothCarry, CarriedType
  <2>4. HeldOn(held, ch) = <<>> BY <1>3
  <2>5. Carried(e, ch) \o <<>> = <<>> \o Carried(e, ch) BY <2>3
  <2> QED BY <2>1, <2>2, <2>4, <2>5
<1> QED BY <1>2, <1>3

\* Writing an event that is not the stop.
LEMMA WritesEvent ==
    ASSUME TypeOK, Streaming, NEW e \in Event, e.k \in ContentKinds \cup {"start"}, EncodeEvent(e)
    PROVE  /\ sawError' = FALSE /\ AllNamed(lines', BlockNames \cup {"message_start"})
           /\ enc'.sig = <<>> /\ Unsigned(lines')
           /\ (\E n \in 1 .. Len(lines') : lines'[n].l = "message_start") =>
                e.k = "start" \/ \E n \in 1 .. Len(lines) : lines[n].l = "message_start"
           /\ \A ch : OnChannel(lines', ch) = OnChannel(lines, ch) \o Carried(e, ch)
<1> DEFINE x == Encode(route.client, enc, e)
           N == BlockNames \cup {"message_start"}
<1>1. enc \in Encoder /\ lines \in Seq(Line) BY DEF TypeOK
<1>2. Answer(x, e) BY <1>1, EncodeAnswer
<1>3. x.enc \in Encoder /\ x.out \in Seq(Line) /\ AllNamed(x.out, NamesFor(e)) BY <1>2 DEF Answer
<1>4. /\ enc' = x.enc /\ lines' = lines \o x.out
      /\ sawError' = (sawError \/ (e.k = "error" /\ x.out # <<>>))
  BY DEF EncodeEvent
<1>5. e.k # "error" /\ (e.k # "start" => e.k \in ContentKinds) BY DEF ContentKinds
<1>6. NamesFor(e) \subseteq N /\ (e.k # "start" => "message_start" \notin NamesFor(e))
  BY <1>5 DEF NamesFor, ContentKinds, BlockNames
<1>7. Clean(x)
  <2>1. enc.sig = <<>> BY DEF Streaming
  <2>2. e.k \in ContentKinds \cup {"start", "stop"} OBVIOUS
  <2> QED BY <1>1, <2>1, <2>2, EncodeClean
<1>8. \A ch : OnChannel(x.out, ch) = Carried(e, ch) BY <1>1, EncodeCarries
<1> HIDE DEF x, N
<1>9. AllNamed(x.out, N) /\ AllNamed(lines, N) BY <1>3, <1>6 DEF AllNamed, Streaming, N
<1>10. AllNamed(lines \o x.out, N) BY <1>1, <1>3, <1>9, ConcatNamed
<1>11. enc'.sig = <<>> /\ Unsigned(x.out) BY <1>4, <1>7 DEF Clean
<1>12. Unsigned(lines \o x.out) BY <1>1, <1>3, <1>11, UnsignedConcat DEF Streaming
<1>13. sawError' = FALSE BY <1>4, <1>5 DEF Streaming
<1>14. ASSUME NEW n \in 1 .. Len(lines'), lines'[n].l = "message_start", e.k # "start"
       PROVE  \E m \in 1 .. Len(lines) : lines[m].l = "message_start"
  <2> DEFINE o == x.out
  <2>1. /\ Len(lines \o o) = Len(lines) + Len(o) /\ Len(lines) \in Nat /\ Len(o) \in Nat
        /\ \A k \in 1 .. Len(lines) : (lines \o o)[k] = lines[k]
        /\ \A k \in 1 .. Len(o) : (lines \o o)[Len(lines) + k] = o[k]
    <3>1. lines \in Seq(Line) /\ o \in Seq(Line) BY <1>1, <1>3
    <3> HIDE DEF o
    <3> QED BY <3>1, Joins
  <2>2. \A k \in 1 .. Len(o) : o[k].l # "message_start" BY <1>3, <1>6, <1>14 DEF AllNamed
  <2> HIDE DEF o
  <2>3. n \in 1 .. Len(lines \o o) /\ (lines \o o)[n].l = "message_start" BY <1>4, <1>14 DEF o
  <2>4. n \in 1 .. Len(lines) \/ (n - Len(lines) \in 1 .. Len(o) /\ Len(lines) + (n - Len(lines)) = n)
    BY <2>1, <2>3
  <2>5. n \in 1 .. Len(lines) BY <2>1, <2>2, <2>3, <2>4
  <2> QED BY <2>1, <2>3, <2>5
<1>15. \A ch : OnChannel(lines \o x.out, ch) = OnChannel(lines, ch) \o OnChannel(x.out, ch)
  BY <1>1, <1>3, LinesConcat
<1> QED BY <1>4, <1>8, <1>10, <1>11, <1>12, <1>13, <1>14, <1>15 DEF N

\* The body is turned into events.
LEMMA JsonStarts ==
    ASSUME JsonInv, NEW b \in Bodies[route.upstream], JsonAsStream(b)
    PROVE  JsonInv'
<1>0. /\ HandlerInv /\ TypeOK /\ Fresh /\ phase' = "json" /\ answer' = answer /\ answer = NoAnswer
      /\ UNCHANGED <<route, enc, held, terminal, sawError, lines>> /\ body' = b
  BY DEF JsonInv, HandlerInv, JsonAsStream, Unanswered
<1>1. HandlerInv' BY <1>0, JsonAsStreamStep
<1>2. /\ b.p \in Sendable(route.upstream) /\ b.blocks \in Seq(BlockKinds) /\ route.upstream \in Upstreams
  BY <1>0, BodyType DEF TypeOK, Route
<1>3. DecodedEvents(b) = Decoded(route.upstream, b.p) BY DEF DecodedEvents, Decoded
<1>4. /\ Framed(events')
      /\ b.p.parts = <<>> => events' = ResponseToEvents(b.blocks)
  <2>1. events' = IF HasContent(DecodedEvents(b)) THEN DecodedEvents(b) ELSE ResponseToEvents(b.blocks)
    BY DEF JsonAsStream
  <2>2. CASE HasContent(DecodedEvents(b))
    <3>1. Framed(DecodedEvents(b)) /\ b.p.parts # <<>> BY <1>2, <1>3, <2>2, DecodedFramed
    <3> QED BY <2>1, <2>2, <3>1
  <2>3. CASE ~HasContent(DecodedEvents(b)) BY <1>2, <2>1, <2>3, ResponseFramed
  <2> QED BY <2>2, <2>3
<1>5. lines' = <<>> /\ Len(lines') = 0 BY <1>0 DEF Fresh
<1>6. \A ch : HeldOn(held', ch) = <<>> BY <1>0 DEF Fresh, HeldOn, NoneHeld
<1>7. body'.p.parts = <<>> => Ledger'
  <2> SUFFICES ASSUME body'.p.parts = <<>>, NEW ch \in ChannelIds
               PROVE  OnChannel(lines', ch) \o (HeldOn(held', ch) \o OnChannel(events', ch)) =
                        OnChannel(ResponseToEvents(body'.blocks), ch)
    BY DEF Ledger
  <2> DEFINE z == OnChannel(events', ch)
  <2>1. z \in Seq(Atom) BY <1>4, BothCarry, OnChannelType DEF Framed
  <2>2. events' = ResponseToEvents(body'.blocks) BY <1>0, <1>4
  <2>3. OnChannel(lines', ch) = <<>> BY <1>5, NothingOnChannel
  <2>4. HeldOn(held', ch) = <<>> BY <1>6
  <2> HIDE DEF z
  <2>5. <<>> \o (<<>> \o z) = z BY <2>1
  <2> QED BY <2>2, <2>3, <2>4, <2>5 DEF z
<1>8. Streaming'
  <2>1. Streamed(events') /\ (HasKind(events', "start") => HasKind(events', "stop")) BY <1>4 DEF Framed
  <2>2. Starting' => HasKind(events', "start") BY <1>5 DEF Starting
  <2>3. AllNamed(lines', BlockNames \cup {"message_start"}) /\ Unsigned(lines') BY <1>5 DEF AllNamed, Unsigned
  <2>4. terminal' = <<>> /\ sawError' = FALSE /\ enc'.sig = <<>> BY <1>0 DEF Fresh, NewEncoder
  <2> QED BY <1>6, <1>7, <2>1, <2>2, <2>3, <2>4 DEF Streaming
<1>9. JsonStreamWhole' BY <1>0 DEF JsonStreamWhole, JsonStreamEnds, StreamCarriesResponse, NoAnswer
<1> QED BY <1>0, <1>1, <1>8, <1>9 DEF JsonInv

\* The ledger after a step that takes c off the events and writes w.
LEMMA LedgerStep ==
    ASSUME TypeOK, TypeOK', Ledger, body' = body,
           \A ch \in ChannelIds : \E w, c \in Seq(Atom) :
             /\ OnChannel(lines', ch) = OnChannel(lines, ch) \o w
             /\ OnChannel(events, ch) = c \o OnChannel(events', ch)
             /\ w \o HeldOn(held', ch) = HeldOn(held, ch) \o c
    PROVE  Ledger'
<1> SUFFICES ASSUME NEW ch \in ChannelIds
             PROVE  OnChannel(lines', ch) \o (HeldOn(held', ch) \o OnChannel(events', ch)) =
                      OnChannel(ResponseToEvents(body'.blocks), ch)
  BY DEF Ledger
<1> DEFINE l == OnChannel(lines, ch)
           h == HeldOn(held, ch)
           g == HeldOn(held', ch)
           r == OnChannel(events', ch)
<1>1. l \in Seq(Atom)
  <2>1. lines \in Seq(Line) BY DEF TypeOK
  <2> QED BY <2>1, BothCarry, OnChannelType
<1>2. r \in Seq(Atom)
  <2>1. events' \in Seq(Event) BY DEF TypeOK
  <2> QED BY <2>1, BothCarry, OnChannelType
<1>3. h \in Seq(Atom) /\ g \in Seq(Atom)
  <2>1. HeldType(held) /\ HeldType(held') BY DEF TypeOK, HeldType
  <2> QED BY <2>1, HeldOnType
<1>4. PICK w, c \in Seq(Atom) :
        OnChannel(lines', ch) = l \o w /\ OnChannel(events, ch) = c \o r /\ w \o g = h \o c
  OBVIOUS
<1>5. l \o (h \o OnChannel(events, ch)) = OnChannel(ResponseToEvents(body.blocks), ch) BY DEF Ledger
<1> HIDE DEF l, h, g, r
<1>6. (l \o w) \o (g \o r) = l \o (h \o (c \o r))
  <2>1. w \in Seq(Atom) /\ c \in Seq(Atom) BY <1>4
  <2>2. \A q \in Seq(Atom) : (l \o w) \o q = l \o (w \o q) BY <1>1, <2>1, TextAssociative
  <2>3. g \o r \in Seq(Atom) BY <1>2, <1>3
  <2>4. (l \o w) \o (g \o r) = l \o (w \o (g \o r)) BY <2>2, <2>3
  <2>5. (w \o g) \o r = w \o (g \o r)
    <3>1. \A q \in Seq(Atom) : (w \o g) \o q = w \o (g \o q) BY <1>3, <2>1, TextAssociative
    <3> QED BY <1>2, <3>1
  <2>6. (h \o c) \o r = h \o (c \o r)
    <3>1. \A q \in Seq(Atom) : (h \o c) \o q = h \o (c \o q) BY <1>3, <2>1, TextAssociative
    <3> QED BY <1>2, <3>1
  <2>7. w \o g = h \o c BY <1>4
  <2> QED BY <2>4, <2>5, <2>6, <2>7
<1>7. OnChannel(lines', ch) \o (g \o r) = OnChannel(ResponseToEvents(body'.blocks), ch)
  BY <1>4, <1>5, <1>6
<1> QED BY <1>7 DEF g, r

\* One iteration over the events.
LEMMA JsonEncodes ==
    ASSUME JsonInv, EncodeNext
    PROVE  JsonInv'
<1>0. /\ HandlerInv /\ TypeOK /\ Streaming /\ events # <<>> /\ phase = "json"
      /\ UNCHANGED <<route, phase, success, body, records, answer>> /\ answer = NoAnswer
      /\ events' = Tail(events)
  BY DEF JsonInv, HandlerInv, EncodeNext, Unanswered
<1>1. HandlerInv' /\ TypeOK' BY <1>0, EncodeNextStep DEF HandlerInv
<1> DEFINE e == Head(events)
<1>2. events \in Seq(Event) BY <1>0 DEF TypeOK
<1>3. /\ e \in Event /\ Tail(events) \in Seq(Event) /\ Streamed(Tail(events))
      /\ e.k \in ContentKinds \cup {"start", "stop"}
      /\ e.k = "stop" => Tail(events) = <<>>
      /\ HasKind(events, "start") <=> e.k = "start" \/ HasKind(Tail(events), "start")
      /\ HasKind(events, "stop") <=> e.k = "stop" \/ HasKind(Tail(events), "stop")
  <2>1. Streamed(events) BY <1>0 DEF Streaming
  <2> QED BY <1>0, <1>2, <2>1, TailStreamed
<1>4. PICK r \in RestoredEvents(e) :
        /\ held' = r.held
        /\ \/ r.ev = <<>> /\ UNCHANGED <<enc, lines, sawError, terminal>>
           \/ r.ev # <<>> /\ RelayJson(r.ev[1])
  BY DEF EncodeNext
<1>5. /\ HeldType(r.held)
      /\ r.ev = <<>> \/ (r.ev \in Seq(Event) /\ Len(r.ev) = 1 /\ r.ev[1] \in Event /\ r.ev[1].k = e.k)
  BY <1>0, <1>3, RestoredType
<1>6. r.ev = <<>> => e.k \in ContentKinds
  <2> SUFFICES ASSUME r.ev = <<>>, e.k \notin ContentKinds PROVE FALSE OBVIOUS
  <2>1. r.ev = <<e>> BY DEF RestoredEvents, RestoreEvent
  <2> HIDE DEF e
  <2> QED BY <2>1
<1>7. terminal = <<>> BY <1>0 DEF Streaming
<1>8. ~route.privacy => \A ch : HeldOn(held', ch) = <<>>
  <2> SUFFICES ASSUME ~route.privacy PROVE \A ch : HeldOn(held', ch) = <<>> OBVIOUS
  <2>1. r.held = held BY DEF RestoredEvents
  <2> QED BY <1>0, <1>4, <2>1 DEF Streaming
<1>9. \A ch : OnChannel(events, ch) = Carried(e, ch) \o OnChannel(events', ch)
  <2> TAKE ch
  <2> QED BY <1>0, <1>2, BothCarry, OnChannelHead
<1>10. \A ch : OnChannel(r.ev, ch) \o HeldOn(held', ch) = HeldOn(held, ch) \o Carried(e, ch)
  <2> TAKE ch
  <2>1. ~route.privacy => \A c : HeldOn(held, c) = <<>> BY <1>0 DEF Streaming
  <2> QED BY <1>0, <1>3, <1>4, <2>1, RestoredCarries
<1>11. \A ch : Carried(e, ch) \in Seq(Atom) /\ OnChannel(r.ev, ch) \in Seq(Atom)
  <2> TAKE ch
  <2>1. Carried(e, ch) \in Seq(Atom) BY <1>3, BothCarry, CarriedType
  <2>2. r.ev \in Seq(Event)
    <3>1. <<>> \in Seq(Event) OBVIOUS
    <3> QED BY <1>5, <3>1
  <2>3. OnChannel(r.ev, ch) \in Seq(Atom) BY <2>2, BothCarry, OnChannelType
  <2> QED BY <2>1, <2>3
<1>12. ASSUME \A ch : OnChannel(lines', ch) = OnChannel(lines, ch) \o OnChannel(r.ev, ch), body.p.parts = <<>>
       PROVE  Ledger'
  <2>1. Ledger BY <1>0, <1>12 DEF Streaming
  <2>2. ASSUME NEW ch \in ChannelIds
        PROVE  \E w, c \in Seq(Atom) :
                 /\ OnChannel(lines', ch) = OnChannel(lines, ch) \o w
                 /\ OnChannel(events, ch) = c \o OnChannel(events', ch)
                 /\ w \o HeldOn(held', ch) = HeldOn(held, ch) \o c
    BY <1>9, <1>10, <1>11, <1>12
  <2>3. body' = body BY <1>0
  <2> HIDE DEF e
  <2> QED BY <1>0, <1>1, <2>1, <2>2, <2>3, LedgerStep
<1>13. \A ch : OnChannel(lines, ch) \in Seq(Atom)
  <2>1. lines \in Seq(Line) BY <1>0 DEF TypeOK
  <2> QED BY <2>1, BothCarry, OnChannelType
<1>14. JsonStreamWhole' BY <1>0 DEF JsonStreamWhole, JsonStreamEnds, StreamCarriesResponse, NoAnswer
<1>15. Streaming'
  <2>1. Streamed(events') BY <1>0, <1>3
  <2>2. CASE r.ev = <<>>
    <3>1. /\ UNCHANGED <<enc, lines, sawError, terminal>> /\ e.k \in ContentKinds BY <1>4, <1>6, <2>2
    <3>2. \A ch : OnChannel(lines', ch) = OnChannel(lines, ch) \o OnChannel(r.ev, ch)
      <4> TAKE ch
      <4>1. OnChannel(r.ev, ch) = <<>> BY <2>2, NothingOnChannel
      <4>2. OnChannel(lines, ch) \o <<>> = OnChannel(lines, ch) BY <1>13
      <4> QED BY <3>1, <4>1, <4>2
    <3>3. Starting' => HasKind(events', "stop") \/ terminal' # <<>>
      <4>1. e.k # "start" /\ e.k # "stop" BY <3>1 DEF ContentKinds
      <4>2. Starting' => Starting BY <1>0, <1>3, <3>1 DEF Starting
      <4> QED BY <1>0, <1>3, <1>7, <4>1, <4>2 DEF Streaming
    <3>4. body'.p.parts = <<>> => Ledger' BY <1>0, <1>12, <3>2
    <3>5. /\ sawError' = FALSE /\ AllNamed(lines', BlockNames \cup {"message_start"})
          /\ enc'.sig = <<>> /\ Unsigned(lines') /\ terminal' = <<>>
      BY <1>0, <1>7, <3>1 DEF Streaming
    <3>6. ~route'.privacy => \A ch : HeldOn(held', ch) = <<>> BY <1>0, <1>8
    <3> QED BY <2>1, <3>3, <3>4, <3>5, <3>6 DEF Streaming
  <2>3. CASE r.ev # <<>>
    <3> DEFINE x == r.ev[1]
    <3>1. x \in Event /\ x.k = e.k /\ r.ev = <<x>> /\ RelayJson(x) BY <1>4, <1>5, <2>3
    <3> HIDE DEF x, e
    <3>2. \A ch : OnChannel(r.ev, ch) = Carried(x, ch) BY <3>1, BothCarry, OneOnChannel
    <3>3. CASE e.k = "stop"
      <4>1. terminal' = Append(terminal, x) /\ UNCHANGED <<enc, lines, sawError>> BY <3>1, <3>3 DEF RelayJson
      <4>2. terminal' = <<x>> BY <1>7, <4>1
      <4>3. events' = <<>> BY <1>0, <1>3, <3>3
      <4>4. \A ch : OnChannel(lines', ch) = OnChannel(lines, ch) \o OnChannel(r.ev, ch)
        <5> TAKE ch
        <5>1. OnChannel(r.ev, ch) = <<>> BY <3>1, <3>2, <3>3 DEF Carried, ContentKinds
        <5>2. OnChannel(lines, ch) \o <<>> = OnChannel(lines, ch) BY <1>13
        <5> QED BY <4>1, <5>1, <5>2
      <4>5. body'.p.parts = <<>> => Ledger' BY <1>0, <1>12, <4>4
      <4>6. /\ sawError' = FALSE /\ AllNamed(lines', BlockNames \cup {"message_start"})
            /\ enc'.sig = <<>> /\ Unsigned(lines')
        BY <1>0, <4>1 DEF Streaming
      <4>7. ~route'.privacy => \A ch : HeldOn(held', ch) = <<>> BY <1>0, <1>8
      <4>8. terminal' # <<>> /\ x.k = "stop" BY <3>1, <3>3, <4>2
      <4>9. events' = <<>> /\ \E y \in Event : y.k = "stop" /\ terminal' = <<y>> BY <3>1, <4>2, <4>3, <4>8
      <4> QED BY <2>1, <4>5, <4>6, <4>7, <4>8, <4>9 DEF Streaming
    <3>4. CASE e.k # "stop"
      <4>1. EncodeEvent(x) /\ terminal' = terminal BY <3>1, <3>4 DEF RelayJson
      <4>2. x.k \in ContentKinds \cup {"start"} BY <1>3, <3>1, <3>4
      <4>3. /\ sawError' = FALSE /\ AllNamed(lines', BlockNames \cup {"message_start"})
            /\ enc'.sig = <<>> /\ Unsigned(lines')
            /\ (\E n \in 1 .. Len(lines') : lines'[n].l = "message_start") =>
                 x.k = "start" \/ \E n \in 1 .. Len(lines) : lines[n].l = "message_start"
            /\ \A ch : OnChannel(lines', ch) = OnChannel(lines, ch) \o Carried(x, ch)
        BY <1>0, <3>1, <4>1, <4>2, WritesEvent
      <4>4. \A ch : OnChannel(lines', ch) = OnChannel(lines, ch) \o OnChannel(r.ev, ch) BY <3>2, <4>3
      <4>5. body'.p.parts = <<>> => Ledger' BY <1>0, <1>12, <4>4
      <4>6. Starting' => Starting BY <1>0, <1>3, <3>1, <4>3 DEF Starting
      <4>7. Starting' => HasKind(events', "stop") \/ terminal' # <<>>
        BY <1>0, <1>3, <1>7, <3>4, <4>6 DEF Streaming
      <4>8. ~route'.privacy => \A ch : HeldOn(held', ch) = <<>> BY <1>0, <1>8
      <4>9. terminal' = <<>> BY <1>7, <4>1
      <4> QED BY <2>1, <4>3, <4>5, <4>7, <4>8, <4>9 DEF Streaming
    <3> QED BY <3>3, <3>4
  <2> QED BY <2>2, <2>3
<1> QED BY <1>0, <1>1, <1>14, <1>15 DEF JsonInv

\* One held tail.
LEMMA JsonFlushes ==
    ASSUME JsonInv, FlushNext
    PROVE  JsonInv'
<1>0. /\ HandlerInv /\ TypeOK /\ Streaming /\ events = <<>> /\ phase = "json" /\ answer = NoAnswer
      /\ UNCHANGED <<route, phase, success, body, events, terminal, records, answer>>
  BY DEF JsonInv, HandlerInv, FlushNext, Unanswered
<1>1. HandlerInv' /\ TypeOK' BY <1>0, FlushNextStep DEF HandlerInv
<1>2. PICK own \in Waiting :
        EncodeEvent(Ev(own[1], own[2], FALSE, held[own])) /\ held' = HoldOn(held, own, <<>>)
  BY DEF FlushNext
<1> DEFINE x == Ev(own[1], own[2], FALSE, held[own])
<1>3. own \in ChannelIds /\ own \in DOMAIN held /\ held[own] \in Seq(Atom) BY <1>0 DEF Waiting, TypeOK
<1>4. own[1] \in ContentKinds /\ own[2] \in Nat /\ own = <<own[1], own[2]>> BY <1>3 DEF ChannelIds
<1>5. x \in Event BY <1>3, <1>4, EvType DEF EventKinds
<1>6. x.k \in ContentKinds /\ ChannelOf(x) = own /\ x.a = held[own] BY <1>4 DEF Ev, ChannelOf
<1>7. EncodeEvent(x) BY <1>2
<1> HIDE DEF x
<1>8. /\ sawError' = FALSE /\ AllNamed(lines', BlockNames \cup {"message_start"})
      /\ enc'.sig = <<>> /\ Unsigned(lines')
      /\ (\E n \in 1 .. Len(lines') : lines'[n].l = "message_start") =>
           x.k = "start" \/ \E n \in 1 .. Len(lines) : lines[n].l = "message_start"
      /\ \A ch : OnChannel(lines', ch) = OnChannel(lines, ch) \o Carried(x, ch)
  BY <1>0, <1>5, <1>6, <1>7, WritesEvent
<1>9. Starting' => Starting BY <1>0, <1>6, <1>8 DEF Starting, ContentKinds
<1>10. \A ch : HeldOn(held', ch) = IF ch = own THEN <<>> ELSE HeldOn(held, ch) BY <1>2, HeldAfterHold
<1>11. ASSUME body.p.parts = <<>> PROVE Ledger'
  <2>1. Ledger BY <1>0, <1>11 DEF Streaming
  <2>2. ASSUME NEW ch \in ChannelIds
        PROVE  \E w, c \in Seq(Atom) :
                 /\ OnChannel(lines', ch) = OnChannel(lines, ch) \o w
                 /\ OnChannel(events, ch) = c \o OnChannel(events', ch)
                 /\ w \o HeldOn(held', ch) = HeldOn(held, ch) \o c
    <3> DEFINE w == Carried(x, ch)
               c == <<>>
               h == HeldOn(held, ch)
    <3>1. w \in Seq(Atom) /\ c \in Seq(Atom) BY <1>5, BothCarry, CarriedType, AtomSeq
    <3>2. OnChannel(events, ch) = c \o OnChannel(events', ch)
      <4>1. OnChannel(<<>>, ch) = <<>> BY NothingOnChannel
      <4>2. <<>> = <<>> \o <<>> OBVIOUS
      <4> QED BY <1>0, <4>1, <4>2
    <3>3. h \in Seq(Atom)
      <4>1. HeldType(held) BY <1>0 DEF TypeOK, HeldType
      <4> QED BY <4>1, HeldOnType
    <3>4. w \o HeldOn(held', ch) = h \o c
      <4>1. CASE ch = own
        <5>1. w = h BY <1>3, <1>6, <4>1 DEF Carried, HeldOn
        <5> QED BY <1>10, <4>1, <5>1
      <4>2. CASE ch # own
        <5>1. w = <<>> /\ HeldOn(held', ch) = h BY <1>6, <1>10, <4>2 DEF Carried
        <5> HIDE DEF w, h
        <5>2. <<>> \o h = h \o <<>> BY <3>3
        <5> QED BY <5>1, <5>2
      <4> QED BY <4>1, <4>2
    <3> HIDE DEF w, c
    <3>5. OnChannel(lines', ch) = OnChannel(lines, ch) \o w BY <1>8 DEF w
    <3> QED BY <3>1, <3>2, <3>4, <3>5
  <2>3. body' = body BY <1>0
  <2> QED BY <1>0, <1>1, <2>1, <2>2, <2>3, LedgerStep
<1>12. Streaming'
  <2>1. Streamed(events') BY <1>0 DEF Streaming
  <2>2. terminal' = <<>> \/ (events' = <<>> /\ \E e \in Event : e.k = "stop" /\ terminal' = <<e>>)
    BY <1>0 DEF Streaming
  <2>3. Starting' => HasKind(events', "stop") \/ terminal' # <<>> BY <1>0, <1>9 DEF Streaming
  <2>4. ~route'.privacy => \A ch : HeldOn(held', ch) = <<>> BY <1>0, <1>10 DEF Streaming
  <2>5. body'.p.parts = <<>> => Ledger' BY <1>0, <1>11
  <2> QED BY <1>8, <2>1, <2>2, <2>3, <2>4, <2>5 DEF Streaming
<1>13. JsonStreamWhole' BY <1>0 DEF JsonStreamWhole, JsonStreamEnds, StreamCarriesResponse, NoAnswer
<1> QED BY <1>0, <1>1, <1>12, <1>13 DEF JsonInv

\* Encoding the buffered events when there is none or one.
LEMMA EncodeFew ==
    ASSUME NEW client, NEW s \in Encoder
    PROVE  /\ EncodeAll(client, s, <<>>).out = <<>>
           /\ \A e \in Event : EncodeAll(client, s, <<e>>).out = Encode(client, s, e).out
<1>1. EncodeAll(client, s, <<>>).out = <<>>
  <2>1. <<>> \in Seq(Event) /\ Len(<<>>) = 0 OBVIOUS
  <2>2. PICK f \in [0 .. Len(<<>>) -> Encodings] :
          f[0] = Encoded(s, <<>>) /\ EncodeAll(client, s, <<>>) = f[Len(<<>>)]
    BY <2>1, EncodeAllLoop
  <2>3. EncodeAll(client, s, <<>>) = Encoded(s, <<>>) BY <2>1, <2>2
  <2> QED BY <2>3 DEF Encoded
<1>2. ASSUME NEW e \in Event PROVE EncodeAll(client, s, <<e>>).out = Encode(client, s, e).out
  <2> DEFINE t == <<e>>
             x == Encode(client, s, e)
  <2>0. t \in Seq(Event) OBVIOUS
  <2>1. t \in Seq(Event) /\ Len(t) = 1 /\ t[1] = e OBVIOUS
  <2>2. x.out \in Seq(Line)
    <3>1. Answer(x, e) BY EncodeAnswer
    <3> QED BY <3>1 DEF Answer
  <2> HIDE DEF t
  <2>3. PICK f \in [0 .. Len(t) -> Encodings] :
          /\ f[0] = Encoded(s, <<>>)
          /\ \A k \in 1 .. Len(t) :
               LET y == Encode(client, f[k - 1].enc, t[k])
               IN  f[k] = Encoded(y.enc, f[k - 1].out \o y.out)
          /\ EncodeAll(client, s, t) = f[Len(t)]
    BY <2>0, EncodeAllLoop, Zenon
  <2>4. f[0].enc = s /\ f[0].out = <<>> BY <2>3 DEF Encoded
  <2>5. f[1] = Encoded(x.enc, <<>> \o x.out)
    <3>1. 1 \in 1 .. Len(t) /\ 1 - 1 = 0 BY <2>1
    <3> QED BY <2>1, <2>3, <2>4, <3>1
  <2>6. <<>> \o x.out = x.out BY <2>2
  <2>7. EncodeAll(client, s, t).out = x.out BY <2>1, <2>3, <2>5, <2>6 DEF Encoded
  <2> QED BY <2>7 DEF t
<1> QED BY <1>1, <1>2

\* The rest behind a front part.
LEMMA RestOf ==
    ASSUME NEW a \in Seq(Line), NEW b \in Seq(Line)
    PROVE  SubSeq(a \o b, Len(a) + 1, Len(a \o b)) = b
<1> DEFINE s == a \o b
           q == SubSeq(s, Len(a) + 1, Len(s))
<1>1. /\ s \in Seq(Line) /\ Len(s) = Len(a) + Len(b) /\ Len(a) \in Nat /\ Len(b) \in Nat
      /\ \A x \in 1 .. Len(b) : s[Len(a) + x] = b[x]
  BY Joins
<1> HIDE DEF s
<1>2. /\ \A i \in Len(a) + 1 .. Len(s) : s[i] \in Line
      /\ Len(a) + 1 \in Nat /\ Len(s) \in Nat /\ Len(s) - (Len(a) + 1) + 1 = Len(b)
  BY <1>1
<1>3. /\ q \in Seq(Line)
      /\ Len(q) = IF Len(a) + 1 <= Len(s) THEN Len(s) - (Len(a) + 1) + 1 ELSE 0
      /\ \A i \in 1 .. Len(s) - (Len(a) + 1) + 1 : q[i] = s[(Len(a) + 1) + i - 1]
  BY <1>1, <1>2, SubSeqProperties
<1>4. Len(q) = Len(b) BY <1>1, <1>3
<1>5. ASSUME NEW i \in 1 .. Len(b) PROVE q[i] = b[i]
  <2>1. (Len(a) + 1) + i - 1 = Len(a) + i /\ i \in 1 .. Len(s) - (Len(a) + 1) + 1 BY <1>1, <1>2
  <2>2. q[i] = s[Len(a) + i] BY <1>3, <2>1
  <2> QED BY <1>1, <2>2
<1> HIDE DEF q
<1>6. q = b BY <1>3, <1>4, <1>5, SeqEqual
<1> QED BY <1>6 DEF q, s

\* One stop in s, and behind it d.
OneEnd(s, d) ==
    \E n \in 1 .. Len(s) :
      /\ s[n].l = "message_stop"
      /\ \A m \in 1 .. Len(s) : m # n => s[m].l # "message_stop"
      /\ SubSeq(s, n + 1, Len(s)) = d

\* Lines, the lines of the stop, the marker: the stream has one end.
LEMMA EndsOnce ==
    ASSUME NEW a \in Seq(Line), AllNamed(a, BlockNames \cup {"message_start"}),
           NEW o \in Seq(Line), Len(o) >= 1, o[Len(o)].l = "message_stop",
           \A n \in 1 .. Len(o) : o[n].l = "message_stop" => n = Len(o),
           NEW d \in Seq(Line), AllNamed(d, {"[DONE]"})
    PROVE  OneEnd((a \o o) \o d, d)
<1> DEFINE p == a \o o
           s == p \o d
           n == Len(a) + Len(o)
<1>1. /\ p \in Seq(Line) /\ Len(p) = n /\ Len(a) \in Nat /\ Len(o) \in Nat
      /\ \A x \in 1 .. Len(a) : p[x] = a[x]
      /\ \A x \in 1 .. Len(o) : p[Len(a) + x] = o[x]
  BY Joins
<1> HIDE DEF p
<1>2. /\ s \in Seq(Line) /\ Len(s) = n + Len(d) /\ Len(d) \in Nat
      /\ \A x \in 1 .. n : s[x] = p[x]
      /\ \A x \in 1 .. Len(d) : s[n + x] = d[x]
  <2>1. p \in Seq(Line) BY <1>1
  <2>2. /\ p \o d \in Seq(Line) /\ Len(p \o d) = Len(p) + Len(d) /\ Len(d) \in Nat
        /\ \A x \in 1 .. Len(p) : (p \o d)[x] = p[x]
        /\ \A x \in 1 .. Len(d) : (p \o d)[Len(p) + x] = d[x]
    BY <2>1, Joins
  <2>3. Len(p) = n BY <1>1
  <2> HIDE DEF n
  <2> QED BY <2>2, <2>3
<1>3. SubSeq(s, n + 1, Len(s)) = d
  <2>1. p \in Seq(Line) /\ Len(p) = n BY <1>1
  <2>2. SubSeq(p \o d, Len(p) + 1, Len(p \o d)) = d BY <2>1, RestOf
  <2> QED BY <2>1, <2>2
<1> HIDE DEF s
<1>4. n \in 1 .. Len(s) /\ n \in 1 .. n BY <1>1, <1>2
<1>5. s[n].l = "message_stop"
  <2>1. Len(o) \in 1 .. Len(o) BY <1>1
  <2>2. p[n] = o[Len(o)] BY <1>1, <2>1
  <2> QED BY <1>2, <1>4, <2>2
<1>6. ASSUME NEW m \in 1 .. Len(s), m # n PROVE s[m].l # "message_stop"
  <2>1. \/ m \in 1 .. Len(a)
        \/ m - Len(a) \in 1 .. Len(o) /\ Len(a) + (m - Len(a)) = m /\ m \in 1 .. n /\ m - Len(a) # Len(o)
        \/ m - n \in 1 .. Len(d) /\ n + (m - n) = m
    BY <1>1, <1>2, <1>6
  <2>2. CASE m \in 1 .. Len(a)
    <3>1. m \in 1 .. n BY <1>1, <2>2
    <3>2. s[m] = a[m] BY <1>1, <1>2, <2>2, <3>1
    <3>3. a[m].l # "message_stop" BY <2>2 DEF AllNamed, BlockNames
    <3> QED BY <3>2, <3>3
  <2>3. CASE m - Len(a) \in 1 .. Len(o) /\ Len(a) + (m - Len(a)) = m /\ m \in 1 .. n /\ m - Len(a) # Len(o)
    <3>1. s[m] = o[m - Len(a)] BY <1>1, <1>2, <2>3
    <3> QED BY <2>3, <3>1
  <2>4. CASE m - n \in 1 .. Len(d) /\ n + (m - n) = m
    <3>1. s[m] = d[m - n] BY <1>2, <2>4
    <3>2. d[m - n].l = "[DONE]" BY <2>4 DEF AllNamed
    <3> QED BY <3>1, <3>2
  <2> QED BY <2>1, <2>2, <2>3, <2>4
<1>7. OneEnd(s, d) BY <1>3, <1>4, <1>5, <1>6 DEF OneEnd
<1> QED BY <1>7 DEF s, p

\* The marker is one line of its own, or nothing.
LEMMA DoneNamed ==
    ASSUME NEW client
    PROVE  /\ DoneLines(client) \in Seq(Line) /\ AllNamed(DoneLines(client), {"[DONE]"})
           /\ Unsigned(DoneLines(client))
<1>1. Bare("[DONE]") \in Line /\ Bare("[DONE]").l = "[DONE]" /\ "[DONE]" \in LineNames
  BY BareType DEF LineNames
<1>2. CASE client = "openai"
  <2>1. DoneLines(client) = <<Bare("[DONE]")>> BY <1>2 DEF DoneLines
  <2>2. AllNamed(<<Bare("[DONE]")>>, {"[DONE]"}) BY <1>1, OneNamed
  <2> QED BY <1>1, <2>1, <2>2, UnsignedBare
<1>3. CASE client # "openai"
  <2>1. DoneLines(client) = <<>> BY <1>3 DEF DoneLines
  <2>2. Unsigned(<<>>) BY DEF Unsigned
  <2> QED BY <2>1, <2>2, NoLines
<1> QED BY <1>2, <1>3

\* What the stream is closed with: nothing or the lines of one stop, and the marker.
LEMMA ClosingLines ==
    ASSUME TypeOK, Streaming, CloseStream
    PROVE  \E o \in Seq(Line) :
             /\ lines' = (lines \o o) \o DoneLines(route.client)
             /\ Unsigned(o) /\ \A ch : OnChannel(o, ch) = <<>>
             /\ \/ terminal = <<>> /\ o = <<>>
                \/ /\ Len(o) >= 1 /\ o[Len(o)].l = "message_stop"
                   /\ \A n \in 1 .. Len(o) : o[n].l = "message_stop" => n = Len(o)
<1> DEFINE o == EncodeAll(route.client, enc, terminal).out
<1>1. lines' = (lines \o o) \o DoneLines(route.client)
  <2>1. sawError = FALSE BY DEF Streaming
  <2> QED BY <2>1 DEF CloseStream
<1>2. enc \in Encoder /\ enc.sig = <<>> BY DEF TypeOK, Streaming
<1>3. CASE terminal = <<>>
  <2>1. o = <<>> BY <1>2, <1>3, EncodeFew
  <2>2. <<>> \in Seq(Line) /\ Unsigned(<<>>) BY NoLines DEF Unsigned
  <2>3. \A ch : OnChannel(<<>>, ch) = <<>> BY NothingOnChannel
  <2> HIDE DEF o
  <2> QED BY <1>1, <1>3, <2>1, <2>2, <2>3
<1>4. ASSUME NEW e \in Event, e.k = "stop", terminal = <<e>>
      PROVE  /\ o \in Seq(Line) /\ Unsigned(o) /\ \A ch : OnChannel(o, ch) = <<>>
             /\ Len(o) >= 1 /\ o[Len(o)].l = "message_stop"
             /\ \A n \in 1 .. Len(o) : o[n].l = "message_stop" => n = Len(o)
  <2> DEFINE x == Encode(route.client, enc, e)
  <2>1. o = x.out BY <1>2, <1>4, EncodeFew
  <2>2. Answer(x, e) BY <1>2, EncodeAnswer
  <2>3. Clean(x) /\ Len(x.out) >= 1 /\ x.out[Len(x.out)].l = "message_stop" BY <1>2, <1>4, EncodeClean
  <2>4. \A ch : OnChannel(x.out, ch) = <<>>
    <3> TAKE ch
    <3>1. OnChannel(x.out, ch) = Carried(e, ch) BY <1>2, EncodeCarries
    <3>2. Carried(e, ch) = <<>> BY <1>4 DEF Carried, ContentKinds
    <3> QED BY <3>1, <3>2
  <2> HIDE DEF o, x
  <2> QED BY <2>1, <2>2, <2>3, <2>4 DEF Answer, Clean
<1>5. terminal = <<>> \/ \E e \in Event : e.k = "stop" /\ terminal = <<e>> BY DEF Streaming
<1> HIDE DEF o
<1> QED BY <1>1, <1>3, <1>4, <1>5

\* Block j is in exactly one line of s, as what it was and behind the earlier ones of its kind.
OnOneLine(s, blocks, j) ==
    \E n \in 1 .. Len(s) :
      /\ {m \in 1 .. Len(s) : \E x \in 1 .. Len(s[m].a) : s[m].a[x] = <<1, j>>} = {n}
      /\ s[n].k = blocks[j]
      /\ IF s[n].k = "tool"
         THEN s[n].i = ToolsBefore(blocks, j)
         ELSE \A m \in 1 .. j - 1 : blocks[m] = blocks[j] =>
                \E l \in 1 .. n : <<1, m>> \in {s[l].a[x] : x \in 1 .. Len(s[l].a)}

\* That is what CarriesBlock shows.
LEMMA BlockOnOneLine ==
    ASSUME NEW s \in Seq(Line), Unsigned(s), NEW blocks \in Seq(BlockKinds), SameChannels(s, blocks),
           NEW j \in 1 .. Len(blocks), blocks[j] # "other"
    PROVE  OnOneLine(s, blocks, j)
<1>1. PICK n \in 1 .. Len(s) :
        /\ {m \in 1 .. Len(s) : Contains(s, m, <<1, j>>)} = {n}
        /\ s[n].k = blocks[j]
        /\ IF s[n].k = "tool"
           THEN s[n].i = ToolsBefore(blocks, j)
           ELSE \A m \in 1 .. j - 1 : blocks[m] = blocks[j] => \E l \in 1 .. n : Contains(s, l, <<1, m>>)
  BY CarriesBlock
<1>2. {m \in 1 .. Len(s) : \E x \in 1 .. Len(s[m].a) : s[m].a[x] = <<1, j>>} = {n}
  BY <1>1 DEF Contains
<1>3. ASSUME NEW l, NEW m, Contains(s, l, <<1, m>>)
      PROVE  <<1, m>> \in {s[l].a[x] : x \in 1 .. Len(s[l].a)}
  BY <1>3 DEF Contains
<1>4. IF s[n].k = "tool"
      THEN s[n].i = ToolsBefore(blocks, j)
      ELSE \A m \in 1 .. j - 1 : blocks[m] = blocks[j] =>
             \E l \in 1 .. n : <<1, m>> \in {s[l].a[x] : x \in 1 .. Len(s[l].a)}
  BY <1>1, <1>3, Zenon
<1> QED BY <1>1, <1>2, <1>4, Zenon DEF OnOneLine

\* The blocks of the body are on one line each.
AllOnOneLine ==
    \A j \in 1 .. Len(body.blocks) : body.blocks[j] # "other" => OnOneLine(lines, body.blocks, j)

\* StreamCarriesResponse in these words, now and after a step.
LEMMA CarriesAll ==
    /\ StreamCarriesResponse <=> (answer.kind = "stream" /\ body.p.parts = <<>> => AllOnOneLine)
    /\ StreamCarriesResponse' <=> (answer'.kind = "stream" /\ body'.p.parts = <<>> => AllOnOneLine')
<1>1. StreamCarriesResponse <=> (answer.kind = "stream" /\ body.p.parts = <<>> => AllOnOneLine)
  BY Zenon DEF StreamCarriesResponse, Carriers, AllOnOneLine, OnOneLine
<1>2. StreamCarriesResponse' <=> (answer'.kind = "stream" /\ body'.p.parts = <<>> => AllOnOneLine')
  BY Zenon DEF StreamCarriesResponse, Carriers, AllOnOneLine, OnOneLine
<1> QED BY <1>1, <1>2

\* A step that changes neither the lines nor what they are held against.
LEMMA WholeStays ==
    ASSUME JsonStreamWhole, answer' = answer, route' = route, body' = body, lines' = lines
    PROVE  JsonStreamWhole'
<1>1. JsonStreamEnds' BY DEF JsonStreamWhole, JsonStreamEnds
<1>2. AllOnOneLine' <=> AllOnOneLine BY DEF AllOnOneLine
<1>3. StreamCarriesResponse' BY <1>2, CarriesAll DEF JsonStreamWhole
<1> QED BY <1>1, <1>3 DEF JsonStreamWhole

\* The end of the stream.
LEMMA JsonCloses ==
    ASSUME JsonInv, CloseStream
    PROVE  JsonInv'
<1> DEFINE d == DoneLines(route.client)
<1>0. /\ HandlerInv /\ TypeOK /\ Streaming /\ events = <<>> /\ Waiting = {} /\ phase' = "answered"
      /\ UNCHANGED <<route, body>>
  BY DEF JsonInv, HandlerInv, CloseStream
<1>1. HandlerInv' /\ TypeOK' BY <1>0, CloseStreamStep DEF HandlerInv
<1>2. lines \in Seq(Line) /\ lines' \in Seq(Line) /\ body.blocks \in Seq(BlockKinds)
  BY <1>0, <1>1 DEF TypeOK, Body
<1>3. d \in Seq(Line) /\ AllNamed(d, {"[DONE]"}) /\ Unsigned(d) BY DoneNamed
<1>4. PICK o \in Seq(Line) :
        /\ lines' = (lines \o o) \o d
        /\ Unsigned(o) /\ \A ch : OnChannel(o, ch) = <<>>
        /\ \/ terminal = <<>> /\ o = <<>>
           \/ /\ Len(o) >= 1 /\ o[Len(o)].l = "message_stop"
              /\ \A n \in 1 .. Len(o) : o[n].l = "message_stop" => n = Len(o)
  BY <1>0, ClosingLines
<1>5. d = DoneLines(route'.client) BY <1>0
<1>6. \A ch : OnChannel(d, ch) = <<>> BY DoneCarries
<1> HIDE DEF d
<1>7. JsonStreamEnds'
  <2> SUFFICES ASSUME lines' # <<>>, lines'[1].l = "message_start"
               PROVE  OneEnd(lines', d)
    BY <1>5 DEF JsonStreamEnds, OneEnd
  <2>1. CASE Len(o) >= 1
    <3>1. o[Len(o)].l = "message_stop" /\ \A n \in 1 .. Len(o) : o[n].l = "message_stop" => n = Len(o)
      BY <1>4, <2>1
    <3>2. AllNamed(lines, BlockNames \cup {"message_start"}) BY <1>0 DEF Streaming
    <3>3. lines \in Seq(Line) /\ o \in Seq(Line) /\ d \in Seq(Line) /\ AllNamed(d, {"[DONE]"}) BY <1>2, <1>3
    <3>4. OneEnd((lines \o o) \o d, d) BY <2>1, <3>1, <3>2, <3>3, EndsOnce
    <3> QED BY <1>4, <3>4
  <2>2. CASE terminal = <<>> /\ o = <<>>
    <3>1. lines' = lines \o d
      <4>1. lines \o <<>> = lines BY <1>2
      <4> QED BY <1>4, <2>2, <4>1
    <3>2. CASE lines = <<>>
      <4>1. <<>> \o d = d BY <1>3
      <4>2. lines' = d BY <3>1, <3>2, <4>1
      <4>3. 1 \in 1 .. Len(d) BY <1>3, <4>2
      <4>4. d[1].l = "[DONE]" BY <1>3, <4>3 DEF AllNamed
      <4> QED BY <4>2, <4>4
    <3>3. CASE lines # <<>>
      <4>1. 1 \in 1 .. Len(lines) BY <1>2, <3>3, EmptySeq
      <4>2. (lines \o d)[1] = lines[1]
        <5>1. \A k \in 1 .. Len(lines) : (lines \o d)[k] = lines[k] BY <1>2, <1>3, Joins
        <5> QED BY <4>1, <5>1
      <4>3. Starting BY <3>1, <4>1, <4>2 DEF Starting
      <4>4. ~HasKind(events, "stop") BY <1>0 DEF HasKind
      <4> QED BY <1>0, <2>2, <4>3, <4>4 DEF Streaming
    <3> QED BY <3>2, <3>3
  <2> QED BY <1>4, <2>1, <2>2
<1>8. Unsigned(lines')
  <2>1. Unsigned(lines) BY <1>0 DEF Streaming
  <2>2. lines \o o \in Seq(Line) /\ Unsigned(lines \o o) BY <1>2, <1>4, <2>1, UnsignedConcat
  <2>3. Unsigned((lines \o o) \o d) BY <1>3, <2>2, UnsignedConcat
  <2> QED BY <1>4, <2>3
<1>9. ASSUME body.p.parts = <<>> PROVE SameChannels(lines', body.blocks)
  <2> SUFFICES ASSUME NEW ch \in ChannelIds
               PROVE  OnChannel(lines', ch) = OnChannel(ResponseToEvents(body.blocks), ch)
    BY DEF SameChannels
  <2> DEFINE l == OnChannel(lines, ch)
  <2>1. l \in Seq(Atom) BY <1>2, BothCarry, OnChannelType
  <2>2. Ledger BY <1>0, <1>9 DEF Streaming
  <2>3. HeldOn(held, ch) = <<>> BY <1>0 DEF Waiting, HeldOn
  <2>4. OnChannel(events, ch) = <<>> BY <1>0, NothingOnChannel
  <2>5. l \o (HeldOn(held, ch) \o OnChannel(events, ch)) = OnChannel(ResponseToEvents(body.blocks), ch)
    BY <2>2 DEF Ledger
  <2>6. OnChannel(lines', ch) = (l \o <<>>) \o <<>>
    <3>1. OnChannel(lines \o o, ch) = OnChannel(lines, ch) \o OnChannel(o, ch) BY <1>2, <1>4, LinesConcat
    <3>2. lines \o o \in Seq(Line) BY <1>2, <1>4
    <3>3. OnChannel((lines \o o) \o d, ch) = OnChannel(lines \o o, ch) \o OnChannel(d, ch)
      BY <1>3, <3>2, LinesConcat
    <3> QED BY <1>4, <1>6, <3>1, <3>3
  <2> HIDE DEF l
  <2>7. l \o (<<>> \o <<>>) = l /\ (l \o <<>>) \o <<>> = l BY <2>1
  <2> QED BY <2>3, <2>4, <2>5, <2>6, <2>7
<1>10. StreamCarriesResponse'
  <2>1. ASSUME body.p.parts = <<>>, NEW j \in 1 .. Len(body.blocks), body.blocks[j] # "other"
        PROVE  OnOneLine(lines', body.blocks, j)
    BY <1>2, <1>8, <1>9, <2>1, BlockOnOneLine
  <2>2. body'.p.parts = <<>> => AllOnOneLine' BY <1>0, <2>1 DEF AllOnOneLine
  <2> QED BY <2>2, CarriesAll
<1> QED BY <1>0, <1>1, <1>7, <1>10 DEF JsonInv, JsonStreamWhole

\* At first there is no stream.
LEMMA JsonInit == Init => JsonInv
<1> SUFFICES ASSUME Init PROVE JsonInv OBVIOUS
<1>1. HandlerInv BY HandlerInit
<1>2. phase = "client" /\ Fresh BY DEF Init, Fresh
<1>3. answer.kind = "none" BY DEF Init, NoAnswer
<1> QED BY <1>1, <1>2, <1>3 DEF JsonInv, JsonStreamWhole, JsonStreamEnds, StreamCarriesResponse

\* A step that leaves the stream alone: the handler awaits on, or returns an answer that is no stream.
LEMMA JsonElsewhere ==
    ASSUME JsonInv, HandlerInv', UNCHANGED streamVars, phase' # "json",
           phase' \in {"client", "headers", "upstream"} => phase \in {"client", "headers", "upstream"},
           \/ UNCHANGED <<answer, route, body>>
           \/ phase \in {"client", "headers", "upstream"} /\ answer' = answer
           \/ answer'.kind \in {"error", "response"}
    PROVE  JsonInv'
<1>1. phase' \in {"client", "headers", "upstream"} => Fresh' BY DEF JsonInv, Fresh, streamVars
<1>2. JsonStreamWhole'
  <2>1. CASE UNCHANGED <<answer, route, body>>
    <3>1. UNCHANGED <<answer, route, body, lines>> BY <2>1 DEF streamVars
    <3> QED BY <3>1, WholeStays DEF JsonInv
  <2>2. CASE phase \in {"client", "headers", "upstream"} /\ answer' = answer
    <3>1. answer'.kind = "none" BY <2>2 DEF JsonInv, HandlerInv, Unanswered, NoAnswer
    <3> QED BY <3>1 DEF JsonStreamWhole, JsonStreamEnds, StreamCarriesResponse
  <2>3. CASE answer'.kind \in {"error", "response"}
    BY <2>3 DEF JsonStreamWhole, JsonStreamEnds, StreamCarriesResponse
  <2> QED BY <2>1, <2>2, <2>3
<1> QED BY <1>1, <1>2 DEF JsonInv

\* Every step keeps the invariant.
LEMMA JsonNext == JsonInv /\ [Next]_vars => JsonInv'
<1> SUFFICES ASSUME JsonInv, [Next]_vars PROVE JsonInv' OBVIOUS
<1>0. HandlerInv' BY HandlerNext DEF JsonInv
<1>1. ASSUME NEW reason \in Refusals, Refuse(reason) PROVE JsonInv'
  BY <1>0, <1>1, JsonElsewhere DEF Refuse, ReturnError
<1>2. CASE ForwardRequest BY <1>0, <1>2, JsonElsewhere DEF ForwardRequest
<1>3. CASE ForwardFails \/ HeadersTimeout
  BY <1>0, <1>3, JsonElsewhere DEF ForwardFails, HeadersTimeout, ReturnError
<1>4. ASSUME NEW ok \in BOOLEAN, NEW json \in BOOLEAN, Headers(ok, json) PROVE JsonInv'
  BY <1>0, <1>4, JsonElsewhere DEF Headers
<1>5. CASE BodyFails \/ TotalTimeout
  BY <1>0, <1>5, JsonElsewhere DEF BodyFails, TotalTimeout, ReturnError
<1>6. ASSUME NEW b \in Bodies[route.upstream],
             UpstreamError(b) \/ ParseError(b) \/ Respond(b) \/ JsonParseError(b)
      PROVE  JsonInv'
  BY <1>0, <1>6, JsonElsewhere DEF UpstreamError, ParseError, Respond, JsonParseError, ReturnError
<1>7. ASSUME NEW b \in Bodies[route.upstream], JsonAsStream(b) PROVE JsonInv' BY <1>7, JsonStarts
<1>8. CASE EncodeNext BY <1>8, JsonEncodes
<1>9. CASE FlushNext BY <1>9, JsonFlushes
<1>10. CASE CloseStream BY <1>10, JsonCloses
<1>11. CASE ClientLeaves BY <1>0, <1>11, JsonElsewhere DEF ClientLeaves
<1>12. CASE Finished \/ UNCHANGED vars
  <2>1. UNCHANGED <<route, phase, body, events, enc, held, terminal, sawError, lines, answer>>
    BY <1>12 DEF Finished, vars
  <2>2. JsonStreamWhole'
    BY <2>1, WholeStays DEF JsonInv
  <2>3. phase' \in {"client", "headers", "upstream"} => Fresh' BY <2>1 DEF JsonInv, Fresh
  <2>4. phase' = "json" => Streaming'
    <3> SUFFICES ASSUME phase = "json" PROVE Streaming' BY <2>1
    <3>1. Streaming BY DEF JsonInv
    <3>2. Starting' <=> Starting BY <2>1 DEF Starting
    <3>3. Ledger' <=> Ledger BY <2>1 DEF Ledger
    <3> QED BY <2>1, <3>1, <3>2, <3>3 DEF Streaming
  <2> QED BY <1>0, <2>2, <2>3, <2>4 DEF JsonInv
<1> QED
  BY <1>1, <1>2, <1>3, <1>4, <1>5, <1>6, <1>7, <1>8, <1>9, <1>10, <1>11, <1>12
  DEF Next, BodyRead, JsonStep

\* The inductive invariant of handle_json_as_stream.
THEOREM JsonInvariant == Spec => []JsonInv
BY JsonInit, JsonNext, PTL DEF Spec

\* The stream made of a JSON answer is whole, for every client and upstream,
\* every body and with or without privacy: if it starts it ends with one stop
\* and the marker, and it carries each block of a parsed response exactly once,
\* as what it was and in order, with the tool calls numbered from 0.
THEOREM JsonStreamsAreWhole == Spec => []JsonStreamWhole
<1>1. JsonInv => JsonStreamWhole BY DEF JsonInv
<1> QED BY <1>1, JsonInvariant, PTL
==============================================================================
