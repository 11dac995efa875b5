----------------------------- MODULE Conversation -----------------------------
(***************************************************************************)
(* handle_conversation (core/pipeline.rs): one request from the client's   *)
(* body to the gateway's answer, with every early return, the record it    *)
(* makes or does not make, and handle_json_as_stream, which turns a plain  *)
(* JSON answer to a streaming request into a stream.                       *)
(*                                                                         *)
(* The handler awaits the client's body, the upstream's headers and the    *)
(* upstream's body; in between it is sequential.  While it awaits, the     *)
(* client may leave, which drops the handler.  A streaming answer that is  *)
(* no JSON is handed to the task that StreamRelay models.                  *)
(***************************************************************************)
EXTENDS StreamDecoders, StreamEncoders, StreamRestorer

CONSTANTS
    Routes,   \* the routes considered
    Bodies    \* Bodies[u]: the bodies an upstream of protocol u may answer with

\* "other" stands for images, redacted thinking and tool results.
BlockKinds == ContentKinds \cup {"other"}

\* A JSON body: what the stream decoder takes it for (p), what parse_response
\* makes of it, and the content blocks of the parsed response.
Body == [p : Payload, parse : {"ok", "error", "invalid"}, blocks : Seq(BlockKinds)]

Route == [client : Clients, upstream : Upstreams,
          privacy : BOOLEAN, memory : BOOLEAN, stream : BOOLEAN]

ASSUME ConversationAssumption ==
    /\ Routes \subseteq Route
    /\ \A u \in Upstreams : \A b \in Bodies[u] :
         /\ b \in Body /\ b.p \in Sendable(u)
         /\ b.p.t = "error" => b.parse = "error"
         /\ b.parse # "ok" => b.p.parts = <<>> /\ b.blocks = <<>>

VARIABLES
    route,    \* protocols, features and the request's stream flag
    phase,    \* where the handler is
    success,  \* the upstream's status is 2xx
    body,     \* the upstream's body, once read
    events,   \* handle_json_as_stream: events still to encode
    enc, held, terminal, sawError, lines,   \* its locals
    records,  \* what was handed to the memory store
    answer    \* the response, and the return that made it

vars == <<route, phase, success, body, events, enc, held, terminal, sawError, lines,
          records, answer>>

streamVars == <<events, enc, held, terminal, sawError, lines>>

Phases == {"client",     \* awaiting the request body
           "headers",    \* awaiting the upstream's response
           "upstream",   \* awaiting the upstream's body
           "json",       \* in handle_json_as_stream
           "relay",      \* handed to the relay task
           "answered",
           "dropped"}    \* the client left

Ended == {"relay", "answered", "dropped"}

NoAnswer == [kind |-> "none", why |-> "none", raw |-> FALSE]

NoBody == [p |-> [t |-> "ignored", parts |-> <<>>, fin |-> FALSE],
           parse |-> "invalid", blocks |-> <<>>]

Init ==
    /\ route \in Routes
    /\ phase = "client"
    /\ success = TRUE
    /\ body = NoBody
    /\ events = <<>>
    /\ enc = NewEncoder
    /\ held = NoneHeld
    /\ terminal = <<>>
    /\ sawError = FALSE
    /\ lines = <<>>
    /\ records = <<>>
    /\ answer = NoAnswer

Mode == IF route.stream THEN "stream" ELSE "non_stream"

\* mem_record: only when the memory store is enabled.
Recorded(status) ==
    IF route.memory THEN Append(records, [mode |-> Mode, status |-> status]) ELSE records

\* Return an error to the client.  raw: it quotes the upstream's body without
\* restoring it.
ReturnError(reason, unrestored) ==
    /\ phase' = "answered"
    /\ answer' = [kind |-> "error", why |-> reason, raw |-> unrestored]

-------------------------------------------------------------------------------
(* Up to the upstream's answer. *)

\* The early returns before anything is forwarded; none is recorded.
\* Redaction can only fail with privacy on, the URL only for Gemini, whose
\* URL contains the model.
Refusals ==
    {"read_body", "parse_request", "serialize_request"}
        \cup (IF route.privacy THEN {"redact_request"} ELSE {})
        \cup (IF route.upstream = "gemini" THEN {"conversation_url"} ELSE {})

Refuse(reason) ==
    /\ phase = "client"
    /\ ReturnError(reason, FALSE)
    /\ UNCHANGED <<route, success, body, streamVars, records>>

\* Body read and parsed, model resolved, request redacted and serialized.
ForwardRequest ==
    /\ phase = "client"
    /\ phase' = "headers"
    /\ UNCHANGED <<route, success, body, streamVars, records, answer>>

\* Mutation: the failed request is sent again, each attempt recorded.
Resend ==
    /\ phase = "headers"
    /\ records' = Recorded("error")
    /\ UNCHANGED <<route, phase, success, body, streamVars, answer>>

\* The connection failed.
ForwardFails ==
    /\ phase = "headers"
    /\ records' = Recorded("error")
    /\ ReturnError("forward", FALSE)
    /\ UNCHANGED <<route, success, body, streamVars>>

\* The response headers did not arrive in time: timeout_ms of a plain
\* request, STREAM_HEADER_TIMEOUT of a streaming one.
HeadersTimeout == ForwardFails

\* The response headers.  Only a streaming request with a successful answer
\* that is not JSON leaves the handler here.
Headers(ok, json) ==
    /\ phase = "headers"
    /\ success' = ok
    /\ phase' = IF route.stream /\ ok /\ ~json THEN "relay" ELSE "upstream"
    /\ UNCHANGED <<route, body, streamVars, records, answer>>

\* read_upstream_text fails: transport error, too large, not UTF-8.  The
\* request is not recorded.
BodyFails ==
    /\ phase = "upstream"
    /\ ReturnError("read_upstream_text", FALSE)
    /\ UNCHANGED <<route, success, body, streamVars, records>>

\* Mutation: the timeout does not cover the body.
NoTotalTimeout == FALSE /\ BodyFails

\* timeout_ms covers the body too, but a streaming request has no total
\* timeout.
TotalTimeout == ~route.stream /\ BodyFails

-------------------------------------------------------------------------------
(* The upstream's body has been read. *)

\* A status other than 2xx: the body is restored and quoted.
UpstreamError(b) ==
    /\ phase = "upstream"
    /\ ~success
    /\ body' = b
    /\ records' = Recorded("error")
    /\ ReturnError("upstream_status", FALSE)
    /\ UNCHANGED <<route, success, streamVars>>

\* Mutation: the outcome is recorded before the body is parsed.
RecordFirst(b) ==
    /\ phase = "upstream"
    /\ success /\ ~route.stream /\ b.parse # "ok"
    /\ body' = b
    /\ records' = Recorded("ok")
    /\ ReturnError("parse_response", route.privacy /\ b.parse = "error")
    /\ UNCHANGED <<route, success, streamVars>>

\* parse_response fails.  For a body with an "error" member its error quotes
\* the whole body, which nothing has restored.
ParseError(b) ==
    /\ phase = "upstream"
    /\ success /\ ~route.stream /\ b.parse # "ok"
    /\ body' = b
    /\ records' = Recorded("error")
    /\ ReturnError("parse_response", route.privacy /\ b.parse = "error")
    /\ UNCHANGED <<route, success, streamVars>>

\* The response is parsed, restored, recorded, and only then serialized.
Respond(b) ==
    /\ phase = "upstream"
    /\ success /\ ~route.stream /\ b.parse = "ok"
    /\ body' = b
    /\ records' = Recorded("ok")
    /\ \/ /\ phase' = "answered"
          /\ answer' = [kind |-> "response", why |-> "none", raw |-> FALSE]
       \/ ReturnError("serialize_response", FALSE)
    /\ UNCHANGED <<route, success, streamVars>>

-------------------------------------------------------------------------------
(* handle_json_as_stream *)

\* What the stream decoder makes of the whole body.
DecodedEvents(b) ==
    LET f == Feed(route.upstream, NewDecoder, b.p, 1)
    IN  f.ev \o FinishDecoder(f.dec).ev

HasContent(evs) == \E n \in 1 .. Len(evs) : evs[n].k \in ContentKinds

ToolsBefore(blocks, j) == Cardinality({m \in 1 .. j - 1 : blocks[m] = "tool"})

\* One delta per block; tool calls are counted on their own.
BlockEvents(blocks, j) ==
    IF blocks[j] = "other" THEN <<>>
    ELSE <<Ev(blocks[j], IF blocks[j] = "tool" THEN ToolsBefore(blocks, j) ELSE 0,
              blocks[j] = "tool", <<<<1, j>>>>)>>

\* response_to_events
ResponseToEvents(blocks) ==
    LET deltas[j \in 0 .. Len(blocks)] ==
          IF j = 0 THEN <<>> ELSE deltas[j - 1] \o BlockEvents(blocks, j)
    IN  <<Plain("start")>> \o deltas[Len(blocks)] \o <<Ev("stop", 0, TRUE, <<>>)>>

\* The decoder is tried first; a body without stream content is parsed as a
\* response.
JsonAsStream(b) ==
    /\ phase = "upstream"
    /\ success /\ route.stream
    /\ HasContent(DecodedEvents(b)) \/ b.parse = "ok"
    /\ body' = b
    /\ phase' = "json"
    /\ events' = IF HasContent(DecodedEvents(b)) THEN DecodedEvents(b)
                 ELSE ResponseToEvents(b.blocks)
    /\ UNCHANGED <<route, success, enc, held, terminal, sawError, lines, records, answer>>

\* Neither reading fits: an error that may quote the body; no record.
JsonParseError(b) ==
    /\ phase = "upstream"
    /\ success /\ route.stream
    /\ ~HasContent(DecodedEvents(b)) /\ b.parse # "ok"
    /\ body' = b
    /\ ReturnError("parse_response", route.privacy /\ b.parse = "error")
    /\ UNCHANGED <<route, success, streamVars, records>>

\* What the restorer makes of event e.
RestoredEvents(e) ==
    IF route.privacy THEN RestoreEvent(held, e) ELSE {[held |-> held, ev |-> <<e>>]}

\* Encode a restored event; an error counts once it produced output.
EncodeEvent(e) ==
    LET x == Encode(route.client, enc, e)
    IN  /\ enc' = x.enc
        /\ lines' = lines \o x.out
        /\ sawError' = (sawError \/ (e.k = "error" /\ x.out # <<>>))

\* Mutation: a stop is encoded where it occurs.
RelayJsonAtOnce(e) == EncodeEvent(e) /\ UNCHANGED terminal

\* A stop waits for the restorer's tail.
RelayJson(e) ==
    \/ /\ e.k = "stop"
       /\ terminal' = Append(terminal, e)
       /\ UNCHANGED <<enc, lines, sawError>>
    \/ /\ e.k # "stop"
       /\ EncodeEvent(e)
       /\ UNCHANGED terminal

\* One iteration of the loop over the events.
EncodeNext ==
    /\ phase = "json"
    /\ events # <<>>
    /\ events' = Tail(events)
    /\ \E r \in RestoredEvents(Head(events)) :
         /\ held' = r.held
         /\ \/ r.ev = <<>> /\ UNCHANGED <<enc, lines, sawError, terminal>>
            \/ r.ev # <<>> /\ RelayJson(r.ev[1])
    /\ UNCHANGED <<route, phase, success, body, records, answer>>

Waiting == {ch \in DOMAIN held : held[ch] # <<>>}

\* restorer.finish(): the held tails, in the order of the channels.
FlushNext ==
    /\ phase = "json"
    /\ events = <<>>
    /\ \E ch \in Waiting :
         /\ \A other \in Waiting \ {ch} : FlushedBefore(ch, other)
         /\ EncodeEvent(Ev(ch[1], ch[2], FALSE, held[ch]))
         /\ held' = HoldOn(held, ch, <<>>)
    /\ UNCHANGED <<route, phase, success, body, events, terminal, records, answer>>

\* Encode the events evs one after the other.
EncodeAll(client, s, evs) ==
    LET upto[n \in 0 .. Len(evs)] ==
          IF n = 0 THEN Encoded(s, <<>>)
          ELSE LET x == Encode(client, upto[n - 1].enc, evs[n])
               IN  Encoded(x.enc, upto[n - 1].out \o x.out)
    IN  upto[Len(evs)]

\* The buffered stops, then the marker unless an error was delivered.
CloseStream ==
    /\ phase = "json"
    /\ events = <<>>
    /\ Waiting = {}
    /\ LET end == EncodeAll(route.client, enc, terminal)
       IN  /\ enc' = end.enc
           /\ lines' = lines \o end.out
                         \o (IF sawError THEN <<>> ELSE DoneLines(route.client))
    /\ phase' = "answered"
    /\ answer' = [kind |-> "stream", why |-> "none", raw |-> FALSE]
    /\ UNCHANGED <<route, success, body, events, held, terminal, sawError, records>>

-------------------------------------------------------------------------------

\* The client closes its connection while the handler awaits.
ClientLeaves ==
    /\ phase \in {"client", "headers", "upstream"}
    /\ phase' = "dropped"
    /\ UNCHANGED <<route, success, body, streamVars, records, answer>>

BodyRead ==
    \E b \in Bodies[route.upstream] :
        \/ UpstreamError(b)
        \/ ParseError(b)
        \/ Respond(b)
        \/ JsonAsStream(b)
        \/ JsonParseError(b)

JsonStep == EncodeNext \/ FlushNext \/ CloseStream

Finished == phase \in Ended /\ UNCHANGED vars

Next ==
    \/ \E reason \in Refusals : Refuse(reason)
    \/ ForwardRequest
    \/ ForwardFails
    \/ HeadersTimeout
    \/ \E ok, json \in BOOLEAN : Headers(ok, json)
    \/ BodyFails
    \/ TotalTimeout
    \/ BodyRead
    \/ JsonStep
    \/ ClientLeaves
    \/ Finished

Spec == Init /\ [][Next]_vars

\* The timers fire and the handler keeps running; nothing is assumed of the
\* client or the upstream.
FairSpec ==
    Spec /\ WF_vars(HeadersTimeout) /\ WF_vars(TotalTimeout) /\ WF_vars(JsonStep)

-------------------------------------------------------------------------------
(* Properties. *)

\* The types; in particular a request is recorded at most once, whichever
\* return it takes.
TypeOK ==
    /\ route \in Route
    /\ phase \in Phases
    /\ success \in BOOLEAN
    /\ body \in Body
    /\ events \in Seq(Event)
    /\ enc \in Encoder
    /\ DOMAIN held \subseteq ChannelIds
    /\ held \in [DOMAIN held -> Seq(Atom)]
    /\ terminal \in Seq(Event)
    /\ sawError \in BOOLEAN
    /\ lines \in Seq(Line)
    /\ records \in Seq([mode : {"stream", "non_stream"}, status : {"ok", "error"}])
    /\ Len(records) <= 1

\* A record says how the exchange went (mem_record and the record before
\* serialize_response): it is made in the request's own mode; "ok" means that
\* the upstream succeeded and its body could be read as a response, "error"
\* that the client got an error.  A response, an upstream that could not be
\* reached and one that refused leave a record.
RecordMatchesAnswer ==
    phase = "answered" =>
      /\ \A n \in 1 .. Len(records) :
           /\ records[n].mode = Mode
           /\ IF records[n].status = "ok"
              THEN success /\ body.parse = "ok"
              ELSE answer.kind = "error"
      /\ route.memory
           /\ (answer.kind = "response" \/ answer.why \in {"forward", "upstream_status"})
         => records # <<>>

\* What the documentation says of the memory store, "every request is stored
\* as a JSON record" (README.md, memory.rs, config.rs, CHANGELOG.md): every
\* answered request that was forwarded has its record.  A body that cannot be
\* read and every way through handle_json_as_stream leave none.
EveryRequestRecorded ==
    phase = "answered" /\ route.memory /\ answer.why \notin Refusals => records # <<>>

\* A JSON answer turned into a stream that starts also ends: one terminal
\* event, after it only the marker, and the marker for an OpenAI client.
JsonStreamEnds ==
    answer.kind = "stream" /\ lines # <<>> /\ lines[1].l = "message_start" =>
      \E n \in 1 .. Len(lines) :
        /\ lines[n].l = "message_stop"
        /\ \A m \in 1 .. Len(lines) : m # n => lines[m].l # "message_stop"
        /\ SubSeq(lines, n + 1, Len(lines)) = DoneLines(route.client)

Carriers(atom) ==
    {n \in 1 .. Len(lines) : \E m \in 1 .. Len(lines[n].a) : lines[n].a[m] = atom}

\* Every text-bearing block of a parsed response is in the stream made of it
\* exactly once, as what it was; blocks of a kind keep their order; the tool
\* calls are numbered from 0 without holes.
StreamCarriesResponse ==
    answer.kind = "stream" /\ body.p.parts = <<>> =>
      \A j \in 1 .. Len(body.blocks) :
        body.blocks[j] # "other" =>
          \E n \in 1 .. Len(lines) :
            /\ Carriers(<<1, j>>) = {n}
            /\ lines[n].k = body.blocks[j]
            /\ IF lines[n].k = "tool"
               THEN lines[n].i = ToolsBefore(body.blocks, j)
               ELSE \A m \in 1 .. j - 1 : body.blocks[m] = body.blocks[j] =>
                      \E l \in 1 .. n : <<1, m>> \in {lines[l].a[x] : x \in 1 .. Len(lines[l].a)}

\* A JSON answer becomes a whole stream (handle_json_as_stream and
\* response_to_events): it ends as a stream does and carries the response.
JsonStreamWhole == JsonStreamEnds /\ StreamCarriesResponse

\* A non-streaming request that was forwarded is answered, even if the
\* upstream stalls in the middle of its body; a streaming one does not wait
\* for ever for the upstream's headers, and once a JSON body is read its
\* stream is made and delivered.
ForwardedEnds ==
    /\ phase = "headers" ~> phase # "headers"
    /\ phase = "upstream" /\ ~route.stream ~> phase \in Ended
    /\ phase = "json" ~> phase \in Ended

\* With privacy on, no text of the upstream reaches the client with its
\* tokens unrestored.
ClientSeesOriginals == route.privacy => ~answer.raw
==============================================================================
