# A TLA+ verification of llmgate

llmgate is a protocol-translating LLM gateway. A client speaks the OpenAI or the
Anthropic protocol; the configured upstream speaks OpenAI, Anthropic or Gemini;
requests and responses are translated through a neutral model. On the way the
gateway can redact private values (and restore them in the answer) and keep a
request log. This directory models the gateway from its configuration file to the
last byte of an answer, checks the models with TLC and proves with TLAPS what it
can of the streaming relay, the framing parser, the request log, the gateway,
the request handler, redaction and the streaming restore.

Line references are to the files under `src/`: `pipeline.rs` is
`src/core/pipeline.rs`, `anthropic/stream.rs` is `src/adapters/anthropic/stream.rs`,
and so on. `PROJECT.json` maps every definition to its lines.

## 1. Inventory

| Part | State | Operations | What is hard | What makes it correct |
|---|---|---|---|---|
| Streaming relay task (`pipeline.rs` 483-710, 848-918) | decoder, encoder, restorer, buffered terminal events, three flags, bounded channel | select loop, `process_payload`, `send_lines`, the flush sequence, the outcome record | upstream, task and client interleave at every await; failure, timeout and disconnect at any point | content arrives once and in order; nothing follows the terminal event; a failed stream never looks complete; the task ends |
| Stream decoders (`*/stream.rs`) | started, failed, stop emitted, pending finish reason, tool indices | `feed`, `finish` | payload order is the provider's; errors in the middle; several finishing chunks | one start, one stop |
| Stream encoders (`*/stream.rs`) | open block, block index, open tools, pending signature | `encode`, `done` | blocks of three kinds alternate, tool deltas interleave | numbered, matched, non-overlapping blocks |
| Streaming restore (`privacy.rs` 612-811) | a hold-back buffer per channel | `feed`, `finish`, `restore_event` | tokens cut anywhere, wide characters, raw JSON | same text as the one-pass restore; bounded hold-back; no panic |
| Redaction and vault (`privacy.rs` 139-610) | vault, token counters, cached automaton | `RedactionEngine::new`, `redact_request`, `token_for`, `restore_text` | rule order, matches inside tokens, token cap, cache versions, colliding names | nothing sensitive is forwarded; the round trip is the identity |
| SSE framing (`sse.rs`) | line buffer, event lines, byte count | `push`, `finish` | chunks cut anywhere, 64 MiB cap | independent of chunking; bounded |
| Memory store (`memory.rs`) | bounded queue, `seq`, `dirty`, TTL ledger, the database and its WAL | `record`, insert, timeout (checkpoint, sweep), drain, `shutdown`, `start` | crash and restart, failing storage, full queue, starvation of the timeout | nothing accepted disappears silently; ids repeat only under a clock that has fallen behind; retention |
| Conversation handler (`pipeline.rs` 136-312, 491-529, 755-860, 917-970) | one request | parse, resolve, redact, forward, restore, record; JSON answers turned into streams | many early returns, each with or without a record; timers that cover only some waits; errors with status 200 | a record that agrees with the answer; every forwarded request is answered; the client sees its own values |
| Converters (`*/convert.rs`) | none in the gateway; the client carries the history | parse and serialize requests and responses, three protocols | identifiers cross the gateway three times over several requests; roles merge and split; limits have two names | what is said arrives once, in order, at its speaker; results reach their calls; limits hold |
| Error taxonomy (`neutral.rs` 214-258, the error half of `*/convert.rs`, `pipeline.rs` 713-753) | none | `parse_upstream_error`, errors in 200 bodies, `serialize_error`, final status | three vocabularies, two places where an error can hide | a failure keeps its class |
| Configuration (`config.rs`) | the configuration | `load`, `validate`, defaults | missing, unnamed, unreadable or invalid files and names; keys no request can present | no accidental open proxy; every key works |
| Registry and adapters (`adapters/mod.rs`, `*/mod.rs`), bootstrap (`main.rs`) | mounted routes | startup checks, mounting, Gemini URLs | two protocols claim one path; model names become URL segments | a path is answered in its protocol; the URL stays inside the API |
| Authentication (`auth.rs`) | keys | `require_auth`, `extract_key`, `ct_eq` | three headers, schemes, blanks, lengths | only keyholders reach a handler |
| Resolver (`resolver.rs`) | prefixes, map, default | `strip_prefix`, `resolve` | overlapping prefixes | order of configuration is irrelevant |
| models / count_tokens handlers (`pipeline.rs` 314-480) | none | list, estimate | names change between listing and request | a listed model can be asked for |
| HTTP client | none | `forward`, `forward_stream` | timeouts | as seen by the conversation handler |

Interactions: the conversation handler calls the HTTP client and, for a streaming
request, spawns the relay task. Bytes go through SSE framing to the decoder,
its events through the restorer to the encoder, the lines into a channel of 64
messages that the HTTP response body drains. The task and the handlers share the
memory store through its bounded queue; the vault of a request is shared by the
request and its response only.

## 2. Modules

| Module | Models | Role |
|---|---|---|
| `NeutralStream` | `neutral.rs` 158-186 | events and channels; content as atoms `<<payload, position>>` |
| `StreamDecoders` | the three `StreamDecoder`s | state record, `FeedX`, `FinishDecoder` |
| `StreamEncoders` | the two client `StreamEncoder`s | state record, one `Encode` operator per protocol, `DoneLines` |
| `StreamRestorer` | the per-channel `StreamRestorer` of `privacy.rs` | hold-back per channel, any suffix |
| `StreamRelay` | the relay task, composed of the four above, the channel and the client | state machine |
| `MCStreamRelay` | - | payload alphabets and routes for TLC |
| `FiniteRecursion` | - | induction over naturals and loops, for all proofs |
| `StreamCodecProofs` | - | lemmas about decoders, encoders and restorer |
| `StreamRelayProofs` | - | theorems about `StreamRelay` |
| `Conversation`, `MCConversation` | the request handler, composed of decoders, encoders and restorer | state machine |
| `ConversationProofs` | - | theorems about `Conversation` |
| `Redaction`, `MCRedaction` | engine, vault and session of `privacy.rs` | state machine over short texts |
| `RestoreStream`, `MCRestoreStream` | `RestoreStream` of `privacy.rs` | byte-level state machine |
| `PrivacyProofs` | - | theorems about `Redaction` and `RestoreStream` |
| `SseFraming` | `SseFraming` of `sse.rs` | byte-level state machine |
| `FramingProofs` | - | theorems about `SseFraming` |
| `MemoryStore` | `memory.rs`, and the end of `main` | state machine with clock, faults, crashes |
| `RequestLog` | what the store promises | abstract specification, implemented by `MemoryStore` |
| `MemoryStoreProofs` | - | theorems about `MemoryStore`, the refinement of `RequestLog` included |
| `NeutralModel` | `neutral.rs` 1-157 | blocks, messages, requests, responses |
| `OpenAIConvert`, `AnthropicConvert`, `GeminiConvert` | the three `convert.rs` | the four conversions of each protocol, as operators |
| `ErrorTaxonomy` | `AdapterError` and its way to a status | operators |
| `ToolLoop`, `MCToolLoop` | conversations of several requests through the converters | state machine composing the five above |
| `Gateway`, `MCGateway` | `config.rs`, `main.rs`, `auth.rs`, `resolver.rs`, `gemini/mod.rs`, the two small handlers | state machine, composed with `ErrorTaxonomy` |
| `GatewayProofs` | - | theorems about `Gateway` |

### StreamRelay

The task is sequential between its awaits, so an action runs from one await to the
next. `phase` says where the task is: `select` and `chunk` (the loop and, inside it,
the payload loop of one chunk), `drain` (loop left, `tx.is_closed()` not yet
tested), `framing`, `restorer`, `terminal`, `marker`, `record` (the flush sequence
in its order) and `ended`. `NextPayload`, `StreamEof`, `StreamError`, `IdleTimeout`
and `ClientClosed` are the branches of the `select!`; `RelayEvent` is one iteration of
`process_payload` (swallowed by the restorer, buffered as a `MessageStop`, or encoded
and sent, the send succeeding or failing); `SkipFlush` .. `RecordOutcome` are the
statements after the loop. `Receive` and `Disconnect` are the client's. `sent`,
`log` and `lost` are history variables the properties compare.

Two abstractions are nondeterministic on purpose. What suffix of a channel the
restorer holds back depends on the text, so here it is any suffix; `RestoreStream`
checks which one it really is. How bytes become payloads is `SseFraming`'s concern,
so here a chunk yields any sequence of payloads the protocol can carry.
`keepalive_stream` only inserts comment lines on the receiving side and is left out.

### Conversation

`phase` names the await the handler is in: `client` (the request body), `headers`, `upstream`
(the upstream's body), or `json` inside `handle_json_as_stream`. `Refuse` is every
return before the request is forwarded; `ForwardFails`, `HeadersTimeout`, `BodyFails` and
`TotalTimeout` the failing awaits; `UpstreamError`, `ParseError`, `Respond`,
`JsonAsStream` and `JsonParseError` what follows a body. `EncodeNext`, `FlushNext` and `CloseStream`
are the three loops of `handle_json_as_stream`, which has no await; they are separate
actions only so that the restorer may hold back any suffix at each event. A body is
described by what the stream decoder takes it for and by what `parse_response` makes of
it. `answer.raw` marks an error that quotes the upstream's text unrestored. `ClientLeaves` drops
the handler at an await. A request that becomes an SSE stream ends here in `relay`
and continues in `StreamRelay`. The registry lookups at the top cannot fail for
configured protocols (`Gateway`'s `CheckProtocols`) and are left out; what the
conversions do is `ToolLoop`'s concern, here they succeed or fail.

### ToolLoop

The gateway keeps nothing between two requests: the client sends the whole
history each time. `history` is that history in the client's own wire form;
`Ask`, `Report` and `Retry` append to it (or not) and convert all of it, `Answer`,
`Fail` and `FailInBody` are the upstream's three outcomes. The body in flight and
the answer are kept in wire form too. `ReadOpenAI`, `ReadAnthropic` and `ReadGemini` say how a
receiver reads a wire form, as a list of items with speaker, kind, content and
identifiers; the properties compare the readings at both ends. Content is a
sequence of atoms, so loss, duplication, reordering and misattribution all show.
Left out because the code hands it on untouched: model name, sampling parameters, tool
schemas, usage, message ids; JSON syntax errors return before any conversion.
Token limits keep a width of `TokenBits` bits, as the code's cast to `u32` does.

The readers are complete: they read everything a wire form holds, also what the converters
do not look at (a message of role `developer`, the later parts of a tool message, an image's
address, arguments that are no JSON), and take nothing for what it is not (Gemini's
`inlineData` of the type `url` is no image). What the conversions lose is named in two
definitions, `RequestLosses` and `ResponseLosses`, and `ContentKept` claims everything else.

### Gateway

`phase` follows `main`: `load`, `build` (`AppState::new`), `check`, `mount`, then `serve` or
`refused`. `Serve` is one request from the router to the handler's first await on the
upstream: route, authentication, then `Converse`, `ListModels` or `CountTokens` with
their early returns. `Sent` drops the request. A name is a sequence of tokens in which
the characters the code looks for stand alone; a listing's names can be asked for in
the next request, which is how `ListedModelsReachable` spans two requests.
`Conflict` cannot happen with the registered adapters (they share only the listing).
The default configuration is not validated by the code; `StartupChecked` shows it needs no validation.
`source.path` is `CONFIG_PATH`: unset, set, or set to something that is no UTF-8, which the code
treats as unset; `source.exists` is about the file that `Load` then looks for.

### Redaction

A request is the sequence of its texts, chosen one by one; `RedactBlock` runs all rules
over one text, minting tokens through `TokenFor` and asking `WithAutomaton` for the
token spans, exactly in the code's order. A rejected request forwards nothing.
`Restore(k)` restores an answer that repeats block `k`. Regular expressions are sets of
words with `find_iter`'s leftmost search; the assumption that no word contains `<` or `>`
excludes patterns that could match across a token's edge (such a match is skipped
as a whole by the code, and the rest of it would be forwarded). Counters are rendered
in base 2 so that two-digit counters, where names can collide, are within reach.

### RestoreStream, SseFraming

Both work on sequences of bytes over a small alphabet that keeps what the code
tells apart: token pieces, a two-byte character and JSON escapes for the restorer;
line feed, carriage return, the `data:` prefix, the optional space, a byte that is not
UTF-8 and ordinary text for the framer. Every cut into fragments or chunks is
explored, and the result is compared with a definition over the whole text
(`RestoreWhole`, `Events`). The names of `RestoreStream`'s specification
(`StreamInit`, `StreamNext`, `StreamSpec`, `StreamTokens`) leave those of `Redaction` free:
the two are halves of one file, and `PrivacyProofs` extends both.

### MemoryStore

Records are numbered by call; the database maps ids (timestamp, `seq`) to records,
so an id used twice takes the place of a record. `InsertOne`, `Timeout` and
`Disconnected` are the three outcomes of `recv_timeout`; each storage operation may
fail, a failing batch of FORGETs may have run in part. `Shutdown` is
`MemoryStore::shutdown`, `MainReturns` what `main` does instead; `Crash` may happen
at any time, `Start` reopens the file. nqlite is external: its statements are taken
as atomic and durable. The system clock may be set back at any time and by any amount
(`StepBack`), while `recv_timeout` counts on a clock of its own, and `Start` opens any
store under any clock. `"r{ts}_{seq}"` restarts `seq` with the process, so an id of an
earlier process can come again; `InsertOne` then puts the new record in the place of
the old one, which `gone["replaced"]` remembers. `behind` records whether a process has ever run
at a time not later than that of a record stored before it started; `AcceptedKept` and
`NoEarlyForget` say that nothing is overwritten without it.
`late` records whether time ever passed while the actor had something to do:
properties about punctuality are stated for an actor that was never late.

`Implements` is a refinement: `RequestLog` knows only records offered, waiting, kept and
gone, and whether the clock has fallen behind. It says that a record is rejected only when the
queue is full, enters the log in the order of acceptance and at most once, leaves it when its
retention ends or, with the clock behind, to make room for the next one (`Overwrite`), and never returns
once gone, whatever the clock, the storage and the process do. The mapping reads `waiting`
off the queue, `kept` off the database and `gone` off the accepted records that are in neither.

## 3. Runs

Passing runs:

| Run | Question | Properties |
|---|---|---|
| `relay` | how may a stream end, whatever fails and whenever the client leaves, does the content arrive intact, in well-formed blocks, and does the task always end? | `TypeOK`, `NothingAfterTerminal`, `FailedNotCompleted`, `MarkerMeansNoError`, `OpenAIErrorNotCompleted`, `OkMeansComplete`, `ContentIntact`, `BlocksWellFormed`, `StreamEnds`, `DisconnectEndsRelay` |
| `restore` | does streaming change what is restored? | `StreamMatchesWhole`, `HoldBackBounded`, `ArgumentsAgree` |
| `framing` | does chunking change what is parsed, and are the buffers bounded? | `TypeOK` (with the exact byte count), `ChunkingIrrelevant` |
| `redaction` | does the round trip restore the request, and does anything leak? | `TypeOK`, `RoundTrip`, `NothingLeaks`, `RejectedOnlyWhenFull` (`TypeOK` includes `OneSymbolPerValue`) |
| `conversation` | does every return answer and stream as it should, and does a record say what was answered? | `TypeOK`, `RecordMatchesAnswer`, `JsonStreamWhole` (`JsonStreamEnds`, `StreamCarriesResponse`), `ForwardedEnds` |
| `store` | can an accepted record disappear, does retention work, and does `shutdown()` return? | `TypeOK`, `AcceptedKept`, `LedgerMatchesStore`, `IdleSweepsOnTime`, `ShutdownDrains`, `ShutdownEnds`, `NoEarlyForget`, `Implements` |
| `tool_loop` | over several requests and every pair of protocols, what do the converters keep, and where do results arrive? | `ContentKept` (`RequestKept`, `ResponseKept`), `ResultsReachTheirCalls` (`CallsAddressable`, `UniqueIdsReach`, `ResultsFollowCalls`), `ConversionsInvert` (`EchoExact`, `GeminiParsesBack`, `ResponsesParseBack`), `LimitsHold`, `ErrorClassKept` |
| `gateway` | which configurations start, who is let in, who answers, and which URL is asked? | `ServesAsConfigured` (`StartupChecked`, `OpenOnlyOnPurpose`, `AnsweredInItsProtocol`), `KeysExact` (`KeysWork`, `OnlyKeyholders`), `NamesResolve` (`PrefixOrderIrrelevant`, `ListedModelsReachable`), `UrlStaysInside` |

Runs that show where the code and what is written about it differ:

| Run | Property | What happens |
|---|---|---|
| `relay_error_stop` | `ErrorNotCompleted` | after an error event from an Anthropic or Gemini upstream the buffered `MessageStop` is still sent; only the marker is suppressed |
| `conversation_unrestored` | `ClientSeesOriginals` | an error body that arrives with status 200 goes through `parse_response`, whose error quotes it unrestored |
| `tool_loop_ids` | `EveryResultReachesItsCall` | a Gemini upstream that sends calls without id has the first call of every answer named `fc_1`; a later result goes out under the earlier call's function name |
| `conversation_unrecorded` | `EveryRequestRecorded` | a forwarded request whose upstream body cannot be read is answered without a record; so is every JSON answer to a streaming request |

Observed while modelling, and visible in the models without a run of their own:

- For a streaming request, an error body or a JSON body is read as a whole without a timer
  (`pipeline.rs` 848), while `proxy.rs` 58-59 and `README.md` 168 say that a per-chunk idle
  timeout bounds a stalled upstream: the second conjunct of `ForwardedEnds` is about non-streaming requests only.
- Every record restarts `recv_timeout` (`memory.rs` 239), so steady traffic postpones
  checkpoint and sweep, while `config.rs` 122 speaks of an interval: this is why
  `IdleSweepsOnTime` is about an actor that has seen no record for an interval.
- An OpenAI `tool` message with several content parts keeps only the first, a message of
  role `developer` is dropped, and so are call arguments that are no JSON: `RequestLosses` and
  `ResponseLosses` name them, since no text of the repository promises otherwise.
- An image given by its address (`README.md` 44: "URL image sources both ways") goes to Gemini as
  `inlineData` of the type `url` (`gemini/convert.rs` 436-438), and the images of an answer, which
  the response serializers keep on purpose (`CHANGELOG.md` 191-193), are dropped when the client
  echoes them to an OpenAI upstream (`openai/convert.rs` 337-381). `RequestLosses` names both, and the run's questions and answers contain both.
- An error in a 200 body keeps the status it names (`openai/convert.rs` 412-420), and
  `error_json_response` (`pipeline.rs` 470-477) makes it the HTTP status: `{"error":{"status":200}}` is
  answered with 200, while `README.md` 318 says "native error body + status". The run's status members
  include 100, 200, 999 and 2^16 + 200; `ErrorClassKept` is about 3xx to 5xx.
- A `CONFIG_PATH` that is set but no UTF-8 falls through to `./config.toml` or the defaults
  (`config.rs` 182), while `config.rs` 178-179 and `README.md` 158-162 say that a named file
  must exist. This is why `OpenOnlyOnPurpose` counts it with the unset ones.
- `main` returns without `MemoryStore::shutdown` (`main.rs` 170), which `memory.rs` 127-128 says is
  used by graceful shutdown: records can be left in the queue (`MainReturns`).
- The TTL ledger starts empty with every process (`memory.rs` 236), so the records of earlier processes are never
  swept, while `config.example.toml` 85-86 speaks of expired records without exception. This is
  why `LedgerMatchesStore` and `IdleSweepsOnTime` are about the records of the running process.
- With both `max_tokens` and `max_completion_tokens` an OpenAI upstream gets the latter, the
  others get the former; a limit is cut to 32 bits, so 2^32 becomes 0. `LimitsHold` claims
  no more than that some given limit is respected.
- OpenAI's form has no place for `is_error`, signatures and redacted thinking; Gemini's `STOP` with
  calls reaches the client as `stop` / `end_turn`.
- A wrong Bearer key hides a right `x-api-key`: `extract_key` takes the first header that yields
  a key. This is why `KeysWork` sends a key alone.
- A generated request id is recorded as `"-"` (`memory.rs` 43). A header timeout of `forward_stream`,
  504 where it arises, is wrapped again and answered with 500.
- When the client has left, the relay skips the block behind `if !tx.is_closed()`, the
  outcome record with it. Refusals before forwarding are not recorded either;
  `EveryRequestRecorded` leaves them out, so that its violation is about forwarded requests.
- With privacy on, the held tail of a tool call that is flushed after another block
  was opened starts a second `tool_use` block without id and name (`ToolCallsWhole` fails
  with privacy; `BlocksWellFormed` claims it for a Gemini upstream without privacy).
- An SSE event over the cap loses its first lines, and its later lines are delivered as a
  payload (`AddLine` after a discard); the log says "discarding event".
- A client text that spells a minted token is restored to that token's value: the
  premise of `RoundTrip`.
- A single Anthropic `content_block_delta` sent as a JSON body becomes a stream without start and
  end: the premise of `JsonStreamEnds`. A thinking block's signature is dropped on that path.
- `client_gone` is only set in the `select!`; a client that leaves during the final
  flush is recorded `"ok"` (`lost /\ record = "ok"` is reachable), while
  `pipeline.rs` 553-554 says a disconnect is "not a success". This is why
  `OkMeansComplete` has `~lost` as a premise.
- An id of an earlier process can come again after a clock correction and overwrite its
  record (`AcceptedKept` excludes it only for `~behind`).
- `ArgumentsAgree` needs an upstream that writes `<` unescaped in JSON; tokens
  written with a `\u` escape are not found in streamed arguments, but are found on the
  non-streaming path, which parses first.

### Bounds

- Relay: `Cap = 1` makes every send a possible wait (64 behaves the same: only
  "full" and "not full" are told apart). Three payloads allow
  an error or a failure before, between and after content and finish, and the
  alternation text, tool, text; one payload carries up to two parts. `relay` uses
  nine routes: both clients and all three upstreams without privacy, and the Anthropic client, whose streams
  have blocks, with all three upstreams with privacy. An OpenAI client with privacy is left to the theorems.
  The alphabets in `MCStreamRelay` have one representative per branch
  of each decoder; a payload the OpenAI decoder ignores is represented by `[DONE]`, which does the same.
  Safety and liveness are checked on the same instance.
- Restore: tokens of three and four bytes, eight bytes of text, fragments of one or
  two characters: two tokens back to back, a token whose prefix is another
  token's, a wide character across the window.
- Framing: seven bytes, chunks up to five, cap four: two data lines and a blank
  line fit; chunk, buffer and event overflow all happen.
- Redaction: three texts of up to three characters, four tokens, three accepted and
  two refused rule lists: values repeat across texts and rules, words lie
  inside tokens and inside other words, the cap is reached inside a text.
- Conversation: all 48 routes, up to four content blocks with two tool calls.
- Store: queue of one and two calls (the second can find the queue full); three ticks and one
  setback to any earlier time, enough to expire, sweep, restart, fall behind and overwrite
  a record of an earlier process. Safety and liveness are checked on the same instance.
- Tool loop: three answered requests, any number of failed ones between them; every
  pair of protocols, Gemini with and without call ids; one answer and one question
  per branch of each converter, two calls in an answer, results in both orders, as
  text, as parts and failed; images as data, as an address and in answers; tokens of four
  bits with limits above and below 2^4; status members of 200 bodies that are absent, an error,
  a success, below 200, above 599, beyond what an HTTP status can be and beyond 16 bits.
- Gateway: five configurations that serve and twelve that are refused, each for a
  reason of its own, each with every way `CONFIG_PATH` and the file can be; nine header sets, thirteen model names, listings that succeed,
  fail and are malformed.

`CHECK_DEADLOCK` stays on everywhere: each module has an explicit final stuttering
action (`Finished`, `Done`) for the states in which the program has stopped.

### Fairness

`FairSpec` assumes `WF(Relay)` (the runtime keeps polling a task that can move) and
`WF(Receive)` (a connected client keeps reading). Nothing is assumed of the upstream,
nor of disconnects. `StreamEnds` takes `WF(IdleTimeout)` as its own premise: tokio's
timer fires if the upstream stays silent for `STREAM_IDLE_TIMEOUT`.
`DisconnectEndsRelay` does without it: leaving is enough. Without `WF(Receive)` the task
may wait for ever: `send_lines` has no time limit and is outside the `select!`.

`Conversation`'s `FairSpec` assumes only that the two timers fire (`HeadersTimeout`,
`TotalTimeout`) and that the handler runs on between awaits (`JsonStep`).

`MemoryStore`'s `FairSpec` assumes that the actor's thread runs and that a process with
nothing left to do exits; under it `shutdown()` returns (`ShutdownEnds`). Nothing is assumed of
callers, crashes, restarts or the clock.

Every property of a passing run has a mutant in `PROJECT.json`: a definition marked
"Mutation" that changes one modelled definition like a plausible slip, and with
which TLC finds the property violated.

## 4. Theorems

Every theorem holds for all values of the constants its module's assumptions allow.

| Theorem | States | Checked by run |
|---|---|---|
| `StreamRelayProofs.TypeCorrect` | `Spec => []TypeOK`; the channel never exceeds its capacity | `relay` |
| `.RelayInvariant` | `Spec => []RelayInv`, the inductive invariant | - |
| `.TerminalIsLast` | `Spec => []NothingAfterTerminal` | `relay` |
| `.FailureNeverCompletes` | `Spec => []FailedNotCompleted` | `relay` |
| `.MarkerExcludesError` | `Spec => []MarkerMeansNoError` | `relay` |
| `.OpenAIErrorSuppressesStop` | `Spec => []OpenAIErrorNotCompleted` | `relay` |
| `.OkStreamsAreComplete` | `Spec => []OkMeansComplete` | `relay` |
| `.ContentArrivesIntact` | `Spec => []ContentIntact` | `relay` |
| `.BlocksAreWellFormed` | `Spec => []BlocksWellFormed` | `relay` |
| `FramingProofs.FramingTypes` | `Spec => []TypeOK`: memory bound, exact byte count | `framing` |
| `.FramingChunks` | `Spec => []ChunkingIrrelevant` | `framing` |
| `MemoryStoreProofs.StoreTypes`, `.StoreKeepsAccepted`, `.StoreLedger`, `.StoreSweepsOnTime`, `.StoreDrains` | `TypeOK`, `AcceptedKept`, `LedgerMatchesStore`, `IdleSweepsOnTime`, `ShutdownDrains` | `store` |
| `.StoreForgetsLate` | the action property `NoEarlyForget` | `store` |
| `.StoreImplementsLog` | `Spec => Implements`: the store refines `RequestLog` | `store` |
| `GatewayProofs.GatewayServes`, `.GatewayKeysExact`, `.GatewayUrlsInside`, `.GatewayNamesResolve` | `ServesAsConfigured`, `KeysExact`, `UrlStaysInside`, `NamesResolve` | `gateway` |
| `ConversationProofs.HandlerTypes`, `.HandlerRecordsAnswer`, `.JsonStreamsAreWhole` | `TypeOK`, `RecordMatchesAnswer`, `JsonStreamWhole` | `conversation` |
| `PrivacyProofs.StreamMatchesWholeThm` | `StreamSpec => []StreamMatchesWhole`: streaming restores what the one-pass restore does, and never slices inside a character | `restore` |
| `.HoldBackBoundedThm` | `StreamSpec => []HoldBackBounded` | `restore` |
| `.RedactionTypeThm` | `Spec => []TypeOK` of `Redaction`: cap, inverse maps, current automaton | `redaction` |
| `.RejectedOnlyWhenFullThm` | `Spec => []RejectedOnlyWhenFull` | `redaction` |
| `.RoundTripThm` | `Spec => []RoundTrip`: redaction followed by restore is the identity | `redaction` |

Assumptions. `RelayAssumption`: routes of known protocols, payload alphabets allowed by
`Sendable`, `Cap > 0`, any number of payloads. `FramingAssumption`: a newline is a byte, the
cap is positive. `StoreAssumption` and `ConversationAssumption`: the constants have their types.
`GatewayAssumption`: configurations, headers and upstream answers have the shape the code
deserializes them to, and the characters `validate_model_segment` refuses are not part of
the words `models`, `tunedModels` or of the slash that the code itself puts in; `Literals`
only says that the string literals of the module are strings. `GatewayNamesResolve` has
one more premise, `WellNamed`: the upstream lists its models under resource names as
Gemini documents them (the run's upstreams satisfy it, and TLC evaluated it on them).
`TokenGrammar`: tokens have the form `validate_template` enforces, a fragment is a string of whole
characters (the code's `&str`), and `max_token_len` covers every token and is positive
(the code takes at least 16). `RedactionAssumption`: texts, words and rules have their types, the
digits and a token's delimiters are what they are, and no word contains a delimiter.

### The relay

The first three safety properties speak of what has been written; none is
inductive, because they do not say that no second stop is on its way. `RelayInv` adds
`StopPending` (the decoder's single stop is queued, or buffered, or written, never
two of these, and then the decoder has stopped) and `PhaseHistory` (each phase fixes
what can have been written and which flags can be set). It rests on two contracts
proved first: a decoder produces at most one stop in its life, on any sequence of
payloads (`FeedStops`, `FinishStops`); an encoder writes `message_stop` only for a stop and
as the last line of its answer, `error` only for an error, and never the marker
(`EncodeAnswer`). Each action then has its own lemma (`PayloadInv`, `RelayEventInv`,
`FinishInv`, `FlushHeldInv`, `FlushTerminalInv`, `MarkerInv`, `QuietInv`).

`CompletionInv` strengthens it for the end of a stream: an OpenAI decoder that has failed
emits no stop any more; a decoder that has started and was finished has emitted its stop;
that stop is written before `"ok"` is recorded unless the client left.

`IntactInv` adds `Conserved`, a ledger per channel: what the upstream sent on it is what
was written, then what is in the restorer, then what is in the events still to be
relayed, in this order. `EncodeCarries`, `RestoreCarries` and `HeldAfterHold` say that encoder
and restorer move content along the ledger and neither drop nor reorder it.
The ledger needs `OnChannel`, a recursive function, to distribute over concatenation
(`OnChannelConcat`); this is proved by induction, see below.

`BlocksInv` is for the blocks an Anthropic client sees. `BlocksWellFormed` only speaks of lines
written; to continue a stream one must know which block the encoder has open. `InStep` ties
the encoder's `cur`, `idx` and `tools` to the stream: as many stops as `idx`, as many starts or one
more, and the last start is that of the open block. It holds as long as the client
listens: a refused send moves the encoder on but not the stream, and nothing is
written after it. One lemma per line name says when that line fits (`StartAppend`,
`DeltaAppend`, `StopAppend`, ...), and `EncodeInStep` puts them together for every event. Two facts come
from the decoders: only tool calls are numbered (`FeedNumbered`), and Gemini numbers
them upwards through the whole stream (`GeminiCalls`); so, without a restorer, the calls written,
queued and still to come are in the order of their numbers (`CallsInOrder`), and none is
split. TLC checked `BlocksInv` on the instance of `relay` before it was proved.

### The framing parser

The reference `Events` looks back from every blank line over the whole stream; the parser
only has three registers. `FramingInv` says what they are: until something is discarded,
`payloads = Events(read)`, `data = Rest(read)` and `buffer = Open(read)`. `ByteRead` says how one
more byte changes the three functions (a blank line ends the event, a data line joins it,
another line is ignored) and that later bytes never change the meaning of earlier ones;
`LineStep` says the same of one turn of the parser's loop; `ScanByte` puts the two side by side
and `ScanChunk` carries them over a chunk. The bound and the exact count are part of
`Registers`, the set the loop never leaves.

### The request log

The inductive invariant says that `seq` is beyond that of every record this process stored and,
unless the clock has fallen behind, the time beyond that of every record stored before, so that
`NewId` is stored only if `behind` (`NewIdFresh`); that every accepted record is in exactly one of
queue, database and the sets of those given up, replaced ones included, and that a record is
replaced only if `behind` (`ReplacedBehind`); that the ledger lists what this process stored in order;
and that what is not checkpointed is marked by `dirty` (`Checkpointed`). Nothing is assumed of the clock. `StoreForgetsLate` and
`StoreImplementsLog` are step properties under it: each action maps to one
action of `RequestLog` or to a stutter, an insert under a used id to `Overwrite`.

### Gateway and request handler

`GatewayInv` carries what each startup phase has established to the phases after it
(the configuration passed `validate`, the protocols are registered, every mounted path
has one owner); the rest is about single requests, with lemmas about `extract_key`,
`strip_prefix`, `resolve`, `resource_path` and `validate_model_segment`. The order of prefixes is
irrelevant because the loop of `strip_prefix` ends with the longest match: after n iterations `best` is
the longest of the first n prefixes (`StripLongest`, by induction over the loop), so its result depends
only on the set of prefixes (`StripOrder`), and every order of them has the same set (`OrderSet`).

`RecordMatchesAnswer` says what a record means: it has the request's mode, `ok` stands for an answer that
was parsed, `error` for an error; and which answers always have one. `HandlerInv` adds that an unanswered request has no record yet and that
`handle_json_as_stream` is only entered on a streaming route; `ResponseEvents` and `EncodeAllLoop` type
the two loops of that path.

`JsonStreamWhole` speaks of the finished stream only, so `JsonInv` adds what holds while
`handle_json_as_stream` works. Before the body is read its locals are as they were at first (`Fresh`).
In the loops `Streaming` holds: the events left are content between an optional start and a stop that is
the last one; the stop is still among them or alone in `terminal`, so a stream that starts will stop; no
line so far is an end; no signature is pending, so that only content lines carry text; without privacy
nothing is held back. `Ledger` is the accounting: on each channel, what is written, then what is held,
then what the remaining events carry is what `response_to_events` made of the response. `DecodedFramed`
and `ResponseFramed` start it for the two readings of a body, `LedgerStep` keeps it along a step that
moves text from the events into what is held or written, and at the end only the lines are left.
`ResponseListed` says what `response_to_events` puts on a channel (each block once, in order, the tool
calls numbered), and `CarriesBlock` turns equal channels into the property's statement that exactly
one line carries a block. TLC checked `JsonInv` on the instance of `conversation` before it was proved.

### The streaming restore

`RestoreWhole` searches the whole text, `feed` a window of it. Both are compared with a third
function, `Resolve`, which goes through the positions of a text from the left: where a token of
the vault stands, its original, elsewhere the byte itself. Because a token has `<` only in
front and `>` only behind, two tokens never overlap (`Fence`), so at most one token stands at a
position, and `Resolve` of a concatenation is the concatenation of both results whenever no
token lies across the cut (`Parted`). `StreamInv` says that what is fed is a released
part followed by the buffer; that whatever is fed later, no token will lie across that
cut (`Closed`); that the output is `Resolve` of the released part; and that the buffer
is empty or starts with `<`, holds no complete token and is shorter than
the longest token. `FedWith` carries it through one `feed`: the window shows every token
that can be complete, and what is released before the last `<` cannot begin one.
The slice never falls inside a character since fragments are whole (`Whole`).

### Redaction

`RedactionInv` has three parts. `VaultOK`: the two maps are inverse to each other, and every token of the vault was
rendered by an accepted rule with a number the rule's counter has reached. The template checks
of `RedactionEngine::new` (`DigitSuffixCollides` among them) make the rendering
injective over rules and numbers, so a token rendered next is new: `token_for` can fail
only at the cap. `CacheOK`: an automaton whose version is the vault's
has exactly the vault's tokens, so no span is missing. `Kept`, for each text: every token that
stands in it is one of the vault or one that the client wrote; and if the client wrote none
of the vault's, `Resolve` gives back the client's text. `Kept` must survive a later growth of the
vault, which is where the first half is needed. Inside one pass `Written` splits the output
so far into a part that ends with a token and a rest copied from the text, and says that
`Kept` holds of that output followed by the rest of the text: a match replaced by its token
keeps it, because a match outside the spans of tokens cuts no token apart (words contain no
delimiter), and so do a match left alone and a match that is skipped or allowed.

### Induction over data

The library's induction theorems take an operator as parameter and cannot be used
here. `FiniteRecursion` goes another way: `InductiveSet` (a set that has 0 and with `k - 1` also `k`
contains `0 .. n`) is proved from the well-foundedness of `<`, and `LoopExists` derives
from it that a loop has a function, so that a recursive `LET` function,
which TLA+ defines by `CHOOSE`, satisfies its equation. Every recursive function of a proved
property is treated this way (`OnChannelLoop`, `CollectExists`, `LinesLoop`, `EncodeAllLoop`, `StripLongest`).
`CourseExists` and `BackwardExists` do the same for functions that refer to any smaller or any
larger argument, as the searches in a text do.

### Only model-checked

- Liveness, out of the prover's reach: `StreamEnds`, `DisconnectEndsRelay`, `ForwardedEnds`, `ShutdownEnds`.
- `NothingLeaks`: it does not hold for all constants. With an allow list a later rule can replace the first
  part of an allowed match, and what is left of it may be a word of the earlier rule
  (words `ab` and `b` with `ab` allowed, then word `xa`: `xab` becomes a token and `b`). The run
  has no such overlap; whether it counts as a leak depends on what the allow list is for.
- `ArgumentsAgree`: compares two restores through the escaping of JSON.
- `ToolLoop`, whose conversions are folds over nested sequences. Its `ErrorClassKept` speaks of failures with a
  class to keep, a 3xx, 4xx or 5xx; other status members are listed with the observations in section 3.

## 5. Plan

Done, in the order of importance: relay with decoders and encoders, restorer, framer,
store with its abstract specification, redaction, conversation handler, converters and error
taxonomy, gateway; the theorems above.

Next:

1. Theorems: `ArgumentsAgree` of `RestoreStream`, which needs lemmas about the escaping of JSON, and
   `LimitsHold` of `ToolLoop`.
2. A second abstract specification: a reliable ordered stream that ends once,
   implemented by `StreamRelay`.
3. Compositions: `Conversation` with `StreamRelay` and with `Record` of the store, for several
   requests at once.

## 6. Not modelled

- The Gemini stream encoder: Gemini has no client endpoint, so no stream of the gateway
  reaches it, and nothing in the source says what events it would be fed.
- The HTTP client except its timeouts (pure I/O); signals and request ids (they feed the
  log); `keepalive_stream` (comment lines only).
- JSON and TOML syntax (a flag), `serialize_models` (formatting), the token estimate (no
  property depends on it), the warning about a non-loopback address.
- Usage counters, message ids and sampling parameters, which are handed on.
