# Verification of the Spatius Go SDK

TLA+ models of the Go SDK in `src/`, the TLC configurations that check them on
small instances, and TLAPS proofs of the results that matter most. Every
definition that models code has an entry in `PROJECT.json` under "map" with the
lines it stands for. The name of a definition is the name of its function or
method where TLA+ allows it.

## 1. The system

The SDK is a client of an avatar service. An application builds an
`AvatarSession`, calls `Init` (which resolves the region of the service and gets
a session token), `Start` (which opens a websocket and hands the configuration
over), streams audio with `SendAudio`, and receives animation frames through
callbacks until `Close`. Everything else in the repository serves that path.

| Component | State | Operations | Talks to |
|---|---|---|---|
| Session lifecycle (`avatar_session.go`) | `conn`, the websocket behind it, the context of each read loop; **no lock guards `conn`** | `Start`, `SendAudio`, `Interrupt`, `Close`, `readLoop` | the websocket library, the dispatcher, telemetry |
| Requests and encoded audio (`avatar_session.go`) | `currentReqID`, `lastReqID`, `audioEncoder` | `SendAudio`, `Interrupt`, `Close`, `Start` | the Ogg Opus encoder, `OnEncodedAudio` |
| Callback dispatcher (`avatar_session.go`) | mutex, condition variable, `queue`, `closed` | `dispatch`, `stop`, `run` | the read loop, `Close`, user callbacks |
| Request telemetry (`avatar_session.go`) | the `requestTelemetry` map, session start time and flags | `startRequestTelemetry`, `finishRequestTelemetry`, `finishAllRequestTelemetry` | telemetry providers |
| Ogg Opus encoder (`audio_encoder.go`) | PCM buffer, sample counts, granule, page number, pending packet, error | `Encode` and all it calls | libopus |
| Init, Prewarm, caches (`bootstrap.go`, `token_cache.go`, `prewarm.go`, `session_config.go`) | the process-wide region cache and token cache | `Init`, `Prewarm`, `resolveRegion`, `fetchSessionToken` | two HTTP services |
| Telemetry providers (`telemetry.go`) | endpoint, resource context, tracer and meter provider, histograms, "attempted" flag, all under one mutex | `ConfigureTelemetry`, `ForceFlushTelemetry`, `ShutdownTelemetry`, `startSpan`, `recordMetric`, `setResourceContext` | OpenTelemetry exporters |
| Connection pool example (`examples/connection-pool`) | a channel of connections, a collector per connection; a wait group and a results channel per round | `Initialize`, `Borrow`, `Return`, `Close`, `wait`, `reset`; `main`, `runMultipleRounds` | sessions and their callbacks |
| HTTP service and single clip examples (`examples/http-service`, `examples/single-audio-clip`) | a collector per request: frames, last flag, error, a channel closed once | `handleGenerate` / `main`, the three callbacks, `wait`, `finish` | one session, its read loop, dispatcher and `OnClose` goroutines |
| Configuration, errors, log ids, wire format | none that changes after construction | pure functions, generated code | |

### What is hard here

- `s.conn` is read and written by the caller and by every read loop without a
  lock; each use follows a check that another goroutine can make stale.
- No write has a deadline or takes a context: a server that stops reading blocks
  `SendAudio`, `Close` and the handshake's write.
- A read loop calls `Close` itself, so two Closes overlap; a restarted session
  has stale loops that close a connection that is not theirs.
- Callbacks are queued and run on a goroutine of their own; stopping, queueing
  and waiting must not lose the last wake-up.
- A request's telemetry is finished by whichever of the sender, the read loop and
  two Closes gets to it first.
- Stream state (encoder, request id) outlives interrupts, failed writes and errors of libopus.
- Caches are read, then used after a network call; time passes in between.
- Providers are shut down and rebuilt while other goroutines hold a tracer, a histogram
  or a span they copied.
- Pooled connections break while they are being reset, borrowed or returned, their
  callbacks overlap the reset of the collector, and the order of a deferred `Return`, a sent result and `wg.Done` decides whether the pool may be closed.
- A one-shot request is ended by its last frame, an error, a close or its timeout,
  each on a goroutine of its own; only the first may decide, and each exit must clean up.

Each is listed in `PROJECT.json` under "hazards" at the line where it bites, with
the properties that cover it or the reason why none does.

### What makes each component correct

- Session: no socket is left behind, the calls return unless the server blocks their
  write, a broken connection is reported, and `OnClose` runs for a session that closed.
- Requests: what is sent under one id is one continuous stream, in order, ended
  once, and the callback sees what the wire carries.
- Dispatcher: callbacks are run in the order they were queued, without loss, and
  callers never wait for user code.
- Request telemetry: each span ends exactly once, Close leaves none open.
- Encoder: the page sequence is legal and plays for exactly the samples given, less what
  libopus refused.
- Init: a token fits the endpoint it is used with; the region is a known one; only the
  answer "auto" of the region service, and none of its failures, can leave a session without an endpoint.
- Telemetry providers: data goes to the configured endpoint with the right
  resource; what was created is shut down.
- Token cache: a usable token is handed out while there is one, and lost to nothing but
  a newer one and time.
- Pool: a connection belongs to one borrower, none is lost, requests see their
  own frames, the wake-up of a waiting request survives the reset of its collector; main closes
  the pool after its last request.
- One-shot examples: a caller told of success has the whole answer, a failure has a
  cause outside the program, a request ends and leaves nothing behind, unless the server blocks
  its write or a break makes it panic.

## 2. Modules

    AvatarSession          lifecycle: Start, SendAudio, Interrupt, Close, readLoop
      ClipRequest          the one-shot examples, extends AvatarSession
        ClipRequestProofs  about both
    AudioRequest           request ids and encoded audio of the same methods
      AudioRequestProofs
    CallbackDispatcher     the callback queue
      OrderedDelivery      what it promises (abstract specification)
      CallbackDispatcherProofs
    SessionTelemetry       spans and metrics of requests and sessions
      SessionTelemetryProofs
    OggOpusEncoder         Encode, framing, padding and the final page
      OggOpusEncoderProofs
    SessionInit            Init, Prewarm, region cache, token cache, time
      TokenCache           what the token cache promises (abstract specification)
      SessionInitProofs
    TelemetryProvider      process-wide telemetry under its mutex
      TelemetryProviderProofs
    ConnectionPool         the pool of the pool example over sessions that break
      PoolRounds           its main and rounds of requests, extends ConnectionPool
        PoolRoundsProofs   about both
    MC<module>             the instance TLC checks (model values, sets, symmetry)

`avatar_session.go` is split by what its methods share, because the four
concerns interact only through calls: lifecycle (the connection), requests (ids
and the encoder), the dispatcher, and telemetry. A method that touches several
appears in each module with the part that concerns its state, and the other
parts appear as outcomes (a write fails, a loop ends) that the module owning them
shows to be possible.

### AvatarSession

One process for the user, one per read loop. A program counter marks the points
of a method at which another goroutine can run, which are the loads and stores of
`s.conn` (`awaitServerConfirmSession` has four of them: the check, the read deadline, the receiver of the
deferred call that disarms it, the read) and the beginning and end of websocket calls. `conn` is
the socket held by `s.conn`, `local`/`peer` the two ends of every socket,
`deadline` the read deadline of the handshake, `writeErr` the library's sticky write
error, `cancelled` the loop's context, `reported` and `onClose` what was
dispatched. `LoadsNil` is the panic of a method call on `s.conn` after another goroutine cleared
it, `WriteCollides` the library's panic on concurrent writers, `ReadRaces` two
readers of one connection. The history variable `overlapped` says that the user
called Start while an earlier read loop was running, and `TakenOver` that such a loop has then met the end
of its own connection: it would clear `s.conn` under the new socket. After a panic nothing moves: a Go panic in any goroutine ends the program.
Messages have no contents here; a write succeeds, fails, or does not return as long as the server
keeps the connection and reads nothing (`Blocked`).
One goroutine at a time calls the session (the SDK documents no other use); the read
loops run beside it.

### AudioRequest

The methods as one caller sees them, each call one action with its
early returns as separate actions (`SendBuffers`, `SendEncodeFails`, `SendWritten`,
`SendFails`, `InterruptFails`). A page is a record of the encoder that made it, its
number and its end flag, so a property can say whether the pages of a request are
one stream. `wire` is what reached the websocket, `notified` what
`OnEncodedAudio` got. Read loops do not touch this state. The history variable
`crossed` says that the user has interrupted, closed or restarted before the last
audio of a request.

### CallbackDispatcher, OrderedDelivery

`mu` is the holder of the mutex, `waiting` is true while the goroutine is
registered on the condition variable; Signal moves it back to contending for the
mutex. Each locked section is one action, with locking and unlocking visible
to other processes. `OrderedDelivery` states the promise: accepted callbacks
are delivered in order, none is accepted after Finish, the queue is drained
before End, and delivery eventually happens. The refinement mapping is the
accepted = delivered plus the queue, open = not closed, ended = the run
goroutine has left.

### SessionTelemetry

The table `requestTelemetry` and its three clients: the sender, the read loop and
any Close. `Take` is the locked removal, `End` ends the span outside the lock; between
them the goroutine holds the span (`held`). `CheckSpan`/`InsertSpan` are the two
halves of `startRequestTelemetry`; `Snapshot`, `Each` and `EachDone` are the loop of Close
over the ids it copied under the lock. The several histograms of a request are
recorded together with `End`.

### OggOpusEncoder

`Encode` as its loops: each frame, each padding frame and the final page is one
action. The PCM buffer is its length, a page is (granule, sequence number, first,
last). Granules are counted in ticks of 48 kHz (`SampleScale` of them per sample).
libopus encodes a frame or refuses it (`QueueFails`): the call
returns the error, what it had written is not handed to the caller, the frame is gone and the rest of the
PCM waits; the session keeps the encoder, and later calls go on from there, a second call with `end`
included. `pages` is everything written (the code's `encodedOutput`, which becomes `CompletedStream`);
the history variables `lost`, `audioEnd` and `ending` count the refused samples, place the last audio, and say whether audio
came after a failed end. The pending packet (one packet is held back so
that the last page can be marked) is `pendingPacket` with its granule.

### SessionInit

Sessions and Prewarms run step by step over `regionCache`, `tokenCache` and
`now`. A process is at a step that calls a server, or at one that reads or writes a
cache under its mutex; time passes in between. An endpoint is named by the
region it is composed from, or is the caller's own. A server answers or fails (errors, bad
bodies and timeouts are one failure), and may answer "auto", which the code takes for a region. All calls use one API key and app, so the key
of a cached token is its console endpoint. TLS warm-up, which
keeps no state, is left out, and so is Prewarm's panic recovery.

### TokenCache

The abstract specification of the process-wide token cache: the map `live` from a console endpoint to
its usable token. A session whose endpoint has a usable token takes it, another one fetches its own; a token is
stored over the one before it, and time removes it when it is too near its expiry. SessionInit implements it under the
mapping `live` = the usable entries of `tokenCache` (the code deletes a stale entry only when it meets it),
`fetching` = the sessions at the step "fetching", `endpoint` = the session's console endpoint once it is
resolved. Resolution, the region cache and failing servers become stutters.

### TelemetryProvider

Users perform the sequences of telemetry operations that Init, Start and Prewarm
make (`CallsOf`); an administrator calls ConfigureTelemetry, ForceFlushTelemetry and
ShutdownTelemetry. Each locked section is one action; creating a histogram
holds the mutex across two steps; flush and shutdown copy the providers
under the lock and call them outside it. `startSpan` and `recordMetric` copy the tracer or the histogram under the mutex
(`CopyTracer`, `CopyHistogram`) and use it after the unlock (`StartSpan`, `RecordMetric`): `copied` and `span` are what a user holds
meanwhile, and `late` (history) says that a shutdown took the providers since. A state in which somebody has work left and
nobody can move is a deadlock, which TLC reports (`Rest` is the only way to stop). `made` records each provider's endpoint and
resource, `down` the providers that were shut down.

### ConnectionPool

Workers borrow, send, wait and return; the pool is the Go channel (`available`, with
`channel` saying whether it is closed). Main creates the connections before any worker runs, so `Initialize` is one step.

A collector is its frames, last flag, error, its channel `done` and its `sync.Once` with the mutex inside of it (`once`,
`lock`). A callback of it is as many steps as it has locked sections and unlocked reads: `stage` says, for a connection and
each goroutine that may run its callbacks (the dispatcher's worker, the OnClose goroutine of the read loop's Close, the
one of the pool's Close), how far it is. `onError` looks at the error without the lock (`Deliver`), sets it under the
lock (`OnErrorSets`) and calls `finish`; `transportFrame` appends under the lock (`Deliver`) and calls `finish`; `onClose` looks at
the last flag and then at the error (`OnCloseRuns`, `OnCloseAsks`); `finish` sets the error (`FinishSets`) and calls the Once, which
locks its mutex, closes `done`, marks itself and unlocks (`Finish`, `FinishCloses`, `FinishUnlocks`). `reset` is three steps, and
the third replaces the Once with its mutex. So a callback and the next request's `reset` overlap in every way, and
the model has what follows in the code:

- two callbacks close the same channel, and the program panics;
- `reset` replaces the Once while a callback is inside it: "unlock of unlocked mutex", a fatal error, on a
  connection that is healthy (the last frame's callback has closed `done`, its request returned the connection, and the
  next borrower is faster than the callback's unlock);
- the error of a break is set, `reset` clears it, and the callback then closes the next request's channel: that
  request succeeds with no frame at all, nothing cancelled;
- `onError` and `onClose` set the error of the previous request in the collector of the next one, which fails.

`wait` is the select, then the error under the lock (`Wait`, `WaitReads`). A session is reduced to what AvatarSession shows
of it: a queue of callbacks that are delivered in order, a break that reports an error, a Close that starts OnClose unless the close
message cannot be written (`reader = "silent"`: the read loop ended and started none). A normal close by the server is not
repeated here: session_no_onclose shows what follows from it. Two history variables
record what the caller did: `cancelled`, the connections that a request with an expired
context gave back, and `rushed`, that Close was called while requests were running.

### PoolRounds

`main` over the pool: initialize (and exit if no connection came up), launch a goroutine per request, collect results until
the goroutine that waits for the group closes `results`, next round, close the pool. `task` is where a
request's goroutine is between `processAudioRequest`, sending its result and `wg.Done`; the two are
separate steps, after the deferred `Return`. Main's context has no timeout, so its requests are never
cancelled, and a request hangs whose connection broke before it and whose read loop then could not write its close
message: `Rest` names that state (a worker in `wait`, `reader = "silent"`), and any other state of main without a step is a deadlock TLC reports. Beside main, the module keeps
"any other program" (`program = "other"`), which cancels requests, or closes the pool when it likes.
`OtherNext` bounds it: in one behaviour it cancels requests or closes the pool under one, not both.

### ClipRequest

The programs that use one session: the two one-shot examples, and any other (`program = "other"`), which makes
the session's calls in whatever order and number AvatarSession allows. The module extends AvatarSession: it adds its variables to the
session's, and its actions make the session's steps or leave the session alone. `step` is where the program is; the service goes through `GiveUp`, the deferred `Close` and `cancel`
on every path after the session was made, the clip program exits at its first error. The
dispatcher's worker, a goroutine per `OnClose` and the read loop run the collector's
callbacks, at the grain of its locked sections; `finish` is one step, because what it does between
its error and its `Once` is seen by nobody else. A panic stops the whole model: net/http recovers one
in a handler, but not one in the read loop's goroutine. What callers see beside the
properties: a complete answer may still be reported as a failure when `OnClose` overtakes the
queued last frame, or when an error comes between `done` and the read of `c.err`. The failure of
the id generator, before any I/O, is a refusal in `CallsStart` and in `CallsSendAudio` (`NoRequestId`). What remains
unanswered is named by `Unanswered`: a write that the server blocks, and the panic of `SendAudio` or `Close` on
a session that a broken connection's read loop cleared.

## 3. Runs

Run one with `tlc -workers 2 -config X.cfg MCModule`. Passing runs:

| Run | What it asks | Instance |
|---|---|---|
| `audio_request` | `NothingAfterEnd` for every user; `StreamContinuous` and `CallbackMatchesWire` for a user who crosses no request: one request is one stream, whatever breaks | 2 requests, 2 connections, 4 messages, 2 pages per call |
| `dispatcher` | `NoLostWakeup`, `CallersReturn` (also when a callback never returns), and that the dispatcher implements `OrderedDelivery`, safety (`ImplementsDelivery`) and progress (`DeliveryGoesOn`) | 2 goroutines that dispatch twice each, one that stops |
| `session_telemetry` | `SpansAccounted` (each span ends at most once and is never lost), `CloseCompletes` (Close leaves no span open and the session's duration recorded) | 2 Starts, 2 requests, 3 spans, 2 Closes |
| `ogg_opus_encoder` | `WellFormed` (page numbers and flags, granules, no packet missing), `PlaysExactly` (the stream plays for the samples given less those in refused frames, with less than a frame to trim, and no audio cut unless some came after a failed end), `EncodeReturns`; libopus refuses any frame, and calls go on | frames of 3 samples, pre-skip 4, 20 samples cut in every way |
| `session_init` | `ImplementsTokenCache` (see TokenCache), `EndpointsAgree`, `RegionIsKnown` (what skips the bootstrap API is recent, what follows its failure was given before) | a session and a Prewarm, called twice each, 4 configurations, 3 ticks |
| `telemetry_provider` | `InUseIsCurrent` (what telemetryState names is up and has the configured endpoint and the resource of its making, and so has what a goroutine copied, unless a shutdown came since), `NoProviderLost`, no deadlock | 2 calls, 2 administrative calls, 2 endpoints, 2 generations of providers |
| `pool_rounds` | `Exclusive` (a connection is in one place, and in one until the pool closes), `WaitersWoken` (however callbacks overlap `reset`, a waiting request has somebody to wake it, unless its read loop is closing or silent), `ChannelSafe` (main sends nothing to the closed channel, each round counts all its results), `OwnFrames` (a success has its own frames, or after a break none), no deadlock but the known hang | 2 workers, 2 rounds, 2 requests of 1 frame and a last one, a connection that breaks; main and any other program (1.8 million states) |
| `clip_request` | Of the session, under any program: `SocketOwned` and `CloseCleansUp` (no websocket is left behind on any path), `PanicNeedsTeardown` (a nil `s.conn` is dereferenced only after a read loop began to tear a broken session down), `TeardownHasCause` (the handshake's read deadline never kills a healthy session), `OtherCallsReturn` and `OtherBreakReported` (nobody hangs but in a blocked write, no break is silent). Of the examples: `SuccessIsComplete`, `FailureHasCause`, `RequestEnds` | 2 websockets, one Close of the user and one of each read loop; an answer of 2 frames |

Each module's type invariant (`TypeOK`; `RoundsTypeOK` for PoolRounds, `ClipTypeOK` for ClipRequest) is checked with it.

### Runs that end in a counterexample

Four statements of the repository do not hold of the code. Each has a run in which TLC
finds the violation.

- `session_send_panic` (`SendReturnsError`). `SendAudio` checks `s.conn` at line 492 and
  uses it at 557. A read loop whose connection broke runs `Close` in between, and the
  call panics instead of returning the error the tests expect.
- `session_no_onclose` (`OnCloseEventually`). When the server closes normally, or the close
  message cannot be written, the session is over and `OnClose` never runs.
- `audio_stream_broken` (`OneStreamPerRequest`). `Interrupt` clears the request id and keeps
  the encoder: the next request starts in the middle of the old Ogg stream.
- `session_init_auto` (`RegionNeverBlocks`). `bootstrap.go` says that region scheduling never blocks
  session initialization and that the resolved region is never "auto". When the bootstrap API answers
  "auto", the code takes and caches it, no endpoint is derived, and Init fails. `AutoIsTheOnlyWay` (section 4)
  proves that nothing else leads there.

Some behaviours of the code are in the models without a run of their own, because the
properties are stated for what remains true:

- the user's `Close` and the read loop's may both start `OnClose` (`onClose` counts);
- a user who restarts a session while an old read loop runs may lose a socket: the
  loop's Close sets `s.conn` to nil after the new connection was stored (the exception `TakenOver` in
  `SocketOwned` and `CloseCleansUp`; that loop may also disturb the new handshake's reads, which is why
  `TeardownHasCause` is about users who wait);
- a server that stops reading blocks SendAudio, Close and the handshake for good, whatever
  timeout their context has (the exception `Blocked` in `CallsReturn` and `RequestEnds`);
- a request whose telemetry ended early gets a second span with its next chunk;
- an error of libopus loses a frame, and the payloads handed to the caller lack the pages of the failed call,
  although `CompletedStream` has them;
- a span or metric whose goroutine copied its tracer or histogram before a shutdown is
  lost (the exception `late` in `InUseIsCurrent`);
- Prewarm's span, or the metric of a failed bootstrap, creates the telemetry providers before the resource context
  is set, and the context is then ignored, although `telemetry.go` says it is set "before providers are
  initialized" (`InUseIsCurrent` claims only that the resource kept is the one they were made with);
- a token that the server refuses with 401 stays in the cache until it is near its expiry;
- a prefetched token keeps the expiry Prewarm asked for, and Start does not look at the
  margin again;
- in the pool example, what section 2 lists under ConnectionPool: the double close and the fatal unlock (panics, after which
  nothing is promised), and the success with no frame after a break (the exception in `OwnFrames`); a
  cancelled wait gives back a connection on which the server still answers (the
  exception for `cancelled` in `OwnFrames`); Close during requests panics (the exception in `ChannelSafe`);
  a request whose break was reset away waits forever when no OnClose comes (the exception in
  `WaitersWoken`), since `requestTimeout` is unused.

### Bounds, and why they are enough

Every bound is a constant named `Max...` and stands in the guard of the action it limits.

- Lifecycle: two websockets let a stale read loop, the second Start and the Closes of the
  user and of both loops meet; the races are between one caller and the read loops.
- Audio: four messages are two per request, enough for a broken, an interrupted and
  a completed stream; two pages per call separate "payload" from "stream".
- Dispatcher: two callers compete for the mutex; two callbacks each show order.
- Session telemetry: three spans over two requests give one request a second span.
- Encoder: three samples per frame and a pre-skip of four put the end of the audio before, on
  and after each frame boundary and make zero, one and several padding frames
  necessary; the theorems hold for every size.
- Clip: two frames tell a frame from the last one. The one-shot programs make one session and one Close;
  the second websocket is for the other program.
- Init: three ticks with a TTL of 2 and a margin of 1 make entries fresh, stale and about
  to lapse; two calls let an Init follow a failed one.
- Telemetry providers: two generations show a stale histogram and a stale provider.
- Pool: the collectors of two connections share nothing, so one connection with two
  workers shows the contention and a callback of the first request overlapping the reset of the second; two requests sent, of
  up to four made over two rounds, let a connection be reused after a
  cancelled one, and a round follow one whose requests failed. `OtherNext` keeps cancelled requests and a
  Close under requests apart, because each has its exception in a different property. The workers are symmetric (no liveness is checked there).

`CHECK_DEADLOCK FALSE` is set for SessionInit (both of its runs) and ClipRequest, whose programs make a bounded number of calls
and end. Elsewhere a `Rest` action marks where the system may stop, and any other stop is reported.

### Fairness

- AvatarSession: weak fairness of the running call (`UserStep` does not force a call to
  begin) and of each read loop, except inside a write that the server may block (`Blocked`): goroutines are scheduled, a dial ends (the
  dialer has a timeout), a read with an armed deadline ends, `Close` of a connection ends. No write has a
  deadline, so none is assumed to end while the connection is up; it ends when the connection fails or is closed under it. Nothing is
  assumed of the server.
- CallbackDispatcher: weak fairness of each goroutine's steps and strong fairness of acquiring
  the mutex (Go's mutex goes into starvation mode and hands over to the longest
  waiter). Nobody has to dispatch or stop. That callbacks return is an assumption inside the
  properties that need it, and `CallersReturn` does without it.
- OggOpusEncoder: weak fairness of the loop.
- ClipRequest: the same for the program and the read loops (a blocked write is not assumed to end), weak fairness of
  the worker and each OnClose goroutine, whose callbacks are the collector's and block nowhere, and
  of `ContextDone`, the 45 seconds of the request's context.

The other modules check safety only, over `Spec`.

## 4. Proofs

Each `...Proofs` module holds the theorems about one module, for every value of its constants
(`ClipRequestProofs` and `PoolRoundsProofs` about the module they extend, too). Every safety property of every
passing run, invariant, action property or refinement, is the statement of a theorem.

| Theorem | Says |
|---|---|
| ClipRequestProofs, of AvatarSession: `TypeCorrect`, `PanicOnlyInTeardown`, `SocketsOwned`, `ClosesClean`, `TeardownsHaveCause` | `TypeOK`, `PanicNeedsTeardown` and `SocketOwned` are invariants, `CloseCleansUp` and `TeardownHasCause` hold of every step, for any number of Starts and Closes, restarts under a running read loop included (with the exceptions section 3 names) |
| ClipRequestProofs, of ClipRequest: `ClipUsesSession`, `ClipTypeCorrect`, `SuccessesAreComplete`, `FailuresHaveCause`, `ReturnsClean` | every behaviour of the programs, the other one included, is one of AvatarSession; `ClipTypeOK`, `SuccessIsComplete`, `FailureHasCause`, for an answer of any length; a handler that has returned has no websocket open |
| CallbackDispatcherProofs: `TypeCorrect`, `WakeupsKept`, `DispatcherRefines` | `TypeOK`, `NoLostWakeup`, and the dispatcher implements OrderedDelivery |
| SessionTelemetryProofs: `TypeCorrect`, `SpansAreAccounted`, `ClosesComplete` | `TypeOK` and `SpansAccounted` are invariants, and `CloseCompletes` holds of every step |
| AudioRequestProofs: `TypeCorrect`, `RequestsEnd`, `StreamsContinue`, `CallbacksMatch` | `TypeOK`, `NothingAfterEnd`, and, while the user crosses no request, `StreamContinuous` and `CallbackMatchesWire` |
| OggOpusEncoderProofs: `TypeCorrect`, `StreamWellFormed`, `PlaybackIsExact`, `EncodeIsBounded`, `ParametersExact` | `TypeOK`, `WellFormed` and `PlaysExactly`, for every frame size, scale and pre-skip, any number of libopus errors and of calls after them; a call takes at most `Remaining` steps, which each step lowers; the sample rates and frame durations that the code accepts give whole sizes that meet the assumptions |
| SessionInitProofs: `TypeCorrect`, `EndpointsKept`, `AutoIsTheOnlyWay`, `RegionsKnown`, `TokenCacheRefined`, `TokensSound` | `TypeOK`, `EndpointsAgree`, `RegionIsKnown`; an Init that ends without an endpoint got the answer "auto"; and SessionInit implements TokenCache; hence what is handed out is usable and of its own endpoint, and a session holds no other's token |
| TelemetryProviderProofs: `TypeCorrect`, `UseIsCurrent`, `ProvidersKept` | `TypeOK`, `InUseIsCurrent`, `NoProviderLost`, for any number of administrators at once (TLC has one) |
| PoolRoundsProofs: `TypeCorrect`, `RoundsUseThePool`, `ConnectionsExclusive`, `WaitersAreWoken`, `ChannelIsSafe`, `FramesAreOwn` | `RoundsTypeOK`; PoolRounds implements ConnectionPool; `Exclusive`, `WaitersWoken`, `ChannelSafe`, `OwnFrames`, for any workers, connections and rounds |

Assumptions: the named ASSUMEs of the modules (bounds are naturals, the process names
differ, frame size and scale are positive, workers and connections are finite sets), all evaluated by TLC.

How they go:

- *Panics.* `PanicNeedsTeardown` alone is not inductive. `PanicInv` adds who may have cleared `s.conn`:
  a process that is past the nil check and has not finished (`CheckHolds`) still finds
  a connection unless some loop has reported an error; and a process in Close or in a write
  is the user or a loop that has reported.
- *Sockets.* For a user who waits for the old read loop, `OwnInv` says that the newest socket is the only one that may be open
  (`NewestOpen`), that `s.conn` is nil or the newest (`ConnNewest`), that while the user is in
  Start no loop is at work (`StartAlone`), and that `s.conn` is cleared only after the socket was closed
  (`ClearAfterShut`). For every user, `KeptInv` says the same of each socket that no other socket's loop has
  had a reason to take over (`Alone`): open, it is in `s.conn`, and nobody is about to clear it (`Kept`).
- *Close.* The action property `CloseCleansUp` adds that no socket is open when the user is about to notify
  (`NotifyInv`, or `Kept` after a restart): Close gets there with a nil `s.conn` or after a close, and only a dial opens one.
- *Teardown.* A read deadline is armed only while the user is in the handshake (`DeadlineInHandshake`, which needs that the two loads
  of `s.conn` for arming and disarming find the same socket), and one loop
  at a time is at work (`OneLoop`), so no second reader breaks a read: what is left is a closed socket or a failed peer.
- *One-shot programs.* Each step of the program is a step or a stutter of AvatarSession (`SessionStep`), so all of the above holds
  under it; `CallsMatch` ties the program's step to the session's program counter. *Success*: the frames in the
  collector and in the queue are 1 to `arrived`, in order (`InOrder`), and whoever closes the channel without an error has seen the last one collected
  (`EndsAfterLast`). *Failure*: as long as there is no cause, nothing has failed (`NoFailure`), the connection is the open one
  (`Connected`) and the read loop reads (`Reading`); a step that would fail the request needs the opposite of one of them.
  *Return*: the handler gets to its end from the refusal before any dial (`FirstStart`), or from Close, as in the proof of `CloseCleansUp`.
- *Dispatcher.* `NoLostWakeup` needs that the goroutine is in the wait set exactly while it sleeps (`WaitSet`),
  and the refinement that a caller inside `dispatch` has a callback (`HasCallback`). The refinement is by step simulation:
  appending is Accept, taking is Deliver, leaving is End, stop is Finish, the rest stutters.
- *Telemetry.* `Places`: a span that has not ended is in exactly one place, the table or one goroutine's
  hands. It follows that it ends once and is not lost. For `CloseCompletes` only the user adds entries, so during the
  user's Close what is in the table is still on its list (`ClearsTable`); and the flag that stops a second
  duration metric is set after the first one is recorded, by either Close (`FirstRecorded`).
- *Audio.* An open request is the current one (`CurrentIsOpen`), so nothing is written under another id. While a write can
  succeed, the pages on the wire end where the encoder's output ends (`Joint`, `EncoderOnWire`): the next pages continue them. For the
  callback, the encoder's output is numbered from 0 (`PagesInPlace`) and has the pages written for the current request and no others
  (`EncoderWritten`); a stream that was handed on belongs to a request that is not current any more (`CallsEnded`), so what was written for it stays.
- *Encoder.* The invariant follows the encoder's phases: while audio flows (`Flowing`) the granule of the pending packet
  is the encoded samples in ticks, and what was given is encoded, buffered or lost; between calls the encoder is behind the final granule
  (`Behind`), also after a call that failed while padding; at the end, padding stops at the first frame that covers the
  final granule, hence the trim is shorter than a frame. `Remaining` bounds the steps of a call: what is missing at the final granule
  never exceeds the pre-skip, and each padding frame lowers it.
- *Init.* `Endpoints` says of each call what it may have by now (its own, or composed of one region); `Region`
  ties what the cache holds to what the API answered, and a call without endpoint to an "auto" answer. The
  refinement is a step simulation under the mapping of section 2; `Asked` gives each fetch an endpoint. `TokensSound`
  is then proved from TokenCache alone.
- *Telemetry providers.* Nothing is in use before the first attempt (`Fresh`), and what is being shut down
  is no longer in use (`Apart`), so a provider is always in use, in somebody's hands, or down. What a user copied is
  of a current provider (`Sound`) until a shutdown marks it late: no other operation clears a provider.
- *Pool.* RoundsNext implies Next, so everything is proved of ConnectionPool and lifted. A worker has a connection
  exactly between Receive and the end of Return (`HoldsIts`), which with the state of the pool (`Places`) makes
  `Exclusive` inductive; hence another worker's reset touches another collector.
  *Wake-ups*: `WaitersWoken` needs what the request finds after its reset. Its collector is armed
  (`Armed`): if the Once is spent or its mutex is held, then `done` is closed or some callback is about to close it; so the next
  callback that calls the Once wakes the request (`Wakeable`), whatever steps of older callbacks came between those of
  `reset`. And something will call it (`Ending`): the server's answer, a queued callback or a running one, the OnClose of an ended
  read loop included, unless that loop is silent. `Unused` keeps OnClose goroutines from running twice.
  *Frames* need the order of the server's answers (`Served`): while a worker waits on a connection that no cancelled request gave back, every frame queued or collected is
  of its request, a last frame or an error (`Ends`) is followed by at most the errors of a read loop that stopped (`Serving`), and whoever
  finishes the collector has its last frame or its error (`Answering`). A connection that nobody waits on while its session is open is
  settled (`Settled`): no frame of an earlier request is on its way, and a callback that is still to finish belongs to a break. On a connection that broke before
  the reset nothing answers (`Unheard`), which is the exception of `OwnFrames`.
  *Main*: the results collected, in the channel and unsent add up
  to the workers (`Counted`), and a worker without a request is outside the pool (`Orderly`).

Only model-checked: the liveness properties (`OtherCallsReturn`, `OtherBreakReported`, `CallersReturn`, `DeliveryGoesOn`, `EncodeReturns`,
`RequestEnds`) and the absence of deadlock, since liveness under fairness and ENABLED are out of the prover's reach. `EncodeIsBounded` and
`ReturnsClean` are the safety in two of them. `CallbackMatchesWire` compares sets of numbered pages, not
flattened sequences, because induction over data is out of reach as well; with `StreamContinuous` the two say the same.

## 5. Not modelled

- Option setters, error tables, log ids: pure or a single assignment; unit tests enumerate them.
- The handshake's message and the egress settings: a function of the configuration, whose outcome
  (accepted, refused, no answer) is a choice in AvatarSession.
- The protobuf code: generated. Ogg page bytes, CRC and lacing: a byte-level format; the models keep what
  decides playback (order, numbering, granules, flags).
- The shared HTTP client, the dialer and the TLS warm-up: I/O without state of the SDK.
- Of the HTTP service, listening, CORS, the health check and JSON; of the clip program, files and flags: no state
  is shared there.

## 6. Plan

Done: the inventory, the modules of section 2 and their runs, two abstract specifications with their refinements
(OrderedDelivery, TokenCache), two compositions (ClipRequest over AvatarSession, PoolRounds over ConnectionPool), and
proofs of every safety property the passing runs check.

Next, in this order:

1. Liveness of the pool (a request whose connection lives ends), in a run without symmetry.
2. Main's pool with several connections, checked with fewer requests (the theorems cover any number of them).
3. Bounds like `Remaining` for the loops of Close and of the dispatcher.
