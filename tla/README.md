# desire in TLA+

A verification development for [desire](https://github.com/desire-rs/desire), a
web framework in Rust on top of hyper and tokio. It models what is hard to test
in the framework: the accept loop and graceful shutdown, the request body that
handlers share, the middleware chain with everything that may cut it short, the
websocket handshake that leaves a task behind while its answer is still in that
chain, the delivery of server-sent events, static files that change while they
are served, and the way applications are assembled from routers. Line numbers
refer to the files under `src/src/`.

## 1. Inventory

| Part (files) | State it keeps | Operations | Talks to |
|---|---|---|---|
| **Server** (`server.rs`) | `Server` struct, semaphore permits, watchers of hyper-util's `GracefulShutdown`, one tokio task per connection | `run`: bind, accept, acquire, spawn, drain; `serve_connection` | hyper serves each connection and calls `dispatch`; a websocket leaves it through hyper's upgrade |
| **Request body** (`context.rs`, `body.rs`) | `BodySlot {inner, cache, limit}` behind a mutex in each `Context` | `body_bytes`, `json`, `form`, `body_text`, `form_data`, `body_stream`, `set_body_limit`; `Bounded` frames | hyper delivers frames; `body_limit` (middleware) changes the limit |
| **Dispatch and middleware** (`app.rs` dispatch, `middleware.rs`, `handler.rs`) | the nested futures of the chain, the index of `Next`, the result on its way back | `Next::run`, `logger`, `timeout`, `cors`, `gzip`, `body_limit`, 405, HEAD derivation | error rendering, cookie jar, the handlers |
| **Cookies** (`app.rs` CookieJar, `context.rs`) | `queue` behind a mutex, `non_empty` flag | `set_cookie`, `remove_cookie`, `apply` | written by handlers and tasks they spawn, read by dispatch |
| **Errors and responses** (`error.rs`, `resp.rs`, `response.rs`, `into_response.rs`) | none | status of an error, envelope, sanitizing, logging of causes | every handler and middleware result |
| **Router and builder** (`router.rs`, `app.rs` builder) | `Router {routes, middlewares}`, `App {router, global}`, method tables | `at`, `route`, `with`, `nest`, `merge`, `build` | `build` gives the flat routes that dispatch matches |
| **WebSocket** (`ws.rs`, `context.rs` `websocket`) | the upgraded connection in a task of its own | handshake, `on_upgrade` | server (permit, watcher), timeout |
| **TLS** (`tls.rs`) | configuration | handshake | server |
| **Server-sent events** (`sse.rs`) | `KeepAliveMerge`: events and a ticker | `poll_next`, `render` | the response body that hyper polls |
| **Static files** (`fs.rs`) | none; the file system changes beside it | `ServeDir`, `ServeFile`: resolve, conditional and range requests | handlers of the chain that return `Err` |
| **State, extensions** (`state.rs`) | typed map, read-only once built | `state`, `extension` | handlers |
| **Parsing helpers** (`context.rs`, `form.rs`, `types.rs`) | none | params, query, forms, multipart | request body |
| **OpenAPI** (`openapi.rs`), **test client** (`test.rs`), **examples** | none of their own | | router, dispatch |

### What is hard, and what would make each part correct

* **Server.** Three things run at once: the `select!` between accept and the
  shutdown future, the semaphore, and the tasks, which end in many ways (answer,
  panic, failed handshake, upgrade, client gone, the shutdown signal). Correct:
  permits are conserved however a task ends; nobody is let in above the limit or
  after the drain began; an accepted connection is not dropped; `run` returns
  only when no task is left, and it does return.
* **Request body.** `body_bytes` locks, takes the body, unlocks, *awaits*, and
  locks again. Extractors may be joined, raced or cancelled in between. Correct:
  one consumer; a limit that is exact for every chunking; nobody ever gets part
  of a body as if it were all; what is cached is the whole body.
* **Dispatch.** Any frame of the chain may answer early, fail, panic, wait for
  ever, or be dropped by a deadline outside it. Correct: no guard is skipped;
  cookies, CORS headers, encoding and the log line fit the answer that is really
  sent; a timeout bounds the request.
* **Errors and responses.** An error may be rendered by a handler, by any frame of
  the chain or by `dispatch`; a tuple or `with_status` may put any status over an
  envelope, and the application may fill in one of its own with any code.
  Correct: an error is rendered once, into an envelope with that error's code
  whatever the status over it, and nothing in it about a failure of the server.
* **WebSocket.** The `OnUpgrade` is parked in a `Context` that tasks share, and
  `on_upgrade` spawns its task before the 101 has passed the chain. Correct: one
  caller gets the upgrade; a client that was told of the switch has the task that
  serves it, and is served.
* **Server-sent events.** Events, ticks, the end and a failure can be ready in the
  same poll; the client may be slow; three parties may hold the waker. Correct:
  events arrive in order and completely, comments never get in their way, the
  task is woken whenever it has something to do, an idle stream is kept alive,
  and the listener hears what the application built.
* **Static files.** The handler asks the file system several times for one answer,
  and the client asks again with the validators it was given. Correct: a 304 is
  true as long as the file only gets newer, and by tag also after a rollback, for
  a copy that was read in one piece with its tag; a range is answered as it was
  asked; headers and body belong together unless the file changed under the
  answer.
* **Router.** Calls come in any order and nesting. Correct: a route's chain
  depends on the grouping alone; no route is lost or shadowed; `Allow` agrees
  with what is served.

Every hazard is listed at its line in `PROJECT.json` with the properties about it.

## 2. Modules

| Module | Models | Extends / uses |
|---|---|---|
| `ConnectionGate` | what `run` promises: a gate that admits under a limit, drains and stops | |
| `Server` | `server.rs`: the loop, semaphore, tasks, watchers, signal | instance of `ConnectionGate` |
| `Server_proofs` | its theorems | `Server`, `TLAPS` |
| `OnceBody` | what a body is to its extractors: taken once, kept or lost for good | |
| `RequestBody` | `BodySlot`, the readers, `Bounded`, streams | instance of `OnceBody` |
| `RequestBody_proofs` | its theorems | `RequestBody`, `TLAPS` |
| `Errors` | the variants of `Error`: status, code, message, envelope | |
| `Responses` | what a handler may return and the response it becomes | extends `Errors` |
| `Dispatch` | `dispatch`, `Next`, logger, timeout, cors, gzip, handlers, where errors are rendered, cookie jar | extends `Responses` |
| `Dispatch_proofs` | its theorems | `Dispatch`, `SetInduction`, `TLAPS` |
| `WebSocketUpgrade` | `Context::websocket`, `on_upgrade` and its task, below the chain | extends `Dispatch` |
| `WebSocketUpgrade_proofs` | its theorems, and that those of `Dispatch` still hold | `WebSocketUpgrade`, `Dispatch_proofs` |
| `EventDelivery` | what a stream of events promises its client | |
| `EventStream` | `KeepAliveMerge` and `EventStream` of `sse.rs`, the interval, hyper's polling | instance of `EventDelivery` |
| `EventFormat` | `Event`'s builder, `render`, and an EventSource reading the lines | |
| `EventSource` | a stream whose events have content | extends `EventStream`, `EventFormat` |
| `EventStream_proofs` | the theorems of these three | `EventSource`, `SetInduction`, `TLAPS` |
| `Routing` | method tables, routers, `nest`, `merge`, `with`, `build` | |
| `Routing_proofs` | its theorems | `Routing`, `SetInduction`, `TLAPS` |
| `StaticFile` | `ServeDir`, `ServeFile`, `file_response`, `parse_range`, beside a file system that changes | |
| `StaticFile_proofs` | its theorems | `StaticFile`, `TLAPS` |
| `SetInduction` | induction over numbers and sequences, and what a fold does, as lemmas about sets | `TLAPS` |
| `MCServer`, `MCRequestBody`, `MCRouting`, `MCStaticFile` | instances for TLC | the module of that name |
| `MCDispatch`, `MCEventStream` | instances for TLC | `WebSocketUpgrade`, `EventSource` |

`PROJECT.json` maps each definition to its lines. Definitions introduced by "A
bug:" are not part of `Next`; each is a plausible mistake in the definition that
follows it, and some property is violated when it takes that definition's place.

### Server

| Code | Model |
|---|---|
| position of `run` (`server.rs:120-198`) | `loop`: `bind`, `select`, `permit` (awaiting `acquire_owned` *inside* the accept arm), `draining`, `stopped`, `failed` |
| the semaphore, `OwnedSemaphorePermit` | `permits`, `holding` |
| `graceful.watcher()`, the watched connections | `watchers`, and `told` for those that have seen the signal |
| a connection and its task | `conn[c]`: from the kernel's backlog through handshake, first head, busy and idle to closed or `ws` |
| end of `serve_connection` in any way | `EndTask`, which drops permit and watcher together, as dropping the future does |
| hyper's reaction to `graceful_shutdown` | `SeeSignal`: idle connections close, others lose keep-alive |

A connection is HTTP/1.1 with one request at a time. HTTP/2 streams of one
connection are not told apart: for permits and drain, the connection is the unit.

### RequestBody

Each critical section of the mutex is one step, and so is each frame. Bytes are
counted, not named. `StartRead` takes `inner` with the limit of that moment,
`ReadChunk` and `RefuseChunk` are `Bounded::poll_frame`, `Store` is the second
critical section. `Cancel` is the drop of a reader's future at its only await.
A second read may start at any time, also in the middle of another one.
`body_stream` is not subject to the limit.

### Dispatch

The nested futures are a stack: `depth` frames of `Chain` are live, `Top` is the
innermost. `phase` says whether the request goes down, is in the handler, or goes
up with `res`. `Expire(i)` is a deadline: it drops every frame above `i`, be it
before, in or after the handler. The application's own middleware comes in two
kinds. A `guard` is a function, whose errors the blanket `impl`
(`middleware.rs:35`-`44`) renders as it returns. A `layer` is a type that
implements the trait `Middleware` itself: it may return an `Err`, or pass on the
one it gets, and `cors` right outside of it then skips its headers at the `?`
(`middleware.rs:168`). Both, like handlers, may wait for ever. `Abort` is a panic
in code of the application, or hyper dropping the request because the client is
gone.

What handlers return is in `Responses`: units, bare statuses, contents of several
sizes, streams, business envelopes, tuples with a status or a number in front.
`IntoResponse` is applied where the code turns a `Result` into a response,
because what `cors`, `gzip` and `logger` do depends on whether they still see an
`Err`. An envelope that the application fills in (`Resp::err`, `err_msg`) has any
of `Codes`, those of HTTP included, and its own words; `with_status` and tuples put
any of `Statuses` over it and over what an error became (`WithStatus`). The
history field `from` remembers which error a response was rendered from, because
its code and status no longer tell. `ErrorsAreSanitizedEnvelopes` is about that
error: whatever is around it, the client gets its code, and of a failure of the
server no other words than the fixed ones. Envelopes the application made are not
its business, except that nothing ever shows the text of an `io::Error`.
`CorsCoversInnerMiddleware` leaves out a `cors` with a `layer` right inside it, and
one outside of which is other middleware than `logger` and `gzip`.

A reader may not expect that `body::json` of a value serde refuses is a 200 with an
envelope of code 500 (`JsonFails`); that a number that is no status is
`Error::internal` (`BadNumber`); and that `ctx.state()` builds its
`Error::Internal` without logging (`MissingState`).

`set_cookie` is two steps, the push under the lock and the flag after it, so that
a task that outlives its handler interleaves with `CookieJar::apply`, which is
two steps as well. A cookie may not fit in a header (`fits`); `apply` passes over
it.

Left out: path patterns and parameters (one boolean, `matched`), the compression
itself (`layers` counts it), the minimum size of `gzip` (body sizes are empty,
small, large or of unknown length), header layout. `body_limit` is
`SetBodyLimit` of `RequestBody`.

### WebSocketUpgrade

`parked` is the `OnUpgrade` in the `Context`. The handler and the task it shares
the `Context` with call `Websocket`, which takes it before it looks at the
headers, and `OnUpgrade`, which adds the caller to `tasks`. The handler alone can
return the 101 (`SwitchProtocols`); from there it goes through `Dispatch`, where a
deadline, a guard or an abort may replace it. `Fulfil` and `Disappoint` are
hyper's side: the connection is handed over once a 101 was written, and the task's
future fails once it cannot be any more. That a callback is only called with a
socket after the switch is hyper's doing and no property; what the framework has
to see to is that the task is there when the 101 gets through
(`SwitchHasItsTask`), and alone (`OneUpgrade`). A handler that puts 101 over an
answer of its own is left out (`UpgradeAssumption`). What an upgraded connection
means to the permits and the drain is in `Server`.

### EventStream, EventFormat, EventSource

The connection's task polls while it is `awake` and hyper has `Room` for frames;
`waiting` says who holds its waker. `due` counts the ticks of tokio's interval
that passed and were not polled: the first is due at once, and missed ones come in
a burst, as `interval` does by default. `PollEvent`, `PollError`, `PollEnd`,
`PollTicker` and `PollPending` are the outcomes of one `poll_next`. After an error
hyper gives the connection up, and any part of what it had buffered may still go
out.

`EventFormat` builds an event by the calls of the builder, renders it to lines, and
lets an EventSource, as the HTML standard describes it, interpret them. A text is
a sequence of characters; `Characters` is what there is (the word `keep-alive`
counts as one). `render` knows the line feed alone, the client more: it removes a
space after the colon, ignores an `id` with a null in it, and ends a line at a
carriage return as well. What follows one is a line of its own, which in the model
names no field; a second one right after it is an empty line, on which the
listener is called before the event is complete (`early`). A line is `Literal` if
none of this applies to it. `HeardAsMeant` is about texts all of whose lines are
literal; for others it is false, and `event_stream_fields` shows how.
`ProgramAssumption` admits texts of several lines for `data` alone: `render` writes
the other fields as they are, and a line feed in one of them breaks the frame.

### Routing

`Route`, `With`, `Nest`, `Merge`, `WithGlobal` and `Build` are the builder calls. A
program is any sequence of them; attaching a router moves it, as in Rust. A path
is the sequence of its segments, so two patterns that match the same requests
are the same path, and `Build` panics on them as the matcher does.

### StaticFile

One client asks for one URL, keeps the last whole file under the validators it
came with (`copy`), and may ask again with its tag, its date or both, and for a
range. `Resolve`, `Metadata`, `Read` and `OpenRange` are the calls the handler
awaits; each may fail although the file is there. `Replace` and `Delete` happen
between any two of them; a change while the handler is idle is one before
`Resolve`, for nothing looks at the disk in between. A file is replaced as a whole,
as by a rename. A version is told by its modification time and its length, which
are also its tag: two versions that agree in both are one to the handler, the
client and the model. A replacement may bring any modification time, earlier ones
included, as after a rollback, `cp -p` or `rsync -t`. The history variable `steady`
says that the URL has always meant one file and each version was newer than those
before it, whose newest time is `newest`. Time is counted in ticks of which a
second has two, so that `Date`, which drops fractions, is not the identity. Which
paths are refused is not
computed: `url` says what kind of path it is. `If-None-Match: *` is left out (it
claims no copy).

What a reader might expect and does not hold:

* A 304 by date is false after a replacement by an older file: `modified <= since`
  (`fs.rs:279`) confirms any file that is not newer than the copy. So it does for
  a fallback that is older than a target that was deleted. `NotModifiedIsTrue`
  speaks of dates only while the file is `steady`.
* A body may be newer than the `ETag` it is sent with (`raced`). If the file is then
  rolled back to the version of that tag, a 304 by tag is false too;
  `NotModifiedIsTrue` leaves such copies out unless the file is `steady`. Two 206
  answers with one tag may be slices of two versions; the handler has no
  `If-Range`.
* The full comparison of `fs.rs:279` means that a date hardly ever gives a 304, but
  comparing whole seconds instead would break `NotModifiedIsTrue`.
* `partial_response` is called after the whole file has been read (`fs.rs:285`),
  though only its slice is sent.

## 3. Runs

### Passing

| Run | Question, and what it shows | Instance |
|---|---|---|
| `server` | Permits are conserved, draining is complete, accepted connections get a task, the server implements `ConnectionGate` **with** its liveness, and shutdown completes if permits keep returning | 3 clients; no limit, 1, 2; plain and TLS. 9 229 states |
| `request_body` | One consumer, an exact limit, whole bodies or none, a truthful cache, and the take-once body of `OnceBody` | 2 readers, bodies of 0 to 3 bytes in every chunking, limits 0, 1, 3 and the default 2. 6 037 states |
| `dispatch` | Cookies reach every kind of reply, encoding is as declared, an error gets its own sanitized envelope wherever it is rendered and whatever status is put over it, `cors` covers what is inside it, preflights stop there, no guard is skipped, the log line is true, a timeout bounds the request; one caller gets the upgrade, and a client that was told of the switch has the task that serves it and is served | 10 applications with chains of up to 4, 8 requests, 4 kinds of failures, codes 500 and 40001, statuses 201 and 500. 662 207 states |
| `event_stream` | Nothing is lost or overtaken on the way, no wakeup is lost, events go before comments, an idle stream is kept alive, the listener hears what was built from literal lines, and the response implements `EventDelivery` with its liveness | up to 3 events, 2 ticks waiting, 2 frames buffered; every program of up to two of twelve builder calls, and one with every field. 324 576 states |
| `routing` | Chains are onions, every route is served under a path of its own, the last registration of a method wins, `Allow` is truthful | root and 2 routers, 3 middlewares, 2 names, 3 method tables, 2 routes. 218 416 states |
| `static_file` | A 304 is true while the file only gets newer, and by tag for every copy of one version; ranges are answered as asked, bodies fit their headers unless the file changed under the answer | 5 kinds of URL, 14 `Range` headers, lengths 0 and 2, modification times 1 to 3, any replacements and deletions. 3.4 million states |

### Disagreements with the documentation

Each of these runs checks one sentence of the documentation, and TLC finds a
behaviour of the code that does not satisfy it. `PROJECT.json` quotes the lines
under "findings".

| Run | The documentation says | What the code does |
|---|---|---|
| `server_shutdown_waits` | the server shuts down once the future completes | A full server waits for a permit inside the accept arm (`server.rs:166`) and does not poll the shutdown future until one returns. If idle keep-alive clients hold the permits, that may be never |
| `server_drain_websockets` | in-flight connections drain before the process exits | `run` returns while a websocket is open. (It gave its permit back when it was upgraded, so the limit does not count it either.) |
| `body_mixed_reads` | `json`, `form` and `body_bytes` mix freely | After a read that failed, was refused or was cancelled, or beside one that is running, the next one succeeds with an empty body |
| `dispatch_cors_innermost` | `cors` adds its headers to responses | `?` skips them for an `Err`, which `cors` meets when it is the innermost middleware of a `ServeDir` or `ServeFile` route |
| `dispatch_io_unlogged` | details of `Error::Io` go to `tracing` | A sanitized 500 made from an `io::Error` is logged nowhere |
| `event_stream_fields` | the listener sees the field's text; each `data` call appends a line | `render` writes the text right after the colon (`sse.rs:110`-`122`), where a client removes one space: a text that begins with one loses it. It splits at line feeds alone, and a client cuts a text at a carriage return too |

### Bounds, and why they are enough

* **Server.** With three clients and limits of one and two, the server is full
  with someone waiting in the accept arm and someone behind it in the backlog.
  That is the most the loop distinguishes: it holds at most one accepted
  connection. Unlimited servers have three tasks in different states at once. A
  limit of 0 is legal in the code and makes the loop stop for good at its first
  connection; the runs leave it out because TLC rightly reports a deadlock, the
  theorems include it. Fewer clients suffice for the two disagreements.
* **RequestBody.** Two readers: the slot admits one owner, so one owner and one
  that comes before, during or after it are all the roles. Three bytes allow
  chunkings that stay under a limit chunk by chunk and exceed it in sum, end
  exactly at it, or exceed it at once. The disagreements need one reader.
* **Dispatch.** The ten chains put each built-in middleware inside and outside of
  the others where their order matters, with global and group parts, doubled
  `gzip` and `timeout`, and a route with its own `OPTIONS` or `HEAD`; in two of
  them a `layer` is inside of `cors`, with a guard between them and right at it.
  The requests are a page, its HEAD, an unregistered method, a preflight, an
  unknown path, a client that sends neither an acceptable origin nor accepts gzip,
  and two that ask for an upgrade, one of them not to a websocket. The failures
  are one of a client, the two that are sanitized, and one of the application with
  the code of another. Of codes and statuses one is what an error of the server
  has and one is not, so that a status over an envelope agrees with its code or
  does not. Two writers queue one cookie each: the race is between one writer and
  `apply`; the second shows that order is kept.
* **EventStream.** Three events are one more than the buffer holds, so a client
  can be behind by a full buffer with an event still ready, and ticks missed
  meanwhile. Two calls of the builder suffice for one to replace or extend the
  other; the program with every field shows that they do not disturb each
  other.
* **Routing.** With two routers besides the root a group can be nested in a group
  and both can get middleware before and after. Two routes suffice for a
  conflict; three middlewares for one at each of the three levels. The method
  tables cover derived and own HEAD, a method registered twice, and one without
  GET. Symmetry among routers, middlewares and path names is sound: all
  properties of that run are invariants and mention no particular value.
* **StaticFile.** Three times and two lengths are six versions, replaced as often
  as one likes. With two ticks a second, two of the times share a second and one
  lies on a whole second: copies, newer files, rollbacks, and races while the
  newer or the older one is fetched all occur. Ranges lie before, at and after the
  end of files of length 2 and 0. A second client would not add anything, for the
  handler keeps no state.

Deadlock is checked in every run. Extractors and clients of `RequestBody` and
`StaticFile` can always start another call; the other modules end in an explicit
`Terminated`.

### Fairness

* `Server`: tokio polls every ready task, hence weak fairness of the steps of the
  loop and of the tasks. `select!` picks among its ready arms at random
  (`server.rs:148` is not `biased`), hence **strong** fairness of `ShutdownArm`:
  it is disabled whenever the loop is inside the accept arm. Two assumptions are
  about what the code does not bound and are named: `HandlersReturn`, and
  `ClientsDoNotStall` (there is no timeout for a TLS handshake or a request
  head). Nothing is assumed of a client that keeps an idle connection.
* `Dispatch`: weak fairness of the steps that follow one another without waiting,
  of the end of a synchronous `set_cookie`, and of a timer that has expired. None
  of handlers and guards: that the request ends all the same is what
  `TimeoutBoundsRequest` says.
* `WebSocketUpgrade`: hyper hands over a connection on which it has sent a 101.
* `EventStream`: tokio polls a task that was woken, time passes, and a client that
  has not left reads. Nothing is assumed of the application, whose stream may
  fall silent.
* `RequestBody`, `Routing` and `StaticFile` have no fairness and no liveness
  properties.

## 4. Proofs

The proofs are about the modules TLC runs, unchanged, for **every** value of the
constants. Their only assumptions are the `ASSUME`s of those modules:
`ConfigAssumption` (limits are natural numbers or `NoLimit`, which is none),
`BodyAssumption` (sizes and limits are natural numbers, `NoCache` is none),
`DispatchAssumption` (applications and requests have their shape: a chain is any
sequence of middleware, failures are any errors, codes any numbers but 0, statuses
any of 100 to 999), `UpgradeAssumption` (101 is not among them),
`StreamAssumption` (bounds are natural numbers, positive for ticks and room),
`ProgramAssumption` (calls of the builder with texts over any set of characters
that has the special ones, line feeds in `data` alone), `RoutingAssumption`
(`Root` is a router, `Nobody` none and no handler, method tables are sequences of
registrations) and `FileAssumption` (lengths and times are natural numbers, a
second has at least one tick). `Conns`, `Readers`, `Routers`, `Middlewares` and
the names in paths may be any sets, infinite ones included.

| Theorem | Establishes |
|---|---|
| `Server_proofs!TypeCorrect` | `TypeOK`; in particular `permits` never goes below zero |
| `Server_proofs!PermitsConserved` | `PermitsAccountForTasks` |
| `Server_proofs!DrainIsComplete` | `DrainedMeansNoTask` |
| `Server_proofs!AcceptedIsServed` | `AcceptedIsNotAbandoned` |
| `Server_proofs!GateRefinement` | the safety half of `ConnectionGate` |
| `RequestBody_proofs!TypeCorrect` | `TypeOK`; what is left of a limit never goes below zero |
| `RequestBody_proofs!OneConsumer` | `SingleConsumer` |
| `RequestBody_proofs!LimitExact` | `LimitIsExact`, for every size, limit and chunking |
| `RequestBody_proofs!WholeBody` | `SuccessMeansWholeBody` |
| `RequestBody_proofs!WholeCache` | `CacheIsWholeBody` |
| `RequestBody_proofs!OnceRefinement` | `ImplementsOnceBody`: all of `OnceBody` |
| `Dispatch_proofs!TypeCorrect` | `TypeOK`, also of the reply and its cookies |
| `Dispatch_proofs!GuardsPassed` | `EveryGuardPassed`, in chains of any length and order |
| `Dispatch_proofs!PreflightStops` | `PreflightStopsAtCors` |
| `Dispatch_proofs!CookiesReach` | `CookiesReachTheReply` |
| `Dispatch_proofs!CookiesAreSent` | `NoCookieIsLost`, the same for each single cookie |
| `Dispatch_proofs!EncodingIsTrue` | `EncodedAsDeclared` |
| `Dispatch_proofs!EnvelopesAreSanitized` | `ErrorsAreSanitizedEnvelopes`, for all codes and all statuses put over an envelope |
| `Dispatch_proofs!LogIsTrue` | `LoggerTellsTheTruth` |
| `Dispatch_proofs!CorsCovers` | `CorsCoversInnerMiddleware`, with functions and types of the application anywhere in the chain |
| `WebSocketUpgrade_proofs!OneGetsTheUpgrade` | `OneUpgrade` |
| `WebSocketUpgrade_proofs!SwitchedHasItsTask` | `SwitchHasItsTask`, whatever frames the 101 passes |
| `WebSocketUpgrade_proofs!UpgradeKeepsDispatch` | the properties above, those of `Dispatch`, of `UpgradeSpec`, which is what the run checks |
| `EventStream_proofs!TypeCorrect` | `TypeOK`; the buffer stays within its room |
| `EventStream_proofs!NothingLost` | `NothingBetweenIsLost` |
| `EventStream_proofs!WakeupsKept` | `NoLostWakeup` |
| `EventStream_proofs!EventsFirst` | `EventsGoFirst` |
| `EventStream_proofs!DeliveryRefinement` | the safety half of `EventDelivery` |
| `EventStream_proofs!SourceIsStream` | all of these of `SourceSpec`, which is what the run checks |
| `EventStream_proofs!ListenerHears` | `HeardAsMeant`, for all sequences of builder calls with texts of any length whose lines are literal |
| `Routing_proofs!TypeCorrect` | `TypeOK` |
| `Routing_proofs!LastRegistrationServed` | `LastRegistrationWins`, for method tables of any length |
| `Routing_proofs!AllowHolds` | `AllowIsTruthful` |
| `Routing_proofs!RoutesServed` | `EveryRouteIsServed`, for every program of builder calls |
| `Routing_proofs!ChainsAreOnions` | `ChainIsOnion`, however deep groups nest |
| `StaticFile_proofs!TypeCorrect` | `TypeOK` |
| `StaticFile_proofs!NotModifiedHolds` | `NotModifiedIsTrue`, for every resolution of dates and any replacements, rollbacks included |
| `StaticFile_proofs!RangesAnswered` | `RangeIsAnsweredAsAsked`, for files of every length |
| `StaticFile_proofs!BodiesMatch` | `BodyMatchesHeaders` |

**Server.** None of the invariants is inductive. That `run` stops with no task
left follows from the watchers, so `IInv` says that watchers are exactly the
tasks; that permits add up needs `holding` to be exactly the tasks when there is
a limit, a finite set of tasks, and no one in `permit` without a limit; and that
the loop holds at most one accepted connection makes `AcquirePermit` hand the
permit to the right one. The actions fall into a few kinds (a task is spawned,
ends, or a connection moves within or outside the tasks); one lemma per kind
shows that it keeps `IInv`, and the refinement reuses the same split: spawning is
`Enter`, ending is `Leave`, all other moves stutter.

**RequestBody.** `OwnerInv` is the strengthening: while somebody reads or streams,
the slot is empty in both senses (`inner` taken, nothing cached), what the owner
has received is everything that was sent, and received plus `left` is the limit
it started with. From this come exactness of the limit (a refused chunk makes
the sum exceed it) and wholeness (the end of the body means that everything was
received). `StepKinds` sorts the steps into calls answered at once, taking the
body, a chunk, and an owner letting go; there is one lemma per kind.

**Dispatch.** Three invariants, each proved over the one before it. `ChainInv` is
about the stack: what lies below the top has called `Next::run`, so every guard
among it has let the request through and no `cors` among it saw a preflight.
`JarInv` follows a cookie: a call past its push has its cookie in the jar, and one
that returned has raised the flag, so `apply` cannot miss it. `ResultInv` follows
the result upwards: it is `Honest`, which says that an `Err` already carries the
status it will be rendered with, and that a response made `from` an error carries
that error's code and no words but those it may, whatever was put over it since;
it is no longer an `Err` once it has left a frame other than a `layer`; frames of
`cors` it has passed have covered it, unless a `layer` handed them an `Err`; and
an outermost logger's line is its status. Without the first of these
`LoggerTellsTheTruth` could not be carried from `logger`, which sees the `Err`, to
the reply. `ShapeInv` is what `TypeOK` adds to the three. `CookieJar::apply` is a
recursive function over the queue (`Fitting`); that it keeps cookies in a sequence
and writes each one that fits is shown by induction over the queue's length
(`FittingWrites`).

**WebSocketUpgrade.** `HandInv` counts the one `OnUpgrade`: it is parked, or in one
hand, task or socket; `TaskInv` that whoever holds the answer of `on_upgrade` has
its task, in waiting or with a socket, until the request is over without a
switch. `PipelineInv` is the conjunction of the four invariants of `Dispatch`; the
handshake's own steps leave its variables alone, and its two answers are honest.
`SwitchInv` says that a result with the status 101 on its way up means that the
handler was given the answer of `on_upgrade`: no error is rendered with 101, no
frame and no answer of `Dispatch` makes one (`NoOtherSwitch`). So a 101 that
arrives has its task, and as nobody else can have taken the one `OnUpgrade`, only
that.

**EventStream.** `FramesAreTaken` (no buffered frame is ahead of `taken`) and
`EndIsTheStreams` (a body that ended or failed did so because the stream did,
with everything taken) strengthen the invariants to an inductive one. The
refinement maps polling and buffering to stutters and `Receive` of an event to
`Deliver`.

**EventFormat.** What the listener hears is a fold (the client) over what `render`
makes of a fold (the builder), compared with a third one (the texts that were
given). `FoldAppend` of `SetInduction` turns each fold into two facts: its value for
the empty sequence, and what one element more does to it. By induction over the
calls, the builder holds the last text of each field and the joined texts of
`data` (`BuiltHolds`). By induction over characters, splitting at line feeds and
joining again gives the same text (`JoinedLines`), and the lines of joined texts
are the lines of each (`LinesOfJoin`). By induction over the lines, the client
that reads them as `data` holds them joined, with one line feed too many, which it
drops (`ReadData`). `Plain` says that every line is `Literal`, which is the
condition of `HeardAsMeant`: a literal line is read as it was written
(`ReadLiteral`). Without it the statement is false, as the run
`event_stream_fields` shows.

**Routing.** `LastRegistrationWins` and `AllowIsTruthful` are about one method
table: by induction over the calls that made it, its entries are unique and the
last call of each method is among them. The rest is about groups. Which routers
lie around a route follows from `under`, the attachments, as the least set closed
under them (`Enclosing`, `Within`). `ChainIsOnion` is only about the built
application; the invariant says what a route carries on its way there:
`CarriedLayers`, the middleware of the groups between its own and the one it has
arrived in, and `OwnLayers`, what each router that was not attached yet will add.
`Layers` spells out an onion: all of those groups' middleware, nobody else's, each
once, outer groups first and one group's in the order of registration. `Nest` and
`Merge` put the two together, and because an attached router is empty for good
(`Moved`) and a chain of attachments has one end (`Chained`), nothing is added on
the wrong side of it later. `Kept` and `TablesKept` say that routes are neither
lost nor changed; `Build` flattens exactly these (`Flattened`).

**StaticFile.** The handler and the client each hold versions they saw earlier.
While the file is `steady`, the one on disk is the newest there has been
(`DiskInv`), so whatever anybody holds was `Seen`: it is not newer, and if its time
is that of the file on disk it is that file (`KnownInv`). `PathInv` follows the
handler: the file is still the one `metadata` saw, or the answer is marked as raced.
`CopyInv` follows the client: its content is of the version of its tag unless the
answer was raced, and while the file is steady it is at least as new. The second
half makes a 304 of a steady file true, by tag and by date, although the date has
lost its fraction of a second and the content may have been read after the
validators; the first makes a 304 by tag true for any file, of a copy that was not
raced. `RangeInv` ties a range that is being fetched to the positions that
were asked for; `ParsedAsAsked` is the arithmetic of `parse_range` for every length.

**Only model-checked.** What depends on fairness, for liveness and `ENABLED` are
outside what the prover handles: the liveness halves of `ConnectionGate` and of
`EventDelivery`, `ShutdownCompletesWhenPermitsReturn`, `TimeoutBoundsRequest`,
`SwitchIsServed`, `IdleStreamIsKeptAlive`. Every other property that a passing run
checks is also a theorem.

## 5. Not modelled

* Layout and parsing: the JSON of an envelope, content types, parameters and
  query, percent-decoding, forms and multipart, the `Cookie` request header, path
  patterns. These are pure functions of bytes that do not change, most of them
  in libraries.
* The OpenAPI document and its two routes: pure construction, served like any
  other route.
* Typed state and extensions: written while the program is built, then only
  read. Their failure is an outcome of the handler in `Dispatch` (`MissingState`).
* HTTP/2 multiplexing inside one connection; loading certificates.
* hyper's side of an upgrade beyond `Fulfil` and `Disappoint`, the messages on a
  websocket, guards that take the upgrade themselves, and handlers that say 101
  without `on_upgrade`.
* Texts with line feeds in `event`, `id` or `comment`, texts that name a field after
  a carriage return, and `keep_alive(Duration::ZERO)`,
  which panics like any other handler may.
* `Vary` and shared caches between clients.
* The test client, examples and benchmarks, which hold none of the framework's
  logic.

## 6. Plan

Done: `ConnectionGate`/`Server`, `OnceBody`/`RequestBody`,
`Errors`/`Responses`/`Dispatch`, `WebSocketUpgrade`, `EventDelivery`/`EventStream`
with `EventFormat`/`EventSource`, `Routing`, `StaticFile`, and the proofs of all
of these.

Next theorems:

1. Facts of the code that the runs refute and that hold under a condition:
   buffered reads of a body agree as long as none fails; `cors` covers the answers
   of every frame but an `Err` that it meets innermost or a `layer` hands it.
2. `Server`: how many connections can be open at once, websockets included.

Next modules:

1. A shared cache beside `cors` and `gzip`: which answers `Vary` should tell apart.
2. The resolution of paths in `ServeDir`, which now is a kind of URL.
3. `App::openapi` in `Routing`.
