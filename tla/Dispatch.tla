------------------------------ MODULE Dispatch ------------------------------
(***************************************************************************)
(* One request through `dispatch` (src/app.rs): the method table of the    *)
(* matched route, the middleware chain run by `Next` and its built-in      *)
(* members (src/middleware.rs), the terminal handler (src/handler.rs), the *)
(* places where an error becomes a response, and the cookie jar.           *)
(*                                                                         *)
(* The nested futures of the chain are a stack of frames: `depth` of them  *)
(* are live.  Handlers, and middleware an application writes itself, are   *)
(* free to wait, fail, answer or never return; a handler may move its      *)
(* Context into a task that outlives it and still queues cookies.          *)
(***************************************************************************)
EXTENDS Responses, Sequences

CONSTANTS Apps,      \* built apps: methods of the route, global, group chain
          Requests,  \* what a client may send
          Failures,  \* the errors that handlers fail with
          Codes,     \* of the envelopes they fill in themselves
          Statuses   \* that they put over errors and envelopes

\* An application's own middleware: a function, whose errors are rendered as it
\* returns, or a type that implements the trait Middleware, whose are not.
OwnKinds == {"guard", "layer"}
MiddlewareKinds == {"logger", "timeout", "cors", "gzip"} \cup OwnKinds
Methods == {"GET", "HEAD", "POST", "OPTIONS"}

ASSUME DispatchAssumption ==
  /\ Apps \subseteq [methods : SUBSET Methods,
                     global : Seq(MiddlewareKinds), group : Seq(MiddlewareKinds)]
  /\ Requests \subseteq [method : Methods, matched : BOOLEAN,
                         preflight : BOOLEAN, origin : BOOLEAN, gzip : BOOLEAN,
                         upgrade : BOOLEAN, handshake : BOOLEAN]
  /\ Failures \subseteq ErrorSet /\ Codes \subseteq Int \ {0}
  /\ Statuses \subseteq 100..999

VARIABLES
  app,       \* the BuiltApp
  req,       \* method; path matched; Access-Control-Request-Method sent;
             \* origin acceptable to the CORS configuration; gzip accepted;
             \* asks for an upgrade; with the headers of a websocket
  phase,     \* "down" the chain, "handler", "up" again, "apply", over
  depth,     \* how many frames of the chain are live
  res,       \* the result on its way up
  jar,       \* CookieJar.queue: whose cookie, and whether it fits in a header
  nonEmpty,  \* CookieJar.non_empty
  queuing,   \* where each writer is in its call of set_cookie
  due,       \* history: the calls that had returned when apply began
  passed,    \* history: guards that called Next::run
  ran,       \* history: the terminal handler was called
  errorLogged, \* tracing::error! was called by Error::internal
  logLine,   \* status on the line `logger` wrote last, 0 before
  reply      \* what dispatch returns

history == <<due, passed, ran>>
logs == <<errorLogged, logLine>>
cookies == <<jar, nonEmpty, queuing>>
vars == <<app, req, phase, depth, res, cookies, history, logs, reply>>

(* -------------------------------- answers ------------------------------- *)

\* What handlers and the files they serve answer with; one encodes by itself.
Precompressed ==
  [Content("large") EXCEPT !.coded = TRUE, !.layers = 1]

HandlerAnswers ==
  {Unit, Bare(204), Bare(302), Bare(304), Content("small"), Content("large"),
   Streamed, WithNumber(201, Content("small")),
   WithStatus(206, Content("large")), Precompressed}
    \cup {Business(c) : c \in Codes}
    \cup {WithStatus(s, Business(c)) : s \in Statuses, c \in Codes}

NoReply == [status |-> 0]

(* ------------------------------ the pipeline ---------------------------- *)

\* `build` bakes the route's chain; the fallback runs in the global one.
Chain == IF req.matched THEN app.global \o app.group ELSE app.global
Top == IF depth = 0 THEN "dispatch" ELSE Chain[depth]

\* HEAD is derived from GET unless it is registered.
Effective ==
  IF req.method = "HEAD" /\ "HEAD" \notin app.methods THEN "GET" ELSE req.method
Served == req.matched => Effective \in app.methods

IsPreflight == req.method = "OPTIONS" /\ req.preflight

Writers == {"handler", "helper"}

Init ==
  /\ app \in Apps /\ req \in Requests
  /\ phase = "down" /\ depth = 0 /\ res = Answer(0, "empty")
  /\ jar = <<>> /\ nonEmpty = FALSE
  /\ queuing = [handler |-> "idle", helper |-> "none"]
  /\ due = {} /\ passed = {} /\ ran = FALSE
  /\ errorLogged = FALSE /\ logLine = 0
  /\ reply = NoReply

\* The frame on top returns r to the one below it.
LeaveWith(r) ==
  /\ res' = r /\ phase' = "up" /\ depth' = depth - 1
  /\ UNCHANGED <<app, req, cookies, history, reply>>

\* The cors frame answers a preflight itself and does not call Next::run.
CallsNext == phase = "down" /\ ~(Top = "cors" /\ IsPreflight)
GuardPasses == passed' = IF Top \in OwnKinds THEN passed \cup {depth} ELSE passed

\* A bug: the index of Next advances by two after `logger`.
CallNextSkips ==
  /\ CallsNext /\ depth < Len(Chain)
  /\ depth' = IF Top = "logger" /\ depth + 2 <= Len(Chain) THEN depth + 2
              ELSE depth + 1
  /\ GuardPasses
  /\ UNCHANGED <<app, req, phase, res, cookies, due, ran, logs, reply>>

\* A bug: the index is compared with <= and runs past the last middleware.
CallNextTooFar ==
  /\ CallsNext /\ depth <= Len(Chain)
  /\ depth' = depth + 1
  /\ GuardPasses
  /\ UNCHANGED <<app, req, phase, res, cookies, due, ran, logs, reply>>

\* Next::run with middleware left.
CallNext ==
  /\ CallsNext /\ depth < Len(Chain)
  /\ depth' = depth + 1
  /\ GuardPasses
  /\ UNCHANGED <<app, req, phase, res, cookies, due, ran, logs, reply>>

\* Next::run with none left: the handler, or the one that renders 405.
CallHandler ==
  /\ CallsNext /\ depth = Len(Chain)
  /\ IF Served THEN phase' = "handler" /\ ran' = TRUE /\ UNCHANGED res
     ELSE phase' = "up" /\ res' = Rendered(Error("MethodNotAllowed")) /\ UNCHANGED ran
  /\ GuardPasses
  /\ UNCHANGED <<app, req, depth, cookies, due, logs, reply>>

\* A bug: preflight requests go on down when the route has OPTIONS.
AnswerPreflightUnlessRouted ==
  /\ phase = "down" /\ Top = "cors" /\ IsPreflight
  /\ IF Served
     THEN /\ phase' = "handler" /\ ran' = TRUE
          /\ UNCHANGED <<app, req, depth, res, cookies, due, passed, reply>>
     ELSE LeaveWith([Answer(204, "empty") EXCEPT !.cors = req.origin])
  /\ UNCHANGED logs

\* `cors` answers a preflight request with 204.
AnswerPreflight ==
  /\ phase = "down" /\ Top = "cors" /\ IsPreflight
  /\ LeaveWith([Answer(204, "empty") EXCEPT !.cors = req.origin])
  /\ UNCHANGED logs

\* The application's own middleware answers instead of calling Next::run.
Refuse ==
  /\ phase = "down" /\ Top \in OwnKinds
  /\ \/ LeaveWith(Rendered(Error("Unauthorized")))
     \/ Top = "layer" /\ LeaveWith(Err(Error("Unauthorized")))
  /\ UNCHANGED logs

(* ------------------------------- the handler ---------------------------- *)

\* set_cookie is synchronous: the handler is not dropped in the middle of it.
HandlerAwaits == phase = "handler" /\ queuing["handler"] # "pushed"

HandlerReturns(r, logsIt) ==
  /\ HandlerAwaits
  /\ res' = r /\ phase' = "up"
  /\ errorLogged' = (errorLogged \/ logsIt)
  /\ UNCHANGED <<app, req, depth, cookies, history, logLine, reply>>

HandlerAnswersWith(r) == HandlerReturns(r, FALSE)

\* Only Error::internal logs, when the error is made.  With a status of its own
\* around a Result - 201 for what it has created - the handler puts it over the
\* envelope of the error, too.
HandlerFails(e) ==
  \E r \in {Err(e), Rendered(e)} \cup {WithStatus(s, Rendered(e)) : s \in Statuses} :
    HandlerReturns(r, e.kind = "Internal")

\* A tuple with a number that is no status: Error::internal.
BadNumber == HandlerReturns(WithNumber(99, Content("small")), TRUE)

\* body::json logs why.
JsonFails == HandlerReturns(Unserializable, TRUE)

\* ctx.state() of a type that was never registered builds Error::Internal by
\* hand.
MissingState ==
  \E r \in {Err(Error("Internal")), Rendered(Error("Internal"))} :
    HandlerReturns(r, FALSE)

\* The handler moves a share of its Context into a task.
SpawnHelper ==
  /\ HandlerAwaits /\ queuing["helper"] = "none"
  /\ queuing' = [queuing EXCEPT !["helper"] = "idle"]
  /\ UNCHANGED <<app, req, phase, depth, res, jar, nonEmpty, history, logs,
                 reply>>

\* CookieJar::queue, first the push under the lock, then the flag.  Each
\* writer queues one cookie.
PushCookie(w) ==
  /\ queuing[w] = "idle" /\ (w = "handler" => phase = "handler")
  /\ \E fits \in BOOLEAN : jar' = Append(jar, [by |-> w, fits |-> fits])
  /\ queuing' = [queuing EXCEPT ![w] = "pushed"]
  /\ UNCHANGED <<app, req, phase, depth, res, nonEmpty, history, logs, reply>>

RaiseFlag(w) ==
  /\ queuing[w] = "pushed"
  /\ nonEmpty' = TRUE
  /\ queuing' = [queuing EXCEPT ![w] = "returned"]
  /\ UNCHANGED <<app, req, phase, depth, res, jar, history, logs, reply>>

(* ----------------------------- the way back up -------------------------- *)

Returning(kind) == phase = "up" /\ Top = kind

\* A bug: every Err is logged as a 500.
LogRequestAsFailed ==
  /\ Returning("logger")
  /\ LeaveWith(IntoResponse(res))
  /\ logLine' = IF res.err # NoError THEN 500 ELSE res.status
  /\ UNCHANGED errorLogged

\* `logger` reads the status of the Ok or of the Err.
LogRequest ==
  /\ Returning("logger")
  /\ LeaveWith(IntoResponse(res))
  /\ logLine' = res.status
  /\ UNCHANGED errorLogged

ReturnInTime ==
  /\ Returning("timeout")
  /\ LeaveWith(IntoResponse(res))
  /\ UNCHANGED logs

\* A bug: only successful answers are given CORS headers.
AddCorsHeadersToSuccess ==
  /\ Returning("cors")
  /\ LeaveWith(IF res.err # NoError \/ res.status >= 400 THEN IntoResponse(res)
               ELSE [res EXCEPT !.cors = @ \/ req.origin])
  /\ UNCHANGED logs

\* `cors` on an Ok; the `?` on next.run returns an Err as it is.
AddCorsHeaders ==
  /\ Returning("cors")
  /\ LeaveWith(IF res.err # NoError THEN IntoResponse(res)
               ELSE [res EXCEPT !.cors = @ \/ req.origin])
  /\ UNCHANGED logs

\* A bug: an answer that is already encoded is encoded again.
CompressibleTwice(r) ==
  /\ r.err = NoError /\ req.gzip
  /\ r.size \in {"large", "stream"}
  /\ r.status \notin {101, 204, 206, 304}

\* What `gzip` encodes: known sizes under its minimum, statuses without a
\* body, partial content and what is encoded already are left alone.
Compressible(r) ==
  /\ r.err = NoError /\ req.gzip
  /\ r.size \in {"large", "stream"}
  /\ r.status \notin {101, 204, 206, 304}
  /\ ~r.coded

Compress ==
  /\ Returning("gzip")
  /\ LeaveWith(IF Compressible(res)
               THEN [res EXCEPT !.coded = TRUE, !.layers = @ + 1,
                                !.size = "stream"]
               ELSE IntoResponse(res))
  /\ UNCHANGED logs

\* The application's own middleware returns the answer, or one of its own.
ReturnFromGuard ==
  /\ phase = "up" /\ Top \in OwnKinds
  /\ \/ LeaveWith(IntoResponse(res))
     \/ LeaveWith(Answer(503, "small"))
     \/ Top = "layer" /\ (LeaveWith(res) \/ LeaveWith(Err(Error("Forbidden"))))
  /\ UNCHANGED logs

\* Code of the application is awaited: the handler, or a guard before or after
\* its call of Next::run.  (The rest never waits on its own.)
Awaiting == HandlerAwaits \/ (phase \in {"down", "up"} /\ Top \in OwnKinds)

\* Code of the application panics and the connection's task unwinds, or the
\* client is gone and hyper drops the request.
Abort ==
  /\ Awaiting
  /\ phase' = "aborted"
  /\ UNCHANGED <<app, req, depth, res, cookies, history, logs, reply>>

\* A bug: the clock of `timeout` only runs while the handler does.
ExpireInHandler(i) ==
  /\ HandlerAwaits /\ i <= depth /\ Chain[i] = "timeout"
  /\ res' = Rendered(Error("Timeout")) /\ phase' = "up" /\ depth' = i - 1
  /\ UNCHANGED <<app, req, cookies, history, logs, reply>>

\* The deadline of frame i passes: everything above it is dropped.
Expire(i) ==
  /\ Awaiting /\ i <= depth /\ Chain[i] = "timeout"
  /\ res' = Rendered(Error("Timeout")) /\ phase' = "up" /\ depth' = i - 1
  /\ UNCHANGED <<app, req, cookies, history, logs, reply>>

(* ---------------------------- back in dispatch -------------------------- *)

\* The response with its cookies; HEAD to a route loses the body.
Final(set) ==
  LET r == IntoResponse(res) IN
    [status |-> r.status, code |-> r.code, says |-> r.says, cors |-> r.cors,
     coded |-> r.coded, layers |-> r.layers, from |-> r.from, cookies |-> set,
     size |-> IF req.method = "HEAD" /\ req.matched THEN "empty" ELSE r.size]

\* A bug: the jar is only looked at for answers that are not errors.
CheckJarOnSuccess ==
  /\ Returning("dispatch")
  /\ due' = {w \in Writers : queuing[w] = "returned"}
  /\ IF nonEmpty /\ res.status < 400
     THEN phase' = "apply" /\ UNCHANGED reply
     ELSE phase' = "done" /\ reply' = Final(<<>>)
  /\ UNCHANGED <<app, req, depth, res, cookies, passed, ran, logs>>

\* CookieJar::apply: without the flag the lock is not taken.
CheckJar ==
  /\ Returning("dispatch")
  /\ due' = {w \in Writers : queuing[w] = "returned"}
  /\ IF nonEmpty
     THEN phase' = "apply" /\ UNCHANGED reply
     ELSE phase' = "done" /\ reply' = Final(<<>>)
  /\ UNCHANGED <<app, req, depth, res, cookies, passed, ran, logs>>

\* What is not visible ASCII does not fit in a header and is passed over.
Fitting(queue) ==
  LET written[n \in 0..Len(queue)] ==
        IF n = 0 THEN <<>>
        ELSE IF queue[n].fits THEN Append(written[n - 1], queue[n])
        ELSE written[n - 1]
  IN  written[Len(queue)]

\* CookieJar::apply, under the lock.
ApplyCookies ==
  /\ phase = "apply"
  /\ phase' = "done" /\ reply' = Final(Fitting(jar))
  /\ UNCHANGED <<app, req, depth, res, cookies, history, logs>>

Over == phase \in {"done", "aborted"}
Terminated == Over /\ UNCHANGED vars

\* Steps of the framework that follow one another without waiting.
Run ==
  \/ Top \notin OwnKinds /\ (CallNext \/ CallHandler)
  \/ AnswerPreflight \/ LogRequest \/ ReturnInTime \/ AddCorsHeaders
  \/ Compress \/ CheckJar \/ ApplyCookies

Handler ==
  \/ \E r \in HandlerAnswers : HandlerAnswersWith(r)
  \/ \E e \in Failures : HandlerFails(e)
  \/ Error("Internal") \in Failures /\ (MissingState \/ BadNumber \/ JsonFails)
  \/ SpawnHelper

Guard ==
  \/ Top \in OwnKinds /\ (CallNext \/ CallHandler)
  \/ Refuse \/ ReturnFromGuard

Next ==
  \/ Run \/ Handler \/ Guard \/ Abort
  \/ \E w \in Writers : PushCookie(w) \/ RaiseFlag(w)
  \/ \E i \in 1..Len(Chain) : Expire(i)
  \/ Terminated

Spec == Init /\ [][Next]_vars

\* The task is polled again when it is ready, set_cookie returns, and a timer
\* that has expired wakes its task.  Handlers and guards may wait for ever.
Fairness ==
  /\ WF_vars(Run)
  /\ WF_vars(RaiseFlag("handler"))
  /\ WF_vars(\E i \in 1..Len(Chain) : Expire(i))

FairSpec == Spec /\ Fairness

(* ------------------------------ properties ------------------------------ *)

Messages == {"own", "sanitized", "internals"}

Results ==
  [err : ErrorSet \cup {NoError}, status : Nat, code : Int, says : Messages,
   cors : BOOLEAN, coded : BOOLEAN, layers : Nat, size : Sizes,
   from : ErrorSet \cup {NoError}]

Cookies == [by : Writers, fits : BOOLEAN]

Replies ==
  [status : Nat, code : Int, says : Messages, cors : BOOLEAN, coded : BOOLEAN,
   layers : Nat, from : ErrorSet \cup {NoError}, cookies : Seq(Cookies),
   size : Sizes]

\* The shape of the state; `depth` never leaves the chain.
TypeOK ==
  /\ app \in Apps /\ req \in Requests
  /\ phase \in {"down", "handler", "up", "apply", "done", "aborted"}
  /\ depth \in 0..Len(Chain)
  /\ res \in Results
  /\ jar \in Seq(Cookies) /\ nonEmpty \in BOOLEAN
  /\ queuing \in [Writers -> {"none", "idle", "pushed", "returned"}]
  /\ due \subseteq Writers /\ passed \subseteq 1..Len(Chain) /\ ran \in BOOLEAN
  /\ errorLogged \in BOOLEAN /\ logLine \in Nat
  /\ reply \in Replies \cup {NoReply}

\* The reply has the first n queued cookies, in order, each once, except for
\* those that fit in no header, and among them are all whose set_cookie had
\* returned before the answer left the chain: whatever the answer is, a page, an
\* error, the 504 that replaced the handler that set it.  It has none at all
\* only if no call had returned.
CookiesReachTheReply ==
  phase = "done" =>
    \/ reply.cookies = <<>> /\ due = {}
    \/ \E n \in 0..Len(jar) :
         /\ reply.cookies = Fitting(SubSeq(jar, 1, n))
         /\ \A w \in due : \E i \in 1..n : jar[i].by = w

\* A body is encoded as often as its headers say, however many gzip
\* middlewares and encoding handlers are stacked, and never when the status
\* forbids it.
EncodedAsDeclared ==
  phase = "done" =>
    /\ reply.layers = (IF reply.coded THEN 1 ELSE 0)
    /\ reply.status \in {101, 204, 206, 304} => ~reply.coded

\* Wherever on the way up an error becomes a response - in the handler, in a
\* middleware, in dispatch - and whatever status is put over it, the client gets
\* that error's envelope: its code, and of a failure of the server nothing but
\* that it failed.  An envelope that an application fills in itself keeps its
\* words, also with the code 500.
ErrorsAreSanitizedEnvelopes ==
  phase = "done" =>
    /\ reply.from # NoError =>
         /\ reply.code = BusinessCode(reply.from)
         /\ reply.says =
              (IF reply.from.kind \in ServerErrors THEN "sanitized" ELSE "own")
    /\ reply.says # "internals"

\* Position i of the chain, with only middleware outside it that returns
\* the answer it gets.
Outermost(i) == \A j \in 1..(i - 1) : Chain[j] \in {"logger", "gzip"}

\* Around middleware that renders the errors of what is inside it - the built-in
\* kinds and functions do, a type need not - `cors` reaches every answer to an
\* origin it accepts: refusals, 405, 504 and rendered errors as well as pages.
CorsCoversInnerMiddleware ==
  \A i \in 1..Len(Chain) :
    Chain[i] = "cors" /\ Outermost(i) /\ i < Len(Chain)
      /\ phase = "done" /\ req.origin => reply.cors \/ Chain[i + 1] = "layer"

\* A preflight request never reaches a handler that `cors` covers.
PreflightStopsAtCors ==
  IsPreflight /\ (\E i \in 1..Len(Chain) : Chain[i] = "cors") => ~ran

\* The handler runs only for a request that every guard of the global and of
\* the group chain let through, the fallback included.
EveryGuardPassed ==
  ran => \A i \in 1..Len(Chain) : Chain[i] \in OwnKinds => i \in passed

\* The line of an outermost `logger` has the status the client receives, also
\* when that is only decided by rendering an Err.
LoggerTellsTheTruth ==
  phase = "done" /\ Len(Chain) > 0 =>
    (Chain[1] = "logger" => logLine = reply.status)

\* A `timeout` with no application code outside it bounds the request: it is
\* over even if handlers and guards never return.
TimeoutBoundsRequest ==
  (\E i \in 1..Len(Chain) :
     Chain[i] = "timeout" /\ \A j \in 1..(i - 1) : Chain[j] \notin OwnKinds)
    => <>Over

(* --------------------- what the documentation says ---------------------- *)

\* middleware.rs:150 "Handles preflight OPTIONS requests and appends CORS
\* headers to other responses": also when it is the innermost middleware.
CorsOnEveryResponse ==
  \A i \in 1..Len(Chain) :
    Chain[i] = "cors" /\ Outermost(i) /\ phase = "done" /\ req.origin
      => reply.cors

\* lib.rs:182 "`Error::internal` and `Error::Io` are sanitized — the client
\* sees `internal server error`, the details go to `tracing`".
SanitizedErrorIsLogged ==
  phase = "done" /\ reply.from.kind \in ServerErrors => errorLogged
=============================================================================
