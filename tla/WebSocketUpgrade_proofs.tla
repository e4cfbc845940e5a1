------------------------ MODULE WebSocketUpgrade_proofs ------------------------
(* Theorems about WebSocketUpgrade, and those of Dispatch that survive the *)
(* handshake, for every set of apps, requests and failures.                *)
EXTENDS WebSocketUpgrade, Dispatch_proofs

(* ------------------------------ the upgrade ----------------------------- *)

\* There is one OnUpgrade: it is parked, or one caller has what it became, and
\* only who has made the answer of it has a task or a socket.
HandInv ==
  /\ hand \in [Writers -> {"none", "handle", "response"}]
  /\ parked => \A w \in Writers : hand[w] = "none"
  /\ \A v, w \in Writers : hand[v] # "none" /\ hand[w] # "none" => v = w
  /\ tasks \cup sockets \subseteq {w \in Writers : hand[w] = "response"}

\* Unless the request has ended in another way, who has made the answer has its
\* task or its socket.
TaskInv ==
  \/ Over /\ ~Switched
  \/ {w \in Writers : hand[w] = "response"} \subseteq tasks \cup sockets

\* Once the request is over, nothing changes how it ended.
LEMMA OverIsFinal ==
  ASSUME Over, Next \/ UNCHANGED vars PROVE Over' /\ Switched' = Switched
<1> USE DEF Over, history, cookies, logs
<1>1. ~(Run \/ Guard \/ Abort)
  BY DEF Run, Guard, Abort, CallNext, CallHandler, CallsNext, AnswerPreflight,
     LogRequest, ReturnInTime, AddCorsHeaders, Compress, CheckJar, ApplyCookies,
     Refuse, ReturnFromGuard, Returning, Awaiting, HandlerAwaits
<1>2. ~Handler
  BY DEF Handler, HandlerAnswersWith, HandlerFails, MissingState, BadNumber,
     JsonFails, SpawnHelper, HandlerReturns, HandlerAwaits
<1>3. ASSUME NEW i \in 1..Len(Chain) PROVE ~Expire(i)
  BY DEF Expire, Awaiting, HandlerAwaits
<1>4. UNCHANGED <<phase, reply>>
  BY <1>1, <1>2, <1>3 DEF Next, Terminated, PushCookie, RaiseFlag, vars
<1> QED
  BY <1>4 DEF Switched

\* While it is not, only its end concerns the tasks.
LEMMA PipelineKeepsTasks ==
  ASSUME TaskInv, UNCHANGED upgrade, Next \/ UNCHANGED vars PROVE TaskInv'
<1>1. CASE Over
  BY <1>1, OverIsFinal DEF TaskInv, upgrade
<1>2. CASE ~Over
  BY <1>2 DEF TaskInv, upgrade
<1> QED
  BY <1>1, <1>2

LEMMA HandStep ==
  HandInv /\ TaskInv /\ [UpgradeNext]_<<vars, upgrade>> => HandInv' /\ TaskInv'
<1> SUFFICES ASSUME HandInv, TaskInv, [UpgradeNext]_<<vars, upgrade>>
             PROVE  HandInv' /\ TaskInv'
  OBVIOUS
<1>1. CASE UNCHANGED upgrade /\ (Next \/ UNCHANGED vars)
  BY <1>1, PipelineKeepsTasks DEF HandInv, upgrade
<1>3. ASSUME UNCHANGED vars PROVE Switched' = Switched /\ Over' = Over
  BY <1>3 DEF Switched, Over, vars
<1>4. ASSUME NEW w \in Writers, Websocket(w) PROVE HandInv' /\ TaskInv'
  <2>1. /\ hand' \in [Writers -> {"none", "handle", "response"}]
        /\ \A v \in Writers : v # w => hand'[v] = hand[v]
        /\ hand[w] = "none" /\ (hand'[w] # "none" => parked) /\ ~parked'
        /\ hand'[w] # "response"
        /\ UNCHANGED <<tasks, sockets>> /\ UNCHANGED vars
    BY <1>4 DEF Websocket, HandInv
  <2>2. \A u, v \in Writers : hand'[u] # "none" /\ hand'[v] # "none" => u = v
    BY <2>1 DEF HandInv
  <2>3. {v \in Writers : hand'[v] = "response"} = {v \in Writers : hand[v] = "response"}
    BY <2>1
  <2> QED
    BY <1>3, <2>1, <2>2, <2>3 DEF HandInv, TaskInv
<1>5. ASSUME NEW w \in Writers, OnUpgrade(w) PROVE HandInv' /\ TaskInv'
  <2>1. /\ hand' \in [Writers -> {"none", "handle", "response"}]
        /\ \A v \in Writers : v # w => hand'[v] = hand[v]
        /\ hand[w] = "handle" /\ hand'[w] = "response" /\ parked' = parked
        /\ tasks' = tasks \cup {w} /\ sockets' = sockets /\ UNCHANGED vars
    BY <1>5 DEF OnUpgrade, HandInv
  <2>2. ~parked'
    BY <2>1 DEF HandInv
  <2> QED
    BY <1>3, <2>1, <2>2 DEF HandInv, TaskInv
<1>6. ASSUME NEW w \in Writers, Fulfil(w) PROVE HandInv' /\ TaskInv'
  BY <1>3, <1>6 DEF Fulfil, HandInv, TaskInv
<1>7. ASSUME NEW w \in Writers, Disappoint(w) PROVE HandInv' /\ TaskInv'
  BY <1>3, <1>7 DEF Disappoint, HandInv, TaskInv
<1>8. ASSUME NEW r, NEW logsIt, HandlerReturns(r, logsIt), UNCHANGED upgrade
      PROVE  HandInv' /\ TaskInv'
  <2>1. ~Over
    BY <1>8 DEF HandlerReturns, HandlerAwaits, Over
  <2> QED
    BY <1>8, <2>1 DEF HandInv, TaskInv, upgrade
<1>9. CASE SwitchProtocols \/ RefuseUpgrade
  BY <1>8, <1>9 DEF SwitchProtocols, RefuseUpgrade
<1> QED
  BY <1>1, <1>4, <1>5, <1>6, <1>7, <1>9 DEF UpgradeNext, upgrade

LEMMA HandInductive == UpgradeSpec => [](HandInv /\ TaskInv)
<1>1. UpgradeInit => HandInv /\ TaskInv
  BY DEF UpgradeInit, HandInv, TaskInv
<1> QED
  BY <1>1, HandStep, PTL DEF UpgradeSpec

\* Whoever calls ctx.websocket() and whenever, one caller gets the upgrade.
THEOREM OneGetsTheUpgrade == UpgradeSpec => []OneUpgrade
<1>1. HandInv => OneUpgrade
  BY DEF HandInv, OneUpgrade
<1> QED
  BY <1>1, HandInductive, PTL

(* ----------------------- what Dispatch keeps to ------------------------- *)

\* The handshake adds answers of the handler, and every other step of it
\* leaves the pipeline alone: the invariants of Dispatch are kept.
PipelineInv == ChainInv /\ ResultInv /\ JarInv /\ ShapeInv

LEMMA PipelineStep ==
  PipelineInv /\ [UpgradeNext]_<<vars, upgrade>> => PipelineInv'
<1> SUFFICES ASSUME PipelineInv, [UpgradeNext]_<<vars, upgrade>> PROVE PipelineInv'
  OBVIOUS
<1>1. ASSUME [Next]_vars PROVE PipelineInv'
  BY <1>1, ChainStep, ResultStep, JarStep, ShapeStep DEF PipelineInv
<1>2. ASSUME NEW r, HandlerReturns(r, FALSE), Honest(r) PROVE PipelineInv'
  <2>1. ResultInv'
    BY <1>2, HandlerSettles DEF PipelineInv
  <2>2. JarInv'
    BY <1>2, JarKept DEF PipelineInv, HandlerReturns, cookies, history
  <2>3. Len(Chain) \in Nat
    BY ChainType DEF PipelineInv, ChainInv
  <2>4. ChainInv'
    BY <1>2, <2>3, UpStep DEF PipelineInv, HandlerReturns, history, ChainInv
  <2>5. ShapeInv'
    BY <1>2, ShapeOfHandler DEF PipelineInv
  <2> QED
    BY <2>1, <2>2, <2>4, <2>5 DEF PipelineInv
<1>3. CASE SwitchProtocols
  BY <1>2, <1>3, AnswerHonest DEF SwitchProtocols, Sizes
<1>4. CASE RefuseUpgrade
  <2>1. "BadRequest" \in Variants
    BY DEF Variants, ClientErrors
  <2> QED
    BY <1>2, <1>4, <2>1, ErrorType, RenderedHonest DEF RefuseUpgrade
<1>5. ASSUME NEW w \in Writers, Websocket(w) \/ OnUpgrade(w) \/ Fulfil(w) \/ Disappoint(w)
      PROVE  PipelineInv'
  BY <1>1, <1>5 DEF Websocket, OnUpgrade, Fulfil, Disappoint
<1> QED
  BY <1>1, <1>3, <1>4, <1>5 DEF UpgradeNext

LEMMA PipelineInitially == UpgradeInit => PipelineInv
<1>1. Init => ChainInv /\ JarInv /\ ShapeInv
  BY ChainInitially, JarInitially, ShapeInitially
<1> QED
  BY <1>1, ResultInitially DEF UpgradeInit, PipelineInv

LEMMA PipelineInductive == UpgradeSpec => []PipelineInv
  BY PipelineInitially, PipelineStep, PTL DEF UpgradeSpec

\* With the handshake too, every answer is as Dispatch promises: guards, CORS,
\* encoding, cookies, envelopes and the log line.
THEOREM UpgradeKeepsDispatch ==
  UpgradeSpec =>
    [](/\ EveryGuardPassed /\ PreflightStopsAtCors /\ CookiesReachTheReply
       /\ EncodedAsDeclared /\ ErrorsAreSanitizedEnvelopes
       /\ LoggerTellsTheTruth /\ CorsCoversInnerMiddleware
       /\ NoCookieIsLost /\ TypeOK)
<1>1. PipelineInv =>
        /\ EveryGuardPassed /\ PreflightStopsAtCors /\ CookiesReachTheReply
        /\ EncodedAsDeclared /\ ErrorsAreSanitizedEnvelopes
        /\ LoggerTellsTheTruth /\ CorsCoversInnerMiddleware
        /\ NoCookieIsLost /\ TypeOK
  BY ResultFacts, CookiesFollow, TypeFollows DEF PipelineInv, ChainInv, JarInv
<1> QED
  BY <1>1, PipelineInductive, PTL

(* ------------------------------ the switch ------------------------------ *)

\* A 101 on its way is the answer that the handler was given for its upgrade.
SwitchInv == res.status = 101 => hand["handler"] = "response"

LEMMA RenderedStatus ==
  ASSUME NEW e \in ErrorSet PROVE Rendered(e).status # 101 /\ Err(e).status # 101
BY RenderedHonest, ErrHonest, StatusType DEF Honest

LEMMA PutStatus ==
  ASSUME NEW r, Honest(r), NEW n PROVE WithStatus(n, r).status = n
<1>1. r \in Results
  BY DEF Honest
<1> QED
  BY <1>1 DEF WithStatus, Results

LEMMA HandlerAnswersStatus ==
  ASSUME NEW r \in HandlerAnswers PROVE r.status # 101
<1>1. CASE r \in {Unit, Streamed, Content("small"), Content("large"),
                  Bare(204), Bare(302), Bare(304)}
  BY <1>1 DEF Unit, Streamed, Content, Bare, Answer
<1>2. Honest(Content("small")) /\ Honest(Content("large"))
  BY ContentHonest DEF Sizes
<1>3. CASE r = WithNumber(201, Content("small"))
  <2>1. r = WithStatus(201, Content("small"))
    BY <1>3 DEF WithNumber
  <2> QED
    BY <1>2, <2>1, PutStatus
<1>4. CASE r = WithStatus(206, Content("large"))
  BY <1>2, <1>4, PutStatus
<1>5. CASE r = Precompressed
  BY <1>5 DEF Precompressed, Content, Answer
<1>6. ASSUME NEW c \in Codes PROVE Business(c).status # 101
  BY DEF Business, Content, Answer
<1>7. ASSUME NEW s \in Statuses, NEW c \in Codes
      PROVE  WithStatus(s, Business(c)).status # 101
  <2>1. Honest(Business(c)) /\ s # 101
    BY BusinessHonest, DispatchAssumption, UpgradeAssumption
  <2> QED
    BY <2>1, PutStatus
<1> QED
  BY <1>1, <1>3, <1>4, <1>5, <1>6, <1>7 DEF HandlerAnswers

LEMMA HandlerStatus ==
  ASSUME Handler, ~SpawnHelper PROVE res'.status # 101
<1>1. CASE \E r \in HandlerAnswers : HandlerAnswersWith(r)
  BY <1>1, HandlerAnswersStatus DEF HandlerAnswersWith, HandlerReturns
<1>2. ASSUME NEW e \in Failures, HandlerFails(e) PROVE res'.status # 101
  <2> DEFINE a == Rendered(e)
             b == Err(e)
  <2>1. /\ Honest(a) /\ a.status # 101 /\ b.status # 101
        /\ \A s \in Statuses : s # 101
    BY DispatchAssumption, UpgradeAssumption, RenderedHonest, RenderedStatus
  <2>2. res' \in {a, b} \/ \E s \in Statuses : res' = WithStatus(s, a)
    BY <1>2 DEF HandlerFails, HandlerReturns
  <2> HIDE DEF a, b
  <2>3. \A s \in Statuses : WithStatus(s, a).status = s
    BY <2>1, PutStatus
  <2> QED
    BY <2>1, <2>2, <2>3
<1>3. Error("Internal") \in ErrorSet
  BY ErrorType DEF Variants, ServerErrors
<1>4. CASE MissingState
  BY <1>3, <1>4, RenderedStatus DEF MissingState, HandlerReturns
<1>5. CASE BadNumber
  BY <1>3, <1>5, RenderedStatus DEF BadNumber, HandlerReturns, WithNumber
<1>6. CASE JsonFails
  BY <1>6 DEF JsonFails, HandlerReturns, Unserializable, Content, Answer
<1> QED
  BY <1>1, <1>2, <1>4, <1>5, <1>6 DEF Handler

\* No step of Dispatch makes a 101 of anything else.
LEMMA NoOtherSwitch ==
  ASSUME ResultInv, ChainInv, [Next]_vars PROVE res'.status = 101 => res.status = 101
<1> USE DEF history, cookies, logs
<1>1. Honest(res) /\ res \in Results
  BY DEF ResultInv, Honest
<1>2. IntoResponse(res).status = res.status
  BY <1>1, IntoResponseHonest
<1>3. \A k \in Variants : Rendered(Error(k)).status # 101 /\ Err(Error(k)).status # 101
  BY ErrorType, RenderedStatus
<1>4. /\ "Timeout" \in Variants /\ "MethodNotAllowed" \in Variants
      /\ "Unauthorized" \in Variants /\ "Forbidden" \in Variants
  BY DEF Variants
<1>5. CASE AnswerPreflight
  BY <1>5 DEF AnswerPreflight, LeaveWith, Answer
<1>6. CASE LogRequest \/ ReturnInTime
  BY <1>2, <1>6 DEF LogRequest, ReturnInTime, LeaveWith
<1>7. CASE AddCorsHeaders
  <2> DEFINE b == res.cors \/ req.origin
             s == [res EXCEPT !.cors = b]
  <2>1. b \in BOOLEAN
    OBVIOUS
  <2> HIDE DEF b
  <2>2. s.status = res.status
    BY <1>1, <2>1, WithCors
  <2>3. res' = s \/ res' = IntoResponse(res)
    BY <1>7 DEF AddCorsHeaders, LeaveWith, b
  <2> HIDE DEF s
  <2> QED
    BY <1>2, <2>2, <2>3
<1>8. CASE Compress
  <2> DEFINE n == res.layers + 1
             s == [res EXCEPT !.coded = TRUE, !.layers = n, !.size = "stream"]
  <2>1. n \in Nat
    BY <1>1 DEF Results
  <2>2. res' = s \/ res' = IntoResponse(res)
    BY <1>8 DEF Compress, LeaveWith
  <2> HIDE DEF n
  <2>3. s.status = res.status
    BY <1>1, <2>1, WithEncoding
  <2> HIDE DEF s
  <2> QED
    BY <1>2, <2>2, <2>3
<1>9. CASE Refuse
  BY <1>3, <1>4, <1>9 DEF Refuse, LeaveWith
<1>10. CASE ReturnFromGuard
  <2>1. Answer(503, "small").status # 101
    BY DEF Answer
  <2> QED
    BY <1>2, <1>3, <1>4, <1>10, <2>1 DEF ReturnFromGuard, LeaveWith
<1>11. CASE CallHandler
  BY <1>3, <1>4, <1>11 DEF CallHandler
<1>12. CASE \E i \in 1..Len(Chain) : Expire(i)
  BY <1>3, <1>4, <1>12 DEF Expire
<1>13. CASE Handler /\ ~SpawnHelper
  BY <1>13, HandlerStatus
<1>14. CASE UNCHANGED res
  BY <1>14
<1>15. CASE SpawnHelper \/ CallNext \/ CheckJar \/ ApplyCookies \/ Abort \/ UNCHANGED vars
  BY <1>14, <1>15 DEF SpawnHelper, CallNext, CheckJar, ApplyCookies, Abort, vars
<1>16. CASE \E w \in Writers : PushCookie(w) \/ RaiseFlag(w)
  BY <1>14, <1>16 DEF PushCookie, RaiseFlag
<1> QED
  BY <1>5, <1>6, <1>7, <1>8, <1>9, <1>10, <1>11, <1>12, <1>13, <1>15, <1>16
  DEF Next, Run, Guard, Terminated

LEMMA SwitchStep ==
  SwitchInv /\ HandInv /\ PipelineInv /\ [UpgradeNext]_<<vars, upgrade>> => SwitchInv'
<1> SUFFICES ASSUME SwitchInv, HandInv, PipelineInv, [UpgradeNext]_<<vars, upgrade>>
             PROVE  SwitchInv'
  OBVIOUS
<1>1. CASE [Next]_vars /\ UNCHANGED upgrade
  BY <1>1, NoOtherSwitch DEF SwitchInv, PipelineInv, upgrade
<1>2. ASSUME NEW w \in Writers, Websocket(w) \/ OnUpgrade(w) PROVE SwitchInv'
  <2>1. hand["handler"] = "response" => hand'["handler"] = "response"
    <3>1. "handler" \in Writers /\ hand \in [Writers -> {"none", "handle", "response"}]
      BY DEF HandInv, Writers
    <3>2. CASE w = "handler"
      BY <1>2, <3>1, <3>2 DEF Websocket, OnUpgrade
    <3>3. CASE w # "handler"
      BY <1>2, <3>1, <3>3 DEF Websocket, OnUpgrade
    <3> QED
      BY <3>2, <3>3
  <2>2. UNCHANGED res
    BY <1>2 DEF Websocket, OnUpgrade, vars
  <2> QED
    BY <2>1, <2>2 DEF SwitchInv
<1>3. ASSUME NEW w \in Writers, Fulfil(w) \/ Disappoint(w) PROVE SwitchInv'
  BY <1>3 DEF Fulfil, Disappoint, SwitchInv, vars
<1>4. CASE SwitchProtocols
  BY <1>4 DEF SwitchProtocols, SwitchInv, upgrade
<1>5. CASE RefuseUpgrade
  <2>1. Rendered(Error("BadRequest")).status # 101
    BY ErrorType, RenderedStatus DEF Variants, ClientErrors
  <2> QED
    BY <1>5, <2>1 DEF RefuseUpgrade, HandlerReturns, SwitchInv
<1> QED
  BY <1>1, <1>2, <1>3, <1>4, <1>5 DEF UpgradeNext, upgrade

\* Whatever chain the 101 has passed, a client that gets it has the task of the
\* handler at the other end of the connection, and no other.
THEOREM SwitchedHasItsTask == UpgradeSpec => []SwitchHasItsTask
<1>1. UpgradeInit => SwitchInv
  BY DEF UpgradeInit, Init, Answer, SwitchInv
<1>2. HandInv /\ TaskInv /\ PipelineInv /\ SwitchInv => SwitchHasItsTask
  <2> SUFFICES ASSUME HandInv, TaskInv, PipelineInv, SwitchInv, Switched
               PROVE  tasks \cup sockets = {"handler"}
    BY DEF SwitchHasItsTask
  <2>1. res.status = 101
    <3>1. Honest(res) /\ reply.status = IntoResponse(res).status
      BY DEF Switched, PipelineInv, ResultInv
    <3> QED
      BY <3>1, IntoResponseHonest DEF Switched
  <2>2. hand["handler"] = "response" /\ "handler" \in Writers
    BY <2>1 DEF SwitchInv, Writers
  <2>3. "handler" \in tasks \cup sockets
    BY <2>2 DEF TaskInv
  <2>4. \A w \in tasks \cup sockets : w = "handler"
    BY <2>2 DEF HandInv
  <2> QED
    BY <2>3, <2>4
<1>3. UpgradeSpec => []SwitchInv
  BY <1>1, SwitchStep, HandInductive, PipelineInductive, PTL DEF UpgradeSpec
<1> QED
  BY <1>2, <1>3, HandInductive, PipelineInductive, PTL
=============================================================================
