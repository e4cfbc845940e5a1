---------------------------- MODULE Dispatch_proofs ----------------------------
(* Theorems about Dispatch, for every set of apps, requests and failures. *)
EXTENDS Dispatch, SetInduction, SequenceTheorems, TLAPS

(* -------------------------------- the chain ----------------------------- *)

\* What makes the guards' properties inductive: on the way down every frame
\* below the one on top has called Next::run, which a guard is recorded for
\* and `cors` does not do with a preflight request.
ChainInv ==
  /\ app \in Apps /\ req \in Requests
  /\ depth \in 0..Len(Chain)
  /\ phase = "down" =>
       \A i \in 1..Len(Chain) : i < depth =>
         /\ Chain[i] \in OwnKinds => i \in passed
         /\ ~(Chain[i] = "cors" /\ IsPreflight)
  /\ EveryGuardPassed /\ PreflightStopsAtCors

LEMMA ChainType ==
  ASSUME app \in Apps PROVE Chain \in Seq(MiddlewareKinds) /\ Len(Chain) \in Nat
<1>1. app.global \in Seq(MiddlewareKinds) /\ app.group \in Seq(MiddlewareKinds)
  BY DispatchAssumption
<1>2. app.global \o app.group \in Seq(MiddlewareKinds)
  BY <1>1
<1>3. Chain = app.global \o app.group \/ Chain = app.global
  BY DEF Chain
<1>4. Chain \in Seq(MiddlewareKinds)
  BY <1>1, <1>2, <1>3
<1>5. Len(Chain) \in Nat
  BY <1>4
<1> QED
  BY <1>4, <1>5

\* The result leaves a frame, or the frames above a deadline are dropped:
\* nothing is called any more.
LEMMA UpStep ==
  ASSUME ChainInv, UNCHANGED <<app, req, passed, ran>>, phase' # "down",
         depth' \in 0..Len(Chain)
  PROVE  ChainInv'
<1>1. Chain' = Chain /\ IsPreflight' = IsPreflight
  BY DEF Chain, IsPreflight
<1> QED
  BY <1>1 DEF ChainInv, EveryGuardPassed, PreflightStopsAtCors

LEMMA CallNextStep == ASSUME ChainInv, CallNext PROVE ChainInv'
<1>1. Chain' = Chain /\ IsPreflight' = IsPreflight /\ Len(Chain) \in Nat
  BY ChainType DEF CallNext, Chain, IsPreflight, ChainInv
<1>2. /\ depth \in 0..Len(Chain) /\ depth' = depth + 1 /\ depth' \in 0..Len(Chain)
      /\ phase = "down" /\ passed \subseteq passed' /\ UNCHANGED <<app, req, ran>>
  BY <1>1 DEF CallNext, CallsNext, GuardPasses, ChainInv
<1>3. ASSUME NEW i \in 1..Len(Chain), i < depth'
      PROVE  (Chain[i] \in OwnKinds => i \in passed') /\ ~(Chain[i] = "cors" /\ IsPreflight)
  <2>1. CASE i < depth
    BY <1>2, <2>1 DEF ChainInv
  <2>2. CASE i = depth
    <3>1. Top = Chain[i]
      BY <2>2 DEF Top
    <3> QED
      BY <2>2, <3>1 DEF CallNext, CallsNext, GuardPasses
  <2> QED
    BY <1>1, <1>2, <1>3, <2>1, <2>2
<1> QED
  BY <1>1, <1>2, <1>3 DEF ChainInv, EveryGuardPassed, PreflightStopsAtCors

LEMMA CallHandlerStep == ASSUME ChainInv, CallHandler PROVE ChainInv'
<1>1. Chain' = Chain /\ IsPreflight' = IsPreflight /\ Len(Chain) \in Nat
  BY ChainType DEF CallHandler, Chain, IsPreflight, ChainInv
<1>2. /\ depth = Len(Chain) /\ phase = "down" /\ passed \subseteq passed'
      /\ phase' # "down" /\ UNCHANGED <<app, req, depth>>
  BY DEF CallHandler, CallsNext, GuardPasses
<1>3. ASSUME NEW i \in 1..Len(Chain)
      PROVE  (Chain[i] \in OwnKinds => i \in passed') /\ ~(Chain[i] = "cors" /\ IsPreflight)
  <2>1. CASE i < depth
    BY <1>2, <2>1 DEF ChainInv
  <2>2. CASE i = depth
    <3>1. Top = Chain[i]
      BY <2>2 DEF Top
    <3> QED
      BY <2>2, <3>1 DEF CallHandler, CallsNext, GuardPasses
  <2> QED
    BY <1>1, <1>2, <1>3, <2>1, <2>2
<1> QED
  BY <1>1, <1>2, <1>3 DEF ChainInv, EveryGuardPassed, PreflightStopsAtCors

LEMMA ChainStep == ChainInv /\ [Next]_vars => ChainInv'
<1> SUFFICES ASSUME ChainInv, [Next]_vars PROVE ChainInv'
  OBVIOUS
<1> USE DEF history, cookies, logs
<1>0. Len(Chain) \in Nat /\ depth \in 0..Len(Chain)
  BY ChainType DEF ChainInv
<1>1. CASE CallNext
  BY <1>1, CallNextStep
<1>2. CASE CallHandler
  BY <1>2, CallHandlerStep
<1>3. ASSUME NEW r, LeaveWith(r), depth # 0 PROVE ChainInv'
  BY <1>0, <1>3, UpStep DEF LeaveWith
<1>4. CASE AnswerPreflight \/ Refuse
  BY <1>3, <1>4 DEF AnswerPreflight, Refuse, Top, OwnKinds
<1>5. CASE LogRequest \/ ReturnInTime \/ AddCorsHeaders \/ Compress \/ ReturnFromGuard
  BY <1>3, <1>5 DEF LogRequest, ReturnInTime, AddCorsHeaders, Compress,
                   ReturnFromGuard, Returning, Top, OwnKinds
<1>6. ASSUME NEW i \in 1..Len(Chain), Expire(i) PROVE ChainInv'
  BY <1>0, <1>6, UpStep DEF Expire
<1>7. ASSUME NEW r, NEW logsIt, HandlerReturns(r, logsIt) PROVE ChainInv'
  BY <1>0, <1>7, UpStep DEF HandlerReturns
<1>8. CASE CheckJar \/ ApplyCookies \/ Abort
  BY <1>0, <1>8, UpStep DEF CheckJar, ApplyCookies, Abort
<1>9. CASE UNCHANGED <<app, req, phase, depth, passed, ran>>
  <2>1. Chain' = Chain /\ IsPreflight' = IsPreflight
    BY <1>9 DEF Chain, IsPreflight
  <2> QED
    BY <1>9, <2>1 DEF ChainInv, EveryGuardPassed, PreflightStopsAtCors
<1>10. CASE Handler
  BY <1>7, <1>9, <1>10 DEF Handler, HandlerAnswersWith, HandlerFails, MissingState,
                          BadNumber, JsonFails, SpawnHelper
<1>11. ASSUME NEW w \in Writers, PushCookie(w) \/ RaiseFlag(w) PROVE ChainInv'
  BY <1>9, <1>11 DEF PushCookie, RaiseFlag
<1>12. CASE UNCHANGED vars
  BY <1>9, <1>12 DEF vars
<1> QED
  BY <1>1, <1>2, <1>4, <1>5, <1>6, <1>8, <1>10, <1>11, <1>12
  DEF Next, Run, Guard, Terminated

LEMMA ChainInitially == Init => ChainInv
<1> SUFFICES ASSUME Init PROVE ChainInv
  OBVIOUS
<1>1. app \in Apps /\ req \in Requests /\ depth = 0 /\ ran = FALSE
  BY DEF Init
<1>2. Len(Chain) \in Nat
  BY <1>1, ChainType
<1> QED
  BY <1>1, <1>2 DEF ChainInv, EveryGuardPassed, PreflightStopsAtCors

LEMMA ChainInductive == Spec => []ChainInv
  BY ChainInitially, ChainStep, PTL DEF Spec

\* In no chain, however long and however it is put together, does the handler
\* run for a request that some guard did not let through.
THEOREM GuardsPassed == Spec => []EveryGuardPassed
  BY ChainInductive, PTL DEF ChainInv

\* Behind `cors`, wherever it is in the chain, no handler sees a preflight.
THEOREM PreflightStops == Spec => []PreflightStopsAtCors
  BY ChainInductive, PTL DEF ChainInv

(* ------------------------------ the cookies ----------------------------- *)

HasCookieOf(w) == \E i \in 1..Len(jar) : jar[i].by = w

\* A call that is past its push has its cookie in the jar; if one has returned
\* the flag is up; so `apply` misses none of those that had returned before it.
JarInv ==
  /\ jar \in Seq(Cookies)
  /\ queuing \in [Writers -> {"none", "idle", "pushed", "returned"}]
  /\ nonEmpty \in BOOLEAN /\ due \subseteq Writers
  /\ \A w \in Writers : queuing[w] \in {"pushed", "returned"} => HasCookieOf(w)
  /\ (\E w \in Writers : queuing[w] = "returned") => nonEmpty
  /\ phase = "apply" => \A w \in due : HasCookieOf(w)
  /\ CookiesReachTheReply

\* Steps that leave the jar alone and answer nobody.
LEMMA JarKept ==
  ASSUME JarInv, UNCHANGED <<jar, nonEmpty, queuing, due>>,
         phase' \notin {"apply", "done"}
  PROVE  JarInv'
BY DEF JarInv, HasCookieOf, CookiesReachTheReply

LEMMA PushStep ==
  ASSUME JarInv, NEW w \in Writers, PushCookie(w) PROVE JarInv'
<1>1. PICK fits \in BOOLEAN : jar' = Append(jar, [by |-> w, fits |-> fits])
  BY DEF PushCookie
<1>2. /\ jar \in Seq(Cookies) /\ [by |-> w, fits |-> fits] \in Cookies
      /\ jar' \in Seq(Cookies) /\ Len(jar') = Len(jar) + 1 /\ Len(jar) \in Nat
      /\ jar'[Len(jar')] = [by |-> w, fits |-> fits]
      /\ \A i \in 1..Len(jar) : jar'[i] = jar[i]
  BY <1>1 DEF JarInv, Cookies
<1>3. HasCookieOf(w)'
  BY <1>2 DEF HasCookieOf
<1>4. \A v \in Writers : HasCookieOf(v) => HasCookieOf(v)'
  BY <1>2 DEF HasCookieOf
<1>5. /\ queuing' \in [Writers -> {"none", "idle", "pushed", "returned"}]
      /\ \A v \in Writers : v # w => queuing'[v] = queuing[v]
      /\ queuing'[w] = "pushed"
      /\ UNCHANGED <<phase, nonEmpty, due, reply>>
  BY DEF PushCookie, JarInv, history
<1>6. \A n \in 0..Len(jar) : SubSeq(jar', 1, n) = SubSeq(jar, 1, n)
  BY <1>1, <1>2
<1>7. CookiesReachTheReply'
  <2> SUFFICES ASSUME phase = "done", ~(reply.cookies = <<>> /\ due = {})
               PROVE  CookiesReachTheReply'
    BY <1>5 DEF CookiesReachTheReply
  <2>1. PICK n \in 0..Len(jar) :
          /\ reply.cookies = Fitting(SubSeq(jar, 1, n))
          /\ \A v \in due : \E i \in 1..n : jar[i].by = v
    BY DEF JarInv, CookiesReachTheReply
  <2>2. SubSeq(jar', 1, n) = SubSeq(jar, 1, n) /\ n \in 0..Len(jar')
    BY <1>2, <1>6, <2>1
  <2>3. Fitting(SubSeq(jar', 1, n)) = Fitting(SubSeq(jar, 1, n))
    BY <2>2, Zenon
  <2>4. reply'.cookies = Fitting(SubSeq(jar', 1, n))
    BY <1>5, <2>1, <2>3
  <2>5. \A v \in due' : \E i \in 1..n : jar'[i].by = v
    BY <1>2, <1>5, <2>1
  <2> QED
    BY <2>2, <2>4, <2>5 DEF CookiesReachTheReply
<1>8. \A v \in Writers :
        queuing'[v] \in {"pushed", "returned"} => HasCookieOf(v)'
  BY <1>3, <1>4, <1>5 DEF JarInv
<1>9. phase' = "apply" => \A v \in due' : HasCookieOf(v)'
  BY <1>4, <1>5 DEF JarInv
<1>10. (\E v \in Writers : queuing'[v] = "returned") => nonEmpty'
  BY <1>5 DEF JarInv
<1> QED
  BY <1>2, <1>5, <1>7, <1>8, <1>9, <1>10 DEF JarInv

LEMMA FlagStep ==
  ASSUME JarInv, NEW w \in Writers, RaiseFlag(w) PROVE JarInv'
BY DEF RaiseFlag, JarInv, HasCookieOf, CookiesReachTheReply, history

LEMMA CheckJarStep == ASSUME JarInv, CheckJar PROVE JarInv'
<1>1. /\ UNCHANGED <<jar, nonEmpty, queuing>> /\ due' \subseteq Writers
      /\ \A w \in due' : w \in Writers /\ queuing[w] = "returned"
  BY DEF CheckJar, cookies
<1>2. \A w \in due' : HasCookieOf(w)'
  BY <1>1 DEF JarInv, HasCookieOf
<1>3. CASE nonEmpty
  <2>1. phase' = "apply"
    BY <1>3 DEF CheckJar
  <2> QED
    BY <1>1, <1>2, <2>1 DEF JarInv, HasCookieOf, CookiesReachTheReply
<1>4. CASE ~nonEmpty
  <2>1. phase' = "done" /\ reply' = Final(<<>>)
    BY <1>4 DEF CheckJar
  <2>2. due' = {}
    BY <1>1, <1>4 DEF JarInv
  <2>3. reply'.cookies = <<>>
    BY <2>1 DEF Final
  <2> QED
    BY <1>1, <2>1, <2>2, <2>3 DEF JarInv, HasCookieOf, CookiesReachTheReply
<1> QED
  BY <1>3, <1>4

LEMMA ApplyStep == ASSUME JarInv, ApplyCookies PROVE JarInv'
<1>1. /\ phase = "apply" /\ phase' = "done" /\ UNCHANGED <<jar, nonEmpty, queuing, due>>
      /\ reply' = Final(Fitting(jar))
  BY DEF ApplyCookies, cookies, history
<1>2. reply'.cookies = Fitting(jar)
  BY <1>1 DEF Final
<1>3. jar = SubSeq(jar, 1, Len(jar)) /\ Len(jar) \in 0..Len(jar)
  BY DEF JarInv
<1>4. reply'.cookies = Fitting(SubSeq(jar', 1, Len(jar')))
  BY <1>1, <1>2, <1>3
<1>5. \A w \in due' : \E i \in 1..Len(jar') : jar'[i].by = w
  BY <1>1 DEF JarInv, HasCookieOf
<1>6. CookiesReachTheReply'
  BY <1>1, <1>3, <1>4, <1>5 DEF CookiesReachTheReply
<1> QED
  BY <1>1, <1>6 DEF JarInv, HasCookieOf

LEMMA SpawnStep == ASSUME JarInv, SpawnHelper PROVE JarInv'
BY DEF SpawnHelper, HandlerAwaits, JarInv, HasCookieOf, CookiesReachTheReply, history

LEMMA JarStep == JarInv /\ [Next]_vars => JarInv'
<1> SUFFICES ASSUME JarInv, [Next]_vars PROVE JarInv'
  OBVIOUS
<1> USE DEF history, cookies, logs
<1>1. ASSUME NEW r, LeaveWith(r) PROVE JarInv'
  BY <1>1, JarKept DEF LeaveWith
<1>2. CASE AnswerPreflight \/ Refuse \/ LogRequest \/ ReturnInTime
           \/ AddCorsHeaders \/ Compress \/ ReturnFromGuard
  BY <1>1, <1>2 DEF AnswerPreflight, Refuse, LogRequest, ReturnInTime,
                    AddCorsHeaders, Compress, ReturnFromGuard
<1>3. CASE CallNext \/ CallHandler
  BY <1>3, JarKept DEF CallNext, CallHandler, CallsNext
<1>4. ASSUME NEW r, NEW logsIt, HandlerReturns(r, logsIt) PROVE JarInv'
  BY <1>4, JarKept DEF HandlerReturns
<1>5. CASE Handler
  BY <1>4, <1>5, SpawnStep DEF Handler, HandlerAnswersWith, HandlerFails, MissingState,
                          BadNumber, JsonFails
<1>6. CASE Abort \/ \E i \in 1..Len(Chain) : Expire(i)
  BY <1>6, JarKept DEF Abort, Expire
<1>7. CASE CheckJar \/ ApplyCookies
  BY <1>7, CheckJarStep, ApplyStep
<1>8. CASE \E w \in Writers : PushCookie(w) \/ RaiseFlag(w)
  BY <1>8, PushStep, FlagStep
<1>9. CASE UNCHANGED vars
  BY <1>9 DEF vars, JarInv, HasCookieOf, CookiesReachTheReply
<1> QED
  BY <1>2, <1>3, <1>5, <1>6, <1>7, <1>8, <1>9 DEF Next, Run, Guard, Terminated

LEMMA JarInitially == Init => JarInv
<1> SUFFICES ASSUME Init PROVE JarInv
  OBVIOUS
<1>1. queuing \in [Writers -> {"none", "idle", "pushed", "returned"}]
  BY DEF Init, Writers
<1>2. \A w \in Writers : queuing[w] \notin {"pushed", "returned"}
  BY DEF Init, Writers
<1>3. jar \in Seq(Cookies) /\ phase = "down" /\ due = {} /\ nonEmpty = FALSE
  BY DEF Init
<1> QED
  BY <1>1, <1>2, <1>3 DEF JarInv, HasCookieOf, CookiesReachTheReply

\* Whatever becomes of the request, a cookie whose set_cookie returned before
\* the answer left the chain is in the answer, whoever set it.
THEOREM CookiesReach == Spec => []CookiesReachTheReply
<1>1. JarInv => CookiesReachTheReply
  BY DEF JarInv
<1> QED
  BY <1>1, JarInitially, JarStep, PTL DEF Spec

(* ----------------------------- the result ------------------------------- *)

\* What every answer satisfies on its way, rendered or not: an Err has the
\* status it will be rendered with, a body is encoded as often as it says, an
\* envelope made of an error is that error's and tells no more than it may.
Honest(r) ==
  /\ r \in Results
  /\ r.err # NoError => r.status = Status(r.err)
  /\ r.layers = (IF r.coded THEN 1 ELSE 0)
  /\ r.status \in {101, 204, 206, 304} => ~r.coded
  /\ r.from # NoError /\ r.err = NoError =>
       /\ r.code = BusinessCode(r.from)
       /\ r.says = (IF r.from.kind \in ServerErrors THEN "sanitized" ELSE "own")
  /\ r.says # "internals"

LEMMA AnswerHonest ==
  ASSUME NEW status \in Nat, NEW size \in Sizes
  PROVE  /\ Honest(Answer(status, size)) /\ Answer(status, size).err = NoError
         /\ Answer(status, size).from = NoError
BY DEF Honest, Answer, Results, Messages

LEMMA ErrorType ==
  ASSUME NEW kind \in Variants
  PROVE  Error(kind) \in ErrorSet /\ Error(kind).kind = kind
BY DEF Error, ErrorSet

LEMMA StatusType ==
  ASSUME NEW e \in ErrorSet
  PROVE  /\ Status(e) \in {200, 400, 401, 403, 404, 405, 413, 500, 504}
         /\ e # NoError
         /\ UserMessage(e) = (IF e.kind \in ServerErrors THEN "sanitized" ELSE "own")
         /\ BusinessCode(e) \in Int
<1> DEFINE k == e.kind
<1>1. k \in Variants /\ e.code \in Int
  BY DEF ErrorSet
<1>2. "none" \notin Variants /\ "none" # k
  BY <1>1 DEF Variants, ClientErrors, ServerErrors
<1>3. e # NoError
  BY <1>2 DEF NoError
<1>4. Status(e) \in {200, 400, 401, 403, 404, 405, 413, 500, 504}
  BY <1>1 DEF Status, Variants, ClientErrors, ServerErrors
<1>5. BusinessCode(e) \in Int
  BY <1>1, <1>4 DEF BusinessCode
<1>6. UserMessage(e) = (IF e.kind \in ServerErrors THEN "sanitized" ELSE "own")
  BY DEF UserMessage, Display, ServerErrors
<1> QED
  BY <1>3, <1>4, <1>5, <1>6

\* One field of a result is set.
LEMMA WithErr ==
  ASSUME NEW r \in Results, NEW e \in ErrorSet
  PROVE  LET s == [r EXCEPT !.err = e] IN
           /\ s \in Results /\ s.err = e /\ s.status = r.status
           /\ s.code = r.code /\ s.says = r.says /\ s.layers = r.layers
           /\ s.coded = r.coded /\ s.from = r.from
BY DEF Results

LEMMA WithFrom ==
  ASSUME NEW r \in Results, NEW e \in ErrorSet
  PROVE  LET s == [r EXCEPT !.from = e] IN
           /\ s \in Results /\ s.err = r.err /\ s.status = r.status
           /\ s.code = r.code /\ s.says = r.says /\ s.layers = r.layers
           /\ s.coded = r.coded /\ s.from = e
BY DEF Results

LEMMA WithCode ==
  ASSUME NEW r \in Results, NEW c \in Int
  PROVE  LET s == [r EXCEPT !.code = c] IN
           /\ s \in Results /\ s.err = r.err /\ s.status = r.status
           /\ s.code = c /\ s.says = r.says /\ s.layers = r.layers
           /\ s.coded = r.coded /\ s.from = r.from
BY DEF Results

LEMMA WithWords ==
  ASSUME NEW r \in Results, NEW m \in Messages
  PROVE  LET s == [r EXCEPT !.says = m] IN
           /\ s \in Results /\ s.err = r.err /\ s.status = r.status
           /\ s.code = r.code /\ s.says = m /\ s.layers = r.layers
           /\ s.coded = r.coded /\ s.from = r.from
BY DEF Results

LEMMA ErrHonest ==
  ASSUME NEW e \in ErrorSet PROVE Honest(Err(e)) /\ Err(e).err = e
<1> DEFINE A == Answer(Status(e), "small")
           B == [A EXCEPT !.err = e]
           D == [B EXCEPT !.from = e]
<1>1. Status(e) \in {200, 400, 401, 403, 404, 405, 413, 500, 504} /\ e # NoError
  BY StatusType
<1>2. /\ A \in Results /\ A.status = Status(e) /\ A.layers = 0 /\ ~A.coded
      /\ A.says = "own"
  BY <1>1 DEF Answer, Results, Sizes, Messages
<1>3. Err(e) = D
  BY DEF Err, A
<1> HIDE DEF A
<1>4. /\ B \in Results /\ B.err = e /\ B.status = Status(e) /\ B.layers = 0
      /\ ~B.coded /\ B.says = "own"
  BY <1>2, WithErr
<1> HIDE DEF B
<1>5. /\ D \in Results /\ D.err = e /\ D.status = Status(e) /\ D.layers = 0
      /\ ~D.coded /\ D.says = "own"
  BY <1>4, WithFrom
<1> HIDE DEF D
<1> QED
  BY <1>1, <1>3, <1>5 DEF Honest

LEMMA RenderedHonest ==
  ASSUME NEW e \in ErrorSet
  PROVE  /\ Honest(Rendered(e)) /\ Rendered(e).err = NoError
         /\ Rendered(e).status = Status(e) /\ ~Rendered(e).coded
<1> DEFINE A == Answer(Status(e), "small")
           B == [A EXCEPT !.code = BusinessCode(e)]
           C == [B EXCEPT !.says = UserMessage(e)]
           D == [C EXCEPT !.from = e]
<1>1. /\ Status(e) \in {200, 400, 401, 403, 404, 405, 413, 500, 504}
      /\ UserMessage(e) \in Messages /\ UserMessage(e) # "internals"
      /\ BusinessCode(e) \in Int
  BY StatusType DEF Messages
<1>2. /\ A \in Results /\ A.status = Status(e) /\ A.err = NoError
      /\ A.layers = 0 /\ ~A.coded
  BY <1>1 DEF Answer, Results, Sizes, Messages
<1>3. Rendered(e) = D
  BY DEF Rendered, ToResp
<1> HIDE DEF A
<1>4. /\ B \in Results /\ B.status = Status(e) /\ B.err = NoError
      /\ B.layers = 0 /\ ~B.coded /\ B.code = BusinessCode(e)
  BY <1>1, <1>2, WithCode
<1> HIDE DEF B
<1>5. /\ C \in Results /\ C.status = Status(e) /\ C.err = NoError /\ C.layers = 0
      /\ ~C.coded /\ C.code = BusinessCode(e) /\ C.says = UserMessage(e)
  BY <1>1, <1>4, WithWords
<1> HIDE DEF C
<1>6. /\ D \in Results /\ D.status = Status(e) /\ D.err = NoError /\ D.layers = 0
      /\ ~D.coded /\ D.code = BusinessCode(e) /\ D.says = UserMessage(e)
      /\ D.from = e
  BY <1>5, WithFrom
<1> HIDE DEF D
<1> QED
  BY <1>1, <1>3, <1>6, StatusType DEF Honest

LEMMA IntoResponseHonest ==
  ASSUME NEW r, Honest(r)
  PROVE  /\ Honest(IntoResponse(r)) /\ IntoResponse(r).err = NoError
         /\ IntoResponse(r).status = r.status
         /\ r.err = NoError => IntoResponse(r) = r
<1>1. CASE r.err = NoError
  BY <1>1 DEF IntoResponse
<1>2. CASE r.err # NoError
  <2>1. r.err \in ErrorSet /\ IntoResponse(r) = Rendered(r.err)
    BY <1>2 DEF Honest, Results, IntoResponse
  <2> QED
    BY <1>2, <2>1, RenderedHonest DEF Honest
<1> QED
  BY <1>1, <1>2

\* The `cors` frames that CorsCoversInnerMiddleware is about.
Covering(i) ==
  /\ Chain[i] = "cors" /\ Outermost(i) /\ i < Len(Chain) /\ req.origin
  /\ Chain[i + 1] # "layer"

Logged == Len(Chain) > 0 /\ Chain[1] = "logger"

\* While the result is on its way up it is honest; once it has left a frame that
\* renders errors it is a response; and what `logger` and `cors` have done to it
\* still holds of it further out.
ResultInv ==
  /\ phase \in {"down", "handler", "up", "apply", "done", "aborted"}
  /\ phase = "handler" => depth = Len(Chain)
  /\ phase \in {"apply", "done"} => depth = 0
  /\ Honest(res)
  /\ phase \in {"up", "apply", "done"} =>
       /\ depth < Len(Chain) /\ Chain[depth + 1] # "layer" => res.err = NoError
       /\ depth = 0 /\ Logged => logLine = res.status
       /\ \A i \in 1..Len(Chain) : Covering(i) /\ depth < i => res.cors
  /\ phase = "done" =>
       /\ Honest(IntoResponse(res))
       /\ reply.status = IntoResponse(res).status /\ reply.code = IntoResponse(res).code
       /\ reply.says = IntoResponse(res).says /\ reply.cors = IntoResponse(res).cors
       /\ reply.coded = IntoResponse(res).coded
       /\ reply.layers = IntoResponse(res).layers
       /\ reply.from = IntoResponse(res).from

LEMMA ChainKept ==
  ASSUME UNCHANGED <<app, req>>
  PROVE  /\ Chain' = Chain /\ Logged' = Logged
         /\ \A i : Outermost(i)' = Outermost(i)
         /\ \A i : Covering(i)' = Covering(i)
BY DEF Chain, Logged, Covering, Outermost

\* A result is on its way up.
LEMMA ResultSettles ==
  ASSUME ResultInv, ChainInv, UNCHANGED <<app, req>>, depth' \in 0..Len(Chain),
         phase' = "up", Honest(res)',
         depth' < Len(Chain) /\ Chain[depth' + 1] # "layer" => res'.err = NoError,
         depth' = 0 /\ Logged => logLine' = res'.status,
         \A i \in 1..Len(Chain) : Covering(i) /\ depth' < i => res'.cors
  PROVE  ResultInv'
BY ChainKept DEF ResultInv

\* The handler returns something honest: all frames are still there.
LEMMA HandlerSettles ==
  ASSUME ResultInv, ChainInv, NEW r, NEW logsIt, Honest(r), HandlerReturns(r, logsIt)
  PROVE  ResultInv'
<1>1. /\ phase = "handler" /\ phase' = "up" /\ res' = r
      /\ UNCHANGED <<app, req, depth, logLine>>
  BY DEF HandlerReturns, HandlerAwaits
<1>2. depth = Len(Chain) /\ depth \in 0..Len(Chain) /\ Len(Chain) \in Nat
  BY <1>1, ChainType DEF ResultInv, ChainInv
<1>3. ~(depth' = 0 /\ Logged)
  BY <1>1, <1>2 DEF Logged
<1>4. Chain' = Chain
  BY <1>1, ChainKept
<1> QED
  BY <1>1, <1>2, <1>3, <1>4, ResultSettles

\* A frame returns to the one below it: an honest result, a response unless the
\* frame is a type, which has the CORS headers if it had to have them or if the
\* frame is one that covers.
LEMMA LeaveSettles ==
  ASSUME ResultInv, ChainInv, NEW r, LeaveWith(r), depth # 0,
         Honest(r), Chain[depth] # "layer" => r.err = NoError,
         Chain[depth] = "logger" => logLine' = r.status,
         \A i \in 1..Len(Chain) : Covering(i) /\ depth <= i => r.cors
  PROVE  ResultInv'
<1>1. /\ phase' = "up" /\ res' = r /\ depth' = depth - 1 /\ UNCHANGED <<app, req>>
  BY DEF LeaveWith
<1>2. depth \in 1..Len(Chain) /\ Len(Chain) \in Nat
  BY ChainType DEF ChainInv
<1>3. depth' = 0 /\ Logged => logLine' = r.status
  BY <1>1, <1>2 DEF Logged
<1>4. \A i \in 1..Len(Chain) : Covering(i) /\ depth' < i => r.cors
  BY <1>1, <1>2
<1>5. Chain' = Chain
  BY <1>1, ChainKept
<1>6. depth' + 1 = depth
  BY <1>1, <1>2
<1> QED
  BY <1>1, <1>2, <1>3, <1>4, <1>5, <1>6, ResultSettles

\* A deadline drops the frames above it; a frame that covers is not below a
\* `timeout`, so it is still there.
LEMMA ExpireSettles ==
  ASSUME ResultInv, ChainInv, NEW i \in 1..Len(Chain), Expire(i)
  PROVE  ResultInv'
<1>1. /\ i <= depth /\ Chain[i] = "timeout" /\ phase' = "up"
      /\ res' = Rendered(Error("Timeout")) /\ depth' = i - 1
      /\ UNCHANGED <<app, req, logLine>>
  BY DEF Expire, logs
<1>2. depth \in 0..Len(Chain) /\ Len(Chain) \in Nat /\ depth' \in 0..Len(Chain)
  BY <1>1, ChainType DEF ChainInv
<1>3. Honest(res') /\ res'.err = NoError
  BY <1>1, ErrorType, RenderedHonest DEF Variants
<1>4. ~(depth' = 0 /\ Logged)
  BY <1>1, <1>2 DEF Logged
<1>5. ASSUME NEW k \in 1..Len(Chain), Covering(k), depth' < k PROVE FALSE
  <2>1. i <= k /\ Chain[k] = "cors"
    BY <1>1, <1>2, <1>5 DEF Covering
  <2>2. i \in 1..(k - 1)
    BY <1>1, <2>1
  <2> QED
    BY <1>1, <1>5, <2>2 DEF Covering, Outermost
<1>6. Chain' = Chain
  BY <1>1, ChainKept
<1> QED
  BY <1>1, <1>2, <1>3, <1>4, <1>5, <1>6, ResultSettles

\* Frames outside one that covers are `logger` and `gzip`.
LEMMA OutsideCover ==
  ASSUME ChainInv, NEW i \in 1..Len(Chain), Covering(i), depth <= i, depth # 0
  PROVE  depth = i \/ Chain[depth] \in {"logger", "gzip"}
<1>1. depth \in 0..Len(Chain) /\ Len(Chain) \in Nat
  BY ChainType DEF ChainInv
<1> QED
  BY <1>1 DEF Covering, Outermost

\* Inside of one that covers, down to the frame next to it, all render errors.
LEMMA CoverRenders ==
  ASSUME ChainInv, NEW i \in 1..Len(Chain), Covering(i), depth <= i
  PROVE  depth < Len(Chain) /\ Chain[depth + 1] # "layer"
<1>1. depth \in 0..Len(Chain) /\ Len(Chain) \in Nat /\ i < Len(Chain)
  BY ChainType DEF ChainInv, Covering
<1>2. CASE depth = i
  BY <1>1, <1>2 DEF Covering
<1>3. CASE depth + 1 = i
  BY <1>1, <1>3 DEF Covering
<1>4. CASE depth + 1 < i
  BY <1>1, <1>4 DEF Covering, Outermost
<1> QED
  BY <1>1, <1>2, <1>3, <1>4

LEMMA TopType ==
  ASSUME ChainInv
  PROVE  /\ Top = "dispatch" => depth = 0
         /\ Top # "dispatch" => depth \in 1..Len(Chain) /\ Top = Chain[depth]
<1>1. Chain \in Seq(MiddlewareKinds) /\ depth \in 0..Len(Chain)
  BY ChainType DEF ChainInv
<1>2. depth # 0 => Top = Chain[depth] /\ Chain[depth] \in MiddlewareKinds
  BY <1>1 DEF Top
<1>3. "dispatch" \notin MiddlewareKinds
  BY DEF MiddlewareKinds, OwnKinds
<1> QED
  BY <1>1, <1>2, <1>3 DEF Top

\* Next::run reaches the handler, or the one that renders 405.
LEMMA CallHandlerSettles ==
  ASSUME ResultInv, ChainInv, CallHandler PROVE ResultInv'
<1>1. /\ phase = "down" /\ depth = Len(Chain) /\ UNCHANGED <<app, req, depth, logLine>>
      /\ Chain' = Chain
  BY ChainKept DEF CallHandler, CallsNext, logs
<1>2. CASE Served
  <2>1. phase' = "handler" /\ res' = res
    BY <1>2 DEF CallHandler
  <2> QED
    BY <1>1, <2>1 DEF ResultInv
<1>3. CASE ~Served
  <2>1. phase' = "up" /\ res' = Rendered(Error("MethodNotAllowed"))
    BY <1>3 DEF CallHandler
  <2>2. Honest(res') /\ res'.err = NoError
    BY <2>1, ErrorType, RenderedHonest DEF Variants
  <2>3. ~(depth' = 0 /\ Logged)
    BY <1>1, ChainType DEF Logged, ChainInv
  <2>4. \A i \in 1..Len(Chain) : ~(depth' < i)
    BY <1>1, ChainType DEF ChainInv
  <2> QED
    BY <1>1, <2>1, <2>2, <2>3, <2>4, ResultSettles DEF ChainInv
<1> QED
  BY <1>2, <1>3

LEMMA AnswerPreflightSettles ==
  ASSUME ResultInv, ChainInv, AnswerPreflight PROVE ResultInv'
<1> DEFINE A == Answer(204, "empty")
           r == [A EXCEPT !.cors = req.origin]
<1>1. Top = "cors" /\ LeaveWith(r)
  BY DEF AnswerPreflight
<1>2. depth # 0 /\ Chain[depth] = "cors"
  BY <1>1, TopType
<1>3. req.origin \in BOOLEAN
  BY DispatchAssumption DEF ChainInv
<1>4. Honest(A) /\ A.err = NoError /\ A.status = 204 /\ ~A.coded
  BY AnswerHonest DEF Answer, Sizes
<1> HIDE DEF A
<1>5. /\ r \in Results /\ r.err = NoError /\ r.status = A.status
      /\ r.code = A.code /\ r.layers = A.layers /\ r.coded = A.coded
      /\ r.cors = req.origin /\ r.says = A.says /\ r.from = A.from
  BY <1>3, <1>4 DEF Honest, Results
<1>6. Honest(r)
  BY <1>4, <1>5 DEF Honest
<1> HIDE DEF r
<1>7. \A i \in 1..Len(Chain) : Covering(i) /\ depth <= i => r.cors
  BY <1>5 DEF Covering
<1> QED
  BY <1>1, <1>2, <1>5, <1>6, <1>7, LeaveSettles

\* What is inside a covering frame and returns something of its own is neither
\* that frame nor outside of it.
LEMMA OwnAnswerSettles ==
  ASSUME ResultInv, ChainInv, NEW r, LeaveWith(r), Honest(r),
         Top # "layer" => r.err = NoError, Top \in {"guard", "layer", "timeout"}
  PROVE  ResultInv'
<1>1. /\ depth # 0 /\ depth \in 1..Len(Chain) /\ Top = Chain[depth]
      /\ Chain[depth] \in {"guard", "layer", "timeout"}
  BY TopType
<1>2. \A i \in 1..Len(Chain) : Covering(i) => ~(depth <= i)
  BY <1>1, OutsideCover DEF Covering
<1> QED
  BY <1>1, <1>2, LeaveSettles

\* A frame that returns the response it got, or the envelope of an Err.
LEMMA PassSettles ==
  ASSUME ResultInv, ChainInv, LeaveWith(IntoResponse(res)),
         phase = "up", Top \in {"logger", "gzip"},
         Top = "logger" => logLine' = res.status
  PROVE  ResultInv'
<1>1. depth # 0 /\ depth \in 1..Len(Chain) /\ Chain[depth] = Top
  BY TopType
<1>2. Honest(res)
  BY DEF ResultInv
<1>3. ASSUME NEW i \in 1..Len(Chain), Covering(i), depth <= i
      PROVE  IntoResponse(res).cors
  <2>1. depth < i /\ depth < Len(Chain) /\ Chain[depth + 1] # "layer"
    BY <1>1, <1>3, CoverRenders DEF Covering
  <2> QED
    BY <1>2, <1>3, <2>1, IntoResponseHonest DEF ResultInv
<1> QED
  BY <1>1, <1>2, <1>3, IntoResponseHonest, LeaveSettles

LEMMA WithCors ==
  ASSUME NEW r \in Results, NEW b \in BOOLEAN
  PROVE  LET s == [r EXCEPT !.cors = b] IN
           /\ s \in Results /\ s.err = r.err /\ s.status = r.status
           /\ s.code = r.code /\ s.says = r.says /\ s.layers = r.layers
           /\ s.coded = r.coded /\ s.cors = b /\ s.from = r.from
BY DEF Results

LEMMA WithEncoding ==
  ASSUME NEW r \in Results, NEW n \in Nat
  PROVE  LET s == [r EXCEPT !.coded = TRUE, !.layers = n, !.size = "stream"] IN
           /\ s \in Results /\ s.err = r.err /\ s.status = r.status
           /\ s.code = r.code /\ s.says = r.says /\ s.layers = n
           /\ s.coded = TRUE /\ s.cors = r.cors /\ s.from = r.from
<1> DEFINE s1 == [r EXCEPT !.coded = TRUE]
           s2 == [s1 EXCEPT !.layers = n]
           s3 == [s2 EXCEPT !.size = "stream"]
<1>1. /\ s1 \in Results /\ s1.err = r.err /\ s1.status = r.status
      /\ s1.code = r.code /\ s1.says = r.says /\ s1.coded = TRUE /\ s1.cors = r.cors
      /\ s1.from = r.from
  BY DEF Results
<1>2. [r EXCEPT !.coded = TRUE, !.layers = n, !.size = "stream"] = s3
  OBVIOUS
<1> HIDE DEF s1
<1>3. /\ s2 \in Results /\ s2.err = r.err /\ s2.status = r.status /\ s2.layers = n
      /\ s2.code = r.code /\ s2.says = r.says /\ s2.coded = TRUE /\ s2.cors = r.cors
      /\ s2.from = r.from
  BY <1>1 DEF Results
<1> HIDE DEF s2
<1>4. /\ s3 \in Results /\ s3.err = r.err /\ s3.status = r.status /\ s3.layers = n
      /\ s3.code = r.code /\ s3.says = r.says /\ s3.coded = TRUE /\ s3.cors = r.cors
      /\ s3.from = r.from
  BY <1>3 DEF Results, Sizes
<1> QED
  BY <1>2, <1>4

LEMMA AddCorsHeadersSettles ==
  ASSUME ResultInv, ChainInv, AddCorsHeaders PROVE ResultInv'
<1>1. phase = "up" /\ Top = "cors" /\ depth \in 1..Len(Chain) /\ Chain[depth] = "cors"
  BY TopType DEF AddCorsHeaders, Returning
<1>2. Honest(res) /\ Len(Chain) \in Nat
  BY ChainType DEF ResultInv, ChainInv
<1>3. \A i \in 1..Len(Chain) : Covering(i) /\ depth <= i =>
        depth < Len(Chain) /\ Chain[depth + 1] # "layer"
  BY CoverRenders
<1>4. CASE res.err # NoError
  <2>1. LeaveWith(IntoResponse(res))
    BY <1>4 DEF AddCorsHeaders
  <2>2. \A i \in 1..Len(Chain) : ~(Covering(i) /\ depth <= i)
    BY <1>1, <1>3, <1>4 DEF ResultInv
  <2> QED
    BY <1>1, <1>2, <2>1, <2>2, IntoResponseHonest, LeaveSettles
<1>5. CASE res.err = NoError
  <2> DEFINE r == [res EXCEPT !.cors = @ \/ req.origin]
  <2>1. LeaveWith(r)
    BY <1>5 DEF AddCorsHeaders
  <2>2. /\ r \in Results /\ r.err = NoError /\ r.status = res.status
        /\ r.code = res.code /\ r.layers = res.layers /\ r.coded = res.coded
        /\ r.cors = (res.cors \/ req.origin) /\ r.says = res.says
        /\ r.from = res.from
    <3>1. req.origin \in BOOLEAN /\ res.cors \in BOOLEAN /\ res \in Results
      BY <1>2, DispatchAssumption DEF ChainInv, Honest, Results
    <3> QED
      BY <1>5, <3>1, WithCors
  <2> HIDE DEF r
  <2>3. Honest(r)
    BY <1>2, <1>5, <2>2 DEF Honest
  <2>4. \A i \in 1..Len(Chain) : Covering(i) /\ depth <= i => r.cors
    BY <2>2 DEF Covering
  <2> QED
    BY <1>1, <2>1, <2>2, <2>3, <2>4, LeaveSettles
<1> QED
  BY <1>4, <1>5

LEMMA CompressSettles ==
  ASSUME ResultInv, ChainInv, Compress PROVE ResultInv'
<1>1. phase = "up" /\ Top = "gzip" /\ depth \in 1..Len(Chain) /\ Chain[depth] = "gzip"
  BY TopType DEF Compress, Returning
<1>2. CASE ~Compressible(res)
  BY <1>1, <1>2, PassSettles DEF Compress
<1>3. CASE Compressible(res)
  <2> DEFINE r == [res EXCEPT !.coded = TRUE, !.layers = @ + 1, !.size = "stream"]
  <2>1. LeaveWith(r)
    BY <1>3 DEF Compress
  <2>2. /\ Honest(res) /\ res.err = NoError /\ ~res.coded
        /\ res.status \notin {101, 204, 206, 304}
    BY <1>3 DEF ResultInv, Compressible
  <2>3. /\ r \in Results /\ r.err = NoError /\ r.status = res.status
        /\ r.code = res.code /\ r.layers = res.layers + 1 /\ r.coded = TRUE
        /\ r.cors = res.cors /\ r.says = res.says /\ r.from = res.from
    <3> DEFINE n == res.layers + 1
    <3>1. res \in Results /\ n \in Nat
      BY <2>2 DEF Honest, Results
    <3>2. r = [res EXCEPT !.coded = TRUE, !.layers = n, !.size = "stream"] /\ n = res.layers + 1
      OBVIOUS
    <3> HIDE DEF n, r
    <3>3. /\ r \in Results /\ r.err = res.err /\ r.status = res.status
          /\ r.code = res.code /\ r.says = res.says /\ r.layers = n
          /\ r.coded = TRUE /\ r.cors = res.cors /\ r.from = res.from
      BY <3>1, <3>2, WithEncoding
    <3> QED
      BY <2>2, <3>2, <3>3
  <2> HIDE DEF r
  <2>4. Honest(r)
    BY <2>2, <2>3 DEF Honest
  <2>5. \A i \in 1..Len(Chain) : Covering(i) /\ depth <= i => r.cors
    <3> SUFFICES ASSUME NEW i \in 1..Len(Chain), Covering(i), depth <= i PROVE r.cors
      OBVIOUS
    <3>1. depth < i
      BY <1>1 DEF Covering
    <3> QED
      BY <1>1, <2>3, <3>1 DEF ResultInv
  <2> QED
    BY <1>1, <2>1, <2>3, <2>4, <2>5, LeaveSettles
<1> QED
  BY <1>2, <1>3

\* Another status over an answer that is not encoded.
LEMMA WithStatusHonest ==
  ASSUME NEW r, Honest(r), r.err = NoError, ~r.coded, NEW n \in Nat
  PROVE  Honest(WithStatus(n, r))
<1>1. r \in Results
  BY DEF Honest
<1>2. /\ WithStatus(n, r) \in Results /\ WithStatus(n, r).err = r.err
      /\ WithStatus(n, r).status = n /\ WithStatus(n, r).code = r.code
      /\ WithStatus(n, r).says = r.says /\ WithStatus(n, r).layers = r.layers
      /\ WithStatus(n, r).coded = r.coded /\ WithStatus(n, r).from = r.from
  BY <1>1 DEF WithStatus, Results
<1> QED
  BY <1>2 DEF Honest

LEMMA PrecompressedHonest == Honest(Precompressed)
<1> DEFINE A == Answer(200, "large")
           B == [A EXCEPT !.coded = TRUE]
<1>1. Precompressed = [B EXCEPT !.layers = 1]
  BY DEF Precompressed, Content
<1>2. /\ A \in Results /\ A.err = NoError /\ A.status = 200 /\ A.says = "own"
      /\ A.from = NoError
  BY DEF Answer, Results, Sizes, Messages
<1> HIDE DEF A
<1>3. /\ B \in Results /\ B.err = NoError /\ B.status = 200 /\ B.says = "own"
      /\ B.coded = TRUE /\ B.from = NoError
  BY <1>2 DEF Results
<1> HIDE DEF B
<1>4. /\ Precompressed \in Results /\ Precompressed.err = NoError
      /\ Precompressed.status = 200 /\ Precompressed.says = "own"
      /\ Precompressed.from = NoError
      /\ Precompressed.coded = TRUE /\ Precompressed.layers = 1
  BY <1>1, <1>3 DEF Results
<1> QED
  BY <1>4 DEF Honest

LEMMA ContentHonest ==
  ASSUME NEW size \in Sizes
  PROVE  /\ Honest(Content(size)) /\ Content(size) \in Results
         /\ Content(size).err = NoError /\ ~Content(size).coded
         /\ Content(size).says = "own" /\ Content(size).from = NoError
         /\ Content(size).layers = 0 /\ Content(size).status = 200
BY AnswerHonest DEF Content, Answer, Honest

LEMMA BusinessHonest ==
  ASSUME NEW c \in Int
  PROVE  Honest(Business(c)) /\ Business(c).err = NoError /\ ~Business(c).coded
<1> DEFINE A == Content("small")
           B == [A EXCEPT !.code = c]
<1>1. /\ A \in Results /\ A.err = NoError /\ A.status = 200 /\ ~A.coded /\ A.layers = 0
      /\ A.says = "own" /\ A.from = NoError
  BY ContentHonest DEF Sizes
<1>2. Business(c) = B
  BY DEF Business
<1> HIDE DEF A
<1>3. /\ B \in Results /\ B.err = NoError /\ B.status = 200 /\ ~B.coded /\ B.layers = 0
      /\ B.says = "own" /\ B.from = NoError
  BY <1>1, WithCode
<1> HIDE DEF B
<1> QED
  BY <1>2, <1>3 DEF Honest

LEMMA UnserializableHonest == Honest(Unserializable) /\ Unserializable.err = NoError
<1> DEFINE A == Content("small")
           B == [A EXCEPT !.code = 500]
           C == [B EXCEPT !.says = "sanitized"]
<1>1. /\ A \in Results /\ A.err = NoError /\ A.status = 200 /\ ~A.coded /\ A.layers = 0
      /\ A.from = NoError
  BY ContentHonest DEF Sizes
<1>2. Unserializable = C
  BY DEF Unserializable
<1> HIDE DEF A
<1>3. /\ B \in Results /\ B.err = NoError /\ B.status = 200 /\ ~B.coded /\ B.layers = 0
      /\ B.from = NoError
  BY <1>1, WithCode
<1> HIDE DEF B
<1>4. /\ C \in Results /\ C.err = NoError /\ C.status = 200 /\ ~C.coded /\ C.layers = 0
      /\ C.from = NoError /\ C.says = "sanitized"
  BY <1>3, WithWords DEF Messages
<1> HIDE DEF C
<1> QED
  BY <1>2, <1>4 DEF Honest

LEMMA HandlerAnswersHonest == ASSUME NEW r \in HandlerAnswers PROVE Honest(r)
<1>1. \A size \in Sizes :
        Honest(Content(size)) /\ Content(size).err = NoError /\ ~Content(size).coded
  BY ContentHonest
<1>2. "small" \in Sizes /\ "large" \in Sizes /\ "empty" \in Sizes /\ "stream" \in Sizes
  BY DEF Sizes
<1>3. CASE r \in {Unit, Streamed, Content("small"), Content("large")}
  BY <1>1, <1>2, <1>3 DEF Unit, Streamed, Content
<1>4. CASE r \in {Bare(204), Bare(302), Bare(304)}
  BY <1>2, <1>4, AnswerHonest DEF Bare
<1>5. CASE r = WithNumber(201, Content("small"))
  <2>1. r = WithStatus(201, Content("small"))
    BY <1>5 DEF WithNumber
  <2> QED
    BY <1>1, <1>2, <2>1, WithStatusHonest
<1>6. CASE r = WithStatus(206, Content("large"))
  BY <1>1, <1>2, <1>6, WithStatusHonest
<1>7. CASE r = Precompressed
  BY <1>7, PrecompressedHonest
<1>8. ASSUME NEW c \in Codes PROVE Honest(Business(c))
  BY BusinessHonest, DispatchAssumption
<1>9. ASSUME NEW s \in Statuses, NEW c \in Codes
      PROVE  Honest(WithStatus(s, Business(c)))
  <2> DEFINE b == Business(c)
  <2>1. s \in Nat /\ Honest(b) /\ b.err = NoError /\ ~b.coded
    BY BusinessHonest, DispatchAssumption
  <2> HIDE DEF b
  <2>2. Honest(WithStatus(s, b))
    BY <2>1, WithStatusHonest
  <2> QED
    BY <2>2 DEF b
<1> QED
  BY <1>3, <1>4, <1>5, <1>6, <1>7, <1>8, <1>9 DEF HandlerAnswers

LEMMA HandlerSteps ==
  ASSUME ResultInv, ChainInv, Handler, ~SpawnHelper PROVE ResultInv'
<1>1. CASE \E r \in HandlerAnswers : HandlerAnswersWith(r)
  BY <1>1, HandlerAnswersHonest, HandlerSettles DEF HandlerAnswersWith
<1>2. ASSUME NEW e \in Failures, HandlerFails(e) PROVE ResultInv'
  <2> DEFINE a == Rendered(e)
  <2>1. e \in ErrorSet
    BY DispatchAssumption
  <2>2. Honest(Err(e)) /\ Honest(a) /\ a.err = NoError /\ ~a.coded
    BY <2>1, ErrHonest, RenderedHonest
  <2>3. PICK r : /\ HandlerReturns(r, e.kind = "Internal")
                 /\ \/ r \in {Err(e), a}
                    \/ \E s \in Statuses : r = WithStatus(s, a)
    BY <1>2 DEF HandlerFails
  <2> HIDE DEF a
  <2>4. Honest(r)
    <3>1. \A s \in Statuses : s \in Nat
      BY DispatchAssumption
    <3> QED
      BY <2>2, <2>3, <3>1, WithStatusHonest
  <2> QED
    BY <2>3, <2>4, HandlerSettles
<1>3. Error("Internal") \in ErrorSet
  BY ErrorType DEF Variants, ServerErrors
<1>4. CASE MissingState
  BY <1>3, <1>4, ErrHonest, RenderedHonest, HandlerSettles DEF MissingState
<1>5. CASE BadNumber
  <2>1. WithNumber(99, Content("small")) = Rendered(Error("Internal"))
    BY DEF WithNumber
  <2> QED
    BY <1>3, <1>5, <2>1, RenderedHonest, HandlerSettles DEF BadNumber
<1>6. CASE JsonFails
  BY <1>6, UnserializableHonest, HandlerSettles DEF JsonFails
<1> QED
  BY <1>1, <1>2, <1>4, <1>5, <1>6 DEF Handler

\* The answer leaves the chain.
LEMMA FinishSettles ==
  ASSUME ResultInv, ChainInv, NEW set, UNCHANGED <<app, req, depth, res, logLine>>,
         phase \in {"up", "apply"}, depth = 0,
         phase' = "done", reply' = Final(set)
  PROVE  ResultInv'
<1>1. Len(Chain) \in Nat /\ Chain' = Chain
  BY ChainType, ChainKept DEF ChainInv
<1>2. /\ reply'.status = IntoResponse(res).status /\ reply'.code = IntoResponse(res).code
      /\ reply'.says = IntoResponse(res).says /\ reply'.cors = IntoResponse(res).cors
      /\ reply'.coded = IntoResponse(res).coded
      /\ reply'.layers = IntoResponse(res).layers
      /\ reply'.from = IntoResponse(res).from
  BY DEF Final
<1>3. Honest(res) /\ Honest(IntoResponse(res))
  BY IntoResponseHonest DEF ResultInv
<1>4. depth < Len(Chain) /\ Chain[depth + 1] # "layer" => res.err = NoError
  BY <1>1 DEF ResultInv
<1>5. Honest(res') /\ Honest(IntoResponse(res'))
  BY <1>3
<1>6. IntoResponse(res') = IntoResponse(res)
  OBVIOUS
<1>7. /\ depth = 0 /\ Logged => logLine = res.status
      /\ \A i \in 1..Len(Chain) : Covering(i) /\ depth < i => res.cors
  BY DEF ResultInv
<1> QED
  BY <1>1, <1>2, <1>4, <1>5, <1>6, <1>7, ChainKept DEF ResultInv

LEMMA ResultStep == ResultInv /\ ChainInv /\ [Next]_vars => ResultInv'
<1> SUFFICES ASSUME ResultInv, ChainInv, [Next]_vars PROVE ResultInv'
  OBVIOUS
<1> USE DEF history, cookies, logs
<1>1. CASE CallNext
  BY <1>1, ChainKept DEF CallNext, CallsNext, ResultInv
<1>2. CASE CallHandler
  BY <1>2, CallHandlerSettles
<1>3. CASE AnswerPreflight
  BY <1>3, AnswerPreflightSettles
<1>4. CASE Refuse
  <2> DEFINE e == Error("Unauthorized")
  <2>1. e \in ErrorSet
    BY ErrorType DEF Variants
  <2> HIDE DEF e
  <2>2. Honest(Err(e)) /\ Honest(Rendered(e)) /\ Rendered(e).err = NoError
    BY <2>1, ErrHonest, RenderedHonest
  <2>3. LeaveWith(Rendered(e)) \/ (Top = "layer" /\ LeaveWith(Err(e)))
    BY <1>4 DEF Refuse, e
  <2>4. Top \in {"guard", "layer"}
    BY <1>4 DEF Refuse, OwnKinds
  <2> QED
    BY <2>2, <2>3, <2>4, OwnAnswerSettles
<1>5. CASE LogRequest
  BY <1>5, PassSettles DEF LogRequest, Returning
<1>6. CASE ReturnInTime
  <2>1. Honest(IntoResponse(res)) /\ IntoResponse(res).err = NoError
    BY IntoResponseHonest DEF ResultInv
  <2> QED
    BY <1>6, <2>1, OwnAnswerSettles DEF ReturnInTime, Returning
<1>7. CASE AddCorsHeaders
  BY <1>7, AddCorsHeadersSettles
<1>8. CASE Compress
  BY <1>8, CompressSettles
<1>9. CASE ReturnFromGuard
  <2>1. Honest(IntoResponse(res)) /\ IntoResponse(res).err = NoError
    BY IntoResponseHonest DEF ResultInv
  <2>2. Honest(Answer(503, "small")) /\ Answer(503, "small").err = NoError
    BY AnswerHonest DEF Sizes
  <2> DEFINE e == Error("Forbidden")
  <2>3. Honest(Err(e))
    BY ErrorType, ErrHonest DEF Variants
  <2>4. Honest(res) /\ Top \in {"guard", "layer"}
    BY <1>9 DEF ResultInv, ReturnFromGuard, OwnKinds
  <2>5. \/ LeaveWith(IntoResponse(res)) \/ LeaveWith(Answer(503, "small"))
        \/ (Top = "layer" /\ (LeaveWith(res) \/ LeaveWith(Err(e))))
    BY <1>9 DEF ReturnFromGuard
  <2> HIDE DEF e
  <2> QED
    BY <2>1, <2>2, <2>3, <2>4, <2>5, OwnAnswerSettles
<1>10. ASSUME NEW i \in 1..Len(Chain), Expire(i) PROVE ResultInv'
  BY <1>10, ExpireSettles
<1>11. CASE Handler /\ ~SpawnHelper
  BY <1>11, HandlerSteps
<1>12. CASE CheckJar
  <2>1. phase = "up" /\ depth = 0 /\ UNCHANGED <<app, req, depth, res, logLine>>
    BY <1>12, TopType DEF CheckJar, Returning
  <2>2. CASE nonEmpty
    <3>1. phase' = "apply"
      BY <1>12, <2>2 DEF CheckJar
    <3>2. Len(Chain) \in Nat
      BY ChainType DEF ChainInv
    <3> QED
      BY <2>1, <3>1, <3>2, ChainKept DEF ResultInv
  <2>3. CASE ~nonEmpty
    BY <1>12, <2>1, <2>3, FinishSettles DEF CheckJar
  <2> QED
    BY <2>2, <2>3
<1>13. CASE ApplyCookies
  <2>1. phase = "apply" /\ depth = 0
    BY <1>13 DEF ApplyCookies, ResultInv
  <2> QED
    BY <1>13, <2>1, FinishSettles DEF ApplyCookies
<1>14. CASE Abort
  BY <1>14, ChainKept DEF Abort, ResultInv
<1>15. CASE UNCHANGED <<app, req, phase, depth, res, logLine, reply>>
  BY <1>15, ChainKept DEF ResultInv
<1>16. CASE SpawnHelper
  BY <1>15, <1>16 DEF SpawnHelper
<1>17. ASSUME NEW w \in Writers, PushCookie(w) \/ RaiseFlag(w) PROVE ResultInv'
  BY <1>15, <1>17 DEF PushCookie, RaiseFlag
<1>18. CASE UNCHANGED vars
  BY <1>15, <1>18 DEF vars
<1> QED
  BY <1>1, <1>2, <1>3, <1>4, <1>5, <1>6, <1>7, <1>8, <1>9, <1>10, <1>11, <1>12,
     <1>13, <1>14, <1>16, <1>17, <1>18
  DEF Next, Run, Guard, Terminated

LEMMA ResultInitially == Init => ResultInv
BY AnswerHonest DEF Init, ResultInv, Sizes

LEMMA ResultInductive == Spec => []ResultInv
  BY ResultInitially, ChainInductive, ResultStep, PTL DEF Spec

LEMMA ResultFacts ==
  ASSUME ResultInv, ChainInv
  PROVE  /\ EncodedAsDeclared /\ ErrorsAreSanitizedEnvelopes
         /\ LoggerTellsTheTruth /\ CorsCoversInnerMiddleware
<1> DEFINE r == IntoResponse(res)
<1>1. EncodedAsDeclared
  BY DEF ResultInv, EncodedAsDeclared, Honest
<1>2. ErrorsAreSanitizedEnvelopes
  <2>1. Honest(r) /\ r.err = NoError
    BY IntoResponseHonest DEF ResultInv
  <2> QED
    BY <2>1 DEF ResultInv, ErrorsAreSanitizedEnvelopes, Honest
<1>3. /\ Len(Chain) \in Nat
      /\ phase = "done" /\ Len(Chain) > 0 /\ Chain[1] # "layer" => r = res
  BY ChainType DEF ResultInv, ChainInv, IntoResponse
<1>4. LoggerTellsTheTruth
  BY <1>3 DEF ResultInv, LoggerTellsTheTruth, Logged
<1>5. CorsCoversInnerMiddleware
  <2> SUFFICES ASSUME NEW i \in 1..Len(Chain), Covering(i), phase = "done"
               PROVE  reply.cors
    BY DEF CorsCoversInnerMiddleware, Covering
  <2>1. depth = 0 /\ Len(Chain) > 0 /\ Chain[1] # "layer"
    BY <1>3, CoverRenders DEF ResultInv
  <2> QED
    BY <1>3, <2>1 DEF ResultInv
<1> QED
  BY <1>1, <1>2, <1>4, <1>5

\* In no chain is a body encoded twice or against its status.
THEOREM EncodingIsTrue == Spec => []EncodedAsDeclared
  BY ResultInductive, ChainInductive, ResultFacts, PTL

\* Wherever an error is rendered and whatever status is put over it, with every
\* business code, the client gets that error's envelope, sanitized.
THEOREM EnvelopesAreSanitized == Spec => []ErrorsAreSanitizedEnvelopes
  BY ResultInductive, ChainInductive, ResultFacts, PTL

\* An outermost `logger` writes the status that the client receives.
THEOREM LogIsTrue == Spec => []LoggerTellsTheTruth
  BY ResultInductive, ChainInductive, ResultFacts, PTL

\* `cors` reaches every answer of middleware inside it that renders errors.
THEOREM CorsCovers == Spec => []CorsCoversInnerMiddleware
  BY ResultInductive, ChainInductive, ResultFacts, PTL

(* ------------------------------ the shape ------------------------------- *)

\* The header lines `apply` writes for the first n cookies, step by step, exist.
LEMMA WrittenExist ==
  ASSUME NEW queue \in Seq(Cookies), NEW n \in Nat
  PROVE  n <= Len(queue) =>
           \E f : f = [k \in 0..n |->
             IF k = 0 THEN <<>>
             ELSE IF queue[k].fits THEN Append(f[k - 1], queue[k]) ELSE f[k - 1]]
<1> DEFINE Step(s, k) == IF queue[k].fits THEN Append(s, queue[k]) ELSE s
           IsWritten(f, m) ==
             f = [k \in 0..m |-> IF k = 0 THEN <<>> ELSE Step(f[k - 1], k)]
           S == {m \in Nat : m <= Len(queue) => \E f : IsWritten(f, m)}
<1> HIDE DEF Step
<1>1. 0 \in S
  <2>1. IsWritten([k \in 0..0 |-> <<>>], 0)
    OBVIOUS
  <2> QED BY <2>1
<1>2. ASSUME NEW m \in S, m + 1 <= Len(queue)
      PROVE  \E f : IsWritten(f, m + 1)
  <2>1. PICK f : IsWritten(f, m)
    <3> HIDE DEF IsWritten
    <3> QED BY <1>2, LenProperties
  <2> DEFINE g == [k \in 0..(m + 1) |->
                     IF k = m + 1 THEN Step(f[m], m + 1) ELSE f[k]]
  <2>2. \A k \in 0..m : g[k] = f[k]
    OBVIOUS
  <2>3. \A k \in 0..(m + 1) : g[k] = IF k = 0 THEN <<>> ELSE Step(g[k - 1], k)
    <3> SUFFICES ASSUME NEW k \in 0..(m + 1)
                 PROVE  g[k] = IF k = 0 THEN <<>> ELSE Step(g[k - 1], k)
      OBVIOUS
    <3>1. CASE k = m + 1
      <4>1. g[k] = Step(f[m], m + 1) /\ g[k - 1] = f[m]
        BY <3>1
      <4> QED BY <3>1, <4>1
    <3>2. CASE k # m + 1 /\ k # 0
      <4>1. k \in 0..m /\ k - 1 \in 0..m
        BY <3>2
      <4>2. f[k] = Step(f[k - 1], k)
        BY <2>1, <3>2, <4>1
      <4> QED BY <2>2, <3>2, <4>1, <4>2
    <3>3. CASE k = 0
      <4>1. f[0] = <<>>
        BY <2>1
      <4> QED BY <2>2, <3>3, <4>1
    <3> QED BY <3>1, <3>2, <3>3
  <2>4. IsWritten(g, m + 1)
    BY <2>3
  <2> QED BY <2>4
<1>3. S = Nat
  <2>1. S \in SUBSET Nat
    OBVIOUS
  <2>2. \A m \in S : m + 1 \in S
    <3> HIDE DEF IsWritten
    <3> QED BY <1>2
  <2> HIDE DEF S
  <2> QED BY <1>1, <2>1, <2>2, Induct
<1> QED BY <1>3 DEF Step

\* `apply` writes the cookies that fit, all of them, and nothing else.
LEMMA FittingWrites ==
  ASSUME NEW queue \in Seq(Cookies)
  PROVE  /\ Fitting(queue) \in Seq(Cookies)
         /\ \A i \in 1..Len(queue) : queue[i].fits =>
              \E k \in 1..Len(Fitting(queue)) : Fitting(queue)[k] = queue[i]
         /\ \A k \in 1..Len(Fitting(queue)) :
              /\ Fitting(queue)[k].fits
              /\ \E i \in 1..Len(queue) : Fitting(queue)[k] = queue[i]
<1> DEFINE written == CHOOSE f : f = [k \in 0..Len(queue) |->
                        IF k = 0 THEN <<>>
                        ELSE IF queue[k].fits THEN Append(f[k - 1], queue[k])
                        ELSE f[k - 1]]
           Holds(s, n) ==
             /\ s \in Seq(Cookies)
             /\ \A i \in 1..n : queue[i].fits => \E k \in 1..Len(s) : s[k] = queue[i]
             /\ \A k \in 1..Len(s) :
                  s[k].fits /\ \E i \in 1..n : s[k] = queue[i]
           S == {n \in Nat : n <= Len(queue) => Holds(written[n], n)}
<1>1. Len(queue) \in Nat /\ \A n \in 1..Len(queue) : queue[n] \in Cookies
  BY ElementOfSeq, LenProperties
<1>2. Fitting(queue) = written[Len(queue)]
  BY DEF Fitting
<1>3. written = [k \in 0..Len(queue) |->
                   IF k = 0 THEN <<>>
                   ELSE IF queue[k].fits THEN Append(written[k - 1], queue[k])
                   ELSE written[k - 1]]
  <2>1. \E f : f = [k \in 0..Len(queue) |->
                      IF k = 0 THEN <<>>
                      ELSE IF queue[k].fits THEN Append(f[k - 1], queue[k])
                      ELSE f[k - 1]]
    <3>1. Len(queue) \in Nat /\ Len(queue) <= Len(queue)
      BY <1>1
    <3> QED BY <3>1, WrittenExist, Zenon
  <2> QED BY <2>1
<1> HIDE DEF written
<1>4. 0 \in S
  <2>1. written[0] = <<>>
    BY <1>1, <1>3
  <2>2. Holds(<<>>, 0)
    OBVIOUS
  <2> HIDE DEF Holds
  <2> QED BY <2>1, <2>2
<1>5. ASSUME NEW n \in Nat, n + 1 <= Len(queue), Holds(written[n], n)
      PROVE  Holds(written[n + 1], n + 1)
  <2> DEFINE s == written[n]
             c == queue[n + 1]
  <2>1. c \in Cookies
    BY <1>1, <1>5
  <2>2. written[n + 1] = IF c.fits THEN Append(s, c) ELSE s
    <3>1. n + 1 \in 0..Len(queue) /\ n + 1 # 0 /\ (n + 1) - 1 = n
      BY <1>1, <1>5
    <3> HIDE DEF Holds, S
    <3> QED BY <1>3, <3>1
  <2>3. Holds(s, n)
    BY <1>5
  <2> HIDE DEF s
  <2>4. CASE ~c.fits
    <3>1. \A i \in 1..(n + 1) : queue[i].fits => i \in 1..n
      BY <2>4
    <3>2. Holds(s, n + 1)
      BY <2>3, <3>1
    <3> HIDE DEF Holds
    <3> QED BY <2>2, <2>4, <3>2
  <2>5. CASE c.fits
    <3> DEFINE t == Append(s, c)
    <3>1. /\ t \in Seq(Cookies) /\ Len(s) \in Nat /\ Len(t) = Len(s) + 1
          /\ \A k \in 1..Len(s) : t[k] = s[k] /\ k \in 1..Len(t)
          /\ t[Len(s) + 1] = c /\ Len(s) + 1 \in 1..Len(t)
      BY <2>1, <2>3
    <3> HIDE DEF t
    <3>2. \A i \in 1..(n + 1) : queue[i].fits => \E k \in 1..Len(t) : t[k] = queue[i]
      <4> SUFFICES ASSUME NEW i \in 1..(n + 1), queue[i].fits
                   PROVE  \E k \in 1..Len(t) : t[k] = queue[i]
        OBVIOUS
      <4>1. CASE i = n + 1
        BY <3>1, <4>1
      <4>2. CASE i # n + 1
        <5>1. PICK k \in 1..Len(s) : s[k] = queue[i]
          BY <2>3, <4>2
        <5> QED BY <3>1, <5>1
      <4> QED BY <4>1, <4>2
    <3>3. \A k \in 1..Len(t) : t[k].fits /\ \E i \in 1..(n + 1) : t[k] = queue[i]
      <4> SUFFICES ASSUME NEW k \in 1..Len(t)
                   PROVE  t[k].fits /\ \E i \in 1..(n + 1) : t[k] = queue[i]
        OBVIOUS
      <4>1. CASE k = Len(s) + 1
        BY <2>5, <3>1, <4>1
      <4>2. CASE k # Len(s) + 1
        <5>1. k \in 1..Len(s) /\ t[k] = s[k]
          BY <3>1, <4>2
        <5> QED BY <2>3, <5>1
      <4> QED BY <4>1, <4>2
    <3>4. Holds(t, n + 1)
      BY <3>1, <3>2, <3>3
    <3> HIDE DEF Holds
    <3> QED BY <2>2, <2>5, <3>4 DEF t
  <2> QED BY <2>4, <2>5
<1>6. S = Nat
  <2>1. S \in SUBSET Nat
    OBVIOUS
  <2>2. \A n \in S : n + 1 \in S
    <3> HIDE DEF Holds
    <3> QED BY <1>1, <1>5
  <2> HIDE DEF S
  <2> QED BY <1>4, <2>1, <2>2, Induct
<1> QED BY <1>1, <1>2, <1>6

\* With JarInv, ChainInv and ResultInv, the rest of TypeOK.
ShapeInv ==
  /\ passed \subseteq 1..Len(Chain) /\ ran \in BOOLEAN
  /\ errorLogged \in BOOLEAN /\ logLine \in Nat
  /\ reply \in Replies \cup {NoReply}

\* What dispatch returns has the type of a reply.
LEMMA FinalType ==
  ASSUME NEW set \in Seq(Cookies), Honest(res)
  PROVE  Final(set) \in Replies
<1> DEFINE r == IntoResponse(res)
           size == IF req.method = "HEAD" /\ req.matched THEN "empty" ELSE r.size
<1>1. r \in Results
  BY IntoResponseHonest DEF Honest
<1>2. Final(set) = [status |-> r.status, code |-> r.code, says |-> r.says,
                    cors |-> r.cors, coded |-> r.coded, layers |-> r.layers,
                    from |-> r.from,
                    cookies |-> set, size |-> size]
  BY DEF Final
<1> HIDE DEF r
<1>3. size \in Sizes
  BY <1>1 DEF Results, Sizes
<1> HIDE DEF size
<1> QED BY <1>1, <1>2, <1>3 DEF Results, Replies

\* Steps that call nobody, log nothing and answer nobody.
LEMMA ShapeKept ==
  ASSUME ShapeInv, UNCHANGED <<app, req, passed, ran, logs, reply>>
  PROVE  ShapeInv'
<1>1. Chain' = Chain
  BY ChainKept
<1> QED BY <1>1 DEF ShapeInv, logs

\* A handler's answer, whatever it is.
LEMMA ShapeOfHandler ==
  ASSUME ShapeInv, NEW r, NEW logsIt \in BOOLEAN, HandlerReturns(r, logsIt)
  PROVE  ShapeInv'
<1>1. /\ UNCHANGED <<app, req, passed, ran, logLine, reply>>
      /\ errorLogged' = (errorLogged \/ logsIt)
  BY DEF HandlerReturns, history
<1>2. errorLogged' \in BOOLEAN
  BY <1>1
<1> QED BY <1>1, <1>2, ChainKept DEF ShapeInv

LEMMA ShapeStep ==
  ShapeInv /\ ChainInv /\ JarInv /\ ResultInv /\ [Next]_vars => ShapeInv'
<1> SUFFICES ASSUME ShapeInv, ChainInv, JarInv, ResultInv, [Next]_vars
             PROVE  ShapeInv'
  OBVIOUS
<1> USE DEF history, cookies
<1>1. ASSUME NEW r, LeaveWith(r), UNCHANGED logs PROVE ShapeInv'
  BY <1>1, ShapeKept DEF LeaveWith
<1>2. CASE AnswerPreflight \/ Refuse \/ ReturnInTime \/ AddCorsHeaders
           \/ Compress \/ ReturnFromGuard
  BY <1>1, <1>2 DEF AnswerPreflight, Refuse, ReturnInTime, AddCorsHeaders,
                    Compress, ReturnFromGuard
<1>3. CASE LogRequest
  <2>1. /\ UNCHANGED <<app, req, passed, ran, errorLogged, reply>>
        /\ logLine' = res.status
    BY <1>3 DEF LogRequest, LeaveWith
  <2>2. res.status \in Nat
    BY DEF ResultInv, Honest, Results
  <2> QED BY <2>1, <2>2, ChainKept DEF ShapeInv
<1>4. CASE CallNext \/ CallHandler
  <2>1. /\ UNCHANGED <<app, req, logs, reply>> /\ ran' \in {ran, TRUE}
        /\ passed' = IF Top \in OwnKinds THEN passed \cup {depth} ELSE passed
    BY <1>4 DEF CallNext, CallHandler, GuardPasses
  <2>2. Top \in OwnKinds => depth \in 1..Len(Chain)
    BY DEF Top, ChainInv, OwnKinds
  <2>3. Chain' = Chain
    BY <2>1, ChainKept
  <2>4. ran' \in BOOLEAN
    BY <2>1 DEF ShapeInv
  <2> QED BY <2>1, <2>2, <2>3, <2>4 DEF ShapeInv, logs
<1>5. ASSUME NEW r, NEW logsIt \in BOOLEAN, HandlerReturns(r, logsIt)
      PROVE  ShapeInv'
  BY <1>5, ShapeOfHandler
<1>6. CASE Handler
  <2>1. CASE SpawnHelper
    BY <2>1, ShapeKept DEF SpawnHelper
  <2>2. \A e : (e.kind = "Internal") \in BOOLEAN
    OBVIOUS
  <2> QED BY <1>5, <1>6, <2>1, <2>2 DEF Handler, HandlerAnswersWith, HandlerFails,
                                        MissingState, BadNumber, JsonFails
<1>7. CASE Abort \/ \E i \in 1..Len(Chain) : Expire(i)
  BY <1>7, ShapeKept DEF Abort, Expire, logs
<1>8. CASE \E w \in Writers : PushCookie(w) \/ RaiseFlag(w)
  BY <1>8, ShapeKept DEF PushCookie, RaiseFlag
<1>9. CASE CheckJar \/ ApplyCookies
  <2>1. /\ UNCHANGED <<app, req, passed, ran, logs>>
        /\ reply' = reply \/ reply' = Final(<<>>) \/ reply' = Final(Fitting(jar))
    BY <1>9 DEF CheckJar, ApplyCookies
  <2>2. <<>> \in Seq(Cookies) /\ Fitting(jar) \in Seq(Cookies)
    BY FittingWrites DEF JarInv
  <2>3. reply' \in Replies \cup {NoReply}
    BY <2>1, <2>2, FinalType DEF ShapeInv, ResultInv
  <2> QED BY <2>1, <2>3, ChainKept DEF ShapeInv, logs
<1>10. CASE UNCHANGED vars
  BY <1>10, ShapeKept DEF vars
<1> QED
  BY <1>2, <1>3, <1>4, <1>6, <1>7, <1>8, <1>9, <1>10 DEF Next, Run, Guard, Terminated

LEMMA ShapeInitially == Init => ShapeInv
<1> SUFFICES ASSUME Init PROVE ShapeInv
  OBVIOUS
<1>1. passed \subseteq 1..Len(Chain) /\ ran \in BOOLEAN
  BY DEF Init
<1>2. errorLogged \in BOOLEAN /\ logLine \in Nat
  BY DEF Init
<1>3. reply \in Replies \cup {NoReply}
  <2>1. reply = NoReply
    BY DEF Init
  <2> QED BY <2>1
<1> QED BY <1>1, <1>2, <1>3 DEF ShapeInv

LEMMA TypeFollows == ChainInv /\ JarInv /\ ResultInv /\ ShapeInv => TypeOK
  BY DEF ChainInv, JarInv, ResultInv, ShapeInv, TypeOK, Honest

\* The state has its type, whatever the chain, the request and the handler are.
THEOREM TypeCorrect == Spec => []TypeOK
<1>1. Spec => []JarInv
  BY JarInitially, JarStep, PTL DEF Spec
<1> QED
  BY <1>1, ShapeInitially, TypeFollows, ShapeStep, ChainInductive,
     ResultInductive, PTL DEF Spec

\* Each writer whose call had returned has a cookie in the jar, and it is in the
\* reply unless it fits in no header.
NoCookieIsLost ==
  phase = "done" =>
    \A w \in due : \E i \in 1..Len(jar) :
      /\ jar[i].by = w
      /\ jar[i].fits => \E k \in 1..Len(reply.cookies) : reply.cookies[k] = jar[i]

LEMMA CookiesFollow == JarInv => NoCookieIsLost
<1> SUFFICES ASSUME JarInv, phase = "done", NEW w \in due
             PROVE  \E i \in 1..Len(jar) :
                      /\ jar[i].by = w
                      /\ jar[i].fits => \E k \in 1..Len(reply.cookies) :
                                          reply.cookies[k] = jar[i]
  BY DEF NoCookieIsLost
<1>1. PICK n \in 0..Len(jar) :
        /\ reply.cookies = Fitting(SubSeq(jar, 1, n))
        /\ \A v \in due : \E i \in 1..n : jar[i].by = v
  BY DEF JarInv, CookiesReachTheReply
<1>2. PICK i \in 1..n : jar[i].by = w
  BY <1>1
<1>3. /\ SubSeq(jar, 1, n) \in Seq(Cookies) /\ Len(SubSeq(jar, 1, n)) = n
      /\ SubSeq(jar, 1, n)[i] = jar[i] /\ i \in 1..Len(jar)
  BY <1>1 DEF JarInv
<1> DEFINE queue == SubSeq(jar, 1, n)
<1>4. queue[i].fits =>
        \E k \in 1..Len(Fitting(queue)) : Fitting(queue)[k] = queue[i]
  <2>1. queue \in Seq(Cookies) /\ i \in 1..Len(queue)
    BY <1>3
  <2> HIDE DEF queue
  <2> QED BY <2>1, FittingWrites
<1>5. jar[i].fits => \E k \in 1..Len(reply.cookies) : reply.cookies[k] = jar[i]
  <2>1. reply.cookies = Fitting(queue) /\ queue[i] = jar[i]
    BY <1>1, <1>3
  <2> HIDE DEF queue
  <2> QED BY <1>4, <2>1
<1> HIDE DEF queue
<1> QED BY <1>2, <1>3, <1>5

\* The same as CookiesReach for a single cookie: what the application set before
\* the answer left the chain reaches the client.
THEOREM CookiesAreSent == Spec => []NoCookieIsLost
  BY CookiesFollow, JarInitially, JarStep, PTL DEF Spec
=============================================================================
