------------------------- MODULE RequestBody_proofs -------------------------
(***************************************************************************)
(* Proofs about module RequestBody, for any number of readers, any body    *)
(* length and any limits.                                                  *)
(*                                                                         *)
(* The inductive invariant follows the raw body: while the slot has it     *)
(* nothing has happened yet; whoever took it is alone, has received        *)
(* exactly what was sent, and finds the cache empty.                       *)
(***************************************************************************)
EXTENDS RequestBody, TLAPS

\* The slot still has the raw body: nobody has read or been refused anything.
Untouched ==
  /\ sent = 0 /\ cache = NoCache /\ ~streamed
  /\ \A r \in Readers : pc[r] = "ready" /\ out[r].kind \in {"none", "error"}

\* What holds of the reader that owns the raw body.
OwnerInv(r) ==
  /\ pc[r] # "ready" => inner = "none" /\ cache = NoCache /\ got[r] = sent
  /\ pc[r] \in {"reading", "storing"} =>
       got[r] + left[r] = granted[r] /\ ~streamed
                 /\ out[r].kind \in {"none", "error"}
  /\ pc[r] = "storing" => sent = size
  /\ pc[r] = "ready" => got[r] = 0

IInv ==
  /\ TypeOK
  /\ inner = "some" => Untouched
  /\ \A r \in Readers : OwnerInv(r)
  /\ SingleConsumer
  /\ LimitIsExact
  /\ SuccessMeansWholeBody
  /\ CacheIsWholeBody

\* The answers a call can return have the type of an answer.
LEMMA ResultType ==
  ASSUME NEW kind \in Kinds, NEW n \in Nat
  PROVE  Result(kind, n) \in [kind : Kinds, n : Nat]
  BY DEF Result

\* A Context is created with the shape TypeOK describes.
LEMMA InitType == BodyAssumption /\ Init => TypeOK
  <1> SUFFICES ASSUME BodyAssumption, Init PROVE TypeOK
    OBVIOUS
  <1>1. size \in Nat
    BY DEF BodyAssumption, Init
  <1>2. Result("none", 0) \in [kind : Kinds, n : Nat]
    BY ResultType DEF Kinds
  <1>3. out \in [Readers -> [kind : Kinds, n : Nat]]
    BY <1>2 DEF Init
  <1>4. /\ pc \in [Readers -> Pcs] /\ left \in [Readers -> Nat]
        /\ got \in [Readers -> Nat] /\ granted \in [Readers -> Nat]
    BY DEF Init, Pcs
  <1>5. /\ size \in Sizes /\ inner = "some" /\ cache = NoCache
        /\ limit = DefaultLimit /\ sent = 0 /\ streamed = FALSE
    BY DEF Init
  <1>6. sent \in Nat /\ sent <= size
    BY <1>1, <1>5
  <1>7. /\ inner \in {"some", "none"} /\ cache \in Nat \cup {NoCache}
        /\ limit \in Limits \cup {DefaultLimit} /\ streamed \in BOOLEAN
    BY <1>5
  <1>8. QED
    BY <1>3, <1>4, <1>5, <1>6, <1>7 DEF TypeOK

\* Returning from a call keeps the types of what it changes.
LEMMA ReturnType ==
  ASSUME TypeOK, NEW r \in Readers, NEW kind \in Kinds, NEW n \in Nat,
         Return(r, kind, n)
  PROVE  /\ pc' \in [Readers -> Pcs]
         /\ out' \in [Readers -> [kind : Kinds, n : Nat]]
         /\ \A q \in Readers : /\ pc'[q] = IF q = r THEN "ready" ELSE pc[q]
                               /\ out'[q] = IF q = r THEN Result(kind, n) ELSE out[q]
  <1>1. Result(kind, n) \in [kind : Kinds, n : Nat]
    BY ResultType
  <1>2. "ready" \in Pcs
    BY DEF Pcs
  <1>3. QED
    BY <1>1, <1>2 DEF TypeOK, Return

\* A new Context satisfies the invariant.
LEMMA InitIInv == BodyAssumption /\ Init => IInv
  <1> SUFFICES ASSUME BodyAssumption, Init PROVE IInv
    OBVIOUS
  <1>1. TypeOK
    BY InitType
  <1>2. Untouched /\ SingleConsumer /\ LimitIsExact
    BY DEF Init, Untouched, Result, SingleConsumer, LimitIsExact
  <1>3. \A r \in Readers : OwnerInv(r)
    BY DEF Init, OwnerInv
  <1>4. SuccessMeansWholeBody /\ CacheIsWholeBody
    BY DEF Init, SuccessMeansWholeBody, CacheIsWholeBody, Result
  <1>5. QED
    BY <1>1, <1>2, <1>3, <1>4 DEF IInv

\* A call that returns at once, without the raw body: what it answers is the
\* cached body, nothing, or a refused content type.
AnswersAtOnce(r) ==
  \E kind \in {"cached", "stream", "empty", "error"}, n \in Nat :
    /\ pc[r] = "ready" /\ Return(r, kind, n)
    /\ kind \in {"cached", "stream"} => cache # NoCache /\ n = cache
    /\ inner = "some" => kind = "error"
    /\ UNCHANGED <<size, slot, sent, left, got, granted, streamed>>

\* A call answered at once keeps the invariant.
LEMMA AnswersAtOncePreserves ==
  ASSUME BodyAssumption, IInv, NEW r \in Readers, AnswersAtOnce(r)
  PROVE  IInv'
  <1> USE DEF IInv
  <1>1. PICK kind \in {"cached", "stream", "empty", "error"}, n \in Nat :
          /\ pc[r] = "ready" /\ Return(r, kind, n)
          /\ kind \in {"cached", "stream"} => cache # NoCache /\ n = cache
          /\ inner = "some" => kind = "error"
          /\ UNCHANGED <<size, slot, sent, left, got, granted, streamed>>
    BY DEF AnswersAtOnce
  <1>2. /\ pc' \in [Readers -> Pcs]
        /\ out' \in [Readers -> [kind : Kinds, n : Nat]]
        /\ \A q \in Readers : /\ pc'[q] = pc[q]
                              /\ out'[q] = IF q = r THEN Result(kind, n) ELSE out[q]
    <2>1. TypeOK /\ kind \in Kinds /\ Return(r, kind, n) /\ n \in Nat
      BY <1>1 DEF Kinds
    <2>2. QED
      BY <1>1, <2>1, ReturnType
  <1>3. TypeOK'
    BY <1>1, <1>2 DEF TypeOK, slot
  <1>4. inner' = "some" => Untouched'
    BY <1>1, <1>2 DEF Untouched, slot, Result
  <1>5. (\A q \in Readers : OwnerInv(q))' /\ SingleConsumer'
    BY <1>1, <1>2 DEF OwnerInv, SingleConsumer, slot, Result
  <1>6. LimitIsExact' /\ SuccessMeansWholeBody' /\ CacheIsWholeBody'
    BY <1>1, <1>2
    DEF LimitIsExact, SuccessMeansWholeBody, CacheIsWholeBody, slot, Result
  <1>7. QED
    BY <1>3, <1>4, <1>5, <1>6

\* The owner of the raw body is done with it: it kept the whole body, handed
\* out the whole stream, or lost it to an error, a refusal or a cancellation.
LetsGo(r) ==
  \E kind \in {"read", "stream", "too_large", "error", "none"}, n \in Nat :
    /\ pc[r] # "ready" /\ Return(r, kind, n) /\ DropBody(r)
    /\ kind = "read" => pc[r] = "storing" /\ cache' = size
    /\ kind # "read" => cache' = cache
    /\ kind \in {"read", "stream"} => n = size
    /\ kind = "too_large" => pc[r] = "reading" /\ size > granted[r]
    /\ sent' \in Nat /\ sent' <= size
    /\ UNCHANGED <<size, inner, limit, granted, streamed>>

\* So does an owner that lets go of the body.
LEMMA LetsGoPreserves ==
  ASSUME BodyAssumption, IInv, NEW r \in Readers, LetsGo(r)
  PROVE  IInv'
  <1> USE DEF IInv
  <1>1. PICK kind \in {"read", "stream", "too_large", "error", "none"}, n \in Nat :
          /\ pc[r] # "ready" /\ Return(r, kind, n) /\ DropBody(r)
          /\ kind = "read" => pc[r] = "storing" /\ cache' = size
          /\ kind # "read" => cache' = cache
          /\ kind \in {"read", "stream"} => n = size
          /\ kind = "too_large" => pc[r] = "reading" /\ size > granted[r]
          /\ sent' \in Nat /\ sent' <= size
          /\ UNCHANGED <<size, inner, limit, granted, streamed>>
    BY DEF LetsGo
  <1>2. /\ pc' \in [Readers -> Pcs]
        /\ out' \in [Readers -> [kind : Kinds, n : Nat]]
        /\ \A q \in Readers : /\ pc'[q] = IF q = r THEN "ready" ELSE pc[q]
                              /\ out'[q] = IF q = r THEN Result(kind, n) ELSE out[q]
    <2>1. TypeOK /\ kind \in Kinds /\ Return(r, kind, n) /\ n \in Nat
      BY <1>1 DEF Kinds
    <2>2. QED
      BY <1>1, <2>1, ReturnType
  <1>3. /\ left' \in [Readers -> Nat] /\ got' \in [Readers -> Nat]
        /\ \A q \in Readers : got'[q] = IF q = r THEN 0 ELSE got[q]
    BY <1>1 DEF DropBody, TypeOK
  <1>4. \A q \in Readers : pc'[q] = "ready"
    BY <1>1, <1>2 DEF SingleConsumer
  <1>5. inner' = "none" /\ size \in Nat
    BY <1>1 DEF SingleConsumer, BodyAssumption, TypeOK
  <1>6. TypeOK'
    BY <1>1, <1>2, <1>3, <1>5 DEF TypeOK
  <1>7. (\A q \in Readers : OwnerInv(q))' /\ SingleConsumer'
    BY <1>1, <1>3, <1>4 DEF OwnerInv, SingleConsumer
  <1>8. LimitIsExact'
    <2>1. kind = "read" => size <= granted[r]
      BY <1>1 DEF OwnerInv, LimitIsExact
    <2>2. QED
      BY <1>1, <1>2, <1>4, <2>1 DEF LimitIsExact, Result
  <1>9. SuccessMeansWholeBody'
    BY <1>1, <1>2 DEF SuccessMeansWholeBody, OwnerInv, Result
  <1>10. CacheIsWholeBody'
    BY <1>1 DEF CacheIsWholeBody, OwnerInv
  <1>11. QED
    BY <1>5, <1>6, <1>7, <1>8, <1>9, <1>10

\* Taking the raw body out of the slot, into a buffer or into a stream.
LEMMA TakePreserves ==
  ASSUME BodyAssumption, IInv, NEW r \in Readers, StartRead(r) \/ StreamRaw(r)
  PROVE  IInv'
  <1> USE DEF IInv
  <1>1. /\ inner = "some" /\ Untouched
        /\ inner' = "none" /\ UNCHANGED <<size, cache, limit, sent, got, out>>
    BY DEF StartRead, StreamRaw
  <1>2. limit \in Nat
    BY DEF TypeOK, BodyAssumption
  <1>3. TypeOK'
    <2>1. pc' \in [Readers -> Pcs] /\ streamed' \in BOOLEAN
      BY DEF StartRead, StreamRaw, TypeOK, Pcs
    <2>2. left' \in [Readers -> Nat] /\ granted' \in [Readers -> Nat]
      BY <1>2 DEF StartRead, StreamRaw, TypeOK
    <2>3. QED
      BY <1>1, <2>1, <2>2 DEF TypeOK
  <1>4. (\A q \in Readers : OwnerInv(q))'
    BY <1>1, <1>2 DEF StartRead, StreamRaw, OwnerInv, Untouched, TypeOK
  <1>5. SingleConsumer'
    BY <1>1 DEF StartRead, StreamRaw, SingleConsumer, Untouched, TypeOK
  <1>6. LimitIsExact'
    BY <1>1, <1>2 DEF StartRead, StreamRaw, LimitIsExact, Untouched, OwnerInv, TypeOK
  <1>7. SuccessMeansWholeBody' /\ CacheIsWholeBody'
    BY <1>1 DEF SuccessMeansWholeBody, CacheIsWholeBody, Untouched
  <1>8. QED
    BY <1>1, <1>3, <1>4, <1>5, <1>6, <1>7

\* A chunk reaches the owner.
LEMMA ChunkPreserves ==
  ASSUME BodyAssumption, IInv, NEW r \in Readers, NEW n \in 1..(size - sent),
         ReadChunk(r, n) \/ StreamChunk(r, n)
  PROVE  IInv'
  <1> USE DEF IInv
  <1>1. /\ pc[r] \in {"reading", "streaming"} /\ sent' = sent + n
        /\ got' = [got EXCEPT ![r] = @ + n]
        /\ UNCHANGED <<size, slot, pc, granted, out, streamed>>
    BY DEF ReadChunk, StreamChunk
  <1>2. n \in Nat /\ size \in Nat /\ sent + n <= size
    BY DEF TypeOK, BodyAssumption
  <1>3. TypeOK'
    BY <1>1, <1>2 DEF ReadChunk, StreamChunk, TypeOK, slot
  <1>4. \A q \in Readers : q # r => pc[q] = "ready"
    BY <1>1 DEF SingleConsumer
  <1>5. /\ pc[r] = "reading" => n <= left[r] /\ left' = [left EXCEPT ![r] = @ - n]
        /\ pc[r] = "streaming" => left' = left
    BY DEF ReadChunk, StreamChunk
  <1>6. (\A q \in Readers : OwnerInv(q))'
    BY <1>1, <1>2, <1>4, <1>5 DEF OwnerInv, TypeOK, slot
  <1>7. LimitIsExact'
    BY <1>1, <1>2, <1>4, <1>5 DEF LimitIsExact, OwnerInv, TypeOK, slot
  <1>8. inner' # "some" /\ SingleConsumer'
    BY <1>1 DEF SingleConsumer, slot
  <1>9. SuccessMeansWholeBody' /\ CacheIsWholeBody'
    BY <1>1 DEF SuccessMeansWholeBody, CacheIsWholeBody, slot
  <1>10. QED
    BY <1>3, <1>6, <1>7, <1>8, <1>9

\* Every step is of one of these kinds.
LEMMA StepKinds ==
  ASSUME BodyAssumption, IInv, [Next]_vars
  PROVE  \/ \E r \in Readers :
              \/ AnswersAtOnce(r) \/ LetsGo(r) \/ StartRead(r) \/ StreamRaw(r)
              \/ \E n \in 1..(size - sent) : ReadChunk(r, n) \/ StreamChunk(r, n)
              \/ ReadEnd(r)
         \/ \E l \in Limits : SetBodyLimit(l)
         \/ UNCHANGED vars
  <1>1. size \in Nat /\ sent \in Nat /\ sent <= size
    BY DEF IInv, TypeOK, BodyAssumption
  <1>2. ASSUME NEW r \in Readers, ReadCached(r) \/ StreamCached(r)
        PROVE  AnswersAtOnce(r)
    <2>1. cache \in Nat /\ cache # NoCache /\ inner = "none"
      BY <1>2 DEF ReadCached, StreamCached, IInv, TypeOK, Untouched
    <2>2. QED
      BY <1>2, <2>1 DEF ReadCached, StreamCached, AnswersAtOnce, slot
  <1>3. ASSUME NEW r \in Readers,
               ReadNothing(r) \/ StreamNothing(r) \/ RefuseContentType(r)
        PROVE  AnswersAtOnce(r)
    BY <1>3 DEF ReadNothing, StreamNothing, RefuseContentType, AnswersAtOnce
  <1>4. ASSUME NEW r \in Readers, NEW n \in 1..(size - sent), RefuseChunk(r, n)
        PROVE  LetsGo(r)
    <2>1. size > granted[r]
      BY <1>1, <1>4 DEF RefuseChunk, IInv, OwnerInv, TypeOK
    <2>2. QED
      BY <1>1, <1>4, <2>1 DEF RefuseChunk, LetsGo, slot
  <1>5. ASSUME NEW r \in Readers, Store(r) \/ StreamEnd(r)
        PROVE  LetsGo(r)
    <2>1. got[r] = size
      BY <1>5 DEF Store, StreamEnd, IInv, OwnerInv
    <2>2. CASE Store(r)
      BY <1>1, <2>1, <2>2 DEF Store, LetsGo
    <2>3. CASE StreamEnd(r)
      BY <1>1, <2>1, <2>3 DEF StreamEnd, LetsGo, slot
    <2>4. QED
      BY <1>5, <2>2, <2>3
  <1>6. ASSUME NEW r \in Readers, BodyFails(r) \/ Cancel(r)
        PROVE  LetsGo(r)
    BY <1>1, <1>6 DEF BodyFails, Cancel, LetsGo, slot
  <1>7. QED
    BY <1>2, <1>3, <1>4, <1>5, <1>6 DEF Next, BodyBytes, BodyStream, Frame

\* Every step of a reader, of the connection or of set_body_limit keeps it.
LEMMA NextIInv == BodyAssumption /\ IInv /\ [Next]_vars => IInv'
  <1> SUFFICES ASSUME BodyAssumption, IInv, [Next]_vars PROVE IInv'
    OBVIOUS
  <1>1. ASSUME NEW r \in Readers, ReadEnd(r) PROVE IInv'
    BY <1>1 DEF ReadEnd, IInv, TypeOK, Pcs, OwnerInv, SingleConsumer,
                LimitIsExact, SuccessMeansWholeBody, CacheIsWholeBody, slot
  <1>2. ASSUME NEW l \in Limits, SetBodyLimit(l) PROVE IInv'
    BY <1>2 DEF SetBodyLimit, IInv, TypeOK, Untouched, OwnerInv, SingleConsumer,
                LimitIsExact, SuccessMeansWholeBody, CacheIsWholeBody
  <1>3. CASE UNCHANGED vars
    BY <1>3 DEF vars, slot, IInv, TypeOK, Untouched, OwnerInv, SingleConsumer,
                LimitIsExact, SuccessMeansWholeBody, CacheIsWholeBody
  <1>4. QED
    BY <1>1, <1>2, <1>3, StepKinds, AnswersAtOncePreserves, LetsGoPreserves,
       TakePreserves, ChunkPreserves

\* The inductive invariant holds in every behaviour.
THEOREM Invariance == Spec => []IInv
  BY BodyAssumption, InitIInv, NextIInv, PTL DEF Spec

\* The state of the slot and of its readers keeps its shape.
THEOREM TypeCorrect == Spec => []TypeOK
  <1>1. IInv => TypeOK
    BY DEF IInv
  <1>2. QED
    BY <1>1, Invariance, PTL

\* However many extractors share a Context, the raw body has one consumer.
THEOREM OneConsumer == Spec => []SingleConsumer
  <1>1. IInv => SingleConsumer
    BY DEF IInv
  <1>2. QED
    BY <1>1, Invariance, PTL

\* A buffered read holds at most the limit, and refuses exactly what is longer.
THEOREM LimitExact == Spec => []LimitIsExact
  <1>1. IInv => LimitIsExact
    BY DEF IInv
  <1>2. QED
    BY <1>1, Invariance, PTL

\* No reader is ever handed part of a body as if it were all of it.
THEOREM WholeBody == Spec => []SuccessMeansWholeBody
  <1>1. IInv => SuccessMeansWholeBody
    BY DEF IInv
  <1>2. QED
    BY <1>1, Invariance, PTL

\* What the extractors share is the whole body, and was not streamed away.
THEOREM WholeCache == Spec => []CacheIsWholeBody
  <1>1. IInv => CacheIsWholeBody
    BY DEF IInv
  <1>2. QED
    BY <1>1, Invariance, PTL

\* The owner determines what has become of the body.
LEMMA OwnerContent ==
  ASSUME IInv, NEW r \in Readers, pc[r] # "ready"
  PROVE  /\ pc[r] \in {"reading", "storing"} => Content = "buffering"
         /\ pc[r] = "streaming" => Content = "streaming"
  BY DEF IInv, OwnerInv, SingleConsumer, Content

\* The owner lets go: what was buffered whole is kept, all else is gone.
LEMMA LetsGoContent ==
  ASSUME BodyAssumption, IInv, NEW r \in Readers, LetsGo(r)
  PROVE  Once!Keep \/ Once!Lose
  <1>1. PICK kind \in {"read", "stream", "too_large", "error", "none"}, n \in Nat :
          /\ pc[r] # "ready" /\ Return(r, kind, n)
          /\ kind = "read" => pc[r] = "storing" /\ cache' = size
          /\ kind # "read" => cache' = cache
          /\ UNCHANGED <<size, inner>>
    BY DEF LetsGo
  <1>2. /\ pc[r] \in Pcs /\ inner' = "none" /\ cache = NoCache
        /\ size \in Nat /\ NoCache \notin Nat
    BY <1>1 DEF IInv, TypeOK, OwnerInv, BodyAssumption
  <1>3. \A q \in Readers : pc'[q] = "ready"
    BY <1>1 DEF IInv, TypeOK, Return, SingleConsumer
  <1>4. Content' = IF cache' # NoCache THEN "kept" ELSE "gone"
    BY <1>2, <1>3 DEF Content
  <1>5. Content \in {"buffering", "streaming"}
        /\ (pc[r] = "storing" => Content = "buffering")
    BY <1>1, <1>2, OwnerContent DEF Pcs
  <1>6. CASE kind = "read"
    BY <1>1, <1>2, <1>4, <1>5, <1>6 DEF Once!Keep
  <1>7. CASE kind # "read"
    BY <1>1, <1>2, <1>4, <1>5, <1>7 DEF Once!Lose
  <1>8. QED
    BY <1>6, <1>7

\* The slot implements the take-once body.
THEOREM OnceRefinement == Spec => ImplementsOnceBody
  <1>1. Init => Once!OnceInit
    BY DEF Init, Once!OnceInit, Content
  <1>2. BodyAssumption /\ IInv /\ [Next]_vars => [Once!OnceNext]_Content
    <2> SUFFICES ASSUME BodyAssumption, IInv, [Next]_vars
                 PROVE  [Once!OnceNext]_Content
      OBVIOUS
    <2>1. ASSUME UNCHANGED <<inner, cache>>, \A q \in Readers :
                   \/ pc'[q] = pc[q]
                   \/ pc[q] = "reading" /\ pc'[q] = "storing"
          PROVE  Content' = Content
      BY <2>1 DEF Content
    <2>2. ASSUME NEW r \in Readers, StartRead(r)
          PROVE  Once!TakeIntoBuffer
      <3>1. /\ inner = "some" /\ inner' = "none" /\ cache' = cache /\ cache = NoCache
            /\ pc'[r] = "reading"
        BY <2>2 DEF StartRead, IInv, TypeOK
      <3>2. QED
        BY <3>1 DEF Content, Once!TakeIntoBuffer
    <2>3. ASSUME NEW r \in Readers, StreamRaw(r)
          PROVE  Once!TakeIntoStream
      <3>1. /\ inner = "some" /\ inner' = "none" /\ cache' = cache /\ cache = NoCache
            /\ \A q \in Readers : pc'[q] = IF q = r THEN "streaming" ELSE "ready"
        BY <2>3 DEF StreamRaw, IInv, TypeOK, Untouched
      <3>2. QED
        BY <3>1 DEF Content, Once!TakeIntoStream
    <2>4. ASSUME NEW r \in Readers, LetsGo(r)
          PROVE  Once!OnceNext
      BY <2>4, LetsGoContent DEF Once!OnceNext
    <2>5. ASSUME NEW r \in Readers, AnswersAtOnce(r)
          PROVE  Content' = Content
      <3>1. UNCHANGED <<inner, cache>> /\ \A q \in Readers : pc'[q] = pc[q]
        BY <2>5 DEF AnswersAtOnce, Return, slot, IInv, TypeOK
      <3>2. QED
        BY <3>1, <2>1
    <2>6. ASSUME NEW r \in Readers, NEW n \in 1..(size - sent),
                 ReadChunk(r, n) \/ StreamChunk(r, n)
          PROVE  Content' = Content
      BY <2>6, <2>1 DEF ReadChunk, StreamChunk, slot
    <2>7. ASSUME NEW r \in Readers, ReadEnd(r)
          PROVE  Content' = Content
      BY <2>7, <2>1 DEF ReadEnd, slot, IInv, TypeOK
    <2>8. ASSUME NEW l \in Limits, SetBodyLimit(l)
          PROVE  Content' = Content
      BY <2>8, <2>1 DEF SetBodyLimit
    <2>9. CASE UNCHANGED vars
      BY <2>9, <2>1 DEF vars, slot
    <2>10. QED
      BY <2>2, <2>3, <2>4, <2>5, <2>6, <2>7, <2>8, <2>9, StepKinds
      DEF Once!OnceNext
  <1>3. QED
    BY BodyAssumption, <1>1, <1>2, Invariance, PTL
    DEF Spec, ImplementsOnceBody, Once!OnceSpec
=============================================================================
