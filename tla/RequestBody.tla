----------------------------- MODULE RequestBody -----------------------------
(***************************************************************************)
(* The request body of one Context (src/context.rs): BodySlot behind its   *)
(* mutex, the buffered readers (body_bytes, and json, form, body_text and  *)
(* form_data, which all go through it), body_stream and set_body_limit.    *)
(*                                                                         *)
(* A reader is a future that calls these on a shared &Context: they run    *)
(* one after the other, joined in one task, or on several threads.  Each   *)
(* critical section of the mutex is one step, and so is each frame that    *)
(* arrives.  Bytes are counted, not named: the body is `size` bytes long   *)
(* and the network cuts it into chunks as it likes.                        *)
(***************************************************************************)
EXTENDS Naturals

CONSTANTS Readers,       \* futures that extract from the same Context
          Sizes,         \* lengths a request body may have
          Limits,        \* limits set_body_limit may be called with
          DefaultLimit,  \* App.max_body_size
          NoCache        \* BodySlot.cache is None

ASSUME BodyAssumption ==
  /\ Sizes \subseteq Nat /\ Limits \subseteq Nat /\ DefaultLimit \in Nat
  /\ NoCache \notin Nat

VARIABLES
  size,      \* length of the body the client sends
  inner,     \* BodySlot.inner: "some" until somebody takes it, then "none"
  cache,     \* BodySlot.cache: NoCache or the number of bytes cached
  limit,     \* BodySlot.limit
  sent,      \* bytes the connection has delivered to whoever took inner
  pc,        \* where each reader is
  left,      \* Bounded.remaining of a reader that collects
  got,       \* bytes a reader has received so far
  granted,   \* history: the limit a reader's last collect started with
  out,       \* what a reader's last call returned
  streamed   \* history: body_stream took the raw body

slot == <<inner, cache, limit>>
vars == <<size, inner, cache, limit, sent, pc, left, got, granted, out,
          streamed>>

\* "ready": no call running.  "reading": in collect().await.  "storing":
\* collected, about to lock again.  "streaming": owns the raw body stream.
Pcs == {"ready", "reading", "storing", "streaming"}

\* How a call ended: with bytes just read, cached, none, or streamed, or with
\* an error.  n is the number of bytes handed to the caller.
Kinds == {"none", "read", "cached", "empty", "stream", "too_large", "error"}
Result(kind, n) == [kind |-> kind, n |-> n]

Init ==
  /\ size \in Sizes
  /\ inner = "some" /\ cache = NoCache /\ limit = DefaultLimit
  /\ sent = 0
  /\ pc = [r \in Readers |-> "ready"]
  /\ left = [r \in Readers |-> 0]
  /\ got = [r \in Readers |-> 0]
  /\ granted = [r \in Readers |-> 0]
  /\ out = [r \in Readers |-> Result("none", 0)]
  /\ streamed = FALSE

Return(r, kind, n) ==
  /\ pc' = [pc EXCEPT ![r] = "ready"]
  /\ out' = [out EXCEPT ![r] = Result(kind, n)]

\* The body r took is dropped with r's future or stream.
DropBody(r) ==
  /\ left' = [left EXCEPT ![r] = 0]
  /\ got' = [got EXCEPT ![r] = 0]

(* --------------------------- buffered readers --------------------------- *)

\* First critical section of body_bytes: a cached body is returned as it is.
ReadCached(r) ==
  /\ pc[r] = "ready" /\ cache # NoCache
  /\ Return(r, "cached", cache)
  /\ UNCHANGED <<size, slot, sent, left, got, granted, streamed>>

\* Nothing cached and inner already taken: Ok(Bytes::new()).
ReadNothing(r) ==
  /\ pc[r] = "ready" /\ cache = NoCache /\ inner = "none"
  /\ Return(r, "empty", 0)
  /\ UNCHANGED <<size, slot, sent, left, got, granted, streamed>>

\* A bug: the body is borrowed from the slot rather than taken out of it.
StartReadKeepsInner(r) ==
  /\ pc[r] = "ready" /\ cache = NoCache /\ inner = "some"
  /\ pc' = [pc EXCEPT ![r] = "reading"]
  /\ left' = [left EXCEPT ![r] = limit]
  /\ granted' = [granted EXCEPT ![r] = limit]
  /\ UNCHANGED <<size, slot, sent, got, out, streamed>>

\* inner.take() with the limit of this moment; collect() begins.
StartRead(r) ==
  /\ pc[r] = "ready" /\ cache = NoCache /\ inner = "some"
  /\ inner' = "none"
  /\ pc' = [pc EXCEPT ![r] = "reading"]
  /\ left' = [left EXCEPT ![r] = limit]
  /\ granted' = [granted EXCEPT ![r] = limit]
  /\ UNCHANGED <<size, cache, limit, sent, got, out, streamed>>

\* json, form and form_data refuse a content type before they touch the body.
RefuseContentType(r) ==
  /\ pc[r] = "ready"
  /\ Return(r, "error", 0)
  /\ UNCHANGED <<size, slot, sent, left, got, granted, streamed>>

\* A bug: the limit is applied to each chunk and not to their sum.
ReadChunkWithinLimit(r, n) ==
  /\ pc[r] = "reading" /\ n <= left[r]
  /\ got' = [got EXCEPT ![r] = @ + n]
  /\ sent' = sent + n
  /\ UNCHANGED <<size, slot, pc, left, granted, out, streamed>>

\* A bug: the subtraction is not checked and goes below zero.
ReadChunkUnchecked(r, n) ==
  /\ pc[r] = "reading"
  /\ left' = [left EXCEPT ![r] = @ - n]
  /\ got' = [got EXCEPT ![r] = @ + n]
  /\ sent' = sent + n
  /\ UNCHANGED <<size, slot, pc, granted, out, streamed>>

\* Bounded::poll_frame lets a chunk of n bytes through.
ReadChunk(r, n) ==
  /\ pc[r] = "reading" /\ n <= left[r]
  /\ left' = [left EXCEPT ![r] = @ - n]
  /\ got' = [got EXCEPT ![r] = @ + n]
  /\ sent' = sent + n
  /\ UNCHANGED <<size, slot, pc, granted, out, streamed>>

\* Bounded::poll_frame refuses it: PayloadTooLarge, and the body is dropped.
RefuseChunk(r, n) ==
  /\ pc[r] = "reading" /\ n > left[r]
  /\ Return(r, "too_large", 0)
  /\ DropBody(r)
  /\ sent' = sent + n
  /\ UNCHANGED <<size, slot, granted, streamed>>

\* The body ends; body_bytes is about to lock again.
ReadEnd(r) ==
  /\ pc[r] = "reading" /\ sent = size
  /\ pc' = [pc EXCEPT ![r] = "storing"]
  /\ UNCHANGED <<size, slot, sent, left, got, granted, out, streamed>>

\* Second critical section: fill the cache, return the bytes.
Store(r) ==
  /\ pc[r] = "storing"
  /\ cache' = got[r]
  /\ Return(r, "read", got[r])
  /\ DropBody(r)
  /\ UNCHANGED <<size, inner, limit, sent, granted, streamed>>

(* -------------------------------- streams ------------------------------- *)

\* body_stream after a buffered read: the cached bytes as one chunk.
StreamCached(r) ==
  /\ pc[r] = "ready" /\ cache # NoCache
  /\ inner' = "none"
  /\ Return(r, "stream", cache)
  /\ UNCHANGED <<size, cache, limit, sent, left, got, granted, streamed>>

\* body_stream takes the raw body, with no limit.
StreamRaw(r) ==
  /\ pc[r] = "ready" /\ cache = NoCache /\ inner = "some"
  /\ inner' = "none"
  /\ pc' = [pc EXCEPT ![r] = "streaming"]
  /\ streamed' = TRUE
  /\ UNCHANGED <<size, cache, limit, sent, left, got, granted, out>>

\* body_stream finds neither: an empty stream.
StreamNothing(r) ==
  /\ pc[r] = "ready" /\ cache = NoCache /\ inner = "none"
  /\ Return(r, "empty", 0)
  /\ UNCHANGED <<size, slot, sent, left, got, granted, streamed>>

StreamChunk(r, n) ==
  /\ pc[r] = "streaming"
  /\ got' = [got EXCEPT ![r] = @ + n]
  /\ sent' = sent + n
  /\ UNCHANGED <<size, slot, pc, left, granted, out, streamed>>

\* A bug: a stream that was read to its end fills the cache as well.
StreamEndFillsCache(r) ==
  /\ pc[r] = "streaming" /\ sent = size
  /\ cache' = got[r]
  /\ Return(r, "stream", got[r])
  /\ DropBody(r)
  /\ UNCHANGED <<size, inner, limit, sent, granted, streamed>>

StreamEnd(r) ==
  /\ pc[r] = "streaming" /\ sent = size
  /\ Return(r, "stream", got[r])
  /\ DropBody(r)
  /\ UNCHANGED <<size, slot, sent, granted, streamed>>

(* --------------------------- either, and others ------------------------- *)

\* A bug: what arrived before the error is kept in the cache.
BodyFailsFillsCache(r) ==
  /\ pc[r] \in {"reading", "streaming"}
  /\ cache' = got[r]
  /\ Return(r, "error", 0)
  /\ DropBody(r)
  /\ UNCHANGED <<size, inner, limit, sent, granted, streamed>>

\* The connection fails while the body is read: Error::Body.
BodyFails(r) ==
  /\ pc[r] \in {"reading", "streaming"}
  /\ Return(r, "error", 0)
  /\ DropBody(r)
  /\ UNCHANGED <<size, slot, sent, granted, streamed>>

\* A bug: a cancelled reader puts the body back for the next one.
CancelPutsBodyBack(r) ==
  /\ pc[r] \in {"reading", "streaming"}
  /\ inner' = "some"
  /\ Return(r, "none", 0)
  /\ DropBody(r)
  /\ UNCHANGED <<size, cache, limit, sent, granted, streamed>>

\* The future or the stream is dropped half-way (timeout, select!, an early
\* return).  body_bytes can be cancelled only where it awaits.
Cancel(r) ==
  /\ pc[r] \in {"reading", "streaming"}
  /\ Return(r, "none", 0)
  /\ DropBody(r)
  /\ UNCHANGED <<size, slot, sent, granted, streamed>>

\* set_body_limit, directly or through the body_limit middleware.
SetBodyLimit(l) ==
  /\ limit' = l
  /\ UNCHANGED <<size, inner, cache, sent, pc, left, got, granted, out,
                 streamed>>

BodyBytes(r) == ReadCached(r) \/ ReadNothing(r) \/ StartRead(r)
BodyStream(r) == StreamCached(r) \/ StreamRaw(r) \/ StreamNothing(r)

\* A data frame of n bytes arrives for whoever took the body.
Frame(r, n) == ReadChunk(r, n) \/ RefuseChunk(r, n) \/ StreamChunk(r, n)

Next ==
  \/ \E r \in Readers :
       \/ BodyBytes(r) \/ RefuseContentType(r) \/ BodyStream(r)
       \/ \E n \in 1..(size - sent) : Frame(r, n)
       \/ ReadEnd(r) \/ Store(r) \/ StreamEnd(r) \/ BodyFails(r) \/ Cancel(r)
  \/ \E l \in Limits : SetBodyLimit(l)

Spec == Init /\ [][Next]_vars

(* ------------------------------ properties ------------------------------ *)

\* The shape of the state.
TypeOK ==
  /\ size \in Sizes
  /\ inner \in {"some", "none"}
  /\ cache \in Nat \cup {NoCache}
  /\ limit \in Limits \cup {DefaultLimit}
  /\ sent \in Nat /\ sent <= size
  /\ pc \in [Readers -> Pcs]
  /\ left \in [Readers -> Nat]
  /\ got \in [Readers -> Nat]
  /\ granted \in [Readers -> Nat]
  /\ out \in [Readers -> [kind : Kinds, n : Nat]]
  /\ streamed \in BOOLEAN

\* The raw body has at most one consumer, and none while the slot has it:
\* two extractors never split its chunks between them.
SingleConsumer ==
  \A r, q \in Readers :
    pc[r] # "ready" => inner = "none" /\ (pc[q] # "ready" => r = q)

\* The limit is exact and cumulative, whatever the chunks: a collecting reader
\* never holds more than the limit it started with, it is refused only a body
\* longer than that, and one it accepts fits.  A limit changed meanwhile does
\* not count.
LimitIsExact ==
  \A r \in Readers :
    /\ pc[r] \in {"reading", "storing"} => got[r] <= granted[r]
    /\ out[r].kind = "too_large" => size > granted[r]
    /\ out[r].kind = "read" => size <= granted[r]

\* Whoever is handed a body, fresh, cached or as a finished stream, is handed
\* all of it: a cancelled or failed reader never leaves a shortened body
\* behind for the next one.
SuccessMeansWholeBody ==
  \A r \in Readers :
    out[r].kind \in {"read", "cached", "stream"} => out[r].n = size

\* The cache holds the whole body or nothing, and only of a body that was
\* buffered: bytes of a stream are never cached (context.rs:295).
CacheIsWholeBody == cache # NoCache => cache = size /\ ~streamed

\* What has become of the body, for the refinement.
Content ==
  IF inner = "some" THEN "raw"
  ELSE IF cache # NoCache THEN "kept"
  ELSE IF \E r \in Readers : pc[r] \in {"reading", "storing"} THEN "buffering"
  ELSE IF \E r \in Readers : pc[r] = "streaming" THEN "streaming"
  ELSE "gone"

Once == INSTANCE OnceBody WITH content <- Content

\* The slot implements the take-once body: what is kept stays kept, what is
\* lost or streamed never comes back.
ImplementsOnceBody == Once!OnceSpec

(* --------------------- what the documentation says ---------------------- *)

\* context.rs:199 "Cached after the first read, so json, form, and body_bytes
\* can be mixed freely": unless it was streamed, an extractor never takes a
\* body that has bytes for an empty one.
BufferedReadsAgree ==
  ~streamed => \A r \in Readers : out[r].kind = "empty" => size = 0
=============================================================================
