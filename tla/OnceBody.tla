------------------------------ MODULE OnceBody ------------------------------
(***************************************************************************)
(* What a request body is to the handlers that share a Context, without    *)
(* the lock, the chunks and the limit: a value that can be taken from the  *)
(* wire once, either into a buffer, which may be kept for everybody, or    *)
(* into a stream, which never is.  Module RequestBody implements it.       *)
(***************************************************************************)
VARIABLE content

\* On the wire; being buffered; buffered for good; being streamed; lost.
Contents == {"raw", "buffering", "kept", "streaming", "gone"}

TakeIntoBuffer == content = "raw" /\ content' = "buffering"
TakeIntoStream == content = "raw" /\ content' = "streaming"
Keep == content = "buffering" /\ content' = "kept"
Lose == content \in {"buffering", "streaming"} /\ content' = "gone"

OnceInit == content = "raw"
OnceNext == TakeIntoBuffer \/ TakeIntoStream \/ Keep \/ Lose
OnceSpec == OnceInit /\ [][OnceNext]_content
=============================================================================
