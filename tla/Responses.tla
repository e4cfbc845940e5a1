------------------------------- MODULE Responses -------------------------------
(***************************************************************************)
(* What a handler can return and the response it becomes                   *)
(* (src/into_response.rs, src/response.rs, src/resp.rs).  Of a body only   *)
(* its size counts, of headers those that middleware looks at or adds.     *)
(***************************************************************************)
EXTENDS Errors

\* Around the minimum of `gzip`, and of unknown length.
Sizes == {"empty", "small", "large", "stream"}

\* raw_response.  err: the Err of a Result that is not yet a response, or
\* NoError.  code, says: of the envelope of a failure, else 0.  coded: the header
\* Content-Encoding is there.  layers: how often the body has been encoded.
\* from (history): the error that this is, or that was rendered into it.
Answer(status, size) ==
  [err |-> NoError, status |-> status, code |-> 0, says |-> "own", cors |-> FALSE,
   coded |-> FALSE, layers |-> 0, size |-> size, from |-> NoError]

\* An Error that a `Handler` written as a type returns (ServeDir, ServeFile);
\* functions have theirs rendered before they return.
Err(e) == [Answer(Status(e), "small") EXCEPT !.err = e, !.from = e]

\* From<Error> for Response.
Rendered(e) ==
  LET envelope == ToResp(e) IN
    [Answer(envelope.status, "small") EXCEPT !.code = envelope.code,
                                             !.says = envelope.says,
                                             !.from = e]

\* IntoResponse of a Result: the error becomes its envelope.
IntoResponse(r) == IF r.err # NoError THEN Rendered(r.err) ELSE r

\* `()`, a StatusCode, and a redirect have no body.
Unit == Answer(200, "empty")
Bare(status) == Answer(status, "empty")

\* Strings, bytes, Json, Html and Resp::ok have all of theirs, a Body may be a
\* stream.
Content(size) == Answer(200, size)
Streamed == Answer(200, "stream")

\* Resp::err and err_msg: an envelope that the application fills in itself, its
\* code and its words, at 200 unless with_status overrides it.
Business(code) == [Content("small") EXCEPT !.code = code]

\* body::json of what serde cannot serialize: still a 200, with the envelope of
\* a failure in it.
Unserializable == [Content("small") EXCEPT !.code = 500, !.says = "sanitized"]

\* (StatusCode, T): the status is put over what T became, whatever that is.  So
\* does Resp::with_status with its own envelope.
WithStatus(status, r) == [r EXCEPT !.status = status]

\* (u16, T): a number that is no status is an error of the server.
WithNumber(n, r) ==
  IF n \in 100..999 THEN WithStatus(n, r) ELSE Rendered(Error("Internal"))
=============================================================================
