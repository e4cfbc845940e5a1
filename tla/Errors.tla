-------------------------------- MODULE Errors --------------------------------
(***************************************************************************)
(* The framework error and its rendering into the envelope (src/error.rs,   *)
(* src/resp.rs).  An error is its variant, Business with the code that the  *)
(* application chose; of a message it only matters whose words it is made   *)
(* of.                                                                      *)
(***************************************************************************)
EXTENDS Integers

ClientErrors == {"BadRequest", "Param", "Json", "Query", "Body"}
ServerErrors == {"Internal", "Io"}

Variants ==
  ClientErrors \cup ServerErrors
    \cup {"Unauthorized", "Forbidden", "NotFound", "MethodNotAllowed",
          "PayloadTooLarge", "Timeout", "Business"}

\* The code is that of Business: any number, those of HTTP included.
ErrorSet == [kind : Variants, code : Int]
NoError == [kind |-> "none", code |-> 0]

Error(kind) == [kind |-> kind, code |-> 0]
BusinessError(code) == [kind |-> "Business", code |-> code]

Status(e) ==
  CASE e.kind \in ClientErrors -> 400
    [] e.kind = "Unauthorized" -> 401
    [] e.kind = "Forbidden" -> 403
    [] e.kind = "NotFound" -> 404
    [] e.kind = "MethodNotAllowed" -> 405
    [] e.kind = "PayloadTooLarge" -> 413
    [] e.kind = "Timeout" -> 504
    [] e.kind = "Business" -> 200
    [] e.kind \in ServerErrors -> 500

BusinessCode(e) == IF e.kind = "Business" THEN e.code ELSE Status(e)

\* `Display`: Io prints the error of the operating system.
Display(e) ==
  CASE e.kind = "Internal" -> "sanitized"
    [] e.kind = "Io" -> "internals"
    [] OTHER -> "own"

\* A bug: every variant is left to its Display.
UserMessageDisplayed(e) == Display(e)

UserMessage(e) == IF e.kind \in ServerErrors THEN "sanitized" ELSE Display(e)

ToResp(e) == [status |-> Status(e), code |-> BusinessCode(e), says |-> UserMessage(e)]
=============================================================================
