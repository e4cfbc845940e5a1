----------------------------- MODULE EventSource -----------------------------
(***************************************************************************)
(* EventStream with events that have content: every event of the stream is *)
(* built by the same calls, each frame is what `render` makes of it, and    *)
(* the client is an EventSource that interprets the frames it receives.     *)
(***************************************************************************)
EXTENDS EventStream, EventFormat

CONSTANTS Characters,  \* what texts consist of; a word may count as one
          Programs     \* sequences of calls of the builder

\* Only data() takes texts of several lines.
ASSUME ProgramAssumption ==
  /\ {LF, CR, NUL, Space, "keep-alive"} \subseteq Characters
  /\ Programs \subseteq Seq([field : Fields, text : Seq(Characters)])
  /\ \A calls \in Programs : \A i \in DOMAIN calls :
       calls[i].field # "data" => LF \notin Range(calls[i].text)

VARIABLE calls   \* the calls that build the events of this stream

SourceInit == Init /\ calls \in Programs
SourceNext == Next /\ UNCHANGED calls
SourceSpec == SourceInit /\ [][SourceNext]_<<vars, calls>> /\ Fairness

\* What the listener is called with for a frame.
Heard(frame) == Dispatched(Render(IF frame.comment THEN KeepAlive ELSE Built(calls)))

(* ------------------------------ properties ------------------------------ *)

AllLiteral ==
  \A i \in DOMAIN calls : \A line \in Range(Lines(calls[i].text)) : Literal(line)

\* Each frame on its way calls the client's listener with the type, the data,
\* the id and the retry time that the application gave, several lines and
\* several data() calls included; a keep-alive comment does not call it at
\* all.  (Lines that begin with a space, or have a carriage return or a null in
\* them, are FieldsReachTheListener's.)
HeardAsMeant ==
  \A i \in 1..Len(buffer) :
    /\ buffer[i].comment => Heard(buffer[i]) = Idle
    /\ ~buffer[i].comment /\ AllLiteral => Heard(buffer[i]) = Meant(calls)

(* --------------------- what the documentation says ---------------------- *)

\* sse.rs:55 "The `event:` field (the event type the client's listener sees)",
\* sse.rs:61 "The `data:` field. Multiple `data` calls append one line each",
\* sse.rs:85 "The `id:` field (becomes the client's `Last-Event-ID`)":
\* whatever the texts are.
FieldsReachTheListener ==
  \A i \in 1..Len(buffer) :
    ~buffer[i].comment => Heard(buffer[i]) = Meant(calls)
=============================================================================
