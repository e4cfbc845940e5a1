----------------------------- MODULE EventFormat -----------------------------
(***************************************************************************)
(* One server-sent event on the wire (src/sse.rs): the builder `Event`, its *)
(* `render`, and what the EventSource of a browser makes of the lines.      *)
(* A text is a sequence of characters, of which the line feed matters to    *)
(* `render`, and the space, the carriage return and the null to the client; *)
(* an optional value is a sequence of at most one text.                     *)
(***************************************************************************)
EXTENDS Naturals, SequencesExt

LF == "LF"
CR == "CR"
NUL == "NUL"
Space == "space"

(* ------------------------------- the builder ---------------------------- *)

Fields == {"comment", "event", "id", "retry", "data"}
New == [field \in Fields |-> <<>>]

\* event(), id(), retry(), comment() replace; data() appends a line.
Call(e, c) ==
  [e EXCEPT ![c.field] =
     IF c.field = "data" /\ @ # <<>> THEN <<@[1] \o <<LF>> \o c.text>>
     ELSE <<c.text>>]

Built(calls) == FoldLeft(Call, New, calls)
KeepAlive == Built(<<[field |-> "comment", text |-> <<"keep-alive">>]>>)

(* -------------------------------- render -------------------------------- *)

AddChar(lines, char) ==
  IF char = LF THEN Append(lines, <<>>)
  ELSE [lines EXCEPT ![Len(lines)] = Append(@, char)]

\* str::split('\n'): one more piece than there are line feeds.
Lines(text) == FoldLeft(AddChar, << <<>> >>, text)

Written(field, values) ==
  [i \in DOMAIN values |-> [field |-> field, text |-> values[i]]]

\* A bug: data is written as it is; what follows its first line feed has no
\* field name and is nothing to the client.
RenderUnsplit(e) ==
  Written("comment", e.comment) \o Written("event", e.event)
    \o Written("id", e.id) \o Written("retry", e.retry)
    \o Written("data", IF e.data = <<>> THEN <<>> ELSE <<Lines(e.data[1])[1]>>)

\* The lines of an event; the blank line that ends it goes without saying.
Render(e) ==
  Written("comment", e.comment) \o Written("event", e.event)
    \o Written("id", e.id) \o Written("retry", e.retry)
    \o Written("data", IF e.data = <<>> THEN <<>> ELSE Lines(e.data[1]))

(* ------------------------------ the client ------------------------------ *)

\* In the standard a line ends at CR, at LF, or at both together.
BeforeCR(text) ==
  LET first == {n \in DOMAIN text :
                  text[n] = CR /\ \A k \in 1..(n - 1) : text[k] # CR}
  IN  IF first = {} THEN text ELSE SubSeq(text, 1, (CHOOSE n \in first : TRUE) - 1)

\* The standard removes one space after the colon, if there is one.
Value(text) ==
  LET line == BeforeCR(text)
  IN  IF line # <<>> /\ Head(line) = Space THEN Tail(line) ELSE line

\* The fields since the last blank line; early: the listener has been called
\* before the end of the event.
Idle == [type |-> <<>>, id |-> <<>>, retry |-> <<>>, data |-> <<>>, early |-> FALSE]

\* An id with a null in it is ignored.
TakeField(state, field, value) ==
  CASE field = "event" -> [state EXCEPT !.type = value]
    [] field = "id" -> IF NUL \in Range(value) THEN state
                       ELSE [state EXCEPT !.id = <<value>>]
    [] field = "retry" -> [state EXCEPT !.retry = <<value>>]
    [] field = "data" -> [state EXCEPT !.data = @ \o value \o <<LF>>]
    [] field = "comment" -> state

\* What follows a CR is a line of its own: one that names no field is ignored,
\* one that is empty ends the event.  (No character is a colon, and no text the
\* name of a field.)
EndsEarly(text) == \E n \in DOMAIN text : n > 1 /\ text[n - 1] = CR /\ text[n] = CR

EndEarly(state) ==
  [state EXCEPT !.type = <<>>, !.data = <<>>, !.early = @ \/ state.data # <<>>]

ReadLine(state, line) ==
  LET read == TakeField(state, line.field, Value(line.text))
  IN  IF EndsEarly(line.text) THEN EndEarly(read) ELSE read

ReadLines(lines) == FoldLeft(ReadLine, Idle, lines)

\* What the listener is called with at the blank line; without data it is not.
\* An empty type stands for "message".
Dispatched(lines) ==
  LET state == ReadLines(lines)
  IN  IF state.data = <<>> THEN [Idle EXCEPT !.early = state.early]
      ELSE [state EXCEPT !.data = Front(@)]

\* A line that reaches the client as it is.
Literal(line) ==
  /\ Range(line) \cap {CR, NUL} = {}
  /\ line = <<>> \/ Head(line) # Space

(* --------------------------- what was meant ----------------------------- *)

Texts(calls, field) ==
  FoldLeft(LAMBDA texts, c :
             IF c.field = field THEN Append(texts, c.text) ELSE texts,
           <<>>, calls)

LastOf(texts) == IF texts = <<>> THEN <<>> ELSE <<Last(texts)>>

JoinLine(text, line) == text \o <<LF>> \o line
Joined(texts) == FoldLeft(JoinLine, Head(texts), Tail(texts))

\* The application's calls as the client's listener should see them.
Meant(calls) ==
  LET type == LastOf(Texts(calls, "event"))
      data == Texts(calls, "data")
  IN  IF data = <<>> THEN Idle
      ELSE [type |-> IF type = <<>> THEN <<>> ELSE type[1],
            id |-> LastOf(Texts(calls, "id")),
            retry |-> LastOf(Texts(calls, "retry")),
            data |-> Joined(data), early |-> FALSE]
=============================================================================
