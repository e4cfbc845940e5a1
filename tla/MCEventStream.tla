---------------------------- MODULE MCEventStream ----------------------------
(* Instances of EventSource for TLC; the cfg files have the numbers. *)
EXTENDS EventSource

Letters == {LF, CR, NUL, Space, "a", "b", "5", "keep-alive"}

Calls(field, texts) == {[field |-> field, text |-> text] : text \in texts}

\* An empty text, two that tell first from last, several lines (one of them
\* empty), and some that do not reach the client as they are: with a space at
\* the beginning, or with one or two carriage returns.
SmallCalls ==
  Calls("data", {<<>>, <<"a">>, <<"a", LF, "b">>, <<LF>>, <<Space, "a">>,
                 <<"a", CR>>, <<"b", CR, CR, "a">>})
    \cup Calls("event", {<<"a">>, <<"b">>}) \cup Calls("id", {<<"a">>, <<Space>>})
    \cup Calls("retry", {<<"5">>}) \cup Calls("comment", {<<"a">>})

\* No call, one, and every two; and one program with every field.
SmallPrograms ==
  BoundedSeq(SmallCalls, 2)
    \cup { << [field |-> "data", text |-> <<"a">>],
              [field |-> "id", text |-> <<"b">>],
              [field |-> "data", text |-> <<LF, "a">>],
              [field |-> "event", text |-> <<"a">>],
              [field |-> "comment", text |-> <<"b">>],
              [field |-> "retry", text |-> <<"5">>],
              [field |-> "data", text |-> <<"b">>] >> }

\* One call of data().
OneLine == {<<c>> : c \in Calls("data", {<<"a">>, <<Space, "a">>, <<"a", CR, "b">>})}
=============================================================================
