----------------------------- MODULE EventStream -----------------------------
(***************************************************************************)
(* A server-sent event response (src/sse.rs): `Sse`, or `KeepAliveSse` with *)
(* its merge of the application's events and a tokio interval, polled by    *)
(* hyper into a write buffer of limited size from which the client reads.   *)
(*                                                                          *)
(* The connection's task sleeps when poll_next is Pending and is woken by   *)
(* whatever poll_next left its waker with.  Time is counted in intervals.   *)
(***************************************************************************)
EXTENDS Naturals, Sequences

CONSTANTS MaxEvents,  \* bound: how many events the stream yields
          MaxDue,     \* bound: how many ticks are left waiting
          Room        \* frames that hyper buffers before it waits for the client

ASSUME StreamAssumption ==
  MaxEvents \in Nat /\ MaxDue \in Nat \ {0} /\ Room \in Nat \ {0}

VARIABLES
  keepAlive, \* the response is a KeepAliveSse
  produced,  \* how many events the application's stream has made ready
  source,    \* what it has after them: "open" (nothing yet), "ended", "failed"
  taken,     \* how many events poll_next has returned
  due,       \* ticks of the interval that passed and were not polled
  awake,     \* the connection's task is scheduled
  waiting,   \* who holds its waker: "events", "ticker", "socket"
  body,      \* "streaming", or what poll_next said last: "ended", "failed"
  buffer,    \* frames written and not yet read by the client
  seen,      \* the events the client has received, by number
  client     \* "open" response; "complete", "cut" short, or client "gone"

stream == <<keepAlive, produced, source, taken, due>>
task == <<awake, waiting>>
vars == <<stream, task, body, buffer, seen, client>>

Open == client = "open"

\* A frame is one rendered Event.  `nth` is the number of the event, for a
\* comment that of the event before it.
EventFrame(n) == [nth |-> n, comment |-> FALSE]
CommentFrame(n) == [nth |-> n, comment |-> TRUE]

\* The first tick of tokio's interval is due at once.
Init ==
  /\ keepAlive \in BOOLEAN
  /\ produced = 0 /\ source = "open" /\ taken = 0
  /\ due = IF keepAlive THEN 1 ELSE 0
  /\ awake = TRUE /\ waiting = {}
  /\ body = "streaming" /\ buffer = <<>> /\ seen = <<>> /\ client = "open"

Wake(who) ==
  IF who \in waiting THEN awake' = TRUE /\ waiting' = {} ELSE UNCHANGED task

(* --------------------- the application and the clock -------------------- *)

Produce ==
  /\ Open /\ source = "open" /\ produced < MaxEvents
  /\ produced' = produced + 1
  /\ Wake("events")
  /\ UNCHANGED <<keepAlive, source, taken, due, body, buffer, seen, client>>

CloseSource(how) ==
  /\ Open /\ source = "open"
  /\ source' = how
  /\ Wake("events")
  /\ UNCHANGED <<keepAlive, produced, taken, due, body, buffer, seen, client>>

\* An interval passes.  A missed tick stays due (MissedTickBehavior::Burst).
Tick ==
  /\ Open /\ keepAlive /\ body = "streaming" /\ due < MaxDue
  /\ due' = due + 1
  /\ Wake("ticker")
  /\ UNCHANGED <<keepAlive, produced, source, taken, body, buffer, seen, client>>

(* --------------------------- poll_next by hyper ------------------------- *)

\* A bug: the body is polled although the client is behind.
PolledBeyondRoom == Open /\ awake /\ body = "streaming"

Polled == Open /\ awake /\ body = "streaming" /\ Len(buffer) < Room
EventsPending == taken = produced /\ source = "open"

\* A bug: the merge polls both and returns the tick when both are ready.
PollEventOrTick ==
  /\ Polled /\ taken < produced
  /\ taken' = taken + 1
  /\ IF due > 0
     THEN due' = due - 1 /\ buffer' = Append(buffer, CommentFrame(taken))
     ELSE buffer' = Append(buffer, EventFrame(taken + 1)) /\ UNCHANGED due
  /\ UNCHANGED <<keepAlive, produced, source, task, body, seen, client>>

PollEvent ==
  /\ Polled /\ taken < produced
  /\ taken' = taken + 1
  /\ buffer' = Append(buffer, EventFrame(taken + 1))
  /\ UNCHANGED <<keepAlive, produced, source, due, task, body, seen, client>>

\* hyper gives the connection up; of what it has buffered any part may go out.
PollError ==
  /\ Polled /\ taken = produced /\ source = "failed"
  /\ body' = "failed"
  /\ \E kept \in 0..Len(buffer) : buffer' = SubSeq(buffer, 1, kept)
  /\ UNCHANGED <<stream, task, seen, client>>

\* A bug: the stream is over when both of the merged streams are.
PollEndOfBoth ==
  /\ Polled /\ taken = produced /\ source = "ended" /\ ~keepAlive
  /\ body' = "ended"
  /\ UNCHANGED <<stream, task, buffer, seen, client>>

\* The end of the events is the end of the response, whatever the ticker has.
PollEnd ==
  /\ Polled /\ taken = produced /\ source = "ended"
  /\ body' = "ended"
  /\ UNCHANGED <<stream, task, buffer, seen, client>>

\* A bug: the ticker is polled before the events.
PollTickerFirst ==
  /\ Polled /\ due > 0
  /\ due' = due - 1
  /\ buffer' = Append(buffer, CommentFrame(taken))
  /\ UNCHANGED <<keepAlive, produced, source, taken, task, body, seen, client>>

PollTicker ==
  /\ Polled /\ EventsPending /\ due > 0
  /\ due' = due - 1
  /\ buffer' = Append(buffer, CommentFrame(taken))
  /\ UNCHANGED <<keepAlive, produced, source, taken, task, body, seen, client>>

\* A bug: Pending events return before the ticker is polled.
PollPendingEarly ==
  /\ Polled /\ EventsPending /\ due = 0
  /\ awake' = FALSE /\ waiting' = {"events"}
  /\ UNCHANGED <<stream, body, buffer, seen, client>>

\* Both are Pending, and both have the waker.
PollPending ==
  /\ Polled /\ EventsPending /\ due = 0
  /\ awake' = FALSE
  /\ waiting' = IF keepAlive THEN {"events", "ticker"} ELSE {"events"}
  /\ UNCHANGED <<stream, body, buffer, seen, client>>

\* hyper does not poll the body while its buffer is full.  (A waker that is
\* still with the events or the ticker would only run the task in vain.)
AwaitRoom ==
  /\ Open /\ awake /\ body = "streaming" /\ Len(buffer) = Room
  /\ awake' = FALSE /\ waiting' = {"socket"}
  /\ UNCHANGED <<stream, body, buffer, seen, client>>

(* -------------------------------- client -------------------------------- *)

\* EventSource ignores comments.
Receive ==
  /\ Open /\ buffer # <<>>
  /\ buffer' = Tail(buffer)
  /\ seen' = IF Head(buffer).comment THEN seen ELSE Append(seen, Head(buffer).nth)
  /\ Wake("socket")
  /\ UNCHANGED <<stream, body, client>>

SeeEnd ==
  /\ Open /\ buffer = <<>> /\ body # "streaming"
  /\ client' = IF body = "ended" THEN "complete" ELSE "cut"
  /\ UNCHANGED <<stream, task, body, buffer, seen>>

\* hyper drops the body, and with it the application's stream.
Leave ==
  /\ Open
  /\ client' = "gone"
  /\ UNCHANGED <<stream, task, body, buffer, seen>>

Terminated == ~Open /\ UNCHANGED vars

PollNext ==
  PollEvent \/ PollError \/ PollEnd \/ PollTicker \/ PollPending \/ AwaitRoom

Next ==
  \/ Produce \/ CloseSource("ended") \/ CloseSource("failed") \/ Tick
  \/ PollNext \/ Receive \/ SeeEnd \/ Leave \/ Terminated

Spec == Init /\ [][Next]_vars

\* tokio polls a task that was woken, time passes, and a client that has not
\* left reads.  Nothing is assumed of the application.
Fairness == WF_vars(PollNext) /\ WF_vars(Tick) /\ WF_vars(Receive \/ SeeEnd)

FairSpec == Spec /\ Fairness

(* ------------------------------ properties ------------------------------ *)

Frame == [nth : Nat, comment : BOOLEAN]

\* The shape of the state.
TypeOK ==
  /\ keepAlive \in BOOLEAN /\ produced \in 0..MaxEvents
  /\ source \in {"open", "ended", "failed"}
  /\ taken \in 0..produced /\ due \in 0..MaxDue
  /\ awake \in BOOLEAN /\ waiting \subseteq {"events", "ticker", "socket"}
  /\ body \in {"streaming", "ended", "failed"}
  /\ buffer \in Seq(Frame) /\ Len(buffer) <= Room
  /\ seen \in Seq(Nat) /\ client \in {"open", "complete", "cut", "gone"}

\* How many events there were before the i-th frame of the buffer.
Before(i) == IF i = 1 THEN Len(seen) ELSE buffer[i - 1].nth

\* Between what the client has and what the stream gave up, nothing is
\* missing, repeated or out of order: the buffer goes on where the client is,
\* with comments anywhere between, and until a failure it ends where poll_next
\* is.
NothingBetweenIsLost ==
  /\ \A i \in 1..Len(seen) : seen[i] = i
  /\ \A i \in 1..Len(buffer) :
       buffer[i].nth = IF buffer[i].comment THEN Before(i) ELSE Before(i) + 1
  /\ body # "failed" => taken = Before(Len(buffer) + 1)

\* No lost wakeup: the connection's task sleeps only while poll_next has
\* nothing for it, or the client has left it no room; and whoever could change
\* that holds its waker.
NoLostWakeup ==
  Open /\ body = "streaming" /\ ~awake =>
    \/ "socket" \in waiting /\ Len(buffer) = Room
    \/ /\ EventsPending /\ "events" \in waiting
       /\ keepAlive => due = 0 /\ "ticker" \in waiting

\* However many ticks were missed while the client was slow or events flowed,
\* their comments are not put before an event that is ready.
EventsGoFirst ==
  [][taken < produced /\ Len(buffer') > Len(buffer) => taken' = taken + 1]_vars

\* A KeepAliveSse never falls silent for good: as long as the response is open
\* and its client reads, the client gets frame after frame, whatever the
\* application's stream does.
IdleStreamIsKeptAlive == keepAlive => []<><<Receive>>_vars \/ <>~Open

Promise == INSTANCE EventDelivery

\* With its comments, its buffer and its wakers, the response is a faithful
\* delivery of the events, and a complete one to a client that stays.
ImplementsDelivery == Promise!Delivery
=============================================================================
