-------------------------- MODULE EventStream_proofs --------------------------
(* Theorems about EventStream, for every bound on events, ticks and room, and   *)
(* about EventSource, for all programs of the builder's calls over any          *)
(* characters.                                                                  *)
EXTENDS EventSource, SetInduction, TLAPS

(***************************************************************************)
(* What makes the properties inductive: the frames on their way are of     *)
(* events that poll_next has returned, and the body ended as the stream    *)
(* did, after its last event.                                              *)
(***************************************************************************)
FramesAreTaken == \A i \in 1..Len(buffer) : buffer[i].nth <= taken

EndIsTheStreams ==
  /\ body = "ended" => source = "ended" /\ taken = produced
  /\ body = "failed" => source = "failed"

IInv ==
  /\ TypeOK /\ NothingBetweenIsLost /\ NoLostWakeup
  /\ FramesAreTaken /\ EndIsTheStreams

(* ------------------------------- the buffer ----------------------------- *)

\* Where a buffer leads: the event its last frame leaves a client at that has
\* received `have` events.  Before(i) is this for its first i - 1 frames.
LEMMA BeforeType ==
  ASSUME TypeOK, NEW i \in 1..(Len(buffer) + 1)
  PROVE  Before(i) \in Nat
<1>1. buffer \in Seq(Frame) /\ seen \in Seq(Nat)
  BY DEF TypeOK
<1>2. CASE i = 1
  BY <1>1, <1>2 DEF Before
<1>3. CASE i # 1
  <2>1. i - 1 \in 1..Len(buffer)
    BY <1>1, <1>3
  <2>2. buffer[i - 1] \in Frame
    BY <1>1, <2>1
  <2> QED
    BY <1>3, <2>2 DEF Before, Frame
<1> QED
  BY <1>2, <1>3

\* A frame put behind the buffer keeps it in order if it goes on where
\* poll_next was, and only then does the buffer end where poll_next is.
LEMMA AppendKeepsOrder ==
  ASSUME TypeOK, NothingBetweenIsLost, FramesAreTaken, body # "failed",
         NEW frame \in Frame, buffer' = Append(buffer, frame), UNCHANGED seen,
         frame.nth = taken', taken' \in Nat,
         taken' = IF frame.comment THEN taken ELSE taken + 1
  PROVE  /\ NothingBetweenIsLost' /\ FramesAreTaken'
<1>1. /\ buffer \in Seq(Frame) /\ taken \in Nat /\ seen \in Seq(Nat)
      /\ Len(buffer) \in Nat
  BY DEF TypeOK
<1>2. /\ Len(buffer') = Len(buffer) + 1
      /\ buffer'[Len(buffer) + 1] = frame
      /\ \A i \in 1..Len(buffer) : buffer'[i] = buffer[i]
  BY <1>1
<1>3. \A i \in 1..(Len(buffer) + 1) : Before(i)' = Before(i)
  <2> SUFFICES ASSUME NEW i \in 1..(Len(buffer) + 1) PROVE Before(i)' = Before(i)
    OBVIOUS
  <2>1. i # 1 => i - 1 \in 1..Len(buffer)
    BY <1>1
  <2> QED
    BY <1>2, <2>1 DEF Before
<1>4. Before(Len(buffer) + 1) = taken
  BY DEF NothingBetweenIsLost
<1>5. Before(Len(buffer) + 1)' = frame.nth
  BY <1>1, <1>2 DEF Before
<1>6. ASSUME NEW i \in 1..Len(buffer')
      PROVE  buffer'[i].nth = IF buffer'[i].comment THEN Before(i)' ELSE Before(i)' + 1
  <2>1. CASE i \in 1..Len(buffer)
    BY <1>2, <1>3, <2>1 DEF NothingBetweenIsLost
  <2>2. CASE i = Len(buffer) + 1
    BY <1>1, <1>2, <1>3, <1>4, <2>2
  <2> QED
    BY <1>1, <1>2, <1>6, <2>1, <2>2
<1>7. NothingBetweenIsLost'
  BY <1>5, <1>6 DEF NothingBetweenIsLost
<1>8. ASSUME NEW i \in 1..Len(buffer') PROVE buffer'[i].nth <= taken'
  <2>1. CASE i \in 1..Len(buffer)
    <3>1. buffer[i] \in Frame
      BY <1>1, <2>1
    <3> QED
      BY <1>1, <1>2, <2>1, <3>1 DEF FramesAreTaken, Frame
  <2>2. CASE i = Len(buffer) + 1
    BY <1>1, <1>2, <2>2
  <2> QED
    BY <1>1, <1>2, <1>8, <2>1, <2>2
<1> QED
  BY <1>7, <1>8 DEF FramesAreTaken

\* hyper may lose any tail of its buffer with the connection.
LEMMA CutKeepsOrder ==
  ASSUME TypeOK, NothingBetweenIsLost, FramesAreTaken,
         NEW kept \in 0..Len(buffer), buffer' = SubSeq(buffer, 1, kept),
         UNCHANGED <<seen, taken>>, body' = "failed"
  PROVE  /\ NothingBetweenIsLost' /\ FramesAreTaken'
<1>1. buffer \in Seq(Frame) /\ Len(buffer) \in Nat
  BY DEF TypeOK
<1>2. Len(buffer') = kept /\ \A i \in 1..kept : buffer'[i] = buffer[i]
  BY <1>1
<1>3. ASSUME NEW i \in 1..kept PROVE Before(i)' = Before(i)
  <2>1. i # 1 => i - 1 \in 1..kept
    BY <1>1
  <2> QED
    BY <1>2, <2>1 DEF Before
<1>4. \A i \in 1..kept : i \in 1..Len(buffer)
  BY <1>1
<1> QED
  BY <1>2, <1>3, <1>4 DEF NothingBetweenIsLost, FramesAreTaken

\* The client goes on by one frame, by one event if it is not a comment.
LEMMA ReceiveKeepsOrder ==
  ASSUME TypeOK, NothingBetweenIsLost, FramesAreTaken, Receive
  PROVE  /\ NothingBetweenIsLost' /\ FramesAreTaken'
         /\ seen' = seen \/ seen' = Append(seen, Len(seen) + 1)
         /\ Len(seen') <= taken \/ seen' = seen
<1>1. /\ buffer \in Seq(Frame) /\ Len(buffer) \in Nat /\ buffer # <<>>
      /\ seen \in Seq(Nat) /\ Len(seen) \in Nat
  BY DEF TypeOK, Receive
<1>2. /\ buffer' = Tail(buffer)
      /\ seen' = IF buffer[1].comment THEN seen ELSE Append(seen, buffer[1].nth)
      /\ UNCHANGED <<taken, body>>
  BY <1>1 DEF Receive, stream
<1>3. /\ Len(buffer') = Len(buffer) - 1 /\ Len(buffer) >= 1
      /\ \A i \in 1..Len(buffer') : buffer'[i] = buffer[i + 1]
  BY <1>1, <1>2
<1>4. /\ buffer[1] \in Frame /\ buffer[1].nth <= taken
      /\ buffer[1].nth = IF buffer[1].comment THEN Len(seen) ELSE Len(seen) + 1
  <2>1. 1 \in 1..Len(buffer) /\ Before(1) = Len(seen)
    BY <1>1, <1>3 DEF Before
  <2> QED
    BY <1>1, <2>1 DEF NothingBetweenIsLost, FramesAreTaken
<1>5. Len(seen') = buffer[1].nth
  BY <1>1, <1>2, <1>4
<1>6. \A i \in 1..Len(seen') : seen'[i] = i
  <2>1. CASE buffer[1].comment
    BY <1>2, <2>1 DEF NothingBetweenIsLost
  <2>2. CASE ~buffer[1].comment
    <3>1. seen' = Append(seen, Len(seen) + 1)
      BY <1>2, <1>4, <2>2
    <3> QED
      BY <1>1, <3>1 DEF NothingBetweenIsLost
  <2> QED
    BY <2>1, <2>2
<1>7. ASSUME NEW i \in 1..(Len(buffer') + 1) PROVE Before(i)' = Before(i + 1)
  <2>1. CASE i = 1
    BY <1>5, <2>1 DEF Before
  <2>2. CASE i # 1
    <3>1. i - 1 \in 1..Len(buffer') /\ (i - 1) + 1 = i /\ (i + 1) - 1 = i /\ i + 1 # 1
      BY <1>1, <1>3, <2>2
    <3>2. buffer'[i - 1] = buffer[i]
      BY <1>3, <3>1
    <3> QED
      BY <2>2, <3>1, <3>2 DEF Before
  <2> QED
    BY <2>1, <2>2
<1>8. \A i \in 1..Len(buffer') : i + 1 \in 1..Len(buffer) /\ i \in 1..(Len(buffer') + 1)
  BY <1>1, <1>3
<1>9. /\ \A i \in 1..Len(buffer') :
           buffer'[i].nth = IF buffer'[i].comment THEN Before(i)' ELSE Before(i)' + 1
      /\ FramesAreTaken'
  BY <1>2, <1>3, <1>7, <1>8 DEF NothingBetweenIsLost, FramesAreTaken
<1>10. body # "failed" => taken = Before(Len(buffer) + 1)'
  <2>1. Len(buffer') + 1 \in 1..(Len(buffer') + 1) /\ (Len(buffer') + 1) + 1 = Len(buffer) + 1
    BY <1>1, <1>3
  <2>2. ASSUME NEW n, n = Len(buffer') + 1 PROVE Before(n)' = Before(n + 1)
    BY <1>7, <2>1, <2>2
  <2> QED
    BY <2>1, <2>2 DEF NothingBetweenIsLost, Before
<1> QED
  BY <1>1, <1>2, <1>4, <1>5, <1>6, <1>9, <1>10 DEF NothingBetweenIsLost

(* --------------------------- the steps, in parts ------------------------ *)

LEMMA TypeStep == TypeOK /\ [Next]_vars => TypeOK'
<1> SUFFICES ASSUME TypeOK, [Next]_vars PROVE TypeOK'
  OBVIOUS
<1> USE StreamAssumption DEF TypeOK, stream, task, Polled, Open
<1>0. ASSUME NEW who, Wake(who)
      PROVE  awake' \in BOOLEAN /\ waiting' \subseteq {"events", "ticker", "socket"}
  BY <1>0 DEF Wake
<1>1. CASE Produce
  <2>1. produced' \in 0..MaxEvents /\ taken \in 0..produced'
    BY <1>1 DEF Produce
  <2> QED
    BY <1>0, <1>1, <2>1 DEF Produce
<1>2. ASSUME NEW how \in {"ended", "failed"}, CloseSource(how) PROVE TypeOK'
  BY <1>2 DEF CloseSource, Wake
<1>3. CASE Tick
  <2>1. due' \in 0..MaxDue
    BY <1>3 DEF Tick
  <2> QED
    BY <1>0, <1>3, <2>1 DEF Tick
<1>4. CASE PollEvent
  <2>1. EventFrame(taken + 1) \in Frame
    BY DEF EventFrame, Frame
  <2> QED
    BY <1>4, <2>1 DEF PollEvent
<1>5. CASE PollError
  <2>1. PICK kept \in 0..Len(buffer) : buffer' = SubSeq(buffer, 1, kept)
    BY <1>5 DEF PollError
  <2>2. buffer' \in Seq(Frame) /\ Len(buffer') = kept
    BY <2>1
  <2>3. Len(buffer') <= Room
    BY <2>1, <2>2
  <2> QED
    BY <1>5, <2>2, <2>3 DEF PollError
<1>6. CASE PollEnd
  BY <1>6 DEF PollEnd
<1>7. CASE PollTicker
  <2>1. CommentFrame(taken) \in Frame
    BY DEF CommentFrame, Frame
  <2> QED
    BY <1>7, <2>1 DEF PollTicker
<1>8. CASE PollPending \/ AwaitRoom
  BY <1>8 DEF PollPending, AwaitRoom
<1>9. CASE Receive
  <2>1. buffer' \in Seq(Frame) /\ Len(buffer') <= Room
    BY <1>9 DEF Receive
  <2>2. Head(buffer) \in Frame
    BY <1>9 DEF Receive
  <2>3. seen' \in Seq(Nat)
    BY <1>9, <2>2 DEF Receive, Frame
  <2> QED
    BY <1>9, <2>1, <2>3 DEF Receive, Wake
<1>10. CASE SeeEnd \/ Leave
  BY <1>10 DEF SeeEnd, Leave
<1>11. CASE UNCHANGED vars
  BY <1>11 DEF vars
<1> QED
  BY <1>1, <1>2, <1>3, <1>4, <1>5, <1>6, <1>7, <1>8, <1>9, <1>10, <1>11
  DEF Next, PollNext, Terminated

\* Only these touch the frames on their way or what the client has seen.
Frames == <<buffer, seen, taken>>
LEMMA OrderStep ==
  TypeOK /\ NothingBetweenIsLost /\ FramesAreTaken /\ [Next]_vars
    => NothingBetweenIsLost' /\ FramesAreTaken'
<1> SUFFICES ASSUME TypeOK, NothingBetweenIsLost, FramesAreTaken, [Next]_vars
             PROVE  NothingBetweenIsLost' /\ FramesAreTaken'
  OBVIOUS
<1>1. ASSUME UNCHANGED Frames, body' # "failed" => body # "failed"
      PROVE  NothingBetweenIsLost' /\ FramesAreTaken'
  <2>1. \A i : Before(i)' = Before(i)
    BY <1>1 DEF Before, Frames
  <2>2. Before(Len(buffer) + 1)' = Before(Len(buffer) + 1)
    BY <1>1 DEF Before, Frames
  <2> QED
    BY <1>1, <2>1, <2>2 DEF NothingBetweenIsLost, FramesAreTaken, Frames
<1>2. CASE PollEvent
  <2>1. /\ body # "failed" /\ taken' = taken + 1 /\ taken' \in Nat
        /\ EventFrame(taken + 1) \in Frame
    BY <1>2 DEF PollEvent, Polled, TypeOK, EventFrame, Frame
  <2> QED
    BY <1>2, <2>1, AppendKeepsOrder DEF PollEvent, EventFrame
<1>3. CASE PollTicker
  <2>1. /\ body # "failed" /\ taken' = taken /\ taken' \in Nat
        /\ CommentFrame(taken) \in Frame
    BY <1>3 DEF PollTicker, Polled, TypeOK, CommentFrame, Frame
  <2> QED
    BY <1>3, <2>1, AppendKeepsOrder DEF PollTicker, CommentFrame
<1>4. CASE PollError
  BY <1>4, CutKeepsOrder DEF PollError, stream
<1>5. CASE Receive
  BY <1>5, ReceiveKeepsOrder
<1>6. CASE Produce \/ CloseSource("ended") \/ CloseSource("failed") \/ Tick
  BY <1>1, <1>6 DEF Produce, CloseSource, Tick, Frames
<1>7. CASE PollEnd \/ PollPending \/ AwaitRoom
  BY <1>1, <1>7 DEF PollEnd, PollPending, AwaitRoom, Polled, Frames, stream
<1>8. CASE SeeEnd \/ Leave \/ UNCHANGED vars
  BY <1>1, <1>8 DEF SeeEnd, Leave, vars, Frames, stream
<1> QED
  BY <1>2, <1>3, <1>4, <1>5, <1>6, <1>7, <1>8 DEF Next, PollNext, Terminated

LEMMA WakeStep == TypeOK /\ NoLostWakeup /\ [Next]_vars => NoLostWakeup'
<1> SUFFICES ASSUME TypeOK, NoLostWakeup, [Next]_vars PROVE NoLostWakeup'
  OBVIOUS
<1> USE DEF NoLostWakeup, EventsPending, Open, stream, task
<1>1. CASE Produce
  BY <1>1 DEF Produce, Wake
<1>2. CASE CloseSource("ended") \/ CloseSource("failed")
  BY <1>2 DEF CloseSource, Wake
<1>3. CASE Tick
  BY <1>3 DEF Tick, Wake
<1>4. CASE PollEvent \/ PollTicker \/ PollEnd \/ PollError
  BY <1>4 DEF PollEvent, PollTicker, PollEnd, PollError, Polled
<1>5. CASE PollPending \/ AwaitRoom
  BY <1>5 DEF PollPending, AwaitRoom, Polled
<1>6. CASE Receive
  BY <1>6 DEF Receive, Wake
<1>7. CASE SeeEnd \/ Leave \/ UNCHANGED vars
  BY <1>7 DEF SeeEnd, Leave, vars
<1> QED
  BY <1>1, <1>2, <1>3, <1>4, <1>5, <1>6, <1>7 DEF Next, PollNext, Terminated

LEMMA EndStep == TypeOK /\ EndIsTheStreams /\ [Next]_vars => EndIsTheStreams'
<1> SUFFICES ASSUME TypeOK, EndIsTheStreams, [Next]_vars PROVE EndIsTheStreams'
  OBVIOUS
<1> USE DEF EndIsTheStreams, Polled, stream
<1>1. CASE Produce \/ CloseSource("ended") \/ CloseSource("failed") \/ Tick
  BY <1>1 DEF Produce, CloseSource, Tick
<1>2. CASE PollNext
  BY <1>2 DEF PollNext, PollEvent, PollTicker, PollEnd, PollError, PollPending,
             AwaitRoom
<1>3. CASE Receive \/ SeeEnd \/ Leave \/ UNCHANGED vars
  BY <1>3 DEF Receive, SeeEnd, Leave, vars
<1> QED
  BY <1>1, <1>2, <1>3 DEF Next, Terminated

LEMMA InitIInv == Init => IInv
<1> SUFFICES ASSUME Init PROVE IInv
  OBVIOUS
<1>1. TypeOK
  BY StreamAssumption DEF Init, TypeOK
<1>2. NothingBetweenIsLost /\ FramesAreTaken
  BY DEF Init, NothingBetweenIsLost, FramesAreTaken, Before
<1> QED
  BY <1>1, <1>2 DEF Init, IInv, NoLostWakeup, EndIsTheStreams

LEMMA Inductive == Spec => []IInv
<1>1. IInv /\ [Next]_vars => IInv'
  BY TypeStep, OrderStep, WakeStep, EndStep DEF IInv
<1> QED
  BY InitIInv, <1>1, PTL DEF Spec

(* ------------------------------- theorems ------------------------------- *)

\* The state of a response keeps its shape; hyper's buffer stays within its
\* room and ticks are only due when there is a ticker's bound for them.
THEOREM TypeCorrect == Spec => []TypeOK
  BY Inductive, PTL DEF IInv

\* No event is lost, repeated or overtaken between the application's stream
\* and the client, whatever comments lie between.
THEOREM NothingLost == Spec => []NothingBetweenIsLost
  BY Inductive, PTL DEF IInv

\* A sleeping connection has nothing to do, or somebody will wake it.
THEOREM WakeupsKept == Spec => []NoLostWakeup
  BY Inductive, PTL DEF IInv

\* No comment goes before an event that is ready.
THEOREM EventsFirst == Spec => EventsGoFirst
<1>1. IInv /\ [Next]_vars =>
        [taken < produced /\ Len(buffer') > Len(buffer) => taken' = taken + 1]_vars
  <2> SUFFICES ASSUME IInv, [Next]_vars, taken < produced,
                      Len(buffer') > Len(buffer), vars' # vars
               PROVE  taken' = taken + 1
    OBVIOUS
  <2>1. /\ buffer \in Seq(Frame) /\ Len(buffer) \in Nat
        /\ taken \in Nat /\ produced \in Nat
    BY DEF IInv, TypeOK
  <2>2. CASE PollEvent
    BY <2>2 DEF PollEvent
  <2>3. CASE PollTicker
    BY <2>1, <2>3 DEF PollTicker, EventsPending
  <2>4. CASE PollError
    <3>1. PICK kept \in 0..Len(buffer) : buffer' = SubSeq(buffer, 1, kept)
      BY <2>4 DEF PollError
    <3>2. Len(buffer') = kept
      BY <2>1, <3>1
    <3> QED
      BY <2>1, <3>1, <3>2
  <2>5. CASE Receive
    BY <2>1, <2>5 DEF Receive
  <2>6. CASE UNCHANGED buffer
    BY <2>1, <2>6
  <2> QED
    BY <2>2, <2>3, <2>4, <2>5, <2>6
    DEF Next, PollNext, Produce, CloseSource, Tick, PollEnd, PollPending,
        AwaitRoom, SeeEnd, Leave, Terminated, vars
<1> QED
  BY Inductive, <1>1, PTL DEF Spec, EventsGoFirst

\* Every step of a response is a step of the delivery or does not show there:
\* events arrive in order and once, the end only after the last of them, and a
\* failure is never taken for the end.
THEOREM DeliveryRefinement == Spec => Promise!SafeDelivery
<1>1. Init => Promise!DeliveryInit
  BY DEF Init, Promise!DeliveryInit
<1>2. IInv /\ [Next]_vars => [Promise!DeliveryNext]_(Promise!vars)
  <2> SUFFICES ASSUME IInv, [Next]_vars
               PROVE  Promise!DeliveryNext \/ UNCHANGED Promise!vars
    OBVIOUS
  <2> USE DEF Promise!DeliveryNext, Promise!vars, Open, Promise!Open, stream
  <2>1. CASE Produce
    BY <2>1 DEF Produce, Promise!Produce
  <2>2. CASE CloseSource("ended")
    BY <2>2 DEF CloseSource, Promise!CloseSource
  <2>3. CASE CloseSource("failed")
    BY <2>3 DEF CloseSource, Promise!CloseSource
  <2>4. CASE Leave
    BY <2>4 DEF Leave, Promise!Leave
  <2>5. CASE Receive
    <3>1. /\ seen' = seen \/ seen' = Append(seen, Len(seen) + 1)
          /\ Len(seen') <= taken \/ seen' = seen
      BY <2>5, ReceiveKeepsOrder DEF IInv
    <3>2. CASE seen' = seen
      BY <2>5, <3>2 DEF Receive
    <3>3. CASE seen' = Append(seen, Len(seen) + 1)
      <4>1. seen \in Seq(Nat) /\ Len(seen) \in Nat /\ taken \in 0..produced /\ produced \in Nat
        BY DEF IInv, TypeOK
      <4>2. Len(seen') = Len(seen) + 1
        BY <3>3, <4>1
      <4>3. Len(seen) < produced
        BY <3>1, <4>1, <4>2
      <4> QED
        BY <2>5, <3>3, <4>3 DEF Receive, Promise!Deliver
    <3> QED
      BY <3>1, <3>2, <3>3
  <2>6. CASE SeeEnd
    <3>1. CASE body = "ended"
      <4>1. Len(buffer) = 0 /\ taken = Before(Len(buffer) + 1)
        BY <2>6, <3>1 DEF SeeEnd, IInv, NothingBetweenIsLost
      <4>2. source = "ended" /\ Len(seen) = produced
        BY <3>1, <4>1 DEF IInv, EndIsTheStreams, Before
      <4> QED
        BY <2>6, <3>1, <4>2 DEF SeeEnd, Promise!Complete
    <3>2. CASE body = "failed"
      BY <2>6, <3>2 DEF SeeEnd, IInv, EndIsTheStreams, Promise!Cut
    <3> QED
      BY <2>6, <3>1, <3>2 DEF SeeEnd, IInv, TypeOK
  <2>7. CASE UNCHANGED <<produced, source, seen, client>>
    BY <2>7
  <2> QED
    BY <2>1, <2>2, <2>3, <2>4, <2>5, <2>6, <2>7
    DEF Next, PollNext, PollEvent, PollError, PollEnd, PollTicker, PollPending,
        AwaitRoom, Tick, Terminated, vars
<1> QED
  BY Inductive, <1>1, <1>2, PTL DEF Spec, Promise!SafeDelivery

(* --------------------- events: folds, step by step ---------------------- *)

Text == Seq(Characters)
SomeTexts == Seq(Text) \ {<<>>}
\* A call of the builder; also a line on the wire.
BuilderCalls == [field : Fields, text : Text]
\* What a builder holds, and what a client does.
Events == [Fields -> Seq(Text)]
States ==
  [type : Text, id : Seq(Text), retry : Seq(Text), data : Text, early : BOOLEAN]

\* A call leaves a builder with texts in its fields.
LEMMA CallType ==
  ASSUME NEW e \in Events, NEW c \in BuilderCalls PROVE Call(e, c) \in Events
<1>1. LF \in Characters /\ <<LF>> \in Text
  BY ProgramAssumption DEF Text
<1>2. e[c.field] \in Seq(Text) /\ c.text \in Text /\ c.field \in Fields
  BY DEF Events, BuilderCalls
<1>3. e[c.field] # <<>> => e[c.field][1] \in Text
  BY <1>2
<1>4. e[c.field] # <<>> => e[c.field][1] \o <<LF>> \o c.text \in Text
  BY <1>1, <1>2, <1>3 DEF Text
<1> DEFINE v == IF c.field = "data" /\ e[c.field] # <<>>
                THEN <<e[c.field][1] \o <<LF>> \o c.text>> ELSE <<c.text>>
<1>5. v \in Seq(Text)
  BY <1>2, <1>4
<1>6. Call(e, c) = [e EXCEPT ![c.field] = v]
  BY DEF Call
<1> HIDE DEF v
<1> QED BY <1>2, <1>5, <1>6 DEF Events

\* The builder, call by call.
LEMMA BuiltAppends ==
  /\ Built(<<>>) = New
  /\ \A s \in Seq(BuilderCalls) : Built(s) \in Events
  /\ \A s \in Seq(BuilderCalls), c \in BuilderCalls :
       Built(Append(s, c)) = Call(Built(s), c)
<1> DEFINE step == [x \in Events \X BuilderCalls |-> Call(x[1], x[2])]
           F == [s \in Seq(BuilderCalls) |-> Built(s)]
<1>1. New \in Events
  BY DEF New, Events
<1>2. step \in [Events \X BuilderCalls -> Events]
  BY CallType
<1>3. \A b \in Events, c \in BuilderCalls : step[<<b, c>>] = Call(b, c)
  OBVIOUS
<1> HIDE DEF step
<1>4. ASSUME NEW s \in Seq(BuilderCalls)
      PROVE  \E iter : Built(s) = iter[1..Len(s)]
                          /\ Folds(iter, step, New, Events, s, Len(s))
  <2> DEFINE Recurs(iter) == iter = [t \in SUBSET DOMAIN s |->
               IF t = {} THEN New ELSE Call(iter[t \ {Max(t)}], s[Max(t)])]
  <2>1. \E iter : Recurs(iter)
    <3>1. PICK iter : Iterates(iter, step, New, Events, BuilderCalls, s)
      BY <1>1, <1>2, FoldExists
    <3>2. Recurs(iter)
      BY <1>3, <3>1 DEF Iterates
    <3> QED BY <3>2
  <2>2. PICK iter : Built(s) = iter[DOMAIN s] /\ Recurs(iter)
    BY <2>1 DEF Built, FoldLeft, MapThenFoldSet
  <2>3. ASSUME NEW k \in 1..Len(s), iter[1..(k - 1)] \in Events
        PROVE  iter[1..k] = step[<<iter[1..(k - 1)], s[k]>>]
    <3>1. iter[1..k] = Call(iter[1..(k - 1)], s[k])
      BY <2>2, PrefixSets
    <3> QED BY <1>3, <2>3, <3>1, PrefixSets
  <2>4. iter[{}] = New
    BY <2>2
  <2> QED BY <2>2, <2>3, <2>4, PrefixSets DEF Folds
<1>5. IsFold(F, step, New, Events, BuilderCalls)
  BY <1>4 DEF IsFold
<1>6. \A s \in Seq(BuilderCalls) : F[s] = Built(s)
  OBVIOUS
<1>7. /\ <<>> \in Seq(BuilderCalls)
      /\ \A s \in Seq(BuilderCalls), c \in BuilderCalls : Append(s, c) \in Seq(BuilderCalls)
  BY EmptySeq, AppendProperties
<1> HIDE DEF F
<1>8. Appends(F, step, New, Events, BuilderCalls)
  BY <1>1, <1>2, <1>5, FoldAppend
<1> QED BY <1>3, <1>6, <1>7, <1>8 DEF Appends

\* What one call adds to the texts of a field.
AddText(texts, c, field) == IF c.field = field THEN Append(texts, c.text) ELSE texts

\* The texts of one field.
LEMMA TextsAppend ==
  ASSUME NEW field
  PROVE
  /\ Texts(<<>>, field) = <<>>
  /\ \A s \in Seq(BuilderCalls) : Texts(s, field) \in Seq(Text)
  /\ \A s \in Seq(BuilderCalls), c \in BuilderCalls :
       Texts(Append(s, c), field) = AddText(Texts(s, field), c, field)
<1> DEFINE step == [x \in Seq(Text) \X BuilderCalls |-> AddText(x[1], x[2], field)]
           F == [s \in Seq(BuilderCalls) |-> Texts(s, field)]
<1>1. <<>> \in Seq(Text)
  BY EmptySeq
<1>2. step \in [Seq(Text) \X BuilderCalls -> Seq(Text)]
  BY AppendProperties DEF BuilderCalls, AddText
<1>3. \A b \in Seq(Text), c \in BuilderCalls : step[<<b, c>>] = AddText(b, c, field)
  OBVIOUS
<1> HIDE DEF step
<1>4. ASSUME NEW s \in Seq(BuilderCalls)
      PROVE  \E iter : Texts(s, field) = iter[1..Len(s)]
                          /\ Folds(iter, step, <<>>, Seq(Text), s, Len(s))
  <2> DEFINE Recurs(iter) == iter = [t \in SUBSET DOMAIN s |->
               IF t = {} THEN <<>> ELSE AddText(iter[t \ {Max(t)}], s[Max(t)], field)]
  <2>1. \E iter : Recurs(iter)
    <3>1. PICK iter : Iterates(iter, step, <<>>, Seq(Text), BuilderCalls, s)
      BY <1>1, <1>2, FoldExists
    <3>2. Recurs(iter)
      BY <1>3, <3>1 DEF Iterates
    <3> QED BY <3>2
  <2>2. PICK iter : Texts(s, field) = iter[DOMAIN s] /\ Recurs(iter)
    BY <2>1 DEF Texts, AddText, FoldLeft, MapThenFoldSet
  <2>3. ASSUME NEW k \in 1..Len(s), iter[1..(k - 1)] \in Seq(Text)
        PROVE  iter[1..k] = step[<<iter[1..(k - 1)], s[k]>>]
    <3>1. iter[1..k] = AddText(iter[1..(k - 1)], s[k], field)
      BY <2>2, PrefixSets
    <3> QED BY <1>3, <2>3, <3>1, PrefixSets
  <2>4. iter[{}] = <<>>
    BY <2>2
  <2> QED BY <2>2, <2>3, <2>4, PrefixSets DEF Folds
<1>5. IsFold(F, step, <<>>, Seq(Text), BuilderCalls)
  BY <1>4 DEF IsFold
<1>6. \A s \in Seq(BuilderCalls) : F[s] = Texts(s, field)
  OBVIOUS
<1>7. /\ <<>> \in Seq(BuilderCalls)
      /\ \A s \in Seq(BuilderCalls), c \in BuilderCalls : Append(s, c) \in Seq(BuilderCalls)
  BY EmptySeq, AppendProperties
<1> HIDE DEF F
<1>8. Appends(F, step, <<>>, Seq(Text), BuilderCalls)
  BY <1>1, <1>2, <1>5, FoldAppend
<1> QED BY <1>3, <1>6, <1>7, <1>8 DEF Appends

\* A character leaves at least one line.
LEMMA LineType ==
  ASSUME NEW lines \in SomeTexts, NEW char \in Characters
  PROVE  AddChar(lines, char) \in SomeTexts
<1>1. lines \in Seq(Text) /\ lines # <<>> /\ Len(lines) \in 1..Len(lines)
  BY LenProperties, EmptySeq DEF SomeTexts
<1>2. <<>> \in Text /\ lines[Len(lines)] \in Text
  BY <1>1, EmptySeq, ElementOfSeq DEF Text
<1>3. Append(lines, <<>>) \in SomeTexts
  BY <1>1, <1>2, AppendProperties DEF SomeTexts
<1>4. [lines EXCEPT ![Len(lines)] = Append(@, char)] \in SomeTexts
  <2>1. Append(lines[Len(lines)], char) \in Text
    BY <1>2, AppendProperties DEF Text
  <2> DEFINE v == Append(lines[Len(lines)], char)
  <2>3. v \in Text /\ [lines EXCEPT ![Len(lines)] = Append(@, char)] =
                           [lines EXCEPT ![Len(lines)] = v]
    BY <2>1
  <2> HIDE DEF v
  <2>4. /\ [lines EXCEPT ![Len(lines)] = v] \in Seq(Text)
        /\ [lines EXCEPT ![Len(lines)] = v] # <<>>
    BY <1>1, <2>3, ExceptSeq
  <2> QED BY <2>3, <2>4 DEF SomeTexts
<1> QED BY <1>3, <1>4 DEF AddChar

\* The lines of a text, character by character.
LEMMA LinesAppend ==
  /\ Lines(<<>>) = << <<>> >>
  /\ \A s \in Seq(Characters) : Lines(s) \in SomeTexts
  /\ \A s \in Seq(Characters), char \in Characters :
       Lines(Append(s, char)) = AddChar(Lines(s), char)
<1> DEFINE step == [x \in SomeTexts \X Characters |-> AddChar(x[1], x[2])]
           F == [s \in Seq(Characters) |-> Lines(s)]
<1>1. << <<>> >> \in SomeTexts
  BY EmptySeq DEF SomeTexts, Text
<1>2. step \in [SomeTexts \X Characters -> SomeTexts]
  BY LineType
<1>3. \A b \in SomeTexts, char \in Characters : step[<<b, char>>] = AddChar(b, char)
  OBVIOUS
<1> HIDE DEF step
<1>4. ASSUME NEW s \in Seq(Characters)
      PROVE  \E iter : Lines(s) = iter[1..Len(s)]
                          /\ Folds(iter, step, << <<>> >>, SomeTexts, s, Len(s))
  <2> DEFINE Recurs(iter) == iter = [t \in SUBSET DOMAIN s |->
               IF t = {} THEN << <<>> >> ELSE AddChar(iter[t \ {Max(t)}], s[Max(t)])]
  <2>1. \E iter : Recurs(iter)
    <3>1. PICK iter : Iterates(iter, step, << <<>> >>, SomeTexts, Characters, s)
      BY <1>1, <1>2, FoldExists
    <3>2. Recurs(iter)
      BY <1>3, <3>1 DEF Iterates
    <3> QED BY <3>2
  <2>2. PICK iter : Lines(s) = iter[DOMAIN s] /\ Recurs(iter)
    BY <2>1 DEF Lines, FoldLeft, MapThenFoldSet
  <2>3. ASSUME NEW k \in 1..Len(s), iter[1..(k - 1)] \in SomeTexts
        PROVE  iter[1..k] = step[<<iter[1..(k - 1)], s[k]>>]
    <3>1. iter[1..k] = AddChar(iter[1..(k - 1)], s[k])
      BY <2>2, PrefixSets
    <3> QED BY <1>3, <2>3, <3>1, PrefixSets
  <2>4. iter[{}] = << <<>> >>
    BY <2>2
  <2> QED BY <2>2, <2>3, <2>4, PrefixSets DEF Folds
<1>5. IsFold(F, step, << <<>> >>, SomeTexts, Characters)
  BY <1>4 DEF IsFold
<1>6. \A s \in Seq(Characters) : F[s] = Lines(s)
  OBVIOUS
<1>7. /\ <<>> \in Seq(Characters)
      /\ \A s \in Seq(Characters), char \in Characters : Append(s, char) \in Seq(Characters)
  BY EmptySeq, AppendProperties
<1> HIDE DEF F
<1>8. Appends(F, step, << <<>> >>, SomeTexts, Characters)
  BY <1>1, <1>2, <1>5, FoldAppend
<1> QED BY <1>3, <1>6, <1>7, <1>8 DEF Appends

\* Texts joined behind a first one; Joined(texts) is JoinedTo(Head, Tail).
JoinedTo(first, texts) ==
  FoldLeft(JoinLine, first, texts)

\* Joining, text by text.
LEMMA JoinedToAppends ==
  ASSUME NEW first \in Text
  PROVE
  /\ JoinedTo(first, <<>>) = first
  /\ \A s \in Seq(Text) : JoinedTo(first, s) \in Text
  /\ \A s \in Seq(Text), line \in Text :
       JoinedTo(first, Append(s, line)) = JoinLine(JoinedTo(first, s), line)
<1> DEFINE step == [x \in Text \X Text |-> JoinLine(x[1], x[2])]
           F == [s \in Seq(Text) |-> JoinedTo(first, s)]
<1>1. first \in Text
  OBVIOUS
<1>2. step \in [Text \X Text -> Text]
  BY ProgramAssumption DEF Text, JoinLine
<1>3. \A b \in Text, line \in Text : step[<<b, line>>] = JoinLine(b, line)
  OBVIOUS
<1> HIDE DEF step
<1>4. ASSUME NEW s \in Seq(Text)
      PROVE  \E iter : JoinedTo(first, s) = iter[1..Len(s)]
                          /\ Folds(iter, step, first, Text, s, Len(s))
  <2> DEFINE Recurs(iter) == iter = [t \in SUBSET DOMAIN s |->
               IF t = {} THEN first ELSE JoinLine(iter[t \ {Max(t)}], s[Max(t)])]
  <2>1. \E iter : Recurs(iter)
    <3>1. PICK iter : Iterates(iter, step, first, Text, Text, s)
      BY <1>1, <1>2, FoldExists
    <3>2. Recurs(iter)
      BY <1>3, <3>1 DEF Iterates
    <3> QED BY <3>2
  <2>2. PICK iter : JoinedTo(first, s) = iter[DOMAIN s] /\ Recurs(iter)
    BY <2>1 DEF JoinedTo, FoldLeft, MapThenFoldSet
  <2>3. ASSUME NEW k \in 1..Len(s), iter[1..(k - 1)] \in Text
        PROVE  iter[1..k] = step[<<iter[1..(k - 1)], s[k]>>]
    <3>1. iter[1..k] = JoinLine(iter[1..(k - 1)], s[k])
      BY <2>2, PrefixSets
    <3> QED BY <1>3, <2>3, <3>1, PrefixSets
  <2>4. iter[{}] = first
    BY <2>2
  <2> QED BY <2>2, <2>3, <2>4, PrefixSets DEF Folds
<1>5. IsFold(F, step, first, Text, Text)
  BY <1>4 DEF IsFold
<1>6. \A s \in Seq(Text) : F[s] = JoinedTo(first, s)
  OBVIOUS
<1>7. /\ <<>> \in Seq(Text)
      /\ \A s \in Seq(Text), line \in Text : Append(s, line) \in Seq(Text)
  BY EmptySeq, AppendProperties
<1> HIDE DEF F
<1>8. Appends(F, step, first, Text, Text)
  BY <1>1, <1>2, <1>5, FoldAppend
<1>9. ASSUME NEW s \in Seq(Text), NEW line \in Text
      PROVE  JoinedTo(first, Append(s, line)) = JoinLine(JoinedTo(first, s), line)
  <2>1. F[Append(s, line)] = step[<<F[s], line>>] /\ F[s] \in Text
    BY <1>8 DEF Appends
  <2>2. step[<<F[s], line>>] = JoinLine(F[s], line)
    BY <1>3, <2>1
  <2> QED BY <1>6, <1>7, <2>1, <2>2
<1>10. \A s \in Seq(Text) : F[s] \in Text /\ F[<<>>] = first
  BY <1>8 DEF Appends
<1> QED BY <1>6, <1>7, <1>9, <1>10

\* What the client takes for the value of a line is a text.
LEMMA ValueType == ASSUME NEW t \in Text PROVE Value(t) \in Text
<1> DEFINE first == {n \in DOMAIN t : t[n] = CR /\ \A k \in 1..(n - 1) : t[k] # CR}
<1>1. t \in Seq(Characters) /\ DOMAIN t = 1..Len(t) /\ Len(t) \in Nat
  BY LenProperties DEF Text
<1>2. BeforeCR(t) \in Seq(Characters)
  <2>1. CASE first = {}
    BY <1>1, <2>1 DEF BeforeCR
  <2>2. CASE first # {}
    <3>1. PICK m : m = (CHOOSE n \in first : TRUE) /\ m \in 1..Len(t)
      BY <1>1, <2>2
    <3>2. BeforeCR(t) = SubSeq(t, 1, m - 1)
      BY <2>2, <3>1 DEF BeforeCR
    <3>3. m - 1 \in 0..Len(t)
      BY <1>1, <3>1
    <3> QED BY <1>1, <3>2, <3>3, SubSeqProperties
  <2> QED BY <2>1, <2>2
<1> DEFINE line == BeforeCR(t)
<1>3. Value(t) = IF line # <<>> /\ Head(line) = Space THEN Tail(line) ELSE line
  BY DEF Value
<1> HIDE DEF line
<1>4. line \in Seq(Characters)
  BY <1>2 DEF line
<1> QED BY <1>3, <1>4, HeadTailProperties DEF Text

\* A field leaves the client in one of its states.
LEMMA FieldType ==
  ASSUME NEW state \in States, NEW field \in Fields, NEW v \in Text
  PROVE  TakeField(state, field, v) \in States
<1>1. <<LF>> \in Text
  BY ProgramAssumption DEF Text
<1>2. <<v>> \in Seq(Text) /\ state.data \o v \o <<LF>> \in Text
  BY <1>1 DEF States, Text
<1> QED BY <1>2 DEF TakeField, Fields, States

\* A line leaves the client in one of its states.
LEMMA ReadType ==
  ASSUME NEW state \in States, NEW line \in BuilderCalls
  PROVE  ReadLine(state, line) \in States
<1> DEFINE read == TakeField(state, line.field, Value(line.text))
<1>1. read \in States
  <2>1. line.field \in Fields /\ line.text \in Text
    BY DEF BuilderCalls
  <2>2. Value(line.text) \in Text
    BY <2>1, ValueType
  <2> QED BY <2>1, <2>2, FieldType
<1>2. ReadLine(state, line) = IF EndsEarly(line.text) THEN EndEarly(read) ELSE read
  BY DEF ReadLine
<1> HIDE DEF read
<1>3. EndEarly(read) \in States
  <2>1. <<>> \in Text
    BY EmptySeq DEF Text
  <2> QED BY <1>1, <2>1 DEF EndEarly, States
<1> QED BY <1>1, <1>2, <1>3

\* The client, line by line.
LEMMA ReadAppends ==
  /\ ReadLines(<<>>) = Idle
  /\ \A s \in Seq(BuilderCalls) : ReadLines(s) \in States
  /\ \A s \in Seq(BuilderCalls), line \in BuilderCalls :
       ReadLines(Append(s, line)) = ReadLine(ReadLines(s), line)
<1> DEFINE step == [x \in States \X BuilderCalls |-> ReadLine(x[1], x[2])]
           F == [s \in Seq(BuilderCalls) |-> ReadLines(s)]
<1>1. Idle \in States
  BY EmptySeq DEF Idle, States, Text
<1>2. step \in [States \X BuilderCalls -> States]
  BY ReadType
<1>3. \A b \in States, line \in BuilderCalls : step[<<b, line>>] = ReadLine(b, line)
  OBVIOUS
<1> HIDE DEF step
<1>4. ASSUME NEW s \in Seq(BuilderCalls)
      PROVE  \E iter : ReadLines(s) = iter[1..Len(s)]
                          /\ Folds(iter, step, Idle, States, s, Len(s))
  <2> DEFINE Recurs(iter) == iter = [t \in SUBSET DOMAIN s |->
               IF t = {} THEN Idle ELSE ReadLine(iter[t \ {Max(t)}], s[Max(t)])]
  <2>1. \E iter : Recurs(iter)
    <3>1. PICK iter : Iterates(iter, step, Idle, States, BuilderCalls, s)
      BY <1>1, <1>2, FoldExists
    <3>2. Recurs(iter)
      BY <1>3, <3>1 DEF Iterates
    <3> QED BY <3>2
  <2>2. PICK iter : ReadLines(s) = iter[DOMAIN s] /\ Recurs(iter)
    BY <2>1 DEF ReadLines, FoldLeft, MapThenFoldSet
  <2>3. ASSUME NEW k \in 1..Len(s), iter[1..(k - 1)] \in States
        PROVE  iter[1..k] = step[<<iter[1..(k - 1)], s[k]>>]
    <3>1. iter[1..k] = ReadLine(iter[1..(k - 1)], s[k])
      BY <2>2, PrefixSets
    <3> QED BY <1>3, <2>3, <3>1, PrefixSets
  <2>4. iter[{}] = Idle
    BY <2>2
  <2> QED BY <2>2, <2>3, <2>4, PrefixSets DEF Folds
<1>5. IsFold(F, step, Idle, States, BuilderCalls)
  BY <1>4 DEF IsFold
<1>6. \A s \in Seq(BuilderCalls) : F[s] = ReadLines(s)
  OBVIOUS
<1>7. /\ <<>> \in Seq(BuilderCalls)
      /\ \A s \in Seq(BuilderCalls), line \in BuilderCalls : Append(s, line) \in Seq(BuilderCalls)
  BY EmptySeq, AppendProperties
<1> HIDE DEF F
<1>8. Appends(F, step, Idle, States, BuilderCalls)
  BY <1>1, <1>2, <1>5, FoldAppend
<1> QED BY <1>3, <1>6, <1>7, <1>8 DEF Appends

(* ----------------------------- the builder ------------------------------ *)

\* Joining texts one by one.
LEMMA JoinedAppends ==
  /\ \A t \in Text : Joined(<<t>>) = t
  /\ \A ts \in SomeTexts : Joined(ts) \in Text
  /\ \A ts \in SomeTexts, t \in Text :
       Joined(Append(ts, t)) = JoinLine(Joined(ts), t)
<1>1. \A ts \in SomeTexts :
        Joined(ts) = JoinedTo(Head(ts), Tail(ts)) /\ Head(ts) \in Text
          /\ Tail(ts) \in Seq(Text) /\ ts \in Seq(Text) /\ ts # <<>>
  BY HeadTailProperties DEF Joined, JoinedTo, SomeTexts
<1>2. ASSUME NEW t \in Text PROVE Joined(<<t>>) = t
  <2>1. <<t>> \in SomeTexts /\ Head(<<t>>) = t /\ Tail(<<t>>) = <<>>
    BY DEF SomeTexts
  <2> QED BY <1>1, <2>1, JoinedToAppends
<1>3. ASSUME NEW ts \in SomeTexts PROVE Joined(ts) \in Text
  BY <1>1, JoinedToAppends
<1>4. ASSUME NEW ts \in SomeTexts, NEW t \in Text
      PROVE  Joined(Append(ts, t)) = JoinLine(Joined(ts), t)
  <2>1. /\ Head(Append(ts, t)) = Head(ts) /\ Tail(Append(ts, t)) = Append(Tail(ts), t)
        /\ Append(ts, t) \in SomeTexts
    BY <1>1, HeadTailAppend, AppendProperties DEF SomeTexts
  <2>2. Joined(Append(ts, t)) = JoinedTo(Head(ts), Append(Tail(ts), t))
    BY <1>1, <2>1
  <2> DEFINE h == Head(ts)
             r == Tail(ts)
  <2>3. h \in Text /\ r \in Seq(Text) /\ Joined(ts) = JoinedTo(h, r)
    BY <1>1
  <2> HIDE DEF h, r
  <2>4. JoinedTo(h, Append(r, t)) = JoinLine(JoinedTo(h, r), t)
    BY <2>3, JoinedToAppends
  <2> QED BY <2>2, <2>3, <2>4 DEF h, r
<1> QED BY <1>2, <1>3, <1>4

\* What a builder holds after its calls: the last text of each field, and all of
\* data's.
LEMMA BuiltHolds ==
  ASSUME NEW prog \in Seq(BuilderCalls)
  PROVE  /\ \A f \in Fields \ {"data"} : Built(prog)[f] = LastOf(Texts(prog, f))
         /\ Built(prog)["data"] =
              IF Texts(prog, "data") = <<>> THEN <<>>
              ELSE <<Joined(Texts(prog, "data"))>>
<1> DEFINE Last1(e, s) == \A f \in Fields \ {"data"} : e[f] = LastOf(Texts(s, f))
           All(e, s) == e["data"] = IF Texts(s, "data") = <<>> THEN <<>>
                                    ELSE <<Joined(Texts(s, "data"))>>
           S == {s \in Seq(BuilderCalls) : Last1(Built(s), s) /\ All(Built(s), s)}
<1>1. <<>> \in S
  <2>1. /\ Built(<<>>) = New /\ <<>> \in Seq(BuilderCalls)
        /\ \A f : Texts(<<>>, f) = <<>>
    BY BuiltAppends, TextsAppend, EmptySeq
  <2>2. \A f \in Fields : New[f] = <<>>
    BY DEF New
  <2> QED BY <2>1, <2>2 DEF LastOf, Fields
<1>2. ASSUME NEW s \in S, NEW c \in BuilderCalls PROVE Append(s, c) \in S
  <2> DEFINE e == Built(s)
             u == Append(s, c)
  <2>1. /\ s \in Seq(BuilderCalls) /\ u \in Seq(BuilderCalls) /\ e \in Events
        /\ Built(u) = Call(e, c) /\ Last1(e, s) /\ All(e, s)
    BY BuiltAppends, AppendProperties
  <2>2. \A f : /\ Texts(s, f) \in Seq(Text)
               /\ Texts(u, f) = AddText(Texts(s, f), c, f)
    BY <2>1, TextsAppend
  <2> HIDE DEF u, e
  <2>3. c.field \in Fields /\ c.text \in Text
    BY DEF BuilderCalls
  <2>4. /\ \A f \in Fields : f # c.field => Call(e, c)[f] = e[f]
        /\ Call(e, c)[c.field] =
             IF c.field = "data" /\ e[c.field] # <<>>
             THEN <<e[c.field][1] \o <<LF>> \o c.text>> ELSE <<c.text>>
    BY <2>1, <2>3 DEF Call, Events
  <2>5. Last1(Call(e, c), u)
    <3> SUFFICES ASSUME NEW f \in Fields \ {"data"}
                 PROVE  Call(e, c)[f] = LastOf(Texts(u, f))
      OBVIOUS
    <3>1. CASE f # c.field
      BY <2>1, <2>2, <2>4, <3>1 DEF AddText
    <3>2. CASE f = c.field
      <4>1. Call(e, c)[f] = <<c.text>>
        BY <2>4, <3>2
      <4>2. Texts(u, f) = Append(Texts(s, f), c.text)
        BY <2>2, <3>2 DEF AddText
      <4>3. Texts(u, f) # <<>> /\ Texts(u, f)[Len(Texts(u, f))] = c.text
        BY <2>2, <2>3, <4>2, AppendProperties
      <4> QED BY <4>1, <4>3 DEF LastOf, Last
    <3> QED BY <3>1, <3>2
  <2>6. All(Call(e, c), u)
    <3> DEFINE ts == Texts(s, "data")
    <3>0. ts \in Seq(Text) /\ Texts(u, "data") = AddText(ts, c, "data") /\ "data" \in Fields
      BY <2>2 DEF Fields
    <3>1. CASE c.field # "data"
      BY <2>1, <2>4, <3>0, <3>1 DEF AddText
    <3>2. CASE c.field = "data" /\ ts = <<>>
      <4>1. Texts(u, "data") = <<c.text>>
        <5>1. Texts(u, "data") = Append(<<>>, c.text)
          BY <3>0, <3>2 DEF AddText
        <5>2. Append(<<>>, c.text) = <<c.text>>
          OBVIOUS
        <5> QED BY <5>1, <5>2
      <4>2. Call(e, c)["data"] = <<c.text>>
        <5>1. e["data"] = <<>>
          BY <2>1, <3>2
        <5> QED BY <2>4, <3>2, <5>1
      <4>3. Joined(<<c.text>>) = c.text
        BY <2>3, JoinedAppends
      <4> QED BY <4>1, <4>2, <4>3
    <3>3. CASE c.field = "data" /\ ts # <<>>
      <4>1. Texts(u, "data") = Append(ts, c.text) /\ Texts(u, "data") # <<>>
        BY <2>3, <3>0, <3>3, AppendProperties DEF AddText
      <4>2. e["data"] = <<Joined(ts)>>
        BY <2>1, <3>3
      <4>3. Call(e, c)["data"] = <<JoinLine(Joined(ts), c.text)>>
        <5>1. Call(e, c)["data"] = <<e["data"][1] \o <<LF>> \o c.text>>
          <6>1. e["data"] # <<>>
            BY <4>2
          <6> QED BY <2>4, <3>3, <6>1
        <5>2. e["data"][1] = Joined(ts)
          BY <4>2
        <5> QED BY <5>1, <5>2 DEF JoinLine
      <4>4. Joined(Append(ts, c.text)) = JoinLine(Joined(ts), c.text)
        BY <2>3, <3>0, <3>3, JoinedAppends DEF SomeTexts
      <4> QED BY <4>1, <4>3, <4>4
    <3> HIDE DEF ts
    <3> QED BY <3>1, <3>2, <3>3
  <2> HIDE DEF Last1, All
  <2> QED BY <2>1, <2>5, <2>6 DEF u
<1>3. S = Seq(BuilderCalls)
  <2>1. S \in SUBSET Seq(BuilderCalls)
    OBVIOUS
  <2> HIDE DEF S
  <2> QED BY <1>1, <1>2, <2>1, SeqInduct
<1> QED BY <1>3

\* Every text of a field is that of a call.
LEMMA TextsOfCalls ==
  ASSUME NEW prog \in Seq(BuilderCalls), NEW f
  PROVE  /\ Texts(prog, f) \in Seq(Text)
         /\ \A k \in 1..Len(Texts(prog, f)) : \E i \in 1..Len(prog) :
              prog[i].field = f /\ prog[i].text = Texts(prog, f)[k]
<1> DEFINE Of(ts, s) == \A k \in 1..Len(ts) : \E i \in 1..Len(s) :
                          s[i].field = f /\ s[i].text = ts[k]
           S == {s \in Seq(BuilderCalls) : Of(Texts(s, f), s)}
<1>1. <<>> \in S
  <2>1. Texts(<<>>, f) = <<>> /\ <<>> \in Seq(BuilderCalls)
    BY TextsAppend, EmptySeq
  <2>2. Of(<<>>, <<>>)
    BY EmptySeq
  <2> HIDE DEF Of
  <2> QED BY <2>1, <2>2
<1>2. ASSUME NEW s \in S, NEW c \in BuilderCalls PROVE Append(s, c) \in S
  <2> DEFINE u == Append(s, c)
             ts == Texts(s, f)
             us == Texts(u, f)
  <2>1. /\ s \in Seq(BuilderCalls) /\ u \in Seq(BuilderCalls)
        /\ ts \in Seq(Text) /\ us = AddText(ts, c, f)
    BY TextsAppend, AppendProperties
  <2>2. Of(ts, s)
    OBVIOUS
  <2>3. /\ Len(s) \in Nat /\ Len(u) = Len(s) + 1 /\ u[Len(s) + 1] = c
        /\ \A i \in 1..Len(s) : u[i] = s[i] /\ i \in 1..Len(u)
        /\ Len(s) + 1 \in 1..Len(u)
    BY <2>1, AppendProperties, LenProperties
  <2> HIDE DEF u, ts, us
  <2>4. Of(ts, u)
    BY <2>1, <2>2, <2>3
  <2>5. CASE c.field = f
    <3>1. c.text \in Text /\ us = Append(ts, c.text)
      BY <2>1, <2>2, <2>3, <2>5 DEF AddText, BuilderCalls
    <3>2. /\ Len(us) = Len(ts) + 1 /\ us[Len(ts) + 1] = c.text /\ Len(ts) \in Nat
          /\ \A k \in 1..Len(ts) : us[k] = ts[k]
      BY <2>1, <2>2, <2>3, <3>1, AppendProperties, LenProperties
    <3> SUFFICES ASSUME NEW k \in 1..Len(us)
                 PROVE  \E i \in 1..Len(u) : u[i].field = f /\ u[i].text = us[k]
      BY <2>1, <2>2, <2>3 DEF u, us
    <3>3. CASE k = Len(ts) + 1
      BY <2>1, <2>2, <2>3, <2>5, <3>2, <3>3
    <3>4. CASE k # Len(ts) + 1
      <4>1. k \in 1..Len(ts)
        BY <3>2, <3>4
      <4> QED BY <2>4, <3>2, <4>1
    <3> QED BY <3>3, <3>4
  <2>6. CASE c.field # f
    <3>1. us = ts
      BY <2>1, <2>2, <2>3, <2>6 DEF AddText
    <3> HIDE DEF Of
    <3> QED BY <2>1, <2>2, <2>3, <2>4, <3>1 DEF u, us
  <2> QED BY <2>5, <2>6
<1>3. S = Seq(BuilderCalls)
  <2>1. S \in SUBSET Seq(BuilderCalls)
    OBVIOUS
  <2> HIDE DEF S
  <2> QED BY <1>1, <1>2, <2>1, SeqInduct
<1> QED BY <1>3, TextsAppend

(* -------------------------------- lines --------------------------------- *)

\* The last line grows by a character.
Grown(ls, char) == [ls EXCEPT ![Len(ls)] = Append(@, char)]

\* A last line that has grown is another last line.
LEMMA GrownAppend ==
  ASSUME NEW f \in Seq(Text), NEW l \in Text, NEW char \in Characters
  PROVE  /\ Grown(Append(f, l), char) = Append(f, Append(l, char))
         /\ Append(l, char) \in Text
<1> DEFINE ls == Append(f, l)
           m == Append(l, char)
           us == Append(f, m)
<1>1. m \in Text
  BY AppendProperties DEF Text
<1>2. /\ ls \in Seq(Text) /\ Len(ls) = Len(f) + 1 /\ Len(f) \in Nat
      /\ ls[Len(ls)] = l /\ \A i \in 1..Len(f) : ls[i] = f[i]
  BY AppendProperties, LenProperties
<1> HIDE DEF m
<1>3. /\ us \in Seq(Text) /\ Len(us) = Len(f) + 1
      /\ us[Len(us)] = m /\ \A i \in 1..Len(f) : us[i] = f[i]
  BY <1>1, <1>2, AppendProperties
<1> HIDE DEF ls, us
<1>4. Grown(ls, char) = [ls EXCEPT ![Len(ls)] = m]
  BY <1>2 DEF Grown, m
<1> DEFINE gs == [ls EXCEPT ![Len(ls)] = m]
<1>5. gs \in Seq(Text) /\ Len(gs) = Len(ls)
  BY <1>1, <1>2, ExceptSeq
<1>6. \A i \in 1..Len(ls) : gs[i] = IF i = Len(ls) THEN m ELSE ls[i]
  BY <1>2, LenProperties
<1> HIDE DEF gs
<1>7. \A i \in 1..Len(gs) : gs[i] = us[i]
  <2> SUFFICES ASSUME NEW i \in 1..Len(gs) PROVE gs[i] = us[i]
    OBVIOUS
  <2>1. CASE i = Len(ls)
    BY <1>2, <1>3, <1>5, <1>6, <2>1
  <2>2. CASE i # Len(ls)
    <3>1. i \in 1..Len(f)
      BY <1>2, <1>5, <2>2
    <3> QED BY <1>2, <1>3, <1>5, <1>6, <2>2, <3>1
  <2> QED BY <2>1, <2>2
<1>8. gs = us
  BY <1>2, <1>3, <1>5, <1>7, SeqEqual
<1> QED BY <1>1, <1>4, <1>8 DEF ls, us, m, gs

\* Concatenation and Append.
LEMMA AppendToConcat ==
  ASSUME NEW T, NEW a \in Seq(T), NEW b \in Seq(T), NEW x \in T
  PROVE  a \o Append(b, x) = Append(a \o b, x)
<1>1. /\ Append(b, x) = b \o <<x>> /\ a \o b \in Seq(T) /\ <<x>> \in Seq(T)
      /\ Append(a \o b, x) = (a \o b) \o <<x>>
  BY AppendIsConcat, ConcatProperties
<1>2. a \o (b \o <<x>>) = (a \o b) \o <<x>>
  BY <1>1, ConcatAssociative
<1> QED BY <1>1, <1>2

\* Joining texts gives a text.
LEMMA JoinType ==
  ASSUME NEW a \in Text, NEW b \in Text
  PROVE  JoinLine(a, b) \in Text
  BY ProgramAssumption, ConcatProperties DEF JoinLine, Text

\* A character more of the second text is one more of the joined text.
LEMMA JoinAppend ==
  ASSUME NEW a \in Text, NEW b \in Text, NEW char \in Characters
  PROVE  JoinLine(a, Append(b, char)) = Append(JoinLine(a, b), char)
<1>1. a \o <<LF>> \in Seq(Characters) /\ b \in Seq(Characters)
  BY ProgramAssumption, ConcatProperties DEF Text
<1> QED BY <1>1, AppendToConcat DEF JoinLine

\* Joining an empty text adds a line feed.
LEMMA JoinEmpty ==
  ASSUME NEW a \in Text PROVE JoinLine(a, <<>>) = Append(a, LF)
<1>1. a \in Seq(Characters) /\ LF \in Characters
  BY ProgramAssumption DEF Text
<1>2. a \o <<LF>> \o <<>> = a \o <<LF>>
  BY <1>1, ConcatEmptySeq, ConcatProperties
<1> QED BY <1>1, <1>2, AppendIsConcat DEF JoinLine

\* A character more of the last text is one more of the joined text.
LEMMA JoinedGrown ==
  ASSUME NEW ls \in SomeTexts, NEW char \in Characters
  PROVE  Joined(Grown(ls, char)) = Append(Joined(ls), char)
<1>1. PICK f \in Seq(Text), l \in Text : ls = Append(f, l)
  BY SequenceEmptyOrAppend DEF SomeTexts
<1>2. Grown(ls, char) = Append(f, Append(l, char)) /\ Append(l, char) \in Text
  BY <1>1, GrownAppend
<1>3. CASE f = <<>>
  <2>1. Append(f, l) = <<l>> /\ Append(f, Append(l, char)) = <<Append(l, char)>>
    BY <1>3
  <2> QED BY <1>1, <1>2, <2>1, JoinedAppends
<1>4. CASE f # <<>>
  <2>1. f \in SomeTexts /\ Joined(f) \in Text
    BY <1>4, JoinedAppends DEF SomeTexts
  <2>2. Joined(ls) = JoinLine(Joined(f), l)
    BY <1>1, <2>1, JoinedAppends
  <2>3. Joined(Grown(ls, char)) = JoinLine(Joined(f), Append(l, char))
    BY <1>2, <2>1, JoinedAppends
  <2> QED BY <2>1, <2>2, <2>3, JoinAppend
<1> QED BY <1>3, <1>4

\* Lines by character, in these terms.
LEMMA LinesGrow ==
  ASSUME NEW s \in Text, NEW char \in Characters
  PROVE  /\ Append(s, char) \in Text /\ Lines(s) \in SomeTexts
         /\ char = LF => Lines(Append(s, char)) = Append(Lines(s), <<>>)
         /\ char # LF => Lines(Append(s, char)) = Grown(Lines(s), char)
  BY LinesAppend, AppendProperties DEF Text, AddChar, Grown

\* Split at its line feeds and joined again, a text is as it was.
LEMMA JoinedLines ==
  ASSUME NEW text \in Text PROVE Joined(Lines(text)) = text
<1> DEFINE S == {s \in Seq(Characters) : Joined(Lines(s)) = s}
<1>1. <<>> \in S
  <2>1. <<>> \in Text /\ <<>> \in Seq(Characters) /\ Lines(<<>>) = << <<>> >>
    BY EmptySeq, LinesAppend DEF Text
  <2> QED BY <2>1, JoinedAppends
<1>2. ASSUME NEW s \in S, NEW char \in Characters PROVE Append(s, char) \in S
  <2>1. s \in Text /\ Joined(Lines(s)) = s /\ <<>> \in Text
    BY EmptySeq DEF Text
  <2>2. Lines(s) \in SomeTexts /\ Append(s, char) \in Text
    BY <2>1, LinesGrow
  <2>3. CASE char = LF
    <3>1. Joined(Append(Lines(s), <<>>)) = JoinLine(s, <<>>)
      BY <2>1, <2>2, JoinedAppends
    <3> QED BY <2>1, <2>2, <2>3, <3>1, LinesGrow, JoinEmpty DEF Text
  <2>4. CASE char # LF
    BY <2>1, <2>2, <2>4, LinesGrow, JoinedGrown DEF Text
  <2> QED BY <2>3, <2>4
<1>3. S = Seq(Characters)
  <2>1. S \in SUBSET Seq(Characters)
    OBVIOUS
  <2> HIDE DEF S
  <2> QED BY <1>1, <1>2, <2>1, SeqInduct
<1> QED BY <1>3 DEF Text

\* The lines of two joined texts are those of the first and those of the second.
LEMMA LinesOfJoin ==
  ASSUME NEW a \in Text, NEW b \in Text
  PROVE  Lines(JoinLine(a, b)) = Lines(a) \o Lines(b)
<1> DEFINE S == {s \in Seq(Characters) : Lines(JoinLine(a, s)) = Lines(a) \o Lines(s)}
<1>0. Lines(a) \in Seq(Text) /\ <<>> \in Text
  BY LinesAppend, EmptySeq DEF Text, SomeTexts
<1>1. <<>> \in S
  <2>1. <<>> \in Seq(Characters) /\ Lines(<<>>) = << <<>> >> /\ LF \in Characters
    BY EmptySeq, LinesAppend, ProgramAssumption
  <2>2. Lines(Append(a, LF)) = Append(Lines(a), <<>>)
    BY <2>1, LinesGrow
  <2> QED BY <1>0, <2>1, <2>2, JoinEmpty, AppendIsConcat
<1>2. ASSUME NEW s \in S, NEW char \in Characters PROVE Append(s, char) \in S
  <2> DEFINE j == JoinLine(a, s)
  <2>1. /\ s \in Text /\ j \in Text /\ Lines(j) = Lines(a) \o Lines(s)
        /\ JoinLine(a, Append(s, char)) = Append(j, char)
        /\ Append(s, char) \in Seq(Characters)
    BY JoinType, JoinAppend, AppendProperties DEF Text
  <2>2. Lines(s) \in SomeTexts /\ Lines(s) \in Seq(Text)
    BY <2>1, LinesGrow DEF SomeTexts
  <2> HIDE DEF j
  <2>3. CASE char = LF
    <3>1. Lines(Append(j, char)) = Append(Lines(a) \o Lines(s), <<>>)
      BY <2>1, <2>3, LinesGrow
    <3>2. Lines(Append(s, char)) = Append(Lines(s), <<>>)
      BY <2>1, <2>3, LinesGrow
    <3>3. Lines(a) \o Append(Lines(s), <<>>) = Append(Lines(a) \o Lines(s), <<>>)
      BY <1>0, <2>2, AppendToConcat
    <3> QED BY <2>1, <3>1, <3>2, <3>3
  <2>4. CASE char # LF
    <3>1. Lines(Append(j, char)) = Grown(Lines(a) \o Lines(s), char)
      BY <2>1, <2>4, LinesGrow
    <3>2. Lines(Append(s, char)) = Grown(Lines(s), char)
      BY <2>1, <2>4, LinesGrow
    <3>3. PICK f \in Seq(Text), l \in Text : Lines(s) = Append(f, l)
      BY <2>2, SequenceEmptyOrAppend DEF SomeTexts
    <3> DEFINE m == Append(l, char)
    <3>4. m \in Text /\ Grown(Lines(s), char) = Append(f, m)
      BY <3>3, GrownAppend
    <3>5. Lines(a) \o Lines(s) = Append(Lines(a) \o f, l) /\ Lines(a) \o f \in Seq(Text)
      BY <1>0, <3>3, AppendToConcat, ConcatProperties
    <3>6. Grown(Lines(a) \o Lines(s), char) = Append(Lines(a) \o f, m)
      <4> DEFINE g == Lines(a) \o f
      <4>1. g \in Seq(Text) /\ Lines(a) \o Lines(s) = Append(g, l)
        BY <3>5
      <4> HIDE DEF g
      <4>2. Grown(Append(g, l), char) = Append(g, Append(l, char))
        BY <4>1, GrownAppend
      <4> QED BY <4>1, <4>2 DEF g
    <3> HIDE DEF m
    <3>7. Lines(a) \o Append(f, m) = Append(Lines(a) \o f, m)
      BY <1>0, <3>4, AppendToConcat
    <3> QED BY <2>1, <3>1, <3>2, <3>4, <3>6, <3>7
  <2> QED BY <2>3, <2>4
<1>3. S = Seq(Characters)
  <2>1. S \in SUBSET Seq(Characters)
    OBVIOUS
  <2> HIDE DEF S
  <2> QED BY <1>1, <1>2, <2>1, SeqInduct
<1> QED BY <1>3 DEF Text

\* A text without line feeds is one line.
LEMMA SingleLine ==
  ASSUME NEW text \in Text, \A i \in 1..Len(text) : text[i] # LF
  PROVE  Lines(text) = <<text>>
<1> DEFINE S == {s \in Seq(Characters) :
                   (\A i \in 1..Len(s) : s[i] # LF) => Lines(s) = <<s>>}
<1>1. <<>> \in S
  BY EmptySeq, LinesAppend
<1>2. ASSUME NEW s \in S, NEW char \in Characters PROVE Append(s, char) \in S
  <2> DEFINE u == Append(s, char)
  <2>1. /\ s \in Text /\ u \in Seq(Characters) /\ Len(u) = Len(s) + 1 /\ Len(s) \in Nat
        /\ u[Len(s) + 1] = char /\ Len(s) + 1 \in 1..Len(u)
        /\ \A i \in 1..Len(s) : u[i] = s[i] /\ i \in 1..Len(u)
    BY AppendProperties, LenProperties DEF Text
  <2> HIDE DEF u
  <2> SUFFICES ASSUME \A i \in 1..Len(u) : u[i] # LF PROVE Lines(u) = <<u>>
    BY <2>1 DEF u
  <2>2. char # LF /\ Lines(s) = <<s>>
    BY <2>1
  <2>3. Lines(u) = Grown(<<s>>, char)
    BY <2>1, <2>2, LinesGrow DEF u
  <2>4. <<s>> = Append(<<>>, s) /\ Append(<<>>, u) = <<u>> /\ <<>> \in Seq(Text)
    BY EmptySeq
  <2>5. Grown(Append(<<>>, s), char) = Append(<<>>, u)
    BY <2>1, <2>4, GrownAppend DEF u
  <2> QED BY <2>3, <2>4, <2>5
<1>3. S = Seq(Characters)
  <2>1. S \in SUBSET Seq(Characters)
    OBVIOUS
  <2> HIDE DEF S
  <2> QED BY <1>1, <1>2, <2>1, SeqInduct
<1> QED BY <1>3 DEF Text

(* ------------------------------ the client ------------------------------ *)

\* A line that reaches the client as it is.
LEMMA ReadLiteral ==
  ASSUME NEW t \in Text, Literal(t)
  PROVE  /\ \A state, field : ReadLine(state, [field |-> field, text |-> t])
                                = TakeField(state, field, t)
         /\ NUL \notin Range(t)
<1>1. /\ t \in Seq(Characters) /\ DOMAIN t = 1..Len(t) /\ Len(t) \in Nat
      /\ Range(t) = {t[i] : i \in 1..Len(t)}
  BY RangeEquality, LenProperties DEF Text
<1>2. CR \notin Range(t) /\ NUL \notin Range(t) /\ (t = <<>> \/ Head(t) # Space)
  BY DEF Literal
<1>3. \A n \in 1..Len(t) : t[n] # CR
  BY <1>1, <1>2
<1>4. BeforeCR(t) = t
  BY <1>1, <1>3 DEF BeforeCR
<1>5. Value(t) = t
  BY <1>2, <1>4 DEF Value
<1>6. ~EndsEarly(t)
  BY <1>1, <1>3 DEF EndsEarly
<1> QED BY <1>2, <1>5, <1>6 DEF ReadLine

\* Texts that the client reads as they are.
Plain(ls) == \A i \in 1..Len(ls) : Literal(ls[i])

\* One line more.
LEMMA PlainAppend ==
  ASSUME NEW ls \in Seq(Text), NEW l \in Text
  PROVE  Plain(Append(ls, l)) <=> Plain(ls) /\ Literal(l)
<1> DEFINE us == Append(ls, l)
<1>1. /\ Len(us) = Len(ls) + 1 /\ Len(ls) \in Nat /\ us[Len(ls) + 1] = l
      /\ Len(ls) + 1 \in 1..Len(us)
      /\ \A i \in 1..Len(ls) : us[i] = ls[i] /\ i \in 1..Len(us)
  BY AppendProperties, LenProperties
<1> HIDE DEF us
<1>2. \A i \in 1..Len(us) : i = Len(ls) + 1 \/ i \in 1..Len(ls)
  BY <1>1
<1>3. Plain(us) <=> Plain(ls) /\ Literal(l)
  <2>1. ASSUME Plain(us) PROVE Plain(ls) /\ Literal(l)
    BY <1>1, <2>1 DEF Plain
  <2>2. ASSUME Plain(ls), Literal(l) PROVE Plain(us)
    <3> SUFFICES ASSUME NEW i \in 1..Len(us) PROVE Literal(us[i])
      BY DEF Plain
    <3>1. CASE i = Len(ls) + 1
      BY <1>1, <2>2, <3>1
    <3>2. CASE i \in 1..Len(ls)
      BY <1>1, <2>2, <3>2 DEF Plain
    <3> QED BY <1>2, <3>1, <3>2
  <2> QED BY <2>1, <2>2
<1> QED BY <1>3 DEF us

\* Lines and lines.
LEMMA PlainConcat ==
  ASSUME NEW a \in Seq(Text), NEW b \in Seq(Text), Plain(a), Plain(b)
  PROVE  Plain(a \o b)
<1> DEFINE c == a \o b
<1>1. /\ c \in Seq(Text) /\ Len(c) = Len(a) + Len(b) /\ Len(a) \in Nat /\ Len(b) \in Nat
      /\ \A i \in 1..Len(c) : c[i] = IF i <= Len(a) THEN a[i] ELSE b[i - Len(a)]
  BY ConcatProperties, LenProperties
<1> HIDE DEF c
<1>2. ASSUME NEW i \in 1..Len(c) PROVE Literal(c[i])
  <2>1. CASE i <= Len(a)
    <3>1. i \in 1..Len(a)
      BY <1>1, <2>1
    <3> QED BY <1>1, <2>1, <3>1 DEF Plain
  <2>2. CASE ~(i <= Len(a))
    <3>1. i - Len(a) \in 1..Len(b)
      BY <1>1, <2>2
    <3>2. c[i] = b[i - Len(a)]
      BY <1>1, <2>2
    <3> QED BY <3>1, <3>2 DEF Plain
  <2> QED BY <2>1, <2>2
<1> QED BY <1>2 DEF Plain, c

\* If every line of every text is literal, so is every line of the joined text.
LEMMA PlainJoined ==
  ASSUME NEW ts \in SomeTexts, \A k \in 1..Len(ts) : Plain(Lines(ts[k]))
  PROVE  Plain(Lines(Joined(ts)))
<1> DEFINE Each(us) == \A k \in 1..Len(us) : Plain(Lines(us[k]))
           S == {us \in Seq(Text) : us # <<>> /\ Each(us) => Plain(Lines(Joined(us)))}
<1>1. <<>> \in S
  BY EmptySeq
<1>2. ASSUME NEW us \in S, NEW t \in Text PROVE Append(us, t) \in S
  <2> DEFINE vs == Append(us, t)
  <2>1. /\ us \in Seq(Text) /\ vs \in Seq(Text) /\ vs[Len(us) + 1] = t
        /\ Len(us) + 1 \in 1..Len(vs)
        /\ \A k \in 1..Len(us) : vs[k] = us[k] /\ k \in 1..Len(vs)
    BY AppendProperties, LenProperties
  <2> HIDE DEF vs
  <2> SUFFICES ASSUME Each(vs) PROVE Plain(Lines(Joined(vs)))
    BY <2>1 DEF vs
  <2>2. Plain(Lines(t)) /\ Each(us)
    BY <2>1
  <2>3. CASE us = <<>>
    <3>1. vs = <<t>>
      BY <2>3 DEF vs
    <3> QED BY <2>2, <3>1, JoinedAppends
  <2>4. CASE us # <<>>
    <3>1. us \in SomeTexts /\ Joined(us) \in Text /\ Plain(Lines(Joined(us)))
      BY <2>1, <2>2, <2>4, JoinedAppends DEF SomeTexts
    <3>2. Lines(Joined(vs)) = Lines(Joined(us)) \o Lines(t)
      BY <3>1, JoinedAppends, LinesOfJoin DEF vs
    <3>3. Lines(Joined(us)) \in Seq(Text) /\ Lines(t) \in Seq(Text)
      BY <3>1, LinesAppend DEF Text, SomeTexts
    <3> QED BY <2>2, <3>1, <3>2, <3>3, PlainConcat
  <2> QED BY <2>3, <2>4
<1>3. S = Seq(Text)
  <2>1. S \in SUBSET Seq(Text)
    OBVIOUS
  <2> HIDE DEF S
  <2> QED BY <1>1, <1>2, <2>1, SeqInduct
<1> QED BY <1>3 DEF SomeTexts

\* The lines of a field, text by text.
LEMMA WrittenAppends ==
  ASSUME NEW field \in Fields, NEW vs \in Seq(Text)
  PROVE  /\ Written(field, vs) \in Seq(BuilderCalls)
         /\ Written(field, <<>>) = <<>>
         /\ \A v \in Text :
              /\ [field |-> field, text |-> v] \in BuilderCalls
              /\ Written(field, Append(vs, v)) =
                   Append(Written(field, vs), [field |-> field, text |-> v])
<1> DEFINE W(us) == Written(field, us)
<1>1. \A v \in Text : [field |-> field, text |-> v] \in BuilderCalls
  BY DEF BuilderCalls
<1>2. ASSUME NEW us \in Seq(Text)
      PROVE  /\ W(us) \in Seq(BuilderCalls) /\ Len(W(us)) = Len(us)
             /\ \A i \in 1..Len(us) : W(us)[i] = [field |-> field, text |-> us[i]]
  <2>1. Len(us) \in Nat /\ DOMAIN us = 1..Len(us) /\ \A i \in 1..Len(us) : us[i] \in Text
    BY ElementOfSeq, LenProperties
  <2>2. W(us) = [i \in 1..Len(us) |-> [field |-> field, text |-> us[i]]]
    BY <2>1 DEF Written
  <2>3. \A i \in 1..Len(us) : [field |-> field, text |-> us[i]] \in BuilderCalls
    BY <1>1, <2>1
  <2> HIDE DEF W
  <2> QED BY <2>1, <2>2, <2>3, IsASeq
<1>3. W(<<>>) = <<>>
  BY DEF Written
<1>4. ASSUME NEW v \in Text
      PROVE  W(Append(vs, v)) = Append(W(vs), [field |-> field, text |-> v])
  <2> DEFINE us == Append(vs, v)
             line == [field |-> field, text |-> v]
             a == W(us)
             b == Append(W(vs), line)
  <2>1. /\ us \in Seq(Text) /\ Len(us) = Len(vs) + 1 /\ us[Len(vs) + 1] = v
        /\ Len(vs) \in Nat /\ \A i \in 1..Len(vs) : us[i] = vs[i]
    BY AppendProperties, LenProperties
  <2>2. line \in BuilderCalls
    BY <1>1
  <2> HIDE DEF us, line, W
  <2>3. /\ a \in Seq(BuilderCalls) /\ Len(a) = Len(us)
        /\ \A i \in 1..Len(us) : a[i] = [field |-> field, text |-> us[i]]
    BY <1>2, <2>1
  <2>4. /\ b \in Seq(BuilderCalls) /\ Len(b) = Len(vs) + 1 /\ b[Len(vs) + 1] = line
        /\ \A i \in 1..Len(vs) : b[i] = [field |-> field, text |-> vs[i]]
    BY <1>2, <2>1, <2>2, AppendProperties
  <2> HIDE DEF a, b
  <2>5. ASSUME NEW i \in 1..Len(a) PROVE a[i] = b[i]
    <3>1. CASE i = Len(vs) + 1
      BY <2>1, <2>3, <2>4, <3>1 DEF line
    <3>2. CASE i # Len(vs) + 1
      <4>1. i \in 1..Len(vs) /\ i \in 1..Len(us)
        BY <2>1, <2>3, <3>2
      <4> QED BY <2>1, <2>3, <2>4, <4>1
    <3> QED BY <3>1, <3>2
  <2>6. a = b
    BY <2>1, <2>3, <2>4, <2>5, SeqEqual
  <2> QED BY <2>6 DEF a, b, us, line
<1> QED BY <1>1, <1>2, <1>3, <1>4

\* What the client makes of the lines of data.
LEMMA ReadData ==
  ASSUME NEW p \in Seq(BuilderCalls), ReadLines(p).data = <<>>,
         NEW ls \in SomeTexts, Plain(ls)
  PROVE  ReadLines(p \o Written("data", ls)) =
           [ReadLines(p) EXCEPT !.data = Append(Joined(ls), LF)]
<1> DEFINE state == ReadLines(p)
           Q(us) == p \o Written("data", us)
           Read(us) == ReadLines(Q(us)) = IF us = <<>> THEN state
                         ELSE [state EXCEPT !.data = Append(Joined(us), LF)]
           S == {us \in Seq(Text) : Plain(us) => Read(us)}
<1>0. "data" \in Fields /\ state \in States /\ state.data = <<>>
  BY ReadAppends DEF Fields
<1>1. <<>> \in S
  <2>1. <<>> \in Seq(Text) /\ Q(<<>>) = p
    BY <1>0, EmptySeq, WrittenAppends, ConcatEmptySeq
  <2> HIDE DEF Q
  <2> QED BY <2>1
<1> HIDE DEF state
<1>2. ASSUME NEW us \in S, NEW l \in Text, Plain(Append(us, l))
      PROVE  Read(Append(us, l))
  <2> DEFINE line == [field |-> "data", text |-> l]
             q == Q(us)
             now == ReadLines(q)
  <2>1. us \in Seq(Text) /\ Plain(us) /\ Literal(l)
    BY <1>2, PlainAppend
  <2>2. Read(us)
    BY <2>1
  <2>3. /\ line \in BuilderCalls /\ Written("data", us) \in Seq(BuilderCalls)
        /\ Written("data", Append(us, l)) = Append(Written("data", us), line)
    BY <1>0, <2>1, WrittenAppends
  <2>4. Q(Append(us, l)) = Append(q, line) /\ q \in Seq(BuilderCalls)
    <3> DEFINE w == Written("data", us)
    <3>1. w \in Seq(BuilderCalls) /\ line \in BuilderCalls
          /\ Q(Append(us, l)) = p \o Append(w, line) /\ q = p \o w
      BY <2>3
    <3> HIDE DEF w, line, Q, q
    <3> QED BY <3>1, AppendToConcat, ConcatProperties
  <2>5. now = IF us = <<>> THEN state
              ELSE [state EXCEPT !.data = Append(Joined(us), LF)]
    BY <2>2
  <2>6. line.field = "data" /\ line.text = l
    OBVIOUS
  <2>7. Append(us, l) # <<>>
    BY <2>1, AppendProperties
  <2> HIDE DEF q, line
  <2>8. ReadLines(Append(q, line)) = [now EXCEPT !.data = @ \o l \o <<LF>>]
    <3>1. ReadLines(Append(q, line)) = ReadLine(now, line)
      BY <2>3, <2>4, ReadAppends
    <3>2. ReadLine(now, line) = TakeField(now, "data", l)
      BY <2>1, ReadLiteral DEF line
    <3> HIDE DEF now
    <3> QED BY <3>1, <3>2 DEF TakeField
  <2> HIDE DEF Q, now
  <2>9. CASE us = <<>>
    <3>1. Joined(Append(us, l)) = l
      BY <2>9, JoinedAppends
    <3>2. <<>> \o l \o <<LF>> = Append(l, LF)
      BY ProgramAssumption, ConcatEmptySeq, AppendIsConcat DEF Text
    <3>3. ReadLines(Append(q, line)) = [state EXCEPT !.data = Append(l, LF)]
      BY <1>0, <2>5, <2>8, <2>9, <3>2
    <3> QED BY <2>4, <2>7, <3>1, <3>3
  <2>10. CASE us # <<>>
    <3>1. us \in SomeTexts /\ Joined(us) \in Text
      BY <2>1, <2>10, JoinedAppends DEF SomeTexts
    <3>2. Joined(Append(us, l)) = JoinLine(Joined(us), l)
      BY <3>1, JoinedAppends
    <3> DEFINE a == Joined(us)
    <3>3. Append(a, LF) \o l \o <<LF>> = Append(JoinLine(a, l), LF)
      <4>1. LF \in Characters /\ a \in Seq(Characters) /\ l \in Seq(Characters)
        BY <3>1, ProgramAssumption DEF Text
      <4>2. Append(a, LF) \o l = JoinLine(a, l)
        BY <4>1, AppendIsConcat DEF JoinLine
      <4>3. JoinLine(a, l) \in Seq(Characters)
        BY <3>1, JoinType DEF Text
      <4> QED BY <4>1, <4>2, <4>3, AppendIsConcat
    <3>4. now = [state EXCEPT !.data = Append(a, LF)]
      BY <2>5, <2>10
    <3>5. now.data = Append(a, LF)
      BY <1>0, <3>4 DEF States
    <3> HIDE DEF a
    <3>6. ReadLines(Append(q, line)) = [now EXCEPT !.data = Append(JoinLine(a, l), LF)]
      BY <2>8, <3>3, <3>5
    <3>7. ReadLines(Append(q, line)) = [state EXCEPT !.data = Append(JoinLine(a, l), LF)]
      BY <1>0, <3>4, <3>6 DEF States
    <3> QED BY <2>4, <2>7, <3>2, <3>7 DEF a
  <2> QED BY <2>9, <2>10
<1>3. S = Seq(Text)
  <2>1. S \in SUBSET Seq(Text)
    OBVIOUS
  <2>2. \A us \in S, l \in Text : Append(us, l) \in S
    <3>1. \A us \in S, l \in Text : us \in Seq(Text) /\ Append(us, l) \in Seq(Text)
      BY AppendProperties
    <3> HIDE DEF Read
    <3> QED BY <1>2, <3>1
  <2> HIDE DEF S
  <2> QED BY <1>1, <2>1, <2>2, SeqInduct
<1>4. ls \in S /\ ls # <<>>
  BY <1>3 DEF SomeTexts
<1> QED BY <1>4 DEF state

\* An optional text that is there.
LEMMA OneText ==
  ASSUME NEW vs \in Seq(Text), Len(vs) <= 1, vs # <<>>
  PROVE  vs[1] \in Text /\ vs = <<vs[1]>>
<1>1. Len(vs) \in Nat /\ Len(vs) # 0
  BY EmptySeq, LenProperties
<1>2. Len(vs) = 1
  BY <1>1
<1>3. vs[1] \in Text
  BY <1>2, ElementOfSeq
<1>4. vs = <<vs[1]>>
  BY <1>2
<1> QED BY <1>3, <1>4

\* What the client makes of a field that is there or not.
LEMMA ReadField ==
  ASSUME NEW field \in Fields, NEW p \in Seq(BuilderCalls), NEW vs \in Seq(Text),
         Len(vs) <= 1
  PROVE  /\ p \o Written(field, vs) \in Seq(BuilderCalls)
         /\ vs = <<>> => ReadLines(p \o Written(field, vs)) = ReadLines(p)
         /\ vs # <<>> => ReadLines(p \o Written(field, vs)) =
              ReadLine(ReadLines(p), [field |-> field, text |-> vs[1]])
<1>1. p \o Written(field, vs) \in Seq(BuilderCalls)
  BY WrittenAppends, ConcatProperties
<1>2. CASE vs = <<>>
  <2>1. Written(field, vs) = <<>>
    BY <1>2, WrittenAppends
  <2> QED BY <1>1, <1>2, <2>1, ConcatEmptySeq
<1>3. CASE vs # <<>>
  <2> DEFINE v == vs[1]
             line == [field |-> field, text |-> v]
  <2>1. v \in Text /\ vs = Append(<<>>, v) /\ <<>> \in Seq(Text)
    <3>1. v \in Text /\ vs = <<v>>
      BY <1>3, OneText
    <3> QED BY <3>1, EmptySeq
  <2> HIDE DEF v
  <2>2. Written(field, vs) = Append(<<>>, line) /\ line \in BuilderCalls
    BY <2>1, WrittenAppends
  <2> HIDE DEF line
  <2>3. p \o Written(field, vs) = Append(p, line)
    <3>1. Append(<<>>, line) = <<line>>
      OBVIOUS
    <3> QED BY <2>2, <3>1, AppendIsConcat
  <2>4. ReadLines(p \o Written(field, vs)) = ReadLine(ReadLines(p), line)
    BY <2>2, <2>3, ReadAppends
  <2> QED BY <1>1, <1>3, <2>4 DEF line, v
<1> QED BY <1>2, <1>3

\* The last text of a field is one of a call; if it is read as it is written, so
\* is the field.
LEMMA LastOfCalls ==
  ASSUME NEW prog \in Seq(BuilderCalls), NEW f
  PROVE  LET last == LastOf(Texts(prog, f)) IN
         /\ last \in Seq(Text) /\ Len(last) <= 1
         /\ last # <<>> => \E i \in 1..Len(prog) :
              prog[i].field = f /\ prog[i].text = last[1]
<1> DEFINE ts == Texts(prog, f)
<1>1. /\ ts \in Seq(Text)
      /\ \A k \in 1..Len(ts) : \E i \in 1..Len(prog) :
           prog[i].field = f /\ prog[i].text = ts[k]
  BY TextsOfCalls
<1> HIDE DEF ts
<1>2. CASE ts = <<>>
  BY <1>2 DEF LastOf, ts
<1>3. CASE ts # <<>>
  <2>1. Len(ts) \in 1..Len(ts) /\ LastOf(ts) = <<ts[Len(ts)]>>
    BY <1>1, <1>3, EmptySeq, LenProperties DEF LastOf, Last
  <2>2. ts[Len(ts)] \in Text
    BY <1>1, <2>1, ElementOfSeq
  <2> QED BY <1>1, <2>1, <2>2 DEF ts
<1> QED BY <1>2, <1>3

\* Every line of every text of the program is literal.
PlainProgram(prog) == \A i \in 1..Len(prog) : Plain(Lines(prog[i].text))

\* An idle client stays as it is.
LEMMA IdleStays ==
  /\ [Idle EXCEPT !.early = FALSE] = Idle /\ [Idle EXCEPT !.type = <<>>] = Idle
  /\ Idle.type = <<>>
<1> DEFINE f == FALSE
           t == <<>>
<1>1. Idle = [type |-> t, id |-> t, retry |-> t, data |-> t, early |-> f]
  BY DEF Idle
<1> HIDE DEF f, t
<1>2. [Idle EXCEPT !.early = f] = Idle
  BY <1>1
<1>3. [Idle EXCEPT !.type = t] = Idle /\ Idle.type = t
  BY <1>1
<1> QED BY <1>2, <1>3 DEF f, t

\* Such a program is read as it was written.
LEMMA HeardIsMeant ==
  ASSUME NEW prog \in Programs, PlainProgram(prog)
  PROVE  Dispatched(Render(Built(prog))) = Meant(prog)
<1> DEFINE e == Built(prog)
           type == LastOf(Texts(prog, "event"))
           id == LastOf(Texts(prog, "id"))
           retry == LastOf(Texts(prog, "retry"))
           comment == LastOf(Texts(prog, "comment"))
           data == Texts(prog, "data")
<1>1. prog \in Seq(BuilderCalls)
  BY ProgramAssumption DEF BuilderCalls, Text
<1>2. /\ e.event = type /\ e.id = id /\ e.retry = retry /\ e.comment = comment
      /\ e.data = IF data = <<>> THEN <<>> ELSE <<Joined(data)>>
  BY <1>1, BuiltHolds DEF Fields
<1>3. ASSUME NEW f, f # "data", LastOf(Texts(prog, f)) # <<>>
      PROVE  /\ LastOf(Texts(prog, f))[1] \in Text
             /\ Literal(LastOf(Texts(prog, f))[1])
  <2> DEFINE t == LastOf(Texts(prog, f))[1]
  <2>1. PICK i \in 1..Len(prog) : prog[i].field = f /\ prog[i].text = t
    BY <1>1, <1>3, LastOfCalls
  <2>2. i \in DOMAIN prog /\ t \in Text
    <3>1. prog[i] \in BuilderCalls /\ i \in DOMAIN prog
      BY <1>1, <2>1, ElementOfSeq, LenProperties
    <3> QED BY <2>1, <3>1 DEF BuilderCalls
  <2>3. LF \notin Range(t)
    BY <1>3, <2>1, <2>2, ProgramAssumption
  <2> HIDE DEF t
  <2>4. Lines(t) = <<t>>
    <3>1. \A k \in 1..Len(t) : t[k] # LF
      BY <2>2, <2>3, RangeEquality DEF Text
    <3> QED BY <2>2, <3>1, SingleLine
  <2>5. Plain(<<t>>)
    BY <2>1, <2>4 DEF PlainProgram
  <2>6. Literal(t)
    BY <2>5 DEF Plain
  <2> QED BY <2>2, <2>6 DEF t
<1>4. /\ type # <<>> => type[1] \in Text /\ Literal(type[1])
      /\ id # <<>> => id[1] \in Text /\ Literal(id[1])
      /\ retry # <<>> => retry[1] \in Text /\ Literal(retry[1])
      /\ comment # <<>> => comment[1] \in Text /\ Literal(comment[1])
  BY <1>3
<1>5. /\ comment \in Seq(Text) /\ Len(comment) <= 1
      /\ type \in Seq(Text) /\ Len(type) <= 1
      /\ id \in Seq(Text) /\ Len(id) <= 1
      /\ retry \in Seq(Text) /\ Len(retry) <= 1
  BY <1>1, LastOfCalls
<1>6. /\ data \in Seq(Text)
      /\ data # <<>> => Plain(Lines(Joined(data)))
  <2>1. data \in Seq(Text)
    BY <1>1, TextsOfCalls
  <2>2. ASSUME data # <<>> PROVE Plain(Lines(Joined(data)))
    <3>1. \A k \in 1..Len(data) : Plain(Lines(data[k]))
      BY <1>1, TextsOfCalls DEF PlainProgram
    <3>2. data \in SomeTexts
      BY <2>1, <2>2 DEF SomeTexts
    <3> HIDE DEF data
    <3> QED BY <3>1, <3>2, PlainJoined
  <2> QED BY <2>1, <2>2
<1> DEFINE p1 == Written("comment", comment)
           p2 == p1 \o Written("event", type)
           p3 == p2 \o Written("id", id)
           p4 == p3 \o Written("retry", retry)
           state == [type |-> IF type = <<>> THEN <<>> ELSE type[1],
                     id |-> id, retry |-> retry, data |-> <<>>, early |-> FALSE]
<1>7. Render(e) = p4 \o Written("data", IF data = <<>> THEN <<>> ELSE Lines(Joined(data)))
  <2> HIDE DEF e, type, id, retry, comment, data
  <2>1. (IF e.data = <<>> THEN <<>> ELSE Lines(e.data[1]))
          = IF data = <<>> THEN <<>> ELSE Lines(Joined(data))
    BY <1>2
  <2> QED BY <1>2, <2>1 DEF Render
<1>8. Meant(prog) = IF data = <<>> THEN Idle ELSE [state EXCEPT !.data = Joined(data)]
  BY DEF Meant
<1> HIDE DEF e, type, id, retry, comment, data
<1> USE DEF Fields
<1>9. p1 \in Seq(BuilderCalls) /\ ReadLines(p1) = Idle
  <2>1. <<>> \in Seq(BuilderCalls) /\ ReadLines(<<>>) = Idle
    BY ReadAppends, EmptySeq
  <2>2. /\ <<>> \o p1 \in Seq(BuilderCalls)
        /\ comment = <<>> => ReadLines(<<>> \o p1) = Idle
        /\ comment # <<>> => ReadLines(<<>> \o p1) =
             ReadLine(Idle, [field |-> "comment", text |-> comment[1]])
    BY <1>5, <2>1, ReadField
  <2>3. <<>> \o p1 = p1
    BY <1>5, WrittenAppends, ConcatEmptySeq
  <2>4. comment # <<>> => ReadLines(<<>> \o p1) = TakeField(Idle, "comment", comment[1])
    BY <1>4, <2>2, ReadLiteral
  <2> QED BY <2>2, <2>3, <2>4 DEF TakeField
<1> HIDE DEF p1
<1>10. /\ p2 \in Seq(BuilderCalls)
       /\ ReadLines(p2) = [Idle EXCEPT !.type = state.type]
  <2>1. /\ p2 \in Seq(BuilderCalls)
        /\ type = <<>> => ReadLines(p2) = Idle
        /\ type # <<>> => ReadLines(p2) =
             ReadLine(Idle, [field |-> "event", text |-> type[1]])
    BY <1>5, <1>9, ReadField
  <2>2. type # <<>> => ReadLines(p2) = TakeField(Idle, "event", type[1])
    BY <1>4, <2>1, ReadLiteral
  <2>3. type = <<>> => state.type = Idle.type /\ [Idle EXCEPT !.type = Idle.type] = Idle
    BY IdleStays
  <2>4. type # <<>> => state.type = type[1]
    OBVIOUS
  <2> HIDE DEF state
  <2>5. type # <<>> => ReadLines(p2) = [Idle EXCEPT !.type = type[1]]
    BY <2>2 DEF TakeField
  <2> QED BY <2>1, <2>3, <2>4, <2>5
<1> HIDE DEF p2
<1>11. /\ p3 \in Seq(BuilderCalls)
       /\ ReadLines(p3) = [Idle EXCEPT !.type = state.type, !.id = id]
  <2>1. /\ p3 \in Seq(BuilderCalls)
        /\ id = <<>> => ReadLines(p3) = ReadLines(p2)
        /\ id # <<>> => ReadLines(p3) =
             ReadLine(ReadLines(p2), [field |-> "id", text |-> id[1]])
    BY <1>5, <1>10, ReadField
  <2>2. id # <<>> => id = <<id[1]>>
    BY <1>5, OneText
  <2>3. id # <<>> => /\ ReadLines(p3) = TakeField(ReadLines(p2), "id", id[1])
                     /\ NUL \notin Range(id[1])
    BY <1>4, <2>1, ReadLiteral
  <2> QED BY <1>10, <2>1, <2>2, <2>3 DEF TakeField, Idle
<1> HIDE DEF p3
<1>12. p4 \in Seq(BuilderCalls) /\ ReadLines(p4) = state
  <2>1. /\ p4 \in Seq(BuilderCalls)
        /\ retry = <<>> => ReadLines(p4) = ReadLines(p3)
        /\ retry # <<>> => ReadLines(p4) =
             ReadLine(ReadLines(p3), [field |-> "retry", text |-> retry[1]])
    BY <1>5, <1>11, ReadField
  <2>2. retry # <<>> => retry = <<retry[1]>>
    BY <1>5, OneText
  <2>3. retry # <<>> => ReadLines(p4) = TakeField(ReadLines(p3), "retry", retry[1])
    BY <1>4, <2>1, ReadLiteral
  <2> QED BY <1>11, <2>1, <2>2, <2>3 DEF TakeField, Idle
<1> HIDE DEF p4
<1>13. CASE data = <<>>
  <2>1. Render(e) = p4
    BY <1>7, <1>12, <1>13, WrittenAppends, ConcatEmptySeq, EmptySeq
  <2>2. ReadLines(p4).data = <<>> /\ ReadLines(p4).early = FALSE
    BY <1>12
  <2> QED BY <1>8, <1>13, <2>1, <2>2, IdleStays DEF Dispatched, e
<1>14. CASE data # <<>>
  <2> DEFINE text == Joined(data)
  <2>1. text \in Text /\ Lines(text) \in SomeTexts /\ Joined(Lines(text)) = text
    <3>1. text \in Text
      BY <1>6, <1>14, JoinedAppends DEF SomeTexts
    <3> QED BY <3>1, JoinedLines, LinesAppend DEF Text
  <2>2. Plain(Lines(text))
    BY <1>6, <1>14
  <2> HIDE DEF text
  <2>3. ReadLines(p4).data = <<>>
    BY <1>12
  <2>4. ReadLines(p4 \o Written("data", Lines(text))) =
          [ReadLines(p4) EXCEPT !.data = Append(text, LF)]
    BY <1>12, <2>1, <2>2, <2>3, ReadData
  <2>5. ReadLines(Render(e)) = [state EXCEPT !.data = Append(text, LF)]
    BY <1>7, <1>12, <1>14, <2>4 DEF text
  <2>6. Append(text, LF) # <<>> /\ Front(Append(text, LF)) = text
    <3> DEFINE u == Append(text, LF)
               v == SubSeq(u, 1, Len(text))
    <3>1. /\ u \in Seq(Characters) /\ u # <<>> /\ Len(u) = Len(text) + 1
          /\ \A i \in 1..Len(text) : u[i] = text[i]
          /\ Len(text) \in Nat /\ text \in Seq(Characters)
      BY <2>1, ProgramAssumption, AppendProperties, LenProperties DEF Text
    <3>2. Front(u) = v
      BY <3>1 DEF Front
    <3> HIDE DEF u
    <3>3. v \in Seq(Characters) /\ Len(v) = Len(text) /\ \A i \in 1..Len(text) : v[i] = u[i]
      BY <3>1
    <3> HIDE DEF v
    <3>4. v = text
      BY <3>1, <3>3, SeqEqual
    <3> QED BY <3>1, <3>2, <3>4 DEF u
  <2> DEFINE u == Append(text, LF)
  <2> HIDE DEF u
  <2>7. u # <<>> /\ Front(u) = text /\ ReadLines(Render(e)) = [state EXCEPT !.data = u]
    BY <2>5, <2>6 DEF u
  <2>8. [state EXCEPT !.data = u].data = u
    OBVIOUS
  <2>9. Dispatched(Render(e)) = [[state EXCEPT !.data = u] EXCEPT !.data = Front(u)]
    BY <2>7, <2>8 DEF Dispatched
  <2>10. [[state EXCEPT !.data = u] EXCEPT !.data = text] = [state EXCEPT !.data = text]
    OBVIOUS
  <2>11. Dispatched(Render(e)) = [state EXCEPT !.data = text]
    BY <2>7, <2>9, <2>10
  <2>12. Meant(prog) = [state EXCEPT !.data = text]
    BY <1>8, <1>14 DEF text
  <2> QED BY <2>11, <2>12 DEF e
<1> QED BY <1>13, <1>14

\* The listener is not called for a keep-alive comment.
LEMMA KeepAliveIsSilent == Dispatched(Render(KeepAlive)) = Idle
<1> DEFINE c == [field |-> "comment", text |-> <<"keep-alive">>]
           line == [field |-> "comment", text |-> <<"keep-alive">>]
<1>1. c \in BuilderCalls /\ <<>> \in Seq(BuilderCalls) /\ c.field = "comment"
  BY ProgramAssumption, EmptySeq DEF BuilderCalls, Fields, Text
<1>2. <<c>> = Append(<<>>, c)
  OBVIOUS
<1>3. KeepAlive = Call(New, c)
  <2> HIDE DEF c
  <2>1. Built(Append(<<>>, c)) = Call(New, c)
    BY <1>1, BuiltAppends
  <2> QED BY <1>2, <2>1 DEF KeepAlive, c
<1>4. /\ KeepAlive.event = <<>> /\ KeepAlive.id = <<>> /\ KeepAlive.retry = <<>>
      /\ KeepAlive.data = <<>> /\ KeepAlive.comment = <<c.text>>
  BY <1>3 DEF Call, New, Fields
<1>5. <<c.text>> \in Seq(Text) /\ Len(<<c.text>>) = 1 /\ <<c.text>>[1] = c.text
  BY <1>1 DEF BuilderCalls
<1> DEFINE p == Written("comment", <<c.text>>)
<1>6. p \in Seq(BuilderCalls) /\ "comment" \in Fields
  BY <1>5, WrittenAppends DEF Fields
<1> HIDE DEF c
<1>7. ReadLines(p) = Idle
  <2>1. ReadLines(<<>>) = Idle
    BY ReadAppends
  <2>2. ReadLines(<<>> \o p) = ReadLine(Idle, [field |-> "comment", text |-> c.text])
    <3> DEFINE vs == <<c.text>>
    <3>1. vs \in Seq(Text) /\ Len(vs) <= 1 /\ vs # <<>> /\ vs[1] = c.text
      BY <1>5
    <3> HIDE DEF vs
    <3>2. ReadLines(<<>> \o Written("comment", vs)) =
            ReadLine(ReadLines(<<>>), [field |-> "comment", text |-> vs[1]])
      BY <1>1, <1>6, <3>1, ReadField
    <3> QED BY <2>1, <3>1, <3>2 DEF vs
  <2>3. <<>> \o p = p
    BY <1>6, ConcatEmptySeq
  <2>4. Literal(c.text) /\ c.text \in Text
    <3>1. /\ c.text = <<"keep-alive">> /\ c.text \in Seq({"keep-alive"})
          /\ Len(c.text) = 1 /\ c.text[1] = "keep-alive" /\ Head(c.text) = "keep-alive"
          /\ c.text \in Text
      BY <1>1 DEF c, BuilderCalls
    <3>2. Range(c.text) = {c.text[k] : k \in 1..Len(c.text)}
      BY <3>1, RangeEquality
    <3> QED BY <3>1, <3>2 DEF Literal, CR, NUL, Space
  <2>5. ReadLines(<<>> \o p) = TakeField(Idle, "comment", c.text)
    BY <2>2, <2>4, ReadLiteral
  <2> QED BY <2>3, <2>5 DEF TakeField
<1>8. Render(KeepAlive) = p
  <2>1. \A f \in Fields : Written(f, <<>>) = <<>>
    BY WrittenAppends, EmptySeq
  <2>2. Render(KeepAlive) = p \o <<>> \o <<>> \o <<>> \o <<>>
    BY <1>4, <2>1 DEF Render, Fields
  <2> HIDE DEF p
  <2> QED BY <1>6, <2>2, ConcatEmptySeq
<1>9. Idle.data = <<>> /\ Idle.early = FALSE
  BY DEF Idle
<1> QED BY <1>7, <1>8, <1>9, IdleStays DEF Dispatched

(* --------------------------- what is received --------------------------- *)

\* The calls of a stream stay what they are.
LEMMA CallsKept == SourceSpec => [](calls \in Programs)
<1>1. SourceInit => calls \in Programs
  BY DEF SourceInit
<1>2. calls \in Programs /\ [SourceNext]_<<vars, calls>> => (calls \in Programs)'
  BY DEF SourceNext
<1> QED BY <1>1, <1>2, PTL DEF SourceSpec

\* The program of a stream whose lines are all literal.
LEMMA PlainIfLiteral ==
  ASSUME calls \in Programs, AllLiteral PROVE PlainProgram(calls)
<1> SUFFICES ASSUME NEW i \in 1..Len(calls), NEW k \in 1..Len(Lines(calls[i].text))
             PROVE  Literal(Lines(calls[i].text)[k])
  BY DEF PlainProgram, Plain
<1> DEFINE ls == Lines(calls[i].text)
<1>1. i \in DOMAIN calls /\ ls \in Seq(Text)
  <2>1. calls \in Seq(BuilderCalls)
    BY ProgramAssumption DEF BuilderCalls, Text
  <2>2. i \in DOMAIN calls /\ calls[i].text \in Seq(Characters)
    <3>1. i \in DOMAIN calls /\ calls[i] \in BuilderCalls
      BY <2>1, ElementOfSeq, LenProperties
    <3> QED BY <3>1 DEF BuilderCalls, Text
  <2> QED BY <2>2, LinesAppend DEF SomeTexts
<1>2. ls[k] \in Range(ls)
  BY <1>1, RangeEquality
<1> QED BY <1>1, <1>2 DEF AllLiteral

\* Every frame on its way calls the client's listener as the application meant
\* it, whatever the calls of the builder were, as long as no line of their texts
\* begins with a space or has a carriage return or a null in it; a comment does
\* not call it.
THEOREM ListenerHears == SourceSpec => []HeardAsMeant
<1>1. calls \in Programs => HeardAsMeant
  BY HeardIsMeant, KeepAliveIsSilent, PlainIfLiteral DEF HeardAsMeant, Heard
<1> QED BY <1>1, CallsKept, PTL

\* A stream with content is one of EventStream's, so all of the above holds of it.
THEOREM SourceIsStream ==
  SourceSpec => /\ [](TypeOK /\ NothingBetweenIsLost /\ NoLostWakeup)
                /\ EventsGoFirst /\ Promise!SafeDelivery
<1>1. SourceInit => Init
  BY DEF SourceInit
<1>2. [SourceNext]_<<vars, calls>> => [Next]_vars
  BY DEF SourceNext
<1>3. SourceSpec => Spec
  BY <1>1, <1>2, PTL DEF SourceSpec, Spec
<1> QED
  BY <1>3, TypeCorrect, NothingLost, WakeupsKept, EventsFirst, DeliveryRefinement, PTL

=============================================================================
