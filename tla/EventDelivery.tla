---------------------------- MODULE EventDelivery ----------------------------
(***************************************************************************)
(* What `Sse` promises to an application and its client (src/sse.rs): the  *)
(* client sees the events of the stream in their order, none lost and none *)
(* twice; it sees the response end only after the last of them, and an     *)
(* error of the stream never as an end.  Keep-alive comments, buffers and  *)
(* polling do not show here.                                               *)
(***************************************************************************)
EXTENDS Naturals, Sequences

CONSTANT MaxEvents   \* bound: how many events the stream yields

VARIABLES
  produced,  \* how many events the application's stream has made ready
  source,    \* what it has after them: "open" (nothing yet), "ended", "failed"
  seen,      \* the events the client has received, by number
  client     \* "open" response; "complete", "cut" short, or client "gone"

vars == <<produced, source, seen, client>>

DeliveryInit ==
  produced = 0 /\ source = "open" /\ seen = <<>> /\ client = "open"

Open == client = "open"

Produce ==
  /\ Open /\ source = "open" /\ produced < MaxEvents
  /\ produced' = produced + 1
  /\ UNCHANGED <<source, seen, client>>

CloseSource(how) ==
  /\ Open /\ source = "open"
  /\ source' = how
  /\ UNCHANGED <<produced, seen, client>>

Deliver ==
  /\ Open /\ Len(seen) < produced
  /\ seen' = Append(seen, Len(seen) + 1)
  /\ UNCHANGED <<produced, source, client>>

Complete ==
  /\ Open /\ source = "ended" /\ Len(seen) = produced
  /\ client' = "complete"
  /\ UNCHANGED <<produced, source, seen>>

\* What the connection still held may be lost with it.
Cut ==
  /\ Open /\ source = "failed"
  /\ client' = "cut"
  /\ UNCHANGED <<produced, source, seen>>

Leave ==
  /\ Open
  /\ client' = "gone"
  /\ UNCHANGED <<produced, source, seen>>

DeliveryNext ==
  \/ Produce \/ CloseSource("ended") \/ CloseSource("failed")
  \/ Deliver \/ Complete \/ Cut \/ Leave

SafeDelivery == DeliveryInit /\ [][DeliveryNext]_vars

\* A client that stays is served everything, and told the end of it.
Delivery == SafeDelivery /\ WF_vars(Deliver \/ Complete \/ Cut)
=============================================================================
