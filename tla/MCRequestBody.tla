---------------------------- MODULE MCRequestBody ----------------------------
(* Instances of RequestBody for TLC. *)
EXTENDS RequestBody

\* From the empty body to one of three chunks; limits below, at and above.
SmallSizes == 0..3
SmallLimits == {0, 1, 3}
NoLimits == {}
=============================================================================
