------------------------------ MODULE MCServer ------------------------------
(* Instances of Server for TLC. *)
EXTENDS Server

\* No limit, and limits that one or two of three clients exhaust; plain and
\* TLS.  (A limit of 0 is legal too and proved about, but such a server stops
\* for good at its first accept: TLC reports the deadlock.)
AllConfigs == [limit : {NoLimit, 1, 2}, tls : BOOLEAN]

\* The smallest server that can be full.
OneAtATime == {[limit |-> 1, tls |-> FALSE]}
=============================================================================
