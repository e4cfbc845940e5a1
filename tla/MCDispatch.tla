----------------------------- MODULE MCDispatch -----------------------------
(* Instances of Dispatch, with the websocket handshake, for TLC. *)
EXTENDS WebSocketUpgrade

Built(methods, global, group) ==
  [methods |-> methods, global |-> global, group |-> group]

\* Chains in which each middleware is inside and outside of the others, with
\* and without global and group parts, and one route with its own OPTIONS.
SmallApps ==
  { Built({"GET"}, <<>>, <<"cors">>),
    Built({"GET"}, <<"logger", "guard">>, <<"cors">>),
    Built({"GET"}, <<"logger", "cors">>, <<"timeout">>),
    Built({"GET", "OPTIONS"}, <<"cors", "guard">>, <<>>),
    Built({"GET"}, <<"timeout">>, <<"guard", "gzip">>),
    Built({"GET", "HEAD"}, <<"gzip", "cors">>, <<"gzip">>),
    Built({"GET"}, <<"logger">>, <<>>),
    Built({"GET"}, <<"gzip", "timeout">>, <<"guard", "timeout">>),
    Built({"GET"}, <<"logger", "cors">>, <<"guard", "layer">>),
    Built({"GET"}, <<"cors">>, <<"layer", "gzip">>) }

Sent(method, matched, preflight) ==
  [method |-> method, matched |-> matched, preflight |-> preflight,
   origin |-> TRUE, gzip |-> TRUE,
   upgrade |-> FALSE, handshake |-> FALSE]

\* A page, its HEAD, an unregistered method, a preflight, an unknown path, a
\* client with neither gzip nor an acceptable origin, and two that ask for an
\* upgrade, one of them not to a websocket.
SmallRequests ==
  { Sent("GET", TRUE, FALSE), Sent("HEAD", TRUE, FALSE),
    Sent("POST", TRUE, FALSE), Sent("OPTIONS", TRUE, TRUE),
    Sent("GET", FALSE, FALSE),
    [Sent("GET", TRUE, FALSE) EXCEPT !.origin = FALSE, !.gzip = FALSE],
    [Sent("GET", TRUE, FALSE) EXCEPT !.upgrade = TRUE, !.handshake = TRUE],
    [Sent("GET", TRUE, FALSE) EXCEPT !.upgrade = TRUE] }

\* A client's and a server's errors, and one of the application with the code
\* of another.
SmallFailures ==
  {Error("NotFound"), Error("Internal"), Error("Io"), BusinessError(500)}
SmallCodes == {500, 40001}
SmallStatuses == {201, 500}

Missing == {Error("NotFound")}
Unreadable == {Error("Io")}

\* cors as the only middleware of a route, and no middleware at all.
InnermostCors == { Built({"GET"}, <<>>, <<"cors">>) }
Plain == { Built({"GET"}, <<>>, <<>>) }
PageOnly == { Sent("GET", TRUE, FALSE) }
=============================================================================
