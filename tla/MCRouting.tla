----------------------------- MODULE MCRouting ------------------------------
(* Instances of Routing for TLC. *)
EXTENDS Routing, TLC

ThreeHandlers == {"h1", "h2", "h3"}

\* A GET; a HEAD of its own between two GETs; a method without GET.
SmallTables ==
  { <<<<"GET", "h1">>>>,
    <<<<"GET", "h1">>, <<"HEAD", "h2">>, <<"GET", "h3">>>>,
    <<<<"POST", "h1">>>> }

\* Routers but the root, middlewares and paths are told apart by nothing else.
Symmetry ==
  Permutations(Routers \ {Root}) \cup Permutations(Middlewares)
    \cup Permutations(Paths)
=============================================================================
