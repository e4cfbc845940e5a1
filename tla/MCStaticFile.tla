---------------------------- MODULE MCStaticFile ----------------------------
(* Instances of StaticFile for TLC. *)
EXTENDS StaticFile

\* A file with and without a fallback, a directory with and without a listing, a
\* refused path.  (The options that do not matter for a URL are left out.)
SmallConfigs ==
  { [url |-> "file", fallback |-> FALSE, listing |-> FALSE],
    [url |-> "file", fallback |-> TRUE, listing |-> FALSE],
    [url |-> "dir", fallback |-> FALSE, listing |-> FALSE],
    [url |-> "dir", fallback |-> FALSE, listing |-> TRUE],
    [url |-> "refused", fallback |-> TRUE, listing |-> FALSE] }

Header(form, a, b) == [form |-> form, a |-> a, b |-> b]
NoHeader == Header("none", 0, 0)

\* Positions before, at and after the end of the files, inverted ones too.
SmallRanges ==
  {NoHeader, Header("malformed", 0, 0)}
    \cup {Header("suffix", a, 0) : a \in {0, 1, 3}}
    \cup {Header("from", a, 0) : a \in {0, 1, 2}}
    \cup {Header("span", ab[1], ab[2]) :
            ab \in {<<0, 0>>, <<0, 1>>, <<1, 3>>, <<1, 0>>, <<2, 3>>, <<3, 2>>}}

\* Every range without a condition, every condition without a range, and both.
SmallRequests ==
  {[cond |-> "none", range |-> r] : r \in SmallRanges}
    \cup {[cond |-> c, range |-> r] : c \in {"etag", "date", "both"},
                                      r \in {NoHeader, Header("from", 1, 0)}}

SmallLengths == {0, 2}
=============================================================================
