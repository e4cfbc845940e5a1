--------------------------- MODULE Routing_proofs ---------------------------
(* Theorems about Routing, for any set of routers and any method tables. *)
EXTENDS Routing, SetInduction, SequenceTheorems, FiniteSetTheorems, TLAPS

(* ----------------------------- method tables ---------------------------- *)

Call == Methods \X Handlers

\* No method has two entries.
Unique(table) ==
  \A i, j \in Indices(table) : table[i][1] = table[j][1] => i = j

\* The table has an entry for the last of the first n calls of each method.
Serves(table, calls, n) ==
  \A i \in 1..n :
    (\A j \in (i + 1)..n : calls[j][1] # calls[i][1])
      => \E k \in Indices(table) : table[k] = calls[i]

\* `at` keeps the entries unique, enters its call, and leaves those of the
\* other methods.
LEMMA AtEnters ==
  ASSUME NEW table \in Seq(Call), NEW call \in Call, Unique(table)
  PROVE  /\ At(table, call) \in Seq(Call) /\ Unique(At(table, call))
         /\ \E k \in Indices(At(table, call)) : At(table, call)[k] = call
         /\ \A k \in Indices(table) :
              table[k][1] # call[1] =>
                \E l \in Indices(At(table, call)) : At(table, call)[l] = table[k]
<1>1. CASE Has(table, call[1])
  <2> DEFINE new == [i \in Indices(table) |->
                       IF table[i][1] = call[1] THEN call ELSE table[i]]
  <2>1. At(table, call) = new
    BY <1>1 DEF At
  <2>2. Len(table) \in Nat /\ \A i \in Indices(table) : table[i] \in Call
    BY ElementOfSeq DEF Indices
  <2>3. new \in Seq(Call) /\ Len(new) = Len(table)
    BY <2>2 DEF Indices
  <2>4. \A i \in Indices(table) : new[i][1] = table[i][1]
    OBVIOUS
  <2>5. Unique(new)
    BY <2>3, <2>4 DEF Unique, Indices
  <2>6. \E k \in Indices(new) : new[k] = call
    BY <1>1, <2>3 DEF Has, Indices
  <2>7. \A k \in Indices(table) :
          table[k][1] # call[1] => new[k] = table[k] /\ k \in Indices(new)
    BY <2>3 DEF Indices
  <2> QED BY <2>1, <2>3, <2>5, <2>6, <2>7
<1>2. CASE ~Has(table, call[1])
  <2> DEFINE new == Append(table, call)
  <2>1. At(table, call) = new
    BY <1>2 DEF At
  <2>2. /\ new \in Seq(Call) /\ Len(new) = Len(table) + 1 /\ Len(table) \in Nat
        /\ \A i \in Indices(table) : new[i] = table[i]
        /\ new[Len(table) + 1] = call
    BY DEF Indices
  <2> HIDE DEF new
  <2>3. Unique(new)
    BY <1>2, <2>2 DEF Unique, Indices, Has
  <2>4. Len(table) + 1 \in Indices(new) /\ new[Len(table) + 1] = call
    BY <2>2 DEF Indices
  <2>5. \A k \in Indices(table) : new[k] = table[k] /\ k \in Indices(new)
    BY <2>2 DEF Indices
  <2> QED BY <2>1, <2>2, <2>3, <2>4, <2>5
<1> QED BY <1>1, <1>2

\* The tables a chain of calls makes, step by step, exist.
LEMMA TablesExist ==
  ASSUME NEW calls \in Seq(Call), NEW n \in Nat
  PROVE  n <= Len(calls) =>
           \E f : f = [k \in 0..n |-> IF k = 0 THEN <<>> ELSE At(f[k - 1], calls[k])]
<1> DEFINE IsMade(f, m) ==
             f = [k \in 0..m |-> IF k = 0 THEN <<>> ELSE At(f[k - 1], calls[k])]
           S == {m \in Nat : m <= Len(calls) => \E f : IsMade(f, m)}
<1>1. 0 \in S
  <2>1. IsMade([k \in 0..0 |-> <<>>], 0)
    OBVIOUS
  <2> QED BY <2>1
<1>2. ASSUME NEW m \in S, m + 1 <= Len(calls)
      PROVE  \E f : IsMade(f, m + 1)
  <2>1. PICK f : IsMade(f, m)
    <3> HIDE DEF IsMade
    <3> QED BY <1>2, LenProperties
  <2> DEFINE g == [k \in 0..(m + 1) |->
                     IF k = m + 1 THEN At(f[m], calls[m + 1]) ELSE f[k]]
  <2>2. \A k \in 0..m : g[k] = f[k]
    OBVIOUS
  <2>3. \A k \in 0..(m + 1) :
          g[k] = IF k = 0 THEN <<>> ELSE At(g[k - 1], calls[k])
    <3> SUFFICES ASSUME NEW k \in 0..(m + 1)
                 PROVE  g[k] = IF k = 0 THEN <<>> ELSE At(g[k - 1], calls[k])
      OBVIOUS
    <3>1. CASE k = m + 1
      <4>1. g[k] = At(f[m], calls[m + 1]) /\ g[k - 1] = f[m]
        BY <3>1
      <4> QED BY <3>1, <4>1
    <3>2. CASE k # m + 1 /\ k # 0
      <4>1. k \in 0..m /\ k - 1 \in 0..m
        BY <3>2
      <4>2. f[k] = At(f[k - 1], calls[k])
        BY <2>1, <3>2, <4>1
      <4> QED BY <2>2, <3>2, <4>1, <4>2
    <3>3. CASE k = 0
      <4>1. f[0] = <<>>
        BY <2>1
      <4> QED BY <2>2, <3>3, <4>1
    <3> QED BY <3>1, <3>2, <3>3
  <2>4. IsMade(g, m + 1)
    BY <2>3
  <2> QED BY <2>4
<1>3. S = Nat
  <2>1. S \in SUBSET Nat
    OBVIOUS
  <2>2. \A m \in S : m + 1 \in S
    <3> HIDE DEF IsMade
    <3> QED BY <1>2
  <2> HIDE DEF S
  <2> QED BY <1>1, <2>1, <2>2, Induct
<1> QED BY <1>3

\* A chain of calls makes a table without a method twice, in which each method
\* has the handler of its last call.
LEMMA TableIsMade ==
  ASSUME NEW calls \in Seq(Call)
  PROVE  /\ MethodRouter(calls) \in Seq(Call) /\ Unique(MethodRouter(calls))
         /\ Serves(MethodRouter(calls), calls, Len(calls))
<1> DEFINE made == CHOOSE f : f = [k \in 0..Len(calls) |->
                     IF k = 0 THEN <<>> ELSE At(f[k - 1], calls[k])]
           S == {n \in Nat : n <= Len(calls) =>
                   /\ made[n] \in Seq(Call) /\ Unique(made[n])
                   /\ Serves(made[n], calls, n)}
<1>1. Len(calls) \in Nat /\ \A n \in 1..Len(calls) : calls[n] \in Call
  BY ElementOfSeq, LenProperties
<1>2. MethodRouter(calls) = made[Len(calls)]
  BY DEF MethodRouter
<1>3. made = [k \in 0..Len(calls) |->
                IF k = 0 THEN <<>> ELSE At(made[k - 1], calls[k])]
  <2>1. \E f : f = [k \in 0..Len(calls) |->
                      IF k = 0 THEN <<>> ELSE At(f[k - 1], calls[k])]
    BY <1>1, TablesExist
  <2> QED BY <2>1
<1> HIDE DEF made
<1>4. 0 \in S
  <2>1. made[0] = <<>>
    BY <1>1, <1>3
  <2>2. <<>> \in Seq(Call) /\ Unique(<<>>) /\ Serves(<<>>, calls, 0)
    BY DEF Unique, Serves, Indices
  <2> QED BY <2>1, <2>2
<1>5. \A n \in S : n + 1 \in S
  <2> SUFFICES ASSUME NEW n \in S, n + 1 <= Len(calls)
               PROVE  /\ made[n + 1] \in Seq(Call) /\ Unique(made[n + 1])
                      /\ Serves(made[n + 1], calls, n + 1)
    OBVIOUS
  <2>1. /\ n <= Len(calls) /\ made[n] \in Seq(Call) /\ Unique(made[n])
        /\ Serves(made[n], calls, n)
    BY <1>1
  <2>2. calls[n + 1] \in Call
    BY <1>1
  <2>3. made[n + 1] = At(made[n], calls[n + 1])
    BY <1>1, <1>3
  <2> DEFINE new == At(made[n], calls[n + 1])
  <2>4. /\ new \in Seq(Call) /\ Unique(new)
        /\ \E k \in Indices(new) : new[k] = calls[n + 1]
        /\ \A k \in Indices(made[n]) :
             made[n][k][1] # calls[n + 1][1] =>
               \E l \in Indices(new) : new[l] = made[n][k]
    BY <2>1, <2>2, AtEnters
  <2>5. /\ made[n + 1] \in Seq(Call) /\ Unique(made[n + 1])
        /\ \E k \in Indices(made[n + 1]) : made[n + 1][k] = calls[n + 1]
        /\ \A k \in Indices(made[n]) :
             made[n][k][1] # calls[n + 1][1] =>
               \E l \in Indices(made[n + 1]) : made[n + 1][l] = made[n][k]
    BY <2>3, <2>4, Zenon
  <2>6. Serves(made[n + 1], calls, n + 1)
    <3> SUFFICES ASSUME NEW i \in 1..(n + 1),
                        \A j \in (i + 1)..(n + 1) : calls[j][1] # calls[i][1]
                 PROVE  \E k \in Indices(made[n + 1]) : made[n + 1][k] = calls[i]
      BY DEF Serves
    <3>1. CASE i = n + 1
      BY <2>5, <3>1
    <3>2. CASE i # n + 1
      <4>1. i \in 1..n /\ calls[n + 1][1] # calls[i][1]
        BY <3>2
      <4>2. \A j \in (i + 1)..n : calls[j][1] # calls[i][1]
        OBVIOUS
      <4>3. PICK k \in Indices(made[n]) : made[n][k] = calls[i]
        BY <2>1, <4>1, <4>2 DEF Serves
      <4> QED BY <2>5, <4>1, <4>3
    <3> QED BY <3>1, <3>2
  <2> QED BY <2>5, <2>6
<1>6. S = Nat
  <2> HIDE DEF S
  <2>1. S \in SUBSET Nat
    BY DEF S
  <2> QED BY <1>4, <1>5, <2>1, Induct
<1> QED BY <1>1, <1>2, <1>6

\* Find answers with the one entry of the method it looks for, and with Nobody
\* when there is none.
LEMMA FindFinds ==
  ASSUME NEW table \in Seq(Call), Unique(table), NEW m
  PROVE  /\ \A k \in Indices(table) :
              table[k][1] = Effective(table, m) => Find(table, m) = table[k][2]
         /\ ~Has(table, Effective(table, m)) => Find(table, m) = Nobody
<1> DEFINE matches == {i \in Indices(table) : table[i][1] = Effective(table, m)}
<1>1. ASSUME NEW k \in Indices(table), table[k][1] = Effective(table, m)
      PROVE  Find(table, m) = table[k][2]
  <2>1. matches = {k}
    BY <1>1 DEF Unique
  <2>2. (CHOOSE i \in matches : \A j \in matches : i <= j) = k
    BY <2>1, <1>1 DEF Indices
  <2> QED BY <2>1, <2>2 DEF Find
<1>2. ~Has(table, Effective(table, m)) => Find(table, m) = Nobody
  BY DEF Find, Has
<1> QED BY <1>1, <1>2

\* Find and Allow agree on every table a program can make.
LEMMA AllowFinds ==
  ASSUME NEW table \in Seq(Call), Unique(table), NEW m \in Methods
  PROVE  m \in Allow(table) <=> Find(table, m) # Nobody
<1>1. m \in Allow(table) <=> Has(table, Effective(table, m))
  BY DEF Allow, Has, Effective, Indices
<1>2. \A k \in Indices(table) : table[k][2] # Nobody
  <2>1. \A k \in Indices(table) : table[k] \in Call
    BY ElementOfSeq DEF Indices
  <2> QED BY <2>1, RoutingAssumption DEF Call
<1>3. Has(table, Effective(table, m)) => Find(table, m) # Nobody
  BY <1>2, FindFinds DEF Has
<1> QED BY <1>1, <1>3, FindFinds

(* ----------------------- enclosing and the layers ----------------------- *)

\* Enclosing(x) where u says what each router was attached to.
Within(u, x) ==
  {q \in Routers : \A R \in SUBSET Routers :
     x \in R /\ (\A p \in R : u[p] = Nobody \/ u[p] \in R) => q \in R}

Attachments == [Routers -> Routers \cup {Nobody}]
Owners == [Middlewares -> Routers \cup {Nobody}]

\* m was registered before n in the order o.
Before(o, m, n) ==
  \E k, l \in 1..Len(o) : k < l /\ o[k] = m /\ o[l] = n

\* m goes around n: it belongs to a group around that of n, or to the same and
\* was registered earlier.
Around(w, u, o, m, n) ==
  /\ w[m] \in Within(u, w[n])
  /\ w[m] = w[n] => Before(o, m, n)

\* A chain holds the middleware of the routers of R, each once, the outermost
\* first.
Layers(w, u, o, chain, R) ==
  /\ \A i \in 1..Len(chain) : w[chain[i]] \in R
  /\ \A m \in Middlewares :
       w[m] \in R => \E i \in 1..Len(chain) : chain[i] = m
  /\ \A i, j \in 1..Len(chain) : i < j => Around(w, u, o, chain[i], chain[j])
  /\ \A i, j \in 1..Len(chain) : chain[i] = chain[j] => i = j

\* Every router encloses itself, and what encloses it is closed under
\* attachment.
LEMMA WithinCloses ==
  ASSUME NEW u \in Attachments, NEW x \in Routers
  PROVE  /\ x \in Within(u, x)
         /\ \A p \in Within(u, x) : u[p] = Nobody \/ u[p] \in Within(u, x)
         /\ u[x] = Nobody => Within(u, x) = {x}
<1>1. x \in Within(u, x)
  BY DEF Within
<1>2. ASSUME NEW p \in Within(u, x), u[p] # Nobody
      PROVE  u[p] \in Within(u, x)
  BY <1>2 DEF Within, Attachments
<1>3. ASSUME u[x] = Nobody PROVE Within(u, x) \subseteq {x}
  <2>1. {x} \in SUBSET Routers
    OBVIOUS
  <2> QED BY <1>3, <2>1 DEF Within
<1> QED BY <1>1, <1>2, <1>3

\* Attaching s to r puts r around all that s was around, and nothing else.
LEMMA WithinAttached ==
  ASSUME NEW u \in Attachments, NEW r \in Routers, NEW s \in Routers, r # s,
         u[r] = Nobody, u[s] = Nobody, Nobody \notin Routers,
         NEW v \in Attachments, v[s] = r, \A q \in Routers : q # s => v[q] = u[q],
         NEW x \in Routers
  PROVE  /\ s \in Within(u, x) => Within(v, x) = Within(u, x) \cup {r}
         /\ s \notin Within(u, x) => Within(v, x) = Within(u, x)
<1> DEFINE Shut(f, R) == \A p \in R : f[p] = Nobody \/ f[p] \in R
           E == Within(u, x)
           F == Within(v, x)
<1>1. \A R \in SUBSET Routers : Shut(v, R) <=> Shut(u, R) /\ (s \in R => r \in R)
  BY DEF Attachments
<1>2. E \in SUBSET Routers /\ F \in SUBSET Routers /\ x \in E /\ x \in F
  BY WithinCloses DEF Within
<1>3. Shut(u, E) /\ Shut(v, F)
  BY WithinCloses
<1>4. /\ \A R \in SUBSET Routers : x \in R /\ Shut(u, R) => E \subseteq R
      /\ \A R \in SUBSET Routers : x \in R /\ Shut(v, R) => F \subseteq R
  BY DEF Within
<1> HIDE DEF E, F, Shut
<1>5. E \subseteq F
  BY <1>1, <1>2, <1>3, <1>4
<1>6. CASE s \in E
  <2>1. r \in F
    BY <1>1, <1>2, <1>3, <1>5, <1>6
  <2>2. Shut(u, E \cup {r})
    BY <1>3 DEF Shut
  <2>3. Shut(v, E \cup {r}) /\ E \cup {r} \in SUBSET Routers
    BY <1>1, <1>2, <2>2
  <2>4. F \subseteq E \cup {r}
    BY <1>2, <1>4, <2>3
  <2> QED BY <1>5, <1>6, <2>1, <2>4 DEF E, F
<1>7. CASE s \notin E
  <2>1. F \subseteq E
    BY <1>1, <1>2, <1>3, <1>4, <1>7
  <2> QED BY <1>5, <1>7, <2>1 DEF E, F
<1> QED BY <1>6, <1>7

\* Layers stay layers when routers are attached and others get middleware.
LEMMA LayersKept ==
  ASSUME NEW w \in Owners, NEW w2 \in Owners, NEW u, NEW u2, NEW o, NEW o2,
         NEW R \in SUBSET Routers, NEW chain \in Seq(Middlewares),
         Layers(w, u, o, chain, R), Nobody \notin Routers,
         \A m \in Middlewares : IF w[m] = Nobody THEN w2[m] \notin R
                                ELSE w2[m] = w[m],
         \A q \in Routers : Within(u, q) \subseteq Within(u2, q),
         \A m, n \in Middlewares : Before(o, m, n) => Before(o2, m, n)
  PROVE  Layers(w2, u2, o2, chain, R)
<1>1. Len(chain) \in Nat /\ \A i \in 1..Len(chain) : chain[i] \in Middlewares
  BY ElementOfSeq, LenProperties
<1>2. \A i \in 1..Len(chain) :
        w[chain[i]] \in R /\ w2[chain[i]] = w[chain[i]]
  BY <1>1 DEF Layers
<1>3. \A m \in Middlewares : w2[m] \in R => w[m] \in R
  BY DEF Owners
<1>4. \A i, j \in 1..Len(chain) : i < j => Around(w2, u2, o2, chain[i], chain[j])
  <2> SUFFICES ASSUME NEW i \in 1..Len(chain), NEW j \in 1..Len(chain), i < j
               PROVE  Around(w2, u2, o2, chain[i], chain[j])
    OBVIOUS
  <2>1. Around(w, u, o, chain[i], chain[j])
    BY DEF Layers
  <2>2. w[chain[j]] \in Routers
    BY <1>2
  <2> QED BY <1>1, <1>2, <2>1, <2>2 DEF Around
<1>5. \A i \in 1..Len(chain) : w2[chain[i]] \in R
  BY <1>2
<1>6. \A m \in Middlewares : w2[m] \in R => \E i \in 1..Len(chain) : chain[i] = m
  BY <1>3 DEF Layers
<1>7. \A i, j \in 1..Len(chain) : chain[i] = chain[j] => i = j
  BY DEF Layers
<1> QED BY <1>4, <1>5, <1>6, <1>7 DEF Layers

\* An index of two sequences joined is one of the first or, shifted, one of the
\* second.
LEMMA Joined ==
  ASSUME NEW S, NEW a \in Seq(S), NEW b \in Seq(S)
  PROVE  /\ a \o b \in Seq(S) /\ Len(a \o b) = Len(a) + Len(b)
         /\ Len(a) \in Nat /\ Len(b) \in Nat
         /\ \A i \in 1..Len(a) : (a \o b)[i] = a[i] /\ i \in 1..Len(a \o b)
         /\ \A i \in 1..Len(b) :
              (a \o b)[Len(a) + i] = b[i] /\ Len(a) + i \in 1..Len(a \o b)
         /\ \A i \in 1..Len(a \o b) :
              IF i <= Len(a) THEN i \in 1..Len(a) /\ (a \o b)[i] = a[i]
              ELSE i - Len(a) \in 1..Len(b) /\ (a \o b)[i] = b[i - Len(a)]
  BY ConcatProperties, LenProperties

\* The layers of a group go around the layers of all it encloses.
LEMMA LayersJoin ==
  ASSUME NEW w \in Owners, NEW u, NEW o, NEW R \in SUBSET Routers, NEW s \in R,
         NEW outer \in Seq(Middlewares), NEW inner \in Seq(Middlewares),
         Layers(w, u, o, outer, {s}), Layers(w, u, o, inner, R \ {s}),
         \A q \in R : s \in Within(u, q)
  PROVE  Layers(w, u, o, outer \o inner, R)
<1> DEFINE chain == outer \o inner
<1>1. /\ Len(chain) = Len(outer) + Len(inner)
      /\ Len(outer) \in Nat /\ Len(inner) \in Nat
      /\ \A i \in 1..Len(outer) : chain[i] = outer[i] /\ i \in 1..Len(chain)
      /\ \A i \in 1..Len(inner) :
           chain[Len(outer) + i] = inner[i] /\ Len(outer) + i \in 1..Len(chain)
      /\ \A i \in 1..Len(chain) :
           IF i <= Len(outer) THEN i \in 1..Len(outer) /\ chain[i] = outer[i]
           ELSE i - Len(outer) \in 1..Len(inner) /\ chain[i] = inner[i - Len(outer)]
  BY Joined
<1> HIDE DEF chain
<1>2. /\ \A i \in 1..Len(outer) : w[outer[i]] = s
      /\ \A i \in 1..Len(inner) : w[inner[i]] \in R \ {s}
  BY DEF Layers
<1>3. \A i \in 1..Len(chain) : w[chain[i]] \in R
  BY <1>1, <1>2
<1>4. \A m \in Middlewares : w[m] \in R => \E i \in 1..Len(chain) : chain[i] = m
  <2> SUFFICES ASSUME NEW m \in Middlewares, w[m] \in R
               PROVE  \E i \in 1..Len(chain) : chain[i] = m
    OBVIOUS
  <2>1. CASE w[m] = s
    <3>1. PICK i \in 1..Len(outer) : outer[i] = m
      BY <2>1 DEF Layers
    <3> QED BY <1>1, <3>1
  <2>2. CASE w[m] # s
    <3>1. PICK i \in 1..Len(inner) : inner[i] = m
      BY <2>2 DEF Layers
    <3> QED BY <1>1, <3>1
  <2> QED BY <2>1, <2>2
<1>5. ASSUME NEW i \in 1..Len(chain), NEW j \in 1..Len(chain), i < j
      PROVE  Around(w, u, o, chain[i], chain[j])
  <2>1. CASE j <= Len(outer)
    <3>1. i \in 1..Len(outer) /\ j \in 1..Len(outer)
      BY <1>1, <1>5, <2>1
    <3>2. Around(w, u, o, outer[i], outer[j])
      BY <1>5, <3>1 DEF Layers
    <3> QED BY <1>1, <3>1, <3>2
  <2>2. CASE i <= Len(outer) /\ ~(j <= Len(outer))
    <3>1. w[chain[i]] = s /\ w[chain[j]] \in R \ {s}
      BY <1>1, <1>2, <2>2
    <3> QED BY <3>1 DEF Around
  <2>3. CASE ~(i <= Len(outer))
    <3>1. /\ i - Len(outer) \in 1..Len(inner) /\ j - Len(outer) \in 1..Len(inner)
          /\ i - Len(outer) < j - Len(outer)
      BY <1>1, <1>5, <2>3
    <3>2. Around(w, u, o, inner[i - Len(outer)], inner[j - Len(outer)])
      BY <3>1 DEF Layers
    <3>3. i > Len(outer) /\ j > Len(outer)
      BY <1>1, <1>5, <2>3
    <3>4. chain[i] = inner[i - Len(outer)]
      BY <1>1, <2>3
    <3>5. chain[j] = inner[j - Len(outer)]
      BY <1>1, <3>3
    <3> QED BY <3>2, <3>4, <3>5
  <2> QED BY <1>1, <2>1, <2>2, <2>3
<1>6. ASSUME NEW i \in 1..Len(chain), NEW j \in 1..Len(chain), chain[i] = chain[j]
      PROVE  i = j
  <2>1. CASE i <= Len(outer) /\ j <= Len(outer)
    <3>1. /\ i \in 1..Len(outer) /\ j \in 1..Len(outer)
          /\ outer[i] = outer[j]
      BY <1>1, <1>6, <2>1
    <3> QED BY <3>1 DEF Layers
  <2>2. CASE ~(i <= Len(outer)) /\ ~(j <= Len(outer))
    <3>1. /\ i - Len(outer) \in 1..Len(inner) /\ j - Len(outer) \in 1..Len(inner)
          /\ inner[i - Len(outer)] = inner[j - Len(outer)]
      BY <1>1, <1>6, <2>2
    <3>2. i - Len(outer) = j - Len(outer)
      BY <3>1 DEF Layers
    <3> QED BY <1>1, <3>2
  <2>3. CASE i <= Len(outer) /\ ~(j <= Len(outer))
    BY <1>1, <1>2, <1>6, <2>3
  <2>4. CASE ~(i <= Len(outer)) /\ j <= Len(outer)
    BY <1>1, <1>2, <1>6, <2>4
  <2> QED BY <2>1, <2>2, <2>3, <2>4
<1> QED BY <1>3, <1>4, <1>5, <1>6 DEF Layers, chain

\* A middleware nobody has becomes the innermost layer of the group it is given
\* to.
LEMMA LayersGrow ==
  ASSUME NEW w \in Owners, NEW u \in Attachments, NEW o \in Seq(Middlewares),
         NEW r \in Routers, NEW chain \in Seq(Middlewares), NEW m \in Middlewares,
         Layers(w, u, o, chain, {r}), Nobody \notin Routers, w[m] = Nobody,
         \A n \in Middlewares : w[n] # Nobody => \E k \in 1..Len(o) : o[k] = n
  PROVE  Layers([w EXCEPT ![m] = r], u, Append(o, m), Append(chain, m), {r})
<1> DEFINE w2 == [w EXCEPT ![m] = r]
           o2 == Append(o, m)
           new == Append(chain, m)
<1>1. /\ Len(new) = Len(chain) + 1 /\ Len(chain) \in Nat
      /\ \A i \in 1..Len(chain) : new[i] = chain[i] /\ chain[i] \in Middlewares
      /\ new[Len(chain) + 1] = m
  OBVIOUS
<1>2. /\ Len(o2) = Len(o) + 1 /\ Len(o) \in Nat
      /\ \A i \in 1..Len(o) : o2[i] = o[i]
      /\ o2[Len(o) + 1] = m
  OBVIOUS
<1>3. /\ \A n \in Middlewares : n # m => w2[n] = w[n]
      /\ w2[m] = r
  BY DEF Owners
<1> HIDE DEF w2, o2, new
<1>4. \A i \in 1..Len(chain) : w[chain[i]] = r /\ chain[i] # m
  BY DEF Layers
<1>5. \A i \in 1..Len(new) : w2[new[i]] = r
  BY <1>1, <1>3, <1>4
<1>6. \A n \in Middlewares : w2[n] = r => \E i \in 1..Len(new) : new[i] = n
  <2> SUFFICES ASSUME NEW n \in Middlewares, w2[n] = r
               PROVE  \E i \in 1..Len(new) : new[i] = n
    OBVIOUS
  <2>1. CASE n = m
    BY <1>1, <2>1
  <2>2. CASE n # m
    <3>1. PICK i \in 1..Len(chain) : chain[i] = n
      BY <1>3, <2>2 DEF Layers
    <3> QED BY <1>1, <3>1
  <2> QED BY <2>1, <2>2
<1>7. ASSUME NEW i \in 1..Len(new), NEW j \in 1..Len(new), i < j
      PROVE  Around(w2, u, o2, new[i], new[j])
  <2>1. i \in 1..Len(chain) /\ new[i] = chain[i] /\ chain[i] \in Middlewares
    BY <1>1, <1>7
  <2>2. r \in Within(u, r)
    BY WithinCloses
  <2>3. Before(o2, new[i], new[j])
    <3>1. CASE j \in 1..Len(chain)
      <4>1. Before(o, chain[i], chain[j])
        BY <1>4, <1>7, <2>1, <3>1 DEF Layers, Around
      <4> QED BY <1>1, <1>2, <2>1, <3>1, <4>1 DEF Before
    <3>2. CASE j = Len(chain) + 1
      <4>1. PICK k \in 1..Len(o) : o[k] = chain[i]
        BY <1>4, <2>1
      <4>2. /\ k \in 1..Len(o2) /\ Len(o) + 1 \in 1..Len(o2) /\ k < Len(o) + 1
            /\ o2[k] = new[i] /\ o2[Len(o) + 1] = new[j]
        BY <1>1, <1>2, <2>1, <3>2, <4>1
      <4> QED BY <4>2 DEF Before
    <3> QED BY <1>1, <3>1, <3>2
  <2> QED BY <1>5, <2>2, <2>3 DEF Around
<1>8. ASSUME NEW i \in 1..Len(new), NEW j \in 1..Len(new), new[i] = new[j]
      PROVE  i = j
  <2>1. CASE i \in 1..Len(chain) /\ j \in 1..Len(chain)
    BY <1>1, <1>8, <2>1 DEF Layers
  <2>2. CASE i = Len(chain) + 1 \/ j = Len(chain) + 1
    BY <1>1, <1>4, <1>8, <2>2
  <2> QED BY <1>1, <2>1, <2>2
<1> QED BY <1>5, <1>6, <1>7, <1>8 DEF Layers, w2, o2, new

(* --------------------------- the invariant ------------------------------ *)

RoutesOf(r) == 1..Len(routers[r].routes)

\* A router that was attached is empty; the application's is never attached.
Moved ==
  /\ under[Root] = Nobody /\ routers[Root].middlewares = <<>>
  /\ \A r \in Routers :
       under[r] # Nobody => routers[r] = [routes |-> <<>>, middlewares |-> <<>>]

\* The router a chain of attachments ended at encloses all that led to it.
Chained ==
  \A x \in Routers : \A p, q \in Within(under, x) :
    under[p] = Nobody => p \in Within(under, q)

\* A middleware somebody owns was registered.
Listed ==
  \A m \in Middlewares :
    owner[m] # Nobody => \E k \in 1..Len(order) : order[k] = m

\* The middleware of the application and of a group that was not attached yet.
OwnLayers ==
  /\ Layers(owner, under, order, global, {Root})
  /\ \A r \in Routers \ {Root} :
       under[r] = Nobody =>
         Layers(owner, under, order, routers[r].middlewares, {r})

\* What a route carries: the layers of the groups between its own and the one
\* it arrived in, that one's not yet.
Carries(w, u, o, r, route) ==
  /\ r \in Within(u, route.home)
  /\ Layers(w, u, o, route.middlewares, Within(u, route.home) \ {r})

CarriedLayers ==
  \A r \in Routers : \A i \in RoutesOf(r) :
    Carries(owner, under, order, r, routers[r].routes[i])

\* A route keeps the table that was made for it.
TablesKept ==
  \A r \in Routers : \A i \in RoutesOf(r) :
    routers[r].routes[i].table = MethodRouter(routers[r].routes[i].calls)

\* Every route registered so far is in some router.
Kept ==
  \A n \in Nat :
    n < registered <=>
      \E r \in Routers : \E i \in RoutesOf(r) : routers[r].routes[i].id = n

\* What was built is what was mounted.
Flattened ==
  IF phase = "built"
  THEN /\ ~Conflict
       /\ flat = {[route |-> Mounted[i], chain |-> global \o Mounted[i].middlewares,
                   allow |-> Allow(Mounted[i].table)] : i \in 1..Len(Mounted)}
  ELSE flat = {}

IInv ==
  /\ TypeOK /\ Moved /\ Chained /\ Listed /\ OwnLayers /\ CarriedLayers
  /\ TablesKept /\ Kept /\ Flattened

\* The initial states satisfy the invariant.
LEMMA Initially == Init => IInv
<1> SUFFICES ASSUME Init PROVE IInv
  OBVIOUS
<1> USE RoutingAssumption DEF Init
<1>1. TypeOK
  BY DEF TypeOK, Methods
<1>2. Moved
  BY DEF Moved
<1>3. Chained
  <2>1. \A x \in Routers : Within(under, x) = {x}
    BY WithinCloses DEF Attachments
  <2> QED BY <2>1 DEF Chained
<1>4. Listed
  BY DEF Listed
<1>5. \A r \in Routers : Layers(owner, under, order, <<>>, {r})
  BY DEF Layers
<1>6. OwnLayers
  BY <1>5 DEF OwnLayers
<1>7. \A r \in Routers : RoutesOf(r) = {}
  BY DEF RoutesOf
<1>8. CarriedLayers /\ TablesKept
  BY <1>7 DEF CarriedLayers, TablesKept
<1>9. Kept
  BY <1>7 DEF Kept
<1>10. Flattened
  BY DEF Flattened
<1> QED BY <1>1, <1>2, <1>3, <1>4, <1>6, <1>8, <1>9, <1>10 DEF IInv

\* A route that is registered has the type of one.
LEMMA NewRoute ==
  ASSUME TypeOK, NEW r \in Routers, NEW path \in Paths, NEW calls \in Tables
  PROVE  [path |-> <<path>>, table |-> MethodRouter(calls), middlewares |-> <<>>,
          calls |-> calls, home |-> r, id |-> registered] \in RouteType
<1>1. calls \in Seq(Call)
  BY RoutingAssumption DEF Call
<1>2. MethodRouter(calls) \in Seq(Methods \X Handlers)
  BY <1>1, TableIsMade DEF Call
<1>3. registered \in Nat
  BY RoutingAssumption DEF TypeOK
<1> QED BY <1>2, <1>3 DEF RouteType

\* The layers of the routes do not depend on routes, so that they stay as they
\* are when only routes change hands.
LEMMA RouteStep ==
  ASSUME IInv, NEW r \in Routers, NEW path \in Paths, NEW calls \in Tables,
         Route(r, path, calls)
  PROVE  IInv'
<1> DEFINE route == [path |-> <<path>>, table |-> MethodRouter(calls),
                     middlewares |-> <<>>, calls |-> calls, home |-> r,
                     id |-> registered]
           old == routers[r].routes
<1> USE DEF IInv
<1>1. /\ phase = "building" /\ under[r] = Nobody /\ registered < MaxRoutes
      /\ registered' = registered + 1
      /\ UNCHANGED <<phase, global, flat, under, owner, order>>
  BY DEF Route, Alive
<1>2. /\ routers \in [Routers -> [routes : Seq(RouteType),
                                  middlewares : Seq(Middlewares)]]
      /\ registered \in Nat /\ registered' \in 0..MaxRoutes
  BY <1>1, RoutingAssumption DEF TypeOK
<1>3. route \in RouteType
  BY NewRoute
<1> HIDE DEF route
<1>4. routers' = [routers EXCEPT ![r].routes = Append(@, route)]
  BY DEF Route, route
<1>5. /\ Len(old) \in Nat /\ old \in Seq(RouteType)
      /\ Append(old, route) \in Seq(RouteType)
  BY <1>2, <1>3
<1>6. /\ \A q \in Routers : routers'[q].middlewares = routers[q].middlewares
      /\ \A q \in Routers \ {r} : routers'[q] = routers[q]
      /\ routers'[r].routes = Append(old, route)
      /\ routers' \in [Routers -> [routes : Seq(RouteType),
                                   middlewares : Seq(Middlewares)]]
  BY <1>2, <1>4, <1>5
<1>7. /\ \A q \in Routers : \A i \in RoutesOf(q) :
           i \in RoutesOf(q)' /\ routers'[q].routes[i] = routers[q].routes[i]
      /\ Len(old) + 1 \in RoutesOf(r)' /\ routers'[r].routes[Len(old) + 1] = route
      /\ \A q \in Routers : \A i \in RoutesOf(q)' :
           (i \in RoutesOf(q) /\ routers'[q].routes[i] = routers[q].routes[i])
             \/ (q = r /\ routers'[q].routes[i] = route)
  <2> DEFINE new == Append(old, route)
  <2>1. /\ Len(new) = Len(old) + 1 /\ new[Len(old) + 1] = route
        /\ \A i \in 1..Len(old) : new[i] = old[i]
    BY <1>3, <1>5
  <2> HIDE DEF new
  <2>2. /\ 1..Len(new) = (1..Len(old)) \cup {Len(old) + 1}
        /\ \A i \in 1..Len(new) : i \in 1..Len(old) \/ i = Len(old) + 1
    BY <1>5, <2>1
  <2>3. routers'[r].routes = new
    BY <1>6 DEF new
  <2>4. /\ RoutesOf(r) = 1..Len(old) /\ RoutesOf(r)' = 1..Len(new)
        /\ \A q \in Routers \ {r} : RoutesOf(q)' = RoutesOf(q)
    BY <1>6, <2>3 DEF RoutesOf
  <2> QED BY <1>6, <2>1, <2>2, <2>3, <2>4
<1>8. TypeOK'
  BY <1>1, <1>2, <1>6 DEF TypeOK
<1>9. Moved'
  BY <1>1, <1>6, RoutingAssumption DEF Moved
<1>10. Chained' /\ Listed' /\ OwnLayers'
  BY <1>1, <1>6 DEF Chained, Listed, OwnLayers
<1>11. CarriedLayers'
  <2>1. Carries(owner, under, order, r, route)
    <3>1. Within(under, r) = {r}
      BY <1>1, WithinCloses DEF TypeOK, Attachments
    <3>2. route.home = r /\ route.middlewares = <<>>
      BY DEF route
    <3>3. Layers(owner, under, order, <<>>, {})
      BY DEF Layers
    <3>4. Within(under, r) \ {r} = {} /\ r \in Within(under, r)
      BY <3>1
    <3> QED BY <3>2, <3>3, <3>4 DEF Carries
  <2>2. \A q \in Routers : \A i \in RoutesOf(q) :
          Carries(owner, under, order, q, routers[q].routes[i])
    BY DEF CarriedLayers
  <2>3. \A q \in Routers : \A i \in RoutesOf(q)' :
          Carries(owner, under, order, q, routers'[q].routes[i])
    BY <1>7, <2>1, <2>2
  <2> QED BY <1>1, <2>3 DEF CarriedLayers
<1>12. TablesKept'
  <2>1. route.table = MethodRouter(route.calls)
    BY DEF route
  <2> QED BY <1>7, <2>1 DEF TablesKept
<1>13. Kept'
  <2>1. route.id = registered
    BY DEF route
  <2>2. \A n \in Nat :
          (\E q \in Routers : \E i \in RoutesOf(q)' : routers'[q].routes[i].id = n)
            <=> (n = registered \/ \E q \in Routers : \E i \in RoutesOf(q) :
                                      routers[q].routes[i].id = n)
    BY <1>7, <2>1
  <2>3. \A n \in Nat : n < registered' <=> n = registered \/ n < registered
    BY <1>1, <1>2
  <2> QED BY <2>2, <2>3 DEF Kept
<1>14. Flattened'
  BY <1>1 DEF Flattened
<1> QED BY <1>8, <1>9, <1>10, <1>11, <1>12, <1>13, <1>14

\* What the invariant says of a route and the router it is in.
LEMMA Arrived ==
  ASSUME IInv, NEW r \in Routers, NEW i \in RoutesOf(r)
  PROVE  /\ routers[r].routes[i] \in RouteType /\ under[r] = Nobody
         /\ Carries(owner, under, order, r, routers[r].routes[i])
         /\ routers[r].routes[i].table = MethodRouter(routers[r].routes[i].calls)
<1>1. routers[r].routes \in Seq(RouteType)
  BY DEF IInv, TypeOK
<1>2. routers[r].routes[i] \in RouteType
  BY <1>1, ElementOfSeq DEF RoutesOf
<1>3. under[r] = Nobody
  <2>1. CASE under[r] # Nobody
    <3>1. routers[r].routes = <<>>
      BY <2>1 DEF IInv, Moved
    <3> QED BY <3>1 DEF RoutesOf
  <2> QED BY <2>1
<1> QED BY <1>2, <1>3 DEF IInv, CarriedLayers, TablesKept

\* Of the routers around a route, only the one it is in was not attached.
LEMMA Outermost ==
  ASSUME IInv, NEW x \in Routers, NEW r \in Within(under, x),
         NEW q \in Within(under, x), under[r] = Nobody, under[q] = Nobody
  PROVE  q = r
<1>1. q \in Within(under, r)
  BY DEF IInv, Chained
<1>2. r \in Routers
  BY DEF Within
<1>3. Within(under, r) = {r}
  BY <1>2, WithinCloses DEF IInv, TypeOK, Attachments
<1> QED BY <1>1, <1>3

\* Giving a middleware to q leaves the layers of the other routers.
LEMMA Registering ==
  ASSUME IInv, NEW q \in Routers, NEW m \in Middlewares, owner[m] = Nobody,
         owner' = [owner EXCEPT ![m] = q], order' = Append(order, m)
  PROVE  /\ owner' \in Owners /\ order' \in Seq(Middlewares)
         /\ Listed'
         /\ \A chain \in Seq(Middlewares) : \A R \in SUBSET (Routers \ {q}) :
              Layers(owner, under, order, chain, R) =>
                Layers(owner', under, order', chain, R)
         /\ \A chain \in Seq(Middlewares) :
              Layers(owner, under, order, chain, {q}) =>
                Layers(owner', under, order', Append(chain, m), {q})
<1>1. /\ owner \in Owners /\ under \in Attachments /\ order \in Seq(Middlewares)
      /\ Nobody \notin Routers
  BY RoutingAssumption DEF IInv, TypeOK, Owners, Attachments
<1>2. owner' \in Owners /\ order' \in Seq(Middlewares)
  BY <1>1 DEF Owners
<1>3. /\ Len(order) \in Nat /\ Len(order') = Len(order) + 1
      /\ \A k \in 1..Len(order) : order'[k] = order[k] /\ k \in 1..Len(order')
      /\ order'[Len(order) + 1] = m /\ Len(order) + 1 \in 1..Len(order')
  BY <1>1
<1>4. \A n \in Middlewares :
        IF n = m THEN owner'[n] = q ELSE owner'[n] = owner[n]
  BY <1>1 DEF Owners
<1>5. Listed'
  BY <1>3, <1>4 DEF Listed, IInv
<1>6. \A a, b \in Middlewares : Before(order, a, b) => Before(order', a, b)
  BY <1>3 DEF Before
<1>7. ASSUME NEW chain \in Seq(Middlewares), NEW R \in SUBSET (Routers \ {q}),
             Layers(owner, under, order, chain, R)
      PROVE  Layers(owner', under, order', chain, R)
  <2>1. \A n \in Middlewares : IF owner[n] = Nobody THEN owner'[n] \notin R
                               ELSE owner'[n] = owner[n]
    BY <1>1, <1>4
  <2>2. R \in SUBSET Routers /\ \A p \in Routers : Within(under, p) \subseteq Within(under, p)
    OBVIOUS
  <2> QED BY <1>1, <1>2, <1>6, <1>7, <2>1, <2>2, LayersKept
<1>8. ASSUME NEW chain \in Seq(Middlewares),
             Layers(owner, under, order, chain, {q})
      PROVE  Layers(owner', under, order', Append(chain, m), {q})
  <2>1. \A n \in Middlewares :
          owner[n] # Nobody => \E k \in 1..Len(order) : order[k] = n
    BY DEF IInv, Listed
  <2> QED BY <1>1, <1>8, <2>1, LayersGrow
<1> QED BY <1>2, <1>5, <1>7, <1>8

\* The routes and their layers are what they were when a middleware is given to
\* a router that was not attached yet.
LEMMA RoutesUntouched ==
  ASSUME IInv, NEW q \in Routers, under[q] = Nobody,
         NEW m \in Middlewares, owner[m] = Nobody,
         owner' = [owner EXCEPT ![m] = q], order' = Append(order, m),
         \A r \in Routers : routers'[r].routes = routers[r].routes,
         UNCHANGED <<under, registered>>
  PROVE  CarriedLayers' /\ TablesKept' /\ Kept' /\ Chained'
<1>1. CarriedLayers'
  <2> SUFFICES ASSUME NEW r \in Routers, NEW i \in RoutesOf(r)
               PROVE  Carries(owner', under, order', r, routers[r].routes[i])
    BY DEF CarriedLayers, RoutesOf
  <2> DEFINE route == routers[r].routes[i]
  <2>1. route \in RouteType /\ under[r] = Nobody
        /\ Carries(owner, under, order, r, route)
    BY Arrived
  <2> HIDE DEF route
  <2>2. route.home \in Routers /\ route.middlewares \in Seq(Middlewares)
    BY <2>1 DEF RouteType
  <2>3. q \notin Within(under, route.home) \ {r}
    BY <2>1, <2>2, Outermost DEF Carries
  <2>4. Within(under, route.home) \ {r} \in SUBSET (Routers \ {q})
    BY <2>3 DEF Within
  <2>5. Layers(owner', under, order', route.middlewares,
               Within(under, route.home) \ {r})
    BY <2>1, <2>2, <2>4, Registering DEF Carries
  <2> QED BY <2>1, <2>5 DEF Carries, route
<1>2. TablesKept' /\ Kept'
  <2>1. \A r \in Routers :
          RoutesOf(r)' = RoutesOf(r) /\ routers'[r].routes = routers[r].routes
    BY DEF RoutesOf
  <2>2. TablesKept /\ Kept /\ registered' = registered
    BY DEF IInv
  <2>3. TablesKept'
    BY <2>1, <2>2 DEF TablesKept
  <2>4. \A n : (\E r \in Routers : \E i \in RoutesOf(r)' : routers'[r].routes[i].id = n)
               <=> \E r \in Routers : \E i \in RoutesOf(r) : routers[r].routes[i].id = n
    BY <2>1
  <2> QED BY <2>2, <2>3, <2>4 DEF Kept
<1>3. Chained'
  BY DEF IInv, Chained
<1> QED BY <1>1, <1>2, <1>3

\* A middleware of a group becomes its innermost layer.
LEMMA WithStep ==
  ASSUME IInv, NEW r \in Routers, NEW m \in Middlewares, With(r, m)
  PROVE  IInv'
<1>1. /\ phase = "building" /\ under[r] = Nobody /\ r # Root /\ owner[m] = Nobody
      /\ routers' = [routers EXCEPT ![r].middlewares = Append(@, m)]
      /\ owner' = [owner EXCEPT ![m] = r]
      /\ order' = Append(order, m)
      /\ UNCHANGED <<phase, global, flat, under, registered>>
  BY DEF With, Alive
<1>2. /\ routers \in [Routers -> [routes : Seq(RouteType),
                                  middlewares : Seq(Middlewares)]]
      /\ global \in Seq(Middlewares)
  BY DEF IInv, TypeOK
<1> DEFINE grown == Append(routers[r].middlewares, m)
<1>3. /\ \A q \in Routers : routers[q].middlewares \in Seq(Middlewares)
      /\ grown \in Seq(Middlewares)
  BY <1>2
<1> HIDE DEF grown
<1>4. routers' = [routers EXCEPT ![r].middlewares = grown]
  BY <1>1 DEF grown
<1>5. /\ routers' \in [Routers -> [routes : Seq(RouteType),
                                   middlewares : Seq(Middlewares)]]
      /\ \A q \in Routers : routers'[q].routes = routers[q].routes
      /\ \A q \in Routers \ {r} : routers'[q] = routers[q]
      /\ routers'[r].middlewares = Append(routers[r].middlewares, m)
      /\ \A q \in Routers : routers[q].middlewares \in Seq(Middlewares)
  BY <1>2, <1>3, <1>4 DEF grown
<1>6. owner' \in Owners /\ order' \in Seq(Middlewares) /\ Listed'
  BY <1>1, Registering
<1>7. TypeOK'
  BY <1>1, <1>5, <1>6 DEF IInv, TypeOK, Owners
<1>8. Moved'
  BY <1>1, <1>5, RoutingAssumption DEF IInv, Moved
<1>9. CarriedLayers' /\ TablesKept' /\ Kept' /\ Chained'
  BY <1>1, <1>5, RoutesUntouched
<1>10. OwnLayers'
  <2>1. Layers(owner', under, order', global, {Root})
    <3>1. {Root} \in SUBSET (Routers \ {r})
      BY <1>1, RoutingAssumption
    <3>2. Layers(owner, under, order, global, {Root})
      BY DEF IInv, OwnLayers
    <3> QED BY <1>1, <1>2, <3>1, <3>2, Registering
  <2>2. ASSUME NEW q \in Routers \ {Root}, under[q] = Nobody
        PROVE  Layers(owner', under, order', routers'[q].middlewares, {q})
    <3>1. Layers(owner, under, order, routers[q].middlewares, {q})
      BY <2>2 DEF IInv, OwnLayers
    <3>2. CASE q = r
      BY <1>1, <1>5, <3>1, <3>2, Registering
    <3>3. CASE q # r
      <4>1. {q} \in SUBSET (Routers \ {r})
        BY <3>3
      <4>2. Layers(owner', under, order', routers[q].middlewares, {q})
        BY <1>1, <1>5, <3>1, <4>1, Registering
      <4> QED BY <1>5, <3>3, <4>2
    <3> QED BY <3>2, <3>3
  <2> QED BY <1>1, <2>1, <2>2 DEF OwnLayers
<1>11. Flattened'
  BY <1>1 DEF IInv, Flattened
<1> QED BY <1>6, <1>7, <1>8, <1>9, <1>10, <1>11 DEF IInv

\* A middleware of the application becomes its innermost layer.
LEMMA WithGlobalStep ==
  ASSUME IInv, NEW m \in Middlewares, WithGlobal(m)
  PROVE  IInv'
<1>1. /\ phase = "building" /\ owner[m] = Nobody
      /\ global' = Append(global, m)
      /\ owner' = [owner EXCEPT ![m] = Root]
      /\ order' = Append(order, m)
      /\ UNCHANGED <<phase, routers, flat, under, registered>>
  BY DEF WithGlobal
<1>2. /\ global \in Seq(Middlewares) /\ global' \in Seq(Middlewares)
      /\ \A q \in Routers : routers[q].middlewares \in Seq(Middlewares)
  BY <1>1 DEF IInv, TypeOK
<1>3. Root \in Routers /\ under[Root] = Nobody
  BY RoutingAssumption DEF IInv, Moved
<1>4. owner' \in Owners /\ order' \in Seq(Middlewares) /\ Listed'
  BY <1>1, <1>3, Registering
<1>5. TypeOK'
  BY <1>1, <1>2, <1>4 DEF IInv, TypeOK, Owners
<1>6. Moved'
  BY <1>1 DEF IInv, Moved
<1>7. CarriedLayers' /\ TablesKept' /\ Kept' /\ Chained'
  BY <1>1, <1>3, RoutesUntouched
<1>8. OwnLayers'
  <2>1. Layers(owner', under, order', global', {Root})
    BY <1>1, <1>2, <1>3, Registering DEF IInv, OwnLayers
  <2>2. ASSUME NEW q \in Routers \ {Root}, under[q] = Nobody
        PROVE  Layers(owner', under, order', routers[q].middlewares, {q})
    <3>1. Layers(owner, under, order, routers[q].middlewares, {q})
      BY <2>2 DEF IInv, OwnLayers
    <3>2. {q} \in SUBSET (Routers \ {Root})
      OBVIOUS
    <3> QED BY <1>1, <1>2, <1>3, <3>1, <3>2, Registering
  <2> QED BY <1>1, <2>1, <2>2 DEF OwnLayers
<1>9. Flattened'
  BY <1>1 DEF IInv, Flattened
<1> QED BY <1>4, <1>5, <1>6, <1>7, <1>8, <1>9 DEF IInv

\* A route as it arrives in the router its group is attached to.
Arriving(s, prefix, route) ==
  [route EXCEPT !.path = prefix \o @, !.middlewares = routers[s].middlewares \o @]

\* Where the routes are when s was attached to r.
LEMMA AttachRoutes ==
  ASSUME IInv, NEW r \in Routers, NEW s \in Routers, NEW prefix \in Seq(Paths),
         Attach(r, s, prefix)
  PROVE  /\ routers' \in [Routers -> [routes : Seq(RouteType),
                                      middlewares : Seq(Middlewares)]]
         /\ routers'[s] = [routes |-> <<>>, middlewares |-> <<>>]
         /\ \A q \in Routers \ {r, s} : routers'[q] = routers[q]
         /\ routers'[r].middlewares = routers[r].middlewares
         /\ \A i \in RoutesOf(r) :
              i \in RoutesOf(r)' /\ routers'[r].routes[i] = routers[r].routes[i]
         /\ \A i \in RoutesOf(s) : \E k \in RoutesOf(r)' :
              routers'[r].routes[k] = Arriving(s, prefix, routers[s].routes[i])
         /\ \A i \in RoutesOf(r)' :
              \/ i \in RoutesOf(r) /\ routers'[r].routes[i] = routers[r].routes[i]
              \/ \E k \in RoutesOf(s) : routers'[r].routes[i] =
                   Arriving(s, prefix, routers[s].routes[k])
<1> DEFINE old == routers[r].routes
           moved == Carried(s, prefix)
           new == old \o moved
<1>1. /\ r # s
      /\ routers \in [Routers -> [routes : Seq(RouteType),
                                  middlewares : Seq(Middlewares)]]
  BY DEF Attach, IInv, TypeOK
<1>2. /\ old \in Seq(RouteType) /\ Len(old) \in Nat
      /\ Len(routers[s].routes) \in Nat
      /\ routers[s].middlewares \in Seq(Middlewares)
  BY <1>1
<1>3. \A i \in RoutesOf(s) :
        Arriving(s, prefix, routers[s].routes[i]) \in RouteType
  <2> SUFFICES ASSUME NEW i \in RoutesOf(s)
               PROVE  Arriving(s, prefix, routers[s].routes[i]) \in RouteType
    OBVIOUS
  <2> DEFINE route == routers[s].routes[i]
             longer == prefix \o route.path
             chain == routers[s].middlewares \o route.middlewares
  <2>1. route \in RouteType
    BY Arrived
  <2>2. Arriving(s, prefix, route) =
          [route EXCEPT !.path = longer, !.middlewares = chain]
    BY <2>1 DEF Arriving, RouteType
  <2> HIDE DEF route
  <2>3. longer \in Seq(Paths) /\ chain \in Seq(Middlewares)
    BY <1>2, <2>1, ConcatProperties DEF RouteType
  <2> HIDE DEF longer, chain
  <2>4. [route EXCEPT !.path = longer, !.middlewares = chain] \in RouteType
    BY <2>1, <2>3 DEF RouteType
  <2> QED BY <2>2, <2>4 DEF route
<1>4. /\ moved \in Seq(RouteType) /\ Len(moved) = Len(routers[s].routes)
      /\ \A i \in RoutesOf(s) :
           moved[i] = Arriving(s, prefix, routers[s].routes[i])
  <2>1. moved = [i \in 1..Len(routers[s].routes) |->
                   Arriving(s, prefix, routers[s].routes[i])]
    BY DEF Carried, Arriving
  <2> QED BY <1>2, <1>3, <2>1 DEF RoutesOf
<1> HIDE DEF moved
<1>5. /\ new \in Seq(RouteType) /\ Len(new) = Len(old) + Len(moved)
      /\ \A i \in 1..Len(old) : new[i] = old[i] /\ i \in 1..Len(new)
      /\ \A i \in 1..Len(moved) :
           new[Len(old) + i] = moved[i] /\ Len(old) + i \in 1..Len(new)
      /\ \A i \in 1..Len(new) :
           IF i <= Len(old) THEN i \in 1..Len(old) /\ new[i] = old[i]
           ELSE i - Len(old) \in 1..Len(moved) /\ new[i] = moved[i - Len(old)]
  <2>1. moved \in Seq(RouteType) /\ old \in Seq(RouteType)
    BY <1>2, <1>4
  <2> HIDE DEF old
  <2> QED BY <2>1, Joined
<1> HIDE DEF new
<1>6. routers' = [routers EXCEPT ![r].routes = new,
                    ![s] = [routes |-> <<>>, middlewares |-> <<>>]]
  BY DEF Attach, new, moved
<1>7. /\ routers'[r] = [routes |-> new, middlewares |-> routers[r].middlewares]
      /\ routers'[s] = [routes |-> <<>>, middlewares |-> <<>>]
      /\ \A q \in Routers \ {r, s} : routers'[q] = routers[q]
  BY <1>1, <1>6
<1>8. routers' \in [Routers -> [routes : Seq(RouteType),
                                middlewares : Seq(Middlewares)]]
  <2>1. [routes |-> new, middlewares |-> routers[r].middlewares]
          \in [routes : Seq(RouteType), middlewares : Seq(Middlewares)]
    BY <1>1, <1>5
  <2>2. [routes |-> <<>>, middlewares |-> <<>>]
          \in [routes : Seq(RouteType), middlewares : Seq(Middlewares)]
    OBVIOUS
  <2> QED BY <1>1, <1>6, <1>7, <2>1, <2>2
<1>9. RoutesOf(r) = 1..Len(old) /\ RoutesOf(r)' = 1..Len(new)
      /\ RoutesOf(s) = 1..Len(moved) /\ routers'[r].routes = new
  BY <1>4, <1>7 DEF RoutesOf
<1>10. \A i \in RoutesOf(s) : \E k \in RoutesOf(r)' :
         routers'[r].routes[k] = Arriving(s, prefix, routers[s].routes[i])
  <2> SUFFICES ASSUME NEW i \in RoutesOf(s)
               PROVE  \E k \in RoutesOf(r)' : routers'[r].routes[k] =
                        Arriving(s, prefix, routers[s].routes[i])
    OBVIOUS
  <2>1. Len(old) + i \in 1..Len(new) /\ new[Len(old) + i] = moved[i]
    BY <1>5, <1>9
  <2>2. moved[i] = Arriving(s, prefix, routers[s].routes[i])
    BY <1>4
  <2> QED BY <1>9, <2>1, <2>2
<1>11. \A i \in RoutesOf(r)' :
         \/ i \in RoutesOf(r) /\ routers'[r].routes[i] = routers[r].routes[i]
         \/ \E k \in RoutesOf(s) : routers'[r].routes[i] =
              Arriving(s, prefix, routers[s].routes[k])
  <2> SUFFICES ASSUME NEW i \in RoutesOf(r)', ~(i \in 1..Len(old) /\ new[i] = old[i])
               PROVE  \E k \in RoutesOf(s) : new[i] =
                        Arriving(s, prefix, routers[s].routes[k])
    BY <1>9
  <2>1. i - Len(old) \in 1..Len(moved) /\ new[i] = moved[i - Len(old)]
    BY <1>5, <1>9
  <2>2. moved[i - Len(old)] = Arriving(s, prefix, routers[s].routes[i - Len(old)])
    BY <1>4, <1>9, <2>1
  <2> QED BY <1>9, <2>1, <2>2
<1>12. \A i \in RoutesOf(r) :
         i \in RoutesOf(r)' /\ routers'[r].routes[i] = routers[r].routes[i]
  BY <1>5, <1>9
<1> QED BY <1>7, <1>8, <1>10, <1>11, <1>12

\* Attaching a group wraps what its routes carry in its own layers.
LEMMA AttachStep ==
  ASSUME IInv, NEW r \in Routers, NEW s \in Routers, NEW prefix \in Seq(Paths),
         Attach(r, s, prefix)
  PROVE  IInv'
<1>1. /\ phase = "building" /\ under[r] = Nobody /\ under[s] = Nobody
      /\ r # s /\ s # Root
      /\ under' = [under EXCEPT ![s] = r]
      /\ UNCHANGED <<phase, global, flat, owner, order, registered>>
  BY DEF Attach, Alive
<1>2. /\ owner \in Owners /\ under \in Attachments /\ under' \in Attachments
      /\ Nobody \notin Routers /\ Root \in Routers
      /\ global \in Seq(Middlewares)
      /\ \A q \in Routers : routers[q].middlewares \in Seq(Middlewares)
  BY <1>1, RoutingAssumption DEF IInv, TypeOK, Owners, Attachments
<1>3. /\ \A q \in Routers : q # s => under'[q] = under[q]
      /\ under'[s] = r
  BY <1>1, <1>2 DEF Attachments
<1>4. /\ routers'[s] = [routes |-> <<>>, middlewares |-> <<>>]
      /\ \A q \in Routers \ {r, s} : routers'[q] = routers[q]
      /\ routers'[r].middlewares = routers[r].middlewares
  BY AttachRoutes
<1>5. \A x \in Routers :
        /\ s \in Within(under, x) => Within(under', x) = Within(under, x) \cup {r}
        /\ s \notin Within(under, x) => Within(under', x) = Within(under, x)
  <2>1. under[r] = Nobody /\ under[s] = Nobody /\ r # s
    BY <1>1
  <2>2. under'[s] = r /\ \A q \in Routers : q # s => under'[q] = under[q]
    BY <1>3
  <2>3. under \in Attachments /\ under' \in Attachments /\ Nobody \notin Routers
    BY <1>2
  <2> QED BY <2>1, <2>2, <2>3, WithinAttached
<1>6. \A chain \in Seq(Middlewares) : \A R \in SUBSET Routers :
        Layers(owner, under, order, chain, R) =>
          Layers(owner, under', order, chain, R)
  <2> SUFFICES ASSUME NEW chain \in Seq(Middlewares), NEW R \in SUBSET Routers,
                      Layers(owner, under, order, chain, R)
               PROVE  Layers(owner, under', order, chain, R)
    OBVIOUS
  <2>1. \A n \in Middlewares : IF owner[n] = Nobody THEN owner[n] \notin R
                               ELSE owner[n] = owner[n]
    BY <1>2
  <2>2. \A q \in Routers : Within(under, q) \subseteq Within(under', q)
    BY <1>5
  <2> QED BY <1>2, <2>1, <2>2, LayersKept
<1>7. TypeOK'
  BY <1>1, <1>2, AttachRoutes DEF IInv, TypeOK, Attachments
<1>8. Moved'
  <2>1. /\ routers'[Root].middlewares = routers[Root].middlewares
        /\ under'[Root] = under[Root]
    BY <1>4, <1>1, <1>2, <1>3
  <2>2. \A q \in Routers : under'[q] # Nobody =>
          routers'[q] = [routes |-> <<>>, middlewares |-> <<>>]
    BY <1>4, <1>1, <1>3 DEF IInv, Moved
  <2> QED BY <2>1, <2>2 DEF IInv, Moved
<1>9. Chained'
  <2> SUFFICES ASSUME NEW x \in Routers, NEW p \in Within(under', x),
                      NEW q \in Within(under', x), under'[p] = Nobody
               PROVE  p \in Within(under', q)
    BY DEF Chained
  <2>1. p \in Routers /\ q \in Routers /\ p # s /\ under[p] = Nobody
    BY <1>2, <1>3 DEF Within
  <2>2. CASE s \notin Within(under, x)
    <3>1. p \in Within(under, x) /\ q \in Within(under, x)
      BY <1>5, <2>2
    <3>2. p \in Within(under, q)
      BY <2>1, <3>1 DEF IInv, Chained
    <3> QED BY <1>5, <2>1, <3>2
  <2>3. CASE s \in Within(under, x)
    <3>1. p = r
      <4>1. p \in Within(under, x) => p = s
        BY <1>1, <2>1, <2>3, Outermost
      <4> QED BY <1>5, <2>1, <2>3, <4>1
    <3>2. CASE q = r
      BY <1>2, <2>1, <3>1, <3>2, WithinCloses
    <3>3. CASE q # r
      <4>1. q \in Within(under, x)
        BY <1>5, <2>3, <3>3
      <4>2. s \in Within(under, q)
        BY <1>1, <2>3, <4>1, Zenon DEF IInv, Chained
      <4> QED BY <1>5, <2>1, <3>1, <4>2
    <3> QED BY <3>2, <3>3
  <2> QED BY <2>2, <2>3
<1>10. Listed'
  BY <1>1 DEF IInv, Listed
<1>11. OwnLayers'
  <2>1. Layers(owner, under', order, global, {Root})
    BY <1>2, <1>6 DEF IInv, OwnLayers
  <2>2. ASSUME NEW q \in Routers \ {Root}, under'[q] = Nobody
        PROVE  Layers(owner, under', order, routers'[q].middlewares, {q})
    <3>1. q # s /\ under[q] = Nobody
      BY <1>2, <1>3, <2>2
    <3>2. routers'[q].middlewares = routers[q].middlewares
      BY <1>4, <3>1
    <3>3. Layers(owner, under, order, routers[q].middlewares, {q})
      BY <3>1 DEF IInv, OwnLayers
    <3> QED BY <1>2, <1>6, <3>2, <3>3
  <2> QED BY <1>1, <2>1, <2>2 DEF OwnLayers
<1>12. ASSUME NEW q \in Routers \ {s}, NEW i \in RoutesOf(q)
       PROVE  Carries(owner, under', order, q, routers[q].routes[i])
  <2> DEFINE route == routers[q].routes[i]
  <2>1. /\ route \in RouteType /\ under[q] = Nobody
        /\ Carries(owner, under, order, q, route)
    BY Arrived
  <2> HIDE DEF route
  <2>2. route.home \in Routers /\ route.middlewares \in Seq(Middlewares)
    BY <2>1 DEF RouteType
  <2>3. s \notin Within(under, route.home)
    BY <1>1, <1>12, <2>1, <2>2, Outermost DEF Carries
  <2>4. Within(under', route.home) = Within(under, route.home)
    BY <1>5, <2>2, <2>3
  <2>5. Within(under, route.home) \ {q} \in SUBSET Routers
    BY DEF Within
  <2> QED BY <1>6, <2>1, <2>2, <2>4, <2>5 DEF Carries, route
<1>13. ASSUME NEW i \in RoutesOf(s)
       PROVE  Carries(owner, under', order, r,
                      Arriving(s, prefix, routers[s].routes[i]))
  <2> DEFINE route == routers[s].routes[i]
             home == route.home
             E == Within(under, home)
             arrived == Arriving(s, prefix, route)
  <2>1. /\ route \in RouteType
        /\ Carries(owner, under, order, s, route)
    BY Arrived
  <2>2. /\ arrived.home = home
        /\ arrived.middlewares = routers[s].middlewares \o route.middlewares
    BY <2>1 DEF Arriving, RouteType
  <2> HIDE DEF route, arrived
  <2>3. home \in Routers /\ route.middlewares \in Seq(Middlewares)
    BY <2>1 DEF RouteType
  <2>4. s \in E /\ Layers(owner, under, order, route.middlewares, E \ {s})
    BY <2>1 DEF Carries
  <2>5. r \notin E
    BY <1>1, <2>3, <2>4, Outermost
  <2>6. Within(under', home) = E \cup {r}
    BY <1>5, <2>3, <2>4
  <2>7. E \in SUBSET Routers
    BY DEF Within
  <2>8. \A q \in E : s \in Within(under, q)
    BY <1>1, <2>3, <2>4 DEF IInv, Chained
  <2>9. Layers(owner, under, order, routers[s].middlewares, {s})
    BY <1>1 DEF IInv, OwnLayers
  <2> HIDE DEF E, home
  <2>10. Layers(owner, under, order, arrived.middlewares, E)
    BY <1>2, <2>2, <2>3, <2>4, <2>7, <2>8, <2>9, LayersJoin
  <2>11. arrived.middlewares \in Seq(Middlewares)
    BY <1>2, <2>2, <2>3, ConcatProperties
  <2>12. Layers(owner, under', order, arrived.middlewares, E)
    BY <1>6, <2>7, <2>10, <2>11
  <2>13. Within(under', arrived.home) \ {r} = E /\ r \in Within(under', arrived.home)
    BY <2>2, <2>5, <2>6
  <2> QED BY <2>12, <2>13 DEF Carries, arrived, route
<1>14. ASSUME NEW q \in Routers, NEW i \in RoutesOf(q)'
       PROVE  \/ /\ q # s /\ i \in RoutesOf(q)
                 /\ routers'[q].routes[i] = routers[q].routes[i]
              \/ q = r /\ \E k \in RoutesOf(s) : routers'[q].routes[i] =
                            Arriving(s, prefix, routers[s].routes[k])
  <2>1. q # s
    BY <1>14, AttachRoutes DEF RoutesOf
  <2>2. CASE q = r
    BY <1>1, <1>14, <2>2, AttachRoutes
  <2>3. CASE q # r
    <3>1. routers'[q] = routers[q]
      BY <2>1, <2>3, AttachRoutes
    <3>2. RoutesOf(q)' = RoutesOf(q)
      BY <3>1 DEF RoutesOf
    <3> QED BY <1>14, <2>1, <3>1, <3>2
  <2> QED BY <2>2, <2>3
<1>15. CarriedLayers'
  <2>1. ASSUME NEW q \in Routers, NEW i \in RoutesOf(q)'
        PROVE  Carries(owner, under', order, q, routers'[q].routes[i])
    BY <1>12, <1>13, <1>14
  <2> QED BY <1>1, <2>1 DEF CarriedLayers
<1>16. \A i \in RoutesOf(s) :
         LET route == routers[s].routes[i]
             arrived == Arriving(s, prefix, route)
         IN  arrived.id = route.id /\ arrived.table = route.table
               /\ arrived.calls = route.calls
  BY Arrived DEF Arriving, RouteType
<1>17. TablesKept'
  <2>1. ASSUME NEW q \in Routers, NEW i \in RoutesOf(q)'
        PROVE  routers'[q].routes[i].table = MethodRouter(routers'[q].routes[i].calls)
    BY <1>14, <1>16, Arrived
  <2> QED BY <2>1 DEF TablesKept
<1>18. Kept'
  <2>1. ASSUME NEW q \in Routers, NEW i \in RoutesOf(q)
        PROVE  \E p \in Routers : \E k \in RoutesOf(p)' :
                 routers'[p].routes[k].id = routers[q].routes[i].id
    <3>1. CASE q = s
      <4>1. PICK k \in RoutesOf(r)' : routers'[r].routes[k] =
                                        Arriving(s, prefix, routers[s].routes[i])
        BY <3>1, AttachRoutes
      <4> QED BY <1>16, <3>1, <4>1
    <3>2. CASE q = r
      BY <3>2, AttachRoutes
    <3>3. CASE q # r /\ q # s
      <4>1. routers'[q] = routers[q]
        BY <3>3, AttachRoutes
      <4>2. RoutesOf(q)' = RoutesOf(q)
        BY <4>1 DEF RoutesOf
      <4> QED BY <4>1, <4>2
    <3> QED BY <3>1, <3>2, <3>3
  <2>2. ASSUME NEW q \in Routers, NEW i \in RoutesOf(q)'
        PROVE  \E p \in Routers : \E k \in RoutesOf(p) :
                 routers[p].routes[k].id = routers'[q].routes[i].id
    BY <1>14, <1>16
  <2> QED BY <1>1, <2>1, <2>2 DEF IInv, Kept
<1>19. Flattened'
  BY <1>1 DEF IInv, Flattened
<1> QED BY <1>7, <1>8, <1>9, <1>10, <1>11, <1>15, <1>17, <1>18, <1>19 DEF IInv

\* What is built is what is mounted, or the program panics.
LEMMA BuildStep ==
  ASSUME IInv, Build
  PROVE  IInv'
<1>1. /\ phase = "building" /\ phase' \in {"built", "panicked"}
      /\ UNCHANGED <<routers, global, under, owner, order, registered>>
  BY DEF Build
<1>2. flat = {} /\ TypeOK
  BY <1>1 DEF IInv, Flattened
<1>3. /\ routers[Root].routes \in Seq(RouteType) /\ global \in Seq(Middlewares)
  BY <1>2, RoutingAssumption DEF TypeOK
<1>4. \A i \in 1..Len(Mounted) :
        /\ Mounted[i] \in RouteType
        /\ global \o Mounted[i].middlewares \in Seq(Middlewares)
        /\ Allow(Mounted[i].table) \subseteq Methods
  <2> SUFFICES ASSUME NEW i \in 1..Len(Mounted)
               PROVE  /\ Mounted[i] \in RouteType
                      /\ global \o Mounted[i].middlewares \in Seq(Middlewares)
                      /\ Allow(Mounted[i].table) \subseteq Methods
    OBVIOUS
  <2> DEFINE route == Mounted[i]
  <2>1. route \in RouteType
    BY <1>3, ElementOfSeq DEF Mounted
  <2> HIDE DEF route
  <2>2. /\ route.middlewares \in Seq(Middlewares)
        /\ route.table \in Seq(Methods \X Handlers)
    BY <2>1 DEF RouteType
  <2>3. global \o route.middlewares \in Seq(Middlewares)
    BY <1>3, <2>2, ConcatProperties
  <2>4. \A k \in Indices(route.table) : route.table[k][1] \in Methods
    <3>1. \A k \in Indices(route.table) : route.table[k] \in Methods \X Handlers
      BY <2>2, ElementOfSeq DEF Indices
    <3> QED BY <3>1
  <2>5. Allow(route.table) \subseteq Methods
    BY <2>4 DEF Allow, Methods
  <2> QED BY <2>1, <2>3, <2>5 DEF route
<1>5. Flattened'
  <2>1. /\ Mounted' = Mounted /\ (Conflict <=> Conflict') /\ global' = global
    BY <1>1 DEF Mounted, Conflict
  <2>2. CASE Conflict
    BY <1>2, <2>2 DEF Build, Flattened
  <2>3. CASE ~Conflict
    BY <2>1, <2>3 DEF Build, Flattened
  <2> QED BY <2>2, <2>3
<1>6. TypeOK'
  <2>1. \A f \in flat' : /\ f.route \in RouteType /\ f.chain \in Seq(Middlewares)
                         /\ f.allow \subseteq Methods
    <3> SUFFICES ASSUME NEW f \in flat'
                 PROVE  /\ f.route \in RouteType /\ f.chain \in Seq(Middlewares)
                        /\ f.allow \subseteq Methods
      OBVIOUS
    <3>1. PICK i \in 1..Len(Mounted) :
            f = [route |-> Mounted[i], chain |-> global \o Mounted[i].middlewares,
                 allow |-> Allow(Mounted[i].table)]
      BY <1>2 DEF Build
    <3>2. /\ f.route = Mounted[i] /\ f.chain = global \o Mounted[i].middlewares
          /\ f.allow = Allow(Mounted[i].table)
      BY <3>1
    <3> QED BY <1>4, <3>2
  <2> QED BY <1>1, <1>2, <2>1 DEF TypeOK
<1>7. Moved' /\ Chained' /\ Listed' /\ OwnLayers'
  BY <1>1 DEF IInv, Moved, Chained, Listed, OwnLayers
<1>8. CarriedLayers' /\ TablesKept' /\ Kept'
  BY <1>1 DEF IInv, CarriedLayers, TablesKept, Kept, RoutesOf
<1> QED BY <1>5, <1>6, <1>7, <1>8 DEF IInv

\* A step that changes nothing.
LEMMA StutteringStep ==
  ASSUME IInv, UNCHANGED vars
  PROVE  IInv'
<1>1. UNCHANGED <<phase, routers, global, flat, under, owner, order, registered>>
  BY DEF vars
<1>2. TypeOK' /\ Moved' /\ Chained' /\ Listed' /\ OwnLayers'
  BY <1>1 DEF IInv, TypeOK, Moved, Chained, Listed, OwnLayers
<1>3. CarriedLayers' /\ TablesKept' /\ Kept'
  BY <1>1 DEF IInv, CarriedLayers, TablesKept, Kept, RoutesOf
<1>4. Flattened'
  BY <1>1 DEF IInv, Flattened, Conflict, Mounted
<1> QED BY <1>2, <1>3, <1>4 DEF IInv

\* Every step preserves the invariant.
LEMMA Inductive == IInv /\ [Next]_vars => IInv'
<1> SUFFICES ASSUME IInv, [Next]_vars PROVE IInv'
  OBVIOUS
<1>1. ASSUME NEW r \in Routers, NEW path \in Paths, NEW calls \in Tables,
             Route(r, path, calls)
      PROVE  IInv'
  BY <1>1, RouteStep
<1>2. ASSUME NEW r \in Routers, NEW m \in Middlewares, With(r, m)
      PROVE  IInv'
  BY <1>2, WithStep
<1>3. ASSUME NEW r \in Routers, NEW s \in Routers, Merge(r, s)
      PROVE  IInv'
  <2>1. <<>> \in Seq(Paths)
    OBVIOUS
  <2> QED BY <1>3, <2>1, AttachStep DEF Merge
<1>4. ASSUME NEW r \in Routers, NEW s \in Routers, NEW path \in Paths,
             Nest(r, path, s)
      PROVE  IInv'
  <2>1. <<path>> \in Seq(Paths)
    OBVIOUS
  <2> QED BY <1>4, <2>1, AttachStep DEF Nest
<1>5. ASSUME NEW m \in Middlewares, WithGlobal(m) PROVE IInv'
  BY <1>5, WithGlobalStep
<1>6. CASE Build
  BY <1>6, BuildStep
<1>7. CASE Terminated \/ UNCHANGED vars
  BY <1>7, StutteringStep DEF Terminated
<1> QED BY <1>1, <1>2, <1>3, <1>4, <1>5, <1>6, <1>7 DEF Next

LEMMA InvariantHolds == Spec => []IInv
  BY Initially, Inductive, PTL DEF Spec

(* ------------------------------ theorems -------------------------------- *)

\* The state has its type, whatever is registered, nested and merged.
THEOREM TypeCorrect == Spec => []TypeOK
<1>1. IInv => TypeOK
  BY DEF IInv
<1> QED BY <1>1, InvariantHolds, PTL

\* What the invariant says of a route that was built.
LEMMA BuiltFrom ==
  ASSUME IInv, NEW f \in flat
  PROVE  /\ phase = "built"
         /\ \E i \in RoutesOf(Root) :
              f = [route |-> routers[Root].routes[i],
                   chain |-> global \o routers[Root].routes[i].middlewares,
                   allow |-> Allow(routers[Root].routes[i].table)]
<1>1. phase = "built"
  BY DEF IInv, Flattened
<1> QED BY <1>1 DEF IInv, Flattened, Mounted, RoutesOf

\* The table of a route that was built is the one its calls make.
LEMMA BuiltTable ==
  ASSUME IInv, NEW f \in flat
  PROVE  /\ f.allow = Allow(f.route.table)
         /\ f.route.calls \in Seq(Call) /\ f.route.table \in Seq(Call)
         /\ Unique(f.route.table)
         /\ Serves(f.route.table, f.route.calls, Len(f.route.calls))
<1>1. PICK i \in RoutesOf(Root) :
        f = [route |-> routers[Root].routes[i],
             chain |-> global \o routers[Root].routes[i].middlewares,
             allow |-> Allow(routers[Root].routes[i].table)]
  BY BuiltFrom
<1>2. f.allow = Allow(f.route.table) /\ f.route = routers[Root].routes[i]
  BY <1>1
<1>3. f.route \in RouteType /\ f.route.table = MethodRouter(f.route.calls)
  BY <1>2, Arrived, RoutingAssumption
<1>4. f.route.calls \in Seq(Call)
  BY <1>3, RoutingAssumption DEF RouteType, Call
<1> QED BY <1>2, <1>3, <1>4, TableIsMade

\* Whatever the chain of `get`, `post` and so on a route is made of, each method
\* in it is served by the handler it was given last.
THEOREM LastRegistrationServed == Spec => []LastRegistrationWins
<1>1. IInv => LastRegistrationWins
  <2> SUFFICES ASSUME IInv, NEW f \in flat, NEW i \in 1..Len(f.route.calls),
                      \A j \in (i + 1)..Len(f.route.calls) :
                        f.route.calls[j][1] # f.route.calls[i][1]
               PROVE  Find(f.route.table, f.route.calls[i][1]) = f.route.calls[i][2]
    BY DEF LastRegistrationWins
  <2> DEFINE table == f.route.table
             calls == f.route.calls
  <2>1. /\ table \in Seq(Call) /\ Unique(table)
        /\ Serves(table, calls, Len(calls))
    BY BuiltTable
  <2>2. PICK k \in Indices(table) : table[k] = calls[i]
    BY <2>1 DEF Serves
  <2> HIDE DEF table, calls
  <2>3. Has(table, calls[i][1])
    BY <2>2 DEF Has
  <2>4. Effective(table, calls[i][1]) = calls[i][1]
    BY <2>3 DEF Effective
  <2>5. Find(table, calls[i][1]) = table[k][2]
    BY <2>1, <2>2, <2>4, FindFinds
  <2> QED BY <2>2, <2>5 DEF table, calls
<1> QED BY <1>1, InvariantHolds, PTL

\* The Allow header of every route lists the methods the route answers.
THEOREM AllowHolds == Spec => []AllowIsTruthful
<1>1. IInv => AllowIsTruthful
  <2> SUFFICES ASSUME IInv, NEW f \in flat, NEW m \in Methods
               PROVE  m \in f.allow <=> Find(f.route.table, m) # Nobody
    BY DEF AllowIsTruthful
  <2>1. /\ f.allow = Allow(f.route.table)
        /\ f.route.table \in Seq(Call) /\ Unique(f.route.table)
    BY BuiltTable
  <2> QED BY <2>1, AllowFinds
<1> QED BY <1>1, InvariantHolds, PTL

\* No route is lost or shadowed on the way to the application, in whatever order
\* routers are filled, nested and merged.
THEOREM RoutesServed == Spec => []EveryRouteIsServed
<1>1. IInv => EveryRouteIsServed
  <2> SUFFICES ASSUME IInv, phase = "built"
               PROVE  /\ \A f, g \in flat : f.route.path = g.route.path => f = g
                      /\ (\A r \in Routers \ {Root} : Root \in Enclosing(r))
                           => {f.route.id : f \in flat} = 0..(registered - 1)
    BY DEF EveryRouteIsServed
  <2> DEFINE Flat(i) == [route |-> Mounted[i],
                         chain |-> global \o Mounted[i].middlewares,
                         allow |-> Allow(Mounted[i].table)]
  <2>1. ~Conflict /\ flat = {Flat(i) : i \in 1..Len(Mounted)}
    BY DEF IInv, Flattened
  <2>2. \A f, g \in flat : f.route.path = g.route.path => f = g
    <3> SUFFICES ASSUME NEW f \in flat, NEW g \in flat, f.route.path = g.route.path
                 PROVE  f = g
      OBVIOUS
    <3>1. PICK i \in 1..Len(Mounted) : f = Flat(i)
      BY <2>1
    <3>2. PICK j \in 1..Len(Mounted) : g = Flat(j)
      BY <2>1
    <3>3. f.route = Mounted[i] /\ g.route = Mounted[j]
      BY <3>1, <3>2
    <3>4. i = j
      BY <2>1, <3>3 DEF Conflict
    <3> QED BY <3>1, <3>2, <3>4
  <2>3. ASSUME \A r \in Routers \ {Root} : Root \in Enclosing(r)
        PROVE  {f.route.id : f \in flat} = 0..(registered - 1)
    <3>1. \A r \in Routers : r # Root => RoutesOf(r) = {}
      <4> SUFFICES ASSUME NEW r \in Routers, r # Root, NEW i \in RoutesOf(r)
                   PROVE  FALSE
        OBVIOUS
      <4>1. under[r] = Nobody
        BY Arrived
      <4>2. Within(under, r) = {r}
        BY <4>1, WithinCloses DEF IInv, TypeOK, Attachments
      <4>3. Root \in Within(under, r)
        BY <2>3 DEF Enclosing, Closed, Within
      <4> QED BY <4>2, <4>3
    <3>2. \A n \in Nat : n < registered <=> \E i \in RoutesOf(Root) : Mounted[i].id = n
      BY <3>1, RoutingAssumption DEF IInv, Kept, Mounted
    <3>3. RoutesOf(Root) = 1..Len(Mounted) /\ registered \in Nat
      BY RoutingAssumption DEF RoutesOf, Mounted, IInv, TypeOK
    <3>4. {f.route.id : f \in flat} = {Mounted[i].id : i \in 1..Len(Mounted)}
      <4>1. \A i : Flat(i).route = Mounted[i]
        OBVIOUS
      <4> HIDE DEF Flat
      <4> QED BY <2>1, <4>1
    <3>5. \A i \in 1..Len(Mounted) : Mounted[i].id \in Nat
      <4> SUFFICES ASSUME NEW i \in RoutesOf(Root) PROVE Mounted[i].id \in Nat
        BY <3>3
      <4>1. Mounted[i] \in RouteType
        BY Arrived, RoutingAssumption DEF Mounted
      <4> QED BY <4>1 DEF RouteType
    <3>6. \A n : n \in 0..(registered - 1) <=> n \in Nat /\ n < registered
      BY <3>3
    <3>7. \A n : n \in {Mounted[i].id : i \in 1..Len(Mounted)}
                   <=> n \in Nat /\ n < registered
      BY <3>2, <3>3, <3>5
    <3> QED BY <3>4, <3>6, <3>7
  <2> QED BY <2>2, <2>3
<1> QED BY <1>1, InvariantHolds, PTL

\* The chain of every route holds the middleware of the application and of the
\* groups around it, each once, outermost first and in the order of
\* registration, however those calls were interleaved.
THEOREM ChainsAreOnions == Spec => []ChainIsOnion
<1>1. IInv => ChainIsOnion
  <2> SUFFICES ASSUME IInv, NEW f \in flat
               PROVE  /\ \A m \in Middlewares :
                           Cardinality({i \in 1..Len(f.chain) : f.chain[i] = m}) =
                             (IF owner[m] \in Enclosing(f.route.home) THEN 1 ELSE 0)
                      /\ \A i, j \in 1..Len(f.chain) :
                           i < j =>
                             /\ owner[f.chain[i]] \in Enclosing(owner[f.chain[j]])
                             /\ owner[f.chain[i]] = owner[f.chain[j]] =>
                                  \E k, l \in 1..Len(order) :
                                    k < l /\ order[k] = f.chain[i]
                                          /\ order[l] = f.chain[j]
    BY DEF ChainIsOnion
  <2>1. PICK n \in RoutesOf(Root) :
          f = [route |-> routers[Root].routes[n],
               chain |-> global \o routers[Root].routes[n].middlewares,
               allow |-> Allow(routers[Root].routes[n].table)]
    BY BuiltFrom
  <2> DEFINE route == routers[Root].routes[n]
             home == f.route.home
             chain == f.chain
             E == Within(under, home)
  <2>2. f.route = route /\ chain = global \o route.middlewares
    BY <2>1
  <2>3. /\ route \in RouteType /\ under[Root] = Nobody
        /\ Carries(owner, under, order, Root, route)
    BY Arrived, RoutingAssumption
  <2> HIDE DEF route
  <2>4. /\ home \in Routers /\ route.middlewares \in Seq(Middlewares)
        /\ Root \in E /\ E \in SUBSET Routers
        /\ Layers(owner, under, order, route.middlewares, E \ {Root})
    BY <2>2, <2>3 DEF RouteType, Carries, Within
  <2>5. \A q \in E : Root \in Within(under, q)
    BY <2>3, <2>4 DEF IInv, Chained
  <2>6. /\ Layers(owner, under, order, global, {Root})
        /\ global \in Seq(Middlewares) /\ owner \in Owners
    BY DEF IInv, OwnLayers, TypeOK, Owners
  <2>7. \A x : Enclosing(x) = Within(under, x)
    BY DEF Enclosing, Closed, Within
  <2> HIDE DEF chain, E, home
  <2>8. Layers(owner, under, order, chain, E)
    BY <2>2, <2>4, <2>5, <2>6, LayersJoin
  <2>9. ASSUME NEW m \in Middlewares
        PROVE  Cardinality({i \in 1..Len(chain) : chain[i] = m}) =
                 (IF owner[m] \in E THEN 1 ELSE 0)
    <3> DEFINE places == {i \in 1..Len(chain) : chain[i] = m}
    <3>1. CASE owner[m] \in E
      <4>1. PICK i \in 1..Len(chain) : chain[i] = m
        BY <2>8, <3>1 DEF Layers
      <4>2. places = {i}
        BY <2>8, <4>1 DEF Layers
      <4>3. Cardinality(places) = 1
        BY <4>2, FS_Singleton
      <4> QED BY <3>1, <4>3
    <3>2. CASE owner[m] \notin E
      <4>1. places = {}
        BY <2>8, <3>2 DEF Layers
      <4>2. Cardinality(places) = 0
        BY <4>1, FS_EmptySet
      <4> QED BY <3>2, <4>2
    <3> QED BY <3>1, <3>2
  <2>10. ASSUME NEW i \in 1..Len(chain), NEW j \in 1..Len(chain), i < j
         PROVE  /\ owner[chain[i]] \in Within(under, owner[chain[j]])
                /\ owner[chain[i]] = owner[chain[j]] =>
                     \E k, l \in 1..Len(order) :
                       k < l /\ order[k] = chain[i] /\ order[l] = chain[j]
    BY <2>8, <2>10 DEF Layers, Around, Before
  <2> QED BY <2>7, <2>9, <2>10 DEF chain, E, home
<1> QED BY <1>1, InvariantHolds, PTL
=============================================================================
