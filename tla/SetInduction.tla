---------------------------- MODULE SetInduction ----------------------------
(***************************************************************************)
(* Induction, stated for sets: what is to be shown of every number (or of   *)
(* every sequence) is shown of the members of a set that holds 0 (or the    *)
(* empty sequence) and with each member the next one.  Recursive functions  *)
(* are reasoned about in this form, and so are the folds of the community   *)
(* modules, by what one element more does to their value.                   *)
(***************************************************************************)
EXTENDS Integers, SequencesExt, SequenceTheorems, WellFoundedInduction, TLAPS

\* The order of the natural numbers has no infinite descent.
LEMMA NatLess == IsWellFoundedOn({ss \in Nat \X Nat : ss[1] < ss[2]}, Nat)
  BY NatLessThanWellFounded, Zenon DEF OpToRel

\* A set of numbers that holds 0, and n + 1 with n, holds every number.
LEMMA Induct ==
  ASSUME NEW S \in SUBSET Nat, 0 \in S, \A n \in S : n + 1 \in S
  PROVE  S = Nat
<1> DEFINE T == Nat \ S
           R == {ss \in Nat \X Nat : ss[1] < ss[2]}
<1> SUFFICES ASSUME T # {} PROVE FALSE
  OBVIOUS
<1>1. \E x \in T : \A y \in T : ~ (<<y, x>> \in R)
  <2>1. T \subseteq Nat /\ IsWellFoundedOn(R, Nat)
    BY NatLess
  <2> HIDE DEF T, R
  <2> QED BY <2>1, WFMin
<1>2. PICK x \in T : \A y \in T : ~ (<<y, x>> \in R)
  BY <1>1
<1>3. x # 0 /\ x - 1 \in Nat
  OBVIOUS
<1>4. <<x - 1, x>> \in R
  BY <1>3
<1>5. x - 1 \in S
  BY <1>2, <1>3, <1>4
<1> QED BY <1>5

(* ------------------------------- sequences ------------------------------ *)

\* A set of sequences over T that holds the empty one, and with s each that has
\* one more element, holds every sequence over T.
LEMMA SeqInduct ==
  ASSUME NEW T, NEW S \in SUBSET Seq(T), <<>> \in S,
         \A s \in S, x \in T : Append(s, x) \in S
  PROVE  S = Seq(T)
<1> DEFINE N == {n \in Nat : \A s \in Seq(T) : Len(s) = n => s \in S}
<1>1. 0 \in N
  BY EmptySeq
<1>2. ASSUME NEW n \in N PROVE n + 1 \in N
  <2> SUFFICES ASSUME NEW s \in Seq(T), Len(s) = n + 1 PROVE s \in S
    OBVIOUS
  <2>1. s # <<>>
    BY EmptySeq
  <2>2. PICK f \in Seq(T), x \in T : s = Append(f, x)
    BY <2>1, SequenceEmptyOrAppend
  <2>3. Len(f) = n
    BY <2>2, AppendProperties
  <2> QED BY <2>2, <2>3
<1>3. N = Nat
  <2>1. N \in SUBSET Nat
    OBVIOUS
  <2> HIDE DEF N
  <2> QED BY <1>1, <1>2, <2>1, Induct
<1> QED BY <1>3, LenProperties

(* --------------------------------- folds -------------------------------- *)

\* FoldLeft of the community modules recurs over the sets of indices of a
\* sequence; what matters are its values for the first k indices.
LEMMA MaxOfInterval ==
  ASSUME NEW k \in Nat, k # 0
  PROVE  Max(1..k) = k /\ (1..k) \ {k} = 1..(k - 1) /\ 1..k # {}
<1>1. k \in 1..k /\ \A y \in 1..k : k >= y
  OBVIOUS
<1>2. \A x \in 1..k : (\A y \in 1..k : x >= y) => x = k
  BY <1>1
<1>3. Max(1..k) = k
  BY <1>1, <1>2 DEF Max
<1> QED BY <1>1, <1>3

\* What there is to know of the indices of a sequence.
LEMMA PrefixSets ==
  ASSUME NEW T, NEW s \in Seq(T)
  PROVE  /\ DOMAIN s = 1..Len(s)
         /\ \A k \in 1..Len(s) :
              /\ s[k] \in T /\ 1..k \in SUBSET DOMAIN s /\ 1..k # {}
              /\ Max(1..k) = k /\ (1..k) \ {k} = 1..(k - 1)
<1>1. DOMAIN s = 1..Len(s) /\ Len(s) \in Nat /\ \A k \in 1..Len(s) : s[k] \in T
  BY ElementOfSeq, LenProperties
<1>2. \A k \in 1..Len(s) : k \in Nat /\ k # 0 /\ 1..k \in SUBSET DOMAIN s
  BY <1>1
<1>3. \A k \in Nat : k # 0 => Max(1..k) = k /\ (1..k) \ {k} = 1..(k - 1) /\ 1..k # {}
  BY MaxOfInterval
<1> QED BY <1>1, <1>2, <1>3

\* Any of these sets that is not empty has a greatest index.
LEMMA MaxOfIndices ==
  ASSUME NEW n \in Nat, NEW t \in SUBSET (1..n), t # {}
  PROVE  Max(t) \in t
<1> DEFINE S == {m \in Nat : \A u \in SUBSET (1..m) : u # {} =>
                   \E x \in u : \A y \in u : x >= y}
<1>1. 0 \in S
  <2>1. 1..0 = {}
    OBVIOUS
  <2> QED BY <2>1
<1>2. ASSUME NEW m \in S, NEW u \in SUBSET (1..(m + 1)), u # {}
      PROVE  \E x \in u : \A y \in u : x >= y
  <2>1. CASE m + 1 \in u
    BY <2>1
  <2>2. CASE m + 1 \notin u
    <3>1. u \in SUBSET (1..m)
      BY <2>2
    <3> QED BY <1>2, <3>1
  <2> QED BY <2>1, <2>2
<1>3. S = Nat
  <2>1. S \in SUBSET Nat /\ \A m \in S : m + 1 \in S
    BY <1>2
  <2> HIDE DEF S
  <2> QED BY <1>1, <2>1, Induct
<1>4. \E x \in t : \A y \in t : x >= y
  BY <1>3
<1> QED BY <1>4 DEF Max

\* iter is the function by which FoldLeft is defined, when step[<<b, x>>] is what
\* its operator makes of b and x; its values are in B.
Iterates(iter, step, base, B, T, s) ==
  /\ iter = [t \in SUBSET DOMAIN s |->
       IF t = {} THEN base ELSE step[<<iter[t \ {Max(t)}], s[Max(t)]>>]]
  /\ \A t \in SUBSET DOMAIN s : t # {} =>
       iter[t \ {Max(t)}] \in B /\ s[Max(t)] \in T

LEMMA FoldExists ==
  ASSUME NEW T, NEW B, NEW base \in B, NEW step \in [B \X T -> B],
         NEW s \in Seq(T)
  PROVE  \E iter : Iterates(iter, step, base, B, T, s)
<1> DEFINE Is(iter, n) ==
             /\ iter \in [SUBSET (1..n) -> B]
             /\ \A t \in SUBSET (1..n) : iter[t] =
                  IF t = {} THEN base
                  ELSE step[<<iter[t \ {Max(t)}], s[Max(t)]>>]
           S == {n \in Nat : n <= Len(s) => \E iter : Is(iter, n)}
<1>0. Len(s) \in Nat /\ DOMAIN s = 1..Len(s) /\ \A i \in 1..Len(s) : s[i] \in T
  BY ElementOfSeq, LenProperties
<1>1. 0 \in S
  <2> DEFINE iter == [t \in SUBSET (1..0) |-> base]
  <2>1. Is(iter, 0)
    OBVIOUS
  <2> QED BY <2>1
<1>2. ASSUME NEW n \in Nat, n + 1 <= Len(s), NEW iter, Is(iter, n)
      PROVE  \E g : Is(g, n + 1)
  <2> DEFINE g == [t \in SUBSET (1..(n + 1)) |->
               IF n + 1 \in t THEN step[<<iter[t \ {n + 1}], s[n + 1]>>]
               ELSE iter[t]]
  <2>0. \A t \in SUBSET (1..(n + 1)) :
          /\ t \ {n + 1} \in SUBSET (1..n)
          /\ n + 1 \notin t => t \in SUBSET (1..n)
    OBVIOUS
  <2>1. \A t \in SUBSET (1..n) : t \in SUBSET (1..(n + 1)) /\ g[t] = iter[t]
    OBVIOUS
  <2>2. g \in [SUBSET (1..(n + 1)) -> B]
    <3> SUFFICES ASSUME NEW t \in SUBSET (1..(n + 1)) PROVE g[t] \in B
      OBVIOUS
    <3>1. CASE n + 1 \in t
      <4>1. iter[t \ {n + 1}] \in B /\ s[n + 1] \in T
        BY <1>0, <1>2, <2>0
      <4>2. <<iter[t \ {n + 1}], s[n + 1]>> \in B \X T
        BY <4>1
      <4>3. g[t] = step[<<iter[t \ {n + 1}], s[n + 1]>>]
        BY <3>1
      <4> QED BY <4>2, <4>3
    <3>2. CASE n + 1 \notin t
      BY <1>2, <2>0, <3>2
    <3> QED BY <3>1, <3>2
  <2>3. ASSUME NEW t \in SUBSET (1..(n + 1))
        PROVE  g[t] = IF t = {} THEN base
                      ELSE step[<<g[t \ {Max(t)}], s[Max(t)]>>]
    <3>1. CASE n + 1 \in t
      <4>1. Max(t) = n + 1
        <5>1. \A y \in t : n + 1 >= y
          OBVIOUS
        <5>2. \A x \in t : (\A y \in t : x >= y) => x = n + 1
          BY <3>1, <5>1
        <5> QED BY <3>1, <5>1, <5>2 DEF Max
      <4>2. g[t \ {n + 1}] = iter[t \ {n + 1}]
        BY <2>0, <2>1
      <4>3. g[t] = step[<<iter[t \ {n + 1}], s[n + 1]>>]
        BY <3>1
      <4> HIDE DEF g
      <4> QED BY <3>1, <4>1, <4>2, <4>3
    <3>2. CASE n + 1 \notin t
      <4>1. t \in SUBSET (1..n) /\ t \ {Max(t)} \in SUBSET (1..n)
        BY <2>0, <3>2
      <4>2. g[t] = iter[t] /\ g[t \ {Max(t)}] = iter[t \ {Max(t)}]
        BY <2>1, <4>1
      <4>3. iter[t] = IF t = {} THEN base
                      ELSE step[<<iter[t \ {Max(t)}], s[Max(t)]>>]
        BY <1>2, <4>1
      <4> HIDE DEF g
      <4> QED BY <4>2, <4>3
    <3> QED BY <3>1, <3>2
  <2> HIDE DEF g
  <2> QED BY <2>2, <2>3
<1>3. S = Nat
  <2>1. S \in SUBSET Nat
    OBVIOUS
  <2>2. \A n \in S : n + 1 \in S
    <3> HIDE DEF Is
    <3> QED BY <1>0, <1>2
  <2> HIDE DEF S
  <2> QED BY <1>1, <2>1, <2>2, Induct
<1>4. PICK iter : Is(iter, Len(s))
  <2> HIDE DEF Is
  <2> QED BY <1>0, <1>3
<1>5. iter = [t \in SUBSET DOMAIN s |->
                IF t = {} THEN base
                ELSE step[<<iter[t \ {Max(t)}], s[Max(t)]>>]]
  BY <1>0, <1>4
<1>6. ASSUME NEW t \in SUBSET DOMAIN s, t # {}
      PROVE  iter[t \ {Max(t)}] \in B /\ s[Max(t)] \in T
  <2>1. t \ {Max(t)} \in SUBSET (1..Len(s)) /\ Max(t) \in 1..Len(s)
    BY <1>0, <1>6, MaxOfIndices
  <2> QED BY <1>0, <1>4, <2>1
<1> QED BY <1>5, <1>6 DEF Iterates

\* What f is on 1..k is `step` of what it is on 1..(k - 1) and of s[k].
Folds(f, step, base, B, s, n) ==
  /\ f[{}] = base
  /\ \A k \in 1..n : f[1..(k - 1)] \in B =>
       f[1..k] = step[<<f[1..(k - 1)], s[k]>>]

\* Two ways to fold the same elements come to the same.
LEMMA FoldUnique ==
  ASSUME NEW T, NEW B, NEW base \in B, NEW step \in [B \X T -> B],
         NEW s \in Seq(T), NEW n \in 0..Len(s), NEW f, NEW g,
         Folds(f, step, base, B, s, n), Folds(g, step, base, B, s, n)
  PROVE  f[1..n] = g[1..n] /\ f[1..n] \in B
<1> DEFINE S == {k \in Nat : k <= n => f[1..k] = g[1..k] /\ f[1..k] \in B}
<1> USE DEF Folds
<1>0. n \in Nat /\ \A k \in 1..n : s[k] \in T
  BY ElementOfSeq, LenProperties
<1>1. 0 \in S
  <2>1. 1..0 = {}
    OBVIOUS
  <2> QED BY <2>1
<1>2. ASSUME NEW k \in S PROVE k + 1 \in S
  <2> SUFFICES ASSUME k + 1 <= n
               PROVE  f[1..(k + 1)] = g[1..(k + 1)] /\ f[1..(k + 1)] \in B
    OBVIOUS
  <2>1. k + 1 \in 1..n /\ (k + 1) - 1 = k /\ k <= n
    BY <1>0
  <2>2. f[1..k] = g[1..k] /\ f[1..k] \in B
    BY <2>1
  <2>3. f[1..(k + 1)] = step[<<f[1..k], s[k + 1]>>]
    BY <2>1, <2>2
  <2>4. g[1..(k + 1)] = step[<<g[1..k], s[k + 1]>>]
    BY <2>1, <2>2
  <2>5. <<f[1..k], s[k + 1]>> \in B \X T
    BY <1>0, <2>1, <2>2
  <2> QED BY <2>2, <2>3, <2>4, <2>5
<1>3. S = Nat
  <2>1. S \in SUBSET Nat
    OBVIOUS
  <2> HIDE DEF S
  <2> QED BY <1>1, <1>2, <2>1, Induct
<1> QED BY <1>0, <1>3

\* F folds every sequence over T so.
IsFold(F, step, base, B, T) ==
  \A s \in Seq(T) : \E iter :
    F[s] = iter[1..Len(s)] /\ Folds(iter, step, base, B, s, Len(s))

\* One element more is one step more.
Appends(F, step, base, B, T) ==
  /\ F[<<>>] = base
  /\ \A s \in Seq(T) : F[s] \in B
  /\ \A s \in Seq(T), x \in T : F[Append(s, x)] = step[<<F[s], x>>]

LEMMA FoldAppend ==
  ASSUME NEW T, NEW B, NEW base \in B, NEW step \in [B \X T -> B], NEW F,
         IsFold(F, step, base, B, T)
  PROVE  Appends(F, step, base, B, T)
<1> USE DEF IsFold
<1>1. ASSUME NEW s \in Seq(T) PROVE F[s] \in B
  <2>1. PICK f : F[s] = f[1..Len(s)] /\ Folds(f, step, base, B, s, Len(s))
    OBVIOUS
  <2>2. Len(s) \in 0..Len(s)
    BY LenProperties
  <2>3. f[1..Len(s)] \in B
    BY <2>1, <2>2, FoldUnique
  <2> QED BY <2>1, <2>3
<1>2. F[<<>>] = base
  <2>1. <<>> \in Seq(T) /\ Len(<<>>) = 0 /\ 1..0 = {}
    BY EmptySeq
  <2> QED BY <2>1 DEF Folds
<1>3. ASSUME NEW s \in Seq(T), NEW x \in T
      PROVE  F[Append(s, x)] = step[<<F[s], x>>]
  <2> DEFINE u == Append(s, x)
             n == Len(s)
  <2>1. /\ u \in Seq(T) /\ Len(u) = n + 1 /\ n \in Nat /\ u[n + 1] = x
        /\ \A k \in 1..n : u[k] = s[k]
    BY AppendProperties, LenProperties
  <2> HIDE DEF u
  <2>2. PICK f : F[s] = f[1..n] /\ Folds(f, step, base, B, s, n)
    OBVIOUS
  <2>3. PICK g : F[u] = g[1..Len(u)] /\ Folds(g, step, base, B, u, Len(u))
    BY <2>1
  <2>4. Folds(g, step, base, B, s, n)
    <3>1. \A k \in 1..n : k \in 1..Len(u) /\ u[k] = s[k]
      BY <2>1
    <3> QED BY <2>3, <3>1 DEF Folds
  <2>5. f[1..n] = g[1..n] /\ f[1..n] \in B
    <3>1. n \in 0..Len(s)
      BY <2>1
    <3> QED BY <2>2, <2>3, <2>4, <3>1, FoldUnique
  <2>6. n + 1 \in 1..Len(u) /\ (n + 1) - 1 = n
    BY <2>1
  <2>7. g[1..(n + 1)] = step[<<g[1..n], x>>]
    BY <2>1, <2>3, <2>5, <2>6 DEF Folds
  <2> QED BY <2>1, <2>2, <2>3, <2>5, <2>7 DEF u
<1> QED BY <1>1, <1>2, <1>3 DEF Appends
=============================================================================
