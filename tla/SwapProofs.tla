----------------------------- MODULE SwapProofs ------------------------------
(***************************************************************************)
(* What holds of swapping, for any notes, wishes and numbers of retries.   *)
(*                                                                         *)
(* Requests are looked at once, for what they know of the notes they read  *)
(* (`Knows`); a swap is looked at once, for what it does to the notes      *)
(* (`Swapped`).  The money needs sums over finite sets, so this module     *)
(* starts with lemmas about the community modules' SumFunctionOnSet.       *)
(***************************************************************************)
EXTENDS Swaps, FiniteSetTheorems, TLAPS

(* Sums of naturals over finite sets.                                      *)

\* Induction over the naturals, for a set rather than a predicate.
LEMMA NatSet ==
  ASSUME NEW G \in SUBSET Nat, 0 \in G, \A n \in G : n + 1 \in G
  PROVE  \A n \in Nat : n \in G
<1> SUFFICES ASSUME NEW m \in Nat, m \notin G PROVE FALSE
  OBVIOUS
<1> DEFINE Bad == Nat \ G
<1>1. PICK n \in Bad : \A k \in Bad : ~(<<k, n>> \in OpToRel(<, Nat))
  <2>1. Bad \subseteq Nat /\ Bad # {} OBVIOUS
  <2> HIDE DEF Bad
  <2> QED BY <2>1, NatLessThanWellFounded, WFMin
<1>2. n # 0 /\ n \in Nat OBVIOUS
<1>3. n - 1 \in Nat /\ n - 1 < n BY <1>2
<1>4. <<n - 1, n>> \in OpToRel(<, Nat) BY <1>2, <1>3 DEF OpToRel
<1>5. n - 1 \in G BY <1>1, <1>3, <1>4
<1>6. (n - 1) + 1 \in G BY <1>5
<1> QED BY <1>2, <1>6

\* Induction over a finite set's subsets: what holds of a set whenever it
\* holds of everything strictly inside it holds of all of them.
LEMMA SubsetInduction ==
  ASSUME NEW S, IsFiniteSet(S), NEW G \in SUBSET SUBSET S,
         \A T \in SUBSET S : (\A U \in SUBSET T : U # T => U \in G) => T \in G
  PROVE  \A T \in SUBSET S : T \in G
<1> SUFFICES ASSUME NEW R \in SUBSET S, R \notin G PROVE FALSE
  OBVIOUS
<1> DEFINE Bad == (SUBSET S) \ G
<1>1. PICK T \in Bad : \A U \in Bad : ~(<<U, T>> \in StrictSubsetOrdering(S))
  <2>1. Bad \subseteq FiniteSubsetsOf(S) /\ Bad # {} BY FS_FiniteSubsetsOfFinite
  <2> HIDE DEF Bad
  <2> QED BY <2>1, FS_StrictSubsetOrderingWellFounded, WFMin
<1>2. \A U \in SUBSET T : U # T => U \in G
  BY <1>1 DEF StrictSubsetOrdering
<1> QED BY <1>1, <1>2

\* A sum of naturals over a finite set.
Summable(f, S) == IsFiniteSet(S) /\ \A x \in S : f[x] \in Nat

LEMMA SummablePart ==
  ASSUME NEW f, NEW S, Summable(f, S), NEW T \in SUBSET S
  PROVE  Summable(f, T)
  BY FS_Subset DEF Summable

Chosen(s) == CHOOSE x \in s : TRUE

IsSum(f, S, g) == g = [s \in SUBSET S |-> IF s = {} THEN 0 ELSE f[Chosen(s)] + g[s \ {Chosen(s)}]]

Iter(f, S) == CHOOSE g : IsSum(f, S, g)

LEMMA SumIsIter == \A f, S : SumFunctionOnSet(f, S) = Iter(f, S)[S]
  BY DEF SumFunctionOnSet, FoldFunctionOnSet, MapThenFoldSet, Iter, IsSum, Chosen

\* The fold's recursive function exists.
LEMMA IterExists ==
  ASSUME NEW f, NEW S, Summable(f, S)
  PROVE  IsSum(f, S, Iter(f, S)) /\ Iter(f, S) \in [SUBSET S -> Nat]
<1> DEFINE Rec(g, s) == IF s = {} THEN 0 ELSE f[Chosen(s)] + g[s \ {Chosen(s)}]
           G == {n \in Nat : \E g \in [SUBSET S -> Nat] :
                   \A s \in SUBSET S : Cardinality(s) <= n => g[s] = Rec(g, s)}
<1>1. \A s \in SUBSET S : IsFiniteSet(s) /\ Cardinality(s) \in Nat
  BY FS_Subset, FS_CardinalityType DEF Summable
<1>2. \A s \in SUBSET S : s # {} =>
        /\ Chosen(s) \in s /\ s \ {Chosen(s)} \in SUBSET S
        /\ Cardinality(s \ {Chosen(s)}) = Cardinality(s) - 1
  BY <1>1, FS_RemoveElement DEF Chosen
<1>3. ASSUME NEW g \in [SUBSET S -> Nat], NEW s \in SUBSET S PROVE Rec(g, s) \in Nat
  <2>1. CASE s = {} BY <2>1
  <2>2. CASE s # {}
    <3>1. f[Chosen(s)] \in Nat /\ g[s \ {Chosen(s)}] \in Nat BY <1>2, <2>2 DEF Summable
    <3> QED BY <2>2, <3>1
  <2> QED BY <2>1, <2>2
<1>4. 0 \in G
  <2> DEFINE g == [s \in SUBSET S |-> 0]
  <2>1. g \in [SUBSET S -> Nat] OBVIOUS
  <2>2. \A s \in SUBSET S : Cardinality(s) <= 0 => g[s] = Rec(g, s)
    BY <1>1, FS_EmptySet
  <2> QED BY <2>1, <2>2
<1>5. ASSUME NEW n \in G PROVE n + 1 \in G
  <2>1. PICK g \in [SUBSET S -> Nat] :
          \A s \in SUBSET S : Cardinality(s) <= n => g[s] = Rec(g, s)
    OBVIOUS
  <2> DEFINE h == [s \in SUBSET S |-> Rec(g, s)]
  <2>2. h \in [SUBSET S -> Nat] BY <1>3
  <2>3. ASSUME NEW s \in SUBSET S, Cardinality(s) <= n + 1 PROVE h[s] = Rec(h, s)
    <3>1. CASE s = {} BY <3>1
    <3>2. CASE s # {}
      <4> DEFINE t == s \ {Chosen(s)}
      <4>1. t \in SUBSET S /\ Cardinality(t) = Cardinality(s) - 1 BY <1>2, <3>2
      <4>3. Cardinality(t) <= n
        <5> HIDE DEF t
        <5> QED BY <1>1, <2>3, <4>1
      <4>2. h[t] = g[t] BY <2>1, <4>1, <4>3
      <4> QED BY <3>2, <4>2
    <3> QED BY <3>1, <3>2
  <2>4. n + 1 \in Nat OBVIOUS
  <2> HIDE DEF h
  <2> QED BY <2>2, <2>3, <2>4
<1>6. \A n \in Nat : n \in G
  <2> HIDE DEF G
  <2>1. G \in SUBSET Nat BY DEF G
  <2> QED BY <1>4, <1>5, <2>1, NatSet
<1>7. PICK g \in [SUBSET S -> Nat] :
        \A s \in SUBSET S : Cardinality(s) <= Cardinality(S) => g[s] = Rec(g, s)
  <2>1. Cardinality(S) \in G BY <1>1, <1>6
  <2> QED BY <2>1
<1>8. \A s \in SUBSET S : g[s] = Rec(g, s)
  BY <1>7, FS_Subset DEF Summable
<1>9. IsSum(f, S, g) BY <1>8 DEF IsSum
<1>10. IsSum(f, S, Iter(f, S)) BY <1>9 DEF Iter
<1>11. Iter(f, S) \in [SUBSET S -> Nat]
  <2> DEFINE i == Iter(f, S)
             H == {s \in SUBSET S : i[s] = g[s]}
  <2>1. i = [s \in SUBSET S |-> Rec(i, s)] BY <1>10 DEF IsSum
  <2>2. ASSUME NEW T \in SUBSET S, \A U \in SUBSET T : U # T => U \in H PROVE T \in H
    <3> HIDE DEF i
    <3>1. i[T] = Rec(i, T) BY <2>1
    <3>2. CASE T = {} BY <1>8, <3>1, <3>2
    <3>3. CASE T # {}
      <4>1. T \ {Chosen(T)} \in H BY <1>2, <2>2, <3>3
      <4> QED BY <1>8, <3>1, <3>3, <4>1
    <3> QED BY <3>2, <3>3
  <2>3. \A T \in SUBSET S : T \in H
    <3>1. H \in SUBSET SUBSET S OBVIOUS
    <3> HIDE DEF H
    <3> QED BY <2>2, <3>1, SubsetInduction DEF Summable
  <2> HIDE DEF i
  <2>4. \A s \in SUBSET S : i[s] \in Nat BY <2>3
  <2>5. i \in [SUBSET S -> Nat] BY <2>1, <2>4
  <2> QED BY <2>5 DEF i
<1> QED BY <1>10, <1>11

\* What a sum over a finite set is, whichever element is taken first.
LEMMA SumStep ==
  ASSUME NEW f, NEW S, Summable(f, S)
  PROVE  /\ SumFunctionOnSet(f, S) \in Nat
         /\ S = {} => SumFunctionOnSet(f, S) = 0
         /\ S # {} => /\ Chosen(S) \in S
                      /\ SumFunctionOnSet(f, S) =
                           f[Chosen(S)] + SumFunctionOnSet(f, S \ {Chosen(S)})
<1> DEFINE Rec(g, s) == IF s = {} THEN 0 ELSE f[Chosen(s)] + g[s \ {Chosen(s)}]
           i == Iter(f, S)
<1>1. i = [s \in SUBSET S |-> Rec(i, s)] /\ i \in [SUBSET S -> Nat]
  BY IterExists DEF IsSum
<1>2. SumFunctionOnSet(f, S) = i[S] BY SumIsIter
<1>3. CASE S = {} BY <1>1, <1>2, <1>3
<1>4. CASE S # {}
  <2> DEFINE U == S \ {Chosen(S)}
             j == Iter(f, U)
             H == {s \in SUBSET U : i[s] = j[s]}
  <2>1. Chosen(S) \in S BY <1>4 DEF Chosen
  <2>2. Summable(f, U) /\ IsFiniteSet(U) BY SummablePart DEF Summable
  <2> HIDE DEF i, U
  <2>3. IsSum(f, U, Iter(f, U)) BY <2>2, IterExists
  <2>9. j = [s \in SUBSET U |-> Rec(j, s)] BY <2>3 DEF IsSum
  <2> HIDE DEF j
  <2>4. U \in SUBSET S BY DEF U
  <2>5. \A T \in SUBSET U : (\A V \in SUBSET T : V # T => V \in H) => T \in H
    <3> SUFFICES ASSUME NEW T \in SUBSET U, \A V \in SUBSET T : V # T => V \in H PROVE T \in H
      OBVIOUS
    <3>1. i[T] = Rec(i, T) /\ j[T] = Rec(j, T) BY <1>1, <2>9, <2>4
    <3>2. CASE T = {} BY <3>1, <3>2
    <3>3. CASE T # {}
      <4>1. Chosen(T) \in T BY <3>3 DEF Chosen
      <4>2. T \ {Chosen(T)} \in H BY <4>1
      <4> QED BY <3>1, <3>3, <4>2
    <3> QED BY <3>2, <3>3
  <2>6. U \in H
    <3>1. H \in SUBSET SUBSET U OBVIOUS
    <3> HIDE DEF H
    <3> QED BY <2>2, <2>5, <3>1, SubsetInduction
  <2>7. SumFunctionOnSet(f, U) = j[U] BY SumIsIter DEF j
  <2>8. i[S] = f[Chosen(S)] + i[U] BY <1>1, <1>4 DEF U
  <2> QED BY <1>1, <1>2, <1>4, <2>1, <2>6, <2>7, <2>8 DEF U
<1> QED BY <1>3, <1>4

\* Any element may be taken out of a sum.
LEMMA SumWithout ==
  ASSUME NEW f, NEW S, Summable(f, S), NEW x \in S
  PROVE  /\ SumFunctionOnSet(f, S \ {x}) \in Nat
         /\ SumFunctionOnSet(f, S) = f[x] + SumFunctionOnSet(f, S \ {x})
<1> DEFINE Sum(T) == SumFunctionOnSet(f, T)
           G == {T \in SUBSET S : \A y \in T : Sum(T) = f[y] + Sum(T \ {y})}
<1>1. \A T \in SUBSET S :
        /\ Sum(T) \in Nat
        /\ T # {} => Chosen(T) \in T /\ Sum(T) = f[Chosen(T)] + Sum(T \ {Chosen(T)})
  BY SummablePart, SumStep
<1> HIDE DEF Sum
<1>2. \A T \in SUBSET S : (\A U \in SUBSET T : U # T => U \in G) => T \in G
  <2> SUFFICES ASSUME NEW T \in SUBSET S, \A U \in SUBSET T : U # T => U \in G PROVE T \in G
    OBVIOUS
  <2> SUFFICES ASSUME NEW y \in T PROVE Sum(T) = f[y] + Sum(T \ {y})
    OBVIOUS
  <2> DEFINE c == Chosen(T)
  <2>1. c \in T /\ Sum(T) = f[c] + Sum(T \ {c}) BY <1>1
  <2> HIDE DEF c
  <2>2. CASE c = y BY <2>1, <2>2
  <2>3. CASE c # y
    <3>1. T \ {c} \in G /\ T \ {y} \in G BY <2>1
    <3>2. Sum(T \ {c}) = f[y] + Sum((T \ {c}) \ {y}) BY <2>3, <3>1
    <3>3. Sum(T \ {y}) = f[c] + Sum((T \ {y}) \ {c}) BY <2>1, <2>3, <3>1
    <3>4. (T \ {c}) \ {y} = (T \ {y}) \ {c} OBVIOUS
    <3>5. f[c] \in Nat /\ f[y] \in Nat BY <2>1 DEF Summable
    <3> DEFINE rest == Sum((T \ {c}) \ {y})
    <3>6. rest \in Nat BY <1>1
    <3>7. Sum(T) = f[c] + (f[y] + rest) /\ f[y] + Sum(T \ {y}) = f[y] + (f[c] + rest)
      BY <2>1, <3>2, <3>3, <3>4
    <3> HIDE DEF rest
    <3> QED BY <3>5, <3>6, <3>7
  <2> QED BY <2>2, <2>3
<1>3. S \in G
  <2>1. G \in SUBSET SUBSET S OBVIOUS
  <2> HIDE DEF G
  <2> QED BY <1>2, <2>1, SubsetInduction DEF Summable
<1>4. S \ {x} \in SUBSET S OBVIOUS
<1> QED BY <1>1, <1>3, <1>4 DEF Sum

\* A sum reads its function on the set it is over, and nowhere else.
LEMMA SumSame ==
  ASSUME NEW f, NEW g, NEW S, Summable(f, S), \A x \in S : f[x] = g[x]
  PROVE  Summable(g, S) /\ SumFunctionOnSet(f, S) = SumFunctionOnSet(g, S)
<1> DEFINE G == {T \in SUBSET S : SumFunctionOnSet(f, T) = SumFunctionOnSet(g, T)}
<1>0. Summable(g, S) BY DEF Summable
<1>1. \A T \in SUBSET S : (\A U \in SUBSET T : U # T => U \in G) => T \in G
  <2> SUFFICES ASSUME NEW T \in SUBSET S, \A U \in SUBSET T : U # T => U \in G PROVE T \in G
    OBVIOUS
  <2>1. Summable(f, T) /\ Summable(g, T) BY <1>0, SummablePart
  <2>2. CASE T = {}
    <3>1. SumFunctionOnSet(f, T) = 0 /\ SumFunctionOnSet(g, T) = 0 BY <2>1, <2>2, SumStep
    <3> QED BY <3>1
  <2>3. CASE T # {}
    <3>1. /\ Chosen(T) \in T
          /\ SumFunctionOnSet(f, T) = f[Chosen(T)] + SumFunctionOnSet(f, T \ {Chosen(T)})
          /\ SumFunctionOnSet(g, T) = g[Chosen(T)] + SumFunctionOnSet(g, T \ {Chosen(T)})
      BY <2>1, <2>3, SumStep
    <3>2. T \ {Chosen(T)} \in G BY <3>1
    <3>3. f[Chosen(T)] = g[Chosen(T)] BY <3>1
    <3> QED BY <3>1, <3>2, <3>3
  <2> QED BY <2>2, <2>3
<1>2. S \in G
  <2>1. G \in SUBSET SUBSET S OBVIOUS
  <2> HIDE DEF G
  <2> QED BY <1>1, <2>1, SubsetInduction DEF Summable
<1> QED BY <1>0, <1>2

\* A sum is that of a part and that of the rest.
LEMMA SumParts ==
  ASSUME NEW f, NEW S, Summable(f, S), NEW R \in SUBSET S
  PROVE  SumFunctionOnSet(f, S) = SumFunctionOnSet(f, R) + SumFunctionOnSet(f, S \ R)
<1> DEFINE Sum(T) == SumFunctionOnSet(f, T)
           G == {T \in SUBSET S : Sum(S) = Sum(T) + Sum(S \ T)}
<1>1. \A T \in SUBSET S : Summable(f, T) /\ Sum(T) \in Nat /\ (T = {} => Sum(T) = 0)
  BY SummablePart, SumStep
<1>2. \A T \in SUBSET S : \A x \in T : Sum(T) = f[x] + Sum(T \ {x})
  <2> TAKE T \in SUBSET S
  <2>1. Summable(f, T) BY <1>1
  <2> QED BY ONLY <2>1, SumWithout
<1> HIDE DEF Sum
<1>3. \A T \in SUBSET S : (\A U \in SUBSET T : U # T => U \in G) => T \in G
  <2> SUFFICES ASSUME NEW T \in SUBSET S, \A U \in SUBSET T : U # T => U \in G PROVE T \in G
    OBVIOUS
  <2>1. CASE T = {}
    <3>1. S \ T = S BY <2>1
    <3> QED BY <1>1, <2>1, <3>1
  <2>2. CASE T # {}
    <3>1. PICK x \in T : TRUE BY <2>2
    <3> DEFINE U == T \ {x}
    <3>2. U \in G BY <3>1
    <3>3. Sum(S) = Sum(U) + Sum(S \ U) BY <3>2
    <3>4. (S \ U) \ {x} = S \ T /\ x \in S \ U BY <3>1
    <3>5. Sum(S \ U) = f[x] + Sum(S \ T)
      <4>1. S \ U \in SUBSET S OBVIOUS
      <4> HIDE DEF U
      <4> QED BY <1>2, <3>4, <4>1
    <3>6. Sum(T) = f[x] + Sum(U) BY <1>2, <3>1
    <3>7. f[x] \in Nat /\ Sum(U) \in Nat /\ Sum(S \ T) \in Nat BY <1>1, <3>1 DEF Summable
    <3>8. Sum(S) = Sum(T) + Sum(S \ T)
      <4> HIDE DEF U
      <4> QED BY <3>3, <3>5, <3>6, <3>7
    <3> QED BY <3>8
  <2> QED BY <2>1, <2>2
<1>4. R \in G
  <2>1. G \in SUBSET SUBSET S /\ IsFiniteSet(S) BY DEF Summable
  <2> HIDE DEF G
  <2> QED BY ONLY <1>3, <2>1, R \in SUBSET S, SubsetInduction
<1> QED BY <1>4 DEF Sum

\* Entries listed once each add up to what they list, and the same again for
\* each of them.
Listed(w, n) == {w[k] : k \in 1..n}

Lists(w, n, f, g, b) ==
  /\ n \in Nat /\ b \in Nat
  /\ \A j, k \in 1..n : w[j] = w[k] => j = k
  /\ \A k \in 1..n : g[k] \in Nat /\ f[w[k]] = g[k] + b

LEMMA SumListed ==
  ASSUME NEW f, NEW g, NEW w, NEW n, NEW b, Lists(w, n, f, g, b)
  PROVE  /\ Summable(g, 1..n) /\ Summable(f, Listed(w, n))
         /\ SumFunctionOnSet(f, Listed(w, n)) = SumFunctionOnSet(g, 1..n) + n * b
<1> DEFINE In(m) == {w[k] : k \in 1..m}
           Of(m) == SumFunctionOnSet(f, In(m))
           Entries(m) == SumFunctionOnSet(g, 1..m)
           Fine(m) == /\ Summable(g, 1..m) /\ Summable(f, In(m))
                      /\ Of(m) = Entries(m) + m * b
           G == {m \in Nat : m <= n => Fine(m)}
<1>0. /\ n \in Nat /\ b \in Nat
      /\ \A j, k \in 1..n : w[j] = w[k] => j = k
      /\ \A k \in 1..n : g[k] \in Nat /\ f[w[k]] = g[k] + b
  BY DEF Lists
<1>1. 0 \in G
  <2>1. In(0) = {} /\ 1..0 = {} OBVIOUS
  <2>2. Summable(f, {}) /\ Summable(g, {}) BY FS_EmptySet DEF Summable
  <2>3. SumFunctionOnSet(f, {}) = 0 /\ SumFunctionOnSet(g, {}) = 0 BY <2>2, SumStep
  <2>4. Of(0) = 0 /\ Entries(0) = 0 BY <2>1, <2>3
  <2>6. 0 * b = 0 BY <1>0
  <2>5. Summable(f, In(0)) /\ Summable(g, 1..0) BY <2>1, <2>2
  <2> HIDE DEF In, Of, Entries
  <2> QED BY <2>4, <2>5, <2>6
<1>2. ASSUME NEW m \in G PROVE m + 1 \in G
  <2> SUFFICES ASSUME m + 1 <= n PROVE Fine(m + 1)
    OBVIOUS
  <2>1. PICK x, last, most, all, some, more :
          /\ last = m + 1 /\ x = w[last] /\ most = 1..m /\ all = 1..last
          /\ some = In(m) /\ more = In(last)
    OBVIOUS
  <2>2. m \in Nat /\ last \in 1..n /\ Fine(m) BY <1>0, <2>1
  <2>3. more = some \union {x} /\ x \notin some /\ x \in more /\ more \ {x} = some
    BY <1>0, <2>1, <2>2
  <2>4. last \in all /\ all \ {last} = most BY <2>1, <2>2
  <2>5. g[last] \in Nat /\ f[x] \in Nat /\ f[x] = g[last] + b BY <1>0, <2>1, <2>2
  <2>6. Summable(f, some) /\ Summable(g, most) BY <2>1, <2>2
  <2>7. Summable(f, more)
    BY <2>3, <2>5, <2>6, FS_AddElement DEF Summable
  <2>8. Summable(g, all)
    <3>1. IsFiniteSet(all) BY <2>1, <2>2, FS_Interval
    <3>2. \A k \in all : g[k] \in Nat BY <1>0, <2>1, <2>2
    <3> QED BY <3>1, <3>2 DEF Summable
  <2>9. SumFunctionOnSet(f, more) = f[x] + SumFunctionOnSet(f, some)
    BY ONLY <2>3, <2>7, SumWithout
  <2>10. /\ SumFunctionOnSet(g, most) \in Nat
         /\ SumFunctionOnSet(g, all) = g[last] + SumFunctionOnSet(g, most)
    <3>1. last \in all BY <2>4
    <3>2. /\ SumFunctionOnSet(g, all \ {last}) \in Nat
          /\ SumFunctionOnSet(g, all) = g[last] + SumFunctionOnSet(g, all \ {last})
      BY ONLY <2>8, <3>1, SumWithout
    <3> QED BY <2>4, <3>2
  <2>11. SumFunctionOnSet(f, some) = SumFunctionOnSet(g, most) + m * b BY <2>1, <2>2
  <2>12. (m + 1) * b = m * b + b /\ m * b \in Nat BY ONLY <1>0, <2>2
  <2>13. SumFunctionOnSet(f, more) = SumFunctionOnSet(g, all) + (m + 1) * b
    BY <1>0, <2>5, <2>9, <2>10, <2>11, <2>12
  <2> QED BY <2>1, <2>7, <2>8, <2>13
<1>3. n \in G
  <2> HIDE DEF G
  <2>1. G \in SUBSET Nat BY DEF G
  <2> QED BY <1>0, <1>1, <1>2, <2>1, NatSet
<1> QED BY <1>3 DEF Listed

LEMMA SumOfOne ==
  ASSUME NEW f, NEW x, f[x] \in Nat
  PROVE  Summable(f, {x}) /\ SumFunctionOnSet(f, {x}) = f[x]
<1>1. Summable(f, {x}) BY FS_Singleton DEF Summable
<1>2. PICK S : S = {x} OBVIOUS
<1>3. Summable(f, S) /\ Summable(f, {}) /\ x \in S /\ S \ {x} = {}
  BY <1>1, <1>2, FS_EmptySet DEF Summable
<1>4. SumFunctionOnSet(f, {}) = 0 BY ONLY <1>3, SumStep
<1>5. SumFunctionOnSet(f, S) = f[x] + SumFunctionOnSet(f, S \ {x})
  BY ONLY <1>3, SumWithout
<1> QED BY <1>1, <1>2, <1>3, <1>4, <1>5

LEMMA SumOfTwo ==
  ASSUME NEW f, NEW x, NEW y, x # y, f[x] \in Nat, f[y] \in Nat
  PROVE  Summable(f, {x, y}) /\ SumFunctionOnSet(f, {x, y}) = f[x] + f[y]
<1>1. PICK S : S = {x, y} OBVIOUS
<1>2. S = {y} \union {x} /\ S \ {x} = {y} BY <1>1
<1>3. Summable(f, {y}) /\ SumFunctionOnSet(f, {y}) = f[y] BY SumOfOne
<1>4. Summable(f, S) BY <1>2, <1>3, FS_AddElement DEF Summable
<1>5. x \in S BY <1>1
<1>6. SumFunctionOnSet(f, S) = f[x] + SumFunctionOnSet(f, S \ {x})
  BY ONLY <1>4, <1>5, SumWithout
<1> QED BY <1>1, <1>2, <1>3, <1>4, <1>6

-----------------------------------------------------------------------------
(* The inductive invariant.                                                *)

Rows == [state : {"absent", "outstanding", "pending", "burned"}, amount : Nat]
AttStates == [pc : {"idle", "opening", "done", "lost"}, wish : Wishes \union {<< >>},
              seen : Seq(Rows), paid : Seq(Nat),
              reply : {"none", "ok", "invalid", "in use", "pending", "insufficient"}]

\* TypeOK but for what is held, with the records' types named.
Types ==
  /\ note \in [Ids -> Rows]
  /\ \A i \in Ids : note[i].state # "absent" => note[i].amount > 0
  /\ att \in [Attempts -> AttStates]
  /\ melted \subseteq Ids
  /\ crashes \in 0..MaxCrashes

Present(i) == i \in Ids /\ note[i].state # "absent"

\* What the swaps table says was carried out: a wish of notes all different,
\* and outputs minted at the amounts it answers.
Carried ==
  \A s \in swaps :
    /\ \E w \in Wishes : s.fingerprint = Fingerprint(w) /\ IsInjective(w.ins)
    /\ s.amounts \in Seq(Nat \ {0})
    /\ \A k \in DOMAIN s.amounts : /\ k \in DOMAIN s.fingerprint.outs
                                   /\ Present(s.fingerprint.outs[k])
                                   /\ note[s.fingerprint.outs[k]].amount = s.amounts[k]

\* A note behind a swap is burned, and was neither paid out nor swapped again.
Spent ==
  /\ \A s \in swaps : \A i \in s.fingerprint.ins :
       i \in Ids /\ note[i].state = "burned" /\ i \notin melted
  /\ \A s, t \in swaps : s.fingerprint.ins \cap t.fingerprint.ins # {} => s = t
  /\ \A i \in melted : note[i].state = "burned"

\* What a request in progress has read is stale in nothing but the states,
\* and what one was answered is so.
Knows(a) ==
  /\ att[a].pc = "idle" => att[a].seen = << >>
  /\ att[a].pc \in {"opening", "done"} => att[a].wish \in Wishes
  /\ att[a].pc = "opening" =>
       /\ Len(att[a].seen) <= Len(att[a].wish.ins)
       /\ \A k \in 1..Len(att[a].seen) :
            /\ Present(att[a].wish.ins[k])
            /\ att[a].seen[k].amount = note[att[a].wish.ins[k]].amount
  /\ att[a].reply = "ok" =>
       /\ att[a].pc = "done"
       /\ \A k \in DOMAIN att[a].paid :
            /\ k \in DOMAIN att[a].wish.outs
            /\ Present(att[a].wish.outs[k])
            /\ note[att[a].wish.outs[k]].amount = att[a].paid[k]

Backed == IsFiniteSet(Live) /\ held \in Nat /\ EveryNoteIsBacked

IInv == Types /\ Carried /\ Spent /\ (\A a \in Attempts : Knows(a)) /\ Backed

LEMMA InvariantImplies ==
  ASSUME IInv
  PROVE  TypeOK /\ SpentOnce /\ AnswersAreBacked /\ EveryNoteIsBacked
<1>1. TypeOK
  <2>1. \A i \in Ids : /\ note[i].state \in {"absent", "outstanding", "pending", "burned"}
                       /\ note[i].amount \in Nat
    BY DEF IInv, Types, Rows
  <2>2. \A s \in swaps : \A k \in DOMAIN s.amounts : s.amounts[k] \in Nat \ {0}
    BY DEF IInv, Carried
  <2>3. \A a \in Attempts :
          /\ att[a].pc \in {"idle", "opening", "done", "lost"}
          /\ att[a].reply \in {"none", "ok", "invalid", "in use", "pending", "insufficient"}
    BY DEF IInv, Types, AttStates
  <2> QED BY <2>1, <2>2, <2>3 DEF IInv, TypeOK, Types, Knows, Backed
<1>2. SpentOnce BY DEF IInv, SpentOnce, Spent, Live
<1>3. AnswersAreBacked BY DEF IInv, AnswersAreBacked, Knows, Present
<1> QED BY <1>1, <1>2, <1>3 DEF IInv, Backed

-----------------------------------------------------------------------------
(* What a request asks for.                                                *)

LEMMA WishTypes ==
  ASSUME NEW w \in Wishes
  PROVE  /\ w.ins \in Seq(Ids) /\ Len(w.ins) \in Nat \ {0}
         /\ DOMAIN w.ins = 1..Len(w.ins) /\ Range(w.ins) \subseteq Ids
         /\ w.outs \in Seq(Outputs) /\ IsInjective(w.outs)
         /\ Minted(w) \subseteq DOMAIN w.outs /\ DOMAIN w.outs = 1..Len(w.outs)
         /\ \A k \in DOMAIN w.outs : w.outs[k] \in Ids
         /\ w.amount \in Nat
<1>1. /\ w.ins \in Seq(Ids) \ {<< >>} /\ w.outs \in Seq(Outputs) /\ Len(w.outs) \in {1, 2}
      /\ IsInjective(w.outs) /\ w.amount \in Nat
      /\ (w.amount # NoAmount => Len(w.outs) = 2)
  BY SwapsAssumption
<1>2. Len(w.ins) \in Nat \ {0} BY <1>1
<1>3. Range(w.ins) \subseteq Ids BY <1>1 DEF Range
<1>4. Minted(w) \subseteq DOMAIN w.outs BY <1>1 DEF Minted, IsSplit
<1>5. \A k \in DOMAIN w.outs : w.outs[k] \in Ids BY <1>1 DEF Ids
<1> QED BY <1>1, <1>2, <1>3, <1>4, <1>5

\* Two requests of one fingerprint either both name a note twice or neither.
LEMMA FingerprintIsInjective ==
  ASSUME NEW v \in Wishes, NEW w \in Wishes, Fingerprint(v) = Fingerprint(w),
         IsInjective(v.ins)
  PROVE  IsInjective(w.ins)
<1> DEFINE n == Len(w.ins)
           R == Range(w.ins)
<1>1. n \in Nat /\ Len(v.ins) = n /\ Range(v.ins) = R
  BY WishTypes DEF Fingerprint
<1>2. v.ins \in [1..n -> R] /\ w.ins \in [1..n -> R]
  <2>1. /\ \A k \in 1..n : v.ins[k] \in Range(v.ins)
        /\ \A k \in 1..n : w.ins[k] \in Range(w.ins)
    BY <1>1, WishTypes DEF Range
  <2>2. v.ins \in [1..n -> Ids] /\ w.ins \in [1..n -> Ids]
    BY <1>1, WishTypes
  <2> QED BY <1>1, <2>1, <2>2
<1>3. v.ins \in Surjection(1..n, R) /\ w.ins \in Surjection(1..n, R)
  BY <1>1, <1>2, WishTypes DEF Surjection, Range
<1>4. v.ins \in Injection(1..n, R)
  BY <1>2 DEF Injection, IsInjective
<1>5. IsFiniteSet(1..n) BY <1>1, FS_Interval
<1> HIDE DEF n, R
<1>6. Cardinality(R) = Cardinality(1..n) BY <1>3, <1>4, <1>5, FS_Surjection
<1>7. w.ins \in Injection(1..n, R) BY <1>3, <1>5, <1>6, FS_Surjection
<1> QED BY <1>2, <1>7 DEF Injection, IsInjective

\* What a swap mints is no more than the notes it takes were worth, with the
\* fee withheld from each.
LEMMA PayoutFacts ==
  ASSUME NEW w \in Wishes, NEW total \in Nat \ {0}, Affordable(w, total)
  PROVE  /\ Payout(w, total) \in Seq(Nat \ {0})
         /\ DOMAIN Payout(w, total) = Minted(w)
         /\ IF IsSplit(w)
              THEN Payout(w, total)[1] + Payout(w, total)[2] + BaseFee = total
              ELSE Payout(w, total)[1] + BaseFee = total + Len(w.ins) * BaseFee
<1>1. BaseFee \in Nat /\ w.amount \in Nat /\ Len(w.ins) \in Nat \ {0}
  BY WishTypes, SwapsAssumption
<1>2. CASE IsSplit(w)
  <2>1. w.amount \in Nat \ {0} /\ (total - w.amount) - BaseFee \in Nat \ {0}
    BY <1>1, <1>2 DEF Affordable, IsSplit, NoAmount
  <2> DEFINE change == (total - w.amount) - BaseFee
  <2>2. w.amount + change + BaseFee = total BY <1>1
  <2>3. Payout(w, total) = <<w.amount, change>> BY <1>2 DEF Payout
  <2> HIDE DEF change
  <2> QED BY <1>2, <2>1, <2>2, <2>3 DEF Minted, change
<1>3. CASE ~IsSplit(w)
  <2> DEFINE less == (Len(w.ins) - 1) * BaseFee
  <2>1. less \in Nat /\ less + BaseFee = Len(w.ins) * BaseFee BY <1>1
  <2>2. Payout(w, total) = <<total + less>> BY <1>3 DEF Payout
  <2> HIDE DEF less
  <2>3. total + less \in Nat \ {0} BY <2>1
  <2> QED BY <1>1, <1>3, <2>1, <2>2, <2>3 DEF Minted
<1> QED BY <1>2, <1>3

\* What a swap does to the notes.
Swapped(w, amounts) ==
  /\ \A k \in Minted(w) : /\ note[w.outs[k]].state = "absent"
                          /\ note'[w.outs[k]] = [state |-> "outstanding", amount |-> amounts[k]]
  /\ \A i \in Range(w.ins) : /\ note[i].state = "outstanding"
                             /\ note'[i] = [state |-> "burned", amount |-> note[i].amount]
  /\ \A i \in Ids : (\A k \in Minted(w) : w.outs[k] # i) /\ i \notin Range(w.ins)
                      => note'[i] = note[i]

LEMMA SwapSwaps ==
  ASSUME Types, NEW w \in Wishes, NEW amounts \in Seq(Nat \ {0}),
         DOMAIN amounts = Minted(w), CanSwap(w), Swap(w, amounts)
  PROVE  /\ note' \in [Ids -> Rows] /\ Swapped(w, amounts)
         /\ \A i \in Ids : note'[i].state # "absent" => note'[i].amount > 0
<1> DEFINE Out(i) == CHOOSE k \in Minted(w) : w.outs[k] = i
           minted == {w.outs[k] : k \in Minted(w)}
<1>1. /\ note' = [i \in Ids |->
           CASE i \in minted -> [state |-> "outstanding", amount |-> amounts[Out(i)]]
             [] i \in Range(w.ins) -> [note[i] EXCEPT !.state = "burned"]
             [] OTHER -> note[i]]
  BY DEF Swap
<1>2. \A k \in Minted(w) : Out(w.outs[k]) = k
  BY WishTypes DEF IsInjective
<1>3. \A i \in Range(w.ins) : i \in Ids /\ note[i].state = "outstanding"
  BY WishTypes DEF CanSwap, Range
<1>4. \A k \in Minted(w) : w.outs[k] \in Ids /\ note[w.outs[k]].state = "absent"
  BY WishTypes DEF CanSwap, InUse
<1>5. \A i \in Ids : note[i] \in Rows BY DEF Types
<1>6. \A i \in Range(w.ins) :
        [note[i] EXCEPT !.state = "burned"] = [state |-> "burned", amount |-> note[i].amount]
  BY <1>3, <1>5 DEF Rows
<1>7. \A k \in Minted(w) : w.outs[k] \in minted OBVIOUS
<1>8. \A i \in minted : \E k \in Minted(w) : i = w.outs[k] OBVIOUS
<1> HIDE DEF Out, minted
<1>9. \A k \in Minted(w) : note'[w.outs[k]] = [state |-> "outstanding", amount |-> amounts[k]]
  <2> TAKE k \in Minted(w)
  <2>1. w.outs[k] \in Ids /\ w.outs[k] \in minted /\ w.outs[k] \notin Range(w.ins)
    BY <1>3, <1>4, <1>7
  <2>2. note'[w.outs[k]] = [state |-> "outstanding", amount |-> amounts[Out(w.outs[k])]]
    BY <1>1, <2>1
  <2> QED BY <1>2, <2>2
<1>10. \A i \in Range(w.ins) : note'[i] = [state |-> "burned", amount |-> note[i].amount]
  <2> TAKE i \in Range(w.ins)
  <2>1. i \in Ids /\ i \notin minted BY <1>3, <1>4, <1>8
  <2>2. note'[i] = [note[i] EXCEPT !.state = "burned"] BY <1>1, <2>1
  <2> QED BY <1>6, <2>2
<1>11. \A i \in Ids : (\A k \in Minted(w) : w.outs[k] # i) /\ i \notin Range(w.ins)
                        => note'[i] = note[i]
  BY <1>1, <1>8
<1>12. Swapped(w, amounts) BY <1>3, <1>4, <1>9, <1>10, <1>11 DEF Swapped
<1>13. \A k \in Minted(w) : amounts[k] \in Nat \ {0} OBVIOUS
<1>14. ASSUME NEW i \in Ids
       PROVE  note'[i] \in Rows /\ (note'[i].state # "absent" => note'[i].amount > 0)
  <2>1. CASE i \in minted
    <3>1. PICK k \in Minted(w) : i = w.outs[k] BY <1>8, <2>1
    <3>2. note'[i] = [state |-> "outstanding", amount |-> amounts[k]] /\ amounts[k] \in Nat \ {0}
      BY <1>9, <1>13, <3>1
    <3> QED BY <3>2 DEF Rows
  <2>2. CASE i \in Range(w.ins)
    <3>1. note[i].amount \in Nat /\ note[i].amount > 0 BY <1>3, <2>2 DEF Types, Rows
    <3>2. note'[i] = [state |-> "burned", amount |-> note[i].amount] BY <1>10, <2>2
    <3> QED BY <3>1, <3>2 DEF Rows
  <2>3. CASE i \notin minted /\ i \notin Range(w.ins)
    <3>1. note'[i] = note[i] BY <1>7, <1>11, <2>3
    <3> QED BY <3>1 DEF Types
  <2> QED BY <2>1, <2>2, <2>3
<1>15. note' \in [Ids -> Rows] BY <1>1, <1>14
<1> QED BY <1>12, <1>14, <1>15

-----------------------------------------------------------------------------
(* What requests know.                                                     *)

\* A note once there keeps its amount, and once burned is burned for good.
Steady ==
  \A i \in Ids : note[i].state # "absent" =>
    /\ note'[i].state # "absent" /\ note'[i].amount = note[i].amount
    /\ note[i].state = "burned" => note'[i].state = "burned"

LEMMA PresentStays ==
  ASSUME Steady, NEW i, Present(i)
  PROVE  Present(i)' /\ note'[i].amount = note[i].amount
  BY DEF Steady, Present

LEMMA OthersKnow ==
  ASSUME NEW a \in Attempts, Knows(a), Steady, att'[a] = att[a]
  PROVE  Knows(a)'
<1>1. ASSUME att[a].pc = "opening", NEW k \in 1..Len(att[a].seen)
      PROVE  /\ Present(att[a].wish.ins[k])'
             /\ att[a].seen[k].amount = note'[att[a].wish.ins[k]].amount
  BY <1>1, PresentStays DEF Knows
<1>2. ASSUME att[a].reply = "ok", NEW k \in DOMAIN att[a].paid
      PROVE  /\ Present(att[a].wish.outs[k])'
             /\ note'[att[a].wish.outs[k]].amount = att[a].paid[k]
  BY <1>2, PresentStays DEF Knows
<1> QED BY <1>1, <1>2 DEF Knows, Present

\* What one request's step does to the requests.
Answers(a) == /\ att' \in [Attempts -> AttStates]
              /\ \A b \in Attempts : b # a => att'[b] = att[b]
              /\ Knows(a)'

LEMMA Updated ==
  ASSUME Types, NEW a \in Attempts, NEW q \in AttStates, att' = [att EXCEPT ![a] = q]
  PROVE  /\ att' \in [Attempts -> AttStates] /\ att'[a] = q
         /\ \A b \in Attempts : b # a => att'[b] = att[b]
  BY DEF Types

LEMMA EmptySeen == \A S : << >> \in Seq(S)
  OBVIOUS

LEMMA RepliedRecord ==
  ASSUME NEW P, NEW W, NEW S, NEW M, NEW R,
         NEW q \in [pc : P, wish : W, seen : S, paid : M, reply : R],
         NEW p \in P, NEW s \in S, NEW r \in R, NEW m \in M
  PROVE  [q EXCEPT !.pc = p, !.seen = s, !.reply = r, !.paid = m]
           \in [pc : P, wish : W, seen : S, paid : M, reply : R]
  OBVIOUS

LEMMA Replied ==
  ASSUME Types, NEW a \in Attempts, att[a].pc = "opening", Knows(a),
         NEW r \in {"ok", "invalid", "in use", "pending", "insufficient"},
         NEW amounts \in Seq(Nat), Reply(a, r, amounts),
         r = "ok" => \A k \in DOMAIN amounts :
                       /\ k \in DOMAIN att[a].wish.outs
                       /\ att[a].wish.outs[k] \in Ids
                       /\ note'[att[a].wish.outs[k]].state # "absent"
                       /\ note'[att[a].wish.outs[k]].amount = amounts[k]
  PROVE  Answers(a) /\ att'[a].pc = "done" /\ att'[a].reply = r
<1> DEFINE q == [att[a] EXCEPT !.pc = "done", !.seen = << >>, !.reply = r, !.paid = amounts]
<1>1. att[a] \in AttStates /\ att[a].wish \in Wishes BY DEF Types, Knows
<1>2. /\ q.pc = "done" /\ q.seen = << >> /\ q.reply = r /\ q.paid = amounts
      /\ q.wish = att[a].wish
  BY <1>1 DEF AttStates
<1>3. q \in AttStates
  <2>1. << >> \in Seq(Rows) BY EmptySeen
  <2>2. "done" \in {"idle", "opening", "done", "lost"} OBVIOUS
  <2>3. r \in {"none", "ok", "invalid", "in use", "pending", "insufficient"} OBVIOUS
  <2> QED BY ONLY <1>1, <2>1, <2>2, <2>3, amounts \in Seq(Nat), RepliedRecord DEF AttStates
<1>4. att' = [att EXCEPT ![a] = q] BY DEF Reply, Types
<1> HIDE DEF q
<1>5. /\ att' \in [Attempts -> AttStates] /\ att'[a] = q
      /\ \A b \in Attempts : b # a => att'[b] = att[b]
  BY <1>3, <1>4, Updated
<1>6. Knows(a)' BY <1>1, <1>2, <1>5 DEF Knows, Present
<1> QED BY <1>2, <1>5, <1>6 DEF Answers

LEMMA ArriveAnswers ==
  ASSUME Types, NEW a \in Attempts, Knows(a), NEW w \in Wishes, Arrive(a, w)
  PROVE  Answers(a)
<1> DEFINE q == [att[a] EXCEPT !.pc = "opening", !.wish = w]
<1>1. att[a] \in AttStates BY DEF Types
<1>2. /\ q.pc = "opening" /\ q.wish = w /\ q.seen = att[a].seen /\ q.reply = att[a].reply
  BY <1>1 DEF AttStates
<1>3. q \in AttStates BY <1>1 DEF AttStates
<1>4. att' = [att EXCEPT ![a] = q] BY DEF Arrive, Types
<1> HIDE DEF q
<1>5. /\ att' \in [Attempts -> AttStates] /\ att'[a] = q
      /\ \A b \in Attempts : b # a => att'[b] = att[b]
  BY <1>3, <1>4, Updated
<1>6. att[a].reply # "ok" /\ att[a].seen = << >> BY DEF Arrive, Knows
<1>8. Len(<< >>) = 0 /\ Len(w.ins) \in Nat /\ 1..0 = {} BY WishTypes
<1>7. Knows(a)' BY <1>8, <1>1, <1>2, <1>5, <1>6 DEF Knows
<1> QED BY <1>5, <1>7 DEF Answers

LEMMA OpenNextAnswers ==
  ASSUME Types, NEW a \in Attempts, Knows(a), OpenNext(a)
  PROVE  Answers(a)
<1> DEFINE n == Len(att[a].seen)
           i == att[a].wish.ins[n + 1]
<1>1. att[a] \in AttStates /\ att[a].wish \in Wishes /\ att[a].pc = "opening" /\ note' = note
  BY DEF Types, Knows, OpenNext
<1>7. att[a].seen \in Seq(Rows) /\ n < Len(att[a].wish.ins)
  BY <1>1 DEF AttStates, OpenNext
<1>2. n \in Nat /\ n < Len(att[a].wish.ins) /\ n + 1 \in 1..Len(att[a].wish.ins)
  <2>1. n \in Nat BY <1>7
  <2>2. Len(att[a].wish.ins) \in Nat BY <1>1, WishTypes
  <2> QED BY <1>7, <2>1, <2>2
<1>3. i \in Ids
  <2> HIDE DEF n
  <2> QED BY <1>1, <1>2, WishTypes
<1>4. note[i] \in Rows BY <1>3 DEF Types
<1>5. CASE note[i].state = "absent"
  <2>1. Reply(a, "invalid", << >>) BY <1>5 DEF OpenNext
  <2>2. << >> \in Seq(Nat) BY EmptySeen
  <2> QED BY <1>1, <2>1, <2>2, Replied
<1>6. CASE note[i].state # "absent"
  <2> DEFINE more == Append(att[a].seen, note[i])
             q == [att[a] EXCEPT !.seen = more]
  <2>1. att' = [att EXCEPT ![a] = q]
    <3>1. att' = [att EXCEPT ![a].seen = more] BY <1>6 DEF OpenNext
    <3> QED BY <3>1 DEF Types
  <2>2. more \in Seq(Rows) /\ Len(more) = n + 1
    BY ONLY <1>4, <1>7
  <2>3. /\ \A k \in 1..n : more[k] = att[a].seen[k]
        /\ more[n + 1] = note[i]
    BY ONLY <1>4, <1>7
  <2> HIDE DEF more
  <2>4. /\ q \in AttStates /\ q.pc = att[a].pc /\ q.wish = att[a].wish
        /\ q.seen = more /\ q.reply = att[a].reply
    BY <1>1, <2>2 DEF AttStates
  <2> HIDE DEF q
  <2>5. /\ att' \in [Attempts -> AttStates] /\ att'[a] = q
        /\ \A b \in Attempts : b # a => att'[b] = att[b]
    BY <2>1, <2>4, Updated
  <2>6. ASSUME NEW k \in 1..(n + 1)
        PROVE  Present(att[a].wish.ins[k]) /\ more[k].amount = note[att[a].wish.ins[k]].amount
    <3>1. CASE k = n + 1 BY <1>3, <1>6, <2>3, <3>1 DEF Present
    <3>2. CASE k # n + 1
      <4>1. k \in 1..n BY <1>2, <3>2
      <4> QED BY <1>1, <2>3, <4>1 DEF Knows
    <3> QED BY <3>1, <3>2
  <2>7. att[a].reply # "ok" BY <1>1 DEF Knows
  <2> HIDE DEF n, i
  <2>8. Knows(a)'
    <3>1. n + 1 <= Len(att[a].wish.ins) BY <1>1, <1>2, WishTypes
    <3> QED BY <1>1, <2>2, <2>4, <2>5, <2>6, <2>7, <3>1 DEF Knows, Present
  <2> QED BY <2>5, <2>8 DEF Answers
<1> QED BY <1>5, <1>6

LEMMA ReplayAnswers ==
  ASSUME Types, Carried, NEW a \in Attempts, Knows(a), Replay(a)
  PROVE  Answers(a)
<1>1. att[a].pc = "opening" /\ note' = note BY DEF Replay, AllOpen
<1>2. PICK s \in Replays(att[a].wish) : Reply(a, "ok", s.amounts) BY DEF Replay
<1>3. s \in swaps /\ s.fingerprint.outs = att[a].wish.outs
  BY DEF Replays, Fingerprint
<1>4. s.amounts \in Seq(Nat)
  <2>1. s.amounts \in Seq(Nat \ {0}) BY <1>3 DEF Carried
  <2> QED BY <2>1
<1>5. \A k \in DOMAIN s.amounts : /\ k \in DOMAIN att[a].wish.outs
                                  /\ att[a].wish.outs[k] \in Ids
                                  /\ note'[att[a].wish.outs[k]].state # "absent"
                                  /\ note'[att[a].wish.outs[k]].amount = s.amounts[k]
  <2>1. \A k \in DOMAIN s.amounts : /\ k \in DOMAIN s.fingerprint.outs
                                    /\ Present(s.fingerprint.outs[k])
                                    /\ note[s.fingerprint.outs[k]].amount = s.amounts[k]
    BY <1>3 DEF Carried
  <2> TAKE k \in DOMAIN s.amounts
  <2>2. k \in DOMAIN att[a].wish.outs /\ s.fingerprint.outs[k] = att[a].wish.outs[k]
    BY <1>3, <2>1
  <2>3. Present(att[a].wish.outs[k]) /\ note[att[a].wish.outs[k]].amount = s.amounts[k]
    BY <2>1, <2>2
  <2> QED BY <1>1, <2>2, <2>3 DEF Present
<1> QED BY <1>1, <1>2, <1>4, <1>5, Replied

Refuses(a) ==
  \/ RefuseDuplicate(a) \/ RefuseInputs(a) \/ RefuseAmount(a) \/ RefuseSwap(a) \/ SwapThrows(a)

LEMMA RefusedIsNotOk ==
  ASSUME NEW a \in Attempts, Refuses(a)
  PROVE  /\ att[a].pc = "opening" /\ UNCHANGED <<note, swaps, held, melted, crashes>>
         /\ \E r \in {"invalid", "in use", "pending", "insufficient"} : Reply(a, r, << >>)
<1>1. CASE RefuseDuplicate(a) BY <1>1 DEF RefuseDuplicate, AllOpen
<1>2. CASE RefuseInputs(a) BY <1>2 DEF RefuseInputs, New, AllOpen
<1>3. CASE RefuseAmount(a) BY <1>3 DEF RefuseAmount, New, AllOpen
<1>4. CASE RefuseSwap(a)
  <2>1. SwapRefusal(att[a].wish) \in {"in use", "pending", "invalid"} BY DEF SwapRefusal
  <2> QED BY <1>4, <2>1 DEF RefuseSwap, New, AllOpen
<1>5. CASE SwapThrows(a) BY <1>5 DEF SwapThrows, New, AllOpen
<1> QED BY <1>1, <1>2, <1>3, <1>4, <1>5 DEF Refuses

LEMMA RefuseAnswers ==
  ASSUME Types, NEW a \in Attempts, Knows(a), Refuses(a)
  PROVE  Answers(a)
<1>1. PICK r \in {"invalid", "in use", "pending", "insufficient"} : Reply(a, r, << >>)
  BY RefusedIsNotOk
<1>2. att[a].pc = "opening" /\ << >> \in Seq(Nat) BY RefusedIsNotOk, EmptySeen
<1>3. r # "ok" OBVIOUS
<1> QED BY <1>1, <1>2, <1>3, Replied

-----------------------------------------------------------------------------
(* The swap itself.                                                        *)

\* What a live note ties up: its value, and the fee of its one payment.
Weight == [i \in Ids |-> note[i].amount + BaseFee]

\* What a request adds up is what its notes tie up, but for the fees.
LEMMA TotalIsRead ==
  ASSUME Types, NEW a \in Attempts, Knows(a), AllOpen(a), IsInjective(att[a].wish.ins)
  PROVE  /\ att[a].wish \in Wishes
         /\ Total(att[a].seen) \in Nat \ {0}
         /\ Summable(Weight, Range(att[a].wish.ins))
         /\ SumFunctionOnSet(Weight, Range(att[a].wish.ins)) =
              Total(att[a].seen) + Len(att[a].wish.ins) * BaseFee
<1> DEFINE w == att[a].wish.ins
           n == Len(w)
           seen == att[a].seen
           g == [k \in DOMAIN seen |-> seen[k].amount]
<1>1. att[a].wish \in Wishes /\ seen \in Seq(Rows) /\ BaseFee \in Nat
  BY SwapsAssumption DEF Types, Knows, AllOpen, AttStates
<1>2. n \in Nat \ {0} /\ DOMAIN w = 1..n /\ DOMAIN seen = 1..n
  BY <1>1, WishTypes DEF AllOpen
<1>3. \A k \in 1..n : w[k] \in Ids /\ note[w[k]].amount > 0 /\ seen[k].amount = note[w[k]].amount
  BY <1>1, <1>2 DEF Knows, AllOpen, Present, Types
<1>4. \A k \in 1..n : g[k] \in Nat \ {0} /\ Weight[w[k]] = g[k] + BaseFee
  <2> TAKE k \in 1..n
  <2>1. note[w[k]].amount \in Nat \ {0} BY <1>3 DEF Types, Rows
  <2> QED BY <1>2, <1>3, <2>1 DEF Weight
<1>5. \A j, k \in 1..n : w[j] = w[k] => j = k BY <1>2 DEF IsInjective
<1>6. Range(w) = {w[k] : k \in 1..n} BY <1>2 DEF Range
<1>7. Total(seen) = SumFunctionOnSet(g, 1..n) BY <1>2 DEF Total
<1> HIDE DEF w, g
<1>10. PICK m, all, some : m = n /\ all = 1..n /\ some = {w[k] : k \in 1..n} OBVIOUS
<1>8. /\ Summable(g, all) /\ Summable(Weight, some)
      /\ SumFunctionOnSet(Weight, some) = SumFunctionOnSet(g, all) + n * BaseFee
  <2>1. \A k \in 1..n : g[k] \in Nat /\ Weight[w[k]] = g[k] + BaseFee BY <1>4
  <2>2. n \in Nat /\ BaseFee \in Nat BY <1>1, <1>2
  <2> HIDE DEF n
  <2>3. /\ Summable(g, 1..n) /\ Summable(Weight, Listed(w, n))
        /\ SumFunctionOnSet(Weight, Listed(w, n)) = SumFunctionOnSet(g, 1..n) + n * BaseFee
    <3>1. Lists(w, n, Weight, g, BaseFee) BY ONLY <1>5, <2>1, <2>2 DEF Lists
    <3> QED BY ONLY <3>1, SumListed
  <2> QED BY <1>10, <2>3 DEF Listed
<1>9. SumFunctionOnSet(g, all) \in Nat \ {0}
  <2>1. 1 \in all /\ g[1] \in Nat \ {0} BY <1>2, <1>4, <1>10
  <2>2. /\ SumFunctionOnSet(g, all \ {1}) \in Nat
        /\ SumFunctionOnSet(g, all) = g[1] + SumFunctionOnSet(g, all \ {1})
    BY ONLY <1>8, <2>1, SumWithout
  <2> QED BY <2>1, <2>2
<1>11. Range(w) = some /\ Total(seen) = SumFunctionOnSet(g, all) BY <1>6, <1>7, <1>10
<1>12. SumFunctionOnSet(Weight, Range(w)) = Total(seen) + n * BaseFee
  BY <1>8, <1>11
<1> QED BY <1>1, <1>8, <1>9, <1>11, <1>12 DEF w, g

\* A committed swap, without the handler around it: what it mints and burns,
\* and that what it mints ties up no more than what it burns did.
LEMMA CommitSwaps ==
  ASSUME Types, NEW a \in Attempts, Knows(a), Commit(a)
  PROVE  \E w \in Wishes, amounts \in Seq(Nat \ {0}) :
           /\ w = att[a].wish /\ Reply(a, "ok", amounts) /\ IsInjective(w.ins)
           /\ att[a].pc = "opening" /\ DOMAIN amounts = Minted(w)
           /\ note' \in [Ids -> Rows] /\ Swapped(w, amounts)
           /\ \A i \in Ids : note'[i].state # "absent" => note'[i].amount > 0
           /\ swaps' = swaps \union {[fingerprint |-> Fingerprint(w), amounts |-> amounts]}
           /\ UNCHANGED <<held, melted, crashes>>
           /\ Summable(Weight, Range(w.ins))
           /\ IF IsSplit(w)
                THEN amounts[1] + amounts[2] + 2 * BaseFee <= SumFunctionOnSet(Weight, Range(w.ins))
                ELSE amounts[1] + BaseFee <= SumFunctionOnSet(Weight, Range(w.ins))
<1> DEFINE w == att[a].wish
           total == Total(att[a].seen)
           amounts == Payout(w, total)
           fees == Len(w.ins) * BaseFee
<1>1. /\ AllOpen(a) /\ IsInjective(w.ins) /\ Affordable(w, total) /\ CanSwap(w)
      /\ Swap(w, amounts) /\ Reply(a, "ok", amounts) /\ UNCHANGED <<held, melted, crashes>>
  BY DEF Commit, New
<1>2. /\ w \in Wishes /\ total \in Nat \ {0} /\ Summable(Weight, Range(w.ins))
      /\ SumFunctionOnSet(Weight, Range(w.ins)) = total + fees
  BY <1>1, TotalIsRead
<1>3. att[a].pc = "opening" BY <1>1 DEF AllOpen
<1>4. fees \in Nat /\ BaseFee <= fees /\ BaseFee \in Nat
  <2>1. PICK n \in Nat : Len(w.ins) = n + 1
    <3>1. Len(w.ins) \in Nat \ {0} BY <1>2, WishTypes
    <3> HIDE DEF w
    <3>2. Len(w.ins) - 1 \in Nat /\ Len(w.ins) = (Len(w.ins) - 1) + 1 BY <3>1
    <3> QED BY <3>2
  <2>2. BaseFee \in Nat BY SwapsAssumption
  <2>3. n * BaseFee \in Nat /\ (n + 1) * BaseFee = n * BaseFee + BaseFee BY ONLY n \in Nat, <2>2
  <2> QED BY <2>1, <2>2, <2>3
<1> HIDE DEF w, total, fees
<1>5. /\ amounts \in Seq(Nat \ {0}) /\ DOMAIN amounts = Minted(w)
      /\ IF IsSplit(w) THEN amounts[1] + amounts[2] + BaseFee = total
                       ELSE amounts[1] + BaseFee = total + fees
  BY <1>1, <1>2, PayoutFacts DEF fees
<1> HIDE DEF amounts
<1>6. /\ note' \in [Ids -> Rows] /\ Swapped(w, amounts)
      /\ \A i \in Ids : note'[i].state # "absent" => note'[i].amount > 0
  BY <1>1, <1>2, <1>5, SwapSwaps
<1>7. swaps' = swaps \union {[fingerprint |-> Fingerprint(w), amounts |-> amounts]}
  BY <1>1 DEF Swap
<1>8. IF IsSplit(w)
        THEN amounts[1] + amounts[2] + 2 * BaseFee <= SumFunctionOnSet(Weight, Range(w.ins))
        ELSE amounts[1] + BaseFee <= SumFunctionOnSet(Weight, Range(w.ins))
  <2>1. CASE IsSplit(w)
    <3>2. 1 \in DOMAIN amounts /\ 2 \in DOMAIN amounts /\ amounts \in Seq(Nat \ {0})
      BY <1>5, <2>1 DEF Minted
    <3>1. amounts[1] \in Nat /\ amounts[2] \in Nat BY ONLY <3>2
    <3> QED BY <1>2, <1>4, <1>5, <2>1, <3>1
  <2>2. CASE ~IsSplit(w)
    <3>2. 1 \in DOMAIN amounts /\ amounts \in Seq(Nat \ {0}) BY <1>5, <2>2 DEF Minted
    <3>1. amounts[1] \in Nat BY ONLY <3>2
    <3> QED BY <1>2, <1>4, <1>5, <2>2, <3>1
  <2> QED BY <2>1, <2>2
<1>9. w = att[a].wish BY DEF w
<1> QED BY <1>1, <1>2, <1>3, <1>5, <1>6, <1>7, <1>8, <1>9

LEMMA SwappedIsSteady ==
  ASSUME Types, NEW w \in Wishes, NEW amounts, Swapped(w, amounts)
  PROVE  Steady
<1> SUFFICES ASSUME NEW i \in Ids, note[i].state # "absent"
             PROVE  /\ note'[i].state # "absent" /\ note'[i].amount = note[i].amount
                    /\ note[i].state = "burned" => note'[i].state = "burned"
  BY DEF Steady
<1>1. /\ \A k \in Minted(w) : note[w.outs[k]].state = "absent"
      /\ \A j \in Range(w.ins) : /\ note[j].state = "outstanding"
                                 /\ note'[j] = [state |-> "burned", amount |-> note[j].amount]
  BY DEF Swapped
<1>2. CASE i \in Range(w.ins)
  <2>1. note'[i] = [state |-> "burned", amount |-> note[i].amount] BY <1>1, <1>2
  <2> QED BY <2>1
<1>3. CASE i \notin Range(w.ins)
  <2>1. \A k \in Minted(w) : w.outs[k] # i BY <1>1
  <2>2. note'[i] = note[i] BY <1>3, <2>1 DEF Swapped
  <2> QED BY <2>2
<1> QED BY <1>2, <1>3

LEMMA CommitAnswers ==
  ASSUME Types, NEW a \in Attempts, Knows(a), Commit(a)
  PROVE  Answers(a)
<1>1. PICK w \in Wishes, amounts \in Seq(Nat \ {0}) :
        /\ w = att[a].wish /\ Reply(a, "ok", amounts) /\ att[a].pc = "opening"
        /\ DOMAIN amounts = Minted(w) /\ Swapped(w, amounts)
  BY CommitSwaps
<1>2. amounts \in Seq(Nat) OBVIOUS
<1>3. \A k \in DOMAIN amounts : /\ k \in DOMAIN att[a].wish.outs
                                /\ att[a].wish.outs[k] \in Ids
                                /\ note'[att[a].wish.outs[k]].state # "absent"
                                /\ note'[att[a].wish.outs[k]].amount = amounts[k]
  <2> TAKE k \in DOMAIN amounts
  <2>1. k \in DOMAIN w.outs /\ w.outs[k] \in Ids BY <1>1, WishTypes
  <2>2. \A j \in Minted(w) : note'[w.outs[j]] = [state |-> "outstanding", amount |-> amounts[j]]
    BY <1>1 DEF Swapped
  <2>3. note'[w.outs[k]].state = "outstanding" /\ note'[w.outs[k]].amount = amounts[k]
    <3>1. note'[w.outs[k]] = [state |-> "outstanding", amount |-> amounts[k]] BY <1>1, <2>2
    <3> QED BY <3>1
  <2> QED BY <1>1, <2>1, <2>3
<1> QED BY <1>1, <1>2, <1>3, Replied

-----------------------------------------------------------------------------
(* The invariant, step by step.                                            *)

\* What a swap writes to the notes and the swaps table.
Writes(w, amounts) ==
  /\ w \in Wishes /\ IsInjective(w.ins)
  /\ amounts \in Seq(Nat \ {0}) /\ DOMAIN amounts = Minted(w)
  /\ note' \in [Ids -> Rows] /\ Swapped(w, amounts)
  /\ swaps' = swaps \union {[fingerprint |-> Fingerprint(w), amounts |-> amounts]}
  /\ melted' = melted

\* What a melt's step writes: to one note, which was not burned.
Melts(i, s) ==
  /\ i \in Ids /\ note[i].state \in {"outstanding", "pending"}
  /\ s \in {"outstanding", "pending", "burned"}
  /\ note' \in [Ids -> Rows]
  /\ note'[i].state = s /\ note'[i].amount = note[i].amount
  /\ \A j \in Ids : j # i => note'[j] = note[j]
  /\ UNCHANGED <<swaps, att, crashes>>
  /\ IF s = "burned" THEN /\ melted' = melted \union {i}
                          /\ held' = held - (note[i].amount + BaseFee)
                     ELSE UNCHANGED <<held, melted>>

LEMMA MeltMelts ==
  ASSUME Types, NEW i \in Ids, MeltStep(i)
  PROVE  \E s \in {"outstanding", "pending", "burned"} : Melts(i, s)
<1>1. note[i] \in Rows BY DEF Types
<1>2. ASSUME NEW s \in {"outstanding", "pending", "burned"},
             note' = [note EXCEPT ![i].state = s]
      PROVE  /\ note' \in [Ids -> Rows] /\ note'[i].state = s
             /\ note'[i].amount = note[i].amount
             /\ \A j \in Ids : j # i => note'[j] = note[j]
  BY <1>1, <1>2 DEF Types, Rows
<1>3. CASE MeltTakes(i) BY <1>2, <1>3 DEF MeltTakes, Melts
<1>4. CASE MeltRestores(i) BY <1>2, <1>4 DEF MeltRestores, Melts
<1>5. CASE MeltPays(i) BY <1>2, <1>5 DEF MeltPays, Melts
<1> QED BY <1>3, <1>4, <1>5 DEF MeltStep

LEMMA MeltIsSteady ==
  ASSUME NEW i, NEW s, Melts(i, s)
  PROVE  Steady
  BY DEF Melts, Steady

LEMMA CarriedStays ==
  ASSUME Carried, Steady, swaps' = swaps
  PROVE  Carried'
<1> SUFFICES ASSUME NEW s \in swaps
             PROVE  \A k \in DOMAIN s.amounts :
                      /\ Present(s.fingerprint.outs[k])'
                      /\ note'[s.fingerprint.outs[k]].amount = s.amounts[k]
  BY DEF Carried
<1>1. \A k \in DOMAIN s.amounts : /\ Present(s.fingerprint.outs[k])
                                  /\ note[s.fingerprint.outs[k]].amount = s.amounts[k]
  BY DEF Carried
<1> QED BY <1>1, PresentStays

LEMMA CarriedGrows ==
  ASSUME Types, Carried, NEW w, NEW amounts, Writes(w, amounts)
  PROVE  Carried'
<1>1. /\ w \in Wishes /\ IsInjective(w.ins) /\ amounts \in Seq(Nat \ {0})
      /\ DOMAIN amounts = Minted(w) /\ Swapped(w, amounts)
  BY DEF Writes
<1>2. Steady BY <1>1, SwappedIsSteady
<1> DEFINE new == [fingerprint |-> Fingerprint(w), amounts |-> amounts]
           Good(s) == /\ \E v \in Wishes : s.fingerprint = Fingerprint(v) /\ IsInjective(v.ins)
                      /\ s.amounts \in Seq(Nat \ {0})
                      /\ \A k \in DOMAIN s.amounts :
                           /\ k \in DOMAIN s.fingerprint.outs
                           /\ Present(s.fingerprint.outs[k])'
                           /\ note'[s.fingerprint.outs[k]].amount = s.amounts[k]
<1>3. ASSUME NEW s \in swaps PROVE Good(s)
  <2>1. \A k \in DOMAIN s.amounts : /\ Present(s.fingerprint.outs[k])
                                    /\ note[s.fingerprint.outs[k]].amount = s.amounts[k]
    BY DEF Carried
  <2>2. \A k \in DOMAIN s.amounts : /\ Present(s.fingerprint.outs[k])'
                                    /\ note'[s.fingerprint.outs[k]].amount = s.amounts[k]
    BY <1>2, <2>1, PresentStays
  <2> QED BY <2>2 DEF Carried
<1>4. Good(new)
  <2>1. /\ new.fingerprint = Fingerprint(w) /\ new.amounts = amounts
        /\ new.fingerprint.outs = w.outs
    BY DEF Fingerprint
  <2>2. ASSUME NEW k \in Minted(w)
        PROVE  /\ k \in DOMAIN w.outs /\ Present(w.outs[k])'
               /\ note'[w.outs[k]].amount = amounts[k]
    <3>1. k \in DOMAIN w.outs /\ w.outs[k] \in Ids BY <1>1, WishTypes
    <3>2. note'[w.outs[k]] = [state |-> "outstanding", amount |-> amounts[k]]
      BY <1>1 DEF Swapped
    <3> QED BY <3>1, <3>2 DEF Present
  <2> HIDE DEF new
  <2> QED BY <1>1, <2>1, <2>2
<1>5. \A s \in swaps' : s \in swaps \/ s = new BY DEF Writes
<1> HIDE DEF new, Good
<1>6. \A s \in swaps' : Good(s) BY <1>3, <1>4, <1>5
<1> QED BY <1>6 DEF Carried, Good

LEMMA SpentStays ==
  ASSUME Types, Spent, NEW i, NEW s, Melts(i, s)
  PROVE  Spent'
<1>1. \A t \in swaps : \A j \in t.fingerprint.ins : j # i /\ note'[j] = note[j]
  BY DEF Spent, Melts
<1>2. \A j \in melted' : note'[j].state = "burned"
  <2>1. \A j \in melted : j \in Ids /\ j # i /\ note[j].state = "burned"
    BY DEF Spent, Melts, Types
  <2> QED BY <2>1 DEF Melts
<1>3. \A t \in swaps : \A j \in t.fingerprint.ins : j \notin melted'
  BY <1>1 DEF Melts, Spent
<1> QED BY <1>1, <1>2, <1>3 DEF Spent, Melts

LEMMA SpentGrows ==
  ASSUME Types, Spent, NEW w, NEW amounts, Writes(w, amounts)
  PROVE  Spent'
<1> DEFINE new == [fingerprint |-> Fingerprint(w), amounts |-> amounts]
<1>1. w \in Wishes /\ Swapped(w, amounts) /\ melted' = melted BY DEF Writes
<1>2. Steady BY <1>1, SwappedIsSteady
<1>3. new.fingerprint.ins = Range(w.ins) BY DEF Fingerprint
<1>4. \A s \in swaps' : s \in swaps \/ s = new BY DEF Writes
<1>5. \A i \in Range(w.ins) : /\ i \in Ids /\ note[i].state = "outstanding"
                             /\ note'[i].state = "burned" /\ i \notin melted
  <2> TAKE i \in Range(w.ins)
  <2>1. i \in Ids BY <1>1, WishTypes
  <2>2. note[i].state = "outstanding" /\ note'[i] = [state |-> "burned", amount |-> note[i].amount]
    BY <1>1 DEF Swapped
  <2> QED BY <2>1, <2>2 DEF Spent
<1> HIDE DEF new
<1>6. \A s \in swaps : \A i \in s.fingerprint.ins :
        /\ i \in Ids /\ note'[i].state = "burned" /\ i \notin melted /\ i \notin Range(w.ins)
  <2> TAKE s \in swaps
  <2> TAKE i \in s.fingerprint.ins
  <2>1. i \in Ids /\ note[i].state = "burned" /\ i \notin melted BY DEF Spent
  <2> QED BY <1>2, <1>5, <2>1 DEF Steady
<1>7. \A i \in melted : note'[i].state = "burned"
  <2> TAKE i \in melted
  <2>1. i \in Ids /\ note[i].state = "burned" BY DEF Spent, Types
  <2> QED BY <1>2, <2>1 DEF Steady
<1>8. \A s \in swaps' : \A i \in s.fingerprint.ins :
        i \in Ids /\ note'[i].state = "burned" /\ i \notin melted
  BY <1>3, <1>4, <1>5, <1>6
<1>9. ASSUME NEW s \in swaps', NEW t \in swaps', s.fingerprint.ins \cap t.fingerprint.ins # {}
      PROVE  s = t
  <2>1. CASE s \in swaps /\ t \in swaps BY <1>9, <2>1 DEF Spent
  <2>2. CASE s = new /\ t = new BY <2>2
  <2>3. CASE s = new /\ t \in swaps BY <1>3, <1>6, <1>9, <2>3
  <2>4. CASE s \in swaps /\ t = new BY <1>3, <1>6, <1>9, <2>4
  <2> QED BY <1>4, <2>1, <2>2, <2>3, <2>4
<1> QED BY <1>1, <1>7, <1>8, <1>9 DEF Spent

-----------------------------------------------------------------------------
(* The money.                                                              *)

LEMMA WeightTypes ==
  ASSUME Types
  PROVE  \A i \in Ids : Weight[i] \in Nat /\ Weight[i] = note[i].amount + BaseFee
<1> SUFFICES ASSUME NEW i \in Ids PROVE note[i].amount + BaseFee \in Nat
  BY DEF Weight
<1>1. note[i].amount \in Nat /\ BaseFee \in Nat BY SwapsAssumption DEF Types, Rows
<1> QED BY <1>1

LEMMA LiveSummable ==
  ASSUME Types, Backed
  PROVE  /\ Summable(Weight, Live) /\ SumFunctionOnSet(Weight, Live) \in Nat
         /\ SumFunctionOnSet(Weight, Live) <= held /\ held \in Nat
<1>1. IsFiniteSet(Live) BY DEF Backed
<1>2. \A i \in Live : Weight[i] \in Nat BY WeightTypes DEF Live
<1>3. Summable(Weight, Live) BY <1>1, <1>2 DEF Summable
<1>4. SumFunctionOnSet(Weight, Live) \in Nat BY <1>3, SumStep
<1>5. SumFunctionOnSet(Weight, Live) <= held /\ held \in Nat
  BY DEF Backed, EveryNoteIsBacked, Weight
<1> QED BY <1>3, <1>4, <1>5

\* Backed, of the next state, from a sum of what its live notes tie up.
LEMMA BackedIf ==
  ASSUME Summable(Weight', Live'), held' \in Nat,
         SumFunctionOnSet(Weight', Live') <= held'
  PROVE  Backed'
  BY DEF Backed, EveryNoteIsBacked, Weight, Summable

LEMMA BackedStays ==
  ASSUME Types, Types', Backed, NEW i, NEW s, Melts(i, s)
  PROVE  Backed'
<1> DEFINE Sum(f, S) == SumFunctionOnSet(f, S)
<1>1. i \in Live /\ i \in Ids BY DEF Melts, Live
<1>2. \A j \in Ids : Weight'[j] = Weight[j]
  <2> SUFFICES ASSUME NEW j \in Ids PROVE note'[j].amount = note[j].amount
    BY DEF Weight
  <2> QED BY DEF Melts
<1>3. PICK f, g, L, M : f = Weight /\ g = Weight' /\ L = Live /\ M = Live' OBVIOUS
<1>4. /\ Summable(f, L) /\ Sum(f, L) \in Nat /\ Sum(f, L) <= held /\ held \in Nat
      /\ L \subseteq Ids /\ i \in L /\ \A j \in L : f[j] = g[j]
  BY <1>1, <1>2, <1>3, LiveSummable DEF Live
<1>5. Summable(g, L) /\ Sum(f, L) = Sum(g, L)
  BY ONLY <1>4, SumSame
<1>6. CASE s # "burned"
  <2>1. M = L /\ held' = held
    <3>1. \A j \in Ids : j \in L <=> j \in M
      <4> TAKE j \in Ids
      <4>1. CASE j = i BY <1>1, <1>3, <1>6, <4>1 DEF Melts, Live
      <4>2. CASE j # i
        <5>1. note'[j] = note[j] BY <4>2 DEF Melts
        <5> QED BY <1>3, <5>1 DEF Live
      <4> QED BY <4>1, <4>2
    <3> QED BY <1>3, <1>4, <1>6, <3>1 DEF Melts, Live
  <2> QED BY <1>3, <1>4, <1>5, <2>1, BackedIf
<1>7. CASE s = "burned"
  <2>1. M = L \ {i}
    <3>1. \A j \in Ids : j \in M <=> (j \in L /\ j # i)
      <4> TAKE j \in Ids
      <4>1. CASE j = i BY <1>3, <1>7, <4>1 DEF Melts, Live
      <4>2. CASE j # i
        <5>1. note'[j] = note[j] BY <4>2 DEF Melts
        <5> QED BY <1>3, <4>2, <5>1 DEF Live
      <4> QED BY <4>1, <4>2
    <3> QED BY <1>3, <1>4, <3>1 DEF Live
  <2>2. held' = held - g[i] /\ g[i] \in Nat
    <3>1. f[i] = note[i].amount + BaseFee /\ f[i] \in Nat BY <1>1, <1>3, WeightTypes
    <3> QED BY <1>4, <1>7, <3>1 DEF Melts
  <2>3. Summable(g, M) BY <1>5, <2>1, SummablePart
  <2>4. Sum(g, L) = g[i] + Sum(g, M) /\ Sum(g, M) \in Nat
    <3>1. /\ SumFunctionOnSet(g, L \ {i}) \in Nat
          /\ SumFunctionOnSet(g, L) = g[i] + SumFunctionOnSet(g, L \ {i})
      BY ONLY <1>4, <1>5, SumWithout
    <3> QED BY <2>1, <3>1
  <2>5. held' \in Nat /\ Sum(g, M) <= held'
    <3> HIDE DEF Sum
    <3> QED BY <1>4, <1>5, <2>2, <2>4
  <2> QED BY <1>3, <2>3, <2>5, BackedIf
<1> QED BY <1>6, <1>7

\* What a swap mints ties up no more than what it burns.
Covers(w, amounts) ==
  /\ Summable(Weight, Range(w.ins))
  /\ IF IsSplit(w)
       THEN amounts[1] + amounts[2] + 2 * BaseFee <= SumFunctionOnSet(Weight, Range(w.ins))
       ELSE amounts[1] + BaseFee <= SumFunctionOnSet(Weight, Range(w.ins))

\* The outputs a wish mints at.
Minting(w) == {w.outs[k] : k \in Minted(w)}

LEMMA MintedWeigh ==
  ASSUME Types', NEW w, NEW amounts, Writes(w, amounts), Covers(w, amounts)
  PROVE  /\ Summable(Weight', Minting(w))
         /\ SumFunctionOnSet(Weight', Minting(w)) <= SumFunctionOnSet(Weight, Range(w.ins))
<1>1. /\ w \in Wishes /\ amounts \in Seq(Nat \ {0}) /\ DOMAIN amounts = Minted(w)
      /\ Swapped(w, amounts) /\ BaseFee \in Nat
  BY SwapsAssumption DEF Writes
<1>2. PICK f : f = Weight' OBVIOUS
<1>3. \A k \in Minted(w) : f[w.outs[k]] = amounts[k] + BaseFee /\ amounts[k] \in Nat
  <2> TAKE k \in Minted(w)
  <2>1. w.outs[k] \in Ids BY <1>1, WishTypes
  <2>2. note'[w.outs[k]] = [state |-> "outstanding", amount |-> amounts[k]]
    BY <1>1 DEF Swapped
  <2>3. note'[w.outs[k]].amount = amounts[k] BY <2>2
  <2>4. f[w.outs[k]] = note'[w.outs[k]].amount + BaseFee BY <1>2, <2>1 DEF Weight
  <2>5. amounts[k] \in Nat
    <3>1. k \in DOMAIN amounts /\ amounts \in Seq(Nat \ {0}) BY <1>1
    <3> QED BY ONLY <3>1
  <2> QED BY <2>3, <2>4, <2>5
<1>4. CASE IsSplit(w)
  <2>1. PICK x, y : x = w.outs[1] /\ y = w.outs[2] OBVIOUS
  <2>2. Minting(w) = {x, y} /\ 1 \in Minted(w) /\ 2 \in Minted(w)
    BY <1>4, <2>1 DEF Minting, Minted
  <2>3. x # y BY <1>1, <2>1, <2>2, WishTypes DEF IsInjective
  <2>4. f[x] = amounts[1] + BaseFee /\ f[y] = amounts[2] + BaseFee
        /\ amounts[1] \in Nat /\ amounts[2] \in Nat
    BY <1>3, <2>1, <2>2
  <2>5. f[x] \in Nat /\ f[y] \in Nat BY <1>1, <2>4
  <2>6. Summable(f, {x, y}) /\ SumFunctionOnSet(f, {x, y}) = f[x] + f[y]
    BY ONLY <2>3, <2>5, SumOfTwo
  <2>7. f[x] + f[y] = amounts[1] + amounts[2] + 2 * BaseFee BY ONLY <1>1, <2>4
  <2> QED BY <1>2, <1>4, <2>2, <2>6, <2>7 DEF Covers
<1>5. CASE ~IsSplit(w)
  <2>1. PICK x : x = w.outs[1] OBVIOUS
  <2>2. Minting(w) = {x} /\ 1 \in Minted(w) BY <1>5, <2>1 DEF Minting, Minted
  <2>3. f[x] = amounts[1] + BaseFee /\ f[x] \in Nat BY <1>1, <1>3, <2>1, <2>2
  <2>4. Summable(f, {x}) /\ SumFunctionOnSet(f, {x}) = f[x] BY ONLY <2>3, SumOfOne
  <2> QED BY <1>2, <1>5, <2>2, <2>3, <2>4 DEF Covers
<1> QED BY <1>4, <1>5

LEMMA LiveAfterSwap ==
  ASSUME Types, NEW w, NEW amounts, Writes(w, amounts)
  PROVE  /\ Range(w.ins) \subseteq Live /\ Minting(w) \subseteq Live'
         /\ Live' \ Minting(w) = Live \ Range(w.ins)
         /\ \A i \in Live \ Range(w.ins) : Weight'[i] = Weight[i]
<1>1. w \in Wishes /\ Swapped(w, amounts) BY DEF Writes
<1>2. \A i \in Range(w.ins) : /\ i \in Ids /\ note[i].state = "outstanding"
                             /\ note'[i].state = "burned"
  <2> TAKE i \in Range(w.ins)
  <2>1. i \in Ids BY <1>1, WishTypes
  <2>2. note[i].state = "outstanding" /\ note'[i] = [state |-> "burned", amount |-> note[i].amount]
    BY <1>1 DEF Swapped
  <2> QED BY <2>1, <2>2
<1>3. \A i \in Minting(w) : /\ i \in Ids /\ note[i].state = "absent"
                           /\ note'[i].state = "outstanding"
  <2> TAKE i \in Minting(w)
  <2>1. PICK k \in Minted(w) : i = w.outs[k] BY DEF Minting
  <2>2. i \in Ids BY <1>1, <2>1, WishTypes
  <2>3. note[i].state = "absent" /\ note'[i] = [state |-> "outstanding", amount |-> amounts[k]]
    BY <1>1, <2>1 DEF Swapped
  <2> QED BY <2>2, <2>3
<1>4. \A i \in Ids : i \notin Minting(w) /\ i \notin Range(w.ins) => note'[i] = note[i]
  BY <1>1 DEF Swapped, Minting
<1>5. Range(w.ins) \subseteq Live BY <1>2 DEF Live
<1>6. Minting(w) \subseteq Live' BY <1>3 DEF Live
<1>7. \A i \in Ids : (i \in Live' /\ i \notin Minting(w)) <=> (i \in Live /\ i \notin Range(w.ins))
  <2> TAKE i \in Ids
  <2>1. CASE i \in Minting(w) BY <1>3, <2>1 DEF Live
  <2>2. CASE i \in Range(w.ins) BY <1>2, <2>2 DEF Live
  <2>3. CASE i \notin Minting(w) /\ i \notin Range(w.ins) BY <1>4, <2>3 DEF Live
  <2> QED BY <2>1, <2>2, <2>3
<1>8. Live' \ Minting(w) = Live \ Range(w.ins)
  <2>1. Live \subseteq Ids /\ Live' \subseteq Ids BY DEF Live
  <2> QED BY <1>7, <2>1
<1>9. ASSUME NEW i \in Live \ Range(w.ins) PROVE Weight'[i] = Weight[i]
  <2>1. i \in Ids /\ i \notin Minting(w) BY <1>3 DEF Live
  <2>2. note'[i] = note[i] BY <1>4, <2>1
  <2> QED BY <2>1, <2>2 DEF Weight
<1> QED BY <1>5, <1>6, <1>8, <1>9

LEMMA BackedGrows ==
  ASSUME Types, Types', Backed, held' = held,
         NEW w, NEW amounts, Writes(w, amounts), Covers(w, amounts)
  PROVE  Backed'
<1>1. PICK f, g, L, M, R, N, K :
        /\ f = Weight /\ g = Weight' /\ L = Live /\ M = Live'
        /\ R = Range(w.ins) /\ N = Minting(w) /\ K = L \ R
  OBVIOUS
<1>2. /\ Summable(f, L) /\ SumFunctionOnSet(f, L) <= held /\ held \in Nat
  BY <1>1, LiveSummable
<1>3. R \in SUBSET L /\ N \in SUBSET M /\ M \ N = K /\ \A i \in K : f[i] = g[i]
  BY <1>1, LiveAfterSwap
<1>4. Summable(g, N) /\ Summable(f, R) /\ SumFunctionOnSet(g, N) <= SumFunctionOnSet(f, R)
  BY <1>1, MintedWeigh DEF Covers
<1>5. Summable(f, K) BY <1>1, <1>2, SummablePart
<1>6. Summable(g, K) /\ SumFunctionOnSet(f, K) = SumFunctionOnSet(g, K)
  BY ONLY <1>3, <1>5, SumSame
<1>7. SumFunctionOnSet(f, L) = SumFunctionOnSet(f, R) + SumFunctionOnSet(f, K)
  <2>1. SumFunctionOnSet(f, L) = SumFunctionOnSet(f, R) + SumFunctionOnSet(f, L \ R)
    BY ONLY <1>2, <1>3, SumParts
  <2> QED BY <1>1, <2>1
<1>8. Summable(g, M)
  <2>1. M = N \union K BY <1>3
  <2>2. IsFiniteSet(M) BY <1>4, <1>6, <2>1, FS_Union DEF Summable
  <2> QED BY <1>4, <1>6, <2>1, <2>2 DEF Summable
<1>9. SumFunctionOnSet(g, M) = SumFunctionOnSet(g, N) + SumFunctionOnSet(g, K)
  <2>1. SumFunctionOnSet(g, M) = SumFunctionOnSet(g, N) + SumFunctionOnSet(g, M \ N)
    BY ONLY <1>3, <1>8, SumParts
  <2> QED BY <1>3, <2>1
<1>10. /\ SumFunctionOnSet(g, N) \in Nat /\ SumFunctionOnSet(f, R) \in Nat
       /\ SumFunctionOnSet(g, K) \in Nat
  BY <1>4, <1>6, SumStep
<1>11. SumFunctionOnSet(g, M) <= held
  BY ONLY <1>2, <1>4, <1>6, <1>7, <1>9, <1>10
<1> QED BY <1>1, <1>2, <1>8, <1>11, BackedIf

-----------------------------------------------------------------------------
(* The theorems.                                                           *)

LEMMA InitInv == Init => IInv
<1> SUFFICES ASSUME Init PROVE IInv
  OBVIOUS
<1>1. \A n \in Notes : n \in Ids /\ Value[n] \in Nat \ {0}
  BY SwapsAssumption DEF Ids
<1>2. ASSUME NEW i \in Ids
      PROVE  /\ i \in Notes => note[i] = [state |-> "outstanding", amount |-> Value[i]]
             /\ i \notin Notes => note[i] = NoNote
  BY DEF Init
<1>9. ASSUME NEW i \in Notes
      PROVE  note[i] \in Rows /\ note[i].state = "outstanding" /\ note[i].amount = Value[i]
  <2>1. note[i] = [state |-> "outstanding", amount |-> Value[i]] BY <1>1, <1>2
  <2>2. Value[i] \in Nat BY <1>1
  <2> QED BY <2>1, <2>2 DEF Rows
<1>10. ASSUME NEW i \in Ids, i \notin Notes
       PROVE  note[i] \in Rows /\ note[i].state = "absent"
  <2>1. note[i] = [state |-> "absent", amount |-> 0] BY <1>2, <1>10 DEF NoNote
  <2> QED BY <2>1 DEF Rows
<1>3. ASSUME NEW i \in Ids
      PROVE  note[i] \in Rows /\ (note[i].state # "absent" => note[i].amount > 0)
  <2>1. CASE i \in Notes
    <3>1. Value[i] \in Nat /\ Value[i] > 0 BY <1>1, <2>1
    <3> QED BY <1>9, <2>1, <3>1
  <2>2. CASE i \notin Notes BY <1>10, <2>2
  <2> QED BY <2>1, <2>2
<1>4. Idle \in AttStates
  <2>1. << >> \in Seq(Rows) /\ << >> \in Seq(Nat) BY EmptySeen
  <2> QED BY <2>1 DEF Idle, AttStates
<1>5. Types
  <2>1. note \in [Ids -> Rows] BY <1>3 DEF Init
  <2>2. att \in [Attempts -> AttStates] BY <1>4 DEF Init
  <2>3. 0 \in 0..MaxCrashes BY SwapsAssumption
  <2> QED BY <1>3, <2>1, <2>2, <2>3 DEF Types, Init
<1>6. Carried /\ Spent BY DEF Carried, Spent, Init
<1>7. \A a \in Attempts : Knows(a) BY DEF Knows, Init, Idle
<1>8. Backed
  <2> DEFINE f == [n \in Notes |-> Value[n] + BaseFee]
  <2>1. Live = Notes
    <3>1. \A i \in Ids : i \in Live <=> i \in Notes BY <1>9, <1>10 DEF Live
    <3> QED BY <1>1, <3>1 DEF Live
  <2>2. \A n \in Notes : f[n] \in Nat /\ f[n] = Weight[n]
    <3> TAKE n \in Notes
    <3>1. note[n].amount = Value[n] BY <1>9
    <3>2. Value[n] \in Nat /\ BaseFee \in Nat BY <1>1, SwapsAssumption
    <3> QED BY <1>1, <3>1, <3>2 DEF Weight
  <2>3. held = SumFunctionOnSet(f, Notes) BY DEF Init
  <2> HIDE DEF f
  <2>4. Summable(f, Notes) BY <2>2, SwapsAssumption DEF Summable
  <2>5. PICK g : g = Weight OBVIOUS
  <2>6. \A n \in Notes : f[n] = g[n] BY <2>2, <2>5
  <2>7. Summable(g, Notes) /\ SumFunctionOnSet(f, Notes) = SumFunctionOnSet(g, Notes)
    BY ONLY <2>4, <2>6, SumSame
  <2>8. SumFunctionOnSet(f, Notes) \in Nat BY <2>4, SumStep
  <2> QED BY <2>1, <2>3, <2>5, <2>7, <2>8 DEF Backed, EveryNoteIsBacked, Weight, Summable
<1> QED BY <1>5, <1>6, <1>7, <1>8 DEF IInv

\* A step that leaves the notes and the swaps table alone.
Quiet == UNCHANGED <<note, swaps, held, melted>>

LEMMA QuietKeeps ==
  ASSUME Types, Carried, Spent, Backed, Quiet
  PROVE  Carried' /\ Spent' /\ Backed' /\ Steady
<1>1. Steady BY DEF Quiet, Steady
<1>2. Carried' BY <1>1, CarriedStays DEF Quiet
<1>3. Spent' BY DEF Quiet, Spent
<1>4. Backed' BY DEF Quiet, Backed, Live, EveryNoteIsBacked
<1> QED BY <1>1, <1>2, <1>3, <1>4

LEMMA EveryoneKnows ==
  ASSUME \A b \in Attempts : Knows(b), Steady, NEW a \in Attempts, Answers(a)
  PROVE  \A b \in Attempts : Knows(b)'
<1> SUFFICES ASSUME NEW b \in Attempts PROVE Knows(b)'
  OBVIOUS
<1>1. CASE b = a BY <1>1 DEF Answers
<1>2. CASE b # a BY <1>2, OthersKnow DEF Answers
<1> QED BY <1>1, <1>2

LEMMA HandlerKeeps ==
  ASSUME IInv, NEW a \in Attempts, HandlerStep(a), ~Commit(a)
  PROVE  IInv'
<1>1. Types /\ Carried /\ Spent /\ Backed /\ \A b \in Attempts : Knows(b) BY DEF IInv
<1>2. Answers(a) /\ Quiet /\ crashes' = crashes
  <2>1. CASE \E w \in Wishes : Arrive(a, w)
    <3>1. PICK w \in Wishes : Arrive(a, w) BY <2>1
    <3>2. Quiet /\ crashes' = crashes BY <3>1 DEF Arrive, Quiet
    <3> QED BY <1>1, <3>1, <3>2, ArriveAnswers
  <2>2. CASE OpenNext(a)
    <3>1. Quiet /\ crashes' = crashes BY <2>2 DEF OpenNext, Quiet
    <3> QED BY <1>1, <2>2, <3>1, OpenNextAnswers
  <2>3. CASE Replay(a)
    <3>1. Quiet /\ crashes' = crashes BY <2>3 DEF Replay, Quiet
    <3> QED BY <1>1, <2>3, <3>1, ReplayAnswers
  <2>4. CASE Refuses(a)
    <3>1. Quiet /\ crashes' = crashes BY <2>4, RefusedIsNotOk DEF Quiet
    <3> QED BY <1>1, <2>4, <3>1, RefuseAnswers
  <2> QED BY <2>1, <2>2, <2>3, <2>4 DEF HandlerStep, Refuses
<1>3. Carried' /\ Spent' /\ Backed' /\ Steady BY <1>1, <1>2, QuietKeeps
<1>4. \A b \in Attempts : Knows(b)' BY <1>1, <1>2, <1>3, EveryoneKnows
<1>5. Types' BY <1>1, <1>2 DEF Types, Quiet, Answers
<1> QED BY <1>3, <1>4, <1>5 DEF IInv

LEMMA CommitKeeps ==
  ASSUME IInv, NEW a \in Attempts, Commit(a)
  PROVE  IInv'
<1>1. Types /\ Carried /\ Spent /\ Backed /\ \A b \in Attempts : Knows(b) BY DEF IInv
<1>2. PICK w \in Wishes, amounts \in Seq(Nat \ {0}) :
        /\ IsInjective(w.ins) /\ DOMAIN amounts = Minted(w)
        /\ note' \in [Ids -> Rows] /\ Swapped(w, amounts)
        /\ \A i \in Ids : note'[i].state # "absent" => note'[i].amount > 0
        /\ swaps' = swaps \union {[fingerprint |-> Fingerprint(w), amounts |-> amounts]}
        /\ UNCHANGED <<held, melted, crashes>>
        /\ Summable(Weight, Range(w.ins))
        /\ IF IsSplit(w)
             THEN amounts[1] + amounts[2] + 2 * BaseFee <= SumFunctionOnSet(Weight, Range(w.ins))
             ELSE amounts[1] + BaseFee <= SumFunctionOnSet(Weight, Range(w.ins))
  BY <1>1, CommitSwaps
<1>3. Writes(w, amounts) /\ Covers(w, amounts) BY <1>2 DEF Writes, Covers
<1>4. Answers(a) BY <1>1, CommitAnswers
<1>5. Types' BY <1>1, <1>2, <1>4 DEF Types, Answers
<1>6. Steady BY <1>1, <1>2, SwappedIsSteady
<1>7. Carried' BY <1>1, <1>3, CarriedGrows
<1>8. Spent' BY <1>1, <1>3, SpentGrows
<1>9. Backed' BY <1>1, <1>2, <1>3, <1>5, BackedGrows
<1>10. \A b \in Attempts : Knows(b)' BY <1>1, <1>4, <1>6, EveryoneKnows
<1> QED BY <1>5, <1>7, <1>8, <1>9, <1>10 DEF IInv

LEMMA MeltKeeps ==
  ASSUME IInv, NEW i \in Ids, MeltStep(i)
  PROVE  IInv'
<1>1. Types /\ Carried /\ Spent /\ Backed /\ \A b \in Attempts : Knows(b) BY DEF IInv
<1>2. PICK s : Melts(i, s) BY <1>1, MeltMelts
<1>3. Steady BY <1>2, MeltIsSteady
<1>4. Types'
  <2>1. \A j \in Ids : note'[j].state # "absent" => note'[j].amount > 0
    BY <1>1, <1>2 DEF Types, Melts
  <2>2. melted' \subseteq Ids BY <1>1, <1>2 DEF Types, Melts
  <2> QED BY <1>1, <1>2, <2>1, <2>2 DEF Types, Melts
<1>5. Carried' BY <1>1, <1>2, <1>3, CarriedStays DEF Melts
<1>6. Spent' BY <1>1, <1>2, SpentStays
<1>7. Backed' BY <1>1, <1>2, <1>4, BackedStays
<1>8. \A b \in Attempts : Knows(b)' BY <1>1, <1>2, <1>3, OthersKnow DEF Melts
<1> QED BY <1>4, <1>5, <1>6, <1>7, <1>8 DEF IInv

LEMMA CrashKeeps ==
  ASSUME IInv, Crash
  PROVE  IInv'
<1>1. Types /\ Carried /\ Spent /\ Backed /\ \A b \in Attempts : Knows(b) BY DEF IInv
<1>2. Quiet BY DEF Crash, Quiet
<1>3. Carried' /\ Spent' /\ Backed' /\ Steady BY <1>1, <1>2, QuietKeeps
<1> DEFINE gone == [Idle EXCEPT !.pc = "lost"]
<1>4. gone \in AttStates /\ gone.pc = "lost" /\ gone.reply = "none"
  <2>1. << >> \in Seq(Rows) /\ << >> \in Seq(Nat) BY EmptySeen
  <2> QED BY <2>1 DEF Idle, AttStates
<1>5. att' = [a \in Attempts |-> IF att[a].pc = "opening" THEN gone ELSE att[a]]
  BY DEF Crash
<1> HIDE DEF gone
<1>6. att' \in [Attempts -> AttStates] BY <1>1, <1>4, <1>5 DEF Types
<1>7. crashes' \in 0..MaxCrashes BY <1>1, SwapsAssumption DEF Types, Crash
<1>8. Types' BY <1>1, <1>2, <1>6, <1>7 DEF Types, Quiet
<1>9. ASSUME NEW a \in Attempts PROVE Knows(a)'
  <2>1. CASE att[a].pc = "opening"
    <3>1. att'[a] = gone BY <1>5, <2>1
    <3> QED BY <1>4, <3>1 DEF Knows
  <2>2. CASE att[a].pc # "opening"
    <3>1. att'[a] = att[a] BY <1>5, <2>2
    <3> QED BY <1>1, <1>3, <3>1, OthersKnow
  <2> QED BY <2>1, <2>2
<1> QED BY <1>3, <1>8, <1>9 DEF IInv

LEMMA StutterKeeps ==
  ASSUME IInv, UNCHANGED vars
  PROVE  IInv'
<1>1. Types /\ Carried /\ Spent /\ Backed /\ \A b \in Attempts : Knows(b) BY DEF IInv
<1>2. Quiet BY DEF vars, Quiet
<1>3. Carried' /\ Spent' /\ Backed' /\ Steady BY <1>1, <1>2, QuietKeeps
<1>4. Types' BY <1>1 DEF Types, vars
<1>5. \A a \in Attempts : Knows(a)' BY <1>1, <1>3, OthersKnow DEF vars
<1> QED BY <1>3, <1>4, <1>5 DEF IInv

LEMMA NextKeeps == IInv /\ [Next]_vars => IInv'
<1> SUFFICES ASSUME IInv, [Next]_vars PROVE IInv'
  OBVIOUS
<1>1. CASE \E a \in Attempts : HandlerStep(a) BY <1>1, HandlerKeeps, CommitKeeps
<1>2. CASE \E i \in Ids : MeltStep(i) BY <1>2, MeltKeeps
<1>3. CASE Crash BY <1>3, CrashKeeps
<1>4. CASE UNCHANGED vars BY <1>4, StutterKeeps
<1> QED BY <1>1, <1>2, <1>3, <1>4 DEF Next

\* The inductive invariant holds of every reachable state.
THEOREM SwapInvariant == Spec => []IInv
  BY InitInv, NextKeeps, PTL DEF Spec

\* Every variable of the swapping branches stays within its declared shape,
\* and no note that is there is worth nothing.
THEOREM SwapTypes == Spec => []TypeOK
<1>1. IInv => TypeOK BY InvariantImplies
<1> QED BY <1>1, SwapInvariant, PTL

\* However many notes are rotated, split and merged, and however often each
\* request is retried, the mint holds what every live note is worth and the
\* fee of its one payment: no split escapes a fee, no merge gives back one too
\* many (server.ts, the swapping branches of the withdraw callback).
THEOREM SwapsAreBacked == Spec => []EveryNoteIsBacked
<1>1. IInv => EveryNoteIsBacked BY InvariantImplies
<1> QED BY <1>1, SwapInvariant, PTL

\* A note is behind one swap at most, and a swapped note is neither paid out
\* nor spendable again (NoteStore.swap's transaction against melts that take
\* the same note).
THEOREM NotesAreSpentOnce == Spec => []SpentOnce
<1>1. IInv => SpentOnce BY InvariantImplies
<1> QED BY <1>1, SwapInvariant, PTL

\* Every OK certifies notes that are in the table at the amounts it names,
\* the first answer and each retry's alike.
THEOREM OksAreBacked == Spec => []AnswersAreBacked
<1>1. IInv => AnswersAreBacked BY InvariantImplies
<1> QED BY <1>1, SwapInvariant, PTL

-----------------------------------------------------------------------------
(* Retries.                                                                *)

NeverRefused(a) ==
  att[a].pc = "opening" /\ Replays(att[a].wish) # {} /\ att'[a].pc = "done"
    => att'[a].reply = "ok"

LEMMA OwnStepNeverRefuses ==
  ASSUME IInv, NEW a \in Attempts, HandlerStep(a)
  PROVE  NeverRefused(a)
<1> SUFFICES ASSUME att[a].pc = "opening", Replays(att[a].wish) # {}, att'[a].pc = "done"
             PROVE  att'[a].reply = "ok"
  BY DEF NeverRefused
<1>1. Types /\ Carried /\ Spent /\ Knows(a) BY DEF IInv
<1>2. att[a] \in AttStates /\ att[a].wish \in Wishes BY <1>1 DEF Types, Knows
<1>3. PICK s \in swaps : s.fingerprint = Fingerprint(att[a].wish) BY DEF Replays
<1>4. IsInjective(att[a].wish.ins)
  <2>1. PICK v \in Wishes : s.fingerprint = Fingerprint(v) /\ IsInjective(v.ins)
    BY <1>1, <1>3 DEF Carried
  <2> QED BY <1>2, <1>3, <2>1, FingerprintIsInjective
<1>5. \A i \in Range(att[a].wish.ins) : note[i].state = "burned"
  BY <1>1, <1>3 DEF Spent, Fingerprint
<1>6. ~New(a) BY DEF New
<1>7. CASE \E w \in Wishes : Arrive(a, w) BY <1>7 DEF Arrive
<1>8. CASE OpenNext(a)
  <2> DEFINE n == Len(att[a].seen)
             i == att[a].wish.ins[n + 1]
             more == Append(att[a].seen, note[i])
  <2>1. n \in Nat /\ n < Len(att[a].wish.ins)
    <3>1. att[a].seen \in Seq(Rows) BY <1>2 DEF AttStates
    <3> QED BY <1>8, <3>1 DEF OpenNext
  <2>2. n + 1 \in DOMAIN att[a].wish.ins
    <3> HIDE DEF n
    <3>1. Len(att[a].wish.ins) \in Nat /\ DOMAIN att[a].wish.ins = 1..Len(att[a].wish.ins)
      BY <1>2, WishTypes
    <3> QED BY <2>1, <3>1
  <2>3. i \in Range(att[a].wish.ins) BY <2>2 DEF Range
  <2>4. att' = [att EXCEPT ![a].seen = more] BY <1>5, <1>8, <2>3 DEF OpenNext
  <2> HIDE DEF more
  <2>5. att'[a].pc = att[a].pc BY <1>1, <1>2, <2>4 DEF Types, AttStates
  <2> QED BY <2>5
<1>9. CASE Replay(a)
  <2>1. PICK t \in Replays(att[a].wish) : Reply(a, "ok", t.amounts) BY <1>9 DEF Replay
  <2>2. att'[a] = [att[a] EXCEPT !.pc = "done", !.seen = << >>,
                                 !.reply = "ok", !.paid = t.amounts]
    BY <1>1, <2>1 DEF Reply, Types
  <2> QED BY <1>2, <2>2 DEF AttStates
<1>10. CASE RefuseDuplicate(a) BY <1>4, <1>10 DEF RefuseDuplicate
<1>11. CASE RefuseInputs(a) BY <1>6, <1>11 DEF RefuseInputs
<1>12. CASE RefuseAmount(a) BY <1>6, <1>12 DEF RefuseAmount
<1>13. CASE RefuseSwap(a) BY <1>6, <1>13 DEF RefuseSwap
<1>14. CASE SwapThrows(a) BY <1>6, <1>14 DEF SwapThrows
<1>15. CASE Commit(a) BY <1>6, <1>15 DEF Commit
<1> QED BY <1>7, <1>8, <1>9, <1>10, <1>11, <1>12, <1>13, <1>14, <1>15 DEF HandlerStep

LEMMA NobodyIsRefused ==
  ASSUME IInv, [Next]_vars, NEW b \in Attempts
  PROVE  NeverRefused(b)
<1>1. CASE att'[b] = att[b] BY <1>1 DEF NeverRefused
<1>2. CASE att'[b] # att[b]
  <2>1. att' # att BY <1>2
  <2>2. CASE \E a \in Attempts : HandlerStep(a)
    <3>1. PICK a \in Attempts : HandlerStep(a) BY <2>2
    <3>2. Types /\ Carried /\ Knows(a) BY DEF IInv
    <3>3. \A c \in Attempts : c # a => att'[c] = att[c]
      <4>1. CASE \E w \in Wishes : Arrive(a, w) BY <3>2, <4>1, ArriveAnswers DEF Answers
      <4>2. CASE OpenNext(a) BY <3>2, <4>2, OpenNextAnswers DEF Answers
      <4>3. CASE Replay(a) BY <3>2, <4>3, ReplayAnswers DEF Answers
      <4>4. CASE Refuses(a) BY <3>2, <4>4, RefuseAnswers DEF Answers
      <4>5. CASE Commit(a) BY <3>2, <4>5, CommitAnswers DEF Answers
      <4> QED BY <3>1, <4>1, <4>2, <4>3, <4>4, <4>5 DEF HandlerStep, Refuses
    <3> QED BY <1>2, <3>1, <3>3, OwnStepNeverRefuses
  <2>3. CASE \E i \in Ids : MeltStep(i)
    <3>1. UNCHANGED att BY <2>3 DEF MeltStep, MeltTakes, MeltRestores, MeltPays
    <3> QED BY <2>1, <3>1
  <2>4. CASE Crash
    <3>1. att'[b] = [Idle EXCEPT !.pc = "lost"] BY <1>2, <2>4 DEF Crash
    <3> QED BY <3>1 DEF NeverRefused, Idle
  <2>5. CASE UNCHANGED vars BY <2>1, <2>5 DEF vars
  <2> QED BY <2>2, <2>3, <2>4, <2>5 DEF Next
<1> QED BY <1>1, <1>2

RetryStep == \A a \in Attempts : NeverRefused(a)

\* A retry of a request that was carried out is never told "already spent",
\* nor anything else but OK: its notes are burned, but its fingerprint is
\* looked up before their states are (server.ts, swapFingerprint).
THEOREM RetriesAreAnswered == Spec => RetriesAreNeverRefused
<1>1. IInv /\ [Next]_vars => [RetryStep]_vars
  BY NobodyIsRefused DEF RetryStep
<1>2. Spec => [][RetryStep]_vars
  BY <1>1, SwapInvariant, PTL DEF Spec
<1> USE DEF RetryStep, NeverRefused
<1> QED BY <1>2 DEF RetriesAreNeverRefused

-----------------------------------------------------------------------------
(* What swapping promises: its steps as ValuePromise sees them.            *)

\* Sums are the same, on either side of the refinement.
LEMMA PromiseSums ==
  \A f, S : Promise!SumFunctionOnSet(f, S) = SumFunctionOnSet(f, S)
  BY SumIsIter DEF Promise!SumFunctionOnSet, Promise!FoldFunctionOnSet,
                   Promise!MapThenFoldSet, Iter, IsSum, Chosen

LEMMA QuietPromisesNothing ==
  ASSUME note' = note, held' = held
  PROVE  UNCHANGED Promise!valueVars
  BY DEF Promise!valueVars, Live, Burned, Worth

LEMMA CommitExchanges ==
  ASSUME IInv, NEW a \in Attempts, Commit(a)
  PROVE  Promise!Exchange
<1>1. Types /\ Carried /\ Spent /\ Backed /\ \A b \in Attempts : Knows(b) BY DEF IInv
<1>2. PICK w \in Wishes, amounts \in Seq(Nat \ {0}) :
        /\ Writes(w, amounts) /\ Covers(w, amounts) /\ held' = held
        /\ \A i \in Ids : note'[i].state # "absent" => note'[i].amount > 0
  BY <1>1, CommitSwaps DEF Writes, Covers
<1>3. Swapped(w, amounts) /\ w \in Wishes BY <1>2 DEF Writes
<1>4. Types' BY CommitKeeps DEF IInv
<1>5. Steady BY <1>1, <1>3, SwappedIsSteady
<1>6. ASSUME NEW i \in Range(w.ins)
      PROVE  i \in Ids /\ note[i].state = "outstanding" /\ note'[i].state = "burned"
  <2>1. i \in Ids BY <1>3, WishTypes
  <2>2. note[i].state = "outstanding" /\ note'[i] = [state |-> "burned", amount |-> note[i].amount]
    BY <1>3 DEF Swapped
  <2> QED BY <2>1, <2>2
<1>7. ASSUME NEW i \in Minting(w)
      PROVE  i \in Ids /\ note[i].state = "absent" /\ note'[i].state = "outstanding"
  <2>1. PICK k \in Minted(w) : i = w.outs[k] BY DEF Minting
  <2>2. i \in Ids BY <1>3, <2>1, WishTypes
  <2>3. note[i].state = "absent" /\ note'[i] = [state |-> "outstanding", amount |-> amounts[k]]
    BY <1>3, <2>1 DEF Swapped
  <2> QED BY <2>2, <2>3
<1>8. ASSUME NEW i \in Ids, i \notin Range(w.ins), i \notin Minting(w)
      PROVE  note'[i] = note[i]
  BY <1>3, <1>8 DEF Swapped, Minting
<1>9. Live \ Live' = Range(w.ins)
  <2>1. ASSUME NEW i \in Ids PROVE i \in Live \ Live' <=> i \in Range(w.ins)
    BY <1>6, <1>7, <1>8, <2>1 DEF Live
  <2> QED BY <1>6, <2>1 DEF Live
<1>10. Live' \ Live = Minting(w)
  <2>1. ASSUME NEW i \in Ids PROVE i \in Live' \ Live <=> i \in Minting(w)
    BY <1>6, <1>7, <1>8, <2>1 DEF Live
  <2> QED BY <1>7, <2>1 DEF Live
<1>11. Burned' = Burned \union Range(w.ins)
  <2>1. ASSUME NEW i \in Ids PROVE i \in Burned' <=> i \in Burned \/ i \in Range(w.ins)
    BY <1>6, <1>7, <1>8, <2>1 DEF Burned
  <2> QED BY <1>6, <2>1 DEF Burned
<1>12. Range(w.ins) # {} /\ Minting(w) # {}
  <2>1. w.ins # << >> /\ w.ins \in Seq(Ids) BY <1>3, WishTypes
  <2>2. 1 \in DOMAIN w.ins BY <2>1
  <2>3. 1 \in Minted(w) BY DEF Minted
  <2> QED BY <2>2, <2>3 DEF Range, Minting
<1>13. Minting(w) \subseteq Ids \ Burned BY <1>7 DEF Burned
<1>14. \A i \in Live \union Burned : Worth'[i] = Worth[i]
  <2> TAKE i \in Live \union Burned
  <2>1. i \in Ids /\ note[i].state # "absent" BY DEF Live, Burned
  <2>2. note'[i].amount = note[i].amount BY <1>5, <2>1 DEF Steady
  <2> QED BY <2>1, <2>2 DEF Worth
<1>15. Promise!SumFunctionOnSet(Worth', Minting(w)) <= Promise!SumFunctionOnSet(Worth, Range(w.ins))
  <2>1. SumFunctionOnSet(Weight', Minting(w)) <= SumFunctionOnSet(Weight, Range(w.ins))
    BY <1>2, <1>4, MintedWeigh
  <2>2. Worth = Weight /\ Worth' = Weight' BY DEF Worth, Weight
  <2> QED BY <2>1, <2>2, PromiseSums
<1> QED BY <1>2, <1>9, <1>10, <1>11, <1>12, <1>13, <1>14, <1>15 DEF Promise!Exchange

LEMMA MeltPaysOut ==
  ASSUME IInv, NEW i \in Ids, MeltStep(i)
  PROVE  Promise!PayOut(i) \/ UNCHANGED Promise!valueVars
<1>1. Types BY DEF IInv
<1>2. PICK s : Melts(i, s) BY <1>1, MeltMelts
<1>3. i \in Live BY <1>2 DEF Melts, Live
<1>4. Worth' = Worth
  <2>1. ASSUME NEW j \in Ids PROVE note'[j].amount = note[j].amount BY <1>2 DEF Melts
  <2> QED BY <2>1 DEF Worth
<1>5. CASE s = "burned"
  <2>1. note'[i].state = "burned" /\ \A j \in Ids : j # i => note'[j] = note[j]
    BY <1>2, <1>5 DEF Melts
  <2>2. Live' = Live \ {i} BY <2>1 DEF Live
  <2>3. Burned' = Burned \union {i} BY <2>1 DEF Burned
  <2>4. held' = held - Worth[i] BY <1>2, <1>5 DEF Melts, Worth
  <2> QED BY <1>3, <1>4, <2>2, <2>3, <2>4 DEF Promise!PayOut
<1>6. CASE s # "burned"
  <2>1. /\ note[i].state \in {"outstanding", "pending"} /\ note'[i].state \in {"outstanding", "pending"}
        /\ \A j \in Ids : j # i => note'[j] = note[j]
        /\ held' = held
    BY <1>2, <1>6 DEF Melts
  <2>2. Live' = Live BY <2>1 DEF Live
  <2>3. Burned' = Burned BY <2>1 DEF Burned
  <2> QED BY <1>4, <2>1, <2>2, <2>3 DEF Promise!valueVars
<1> QED BY <1>5, <1>6

LEMMA PromiseInit == Init => Promise!Init
<1> SUFFICES ASSUME Init PROVE Promise!Init
  OBVIOUS
<1> DEFINE f == [n \in Notes |-> Value[n] + BaseFee]
<1>1. ASSUME NEW i \in Ids
      PROVE  /\ i \in Notes => note[i].state = "outstanding" /\ note[i].amount = Value[i]
             /\ i \notin Notes => note[i].state = "absent"
  BY DEF Init, NoNote
<1>2. Notes \subseteq Ids BY DEF Ids
<1>3. Live = Notes BY <1>1, <1>2 DEF Live
<1>4. Burned = {} BY <1>1 DEF Burned
<1>5. \A n \in Notes : f[n] \in Nat /\ f[n] = Worth[n]
  <2> TAKE n \in Notes
  <2>1. note[n].amount = Value[n] /\ n \in Ids BY <1>1, <1>2
  <2>2. Value[n] \in Nat /\ BaseFee \in Nat BY SwapsAssumption
  <2> QED BY <2>1, <2>2 DEF Worth
<1>6. held = SumFunctionOnSet(f, Notes) BY DEF Init
<1> HIDE DEF f
<1>7. Summable(f, Notes) BY <1>5, SwapsAssumption DEF Summable
<1>8. PICK g : g = Worth OBVIOUS
<1>9. SumFunctionOnSet(f, Notes) = SumFunctionOnSet(g, Notes)
  <2>1. \A n \in Notes : f[n] = g[n] BY <1>5, <1>8
  <2> QED BY ONLY <1>7, <2>1, SumSame
<1>10. held = Promise!SumFunctionOnSet(Worth, Live) BY <1>3, <1>6, <1>8, <1>9, PromiseSums
<1> QED BY <1>2, <1>3, <1>4, <1>10 DEF Promise!Init

LEMMA PromiseStep ==
  ASSUME IInv, [Next]_vars
  PROVE  [Promise!Next]_Promise!valueVars
<1>1. ASSUME NEW a \in Attempts, HandlerStep(a)
      PROVE  [Promise!Next]_Promise!valueVars
  <2>1. CASE Commit(a) BY <2>1, CommitExchanges DEF Promise!Next
  <2>2. CASE ~Commit(a)
    <3>1. UNCHANGED <<note, held>>
      BY <1>1, <2>2 DEF HandlerStep, Arrive, OpenNext, Replay, RefuseDuplicate, RefuseInputs,
                        RefuseAmount, RefuseSwap, SwapThrows
    <3> QED BY <3>1, QuietPromisesNothing
  <2> QED BY <2>1, <2>2
<1>2. ASSUME NEW i \in Ids, MeltStep(i)
      PROVE  [Promise!Next]_Promise!valueVars
  BY <1>2, MeltPaysOut DEF Promise!Next
<1>3. CASE Crash BY <1>3, QuietPromisesNothing DEF Crash
<1>4. CASE UNCHANGED vars BY <1>4, QuietPromisesNothing DEF vars
<1> QED BY <1>1, <1>2, <1>3, <1>4 DEF Next

\* Swapping keeps ValuePromise: however often a request arrives, is retried,
\* refused or lost, its notes give way once, in one step, to notes worth no
\* more at ids nothing was ever at; all else is a melt paying out one note
\* (NoteStore.swap, and the melt it races for a note).
THEOREM SwapsKeepTheValuePromise == Spec => KeepsTheValuePromise
  BY SwapInvariant, PromiseInit, PromiseStep, PTL
     DEF Spec, KeepsTheValuePromise, Promise!Spec
=============================================================================
