------------------------------- MODULE Recursion -------------------------------
(***************************************************************************)
(* Facts about functions that are defined by recursion on numbers: the     *)
(* loops of the models are such functions.  There is no induction rule to  *)
(* use, so each rests on the least number for which it would not hold.     *)
(***************************************************************************)
EXTENDS Integers, Sequences, SequencesExt, SequenceTheorems, WellFoundedInduction, TLAPS

------------------------------------------------------------------------------
(* Induction on the numbers up to n, for membership in a set. *)

\* A set of numbers that is not empty has a least element.
LEMMA LeastOf ==
  ASSUME NEW S \in SUBSET Nat, S # {}
  PROVE  \E m \in S : \A n \in S : m <= n
<1> DEFINE Less == OpToRel(<, Nat)
<1>1. IsWellFoundedOn(Less, Nat)
  BY NatLessThanWellFounded
<1>2. \A m, n \in Nat : m < n => <<m, n>> \in Less
  BY DEF OpToRel
<1> HIDE DEF Less
<1>3. PICK m \in S : \A n \in S : ~(<<n, m>> \in Less)
  BY <1>1, WFMin
<1>4. ASSUME NEW n \in S PROVE m <= n
  <2>1. m \in Nat /\ n \in Nat
    OBVIOUS
  <2>2. ~(n < m)
    BY <1>2, <1>3, <2>1
  <2> QED BY <2>1, <2>2
<1> QED BY <1>4

\* What holds of a number when it holds of all smaller ones holds up to n.
LEMMA Induction ==
  ASSUME NEW n \in Int, NEW P, \A k \in 0 .. n : (\A j \in 0 .. k - 1 : j \in P) => k \in P
  PROVE  \A k \in 0 .. n : k \in P
<1> DEFINE Bad == {k \in 0 .. n : k \notin P}
<1>1. SUFFICES ASSUME Bad # {} PROVE FALSE
  OBVIOUS
<1>2. PICK m \in Bad : \A k \in Bad : m <= k
  <2>1. Bad \in SUBSET Nat
    OBVIOUS
  <2> HIDE DEF Bad
  <2> QED BY <1>1, <2>1, LeastOf
<1>3. m \in 0 .. n /\ m \notin P
  BY <1>2
<1>4. ASSUME NEW j \in 0 .. m - 1 PROVE j \in P
  <2>1. j \in 0 .. n /\ ~(m <= j)
    BY <1>3
  <2> QED BY <1>2, <2>1
<1> QED BY <1>3, <1>4

LEMMA StepByStep ==
  ASSUME NEW n \in Int, NEW P, 0 \in P, \A k \in 1 .. n : k - 1 \in P => k \in P
  PROVE  \A k \in 0 .. n : k \in P
<1>1. ASSUME NEW k \in 0 .. n, \A j \in 0 .. k - 1 : j \in P PROVE k \in P
  <2>1. CASE k = 0
    BY <2>1
  <2>2. CASE k # 0
    <3>1. k \in 1 .. n /\ k - 1 \in 0 .. k - 1
      BY <2>2
    <3> QED BY <1>1, <3>1
  <2> QED BY <2>1, <2>2
<1> QED BY <1>1, Induction

------------------------------------------------------------------------------
(* Values that are computed one after the other. *)

\* The values of f before k.
Before(f, k) == [j \in 0 .. k - 1 |-> f[j]]

\* Values up to n - 1, of the types T.
Typed(h, T, S, n) == h \in [0 .. n - 1 -> S] /\ \A j \in 0 .. n - 1 : h[j] \in T[j]

\* f computes by g up to n - 1: its value at k from its values before k.
Computes(f, g, T, S, n) ==
  Typed(f, T, S, n) /\ \A k \in 0 .. n - 1 : f[k] = g[k][Before(f, k)]

\* What is computed from earlier values exists, and has its type.
LEMMA RecursionExists ==
  ASSUME NEW n \in Nat, NEW S, NEW T, \A k \in 0 .. n - 1 : T[k] \subseteq S, NEW g,
         \A k \in 0 .. n - 1 : \A h : Typed(h, T, S, k) => g[k][h] \in T[k]
  PROVE  \E f : Computes(f, g, T, S, n)
<1> DEFINE P == {m \in 0 .. n : \E f : Computes(f, g, T, S, m)}
<1>1. 0 \in P
  <2>1. PICK f : f = [j \in 0 .. 0 - 1 |-> 0]
    OBVIOUS
  <2>2. 0 .. 0 - 1 = {}
    OBVIOUS
  <2>3. f \in [0 .. 0 - 1 -> S]
    BY <2>1, <2>2
  <2>4. Typed(f, T, S, 0)
    BY <2>2, <2>3 DEF Typed
  <2>5. Computes(f, g, T, S, 0)
    BY <2>2, <2>4 DEF Computes
  <2> QED BY <2>5
<1>2. ASSUME NEW m \in 1 .. n, m - 1 \in P PROVE m \in P
  <2>1. PICK k : k = m - 1
    OBVIOUS
  <2>2. k \in 0 .. n - 1 /\ m = k + 1 /\ m - 1 = k
    BY <2>1
  <2>3. PICK h : Computes(h, g, T, S, k)
    BY <1>2, <2>1
  <2>4. /\ h \in [0 .. k - 1 -> S] /\ \A j \in 0 .. k - 1 : h[j] \in T[j]
        /\ \A j \in 0 .. k - 1 : h[j] = g[j][Before(h, j)]
        /\ g[k][h] \in T[k] /\ g[k][h] \in S
    BY <2>2, <2>3 DEF Computes, Typed
  <2>5. PICK f : f = [j \in 0 .. m - 1 |-> IF j = k THEN g[k][h] ELSE h[j]]
    OBVIOUS
  <2>6. f[k] = g[k][h] /\ \A j \in 0 .. k - 1 : f[j] = h[j]
    BY <2>2, <2>5
  <2>7. \A j \in 0 .. m - 1 : j = k \/ j \in 0 .. k - 1
    BY <2>2
  <2>8. Typed(f, T, S, m)
    <3>1. \A j \in 0 .. m - 1 : f[j] \in S /\ f[j] \in T[j]
      BY <2>4, <2>6, <2>7
    <3> QED BY <2>5, <3>1 DEF Typed
  <2>9. ASSUME NEW i \in 0 .. m - 1 PROVE Before(f, i) = Before(h, i)
    <3>1. \A j \in 0 .. i - 1 : f[j] = h[j]
      BY <2>2, <2>6
    <3> QED BY <3>1 DEF Before
  <2>10. Before(h, k) = h
    BY <2>4 DEF Before
  <2>11. ASSUME NEW i \in 0 .. m - 1 PROVE f[i] = g[i][Before(f, i)]
    <3>1. CASE i = k
      BY <2>6, <2>9, <2>10, <3>1
    <3>2. CASE i # k
      BY <2>4, <2>6, <2>7, <2>9, <3>2
    <3> QED BY <3>1, <3>2
  <2> QED BY <2>8, <2>11 DEF Computes
<1>3. \A k \in 0 .. n : k \in P
  <2> HIDE DEF P
  <2> QED BY <1>1, <1>2, StepByStep
<1> QED BY <1>3

\* The same when each value comes from the one before it.
Maps(g, T, n) == \A k \in 1 .. n : \A v \in T[k - 1] : g[k][v] \in T[k]

Iterates(f, g, a, T, n) ==
  /\ f[0] = a /\ \A k \in 1 .. n : f[k] = g[k][f[k - 1]]
  /\ \A k \in 0 .. n : f[k] \in T[k]

LEMMA IterationExists ==
  ASSUME NEW n \in Nat, NEW S, NEW T \in [0 .. n -> SUBSET S], NEW a \in T[0],
         NEW g, Maps(g, T, n)
  PROVE  \E f \in [0 .. n -> S] : Iterates(f, g, a, T, n)
<1>1. PICK s : s = [k \in 0 .. n |-> [h \in [0 .. k - 1 -> S] |-> IF k = 0 THEN a ELSE g[k][h[k - 1]]]]
  OBVIOUS
<1>2. ASSUME NEW k \in 0 .. n, NEW h \in [0 .. k - 1 -> S]
      PROVE  s[k][h] = IF k = 0 THEN a ELSE g[k][h[k - 1]]
  BY <1>1
<1>9. PICK m : m = n + 1
  OBVIOUS
<1>3. ASSUME NEW k \in 0 .. m - 1, NEW h, Typed(h, T, S, k) PROVE s[k][h] \in T[k]
  <2>1. k \in 0 .. n /\ h \in [0 .. k - 1 -> S] /\ \A j \in 0 .. k - 1 : h[j] \in T[j]
    BY <1>9, <1>3 DEF Typed
  <2>2. s[k][h] = IF k = 0 THEN a ELSE g[k][h[k - 1]]
    BY <1>2, <2>1
  <2>3. CASE k = 0
    BY <2>2, <2>3
  <2>4. CASE k # 0
    <3>1. k \in 1 .. n /\ k - 1 \in 0 .. k - 1
      BY <2>1, <2>4
    <3> QED BY <2>1, <2>2, <2>4, <3>1 DEF Maps
  <2> QED BY <2>3, <2>4
<1>4. \A k \in 0 .. m - 1 : T[k] \subseteq S
  BY <1>9
<1>5. PICK f : Computes(f, s, T, S, m)
  <2>1. m \in Nat
    BY <1>9
  <2> QED BY <1>3, <1>4, <2>1, RecursionExists
<1>6. /\ f \in [0 .. n -> S] /\ \A k \in 0 .. n : f[k] \in T[k]
      /\ \A k \in 0 .. n : f[k] = s[k][Before(f, k)]
  <2>1. m - 1 = n
    BY <1>9
  <2> QED BY <1>5, <2>1 DEF Computes, Typed
<1>7. ASSUME NEW k \in 0 .. n PROVE f[k] = IF k = 0 THEN a ELSE g[k][f[k - 1]]
  <2>1. PICK h : h = Before(f, k)
    OBVIOUS
  <2>2. \A j \in 0 .. k - 1 : f[j] \in S
    BY <1>6
  <2>3. h \in [0 .. k - 1 -> S]
    BY <2>1, <2>2 DEF Before
  <2>4. f[k] = IF k = 0 THEN a ELSE g[k][h[k - 1]]
    BY <1>2, <1>6, <2>1, <2>3
  <2>5. k # 0 => h[k - 1] = f[k - 1]
    BY <2>1 DEF Before
  <2> QED BY <2>4, <2>5
<1>8. f[0] = a /\ \A k \in 1 .. n : f[k] = g[k][f[k - 1]]
  BY <1>7
<1> QED BY <1>6, <1>8 DEF Iterates

------------------------------------------------------------------------------
(* FlattenSeq. *)

\* f is what FlattenSeq computes, for the first n sequences of s.
Flattens(s, n, f) ==
  f = [i \in 1 .. n |-> IF i = 1 THEN s[i] ELSE f[i - 1] \o s[i]]

LEMMA FlattenExists ==
  ASSUME NEW s, NEW m \in Nat
  PROVE  \E f : Flattens(s, m, f)
<1> DEFINE Bad == {n \in Nat : ~\E f : Flattens(s, n, f)}
<1>1. SUFFICES ASSUME Bad # {} PROVE FALSE
  OBVIOUS
<1>2. PICK n \in Bad : \A k \in Bad : n <= k
  <2>1. Bad \in SUBSET Nat
    OBVIOUS
  <2> HIDE DEF Bad
  <2> QED BY <1>1, <2>1, LeastOf
<1>3. n \in Nat /\ ~\E f : Flattens(s, n, f)
  BY <1>2
<1>4. CASE n = 0
  <2>1. PICK f : f = [i \in 1 .. 0 |-> s[i]]
    OBVIOUS
  <2>2. 1 .. 0 = {}
    OBVIOUS
  <2>3. f = [i \in 1 .. 0 |-> IF i = 1 THEN s[i] ELSE f[i - 1] \o s[i]]
    BY <2>1, <2>2
  <2> QED BY <1>3, <1>4, <2>3 DEF Flattens
<1>5. CASE n # 0
  <2>1. n - 1 \in Nat /\ ~(n <= n - 1)
    BY <1>3, <1>5
  <2>2. PICK g : Flattens(s, n - 1, g)
    BY <1>2, <2>1
  <2>3. g = [i \in 1 .. n - 1 |-> IF i = 1 THEN s[i] ELSE g[i - 1] \o s[i]]
    BY <2>2 DEF Flattens
  <2>4. PICK f : f = [i \in 1 .. n |-> IF i = 1 THEN s[i] ELSE g[i - 1] \o s[i]]
    OBVIOUS
  <2>5. ASSUME NEW i \in 1 .. n - 1 PROVE f[i] = g[i]
    <3>1. i \in 1 .. n
      BY <1>3
    <3>2. g[i] = IF i = 1 THEN s[i] ELSE g[i - 1] \o s[i]
      BY <2>3
    <3> QED BY <2>4, <3>1, <3>2
  <2>6. ASSUME NEW i \in 1 .. n, i # 1 PROVE g[i - 1] = f[i - 1]
    <3>1. i - 1 \in 1 .. n - 1
      BY <1>3, <2>6
    <3> QED BY <2>5, <3>1
  <2>7. f = [i \in 1 .. n |-> IF i = 1 THEN s[i] ELSE f[i - 1] \o s[i]]
    BY <2>4, <2>6
  <2> QED BY <1>3, <2>7 DEF Flattens
<1> QED BY <1>4, <1>5

LEMMA FlattenIs ==
  ASSUME NEW s, Len(s) \in Nat, Len(s) > 0
  PROVE  \E f : Flattens(s, Len(s), f) /\ FlattenSeq(s) = f[Len(s)]
<1>1. PICK n : n = Len(s)
  OBVIOUS
<1>2. PICK f : f = CHOOSE g : Flattens(s, n, g)
  OBVIOUS
<1>3. Flattens(s, n, f)
  BY <1>1, <1>2, FlattenExists
<1>4. FlattenSeq(s) = (CHOOSE g : g = [i \in 1 .. Len(s) |->
                         IF i = 1 THEN s[i] ELSE g[i - 1] \o s[i]])[Len(s)]
  BY DEF FlattenSeq
<1>5. f = CHOOSE g : g = [i \in 1 .. n |-> IF i = 1 THEN s[i] ELSE g[i - 1] \o s[i]]
  BY <1>2 DEF Flattens
<1> QED BY <1>1, <1>3, <1>4, <1>5

\* One more sequence is one more part at the end.
LEMMA FlattenGrows ==
  ASSUME NEW S, NEW s \in Seq(Seq(S)), NEW x \in Seq(S)
  PROVE  FlattenSeq(Append(s, x)) = FlattenSeq(s) \o x /\ FlattenSeq(s) \in Seq(S)
<1>1. PICK n \in Nat : n = Len(s)
  OBVIOUS
<1>2. PICK t : t = Append(s, x)
  OBVIOUS
<1>3. Len(t) = n + 1 /\ t[n + 1] = x /\ \A i \in 1 .. n : t[i] = s[i] /\ s[i] \in Seq(S)
  BY <1>1, <1>2
<1>4. PICK f : Flattens(t, n + 1, f) /\ FlattenSeq(t) = f[n + 1]
  BY <1>3, FlattenIs
<1>5. \A i \in 1 .. n + 1 : f[i] = IF i = 1 THEN t[i] ELSE f[i - 1] \o t[i]
  BY <1>4 DEF Flattens
<1>6. CASE n = 0
  <2>1. f[1] = x
    BY <1>3, <1>5, <1>6
  <2>2. s = <<>> /\ Len(s) = 0
    BY <1>1, <1>6, EmptySeq
  <2>3. FlattenSeq(s) = s
    BY <2>2 DEF FlattenSeq
  <2>4. FlattenSeq(t) = x
    BY <1>4, <1>6, <2>1
  <2>5. <<>> \o x = x /\ <<>> \in Seq(S)
    BY ConcatEmptySeq, EmptySeq
  <2> QED BY <1>2, <2>2, <2>3, <2>4, <2>5
<1>7. CASE n # 0
  <2>1. PICK g : Flattens(s, n, g) /\ FlattenSeq(s) = g[n]
    BY <1>1, <1>7, FlattenIs
  <2>2. \A i \in 1 .. n : g[i] = IF i = 1 THEN s[i] ELSE g[i - 1] \o s[i]
    BY <2>1 DEF Flattens
  <2> DEFINE P == {k \in 0 .. n - 1 : f[k + 1] = g[k + 1] /\ g[k + 1] \in Seq(S)}
  <2>3. 0 \in P
    <3>1. 1 \in 1 .. n /\ 1 \in 1 .. n + 1 /\ 0 + 1 = 1
      BY <1>7
    <3>2. f[1] = t[1] /\ g[1] = s[1] /\ t[1] = s[1] /\ s[1] \in Seq(S)
      BY <1>3, <1>5, <2>2, <3>1
    <3> QED BY <1>7, <3>1, <3>2
  <2>4. ASSUME NEW k \in 1 .. n - 1, k - 1 \in P PROVE k \in P
    <3>1. PICK j : j = k + 1
      OBVIOUS
    <3>2. j \in 1 .. n /\ j \in 1 .. n + 1 /\ j # 1 /\ j - 1 = k /\ k - 1 + 1 = k /\ k \in 0 .. n - 1
      BY <3>1
    <3>3. f[k] = g[k] /\ g[k] \in Seq(S)
      BY <2>4, <3>2
    <3>4. f[j] = f[k] \o t[j] /\ g[j] = g[k] \o s[j] /\ t[j] = s[j] /\ s[j] \in Seq(S)
      BY <1>3, <1>5, <2>2, <3>2
    <3>5. f[j] = g[j] /\ g[j] \in Seq(S)
      BY <3>3, <3>4
    <3> QED BY <3>1, <3>2, <3>5
  <2>5. \A k \in 0 .. n - 1 : k \in P
    <3> HIDE DEF P
    <3>1. n - 1 \in Int
      OBVIOUS
    <3> QED BY <2>3, <2>4, <3>1, StepByStep
  <2>6. f[n] = g[n] /\ g[n] \in Seq(S)
    <3>1. n - 1 \in 0 .. n - 1 /\ n - 1 + 1 = n
      BY <1>7
    <3> QED BY <2>5, <3>1
  <2>7. f[n + 1] = f[n] \o x
    <3>1. PICK m : m = n + 1
      OBVIOUS
    <3>2. m \in 1 .. n + 1 /\ m # 1 /\ m - 1 = n
      BY <1>7, <3>1
    <3>3. f[m] = f[m - 1] \o t[m]
      BY <1>5, <3>2
    <3> QED BY <1>3, <3>1, <3>2, <3>3
  <2> QED BY <1>2, <1>4, <2>1, <2>6, <2>7
<1> QED BY <1>6, <1>7
==============================================================================
