----------------------------- MODULE SortingProofs -----------------------------
(***************************************************************************)
(* Theorems about Sorting.tla, for any names and lists of any length: what *)
(* quick_sort_list returns is a rearrangement of the list and in order.    *)
(***************************************************************************)
EXTENDS Sorting, Recursion

------------------------------------------------------------------------------
(* Rearrangements. *)

\* b is a with the elements at lo .. hi in another order.
Rearranges(b, a, lo, hi) ==
  \E p \in [DOMAIN a -> DOMAIN a] :
    /\ \A x, y \in DOMAIN a : p[x] = p[y] => x = y
    /\ \A y \in DOMAIN a : \E x \in DOMAIN a : p[x] = y
    /\ \A x \in DOMAIN a : x \in lo .. hi \/ p[x] = x
    /\ \A x \in DOMAIN a : b[x] = a[p[x]]

LEMMA RearrangesItself ==
  ASSUME NEW a, NEW lo, NEW hi
  PROVE  Rearranges(a, a, lo, hi)
<1>1. PICK p : p = [x \in DOMAIN a |-> x]
  OBVIOUS
<1> QED BY <1>1 DEF Rearranges

\* The elements elsewhere stay, those at lo .. hi were there before.
LEMMA RearrangedFrom ==
  ASSUME NEW a, NEW b, NEW lo, NEW hi, Rearranges(b, a, lo, hi)
  PROVE  /\ \A x \in DOMAIN a : x \in lo .. hi \/ b[x] = a[x]
         /\ \A x \in DOMAIN a : x \in lo .. hi => \E y \in DOMAIN a : y \in lo .. hi /\ b[x] = a[y]
         /\ \A y \in DOMAIN a : \E x \in DOMAIN a : b[x] = a[y]
<1>1. PICK p \in [DOMAIN a -> DOMAIN a] :
         /\ \A x, y \in DOMAIN a : p[x] = p[y] => x = y
         /\ \A y \in DOMAIN a : \E x \in DOMAIN a : p[x] = y
         /\ \A x \in DOMAIN a : x \in lo .. hi \/ p[x] = x
         /\ \A x \in DOMAIN a : b[x] = a[p[x]]
  BY DEF Rearranges
<1>2. ASSUME NEW x \in DOMAIN a, x \in lo .. hi
      PROVE  \E y \in DOMAIN a : y \in lo .. hi /\ b[x] = a[y]
  <2>1. p[x] \in DOMAIN a /\ b[x] = a[p[x]]
    BY <1>1
  <2>2. p[x] \in lo .. hi
    <3>1. SUFFICES ASSUME ~(p[x] \in lo .. hi) PROVE FALSE
      OBVIOUS
    <3>2. p[p[x]] = p[x]
      BY <1>1, <2>1, <3>1
    <3>3. p[x] = x
      BY <1>1, <2>1, <3>2
    <3> QED BY <1>2, <3>1, <3>3
  <2> QED BY <2>1, <2>2
<1>3. \A y \in DOMAIN a : \E x \in DOMAIN a : b[x] = a[y]
  BY <1>1
<1> QED BY <1>1, <1>2, <1>3

\* One after the other; the second may be of fewer places.
LEMMA RearrangesBoth ==
  ASSUME NEW a, NEW b, NEW c, DOMAIN b = DOMAIN a,
         NEW lo \in Int, NEW hi \in Int, NEW l \in Int, NEW h \in Int, lo <= l, h <= hi,
         Rearranges(b, a, lo, hi), Rearranges(c, b, l, h)
  PROVE  Rearranges(c, a, lo, hi)
<1>1. PICK p \in [DOMAIN a -> DOMAIN a] :
         /\ \A x, y \in DOMAIN a : p[x] = p[y] => x = y
         /\ \A y \in DOMAIN a : \E x \in DOMAIN a : p[x] = y
         /\ \A x \in DOMAIN a : x \in lo .. hi \/ p[x] = x
         /\ \A x \in DOMAIN a : b[x] = a[p[x]]
  BY DEF Rearranges
<1>9. PICK q \in [DOMAIN b -> DOMAIN b] :
         /\ \A x, y \in DOMAIN b : q[x] = q[y] => x = y
         /\ \A y \in DOMAIN b : \E x \in DOMAIN b : q[x] = y
         /\ \A x \in DOMAIN b : x \in l .. h \/ q[x] = x
         /\ \A x \in DOMAIN b : c[x] = b[q[x]]
  BY DEF Rearranges
<1>2. /\ q \in [DOMAIN a -> DOMAIN a]
      /\ \A x, y \in DOMAIN a : q[x] = q[y] => x = y
      /\ \A y \in DOMAIN a : \E x \in DOMAIN a : q[x] = y
      /\ \A x \in DOMAIN a : x \in l .. h \/ q[x] = x
      /\ \A x \in DOMAIN a : c[x] = b[q[x]]
  BY <1>9
<1>3. PICK r : r = [x \in DOMAIN a |-> p[q[x]]]
  OBVIOUS
<1>4. r \in [DOMAIN a -> DOMAIN a]
  BY <1>3
<1>5. \A x, y \in DOMAIN a : r[x] = r[y] => x = y
  BY <1>1, <1>2, <1>3
<1>6. ASSUME NEW y \in DOMAIN a PROVE \E x \in DOMAIN a : r[x] = y
  <2>1. PICK z \in DOMAIN a : p[z] = y
    BY <1>1
  <2>2. PICK x \in DOMAIN a : q[x] = z
    BY <1>2
  <2> QED BY <1>3, <2>1, <2>2
<1>7. ASSUME NEW x \in DOMAIN a, ~(x \in lo .. hi) PROVE r[x] = x
  <2>1. ~(x \in l .. h)
    BY <1>7
  <2> QED BY <1>1, <1>2, <1>3, <1>7, <2>1
<1>8. \A x \in DOMAIN a : c[x] = a[r[x]]
  BY <1>1, <1>2, <1>3
<1> QED BY <1>4, <1>5, <1>6, <1>7, <1>8 DEF Rearranges

\* The lists of n names.
ListsOf(n) == [1 .. n -> Names]

\* An exchange of two elements.
LEMMA SwapRearranges ==
  ASSUME NEW n \in Nat, NEW a \in ListsOf(n), NEW i \in 0 .. n - 1, NEW j \in 0 .. n - 1,
         NEW lo \in Int, NEW hi \in Int, {i + 1, j + 1} \subseteq lo .. hi
  PROVE  /\ Swap(a, i, j) \in ListsOf(n)
         /\ At(Swap(a, i, j), i) = At(a, j) /\ At(Swap(a, i, j), j) = At(a, i)
         /\ \A k \in 0 .. n - 1 : k \notin {i, j} => At(Swap(a, i, j), k) = At(a, k)
         /\ Rearranges(Swap(a, i, j), a, lo, hi)
<1>1. PICK b : b = Swap(a, i, j)
  OBVIOUS
<1>2. i + 1 \in 1 .. n /\ j + 1 \in 1 .. n
  OBVIOUS
<1>3. b = [a EXCEPT ![i + 1] = a[j + 1], ![j + 1] = a[i + 1]]
  BY <1>1 DEF Swap, At
<1>4. b \in ListsOf(n) /\ b[i + 1] = a[j + 1] /\ b[j + 1] = a[i + 1]
      /\ \A x \in 1 .. n : x \notin {i + 1, j + 1} => b[x] = a[x]
  BY <1>2, <1>3 DEF ListsOf
<1>5. ASSUME NEW k \in 0 .. n - 1, k \notin {i, j} PROVE b[k + 1] = a[k + 1]
  <2>1. k + 1 \in 1 .. n /\ k + 1 \notin {i + 1, j + 1}
    BY <1>5
  <2> QED BY <1>4, <2>1
<1>6. Rearranges(b, a, lo, hi)
  <2>1. PICK p : p = [x \in 1 .. n |-> IF x = i + 1 THEN j + 1 ELSE IF x = j + 1 THEN i + 1 ELSE x]
    OBVIOUS
  <2>2. p \in [1 .. n -> 1 .. n] /\ \A x \in 1 .. n : p[p[x]] = x
    BY <1>2, <2>1
  <2>3. DOMAIN a = 1 .. n
    BY DEF ListsOf
  <2>4. \A x, y \in 1 .. n : p[x] = p[y] => x = y
    BY <2>2
  <2>5. \A y \in 1 .. n : \E x \in 1 .. n : p[x] = y
    BY <2>2
  <2>6. \A x \in 1 .. n : x \in lo .. hi \/ p[x] = x
    BY <2>1
  <2>7. \A x \in 1 .. n : b[x] = a[p[x]]
    BY <1>4, <2>1
  <2> QED BY <2>2, <2>3, <2>4, <2>5, <2>6, <2>7 DEF Rearranges
<1> QED BY <1>1, <1>4, <1>5, <1>6 DEF At

------------------------------------------------------------------------------
(* The order. *)

\* strcmp(3) orders the names: their ranks are numbers.
LEMMA RankIsNumber ==
  ASSUME NEW a \in Names
  PROVE  Rank(a) \in Nat /\ Rank(a) \in DOMAIN NamesInOrder /\ NamesInOrder[Rank(a)] = a
<1>1. \E k \in DOMAIN NamesInOrder : NamesInOrder[k] = a
  BY DEF Names
<1>2. Rank(a) \in DOMAIN NamesInOrder /\ NamesInOrder[Rank(a)] = a
  BY <1>1 DEF Rank
<1>3. DOMAIN NamesInOrder \subseteq Nat
  BY SortingAssumption
<1> QED BY <1>2, <1>3

\* Two names of the same rank are the same.
LEMMA RankTells ==
  ASSUME NEW a \in Names, NEW b \in Names
  PROVE  a # b /\ NotAfter(a, b) => Rank(a) < Rank(b)
<1>1. Rank(a) = Rank(b) => a = b
  BY RankIsNumber
<1> QED BY <1>1, RankIsNumber DEF NotAfter

LEMMA OrderIsTotal ==
  ASSUME NEW a \in Names, NEW b \in Names, NEW c \in Names
  PROVE  /\ NotAfter(a, a) /\ (NotAfter(a, b) \/ NotAfter(b, a))
         /\ NotAfter(a, b) /\ NotAfter(b, c) => NotAfter(a, c)
BY RankIsNumber DEF NotAfter

------------------------------------------------------------------------------
(* The partition. *)

\* A turn of its loop.
Compare(l, pivot, j) ==
  IF NotAfter(At(l.list, j), pivot)
  THEN [list |-> Swap(l.list, l.i + 1, j), i |-> l.i + 1]
  ELSE l

\* What its loop computes.
Scans(s, list, begin, end) ==
  s = [j \in begin - 1 .. end - 1 |->
         IF j = begin - 1 THEN [list |-> list, i |-> begin - 1]
         ELSE LET l == s[j - 1]
              IN IF NotAfter(At(l.list, j), At(list, end))
                 THEN [list |-> Swap(l.list, l.i + 1, j), i |-> l.i + 1]
                 ELSE l]

\* When j was compared: what is not after the pivot comes first, up to i.
Scanned(l, list, n, begin, end, j) ==
  /\ l \in [list : ListsOf(n), i : Int]
  /\ begin - 1 <= l.i /\ l.i <= j
  /\ Rearranges(l.list, list, begin + 1, j + 1)
  /\ \A k \in begin .. l.i : NotAfter(At(l.list, k), At(list, end))
  /\ \A k \in l.i + 1 .. j : ~NotAfter(At(l.list, k), At(list, end))

\* A rearrangement of some places is one of more places.
LEMMA RearrangesMore ==
  ASSUME NEW a, NEW b, NEW lo \in Int, NEW hi \in Int, NEW l \in Int, NEW h \in Int,
         lo <= l, h <= hi, Rearranges(b, a, l, h)
  PROVE  Rearranges(b, a, lo, hi)
BY RearrangesItself, RearrangesBoth

LEMMA CompareKeeps ==
  ASSUME NEW n \in Nat, NEW list \in ListsOf(n),
         NEW begin \in Nat, NEW end \in Nat, begin < end, end <= n - 1,
         NEW j \in begin .. end - 1, NEW l, Scanned(l, list, n, begin, end, j - 1)
  PROVE  Scanned(Compare(l, At(list, end), j), list, n, begin, end, j)
<1> DEFINE pivot == At(list, end)
<1>1. /\ l.list \in ListsOf(n) /\ l.i \in Int /\ l \in [list : ListsOf(n), i : Int]
      /\ begin - 1 <= l.i /\ l.i <= j - 1
      /\ \A k \in begin .. l.i : NotAfter(At(l.list, k), pivot)
      /\ \A k \in l.i + 1 .. j - 1 : ~NotAfter(At(l.list, k), pivot)
      /\ Rearranges(l.list, list, begin + 1, j - 1 + 1)
  BY DEF Scanned
<1>2. Rearranges(l.list, list, begin + 1, j + 1)
  <2>1. /\ begin + 1 \in Int /\ j + 1 \in Int /\ j - 1 + 1 \in Int
        /\ begin + 1 <= begin + 1 /\ j - 1 + 1 <= j + 1
    OBVIOUS
  <2> QED BY <1>1, <2>1, RearrangesMore
<1> HIDE DEF pivot
<1>3. CASE ~NotAfter(At(l.list, j), pivot)
  <2>1. Compare(l, pivot, j) = l
    BY <1>3 DEF Compare
  <2>2. ASSUME NEW k \in l.i + 1 .. j PROVE ~NotAfter(At(l.list, k), pivot)
    <3>1. k = j \/ k \in l.i + 1 .. j - 1
      BY <1>1
    <3> QED BY <1>1, <1>3, <3>1
  <2>3. Scanned(l, list, n, begin, end, j)
    BY <1>1, <1>2, <2>2 DEF Scanned, pivot
  <2> QED BY <2>1, <2>3 DEF pivot
<1>4. CASE NotAfter(At(l.list, j), pivot)
  <2>1. PICK i : i = l.i + 1
    OBVIOUS
  <2>2. PICK m : m = Swap(l.list, i, j)
    OBVIOUS
  <2>3. i \in 0 .. n - 1 /\ j \in 0 .. n - 1 /\ i <= j /\ begin <= i /\ l.i = i - 1
    BY <1>1, <2>1
  <2>4. /\ m \in ListsOf(n) /\ At(m, i) = At(l.list, j) /\ At(m, j) = At(l.list, i)
        /\ \A k \in 0 .. n - 1 : k \notin {i, j} => At(m, k) = At(l.list, k)
        /\ Rearranges(m, l.list, begin + 1, j + 1)
    <3>1. begin + 1 \in Int /\ j + 1 \in Int /\ {i + 1, j + 1} \subseteq begin + 1 .. j + 1
      BY <2>3
    <3> QED BY <1>1, <2>2, <2>3, <3>1, SwapRearranges
  <2>5. Rearranges(m, list, begin + 1, j + 1)
    <3>1. DOMAIN l.list = DOMAIN list
      BY <1>1 DEF ListsOf
    <3>2. begin + 1 \in Int /\ j + 1 \in Int /\ begin + 1 <= begin + 1 /\ j + 1 <= j + 1
      OBVIOUS
    <3> QED BY <1>2, <2>4, <3>1, <3>2, RearrangesBoth
  <2>6. ASSUME NEW k \in begin .. i PROVE NotAfter(At(m, k), pivot)
    <3>1. CASE k = i
      BY <1>4, <2>4, <3>1
    <3>2. CASE k # i
      <4>1. k \in begin .. l.i /\ k \in 0 .. n - 1 /\ k \notin {i, j}
        BY <2>3, <3>2
      <4> QED BY <1>1, <2>4, <4>1
    <3> QED BY <3>1, <3>2
  <2>7. ASSUME NEW k \in i + 1 .. j PROVE ~NotAfter(At(m, k), pivot)
    <3>1. CASE k = j
      <4>1. i \in l.i + 1 .. j - 1
        BY <2>3, <3>1
      <4> QED BY <1>1, <2>4, <3>1, <4>1
    <3>2. CASE k # j
      <4>1. k \in l.i + 1 .. j - 1 /\ k \in 0 .. n - 1 /\ k \notin {i, j}
        BY <2>3, <3>2
      <4> QED BY <1>1, <2>4, <4>1
    <3> QED BY <3>1, <3>2
  <2>8. PICK c : c = [list |-> m, i |-> i]
    OBVIOUS
  <2>9. c = Compare(l, pivot, j)
    BY <1>4, <2>1, <2>2, <2>8 DEF Compare
  <2>10. c.list = m /\ c.i = i /\ c \in [list : ListsOf(n), i : Int] /\ begin - 1 <= i
    BY <2>3, <2>4, <2>8
  <2>11. Scanned(c, list, n, begin, end, j)
    BY <2>3, <2>5, <2>6, <2>7, <2>10 DEF Scanned, pivot
  <2> QED BY <2>9, <2>11 DEF pivot
<1> QED BY <1>3, <1>4 DEF pivot

\* Before the loop.
LEMMA ScanStarts ==
  ASSUME NEW n \in Nat, NEW list \in ListsOf(n), NEW begin \in Nat, NEW end \in Nat
  PROVE  Scanned([list |-> list, i |-> begin - 1], list, n, begin, end, begin - 1)
<1>1. begin .. begin - 1 = {} /\ begin - 1 + 1 .. begin - 1 = {}
  OBVIOUS
<1>2. PICK l : l = [list |-> list, i |-> begin - 1]
  OBVIOUS
<1>3. l.list = list /\ l.i = begin - 1 /\ l \in [list : ListsOf(n), i : Int]
  BY <1>2
<1> QED BY <1>1, <1>2, <1>3, RearrangesItself DEF Scanned

LEMMA ScanExists ==
  ASSUME NEW n \in Nat, NEW list \in ListsOf(n),
         NEW begin \in Nat, NEW end \in Nat, begin < end, end <= n - 1
  PROVE  \E s : Scans(s, list, begin, end)
<1>0. PICK m \in Nat : m = end - begin
  OBVIOUS
<1>a. PICK S, start : S = [list : ListsOf(n), i : Int] /\ start = [list |-> list, i |-> begin - 1]
  OBVIOUS
<1>b. PICK T : T = [k \in 0 .. m |-> {l \in S : Scanned(l, list, n, begin, end, begin - 1 + k)}]
  OBVIOUS
<1>c. PICK g : g = [k \in 1 .. m |-> [l \in S |-> Compare(l, At(list, end), begin - 1 + k)]]
  OBVIOUS
<1>1. T \in [0 .. m -> SUBSET S]
  BY <1>b
<1>2. start \in T[0]
  <2>1. start \in S /\ 0 \in 0 .. m /\ begin - 1 + 0 = begin - 1
    BY <1>a
  <2>2. Scanned(start, list, n, begin, end, begin - 1)
    BY <1>a, ScanStarts
  <2> QED BY <1>b, <2>1, <2>2
<1>3. ASSUME NEW k \in 1 .. m, NEW v \in T[k - 1] PROVE g[k][v] \in T[k]
  <2>1. k - 1 \in 0 .. m /\ k \in 0 .. m
    OBVIOUS
  <2>2. PICK j : j = begin - 1 + k
    OBVIOUS
  <2>3. j \in begin .. end - 1 /\ begin - 1 + (k - 1) = j - 1
    BY <1>0, <2>2
  <2>4. v \in S /\ Scanned(v, list, n, begin, end, j - 1)
    BY <1>b, <2>1, <2>3
  <2>5. Scanned(Compare(v, At(list, end), j), list, n, begin, end, j)
    BY <2>3, <2>4, CompareKeeps
  <2>6. Compare(v, At(list, end), j) \in S
    BY <1>a, <2>5 DEF Scanned
  <2>7. g[k][v] = Compare(v, At(list, end), j)
    BY <1>c, <2>2, <2>4
  <2> QED BY <1>b, <2>1, <2>2, <2>5, <2>6, <2>7
<1>4. PICK f \in [0 .. m -> S] :
        /\ f[0] = start /\ \A k \in 1 .. m : f[k] = g[k][f[k - 1]]
  <2>1. Maps(g, T, m)
    BY <1>3 DEF Maps
  <2>2. PICK f \in [0 .. m -> S] : Iterates(f, g, start, T, m)
    BY <1>1, <1>2, <2>1, IterationExists
  <2> QED BY <2>2 DEF Iterates
<1>5. PICK s : s = [j \in begin - 1 .. end - 1 |-> f[j - begin + 1]]
  OBVIOUS
<1>6. ASSUME NEW j \in begin - 1 .. end - 1
      PROVE  s[j] = IF j = begin - 1 THEN [list |-> list, i |-> begin - 1]
                    ELSE Compare(s[j - 1], At(list, end), j)
  <2>1. CASE j = begin - 1
    <3>1. j - begin + 1 = 0
      BY <2>1
    <3> QED BY <1>a, <1>4, <1>5, <2>1, <3>1
  <2>2. CASE j # begin - 1
    <3>1. PICK k : k = j - begin + 1
      OBVIOUS
    <3>2. k \in 1 .. m /\ k - 1 \in 0 .. m /\ begin - 1 + k = j
          /\ j - 1 \in begin - 1 .. end - 1 /\ j - 1 - begin + 1 = k - 1
      BY <1>0, <2>2, <3>1
    <3>3. s[j] = f[k] /\ s[j - 1] = f[k - 1] /\ f[k - 1] \in S
      BY <1>4, <1>5, <3>1, <3>2
    <3>4. g[k][f[k - 1]] = Compare(f[k - 1], At(list, end), j)
      BY <1>c, <3>2, <3>3
    <3> QED BY <1>4, <2>2, <3>2, <3>3, <3>4
  <2> QED BY <2>1, <2>2
<1>7. Scans(s, list, begin, end)
  BY <1>5, <1>6 DEF Scans, Compare
<1> QED BY <1>7

\* The whole loop.
LEMMA ScanKeeps ==
  ASSUME NEW n \in Nat, NEW list \in ListsOf(n),
         NEW begin \in Nat, NEW end \in Nat, begin < end, end <= n - 1,
         NEW s, Scans(s, list, begin, end)
  PROVE  Scanned(s[end - 1], list, n, begin, end, end - 1)
<1>1. ASSUME NEW j \in begin - 1 .. end - 1
      PROVE  s[j] = IF j = begin - 1 THEN [list |-> list, i |-> begin - 1]
                    ELSE Compare(s[j - 1], At(list, end), j)
  BY DEF Scans, Compare
<1> DEFINE P == {k \in Nat : Scanned(s[begin - 1 + k], list, n, begin, end, begin - 1 + k)}
<1>2. 0 \in P
  <2>1. begin - 1 + 0 = begin - 1 /\ begin - 1 \in begin - 1 .. end - 1
    OBVIOUS
  <2>2. s[begin - 1] = [list |-> list, i |-> begin - 1]
    BY <1>1, <2>1
  <2> QED BY <2>1, <2>2, ScanStarts
<1>3. ASSUME NEW k \in 1 .. end - begin, k - 1 \in P PROVE k \in P
  <2>1. PICK j : j = begin - 1 + k
    OBVIOUS
  <2>2. j \in begin .. end - 1 /\ begin - 1 + (k - 1) = j - 1 /\ j \in begin - 1 .. end - 1
        /\ j # begin - 1
    BY <2>1
  <2>3. Scanned(s[j - 1], list, n, begin, end, j - 1)
    BY <1>3, <2>2
  <2>4. s[j] = Compare(s[j - 1], At(list, end), j)
    BY <1>1, <2>2
  <2>5. Scanned(s[j], list, n, begin, end, j)
    BY <2>2, <2>3, <2>4, CompareKeeps
  <2> QED BY <2>1, <2>5
<1>4. \A k \in 0 .. end - begin : k \in P
  <2> HIDE DEF P
  <2>1. end - begin \in Int
    OBVIOUS
  <2> QED BY <1>2, <1>3, <2>1, StepByStep
<1>5. end - begin \in P
  BY <1>4
<1>6. begin - 1 + (end - begin) = end - 1
  OBVIOUS
<1> QED BY <1>5, <1>6

LEMMA PartitionIs ==
  ASSUME NEW n \in Nat, NEW list \in ListsOf(n),
         NEW begin \in Nat, NEW end \in Nat, begin < end, end <= n - 1
  PROVE  \E s : /\ Scans(s, list, begin, end)
                /\ partition(list, begin, end) =
                     [list |-> Swap(s[end - 1].list, s[end - 1].i + 1, end), i |-> s[end - 1].i + 1]
<1>1. PICK s : s = CHOOSE f : Scans(f, list, begin, end)
  OBVIOUS
<1>2. Scans(s, list, begin, end)
  BY <1>1, ScanExists
<1>3. s = CHOOSE f :
        f = [j \in begin - 1 .. end - 1 |->
              IF j = begin - 1 THEN [list |-> list, i |-> begin - 1]
              ELSE LET l == f[j - 1]
                   IN IF NotAfter(At(l.list, j), At(list, end))
                      THEN [list |-> Swap(l.list, l.i + 1, j), i |-> l.i + 1]
                      ELSE l]
  BY <1>1 DEF Scans
<1>4. partition(list, begin, end) =
        [list |-> Swap(s[end - 1].list, s[end - 1].i + 1, end), i |-> s[end - 1].i + 1]
  BY <1>3 DEF partition, LastCompared
<1> QED BY <1>2, <1>4

\* The partition rearranges its range: what is not after the pivot, the pivot
\* at the place it returns, what is after it.
LEMMA PartitionSplits ==
  ASSUME NEW n \in Nat, NEW list \in ListsOf(n),
         NEW begin \in Nat, NEW end \in Nat, begin < end, end <= n - 1,
         NEW p, p = partition(list, begin, end)
  PROVE  /\ p.list \in ListsOf(n) /\ p.i \in begin .. end
         /\ Rearranges(p.list, list, begin + 1, end + 1)
         /\ \A k \in begin .. p.i - 1 : NotAfter(At(p.list, k), At(p.list, p.i))
         /\ \A k \in p.i + 1 .. end : NotAfter(At(p.list, p.i), At(p.list, k))
<1>1. PICK s : /\ Scans(s, list, begin, end)
               /\ p = [list |-> Swap(s[end - 1].list, s[end - 1].i + 1, end), i |-> s[end - 1].i + 1]
  BY PartitionIs
<1>2. PICK l : l = s[end - 1]
  OBVIOUS
<1>3. Scanned(l, list, n, begin, end, end - 1)
  BY <1>1, <1>2, ScanKeeps
<1>4. PICK i : i = l.i + 1
  OBVIOUS
<1>5. /\ l.list \in ListsOf(n) /\ i \in Int /\ l.i = i - 1 /\ begin <= i /\ i <= end
      /\ Rearranges(l.list, list, begin + 1, end - 1 + 1)
      /\ \A k \in begin .. i - 1 : NotAfter(At(l.list, k), At(list, end))
      /\ \A k \in i .. end - 1 : ~NotAfter(At(l.list, k), At(list, end))
  BY <1>3, <1>4 DEF Scanned
<1>6. p.i = i /\ p.list = Swap(l.list, i, end)
  BY <1>1, <1>2, <1>4
<1>7. i \in 0 .. n - 1 /\ end \in 0 .. n - 1 /\ i \in begin .. end
  BY <1>5
<1>8. At(l.list, end) = At(list, end)
  <2>1. end + 1 \in DOMAIN list /\ ~(end + 1 \in begin + 1 .. end - 1 + 1)
    BY DEF ListsOf
  <2> QED BY <1>5, <2>1, RearrangedFrom DEF At
<1>9. PICK m : m = p.list
  OBVIOUS
<1>10. /\ m \in ListsOf(n) /\ At(m, i) = At(list, end) /\ At(m, end) = At(l.list, i)
       /\ \A k \in 0 .. n - 1 : k \notin {i, end} => At(m, k) = At(l.list, k)
       /\ Rearranges(m, l.list, begin + 1, end + 1)
  <2>1. begin + 1 \in Int /\ end + 1 \in Int /\ {i + 1, end + 1} \subseteq begin + 1 .. end + 1
    BY <1>7
  <2> QED BY <1>5, <1>6, <1>7, <1>8, <1>9, <2>1, SwapRearranges
<1>11. Rearranges(m, list, begin + 1, end + 1)
  <2>1. /\ begin + 1 \in Int /\ end + 1 \in Int /\ end - 1 + 1 \in Int
        /\ begin + 1 <= begin + 1 /\ end - 1 + 1 <= end + 1 /\ end + 1 <= end + 1
    OBVIOUS
  <2>2. Rearranges(l.list, list, begin + 1, end + 1)
    BY <1>5, <2>1, RearrangesMore
  <2>3. DOMAIN l.list = DOMAIN list
    BY <1>5 DEF ListsOf
  <2> QED BY <1>10, <2>1, <2>2, <2>3, RearrangesBoth
<1>12. ASSUME NEW k \in begin .. i - 1 PROVE NotAfter(At(m, k), At(m, i))
  <2>1. k \in 0 .. n - 1 /\ k \notin {i, end}
    BY <1>7
  <2> QED BY <1>5, <1>10, <2>1
<1>13. ASSUME NEW k \in i + 1 .. end PROVE NotAfter(At(m, i), At(m, k))
  <2>1. PICK x : x = IF k = end THEN i ELSE k
    OBVIOUS
  <2>2. k \in 0 .. n - 1 /\ x \in i .. end - 1 /\ (k # end => k \notin {i, end})
    BY <1>7, <2>1
  <2>3. At(m, k) = At(l.list, x)
    BY <1>10, <2>1, <2>2
  <2>4. ~NotAfter(At(m, k), At(m, i))
    BY <1>5, <1>10, <2>2, <2>3
  <2>5. At(m, k) \in Names /\ At(m, i) \in Names
    BY <1>7, <1>10, <2>2 DEF At, ListsOf
  <2> QED BY <2>4, <2>5, OrderIsTotal
<1> QED BY <1>6, <1>7, <1>9, <1>10, <1>11, <1>12, <1>13

------------------------------------------------------------------------------
(* The sort. *)

\* A call, when f is what the calls it makes return.
SortCall(f, r) ==
  IF r.begin < r.end /\ r.begin >= 0
  THEN LET p    == partition(r.list, r.begin, r.end)
           left == f[Slice(p.list, r.begin, p.i - 1)]
       IN f[Slice(left, p.i + 1, r.end)]
  ELSE r.list

\* What quick_sort_list computes.
Sorts(f, n) == f = [r \in Ranges(n) |-> SortCall(f, r)]

\* The ranges of the calls that are made.
LEMMA CallRanges ==
  ASSUME NEW n \in Nat, NEW r \in Ranges(n), r.begin < r.end, r.begin >= 0,
         NEW p, p = partition(r.list, r.begin, r.end)
  PROVE  /\ r.list \in ListsOf(n) /\ r.begin \in Nat /\ r.end \in Nat /\ r.end <= n - 1
         /\ p.list \in ListsOf(n) /\ p.i \in r.begin .. r.end
         /\ \A l \in ListsOf(n) : /\ Slice(l, r.begin, p.i - 1) \in Ranges(n)
                                  /\ Slice(l, p.i + 1, r.end) \in Ranges(n)
<1>1. /\ r.list \in ListsOf(n) /\ r.begin \in 0 .. n /\ r.end \in -1 .. n - 1
  BY DEF Ranges, ListsOf
<1>2. r.begin \in Nat /\ r.end \in Nat /\ r.end <= n - 1
  BY <1>1
<1>3. p.list \in ListsOf(n) /\ p.i \in r.begin .. r.end
  BY <1>1, <1>2, PartitionSplits
<1>4. p.i - 1 \in -1 .. n - 1 /\ p.i + 1 \in 0 .. n
  BY <1>2, <1>3
<1>5. ASSUME NEW l \in ListsOf(n)
      PROVE  /\ Slice(l, r.begin, p.i - 1) \in Ranges(n)
             /\ Slice(l, p.i + 1, r.end) \in Ranges(n)
  BY <1>1, <1>4 DEF Slice, Ranges, ListsOf
<1> QED BY <1>1, <1>2, <1>3, <1>5

\* Calls return lists when those they make do.
LEMMA CallReturns ==
  ASSUME NEW n \in Nat, NEW f \in [Ranges(n) -> ListsOf(n)], NEW r \in Ranges(n)
  PROVE  SortCall(f, r) \in ListsOf(n)
<1>1. CASE ~(r.begin < r.end /\ r.begin >= 0)
  BY <1>1 DEF SortCall, Ranges, ListsOf
<1>2. CASE r.begin < r.end /\ r.begin >= 0
  <2>1. PICK p : p = partition(r.list, r.begin, r.end)
    OBVIOUS
  <2>2. PICK left : left = f[Slice(p.list, r.begin, p.i - 1)]
    OBVIOUS
  <2>3. left \in ListsOf(n)
    BY <1>2, <2>1, <2>2, CallRanges
  <2>4. f[Slice(left, p.i + 1, r.end)] \in ListsOf(n)
    BY <1>2, <2>1, <2>3, CallRanges
  <2> QED BY <1>2, <2>1, <2>2, <2>4 DEF SortCall
<1> QED BY <1>1, <1>2

\* Calls return the same when those of fewer places do.
LEMMA CallUses ==
  ASSUME NEW n \in Nat, NEW f \in [Ranges(n) -> ListsOf(n)], NEW g \in [Ranges(n) -> ListsOf(n)],
         NEW r \in Ranges(n),
         \A s \in Ranges(n) : s.end - s.begin < r.end - r.begin => f[s] = g[s]
  PROVE  SortCall(f, r) = SortCall(g, r)
<1>1. CASE ~(r.begin < r.end /\ r.begin >= 0)
  BY <1>1 DEF SortCall
<1>2. CASE r.begin < r.end /\ r.begin >= 0
  <2>1. PICK p : p = partition(r.list, r.begin, r.end)
    OBVIOUS
  <2>2. PICK a : a = Slice(p.list, r.begin, p.i - 1)
    OBVIOUS
  <2>3. a \in Ranges(n) /\ a.end - a.begin < r.end - r.begin
    <3>1. a \in Ranges(n) /\ p.i \in r.begin .. r.end /\ r.begin \in Nat /\ r.end \in Nat
      BY <1>2, <2>1, <2>2, CallRanges
    <3>2. a.end = p.i - 1 /\ a.begin = r.begin
      BY <2>2 DEF Slice
    <3> QED BY <3>1, <3>2
  <2>4. f[a] = g[a] /\ f[a] \in ListsOf(n)
    BY <2>3
  <2>5. PICK b : b = Slice(f[a], p.i + 1, r.end)
    OBVIOUS
  <2>6. b \in Ranges(n) /\ b.end - b.begin < r.end - r.begin
    <3>1. b \in Ranges(n) /\ p.i \in r.begin .. r.end /\ r.begin \in Nat /\ r.end \in Nat
      BY <1>2, <2>1, <2>4, <2>5, CallRanges
    <3>2. b.end = r.end /\ b.begin = p.i + 1
      BY <2>5 DEF Slice
    <3> QED BY <3>1, <3>2
  <2>7. f[b] = g[b]
    BY <2>6
  <2> QED BY <1>2, <2>1, <2>2, <2>4, <2>5, <2>7 DEF SortCall
<1> QED BY <1>1, <1>2

\* There is such a function: the calls of at most m places, for every m.
LEMMA SortExists ==
  ASSUME NEW n \in Nat
  PROVE  \E f \in [Ranges(n) -> ListsOf(n)] : Sorts(f, n)
<1>1. PICK S : S = [Ranges(n) -> ListsOf(n)]
  OBVIOUS
<1>2. PICK T : T = [k \in 0 .. n + 1 |-> S]
  OBVIOUS
<1>3. PICK a : a = [r \in Ranges(n) |-> r.list]
  OBVIOUS
<1>4. PICK g : g = [k \in 1 .. n + 1 |-> [f \in S |-> [r \in Ranges(n) |-> SortCall(f, r)]]]
  OBVIOUS
<1>5. T \in [0 .. n + 1 -> SUBSET S] /\ a \in T[0]
  <2>1. a \in S
    BY <1>1, <1>3 DEF Ranges, ListsOf
  <2> QED BY <1>2, <2>1
<1>6. ASSUME NEW k \in 1 .. n + 1, NEW f \in S
      PROVE  g[k][f] = [r \in Ranges(n) |-> SortCall(f, r)] /\ g[k][f] \in S
  <2>1. g[k][f] = [r \in Ranges(n) |-> SortCall(f, r)]
    BY <1>4
  <2>2. \A r \in Ranges(n) : SortCall(f, r) \in ListsOf(n)
    BY <1>1, CallReturns
  <2> QED BY <1>1, <2>1, <2>2
<1>7. Maps(g, T, n + 1)
  <2>1. ASSUME NEW k \in 1 .. n + 1, NEW f \in T[k - 1] PROVE g[k][f] \in T[k]
    <3>1. T[k - 1] = S /\ T[k] = S
      BY <1>2
    <3> QED BY <1>6, <3>1
  <2> QED BY <2>1 DEF Maps
<1>8. PICK h \in [0 .. n + 1 -> S] : Iterates(h, g, a, T, n + 1)
  <2>1. PICK m \in Nat : m = n + 1
    OBVIOUS
  <2>2. T \in [0 .. m -> SUBSET S] /\ Maps(g, T, m)
    BY <1>5, <1>7, <2>1
  <2>3. \E h \in [0 .. m -> S] : Iterates(h, g, a, T, m)
    BY <1>5, <2>2, IterationExists
  <2> QED BY <2>1, <2>3
<1>9. h[0] = a /\ \A k \in 1 .. n + 1 : \A r \in Ranges(n) : h[k][r] = SortCall(h[k - 1], r)
  <2>1. h[0] = a /\ \A k \in 1 .. n + 1 : h[k] = g[k][h[k - 1]]
    BY <1>8 DEF Iterates
  <2>2. \A k \in 1 .. n + 1 : h[k - 1] \in S
    OBVIOUS
  <2>3. ASSUME NEW k \in 1 .. n + 1, NEW r \in Ranges(n) PROVE h[k][r] = SortCall(h[k - 1], r)
    <3>1. h[k] = [q \in Ranges(n) |-> SortCall(h[k - 1], q)]
      BY <1>6, <2>1, <2>2
    <3> QED BY <3>1
  <2> QED BY <2>1, <2>3
<1> DEFINE P == {k \in 0 .. n : \A r \in Ranges(n) : r.end - r.begin <= k => h[k + 1][r] = h[k][r]}
<1>10. 0 \in P
  <2>1. ASSUME NEW r \in Ranges(n), r.end - r.begin <= 0 PROVE h[0 + 1][r] = h[0][r]
    <3>1. ~(r.begin < r.end)
      BY <2>1 DEF Ranges
    <3>2. SortCall(h[0], r) = r.list
      BY <3>1 DEF SortCall
    <3>3. 1 \in 1 .. n + 1 /\ 1 - 1 = 0 /\ 0 + 1 = 1
      OBVIOUS
    <3>4. h[1][r] = SortCall(h[0], r)
      BY <1>9, <3>3
    <3> QED BY <1>3, <1>9, <3>2, <3>3, <3>4
  <2> QED BY <2>1
<1>11. ASSUME NEW k \in 1 .. n, k - 1 \in P PROVE k \in P
  <2>1. ASSUME NEW r \in Ranges(n), r.end - r.begin <= k PROVE h[k + 1][r] = h[k][r]
    <3>1. k \in 0 .. n + 1 /\ k - 1 \in 0 .. n + 1 /\ k - 1 + 1 = k /\ k + 1 - 1 = k
          /\ k + 1 \in 1 .. n + 1 /\ k \in 1 .. n + 1
      OBVIOUS
    <3>2. h[k] \in S /\ h[k - 1] \in S
      BY <3>1
    <3>3. ASSUME NEW s \in Ranges(n), s.end - s.begin < r.end - r.begin PROVE h[k][s] = h[k - 1][s]
      <4>1. s.end - s.begin <= k - 1
        BY <2>1, <3>3 DEF Ranges
      <4> QED BY <1>11, <3>1, <4>1
    <3>4. SortCall(h[k], r) = SortCall(h[k - 1], r)
      BY <1>1, <3>2, <3>3, CallUses
    <3>5. h[k + 1][r] = SortCall(h[k], r) /\ h[k][r] = SortCall(h[k - 1], r)
      <4>1. h[k + 1][r] = SortCall(h[k + 1 - 1], r)
        BY <1>9, <3>1
      <4>2. h[k][r] = SortCall(h[k - 1], r)
        BY <1>9, <3>1
      <4> QED BY <3>1, <4>1, <4>2
    <3> QED BY <3>4, <3>5
  <2>2. k \in 0 .. n
    OBVIOUS
  <2> QED BY <2>1, <2>2
<1>12. n \in P
  <2>1. \A k \in 0 .. n : k \in P
    <3> HIDE DEF P
    <3> QED BY <1>10, <1>11, StepByStep
  <2> QED BY <2>1
<1>13. h[n] \in S /\ n + 1 \in 1 .. n + 1 /\ n + 1 - 1 = n /\ n \in 0 .. n + 1
  OBVIOUS
<1>14. ASSUME NEW r \in Ranges(n) PROVE h[n][r] = SortCall(h[n], r)
  <2>1. r.end - r.begin <= n
    BY DEF Ranges
  <2>2. h[n + 1][r] = h[n][r]
    BY <1>12, <2>1
  <2>3. h[n + 1][r] = SortCall(h[n + 1 - 1], r)
    BY <1>9, <1>13
  <2> QED BY <1>13, <2>2, <2>3
<1>15. Sorts(h[n], n)
  BY <1>1, <1>13, <1>14 DEF Sorts
<1> QED BY <1>1, <1>13, <1>15

\* What a call promises: its range is rearranged and in order.
SortsRange(l, r, n) ==
  /\ l \in ListsOf(n)
  /\ Rearranges(l, r.list, r.begin + 1, r.end + 1)
  /\ \A x, y \in r.begin + 1 .. r.end + 1 : x < y => NotAfter(l[x], l[y])

\* A call keeps its promise when those it makes do.
LEMMA CallSorts ==
  ASSUME NEW n \in Nat, NEW f, NEW r \in Ranges(n),
         \A s \in Ranges(n) : s.end - s.begin < r.end - r.begin => SortsRange(f[s], s, n)
  PROVE  SortsRange(SortCall(f, r), r, n)
<1>0. /\ r.list \in ListsOf(n) /\ r.begin \in 0 .. n /\ r.end \in -1 .. n - 1
  BY DEF Ranges, ListsOf
<1>1. CASE ~(r.begin < r.end /\ r.begin >= 0)
  <2>1. SortCall(f, r) = r.list
    BY <1>1 DEF SortCall
  <2>2. \A x, y \in r.begin + 1 .. r.end + 1 : ~(x < y)
    BY <1>0, <1>1
  <2> QED BY <1>0, <2>1, <2>2, RearrangesItself DEF SortsRange
<1>2. CASE r.begin < r.end /\ r.begin >= 0
  <2>1. PICK p : p = partition(r.list, r.begin, r.end)
    OBVIOUS
  <2>2. /\ r.list \in ListsOf(n) /\ r.begin \in Nat /\ r.end \in Nat /\ r.end <= n - 1
        /\ p.list \in ListsOf(n) /\ p.i \in r.begin .. r.end
        /\ \A l \in ListsOf(n) : /\ Slice(l, r.begin, p.i - 1) \in Ranges(n)
                                 /\ Slice(l, p.i + 1, r.end) \in Ranges(n)
    BY <1>2, <2>1, CallRanges
  <2>3. PICK lo \in Nat, hi \in Nat, i \in Nat : lo = r.begin + 1 /\ hi = r.end + 1 /\ i = p.i + 1
    BY <2>2
  <2>4. lo <= i /\ i <= hi /\ hi <= n /\ 1 <= lo
    BY <2>2, <2>3
  <2>5. /\ Rearranges(p.list, r.list, lo, hi)
        /\ \A x \in lo .. i - 1 : NotAfter(p.list[x], p.list[i])
        /\ \A x \in i + 1 .. hi : NotAfter(p.list[i], p.list[x])
    <3>1. /\ Rearranges(p.list, r.list, r.begin + 1, r.end + 1)
          /\ \A k \in r.begin .. p.i - 1 : NotAfter(At(p.list, k), At(p.list, p.i))
          /\ \A k \in p.i + 1 .. r.end : NotAfter(At(p.list, p.i), At(p.list, k))
      BY <1>2, <2>1, <2>2, PartitionSplits
    <3>2. ASSUME NEW x \in lo .. i - 1 PROVE NotAfter(p.list[x], p.list[i])
      <4>1. x - 1 \in r.begin .. p.i - 1 /\ x - 1 + 1 = x
        BY <2>2, <2>3
      <4> QED BY <2>3, <3>1, <4>1 DEF At
    <3>3. ASSUME NEW x \in i + 1 .. hi PROVE NotAfter(p.list[i], p.list[x])
      <4>1. x - 1 \in p.i + 1 .. r.end /\ x - 1 + 1 = x
        BY <2>2, <2>3
      <4> QED BY <2>3, <3>1, <4>1 DEF At
    <3> QED BY <2>3, <3>1, <3>2, <3>3
  <2>6. PICK a : a = Slice(p.list, r.begin, p.i - 1)
    OBVIOUS
  <2>7. PICK left : left = f[a]
    OBVIOUS
  <2>8. /\ left \in ListsOf(n) /\ Rearranges(left, p.list, lo, i - 1)
        /\ \A x, y \in lo .. i - 1 : x < y => NotAfter(left[x], left[y])
    <3>1. a \in Ranges(n) /\ a.list = p.list /\ a.begin + 1 = lo /\ a.end + 1 = i - 1
          /\ a.end = p.i - 1 /\ a.begin = r.begin
      <4>1. a \in Ranges(n)
        BY <2>2, <2>6
      <4>2. a.list = p.list /\ a.begin = r.begin /\ a.end = p.i - 1
        BY <2>6 DEF Slice
      <4> QED BY <2>2, <2>3, <4>1, <4>2
    <3>2. a.end - a.begin < r.end - r.begin
      BY <2>2, <3>1
    <3>3. SortsRange(left, a, n)
      BY <2>7, <3>1, <3>2
    <3> QED BY <3>1, <3>3 DEF SortsRange
  <2>9. PICK b : b = Slice(left, p.i + 1, r.end)
    OBVIOUS
  <2>10. PICK right : right = f[b]
    OBVIOUS
  <2>11. /\ right \in ListsOf(n) /\ Rearranges(right, left, i + 1, hi)
         /\ \A x, y \in i + 1 .. hi : x < y => NotAfter(right[x], right[y])
    <3>1. b \in Ranges(n) /\ b.list = left /\ b.begin + 1 = i + 1 /\ b.end + 1 = hi
          /\ b.end = r.end /\ b.begin = p.i + 1
      <4>1. b \in Ranges(n)
        BY <2>2, <2>8, <2>9
      <4>2. b.list = left /\ b.begin = p.i + 1 /\ b.end = r.end
        BY <2>9 DEF Slice
      <4> QED BY <2>2, <2>3, <4>1, <4>2
    <3>2. b.end - b.begin < r.end - r.begin
      BY <2>2, <3>1
    <3>3. SortsRange(right, b, n)
      BY <2>10, <3>1, <3>2
    <3> QED BY <3>1, <3>3 DEF SortsRange
  <2>12. SortCall(f, r) = right
    BY <1>2, <2>1, <2>6, <2>7, <2>9, <2>10 DEF SortCall
  <2>13. DOMAIN r.list = 1 .. n /\ DOMAIN p.list = 1 .. n /\ DOMAIN left = 1 .. n
         /\ DOMAIN right = 1 .. n
    BY <2>2, <2>8, <2>11 DEF ListsOf
  <2>14. Rearranges(right, r.list, lo, hi)
    <3>1. i - 1 \in Int /\ i + 1 \in Int /\ lo <= lo /\ hi <= hi /\ i - 1 <= hi /\ lo <= i + 1
      BY <2>4
    <3>2. Rearranges(left, r.list, lo, hi)
      BY <2>5, <2>8, <2>13, <3>1, RearrangesBoth
    <3> QED BY <2>11, <2>13, <3>1, <3>2, RearrangesBoth
  <2>19. /\ \A x \in 1 .. n : x \in lo .. i - 1 \/ left[x] = p.list[x]
         /\ \A x \in 1 .. n : x \in lo .. i - 1 =>
              \E y \in 1 .. n : y \in lo .. i - 1 /\ left[x] = p.list[y]
    <3>1. /\ \A x \in DOMAIN p.list : x \in lo .. i - 1 \/ left[x] = p.list[x]
          /\ \A x \in DOMAIN p.list : x \in lo .. i - 1 =>
               \E y \in DOMAIN p.list : y \in lo .. i - 1 /\ left[x] = p.list[y]
      BY <2>8, RearrangedFrom
    <3> QED BY <2>13, <3>1
  <2>20. /\ \A x \in 1 .. n : x \in i + 1 .. hi \/ right[x] = left[x]
         /\ \A x \in 1 .. n : x \in i + 1 .. hi =>
              \E y \in 1 .. n : y \in i + 1 .. hi /\ right[x] = left[y]
    <3>1. /\ \A x \in DOMAIN left : x \in i + 1 .. hi \/ right[x] = left[x]
          /\ \A x \in DOMAIN left : x \in i + 1 .. hi =>
               \E y \in DOMAIN left : y \in i + 1 .. hi /\ right[x] = left[y]
      BY <2>11, RearrangedFrom
    <3> QED BY <2>13, <3>1
  \* The left range as it was left, the pivot, what is after it.
  <2>15. ASSUME NEW x \in lo .. i - 1
         PROVE  right[x] = left[x] /\ right[x] \in Names /\ NotAfter(right[x], right[i])
    <3>1. x \in 1 .. n /\ ~(x \in i + 1 .. hi) /\ i \in 1 .. n /\ ~(i \in i + 1 .. hi)
          /\ ~(i \in lo .. i - 1)
      BY <2>4
    <3>2. right[x] = left[x] /\ right[i] = left[i]
      BY <2>20, <3>1
    <3>3. left[i] = p.list[i]
      BY <2>19, <3>1
    <3>4. PICK y \in 1 .. n : y \in lo .. i - 1 /\ left[x] = p.list[y]
      BY <2>19, <3>1
    <3>5. right[x] \in Names
      BY <2>11, <3>1 DEF ListsOf
    <3> QED BY <2>5, <3>2, <3>3, <3>4, <3>5
  <2>16. ASSUME NEW x \in i + 1 .. hi PROVE right[x] \in Names /\ NotAfter(right[i], right[x])
    <3>1. x \in 1 .. n /\ i \in 1 .. n /\ ~(i \in i + 1 .. hi) /\ ~(i \in lo .. i - 1)
      BY <2>4
    <3>2. right[i] = p.list[i]
      BY <2>19, <2>20, <3>1
    <3>3. PICK y \in 1 .. n : y \in i + 1 .. hi /\ right[x] = left[y]
      BY <2>20, <3>1
    <3>4. ~(y \in lo .. i - 1)
      BY <2>4, <3>3
    <3>5. left[y] = p.list[y]
      BY <2>19, <3>4
    <3>6. right[x] \in Names
      BY <2>11, <3>1 DEF ListsOf
    <3> QED BY <2>5, <3>2, <3>3, <3>5, <3>6
  <2>17. right[i] \in Names
    <3>1. i \in 1 .. n
      BY <2>4
    <3> QED BY <2>11, <3>1 DEF ListsOf
  <2>18. ASSUME NEW x \in lo .. hi, NEW y \in lo .. hi, x < y PROVE NotAfter(right[x], right[y])
    <3>1. CASE y < i
      <4>1. x \in lo .. i - 1 /\ y \in lo .. i - 1
        BY <2>18, <3>1
      <4> QED BY <2>8, <2>15, <2>18, <4>1
    <3>2. CASE y = i
      <4>1. x \in lo .. i - 1
        BY <2>18, <3>2
      <4> QED BY <2>15, <3>2, <4>1
    <3>3. CASE y > i /\ x = i
      <4>1. y \in i + 1 .. hi
        BY <3>3
      <4> QED BY <2>16, <3>3, <4>1
    <3>4. CASE y > i /\ x < i
      <4>1. y \in i + 1 .. hi /\ x \in lo .. i - 1
        BY <3>4
      <4> QED BY <2>15, <2>16, <2>17, <4>1, OrderIsTotal
    <3>5. CASE x > i
      <4>1. x \in i + 1 .. hi /\ y \in i + 1 .. hi
        BY <2>18, <3>5
      <4> QED BY <2>11, <2>18, <4>1
    <3> QED BY <3>1, <3>2, <3>3, <3>4, <3>5
  <2> QED BY <2>3, <2>11, <2>12, <2>14, <2>18 DEF SortsRange
<1> QED BY <1>1, <1>2

\* Every call of quick_sort_list keeps its promise.
LEMMA SortsAll ==
  ASSUME NEW n \in Nat, NEW f, Sorts(f, n), NEW r \in Ranges(n)
  PROVE  SortsRange(f[r], r, n)
\* The places a range has, and those its list has besides.
<1> DEFINE Size(s) == s.end - s.begin + n + 1
           P == {k \in Nat : \A s \in Ranges(n) : Size(s) = k => SortsRange(f[s], s, n)}
<1>1. \A s \in Ranges(n) : Size(s) \in 0 .. n + n
  BY DEF Ranges
<1>2. ASSUME NEW s \in Ranges(n),
             \A q \in Ranges(n) : q.end - q.begin < s.end - s.begin => SortsRange(f[q], q, n)
      PROVE  SortsRange(f[s], s, n)
  <2>1. f[s] = SortCall(f, s)
    BY DEF Sorts
  <2> QED BY <1>2, <2>1, CallSorts
<1>3. ASSUME NEW k \in 0 .. n + n, \A j \in 0 .. k - 1 : j \in P PROVE k \in P
  <2>1. ASSUME NEW s \in Ranges(n), Size(s) = k PROVE SortsRange(f[s], s, n)
    <3>1. ASSUME NEW q \in Ranges(n), q.end - q.begin < s.end - s.begin
          PROVE  SortsRange(f[q], q, n)
      <4>1. Size(q) \in 0 .. k - 1
        BY <1>1, <2>1, <3>1 DEF Ranges
      <4> QED BY <1>3, <4>1
    <3> QED BY <1>2, <3>1
  <2> QED BY <2>1
<1>4. \A k \in 0 .. n + n : k \in P
  <2> HIDE DEF P
  <2>1. n + n \in Int
    OBVIOUS
  <2> QED BY <1>3, <2>1, Induction
<1>5. Size(r) \in P
  BY <1>1, <1>4
<1> QED BY <1>5

\* What quick_sort_list is: the call for its range.
LEMMA QuickSortIs ==
  ASSUME NEW n \in Nat, NEW list \in ListsOf(n), NEW begin \in 0 .. n, NEW end \in -1 .. n - 1
  PROVE  \E f : /\ Sorts(f, n)
                /\ quick_sort_list(list, begin, end) = f[Slice(list, begin, end)]
                /\ Slice(list, begin, end) \in Ranges(n)
<1>1. PICK f : f = CHOOSE g : Sorts(g, n)
  OBVIOUS
<1>2. Sorts(f, n)
  BY <1>1, SortExists
<1>3. f = CHOOSE g : g = [r \in Ranges(n) |->
            IF r.begin < r.end /\ r.begin >= 0
            THEN LET p    == partition(r.list, r.begin, r.end)
                     left == g[Slice(p.list, r.begin, p.i - 1)]
                 IN g[Slice(left, p.i + 1, r.end)]
            ELSE r.list]
  BY <1>1 DEF Sorts, SortCall
<1>4. Len(list) = n
  BY DEF ListsOf
<1>5. quick_sort_list(list, begin, end) = f[Slice(list, begin, end)]
  BY <1>3, <1>4 DEF quick_sort_list
<1>6. Slice(list, begin, end) \in Ranges(n)
  BY DEF Slice, Ranges, ListsOf
<1> QED BY <1>2, <1>5, <1>6

(***************************************************************************)
(* quick_sort_list sorts: for any list of names and any range of it, the   *)
(* names of the range are exchanged among each other and in the order of   *)
(* strcmp(3), those before and behind it stay where they are.              *)
(***************************************************************************)
THEOREM QuickSortSorts ==
  ASSUME NEW n \in Nat, NEW list \in [1 .. n -> Names],
         NEW begin \in 0 .. n, NEW end \in -1 .. n - 1,
         NEW l, l = quick_sort_list(list, begin, end)
  PROVE  /\ l \in [1 .. n -> Names]
         /\ Rearranges(l, list, begin + 1, end + 1)
         /\ \A x, y \in begin + 1 .. end + 1 : x < y => NotAfter(l[x], l[y])
<1>1. list \in ListsOf(n)
  BY DEF ListsOf
<1>2. PICK f : /\ Sorts(f, n) /\ l = f[Slice(list, begin, end)]
               /\ Slice(list, begin, end) \in Ranges(n)
  BY <1>1, QuickSortIs
<1>3. PICK r : r = Slice(list, begin, end)
  OBVIOUS
<1>4. SortsRange(l, r, n)
  BY <1>2, <1>3, SortsAll
<1>5. r.list = list /\ r.begin = begin /\ r.end = end
  BY <1>3 DEF Slice
<1> QED BY <1>4, <1>5 DEF SortsRange, ListsOf

\* Different names are sorted strictly; the same names come out.
LEMMA SortedNames ==
  ASSUME NEW n \in Nat, NEW list \in [1 .. n -> Names],
         \A x, y \in 1 .. n : list[x] = list[y] => x = y,
         NEW l, l = quick_sort_list(list, 0, n - 1)
  PROVE  /\ l \in [1 .. n -> Names]
         /\ {l[x] : x \in 1 .. n} = {list[x] : x \in 1 .. n}
         /\ \A x, y \in 1 .. n : x < y => Rank(l[x]) < Rank(l[y])
<1>1. 0 \in 0 .. n /\ n - 1 \in -1 .. n - 1 /\ 0 + 1 = 1 /\ n - 1 + 1 = n
  OBVIOUS
<1>2. /\ l \in [1 .. n -> Names] /\ Rearranges(l, list, 1, n)
      /\ \A x, y \in 1 .. n : x < y => NotAfter(l[x], l[y])
  <2>1. /\ l \in [1 .. n -> Names] /\ Rearranges(l, list, 0 + 1, n - 1 + 1)
        /\ \A x, y \in 0 + 1 .. n - 1 + 1 : x < y => NotAfter(l[x], l[y])
    BY <1>1, QuickSortSorts
  <2> QED BY <1>1, <2>1
<1>3. DOMAIN list = 1 .. n
  OBVIOUS
<1>4. PICK p \in [1 .. n -> 1 .. n] :
        /\ \A x, y \in 1 .. n : p[x] = p[y] => x = y
        /\ \A y \in 1 .. n : \E x \in 1 .. n : p[x] = y
        /\ \A x \in 1 .. n : l[x] = list[p[x]]
  <2>1. PICK p \in [DOMAIN list -> DOMAIN list] :
          /\ \A x, y \in DOMAIN list : p[x] = p[y] => x = y
          /\ \A y \in DOMAIN list : \E x \in DOMAIN list : p[x] = y
          /\ \A x \in DOMAIN list : l[x] = list[p[x]]
    BY <1>2 DEF Rearranges
  <2>2. p \in [1 .. n -> 1 .. n]
    BY <1>3, <2>1
  <2>3. /\ \A x, y \in 1 .. n : p[x] = p[y] => x = y
        /\ \A y \in 1 .. n : \E x \in 1 .. n : p[x] = y
        /\ \A x \in 1 .. n : l[x] = list[p[x]]
    BY <1>3, <2>1
  <2> QED BY <2>2, <2>3
<1>5. {l[x] : x \in 1 .. n} = {list[x] : x \in 1 .. n}
  <2>1. ASSUME NEW x \in 1 .. n PROVE l[x] \in {list[y] : y \in 1 .. n}
    <3>1. p[x] \in 1 .. n /\ l[x] = list[p[x]]
      BY <1>4
    <3> QED BY <3>1
  <2>2. ASSUME NEW y \in 1 .. n PROVE list[y] \in {l[x] : x \in 1 .. n}
    <3>1. PICK x \in 1 .. n : p[x] = y
      BY <1>4
    <3>2. l[x] = list[y]
      BY <1>4, <3>1
    <3> QED BY <3>2
  <2> QED BY <2>1, <2>2
<1>6. ASSUME NEW x \in 1 .. n, NEW y \in 1 .. n, x < y PROVE Rank(l[x]) < Rank(l[y])
  <2>1. l[x] # l[y]
    <3>1. p[x] \in 1 .. n /\ p[y] \in 1 .. n /\ p[x] # p[y]
      BY <1>4, <1>6
    <3>2. list[p[x]] # list[p[y]]
      BY <3>1
    <3> QED BY <1>4, <3>2
  <2>2. NotAfter(l[x], l[y]) /\ l[x] \in Names /\ l[y] \in Names
    BY <1>2, <1>6
  <2> QED BY <2>1, <2>2, RankTells
<1> QED BY <1>2, <1>5, <1>6
==============================================================================
