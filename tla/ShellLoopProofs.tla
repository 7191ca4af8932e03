---------------------------- MODULE ShellLoopProofs ----------------------------
(***************************************************************************)
(* Theorems about ShellLoop.tla: for any lines the parser can make, any    *)
(* directories, statuses and sizes of the lists and of the history.        *)
(***************************************************************************)
EXTENDS ShellLoop, SortingProofs, FiniteSetTheorems

------------------------------------------------------------------------------
(* Lists. *)

ListOf(S) == [size : Nat, data : Seq(S), overrun : BOOLEAN]

\* What is on a list fits.
Fits(list) == ~list.overrun /\ Len(list.data) <= list.size

LEMMA Concatenated ==
  ASSUME NEW S, NEW s \in Seq(S), NEW t \in Seq(S)
  PROVE  /\ s \o t \in Seq(S) /\ Len(s \o t) = Len(s) + Len(t)
         /\ \A k \in 1 .. Len(s) : (s \o t)[k] = s[k]
         /\ \A k \in 1 .. Len(t) : (s \o t)[Len(s) + k] = t[k]
OBVIOUS

\* A list grows before it would overrun.
LEMMA PushFits ==
  ASSUME NEW S, NEW list \in ListOf(S), Fits(list), NEW v \in S
  PROVE  /\ Push(list, v) \in ListOf(S) /\ Fits(Push(list, v))
         /\ Push(list, v).data = list.data \o <<v>>
<1>1. PICK l : l = EnsureSpace(list)
  OBVIOUS
<1>2. list.size \in Nat /\ list.data \in Seq(S) /\ list.overrun = FALSE /\ GrouthBy \in Nat
      /\ GrouthBy > 0 /\ Len(list.data) \in Nat
  BY ListsAssumption DEF ListOf, Fits
<1>3. /\ l \in ListOf(S) /\ l.data = list.data /\ l.overrun = FALSE
      /\ Len(list.data) + 1 <= l.size
  BY <1>1, <1>2 DEF EnsureSpace, ListOf, Fits
<1>4. /\ list.data \o <<v>> \in Seq(S) /\ Len(list.data \o <<v>>) = Len(list.data) + 1
  BY <1>2
<1>5. Push(list, v) = [l EXCEPT !.data = list.data \o <<v>>, !.overrun = FALSE]
  <2>1. Len(<<v>>) = 1 /\ ~(Len(list.data) + 1 > l.size) /\ l.size \in Nat
    BY <1>2, <1>3 DEF ListOf
  <2> QED BY <1>1, <1>3, <2>1 DEF Push, Written, ListOf
<1>6. Push(list, v).data = list.data \o <<v>> /\ Push(list, v).size = l.size
      /\ Push(list, v).overrun = FALSE /\ Push(list, v) \in ListOf(S)
  BY <1>3, <1>4, <1>5 DEF ListOf
<1> QED BY <1>3, <1>4, <1>6 DEF Fits

\* Enough growth for n elements is found.
LEMMA GrowsEnough ==
  ASSUME NEW S, NEW list \in ListOf(S), Fits(list), NEW n \in Nat,
         NEW l, l = EnsureSpaceFor(list, n)
  PROVE  l \in ListOf(S) /\ l.data = list.data /\ l.overrun = FALSE /\ Len(list.data) + n <= l.size
<1>1. list.size \in Nat /\ list.data \in Seq(S) /\ list.overrun = FALSE /\ GrouthBy \in Nat
      /\ GrouthBy > 0 /\ Len(list.data) \in Nat /\ Len(list.data) <= list.size
  BY ListsAssumption DEF ListOf, Fits
<1>2. PICK enough : enough = {k \in 0 .. n : list.size + k * GrouthBy >= Len(list.data) + n}
  OBVIOUS
<1>3. n \in enough
  <2>1. n * GrouthBy >= n
    BY <1>1
  <2>2. n * GrouthBy \in Nat
    BY <1>1
  <2>3. PICK more \in Nat : more = n * GrouthBy
    BY <2>2
  <2>4. list.size + more >= Len(list.data) + n
    BY <1>1, <2>1, <2>3
  <2>5. n \in 0 .. n
    OBVIOUS
  <2> QED BY <1>2, <2>3, <2>4, <2>5
<1>4. enough \in SUBSET Nat
  BY <1>2
<1>5. PICK m \in enough : \A k \in enough : m <= k
  BY <1>3, <1>4, LeastOf
<1>6. Min(enough) \in enough
  BY <1>5 DEF Min
<1>7. PICK k \in Nat : k = Min(enough)
  BY <1>4, <1>6
<1>8. PICK size : size = list.size + k * GrouthBy
  OBVIOUS
<1>9. size \in Nat /\ size >= Len(list.data) + n
  <2>1. k * GrouthBy \in Nat
    BY <1>1, <1>7
  <2> QED BY <1>1, <1>2, <1>6, <1>7, <1>8, <2>1
<1>10. l = [list EXCEPT !.size = size]
  BY <1>2, <1>7, <1>8 DEF EnsureSpaceFor, ListOf
<1>11. l.size = size /\ l.data = list.data /\ l.overrun = list.overrun /\ l \in ListOf(S)
  BY <1>9, <1>10 DEF ListOf
<1> QED BY <1>1, <1>9, <1>11

LEMMA PushAllFits ==
  ASSUME NEW S, NEW list \in ListOf(S), Fits(list), NEW values \in Seq(S)
  PROVE  /\ PushAll(list, values) \in ListOf(S) /\ Fits(PushAll(list, values))
         /\ PushAll(list, values).data = list.data \o values
<1>1. PICK n \in Nat : n = Len(values)
  OBVIOUS
<1>2. PICK l : l = EnsureSpaceFor(list, n)
  OBVIOUS
<1>3. l \in ListOf(S) /\ l.data = list.data /\ l.overrun = FALSE /\ Len(list.data) + n <= l.size
  BY <1>2, GrowsEnough
<1>4. list.data \in Seq(S) /\ l.size \in Nat /\ Len(list.data) \in Nat
  BY <1>3 DEF ListOf
<1>5. list.data \o values \in Seq(S) /\ Len(list.data \o values) = Len(list.data) + n
  BY <1>1, <1>4, Concatenated
<1>6. PushAll(list, values) = [l EXCEPT !.data = list.data \o values, !.overrun = FALSE]
  <2>1. ~(Len(l.data) + Len(values) > l.size)
    BY <1>1, <1>3, <1>4
  <2>2. PushAll(list, values) =
          [l EXCEPT !.data = l.data \o values, !.overrun = l.overrun \/ Len(l.data) + Len(values) > l.size]
    BY <1>1, <1>2, <1>3 DEF PushAll, Written, ListOf
  <2> QED BY <1>3, <2>1, <2>2
<1>7. PushAll(list, values).data = list.data \o values /\ PushAll(list, values).size = l.size
      /\ PushAll(list, values).overrun = FALSE /\ PushAll(list, values) \in ListOf(S)
  BY <1>3, <1>5, <1>6 DEF ListOf
<1> QED BY <1>1, <1>3, <1>5, <1>7 DEF Fits

\* The first element goes, the others move one place forward.
LEMMA PopFirst ==
  ASSUME NEW S, NEW list \in ListOf(S), Fits(list), list.data # <<>>,
         NEW l, l = PopAt(list, 0)
  PROVE  /\ l \in ListOf(S) /\ Fits(l) /\ Len(l.data) = Len(list.data) - 1
         /\ \A k \in 1 .. Len(list.data) - 1 : l.data[k] = list.data[k + 1]
<1>1. list.size \in Nat /\ list.data \in Seq(S) /\ list.overrun = FALSE
      /\ Len(list.data) \in Nat /\ Len(list.data) <= list.size /\ 0 < Len(list.data)
  BY DEF ListOf, Fits
<1>2. l = [list EXCEPT !.data = RemoveAt(list.data, 1)]
  BY <1>1 DEF PopAt, ListOf
<1>3. PICK d : d = SubSeq(list.data, 2, Len(list.data))
  OBVIOUS
<1>4. RemoveAt(list.data, 1) = d
  <2>1. SubSeq(list.data, 1, 1 - 1) = <<>>
    BY <1>1
  <2>2. d \in Seq(S)
    BY <1>1, <1>3
  <2>3. RemoveAt(list.data, 1) = SubSeq(list.data, 1, 1 - 1) \o SubSeq(list.data, 1 + 1, Len(list.data))
    BY DEF RemoveAt
  <2> QED BY <1>3, <2>1, <2>2, <2>3
<1>5. d \in Seq(S) /\ Len(d) = Len(list.data) - 1
      /\ \A k \in 1 .. Len(list.data) - 1 : d[k] = list.data[k + 1]
  BY <1>1, <1>3
<1>6. l.data = d /\ l.size = list.size /\ l.overrun = FALSE /\ l \in ListOf(S)
  BY <1>1, <1>2, <1>4, <1>5 DEF ListOf
<1> QED BY <1>1, <1>5, <1>6 DEF Fits

------------------------------------------------------------------------------
(* Numbers and their digits. *)

LEMMA Tenth ==
  ASSUME NEW n \in Nat
  PROVE  /\ n \div 10 \in Nat /\ n % 10 \in 0 .. 9 /\ n = 10 * (n \div 10) + (n % 10)
         /\ n >= 10 => n \div 10 < n /\ n \div 10 >= 1
         /\ n < 10 => n % 10 = n
OBVIOUS

\* The digits of every number up to size are counted.
Counts(c, size) == c = [n \in 0 .. size |-> IF n < 10 THEN 1 ELSE 1 + c[n \div 10]]

LEMMA CountsExist ==
  ASSUME NEW size \in Nat
  PROVE  \E c : Counts(c, size)
<1>1. PICK n \in Nat : n = size + 1
  OBVIOUS
<1>2. PICK T : T = [k \in 0 .. size |-> Nat]
  OBVIOUS
<1>3. PICK g : g = [k \in 0 .. size |-> [h \in [0 .. k - 1 -> Nat] |->
                      IF k < 10 THEN 1 ELSE 1 + h[k \div 10]]]
  OBVIOUS
<1>4. ASSUME NEW k \in 0 .. size, NEW h \in [0 .. k - 1 -> Nat]
      PROVE  g[k][h] = (IF k < 10 THEN 1 ELSE 1 + h[k \div 10]) /\ g[k][h] \in Nat
  <2>1. g[k][h] = IF k < 10 THEN 1 ELSE 1 + h[k \div 10]
    BY <1>3
  <2>2. CASE k >= 10
    <3>1. k \div 10 \in 0 .. k - 1
      BY <2>2, Tenth
    <3>2. h[k \div 10] \in Nat
      BY <3>1
    <3> QED BY <2>1, <2>2, <3>2
  <2>3. CASE k < 10
    BY <2>1, <2>3
  <2> QED BY <2>2, <2>3
<1>5. PICK c : Computes(c, g, T, Nat, n)
  <2>1. ASSUME NEW k \in 0 .. n - 1, NEW h, Typed(h, T, Nat, k) PROVE g[k][h] \in T[k]
    <3>1. k \in 0 .. size /\ h \in [0 .. k - 1 -> Nat]
      BY <1>1, <2>1 DEF Typed
    <3> QED BY <1>2, <1>4, <3>1
  <2>2. \A k \in 0 .. n - 1 : T[k] \subseteq Nat
    BY <1>1, <1>2
  <2> QED BY <2>1, <2>2, RecursionExists
<1>6. n - 1 = size
  BY <1>1
<1>7. c \in [0 .. size -> Nat] /\ \A k \in 0 .. size : c[k] = g[k][Before(c, k)]
  BY <1>5, <1>6 DEF Computes, Typed
<1>8. ASSUME NEW k \in 0 .. size PROVE c[k] = IF k < 10 THEN 1 ELSE 1 + c[k \div 10]
  <2>1. Before(c, k) \in [0 .. k - 1 -> Nat]
    <3>1. \A j \in 0 .. k - 1 : c[j] \in Nat
      BY <1>7
    <3> QED BY <3>1 DEF Before
  <2>2. c[k] = IF k < 10 THEN 1 ELSE 1 + Before(c, k)[k \div 10]
    <3>1. PICK h : h = Before(c, k)
      OBVIOUS
    <3>2. g[k][h] = IF k < 10 THEN 1 ELSE 1 + h[k \div 10]
      BY <1>4, <2>1, <3>1
    <3> QED BY <1>7, <3>1, <3>2
  <2>3. CASE k >= 10
    <3>1. k \div 10 \in 0 .. k - 1
      BY <2>3, Tenth
    <3>2. Before(c, k)[k \div 10] = c[k \div 10]
      BY <3>1 DEF Before
    <3> QED BY <2>2, <3>2
  <2>4. CASE k < 10
    BY <2>2, <2>4
  <2> QED BY <2>3, <2>4
<1> QED BY <1>7, <1>8 DEF Counts

\* A number has a digit, and one more than its tenth.
LEMMA CountsDigits ==
  ASSUME NEW size \in Nat, NEW c, Counts(c, size)
  PROVE  \A k \in 0 .. size : /\ c[k] \in Nat /\ c[k] >= 1 /\ (k < 10 <=> c[k] = 1)
                              /\ k >= 10 => k \div 10 \in 0 .. size /\ c[k] = 1 + c[k \div 10]
<1>1. ASSUME NEW k \in 0 .. size PROVE c[k] = IF k < 10 THEN 1 ELSE 1 + c[k \div 10]
  BY DEF Counts
<1> DEFINE P == {k \in 0 .. size : c[k] \in Nat /\ c[k] >= 1}
<1>2. ASSUME NEW k \in 0 .. size, \A j \in 0 .. k - 1 : j \in P PROVE k \in P
  <2>1. CASE k < 10
    BY <1>1, <2>1
  <2>2. CASE k >= 10
    <3>1. k \div 10 \in 0 .. k - 1
      BY <2>2, Tenth
    <3>2. c[k \div 10] \in Nat
      BY <1>2, <3>1
    <3>3. c[k] = 1 + c[k \div 10]
      BY <1>1, <2>2
    <3> QED BY <3>2, <3>3
  <2> QED BY <2>1, <2>2
<1>3. \A k \in 0 .. size : k \in P
  <2> HIDE DEF P
  <2> QED BY <1>2, Induction
<1>4. ASSUME NEW k \in 0 .. size, k >= 10
      PROVE  k \div 10 \in 0 .. size /\ c[k] = 1 + c[k \div 10] /\ c[k] # 1
  <2>1. k \div 10 \in 0 .. size
    BY <1>4, Tenth
  <2>2. c[k \div 10] \in Nat /\ c[k \div 10] >= 1
    BY <1>3, <2>1
  <2> QED BY <1>1, <1>4, <2>1, <2>2
<1> QED BY <1>1, <1>3, <1>4

\* What is left of size when the digit at i is written, from the last one on.
Lefts(l, m, size) == l = [i \in 1 .. m |-> IF i = m THEN size ELSE l[i + 1] \div 10]

LEMMA LeftsExist ==
  ASSUME NEW size \in Nat, NEW m \in Nat
  PROVE  \E l : Lefts(l, m, size)
<1>1. PICK T : T = [k \in 0 .. m |-> Nat]
  OBVIOUS
<1>2. PICK g : g = [k \in 1 .. m |-> [v \in Nat |-> v \div 10]]
  OBVIOUS
<1>3. T \in [0 .. m -> SUBSET Nat] /\ size \in T[0]
  BY <1>1
<1>4. Maps(g, T, m)
  <2>1. ASSUME NEW k \in 1 .. m, NEW v \in T[k - 1] PROVE g[k][v] \in T[k]
    <3>1. v \in Nat /\ T[k] = Nat
      BY <1>1
    <3>2. g[k][v] = v \div 10
      BY <1>2, <3>1
    <3> QED BY <3>1, <3>2, Tenth
  <2> QED BY <2>1 DEF Maps
<1>5. PICK f \in [0 .. m -> Nat] : Iterates(f, g, size, T, m)
  BY <1>3, <1>4, IterationExists
<1>6. f[0] = size /\ \A k \in 1 .. m : f[k] = f[k - 1] \div 10
  <2>1. \A k \in 1 .. m : f[k - 1] \in Nat
    OBVIOUS
  <2> QED BY <1>2, <1>5, <2>1 DEF Iterates
<1>7. PICK l : l = [i \in 1 .. m |-> f[m - i]]
  OBVIOUS
<1>8. ASSUME NEW i \in 1 .. m PROVE l[i] = IF i = m THEN size ELSE l[i + 1] \div 10
  <2>1. CASE i = m
    <3>1. m - i = 0
      BY <2>1
    <3> QED BY <1>6, <1>7, <2>1, <3>1
  <2>2. CASE i # m
    <3>1. m - i \in 1 .. m /\ m - i - 1 = m - (i + 1) /\ i + 1 \in 1 .. m
      BY <2>2
    <3>2. f[m - i] = f[m - i - 1] \div 10
      BY <1>6, <3>1
    <3> QED BY <1>7, <2>2, <3>1, <3>2
  <2> QED BY <2>1, <2>2
<1> QED BY <1>7, <1>8 DEF Lefts

\* The digits written are those of the number, as many as were counted.
LEMMA LeftsAreTenths ==
  ASSUME NEW size \in Nat, NEW c, Counts(c, size), NEW sign \in {0, 1},
         NEW m, m = c[size] + sign, NEW l, Lefts(l, m, size)
  PROVE  /\ m \in Nat /\ m >= sign + 1 /\ l[m] = size
         /\ \A i \in sign + 1 .. m : l[i] \in Nat
         /\ \A i \in sign + 1 .. m - 1 : l[i] = l[i + 1] \div 10 /\ l[i + 1] >= 10
         /\ l[sign + 1] < 10
<1>1. c[size] \in Nat /\ c[size] >= 1
  BY CountsDigits
<1>2. PICK n \in Nat : n = c[size] - 1
  BY <1>1
<1>3. m \in Nat /\ m - n = sign + 1 /\ m >= sign + 1 /\ m >= 1
  BY <1>1, <1>2
<1>4. ASSUME NEW i \in 1 .. m PROVE l[i] = IF i = m THEN size ELSE l[i + 1] \div 10
  BY DEF Lefts
<1>5. l[m] = size
  BY <1>3, <1>4
<1> DEFINE P == {k \in 0 .. n : l[m - k] \in 0 .. size /\ c[l[m - k]] = c[size] - k}
<1>6. 0 \in P
  <2>1. m - 0 = m /\ size \in 0 .. size /\ c[size] = c[size] - 0
    BY <1>1, <1>3
  <2> QED BY <1>5, <2>1
<1>7. ASSUME NEW k \in 1 .. n, k - 1 \in P
      PROVE  k \in P /\ l[m - k] = l[m - k + 1] \div 10 /\ l[m - k + 1] >= 10
  <2>1. PICK i : i = m - k
    OBVIOUS
  <2>2. i \in 1 .. m /\ i # m /\ m - (k - 1) = i + 1
    BY <1>2, <1>3, <2>1
  <2>3. l[i] = l[i + 1] \div 10
    BY <1>4, <2>2
  <2>4. l[i + 1] \in 0 .. size /\ c[l[i + 1]] = c[size] - (k - 1)
    BY <1>7, <2>2
  <2>5. PICK v : v = l[i + 1]
    OBVIOUS
  <2>6. c[v] # 1
    BY <1>1, <1>2, <2>4, <2>5
  <2>7. v \in 0 .. size /\ v >= 10
    BY <2>4, <2>5, <2>6, CountsDigits
  <2>8. v \div 10 \in 0 .. size /\ c[v] = 1 + c[v \div 10] /\ c[v \div 10] \in Nat
    BY <2>7, CountsDigits
  <2>9. c[v \div 10] = c[size] - k
    BY <1>1, <2>4, <2>5, <2>8
  <2> QED BY <2>1, <2>2, <2>3, <2>5, <2>7, <2>8, <2>9
<1>8. \A k \in 0 .. n : k \in P
  <2>1. \A k \in 1 .. n : k - 1 \in P => k \in P
    BY <1>7
  <2> HIDE DEF P
  <2> QED BY <1>6, <2>1, StepByStep
<1>9. ASSUME NEW i \in sign + 1 .. m PROVE l[i] \in Nat
  <2>1. m - i \in 0 .. n /\ m - (m - i) = i
    BY <1>3
  <2>2. m - i \in P
    BY <1>8, <2>1
  <2> QED BY <2>1, <2>2
<1>10. ASSUME NEW i \in sign + 1 .. m - 1 PROVE l[i] = l[i + 1] \div 10 /\ l[i + 1] >= 10
  <2>1. PICK k : k = m - i
    OBVIOUS
  <2>2. k \in 1 .. n /\ m - k = i /\ k - 1 \in 0 .. n /\ m - k + 1 = i + 1
    BY <1>3, <2>1
  <2>3. k - 1 \in P
    BY <1>8, <2>2
  <2> QED BY <1>7, <2>2, <2>3
<1>11. l[sign + 1] < 10
  <2>1. n \in P
    BY <1>8
  <2>2. l[sign + 1] \in 0 .. size /\ c[l[sign + 1]] = 1
    BY <1>1, <1>2, <1>3, <2>1
  <2> QED BY <2>2, CountsDigits
<1> QED BY <1>3, <1>5, <1>9, <1>10, <1>11

\* The size of a number and the place its sign takes.
SizeOf(number) == IF number < 0 THEN -number ELSE number
SignOf(number) == IF number < 0 THEN 1 ELSE 0

\* text has m cells and l is what is left of the number at each.
IsWritten(text, number, m, l) ==
  /\ m >= SignOf(number) + 1 /\ l[m] = SizeOf(number)
  /\ \A i \in SignOf(number) + 1 .. m : l[i] \in Nat
  /\ \A i \in SignOf(number) + 1 .. m - 1 : l[i] = l[i + 1] \div 10 /\ l[i + 1] >= 10
  /\ l[SignOf(number) + 1] < 10
  /\ text = [i \in 1 .. m |-> IF i = 1 /\ number < 0 THEN "-" ELSE Digit[(l[i] % 10) + 1]]

\* What int_to_cstring writes, told by what is left at every digit.
LEMMA DigitsWritten ==
  ASSUME NEW number \in Int, NEW text, text = int_to_cstring(number)
  PROVE  \E m \in Nat : \E l : IsWritten(text, number, m, l)
<1>0. PICK sign : sign = SignOf(number)
  OBVIOUS
<1>1. PICK size : size = SizeOf(number)
  OBVIOUS
<1>2. size \in Nat /\ sign \in {0, 1}
  BY <1>0, <1>1 DEF SizeOf, SignOf
<1>3. PICK c : c = CHOOSE f : Counts(f, size)
  OBVIOUS
<1>4. Counts(c, size)
  BY <1>2, <1>3, CountsExist
<1>5. PICK m : m = c[size] + sign
  OBVIOUS
<1>6. m \in Nat
  BY <1>2, <1>4, <1>5, CountsDigits
<1>7. PICK l : l = CHOOSE f : Lefts(f, m, size)
  OBVIOUS
<1>8. Lefts(l, m, size)
  BY <1>2, <1>6, <1>7, LeftsExist
<1>9. text = [i \in 1 .. m |-> IF i = 1 /\ number < 0 THEN "-" ELSE Digit[(l[i] % 10) + 1]]
  <2>1. c = CHOOSE f : f = [n \in 0 .. size |-> IF n < 10 THEN 1 ELSE 1 + f[n \div 10]]
    BY <1>3 DEF Counts
  <2>2. l = CHOOSE f : f = [i \in 1 .. m |-> IF i = m THEN size ELSE f[i + 1] \div 10]
    BY <1>7 DEF Lefts
  <2>3. Digits(size) = c[size]
    BY <2>1 DEF Digits
  <2>4. Left(size, m) = l
    BY <2>2 DEF Left
  <2>5. size = IF number < 0 THEN -number ELSE number
    BY <1>1 DEF SizeOf
  <2>6. m = Digits(size) + IF number < 0 THEN 1 ELSE 0
    BY <1>0, <1>5, <2>3 DEF SignOf
  <2> QED BY <2>4, <2>5, <2>6 DEF int_to_cstring
<1>10. /\ m >= sign + 1 /\ l[m] = size
       /\ \A i \in sign + 1 .. m : l[i] \in Nat
       /\ \A i \in sign + 1 .. m - 1 : l[i] = l[i + 1] \div 10 /\ l[i + 1] >= 10
       /\ l[sign + 1] < 10
  BY <1>2, <1>4, <1>5, <1>8, LeftsAreTenths
<1> QED BY <1>0, <1>1, <1>6, <1>9, <1>10 DEF IsWritten

\* The digits are told apart from each other and from the sign.
LEMMA DigitsDiffer ==
  /\ \A d \in 0 .. 9 : Digit[d + 1] \in Parts /\ Digit[d + 1] # "-"
  /\ \A d, e \in 0 .. 9 : Digit[d + 1] = Digit[e + 1] => d = e
  /\ \A d \in 0 .. 9 : Digit[d + 1] = "0" => d = 0
<1>0. Len(Digit) = 10 /\ \A i \in 1 .. 10 : Digit[i] \in Parts
  <2>1. Len(Digit) = 10
    BY DEF Digit
  <2>2. ToSet(Digit) = {Digit[i] : i \in 1 .. 10}
    BY <2>1 DEF ToSet
  <2> QED BY <2>1, <2>2, ShellLoopAssumption
<1>1. /\ Digit[1] = "0" /\ Digit[2] = "1" /\ Digit[3] = "2" /\ Digit[4] = "3" /\ Digit[5] = "4"
      /\ Digit[6] = "5" /\ Digit[7] = "6" /\ Digit[8] = "7" /\ Digit[9] = "8" /\ Digit[10] = "9"
  BY DEF Digit
<1>2. ASSUME NEW d \in 0 .. 9
      PROVE  \/ d = 0 /\ Digit[d + 1] = "0"
             \/ d = 1 /\ Digit[d + 1] = "1"
             \/ d = 2 /\ Digit[d + 1] = "2"
             \/ d = 3 /\ Digit[d + 1] = "3"
             \/ d = 4 /\ Digit[d + 1] = "4"
             \/ d = 5 /\ Digit[d + 1] = "5"
             \/ d = 6 /\ Digit[d + 1] = "6"
             \/ d = 7 /\ Digit[d + 1] = "7"
             \/ d = 8 /\ Digit[d + 1] = "8"
             \/ d = 9 /\ Digit[d + 1] = "9"
  <2>1. \/ d = 0 \/ d = 1 \/ d = 2 \/ d = 3 \/ d = 4 \/ d = 5 \/ d = 6 \/ d = 7 \/ d = 8 \/ d = 9
    OBVIOUS
  <2> QED BY <1>1, <2>1
<1>3. \A d \in 0 .. 9 : Digit[d + 1] \in Parts /\ Digit[d + 1] # "-"
  BY <1>0, <1>2
<1>4. \A d, e \in 0 .. 9 : Digit[d + 1] = Digit[e + 1] => d = e
  BY <1>2
<1>5. \A d \in 0 .. 9 : Digit[d + 1] = "0" => d = 0
  BY <1>2
<1> QED BY <1>3, <1>4, <1>5

LEMMA NumberText ==
  ASSUME NEW number \in Int
  PROVE  int_to_cstring(number) \in Seq(Parts)
<1>1. PICK text, sign : text = int_to_cstring(number) /\ sign = SignOf(number)
  OBVIOUS
<1>2. PICK m, l : m \in Nat /\ IsWritten(text, number, m, l)
  BY <1>1, DigitsWritten
<1>3. ASSUME NEW i \in 1 .. m PROVE text[i] \in Parts
  <2>1. CASE i = 1 /\ number < 0
    BY <1>2, <2>1, ShellLoopAssumption DEF IsWritten
  <2>2. CASE ~(i = 1 /\ number < 0)
    <3>1. i \in sign + 1 .. m
      BY <1>1, <2>2 DEF SignOf
    <3>2. l[i] % 10 \in 0 .. 9
      BY <1>1, <1>2, <3>1, Tenth DEF IsWritten
    <3>3. text[i] = Digit[(l[i] % 10) + 1]
      BY <1>2, <2>2 DEF IsWritten
    <3> QED BY <3>2, <3>3, DigitsDiffer
  <2> QED BY <2>1, <2>2
<1>4. m \in Nat /\ text \in [1 .. m -> Parts]
  BY <1>2, <1>3 DEF IsWritten
<1>5. text \in Seq(Parts)
  BY <1>4
<1> QED BY <1>1, <1>5

\* What is read of a text, up to k.
Reads(v, text, sign) ==
  v = [k \in sign .. Len(text) |->
        IF k = sign THEN 0
        ELSE 10 * v[k - 1] + (CHOOSE d \in 0 .. 9 : Digit[d + 1] = text[k])]

LEMMA ReadsExists ==
  ASSUME NEW text, Len(text) \in Nat, NEW sign \in {0, 1}, sign <= Len(text),
         \A k \in sign + 1 .. Len(text) : \E d \in 0 .. 9 : Digit[d + 1] = text[k]
  PROVE  \E v : Reads(v, text, sign)
<1>1. PICK m \in Nat : m = Len(text) - sign
  <2>1. PICK n \in Nat : n = Len(text)
    OBVIOUS
  <2>2. n - sign \in Nat
    BY <2>1
  <2> QED BY <2>1, <2>2
<1>2. PICK T : T = [k \in 0 .. m |-> Int]
  OBVIOUS
<1>3. PICK digit : digit = [k \in sign + 1 .. Len(text) |-> CHOOSE d \in 0 .. 9 : Digit[d + 1] = text[k]]
  OBVIOUS
<1>4. ASSUME NEW k \in sign + 1 .. Len(text)
      PROVE  digit[k] \in 0 .. 9 /\ digit[k] = CHOOSE d \in 0 .. 9 : Digit[d + 1] = text[k]
  BY <1>3
<1>5. PICK g : g = [k \in 1 .. m |-> [v \in Int |-> 10 * v + digit[sign + k]]]
  OBVIOUS
<1>6. T \in [0 .. m -> SUBSET Int] /\ 0 \in T[0]
  BY <1>2
<1>7. Maps(g, T, m)
  <2>1. ASSUME NEW k \in 1 .. m, NEW v \in T[k - 1] PROVE g[k][v] \in T[k]
    <3>1. v \in Int /\ T[k] = Int
      BY <1>2
    <3>2. sign + k \in sign + 1 .. Len(text)
      BY <1>1
    <3>3. digit[sign + k] \in Int
      BY <1>4, <3>2
    <3>4. g[k][v] = 10 * v + digit[sign + k]
      BY <1>5, <3>1
    <3> QED BY <3>1, <3>3, <3>4
  <2> QED BY <2>1 DEF Maps
<1>8. PICK f \in [0 .. m -> Int] : Iterates(f, g, 0, T, m)
  BY <1>6, <1>7, IterationExists
<1>9. f[0] = 0 /\ \A k \in 1 .. m : f[k] = 10 * f[k - 1] + digit[sign + k]
  <2>1. \A k \in 1 .. m : f[k - 1] \in Int
    OBVIOUS
  <2> QED BY <1>5, <1>8, <2>1 DEF Iterates
<1>10. PICK v : v = [k \in sign .. Len(text) |-> f[k - sign]]
  OBVIOUS
<1>11. ASSUME NEW k \in sign .. Len(text)
       PROVE  v[k] = IF k = sign THEN 0
                     ELSE 10 * v[k - 1] + (CHOOSE d \in 0 .. 9 : Digit[d + 1] = text[k])
  <2>1. CASE k = sign
    <3>1. k - sign = 0
      BY <2>1
    <3> QED BY <1>9, <1>10, <2>1, <3>1
  <2>2. CASE k # sign
    <3>1. PICK j : j = k - sign
      OBVIOUS
    <3>2. j \in 1 .. m /\ sign + j = k /\ k - 1 \in sign .. Len(text) /\ k - 1 - sign = j - 1
          /\ k \in sign + 1 .. Len(text)
      BY <1>1, <2>2, <3>1
    <3>3. v[k] = f[j] /\ v[k - 1] = f[j - 1]
      BY <1>10, <3>1, <3>2
    <3>4. f[j] = 10 * f[j - 1] + digit[k]
      BY <1>9, <3>2
    <3> QED BY <1>4, <2>2, <3>2, <3>3, <3>4
  <2> QED BY <2>1, <2>2
<1>12. v = [k \in sign .. Len(text) |->
             IF k = sign THEN 0
             ELSE 10 * v[k - 1] + (CHOOSE d \in 0 .. 9 : Digit[d + 1] = text[k])]
  BY <1>10, <1>11
<1>13. Reads(v, text, sign)
  BY <1>12 DEF Reads
<1> QED BY <1>13

\* The digits of what int_to_cstring writes.
DigitAt(text, l, k) ==
  /\ l[k] % 10 \in 0 .. 9 /\ text[k] = Digit[(l[k] % 10) + 1]
  /\ (CHOOSE d \in 0 .. 9 : Digit[d + 1] = text[k]) = l[k] % 10

LEMMA WrittenDigits ==
  ASSUME NEW number \in Int, NEW text, NEW m \in Nat, NEW l, IsWritten(text, number, m, l)
  PROVE  /\ Len(text) = m /\ (text[1] = "-" <=> SignOf(number) = 1)
         /\ \A k \in SignOf(number) + 1 .. m : DigitAt(text, l, k)
<1>1. SignOf(number) \in {0, 1} /\ (SignOf(number) = 1 <=> number < 0) /\ m >= SignOf(number) + 1
  BY DEF SignOf, IsWritten
<1>2. Len(text) = m
  BY DEF IsWritten
<1>3. ASSUME NEW k \in SignOf(number) + 1 .. m
      PROVE  DigitAt(text, l, k)
  <2>1. l[k] \in Nat /\ k \in 1 .. m /\ ~(k = 1 /\ number < 0)
    BY <1>1 DEF IsWritten
  <2>2. PICK e : e = l[k] % 10
    OBVIOUS
  <2>3. e \in 0 .. 9
    BY <2>1, <2>2, Tenth
  <2>4. text[k] = Digit[e + 1]
    BY <2>1, <2>2 DEF IsWritten
  <2>5. \A d \in 0 .. 9 : Digit[d + 1] = text[k] => d = e
    BY <2>3, <2>4, DigitsDiffer
  <2>6. (CHOOSE d \in 0 .. 9 : Digit[d + 1] = text[k]) = e
    BY <2>3, <2>4, <2>5
  <2> QED BY <2>2, <2>3, <2>4, <2>6 DEF DigitAt
<1>4. text[1] = "-" <=> SignOf(number) = 1
  <2>1. CASE number < 0
    BY <1>1, <2>1 DEF IsWritten
  <2>2. CASE ~(number < 0)
    <3>1. 1 \in SignOf(number) + 1 .. m /\ SignOf(number) = 0
      BY <1>1, <2>2
    <3> QED BY <1>3, <3>1, DigitsDiffer DEF DigitAt
  <2> QED BY <2>1, <2>2
<1> QED BY <1>2, <1>3, <1>4

\* What is read up to a digit is what was left of the number there.
LEMMA ReadsLeft ==
  ASSUME NEW number \in Int, NEW text, NEW m \in Nat, NEW l, IsWritten(text, number, m, l),
         NEW v, Reads(v, text, SignOf(number))
  PROVE  v[m] = SizeOf(number)
<1>1. PICK sign \in {0, 1} : sign = SignOf(number)
  BY DEF SignOf
<1>2. /\ m >= sign + 1 /\ l[m] = SizeOf(number)
      /\ \A i \in sign + 1 .. m : l[i] \in Nat
      /\ \A i \in sign + 1 .. m - 1 : l[i] = l[i + 1] \div 10
      /\ l[sign + 1] < 10
  BY <1>1 DEF IsWritten
<1>3. \A k \in sign + 1 .. m : l[k] % 10 \in 0 .. 9
        /\ (CHOOSE d \in 0 .. 9 : Digit[d + 1] = text[k]) = l[k] % 10
  <2>1. \A k \in SignOf(number) + 1 .. m : DigitAt(text, l, k)
    BY WrittenDigits
  <2> QED BY <1>1, <2>1 DEF DigitAt
<1>4. v[sign] = 0 /\ \A k \in sign + 1 .. m : v[k] = 10 * v[k - 1] + (l[k] % 10)
  <2>1. Len(text) = m
    BY WrittenDigits
  <2>2. v = [k \in sign .. m |->
              IF k = sign THEN 0
              ELSE 10 * v[k - 1] + (CHOOSE d \in 0 .. 9 : Digit[d + 1] = text[k])]
    BY <1>1, <2>1 DEF Reads
  <2>3. sign \in sign .. m
    BY <1>2
  <2>4. v[sign] = 0
    BY <2>2, <2>3
  <2>5. ASSUME NEW k \in sign + 1 .. m PROVE v[k] = 10 * v[k - 1] + (l[k] % 10)
    <3>1. k \in sign .. m /\ k # sign
      OBVIOUS
    <3>2. v[k] = 10 * v[k - 1] + (CHOOSE d \in 0 .. 9 : Digit[d + 1] = text[k])
      BY <2>2, <3>1
    <3> QED BY <1>3, <3>2
  <2> QED BY <2>4, <2>5
<1> DEFINE P == {k \in 0 .. m - sign - 1 : v[sign + 1 + k] = l[sign + 1 + k]}
<1>5. 0 \in P
  <2>1. sign + 1 \in sign + 1 .. m /\ sign + 1 + 0 = sign + 1 /\ sign + 1 - 1 = sign
    BY <1>2
  <2>2. v[sign + 1] = 10 * v[sign] + (l[sign + 1] % 10)
    BY <1>4, <2>1
  <2>3. l[sign + 1] % 10 = l[sign + 1] /\ l[sign + 1] \in Nat
    BY <1>2, <2>1, Tenth
  <2> QED BY <1>2, <1>4, <2>1, <2>2, <2>3
<1>6. ASSUME NEW k \in 1 .. m - sign - 1, k - 1 \in P PROVE k \in P
  <2>1. PICK i : i = sign + 1 + k
    OBVIOUS
  <2>2. i \in sign + 1 .. m /\ i - 1 \in sign + 1 .. m - 1 /\ sign + 1 + (k - 1) = i - 1
        /\ i - 1 + 1 = i
    BY <1>2, <2>1
  <2>3. v[i] = 10 * v[i - 1] + (l[i] % 10) /\ v[i - 1] = l[i - 1] /\ l[i - 1] = l[i] \div 10
    BY <1>2, <1>4, <1>6, <2>2
  <2>4. l[i] \in Nat
    BY <1>2, <2>2
  <2>5. v[i] = l[i]
    BY <2>3, <2>4, Tenth
  <2> QED BY <2>1, <2>5
<1>7. m - sign - 1 \in P
  <2>1. \A k \in 0 .. m - sign - 1 : k \in P
    <3> HIDE DEF P
    <3>1. m - sign - 1 \in Int
      OBVIOUS
    <3> QED BY <1>5, <1>6, <3>1, StepByStep
  <2>2. m - sign - 1 \in 0 .. m - sign - 1
    BY <1>2
  <2> QED BY <2>1, <2>2
<1>8. sign + 1 + (m - sign - 1) = m
  OBVIOUS
<1> QED BY <1>2, <1>7, <1>8

(***************************************************************************)
(* int_to_cstring writes the number: read digit by digit the text gives    *)
(* the number again, and a text of more than one digit does not start with *)
(* a zero.                                                                 *)
(***************************************************************************)
THEOREM NumberIsWritten ==
  ASSUME NEW number \in Int
  PROVE  /\ NumberOf(int_to_cstring(number)) = number
         /\ Len(int_to_cstring(number)) > 1 => int_to_cstring(number)[1] # "0"
<1>1. PICK text, sign : text = int_to_cstring(number) /\ sign = SignOf(number)
  OBVIOUS
<1>2. PICK m, l : m \in Nat /\ IsWritten(text, number, m, l)
  BY <1>1, DigitsWritten
<1>3. sign \in {0, 1} /\ (sign = 1 <=> number < 0) /\ m >= sign + 1
  BY <1>1, <1>2 DEF SignOf, IsWritten
<1>4. /\ Len(text) = m /\ (text[1] = "-" <=> sign = 1)
      /\ \A k \in sign + 1 .. m : l[k] % 10 \in 0 .. 9 /\ text[k] = Digit[(l[k] % 10) + 1]
  <2>1. /\ Len(text) = m /\ (text[1] = "-" <=> SignOf(number) = 1)
        /\ \A k \in SignOf(number) + 1 .. m : DigitAt(text, l, k)
    BY <1>1, <1>2, WrittenDigits
  <2> QED BY <1>1, <2>1 DEF DigitAt
<1>5. PICK v : v = CHOOSE f : Reads(f, text, sign)
  OBVIOUS
<1>6. Reads(v, text, sign)
  <2>1. \A k \in sign + 1 .. Len(text) : \E d \in 0 .. 9 : Digit[d + 1] = text[k]
    BY <1>4
  <2>2. sign <= Len(text) /\ Len(text) \in Nat
    BY <1>3, <1>4
  <2>3. \E f : Reads(f, text, sign)
    BY <1>3, <2>1, <2>2, ReadsExists
  <2> QED BY <1>5, <2>3
<1>7. v[m] = SizeOf(number)
  BY <1>1, <1>2, <1>6, ReadsLeft
<1>8. NumberOf(text) = IF text[1] = "-" THEN -v[Len(text)] ELSE v[Len(text)]
  <2>1. v = CHOOSE f : f = [k \in sign .. Len(text) |->
              IF k = sign THEN 0
              ELSE 10 * f[k - 1] + (CHOOSE d \in 0 .. 9 : Digit[d + 1] = text[k])]
    BY <1>5 DEF Reads
  <2>2. sign = IF text[1] = "-" THEN 1 ELSE 0
    BY <1>3, <1>4
  <2> QED BY <2>1, <2>2 DEF NumberOf
<1>9. NumberOf(text) = number
  <2>1. CASE number < 0
    BY <1>3, <1>4, <1>7, <1>8, <2>1 DEF SizeOf
  <2>2. CASE ~(number < 0)
    BY <1>3, <1>4, <1>7, <1>8, <2>2 DEF SizeOf
  <2> QED BY <2>1, <2>2
<1>10. m > 1 => text[1] # "0"
  <2>1. CASE sign = 1
    BY <1>4, <2>1
  <2>2. CASE sign = 0 /\ m > 1
    <3>1. 1 \in sign + 1 .. m - 1 /\ 1 \in sign + 1 .. m /\ 2 \in sign + 1 .. m /\ 1 + 1 = 2
      BY <1>2, <2>2
    <3>2. l[1] = l[2] \div 10 /\ l[2] >= 10 /\ l[2] \in Nat /\ l[1] < 10 /\ l[1] \in Nat
      BY <1>1, <1>2, <2>2, <3>1 DEF IsWritten
    <3>3. l[1] >= 1 /\ l[1] % 10 = l[1]
      BY <3>2, Tenth
    <3>4. text[1] = Digit[(l[1] % 10) + 1] /\ l[1] % 10 \in 0 .. 9
      BY <1>4, <3>1
    <3> QED BY <3>3, <3>4, DigitsDiffer
  <2> QED BY <1>3, <2>1, <2>2
<1> QED BY <1>1, <1>4, <1>9, <1>10

------------------------------------------------------------------------------
(* The names of a directory. *)

LEMMA ListedIsFinite ==
  ASSUME NEW entries \in SUBSET EntryType, IsFiniteSet(entries), NEW hidden
  PROVE  IsFiniteSet(Listed(entries, hidden)) /\ Listed(entries, hidden) \subseteq Names
<1>1. PICK sub : sub = {f \in entries : f.type \in {"DT_REG", "DT_DIR"} /\ (hidden \/ ~f.hidden)}
  OBVIOUS
<1>2. sub \in SUBSET entries
  BY <1>1
<1>3. IsFiniteSet(sub)
  BY <1>2, FS_Subset
<1>4. Listed(entries, hidden) = {e.name : e \in sub}
  BY <1>1 DEF Listed
<1>5. PICK S : S = Listed(entries, hidden)
  OBVIOUS
<1>6. PICK f : f = [e \in sub |-> e.name]
  OBVIOUS
<1>7. f \in Surjection(sub, S)
  BY <1>4, <1>5, <1>6 DEF Surjection
<1>8. IsFiniteSet(S)
  BY <1>3, <1>7, FS_Surjection
<1>9. S \subseteq Names
  BY <1>2, <1>4, <1>5 DEF EntryType
<1> QED BY <1>5, <1>8, <1>9

\* In whatever order the names are read, all of them come out, in their order.
LEMMA GlobbedNames ==
  ASSUME NEW S \in SUBSET Names, IsFiniteSet(S), NEW order \in SetToSeqs(S),
         NEW l, l = GlobbedFrom(order)
  PROVE  /\ Cardinality(S) \in Nat /\ l \in [1 .. Cardinality(S) -> S]
         /\ ToSet(l) = S /\ Sorted(l)
<1>1. PICK n \in Nat : n = Cardinality(S)
  BY FS_CardinalityType
<1>2. order \in [1 .. n -> S] /\ \A i, j \in 1 .. n : i # j => order[i] # order[j]
  BY <1>1 DEF SetToSeqs
<1>3. order \in [1 .. n -> Names] /\ \A i, j \in 1 .. n : order[i] = order[j] => i = j
  BY <1>2
<1>4. {order[i] : i \in 1 .. n} = S
  <2>1. PICK D : D = 1 .. n
    OBVIOUS
  <2>2. IsFiniteSet(D) /\ Cardinality(D) = n
    BY <1>1, <2>1, FS_Interval
  <2>3. order \in Injection(D, S)
    BY <1>2, <2>1 DEF Injection, IsInjective
  <2>4. order \in Surjection(D, S)
    BY <1>1, <2>2, <2>3, FS_Injection
  <2> QED BY <1>2, <2>1, <2>4 DEF Surjection
<1>5. l = quick_sort_list(order, 0, n - 1)
  <2>1. Len(order) = n
    BY <1>2
  <2> QED BY <2>1 DEF GlobbedFrom
<1>6. /\ l \in [1 .. n -> Names]
      /\ {l[x] : x \in 1 .. n} = {order[x] : x \in 1 .. n}
      /\ \A x, y \in 1 .. n : x < y => Rank(l[x]) < Rank(l[y])
  BY <1>3, <1>5, SortedNames
<1>7. DOMAIN l = 1 .. n
  BY <1>6
<1>8. ToSet(l) = S /\ Sorted(l)
  BY <1>4, <1>6, <1>7 DEF ToSet, Sorted
<1>9. l \in [1 .. n -> S]
  BY <1>4, <1>6
<1> QED BY <1>1, <1>8, <1>9

------------------------------------------------------------------------------
(* Blocks. *)

LEMMA LineTypes ==
  ASSUME TypeOK
  PROVE  /\ line \in LineType /\ line.kind \in LineKinds /\ turn \in 0 .. MaxTurns
         /\ line.kind = "parsed" =>
              line.commands # <<>> /\ \A c \in DOMAIN line.commands : line.commands[c] # <<>>
         /\ line.errors \in Nat
         /\ line.kind = "parsed" => line.errors = 0
         /\ line.kind = "untokenized" => line.errors = 1
         /\ line.kind = "refused" => line.errors > 0
<1>1. line \in Lines \cup {NoLine} /\ turn \in 0 .. MaxTurns
  BY DEF TypeOK
<1>2. CASE line \in Lines
  <2>1. line \in LineType
    BY <1>2, ShellLoopAssumption
  <2>2. line.kind \in LineKinds
    BY <2>1 DEF LineType
  <2>3. line.errors \in Nat
    BY <2>1 DEF LineType
  <2> QED BY <1>1, <1>2, <2>1, <2>2, <2>3, ShellLoopAssumption
<1>3. CASE line = NoLine
  <2>1. line.kind = "blank" /\ line.commands = <<>> /\ line.errors = 0
    BY <1>3 DEF NoLine
  <2>2. line \in LineType
    <3>1. <<>> \in Seq(Seq(StageType)) /\ "blank" \in LineKinds
      BY DEF LineKinds
    <3> QED BY <1>3, <3>1 DEF NoLine, LineType
  <2> QED BY <1>1, <2>1, <2>2 DEF LineKinds
<1> QED BY <1>1, <1>2, <1>3

LEMMA BlockType ==
  ASSUME TypeOK, NEW for \in Purposes, NEW at \in Seq(Nat)
  PROVE  Block(for, at) \in Blocks
BY LineTypes DEF Block, Blocks

LEMMA BlockAt1 ==
  ASSUME TypeOK, NEW for \in Purposes, NEW c \in Nat
  PROVE  Block(for, <<c>>) \in Blocks
<1>1. <<c>> \in Seq(Nat)
  OBVIOUS
<1> QED BY <1>1, BlockType

LEMMA BlockAt2 ==
  ASSUME TypeOK, NEW for \in Purposes, NEW c \in Nat, NEW s \in Nat
  PROVE  Block(for, <<c, s>>) \in Blocks
<1>1. <<c, s>> \in Seq(Nat)
  OBVIOUS
<1> QED BY <1>1, BlockType

LEMMA BlockAt3 ==
  ASSUME TypeOK, NEW for \in Purposes, NEW c \in Nat, NEW s \in Nat, NEW k \in Nat
  PROVE  Block(for, <<c, s, k>>) \in Blocks
<1>1. <<c, s, k>> \in Seq(Nat)
  OBVIOUS
<1> QED BY <1>1, BlockType

\* What is allocated has a turn, a constant has none.
LEMMA BlockIsNotStatic ==
  ASSUME NEW b \in Blocks
  PROVE  b # Static
<1>1. "turn" \in DOMAIN b
  BY DEF Blocks
<1>2. DOMAIN Static = {"static"}
  BY DEF Static
<1> QED BY <1>1, <1>2

\* Nor has a literal.
LEMMA HasTurnIsNotLiteral ==
  ASSUME NEW b, "turn" \in DOMAIN b
  PROVE  b # Literal
<1>1. DOMAIN Literal = {"literal"}
  BY DEF Literal
<1> QED BY <1>1

\* A list of the places Block is given.
LEMMA PlacesAreSequences ==
  /\ <<>> \in Seq(Nat)
  /\ \A c \in Nat : <<c>> \in Seq(Nat) /\ <<c>>[1] = c
  /\ \A c, s \in Nat : <<c, s>> \in Seq(Nat) /\ <<c, s>>[1] = c /\ <<c, s>>[2] = s
  /\ \A c, s, k \in Nat : /\ <<c, s, k>> \in Seq(Nat) /\ <<c, s, k>>[1] = c
                          /\ <<c, s, k>>[2] = s /\ <<c, s, k>>[3] = k
OBVIOUS

------------------------------------------------------------------------------
(* The arguments when the symbols have been replaced. *)

\* What becomes of argument k.
Additions(args, k, orders) ==
  IF IsSymbol(args[k], <<"$?">>) THEN Values(args, k, <<int_to_cstring(last_status_code)>>)
  ELSE IF IsSymbol(args[k], <<"*">>) THEN Values(args, k, GlobbedFrom(orders[k]))
  ELSE <<args[k]>>

TheListed == Listed(Directories[directory], FALSE)

\* The names were read for every "*".
Ordered(args, orders) ==
  \A k \in DOMAIN args : IsSymbol(args[k], <<"*">>) => orders[k] \in SetToSeqs(TheListed)

LEMMA TheListedIsFinite ==
  ASSUME TypeOK
  PROVE  IsFiniteSet(TheListed) /\ TheListed \in SUBSET Names
<1>1. Directories[directory] \in SUBSET EntryType /\ IsFiniteSet(Directories[directory])
  BY ShellLoopAssumption DEF TypeOK
<1> QED BY <1>1, ListedIsFinite DEF TheListed

LEMMA ValueIs ==
  ASSUME NEW args, NEW k, NEW texts \in Seq(Seq(Parts)), NEW i \in 1 .. Len(texts)
  PROVE  Values(args, k, texts)[i] = [text |-> texts[i], block |-> Block("value", <<command, k, i>>)]
BY DEF Values

LEMMA ValuesType ==
  ASSUME TypeOK, NEW args, NEW k \in Nat, NEW texts \in Seq(Seq(Parts)),
         NEW v, v = Values(args, k, texts)
  PROVE  v \in Seq(ArgType) /\ Len(v) = Len(texts)
<1>1. PICK n \in Nat : n = Len(texts)
  OBVIOUS
<1>2. v = [i \in 1 .. n |-> [text |-> texts[i], block |-> Block("value", <<command, k, i>>)]]
  <2>1. DOMAIN texts = 1 .. n
    BY <1>1
  <2> QED BY <2>1 DEF Values
<1>3. command \in Nat
  BY DEF TypeOK
<1>4. ASSUME NEW i \in 1 .. n
      PROVE  /\ v[i] = [text |-> texts[i], block |-> Block("value", <<command, k, i>>)]
             /\ v[i] \in ArgType
  <2>1. v[i] = [text |-> texts[i], block |-> Block("value", <<command, k, i>>)]
    BY <1>2
  <2>2. <<command, k, i>> \in Seq(Nat) /\ "value" \in Purposes
    BY <1>3 DEF Purposes
  <2>3. PICK b : b = Block("value", <<command, k, i>>)
    OBVIOUS
  <2>4. b \in MaybeBlock
    BY <2>2, <2>3, BlockType DEF MaybeBlock
  <2>5. PICK t : t = texts[i]
    OBVIOUS
  <2>6. t \in Seq(Parts)
    BY <1>1, <2>5
  <2>7. v[i] = [text |-> t, block |-> b]
    BY <2>1, <2>3, <2>5
  <2>8. v[i] \in ArgType
    BY <2>4, <2>6, <2>7 DEF ArgType
  <2> QED BY <2>1, <2>8
<1>5. DOMAIN v = 1 .. n /\ \A i \in 1 .. n : v[i] \in ArgType
  BY <1>2, <1>4
<1>6. v \in [1 .. n -> ArgType]
  <2>1. v = [i \in 1 .. n |-> v[i]]
    BY <1>2
  <2> QED BY <1>5, <2>1
<1>7. v \in Seq(ArgType) /\ Len(v) = n
  BY <1>6
<1> QED BY <1>1, <1>7

\* "$?" becomes the status.
LEMMA StatusAdded ==
  ASSUME TypeOK, NEW args, NEW k \in Nat, NEW orders, IsSymbol(args[k], <<"$?">>),
         NEW a, a = Additions(args, k, orders)
  PROVE  /\ a = Values(args, k, <<int_to_cstring(last_status_code)>>)
         /\ a \in Seq(ArgType) /\ Len(a) = 1
         /\ a[1].text = int_to_cstring(last_status_code)
         /\ a[1].block = Block("value", <<command, k, 1>>)
<1>1. PICK texts : texts = <<int_to_cstring(last_status_code)>>
  OBVIOUS
<1>2. last_status_code \in Int
  BY ShellLoopAssumption DEF TypeOK
<1>3. texts \in Seq(Seq(Parts)) /\ Len(texts) = 1 /\ texts[1] = int_to_cstring(last_status_code)
  BY <1>1, <1>2, NumberText
<1>4. a = Values(args, k, texts)
  BY <1>1 DEF Additions
<1>5. a \in Seq(ArgType) /\ Len(a) = 1
  BY <1>3, <1>4, ValuesType
<1>6. a[1] = [text |-> texts[1], block |-> Block("value", <<command, k, 1>>)]
  <2>1. 1 \in 1 .. Len(texts)
    BY <1>3
  <2> QED BY <1>3, <1>4, <2>1, ValueIs
<1> QED BY <1>1, <1>3, <1>4, <1>5, <1>6

\* "*" becomes the names.
ListsNames(a) ==
  /\ Len(a) = Cardinality(TheListed)
  /\ {a[i].text : i \in 1 .. Len(a)} = TheListed
  /\ \A i, j \in 1 .. Len(a) : i < j => Rank(a[i].text) < Rank(a[j].text)

LEMMA NamesAdded ==
  ASSUME TypeOK, NEW args, NEW k \in Nat, NEW orders, IsSymbol(args[k], <<"*">>),
         orders[k] \in SetToSeqs(TheListed), NEW a, a = Additions(args, k, orders)
  PROVE  /\ a = Values(args, k, GlobbedFrom(orders[k]))
         /\ a \in Seq(ArgType) /\ ListsNames(a)
         /\ \A i \in 1 .. Len(a) : a[i].block = Block("value", <<command, k, i>>)
<1>1. PICK texts : texts = GlobbedFrom(orders[k])
  OBVIOUS
<1>2. PICK n : n = Cardinality(TheListed)
  OBVIOUS
<1>3. /\ n \in Nat /\ texts \in [1 .. n -> TheListed]
      /\ ToSet(texts) = TheListed /\ Sorted(texts)
  BY <1>1, <1>2, TheListedIsFinite, GlobbedNames
<1>4. texts \in Seq(Seq(Parts)) /\ Len(texts) = n
  <2>1. TheListed \subseteq Seq(Parts)
    BY TheListedIsFinite, ShellLoopAssumption
  <2>2. texts \in [1 .. n -> Seq(Parts)]
    BY <1>3, <2>1
  <2> QED BY <1>3, <2>2
<1>5. a = Values(args, k, texts)
  <2>1. <<"$?">> # <<"*">>
    OBVIOUS
  <2>2. ~IsSymbol(args[k], <<"$?">>)
    BY <2>1 DEF IsSymbol
  <2> QED BY <1>1, <2>2 DEF Additions
<1>6. a \in Seq(ArgType) /\ Len(a) = n
  BY <1>4, <1>5, ValuesType
<1>7. ASSUME NEW i \in 1 .. n
      PROVE  a[i].text = texts[i] /\ a[i].block = Block("value", <<command, k, i>>)
  <2>1. i \in 1 .. Len(texts)
    BY <1>4
  <2>2. a[i] = [text |-> texts[i], block |-> Block("value", <<command, k, i>>)]
    BY <1>4, <1>5, <2>1, ValueIs
  <2> QED BY <2>2
<1>8. {a[i].text : i \in 1 .. n} = TheListed
  <2>1. ToSet(texts) = {texts[i] : i \in 1 .. n}
    BY <1>3 DEF ToSet
  <2>2. \A i \in 1 .. n : a[i].text = texts[i]
    BY <1>7
  <2>3. {a[i].text : i \in 1 .. n} = {texts[i] : i \in 1 .. n}
    BY <2>2
  <2> QED BY <1>3, <2>1, <2>3
<1>9. ASSUME NEW i \in 1 .. n, NEW j \in 1 .. n, i < j
      PROVE  Rank(a[i].text) < Rank(a[j].text)
  <2>1. DOMAIN texts = 1 .. n
    BY <1>3
  <2>2. Rank(texts[i]) < Rank(texts[j])
    BY <1>3, <1>9, <2>1 DEF Sorted
  <2> QED BY <1>7, <2>2
<1> QED BY <1>1, <1>2, <1>5, <1>6, <1>7, <1>8, <1>9 DEF ListsNames

\* Another argument stays.
LEMMA WordAdded ==
  ASSUME NEW args \in Seq(ArgType), NEW k \in 1 .. Len(args), NEW orders,
         ~IsSymbol(args[k], <<"$?">>), ~IsSymbol(args[k], <<"*">>),
         NEW a, a = Additions(args, k, orders)
  PROVE  a = <<args[k]>> /\ a \in Seq(ArgType) /\ Len(a) = 1 /\ a[1] = args[k]
<1>1. a = <<args[k]>>
  BY DEF Additions
<1>2. args[k] \in ArgType
  OBVIOUS
<1> QED BY <1>1, <1>2

LEMMA AdditionsType ==
  ASSUME TypeOK, NEW args \in Seq(ArgType), NEW k \in 1 .. Len(args), NEW orders,
         Ordered(args, orders), NEW a, a = Additions(args, k, orders)
  PROVE  a \in Seq(ArgType)
<1>1. k \in Nat /\ k \in DOMAIN args
  OBVIOUS
<1>2. CASE IsSymbol(args[k], <<"$?">>)
  BY <1>1, <1>2, StatusAdded
<1>3. CASE IsSymbol(args[k], <<"*">>)
  <2>1. orders[k] \in SetToSeqs(TheListed)
    BY <1>1, <1>3 DEF Ordered
  <2> QED BY <1>1, <1>3, <2>1, NamesAdded
<1>4. CASE ~IsSymbol(args[k], <<"$?">>) /\ ~IsSymbol(args[k], <<"*">>)
  BY <1>4, WordAdded
<1> QED BY <1>2, <1>3, <1>4

LEMMA ReplacedAdds ==
  ASSUME TypeOK, NEW args \in Seq(ArgType), NEW k \in 1 .. Len(args), NEW orders,
         Ordered(args, orders), NEW list \in ListOf(ArgType), Fits(list),
         NEW l, l = Replaced(args, k, list, orders)
  PROVE  /\ l \in ListOf(ArgType) /\ Fits(l)
         /\ l.data = list.data \o Additions(args, k, orders)
<1>1. PICK a : a = Additions(args, k, orders)
  OBVIOUS
<1>2. a \in Seq(ArgType) /\ k \in Nat /\ k \in DOMAIN args
  BY <1>1, AdditionsType
<1>3. CASE IsSymbol(args[k], <<"$?">>)
  <2>1. a = Values(args, k, <<int_to_cstring(last_status_code)>>) /\ Len(a) = 1
    BY <1>1, <1>2, <1>3, StatusAdded
  <2>2. PICK e : e = a[1]
    OBVIOUS
  <2>3. a = <<e>> /\ e \in ArgType
    BY <1>2, <2>1, <2>2
  <2>4. l = Push(list, e)
    BY <1>3, <2>1, <2>2 DEF Replaced
  <2>5. l \in ListOf(ArgType) /\ Fits(l) /\ l.data = list.data \o <<e>>
    BY <2>3, <2>4, PushFits
  <2> QED BY <1>1, <2>3, <2>5
<1>4. CASE ~IsSymbol(args[k], <<"$?">>) /\ IsSymbol(args[k], <<"*">>)
  <2>1. orders[k] \in SetToSeqs(TheListed)
    BY <1>2, <1>4 DEF Ordered
  <2>2. a = Values(args, k, GlobbedFrom(orders[k]))
    BY <1>1, <1>2, <1>4, <2>1, NamesAdded
  <2>3. l = PushAll(list, a)
    BY <1>4, <2>2 DEF Replaced
  <2> QED BY <1>1, <1>2, <2>3, PushAllFits
<1>5. CASE ~IsSymbol(args[k], <<"$?">>) /\ ~IsSymbol(args[k], <<"*">>)
  <2>1. PICK e : e = args[k]
    OBVIOUS
  <2>2. a = <<e>> /\ e \in ArgType
    BY <1>1, <1>2, <1>5, <2>1, WordAdded
  <2>3. l = Push(list, e)
    BY <1>5, <2>1 DEF Replaced
  <2>4. l \in ListOf(ArgType) /\ Fits(l) /\ l.data = list.data \o <<e>>
    BY <2>2, <2>3, PushFits
  <2> QED BY <1>1, <2>2, <2>4
<1> QED BY <1>3, <1>4, <1>5

\* The list before every argument, and behind the last one.
Substitutes(l, args, orders) ==
  /\ l[0] = CreateList
  /\ \A k \in 1 .. Len(args) : l[k] = Replaced(args, k, l[k - 1], orders)

LEMMA SubstitutedIs ==
  ASSUME TypeOK, NEW args \in Seq(ArgType), NEW orders, Ordered(args, orders)
  PROVE  \E l : Substitutes(l, args, orders) /\ Substituted(args, orders) = l[Len(args)]
<1>1. PICK n \in Nat : n = Len(args)
  OBVIOUS
<1>2. PICK S : S = {l \in ListOf(ArgType) : Fits(l)}
  OBVIOUS
<1>3. PICK T : T = [k \in 0 .. n |-> S]
  OBVIOUS
<1>4. PICK g : g = [k \in 1 .. n |-> [l \in S |-> Replaced(args, k, l, orders)]]
  OBVIOUS
<1>5. CreateList \in S
  <2>1. CreateList \in ListOf(ArgType)
    <3>1. <<>> \in Seq(ArgType)
      OBVIOUS
    <3> QED BY <3>1, ListsAssumption DEF CreateList, ListOf
  <2>2. Fits(CreateList)
    BY ListsAssumption DEF CreateList, Fits
  <2> QED BY <1>2, <2>1, <2>2
<1>6. T \in [0 .. n -> SUBSET S] /\ CreateList \in T[0]
  BY <1>3, <1>5
<1>7. Maps(g, T, n)
  <2>1. ASSUME NEW k \in 1 .. n, NEW v \in T[k - 1] PROVE g[k][v] \in T[k]
    <3>1. v \in S /\ T[k] = S
      BY <1>3
    <3>2. g[k][v] = Replaced(args, k, v, orders)
      BY <1>4, <3>1
    <3> QED BY <1>1, <1>2, <3>1, <3>2, ReplacedAdds
  <2> QED BY <2>1 DEF Maps
<1>8. PICK f \in [0 .. n -> S] : Iterates(f, g, CreateList, T, n)
  BY <1>6, <1>7, IterationExists
<1>9. f[0] = CreateList /\ \A k \in 1 .. n : f[k] = Replaced(args, k, f[k - 1], orders)
  <2>1. \A k \in 1 .. n : f[k - 1] \in S
    OBVIOUS
  <2> QED BY <1>4, <1>8, <2>1 DEF Iterates
<1>10. f = [k \in 0 .. n |-> IF k = 0 THEN CreateList ELSE Replaced(args, k, f[k - 1], orders)]
  <2>1. \A k \in 0 .. n : f[k] = IF k = 0 THEN CreateList ELSE Replaced(args, k, f[k - 1], orders)
    BY <1>9
  <2> QED BY <2>1
<1>11. PICK l : l = CHOOSE h : h = [k \in 0 .. n |->
                       IF k = 0 THEN CreateList ELSE Replaced(args, k, h[k - 1], orders)]
  OBVIOUS
<1>12. l = [k \in 0 .. n |-> IF k = 0 THEN CreateList ELSE Replaced(args, k, l[k - 1], orders)]
  BY <1>10, <1>11
<1>13. Substituted(args, orders) = l[n]
  BY <1>1, <1>11 DEF Substituted
<1>14. \A k \in 0 .. n : l[k] = IF k = 0 THEN CreateList ELSE Replaced(args, k, l[k - 1], orders)
  BY <1>12
<1>15. l[0] = CreateList /\ \A k \in 1 .. n : l[k] = Replaced(args, k, l[k - 1], orders)
  <2>1. 0 \in 0 .. n /\ \A k \in 1 .. n : k \in 0 .. n /\ k # 0
    OBVIOUS
  <2> QED BY <1>14, <2>1
<1> QED BY <1>1, <1>13, <1>15 DEF Substitutes

LEMMA SubstitutesGrows ==
  ASSUME TypeOK, NEW args \in Seq(ArgType), NEW orders, Ordered(args, orders),
         NEW l, Substitutes(l, args, orders)
  PROVE  /\ \A k \in 0 .. Len(args) : l[k] \in ListOf(ArgType) /\ Fits(l[k])
         /\ l[0].data = <<>>
         /\ \A k \in 1 .. Len(args) : l[k].data = l[k - 1].data \o Additions(args, k, orders)
<1> DEFINE P == {k \in 0 .. Len(args) : l[k] \in ListOf(ArgType) /\ Fits(l[k])}
<1>1. l[0].data = <<>> /\ 0 \in P
  <2>1. <<>> \in Seq(ArgType) /\ Len(<<>>) = 0
    OBVIOUS
  <2>2. l[0] \in ListOf(ArgType) /\ Fits(l[0]) /\ l[0].data = <<>>
    BY <2>1, ListsAssumption DEF Substitutes, CreateList, ListOf, Fits
  <2> QED BY <2>2
<1>2. ASSUME NEW k \in 1 .. Len(args), k - 1 \in P
      PROVE  k \in P /\ l[k].data = l[k - 1].data \o Additions(args, k, orders)
  <2>1. PICK before, after : before = l[k - 1] /\ after = l[k]
    OBVIOUS
  <2>2. after = Replaced(args, k, before, orders)
    BY <2>1 DEF Substitutes
  <2>3. before \in ListOf(ArgType) /\ Fits(before)
    BY <1>2, <2>1
  <2>4. /\ after \in ListOf(ArgType) /\ Fits(after)
        /\ after.data = before.data \o Additions(args, k, orders)
    BY <2>2, <2>3, ReplacedAdds
  <2>5. k \in 0 .. Len(args)
    OBVIOUS
  <2> QED BY <2>1, <2>4, <2>5
<1>3. \A k \in 0 .. Len(args) : k \in P
  <2> HIDE DEF P
  <2>1. Len(args) \in Int
    OBVIOUS
  <2> QED BY <1>1, <1>2, <2>1, StepByStep
<1>4. \A k \in 1 .. Len(args) : k - 1 \in P
  BY <1>3
<1> QED BY <1>1, <1>2, <1>3, <1>4

\* A block among the arguments of the first stage that comes from argument k.
From(b, k) ==
  \/ b = Static \/ b = Block("string", <<command, 1, k>>)
  \/ \E i \in Nat : b = Block("value", <<command, k, i>>)

LEMMA BlockPlace ==
  ASSUME TypeOK, NEW for \in {"string", "value"}, NEW j \in Nat, NEW k \in Nat,
         NEW b, b = Block(for, <<command, j, k>>)
  PROVE  /\ b \in Blocks /\ b.turn = turn /\ b.line = line.kind /\ b.for = for
         /\ b.at[1] = command /\ b.at[2] = j /\ b.at[3] = k
<1>1. PICK at : at = <<command, j, k>>
  OBVIOUS
<1>2. command \in Nat /\ for \in Purposes
  BY DEF TypeOK, Purposes
<1>3. at \in Seq(Nat) /\ at[1] = command /\ at[2] = j /\ at[3] = k
  BY <1>1, <1>2
<1>4. b \in Blocks
  BY <1>2, BlockAt3
<1>5. b.turn = turn /\ b.line = line.kind /\ b.for = for /\ b.at = at
  BY <1>1 DEF Block
<1> QED BY <1>3, <1>4, <1>5

LEMMA FromTells ==
  ASSUME TypeOK, NEW j \in Nat, NEW k \in Nat, NEW b, From(b, j), From(b, k), b # Static
  PROVE  j = k
<1>1. ASSUME NEW i \in Nat, From(b, i)
      PROVE  \/ b.for = "string" /\ b.at[3] = i
             \/ b.for = "value" /\ b.at[2] = i
  <2>1. CASE b = Block("string", <<command, 1, i>>)
    BY <2>1, BlockPlace
  <2>2. CASE \E m \in Nat : b = Block("value", <<command, i, m>>)
    <3>1. PICK m \in Nat : b = Block("value", <<command, i, m>>)
      BY <2>2
    <3> QED BY <3>1, BlockPlace
  <2> QED BY <1>1, <2>1, <2>2 DEF From
<1>2. (b.for = "string" /\ b.at[3] = j) \/ (b.for = "value" /\ b.at[2] = j)
  BY <1>1
<1>3. (b.for = "string" /\ b.at[3] = k) \/ (b.for = "value" /\ b.at[2] = k)
  BY <1>1
<1> QED BY <1>2, <1>3

\* The arguments as the parser leaves them.
Fresh(args) == \A k \in 1 .. Len(args) : args[k].block \in {Static, Block("string", <<command, 1, k>>)}

\* Of the first k arguments: each block once, and none of theirs lost.
Placed(data, args, k) ==
  /\ \A i \in 1 .. Len(data) : \E j \in 1 .. k : From(data[i].block, j)
  /\ \A i, j \in 1 .. Len(data) : i # j /\ data[i].block = data[j].block => data[i].block = Static
  /\ \A j \in 1 .. k : args[j].block # Static =>
                         \E i \in 1 .. Len(data) : data[i].block = args[j].block

\* What argument k adds: each block once, and its own not lost.
AddsPlaced(a, args, k) ==
  /\ a \in Seq(ArgType) /\ \A i \in 1 .. Len(a) : From(a[i].block, k)
  /\ \A i, j \in 1 .. Len(a) : i # j /\ a[i].block = a[j].block => a[i].block = Static
  /\ args[k].block # Static => \E i \in 1 .. Len(a) : a[i].block = args[k].block

LEMMA AdditionsPlaced ==
  ASSUME TypeOK, NEW args \in Seq(ArgType), Fresh(args), NEW k \in 1 .. Len(args), NEW orders,
         Ordered(args, orders), NEW a, a = Additions(args, k, orders)
  PROVE  AddsPlaced(a, args, k)
<1>1. a \in Seq(ArgType)
  BY AdditionsType
<1>2. k \in Nat /\ k \in DOMAIN args
  OBVIOUS
<1>3. CASE IsSymbol(args[k], <<"$?">>)
  <2>1. Len(a) = 1 /\ a[1].block = Block("value", <<command, k, 1>>)
    BY <1>2, <1>3, StatusAdded
  <2>2. args[k].block = Static
    BY <1>3 DEF IsSymbol
  <2>3. From(a[1].block, k)
    BY <2>1 DEF From
  <2>4. \A i \in 1 .. Len(a) : i = 1
    BY <2>1
  <2> QED BY <1>1, <2>2, <2>3, <2>4 DEF AddsPlaced
<1>4. CASE IsSymbol(args[k], <<"*">>)
  <2>1. args[k].block = Static
    BY <1>4 DEF IsSymbol
  <2>2. PICK n \in Nat : n = Len(a)
    BY <1>1
  <2>3. \A i \in 1 .. n : a[i].block = Block("value", <<command, k, i>>)
    <3>1. orders[k] \in SetToSeqs(TheListed)
      BY <1>2, <1>4 DEF Ordered
    <3> QED BY <1>2, <1>4, <2>2, <3>1, NamesAdded
  <2>4. \A i \in 1 .. n : From(a[i].block, k)
    BY <2>3 DEF From
  <2>5. ASSUME NEW i \in 1 .. n, NEW j \in 1 .. n, a[i].block = a[j].block
        PROVE  i = j
    <3>1. PICK b : b = a[i].block
      OBVIOUS
    <3>2. b = Block("value", <<command, k, i>>) /\ b = Block("value", <<command, k, j>>)
      BY <2>3, <2>5, <3>1
    <3>3. i \in Nat /\ j \in Nat /\ k \in Nat
      BY <1>2
    <3>4. b.at[3] = i
      BY <3>2, <3>3, BlockPlace
    <3>5. b.at[3] = j
      BY <3>2, <3>3, BlockPlace
    <3> QED BY <3>4, <3>5
  <2> QED BY <1>1, <2>1, <2>2, <2>4, <2>5 DEF AddsPlaced
<1>5. CASE ~IsSymbol(args[k], <<"$?">>) /\ ~IsSymbol(args[k], <<"*">>)
  <2>1. Len(a) = 1 /\ a[1] = args[k]
    BY <1>5, WordAdded
  <2>2. From(args[k].block, k)
    BY DEF Fresh, From
  <2>3. \A i \in 1 .. Len(a) : i = 1
    BY <2>1
  <2> QED BY <1>1, <2>1, <2>2, <2>3 DEF AddsPlaced
<1> QED BY <1>3, <1>4, <1>5

LEMMA PlacedMore ==
  ASSUME TypeOK, NEW args \in Seq(ArgType), Fresh(args), NEW k \in 1 .. Len(args), NEW orders,
         Ordered(args, orders), NEW data \in Seq(ArgType), Placed(data, args, k - 1),
         NEW d, d = data \o Additions(args, k, orders)
  PROVE  Placed(d, args, k)
<1>1. PICK a : a = Additions(args, k, orders)
  OBVIOUS
<1>2. /\ a \in Seq(ArgType) /\ \A i \in 1 .. Len(a) : From(a[i].block, k)
      /\ \A i, j \in 1 .. Len(a) : i # j /\ a[i].block = a[j].block => a[i].block = Static
      /\ args[k].block # Static => \E i \in 1 .. Len(a) : a[i].block = args[k].block
  <2>1. AddsPlaced(a, args, k)
    BY <1>1, AdditionsPlaced
  <2> QED BY <2>1 DEF AddsPlaced
<1>3. PICK n \in Nat, m \in Nat : n = Len(data) /\ m = Len(a)
  BY <1>2
<1>4. /\ Len(d) = n + m
      /\ \A i \in 1 .. n : d[i] = data[i]
      /\ \A i \in 1 .. m : d[n + i] = a[i]
  BY <1>1, <1>2, <1>3, Concatenated
<1>5. \A i \in 1 .. n + m : i \in 1 .. n \/ (i - n \in 1 .. m /\ i = n + (i - n))
  BY <1>3
<1>6. ASSUME NEW i \in 1 .. n + m
      PROVE  \/ i \in 1 .. n /\ d[i] = data[i] /\ \E j \in 1 .. k - 1 : From(d[i].block, j)
             \/ i - n \in 1 .. m /\ d[i] = a[i - n] /\ From(d[i].block, k)
  <2>1. CASE i \in 1 .. n
    BY <1>3, <1>4, <2>1 DEF Placed
  <2>2. CASE i - n \in 1 .. m /\ i = n + (i - n)
    <3>1. PICK j : j = i - n
      OBVIOUS
    <3>2. j \in 1 .. m /\ d[n + j] = a[j] /\ i = n + j
      BY <1>4, <2>2, <3>1
    <3> QED BY <1>2, <1>3, <3>1, <3>2
  <2> QED BY <1>5, <2>1, <2>2
<1>7. \A i \in 1 .. Len(d) : \E j \in 1 .. k : From(d[i].block, j)
  BY <1>4, <1>6
<1>8. ASSUME NEW i \in 1 .. Len(d), NEW j \in 1 .. Len(d), i # j, d[i].block = d[j].block
      PROVE  d[i].block = Static
  <2>1. CASE i \in 1 .. n /\ j \in 1 .. n
    BY <1>3, <1>4, <1>8, <2>1 DEF Placed
  <2>2. CASE i - n \in 1 .. m /\ j - n \in 1 .. m /\ d[i] = a[i - n] /\ d[j] = a[j - n]
    <3>1. i - n # j - n
      BY <1>8
    <3> QED BY <1>2, <1>3, <1>8, <2>2, <3>1
  <2>3. ASSUME NEW p \in 1 .. k - 1,
               \/ From(d[i].block, p) /\ From(d[j].block, k)
               \/ From(d[j].block, p) /\ From(d[i].block, k)
        PROVE  d[i].block = Static
    BY <1>8, <2>3, FromTells
  <2> QED BY <1>4, <1>6, <2>1, <2>2, <2>3
<1>9. ASSUME NEW j \in 1 .. k, args[j].block # Static
      PROVE  \E i \in 1 .. Len(d) : d[i].block = args[j].block
  <2>1. CASE j = k
    <3>1. PICK i \in 1 .. m : a[i].block = args[j].block
      BY <1>2, <1>3, <1>9, <2>1
    <3>2. n + i \in 1 .. Len(d) /\ d[n + i] = a[i]
      BY <1>4
    <3> QED BY <3>1, <3>2
  <2>2. CASE j # k
    <3>1. j \in 1 .. k - 1
      BY <2>2
    <3>2. PICK i \in 1 .. n : data[i].block = args[j].block
      BY <1>3, <1>9, <3>1 DEF Placed
    <3> QED BY <1>4, <3>2
  <2> QED BY <2>1, <2>2
<1> QED BY <1>7, <1>8, <1>9 DEF Placed

\* The new arguments: each block once, and no word of the line lost.
LEMMA SubstitutedPlaced ==
  ASSUME TypeOK, NEW args \in Seq(ArgType), Fresh(args), NEW orders, Ordered(args, orders),
         NEW list, list = Substituted(args, orders)
  PROVE  list \in ListOf(ArgType) /\ Fits(list) /\ Placed(list.data, args, Len(args))
<1>1. PICK l : Substitutes(l, args, orders) /\ list = l[Len(args)]
  BY SubstitutedIs
<1>2. /\ \A k \in 0 .. Len(args) : l[k] \in ListOf(ArgType) /\ Fits(l[k])
      /\ l[0].data = <<>>
      /\ \A k \in 1 .. Len(args) : l[k].data = l[k - 1].data \o Additions(args, k, orders)
  BY <1>1, SubstitutesGrows
<1> DEFINE P == {k \in 0 .. Len(args) : Placed(l[k].data, args, k)}
<1>3. 0 \in P
  <2>1. Len(l[0].data) = 0
    BY <1>2
  <2> QED BY <2>1 DEF Placed
<1>4. ASSUME NEW k \in 1 .. Len(args), k - 1 \in P PROVE k \in P
  <2>1. k - 1 \in 0 .. Len(args)
    OBVIOUS
  <2>2. l[k - 1].data \in Seq(ArgType)
    BY <1>2, <2>1 DEF ListOf
  <2>3. Placed(l[k - 1].data, args, k - 1)
    BY <1>4
  <2>4. PICK before, after : before = l[k - 1].data /\ after = l[k].data
    OBVIOUS
  <2>5. after = before \o Additions(args, k, orders)
    BY <1>2, <2>4
  <2>6. before \in Seq(ArgType) /\ Placed(before, args, k - 1)
    BY <2>2, <2>3, <2>4
  <2>7. Placed(after, args, k)
    BY <2>5, <2>6, PlacedMore
  <2>8. k \in 0 .. Len(args)
    OBVIOUS
  <2> QED BY <2>4, <2>7, <2>8
<1>5. \A k \in 0 .. Len(args) : k \in P
  <2> HIDE DEF P
  <2>1. Len(args) \in Int
    OBVIOUS
  <2> QED BY <1>3, <1>4, <2>1, StepByStep
<1>6. Len(args) \in 0 .. Len(args)
  OBVIOUS
<1> QED BY <1>1, <1>2, <1>5, <1>6

------------------------------------------------------------------------------
(* What is reachable. *)

\* A block of a node, a parameter, and the rest of what the shell holds.
OfNode(b, n)  == b = n.array \/ b = n.block \/ \E k \in DOMAIN n.args : b = n.args[k].block
InNodes(b)    == \E c \in DOMAIN nodes : \E s \in DOMAIN nodes[c] : OfNode(b, nodes[c][s])
HasParams     == pc \in {"file_failed", "running", "executed"}
IsParam(b)    == \E s \in 2 .. Len(nodes[command]) : b = Block("param", <<command, s>>)
Held(b) ==
  \/ \E i \in DOMAIN last_typed_commands.data : b = last_typed_commands.data[i]
  \/ b = input_mark \/ InNodes(b) \/ (HasParams /\ IsParam(b))
  \/ pc = "reporting" /\ b = error

LEMMA NodeTypes ==
  ASSUME TypeOK, NEW c \in DOMAIN nodes, NEW s \in DOMAIN nodes[c]
  PROVE  /\ DOMAIN nodes = 1 .. Len(nodes) /\ nodes[c] \in Seq(NodeType)
         /\ DOMAIN nodes[c] = 1 .. Len(nodes[c])
         /\ nodes[c][s] \in NodeType /\ c \in Nat /\ s \in Nat
BY DEF TypeOK

\* Everything that is released of a node: its words, its array, itself.
LEMMA ReleasedNode ==
  ASSUME NEW n \in NodeType
  PROVE  /\ Len(ReleasedOf(n)) = Len(n.args) + 2 /\ DOMAIN ReleasedOf(n) = 1 .. Len(n.args) + 2
         /\ DOMAIN n.args = 1 .. Len(n.args) /\ Len(n.args) \in Nat
         /\ \A k \in 1 .. Len(n.args) : ReleasedOf(n)[k] = n.args[k].block
         /\ ReleasedOf(n)[Len(n.args) + 1] = n.array
         /\ ReleasedOf(n)[Len(n.args) + 2] = n.block
         /\ \A b : b \in ToSet(ReleasedOf(n)) <=> OfNode(b, n)
<1>1. n.args \in Seq(ArgType) /\ n.array \in MaybeBlock /\ n.block \in MaybeBlock
  BY DEF NodeType, MaybeBlock
<1>2. PICK m \in Nat : m = Len(n.args) /\ DOMAIN n.args = 1 .. m
  BY <1>1
<1>3. \A k \in 1 .. m : n.args[k] \in ArgType
  BY <1>1, <1>2
<1>4. PICK a : a = ArgBlocks(n)
  OBVIOUS
<1>5. a = [k \in 1 .. m |-> n.args[k].block]
  BY <1>2, <1>4 DEF ArgBlocks
<1>6. a \in Seq(MaybeBlock) /\ Len(a) = m
  <2>1. \A k \in 1 .. m : n.args[k].block \in MaybeBlock
    BY <1>3 DEF ArgType
  <2>2. a \in [1 .. m -> MaybeBlock]
    BY <1>5, <2>1
  <2> QED BY <2>2
<1>7. PICK e : e = <<n.array, n.block>>
  OBVIOUS
<1>8. e \in Seq(MaybeBlock) /\ Len(e) = 2 /\ e[1] = n.array /\ e[2] = n.block
  BY <1>1, <1>7
<1>9. PICK r : r = ReleasedOf(n)
  OBVIOUS
<1>10. r = a \o e
  BY <1>4, <1>7, <1>9 DEF ReleasedOf
<1>11. /\ r \in Seq(MaybeBlock) /\ Len(r) = m + 2
       /\ \A k \in 1 .. m : r[k] = a[k]
       /\ \A k \in 1 .. 2 : r[m + k] = e[k]
  <2>1. /\ a \o e \in Seq(MaybeBlock) /\ Len(a \o e) = Len(a) + Len(e)
        /\ \A k \in 1 .. Len(a) : (a \o e)[k] = a[k]
        /\ \A k \in 1 .. Len(e) : (a \o e)[Len(a) + k] = e[k]
    <3>1. a \in Seq(MaybeBlock) /\ e \in Seq(MaybeBlock)
      BY <1>6, <1>8
    <3> HIDE DEF MaybeBlock
    <3> QED BY <3>1, Concatenated
  <2> QED BY <1>6, <1>8, <1>10, <2>1
<1>12. DOMAIN r = 1 .. m + 2 /\ \A k \in 1 .. m : r[k] = n.args[k].block
  BY <1>5, <1>11
<1>13. r[m + 1] = n.array /\ r[m + 2] = n.block
  BY <1>8, <1>11
<1>14. ASSUME NEW b PROVE b \in ToSet(r) <=> OfNode(b, n)
  <2>1. b \in ToSet(r) <=> \E k \in 1 .. m + 2 : b = r[k]
    BY <1>12 DEF ToSet
  <2>2. (\E k \in 1 .. m + 2 : b = r[k]) <=> (\E k \in 1 .. m : b = r[k]) \/ b = r[m + 1] \/ b = r[m + 2]
    OBVIOUS
  <2>3. (\E k \in 1 .. m : b = r[k]) <=> \E k \in DOMAIN n.args : b = n.args[k].block
    BY <1>2, <1>12
  <2> QED BY <1>13, <2>1, <2>2, <2>3 DEF OfNode
<1> QED BY <1>2, <1>9, <1>11, <1>12, <1>13, <1>14

\* No literal is held.
LEMMA HeldIsNotLiteral ==
  ASSUME TypeOK, ErrorInv, NEW b, Held(b)
  PROVE  b # Literal
<1>1. Static # Literal
  <2>1. DOMAIN Static = {"static"} /\ DOMAIN Literal = {"literal"}
    BY DEF Static, Literal
  <2> QED BY <2>1
<1>2. ASSUME b \in MaybeBlock PROVE b # Literal
  <2>1. b = Static \/ "turn" \in DOMAIN b
    BY <1>2 DEF MaybeBlock, Blocks
  <2> QED BY <1>1, <2>1, HasTurnIsNotLiteral
<1>3. CASE \E i \in DOMAIN last_typed_commands.data : b = last_typed_commands.data[i]
  <2>1. b \in Blocks
    BY <1>3 DEF TypeOK
  <2> QED BY <1>2, <2>1 DEF MaybeBlock
<1>4. CASE b = input_mark
  BY <1>2, <1>4 DEF TypeOK
<1>5. CASE InNodes(b)
  <2>1. PICK c \in DOMAIN nodes : \E s \in DOMAIN nodes[c] : OfNode(b, nodes[c][s])
    BY <1>5 DEF InNodes
  <2>2. PICK s \in DOMAIN nodes[c] : OfNode(b, nodes[c][s])
    BY <2>1
  <2>3. PICK n \in NodeType : n = nodes[c][s]
    BY <2>1, <2>2, NodeTypes
  <2>4. n.array \in MaybeBlock /\ n.block \in MaybeBlock /\ n.args \in Seq(ArgType)
    BY DEF NodeType, MaybeBlock
  <2>5. ASSUME NEW k \in DOMAIN n.args PROVE n.args[k].block \in MaybeBlock
    <3>1. n.args[k] \in ArgType
      BY <2>4
    <3> QED BY <3>1 DEF ArgType
  <2> QED BY <1>2, <2>2, <2>3, <2>4, <2>5 DEF OfNode
<1>6. CASE IsParam(b)
  <2>1. "turn" \in DOMAIN b
    BY <1>6 DEF IsParam, Block
  <2> QED BY <2>1, HasTurnIsNotLiteral
<1>7. CASE pc = "reporting" /\ b = error
  <2>1. "turn" \in DOMAIN b
    BY <1>7 DEF ErrorInv, Error, Block
  <2> QED BY <2>1, HasTurnIsNotLiteral
<1> QED BY <1>3, <1>4, <1>5, <1>6, <1>7 DEF Held

LEMMA ReachableIs ==
  TypeOK /\ ErrorInv => \A b : b \in Reachable <=> b # Static /\ Held(b)
<1> SUFFICES ASSUME TypeOK, ErrorInv, NEW b PROVE b \in Reachable <=> b # Static /\ Held(b)
  OBVIOUS
<1>0. /\ b # Static /\ b # Literal /\ b = error => pc = "reporting"
      /\ Held(b) => b # Literal
  BY HeldIsNotLiteral DEF ErrorInv
<1>1. b \in UNION {ToSet(ReleasedOf(n)) : n \in Stages(nodes)} <=> InNodes(b)
  <2>1. \A n : n \in Stages(nodes) <=> \E c \in DOMAIN nodes : \E s \in DOMAIN nodes[c] : n = nodes[c][s]
    BY DEF Stages, ToSet
  <2>2. b \in UNION {ToSet(ReleasedOf(n)) : n \in Stages(nodes)}
          <=> \E c \in DOMAIN nodes : \E s \in DOMAIN nodes[c] : b \in ToSet(ReleasedOf(nodes[c][s]))
    BY <2>1
  <2>3. ASSUME NEW c \in DOMAIN nodes, NEW s \in DOMAIN nodes[c]
        PROVE  b \in ToSet(ReleasedOf(nodes[c][s])) <=> OfNode(b, nodes[c][s])
    BY NodeTypes, ReleasedNode
  <2> QED BY <2>2, <2>3 DEF InNodes
<1>2. b \in ToSet(last_typed_commands.data)
        <=> \E i \in DOMAIN last_typed_commands.data : b = last_typed_commands.data[i]
  BY DEF ToSet
<1>3. PICK U : U = UNION {Uses(s) : s \in IF HasParams THEN DOMAIN Pipeline ELSE {}}
  OBVIOUS
<1>4. CASE ~HasParams
  <2>1. b \notin U
    BY <1>3, <1>4
  <2> QED BY <1>0, <1>1, <1>2, <1>3, <1>4, <2>1 DEF Reachable, Held, HasParams
<1>5. CASE HasParams
  <2>1. command \in DOMAIN nodes /\ Pipeline = nodes[command]
    BY <1>5 DEF TypeOK, HasParams, Executing, Pipeline
  <2>2. PICK m \in Nat : m = Len(nodes[command]) /\ DOMAIN nodes[command] = 1 .. m
    BY <2>1 DEF TypeOK
  <2>3. b \in U <=> \E s \in 1 .. m : b \in Uses(s)
    BY <1>3, <1>5, <2>1, <2>2
  <2>4. ASSUME NEW s \in 1 .. m, b # Static
        PROVE  /\ b \in Uses(s) => OfNode(b, nodes[command][s]) \/ IsParam(b)
               /\ s # 1 /\ b = Block("param", <<command, s>>) => b \in Uses(s)
    <3>1. Params[s] = IF s = 1 THEN Static ELSE Block("param", <<command, s>>)
      BY <2>1, <2>2 DEF Params
    <3>2. b \in Uses(s) <=> \/ \E k \in DOMAIN nodes[command][s].args : b = nodes[command][s].args[k].block
                            \/ b = nodes[command][s].array \/ b = Params[s]
      <4>1. b \in ToSet(ArgBlocks(nodes[command][s]))
              <=> \E k \in DOMAIN nodes[command][s].args : b = nodes[command][s].args[k].block
        BY DEF ArgBlocks, ToSet
      <4> QED BY <2>1, <4>1 DEF Uses
    <3>3. b = Params[s] => s \in 2 .. m /\ b = Block("param", <<command, s>>)
      BY <2>4, <3>1
    <3> QED BY <2>2, <3>1, <3>2, <3>3 DEF OfNode, IsParam
  <2>5. b # Static => (b \in U => InNodes(b) \/ IsParam(b)) /\ (IsParam(b) => b \in U)
    <3>1. ASSUME b # Static, b \in U PROVE InNodes(b) \/ IsParam(b)
      BY <2>1, <2>2, <2>3, <2>4, <3>1 DEF InNodes
    <3>2. ASSUME b # Static, IsParam(b) PROVE b \in U
      <4>1. PICK s \in 2 .. m : b = Block("param", <<command, s>>)
        BY <2>2, <3>2 DEF IsParam
      <4>2. s \in 1 .. m /\ s # 1
        OBVIOUS
      <4> QED BY <2>3, <2>4, <3>2, <4>1, <4>2
    <3> QED BY <3>1, <3>2
  <2> QED BY <1>0, <1>1, <1>2, <1>3, <1>5, <2>5 DEF Reachable, Held, HasParams
<1> QED BY <1>4, <1>5

LEMMA ReachableIsNext ==
  TypeOK' /\ ErrorInv' => \A b : b \in Reachable' <=> b # Static /\ Held(b)'
<1>1. (TypeOK /\ ErrorInv => \A b : b \in Reachable <=> b # Static /\ Held(b))'
  BY ReachableIs, PTL
<1> QED BY <1>1

------------------------------------------------------------------------------
(* Nodes and their blocks. *)

\* A block of stage s of command c of this line.
Own(b, c, s) ==
  /\ b \in Blocks /\ b.turn = turn /\ b.line = line.kind /\ b.at[1] = c
  /\ IF b.for \in {"value", "argv"} THEN s = 1 ELSE b.at[2] = s

\* The node has its blocks, each once.
Owns(n, c, s) ==
  /\ \A k \in DOMAIN n.args : n.args[k].block # Static =>
       Own(n.args[k].block, c, s) /\ n.args[k].block.for \in {"string", "value"}
  /\ Own(n.array, c, s) /\ n.array.for \in {"args", "argv"}
  /\ n.block # Static => Own(n.block, c, s) /\ n.block.for = "node"
  /\ \A i, j \in DOMAIN n.args :
       i # j /\ n.args[i].block = n.args[j].block => n.args[i].block = Static

LEMMA NodeIs ==
  ASSUME TypeOK, NEW c \in DOMAIN line.commands, NEW s \in DOMAIN line.commands[c],
         NEW n, n = Node(c, s)
  PROVE  /\ c \in Nat /\ s \in Nat /\ n \in NodeType
         /\ n.array = Block("args", <<c, s>>)
         /\ n.block = (IF c = 1 /\ s = 1 THEN Static ELSE Block("node", <<c, s>>))
         /\ DOMAIN n.args = DOMAIN line.commands[c][s].args
         /\ \A k \in DOMAIN n.args :
              /\ k \in Nat /\ n.args[k].text = line.commands[c][s].args[k].text
              /\ n.args[k].block = IF line.commands[c][s].args[k].symbol THEN Static
                                   ELSE Block("string", <<c, s, k>>)
         /\ n.files = line.commands[c][s].files
<1>1. line.commands \in Seq(Seq(StageType))
  BY LineTypes DEF LineType
<1>2. c \in Nat /\ s \in Nat /\ line.commands[c][s] \in StageType
  BY <1>1
<1>3. PICK a : a = line.commands[c][s].args
  OBVIOUS
<1>4. a \in Seq(Words) /\ line.commands[c][s].files \in Redirections
  BY <1>2, <1>3 DEF StageType
<1>5. PICK m \in Nat : m = Len(a) /\ DOMAIN a = 1 .. m
  BY <1>4
<1>6. PICK g : g = [k \in 1 .. m |-> Pointer(a[k], <<c, s, k>>)]
  OBVIOUS
<1>7. n = [args |-> g, array |-> Block("args", <<c, s>>),
           block |-> IF c = 1 /\ s = 1 THEN Static ELSE Block("node", <<c, s>>),
           files |-> line.commands[c][s].files]
  BY <1>3, <1>5, <1>6 DEF Node
<1>8. {"args", "node", "string"} \subseteq Purposes
  BY DEF Purposes
<1>9. Block("args", <<c, s>>) \in Blocks /\ Block("node", <<c, s>>) \in Blocks
  BY <1>2, <1>8, BlockAt2
<1>10. ASSUME NEW k \in 1 .. m
       PROVE  /\ g[k] \in ArgType /\ g[k].text = a[k].text
              /\ g[k].block = IF a[k].symbol THEN Static ELSE Block("string", <<c, s, k>>)
  <2>1. a[k] \in Words
    BY <1>4, <1>5
  <2>2. a[k].text \in Seq(Parts) /\ a[k].symbol \in BOOLEAN
    BY <2>1 DEF Words
  <2>3. Block("string", <<c, s, k>>) \in Blocks
    BY <1>2, <1>8, BlockAt3
  <2>4. g[k] = [text |-> a[k].text, block |-> IF a[k].symbol THEN Static ELSE Block("string", <<c, s, k>>)]
    BY <1>6 DEF Pointer
  <2> QED BY <2>2, <2>3, <2>4 DEF ArgType, MaybeBlock
<1>11. g \in Seq(ArgType) /\ DOMAIN g = 1 .. m
  <2>1. g \in [1 .. m -> ArgType]
    BY <1>6, <1>10
  <2> QED BY <2>1
<1>12. n \in NodeType
  BY <1>4, <1>7, <1>9, <1>11 DEF NodeType, MaybeBlock
<1>13. /\ n.array = Block("args", <<c, s>>) /\ n.args = g
       /\ n.block = (IF c = 1 /\ s = 1 THEN Static ELSE Block("node", <<c, s>>))
       /\ n.files = line.commands[c][s].files
  BY <1>7
<1>14. DOMAIN n.args = DOMAIN line.commands[c][s].args
  BY <1>3, <1>5, <1>11, <1>13
<1>15. \A k \in DOMAIN n.args :
         /\ k \in Nat /\ n.args[k].text = line.commands[c][s].args[k].text
         /\ n.args[k].block = IF line.commands[c][s].args[k].symbol THEN Static
                              ELSE Block("string", <<c, s, k>>)
  BY <1>3, <1>10, <1>11, <1>13
<1> QED BY <1>2, <1>12, <1>13, <1>14, <1>15

\* What the parser makes.
LEMMA NewNodeOwns ==
  ASSUME TypeOK, NEW c \in DOMAIN line.commands, NEW s \in DOMAIN line.commands[c]
  PROVE  Owns(Node(c, s), c, s)
<1>1. PICK n : n = Node(c, s)
  OBVIOUS
<1>2. /\ c \in Nat /\ s \in Nat /\ n \in NodeType
      /\ n.array = Block("args", <<c, s>>)
      /\ n.block = (IF c = 1 /\ s = 1 THEN Static ELSE Block("node", <<c, s>>))
      /\ \A k \in DOMAIN n.args :
           k \in Nat /\ n.args[k].block \in {Static, Block("string", <<c, s, k>>)}
  BY <1>1, NodeIs
<1>3. {"args", "node", "string"} \subseteq Purposes
  BY DEF Purposes
<1>4. Own(n.array, c, s) /\ n.array.for \in {"args", "argv"}
  <2>1. n.array \in Blocks
    BY <1>2, <1>3, BlockAt2
  <2>2. /\ n.array.turn = turn /\ n.array.line = line.kind
        /\ n.array.for = "args" /\ n.array.at = <<c, s>>
    BY <1>2 DEF Block
  <2> QED BY <2>1, <2>2 DEF Own
<1>5. n.block # Static => Own(n.block, c, s) /\ n.block.for = "node"
  <2>1. ASSUME n.block # Static
        PROVE  n.block \in Blocks /\ n.block.turn = turn /\ n.block.line = line.kind
               /\ n.block.for = "node" /\ n.block.at = <<c, s>>
    <3>1. n.block = Block("node", <<c, s>>)
      BY <1>2, <2>1
    <3>2. n.block \in Blocks
      BY <1>2, <1>3, <3>1, BlockAt2
    <3> QED BY <3>1, <3>2 DEF Block
  <2> QED BY <2>1 DEF Own
<1>6. ASSUME NEW k \in DOMAIN n.args, n.args[k].block # Static
      PROVE  /\ n.args[k].block.at[3] = k
             /\ Own(n.args[k].block, c, s) /\ n.args[k].block.for \in {"string", "value"}
  <2>1. n.args[k].block = Block("string", <<c, s, k>>) /\ k \in Nat
    BY <1>2, <1>6
  <2>2. n.args[k].block \in Blocks
    BY <1>2, <1>3, <2>1, BlockAt3
  <2>3. /\ n.args[k].block.turn = turn /\ n.args[k].block.line = line.kind
        /\ n.args[k].block.for = "string" /\ n.args[k].block.at = <<c, s, k>>
    BY <2>1 DEF Block
  <2> QED BY <2>2, <2>3 DEF Own
<1>7. \A i, j \in DOMAIN n.args :
        i # j /\ n.args[i].block = n.args[j].block => n.args[i].block = Static
  BY <1>6
<1> QED BY <1>1, <1>4, <1>5, <1>6, <1>7 DEF Owns

LEMMA NodeOwns ==
  ASSUME TypeOK, NodesInv, NEW c \in DOMAIN nodes, NEW s \in DOMAIN nodes[c]
  PROVE  /\ c \in DOMAIN line.commands /\ s \in DOMAIN line.commands[c]
         /\ Owns(nodes[c][s], c, s)
<1>1. nodes # <<>>
  OBVIOUS
<1>2. c \in DOMAIN line.commands /\ s \in DOMAIN line.commands[c] /\ NodeInv(c, s)
  BY <1>1 DEF NodesInv
<1>3. Owns(Node(c, s), c, s)
  BY <1>2, NewNodeOwns
<1>4. CASE ~IsReplaced(c, s)
  BY <1>2, <1>3, <1>4 DEF NodeInv
<1>5. CASE IsReplaced(c, s)
  <2>1. PICK n : n = nodes[c][s]
    OBVIOUS
  <2>2. n \in NodeType /\ c \in Nat /\ s \in Nat
    BY <2>1, NodeTypes
  <2>3. /\ n.block = Node(c, s).block /\ n.array = Block("argv", <<c>>)
        /\ \A b \in ToSet(ArgBlocks(n)) \ {Static} : Belongs(b, c, s)
        /\ ~Twice(ArgBlocks(n))
    BY <1>2, <1>5, <2>1 DEF NodeInv
  <2>4. s = 1
    BY <1>5 DEF IsReplaced
  <2>5. Own(n.array, c, s) /\ n.array.for \in {"args", "argv"}
    <3>1. "argv" \in Purposes
      BY DEF Purposes
    <3>2. n.array \in Blocks
      BY <2>2, <2>3, <3>1, BlockAt1
    <3>3. /\ n.array.turn = turn /\ n.array.line = line.kind
          /\ n.array.for = "argv" /\ n.array.at = <<c>>
      BY <2>3 DEF Block
    <3> QED BY <2>4, <3>2, <3>3 DEF Own
  <2>6. n.block # Static => Own(n.block, c, s) /\ n.block.for = "node"
    BY <1>3, <2>3 DEF Owns
  <2>7. ASSUME NEW k \in DOMAIN n.args, n.args[k].block # Static
        PROVE  Own(n.args[k].block, c, s) /\ n.args[k].block.for \in {"string", "value"}
    <3>1. Belongs(n.args[k].block, c, s)
      BY <2>3, <2>7 DEF ArgBlocks, ToSet
    <3>2. n.args[k].block \in Blocks
      <4>1. n.args[k] \in ArgType
        BY <2>2 DEF NodeType
      <4> QED BY <2>7, <4>1 DEF ArgType, MaybeBlock
    <3> QED BY <3>1, <3>2 DEF Belongs, Own
  <2>8. \A i, j \in DOMAIN n.args :
          i # j /\ n.args[i].block = n.args[j].block => n.args[i].block = Static
    BY <2>3 DEF Twice, ArgBlocks
  <2> QED BY <1>2, <2>1, <2>5, <2>6, <2>7, <2>8 DEF Owns
<1> QED BY <1>2, <1>4, <1>5

\* Of what kind the blocks of a node are, and that no other node has them.
LEMMA NodeBlocks ==
  ASSUME TypeOK, NodesInv, NEW c \in DOMAIN nodes, NEW s \in DOMAIN nodes[c],
         NEW b, b # Static, OfNode(b, nodes[c][s])
  PROVE  /\ b.for \in {"string", "value", "args", "argv", "node"}
         /\ Own(b, c, s)
BY NodeOwns DEF Owns, OfNode

LEMMA OfOneNode ==
  ASSUME NEW b, NEW c, NEW s, NEW d, NEW t, Own(b, c, s), Own(b, d, t)
  PROVE  c = d /\ s = t
BY DEF Own

------------------------------------------------------------------------------
(* The accounts: what is allocated, reachable, and left behind. *)

Accounts ==
  /\ Reachable \subseteq heap
  /\ pc # "prompt" => TheLine \in heap
  /\ pc # "aborted" => \A b \in heap \ Reachable : IsLeft(b) \/ (pc # "prompt" /\ b = TheLine)

IInv == TypeOK /\ NodesInv /\ HistoryInv /\ MarkInv /\ ErrorInv /\ ~misused /\ Accounts

\* What is live is used, and what is live is freed once.
LEMMA MemoryStep ==
  ASSUME misused = FALSE, NEW a, NEW u, NEW f, Memory(a, u, f),
         u \subseteq heap \cup a \cup {Static}, ToSet(f) \subseteq heap \cup a \cup {Static}, ~Twice(f)
  PROVE  misused' = FALSE /\ heap' = (heap \cup a) \ (ToSet(f) \ {Static})
BY DEF Memory

\* What a step gained and lost is accounted for.
Changes(gained, lost) ==
  /\ heap' = (heap \cup gained) \ lost
  /\ \A b : b # Static /\ Held(b)' => (Held(b) \/ b \in gained) /\ b \notin lost
  /\ \A b : b # Static /\ Held(b) /\ b \notin lost => Held(b)'
  /\ \A b \in gained : \/ b \in lost \/ (b # Static /\ Held(b)') \/ IsLeft(b)
                       \/ pc' # "prompt" /\ b = TheLine'
  /\ \/ TheLine \in lost \/ IsLeft(TheLine) \/ pc = "prompt"
     \/ pc' # "prompt" /\ TheLine' = TheLine
  /\ pc' # "prompt" => TheLine' \in (heap \cup gained) \ lost

LEMMA AccountsKept ==
  ASSUME TypeOK, TypeOK', ErrorInv, ErrorInv', Accounts, pc # "aborted", NEW gained, NEW lost, Changes(gained, lost)
  PROVE  Accounts'
<1>1. \A b : b \in Reachable <=> b # Static /\ Held(b)
  BY ReachableIs
<1>2. \A b : b \in Reachable' <=> b # Static /\ Held(b)'
  BY ReachableIsNext
<1>3. Reachable' \subseteq heap'
  <2>1. ASSUME NEW b \in Reachable' PROVE b \in heap'
    <3>1. (Held(b) \/ b \in gained) /\ b \notin lost /\ b # Static
      BY <1>2, <2>1 DEF Changes
    <3>2. b \in heap \cup gained
      BY <1>1, <3>1 DEF Accounts
    <3> QED BY <3>1, <3>2 DEF Changes
  <2> QED BY <2>1
<1>4. ASSUME NEW b \in heap' \ Reachable'
      PROVE  IsLeft(b) \/ (pc' # "prompt" /\ b = TheLine')
  <2>1. b \in heap \cup gained /\ b \notin lost /\ (b # Static => ~Held(b)')
    BY <1>2, <1>4 DEF Changes
  <2>2. b # Static
    <3>1. b \in Blocks
      BY DEF TypeOK
    <3> QED BY <3>1, BlockIsNotStatic
  <2>3. CASE b \in gained
    BY <2>1, <2>3 DEF Changes
  <2>4. CASE b \in heap
    <3>1. ~Held(b)
      BY <2>1, <2>2 DEF Changes
    <3>2. IsLeft(b) \/ (pc # "prompt" /\ b = TheLine)
      BY <1>1, <2>4, <3>1 DEF Accounts
    <3> QED BY <2>1, <3>2 DEF Changes
  <2> QED BY <2>1, <2>3, <2>4
<1>5. pc' # "prompt" => TheLine' \in heap'
  BY DEF Changes
<1>6. \A b : IsLeft(b)' <=> IsLeft(b)
  BY DEF IsLeft
<1> QED BY <1>3, <1>4, <1>5, <1>6 DEF Accounts

\* What is held is not the constant memory, or it is live.
LEMMA HeldIsLive ==
  ASSUME IInv, NEW b, Held(b)
  PROVE  b \in heap \cup {Static}
BY ReachableIs DEF IInv, Accounts

\* What each thing that is held is for.
LEMMA HeldIsFor ==
  ASSUME IInv, NEW b, b # Static
  PROVE  /\ (\E i \in DOMAIN last_typed_commands.data : b = last_typed_commands.data[i])
              => b.for = "history" /\ (b.turn < turn \/ pc = "prompt")
         /\ b = input_mark => b.for = "mark"
         /\ InNodes(b) => b.for \in {"string", "value", "args", "argv", "node"}
         /\ IsParam(b) /\ command \in Nat => b.for = "param"
<1>1. (\E i \in DOMAIN last_typed_commands.data : b = last_typed_commands.data[i])
        => b.for = "history" /\ (b.turn < turn \/ pc = "prompt")
  BY DEF IInv, HistoryInv
<1>2. b = input_mark => b.for = "mark"
  BY DEF IInv, MarkInv
<1>3. InNodes(b) => b.for \in {"string", "value", "args", "argv", "node"}
  BY NodeBlocks DEF IInv, InNodes
<1>4. IsParam(b) => b.for = "param"
  BY DEF IsParam, Block
<1> QED BY <1>1, <1>2, <1>3, <1>4

\* Steps that leave the nodes, the line and the turn alone, and do not replace symbols.
LEMMA NodesKept ==
  ASSUME NodesInv, UNCHANGED <<nodes, line, turn>>,
         pc' \in Executing => nodes # <<>> /\ line.kind = "parsed",
         pc' \in {"prompt", "read", "reporting", "remembering"} => nodes = <<>>,
         \A c \in DOMAIN nodes : \A s : IsReplaced(c, s)' <=> IsReplaced(c, s)
  PROVE  NodesInv'
<1>1. \A c \in DOMAIN nodes : \A s : NodeInv(c, s)' <=> NodeInv(c, s)
  <2>1. ASSUME NEW c \in DOMAIN nodes, NEW s PROVE NodeInv(c, s)' <=> NodeInv(c, s)
    <3>1. IsReplaced(c, s)' <=> IsReplaced(c, s)
      OBVIOUS
    <3>2. Node(c, s)' = Node(c, s) /\ Block("argv", <<c>>)' = Block("argv", <<c>>) /\ nodes' = nodes
      BY DEF Node, Block, Pointer
    <3>3. \A b : Belongs(b, c, s)' <=> Belongs(b, c, s)
      BY DEF Belongs
    <3>4. CASE ~IsReplaced(c, s)
      BY <3>1, <3>2, <3>4 DEF NodeInv
    <3>5. CASE IsReplaced(c, s)
      BY <3>1, <3>2, <3>3, <3>5 DEF NodeInv, ArgBlocks, Twice
    <3> QED BY <3>4, <3>5
  <2> QED BY <2>1
<1> QED BY <1>1 DEF NodesInv

LEMMA HistoryKept ==
  ASSUME HistoryInv, UNCHANGED <<last_typed_commands, turn>>, pc # "prompt"
  PROVE  HistoryInv'
BY DEF HistoryInv

LEMMA ErrorKept ==
  ASSUME ErrorInv, pc # "reporting", pc' # "reporting", error' \in {error, Static, Literal}
  PROVE  ErrorInv'
BY DEF ErrorInv

------------------------------------------------------------------------------
(* The invariant, step by step. *)

LEMMA InitInv == Init => IInv
<1> SUFFICES ASSUME Init PROVE IInv
  OBVIOUS
<1>1. TypeOK
  <2>1. <<>> \in Seq(Seq(NodeType)) /\ <<>> \in Seq(Blocks) /\ Len(<<>>) = 0
    OBVIOUS
  <2>2. last_typed_commands \in [size : Nat, data : Seq(Blocks), overrun : BOOLEAN]
        /\ Len(last_typed_commands.data) <= MaxHistory
    BY <2>1, ListsAssumption, ShellLoopAssumption DEF Init, CreateList
  <2>3. input_mark \in MaybeBlock /\ line \in Lines \cup {NoLine} /\ turn \in 0 .. MaxTurns
    BY ShellLoopAssumption DEF Init, MaybeBlock
  <2>4. nodes \in Seq(Seq(NodeType)) /\ {command, stage} \subseteq Nat
    BY <2>1 DEF Init
  <2>5. {exit_requested, colorful, soundful, misused} \subseteq BOOLEAN /\ heap \subseteq Blocks
        /\ error \in MaybeBlock
    BY DEF Init, MaybeBlock
  <2> QED BY <2>2, <2>3, <2>4, <2>5 DEF Init, TypeOK, Executing
<1>2. NodesInv
  BY DEF Init, NodesInv, Executing
<1>3. HistoryInv
  BY ListsAssumption DEF Init, HistoryInv, CreateList
<1>4. MarkInv
  BY DEF Init, MarkInv
<1>e. ErrorInv
  BY DEF Init, ErrorInv
<1>5. Accounts
  <2>1. \A b : ~(b # Static /\ Held(b))
    BY DEF Init, Held, InNodes, HasParams, CreateList
  <2>2. Reachable = {}
    BY <1>1, <1>e, <2>1, ReachableIs
  <2> QED BY <2>2 DEF Init, Accounts
<1> QED BY <1>1, <1>2, <1>3, <1>4, <1>5, <1>e DEF IInv, Init

LEMMA ReadLineInv == ASSUME IInv, ReadLine PROVE IInv'
<1>1. TypeOK /\ NodesInv /\ HistoryInv /\ MarkInv /\ ErrorInv /\ misused = FALSE /\ Accounts
  BY DEF IInv, TypeOK
<1>2. PICK l \in Lines :
        /\ line' = l
        /\ heap' = heap \cup {[turn |-> turn', line |-> l.kind, for |-> "line", at |-> <<>>]}
                        \cup {[turn |-> turn', line |-> l.kind, for |-> "listed", at |-> p] :
                                p \in ListedBy(l)}
        /\ misused' = (misused \/ ~({input_mark} \ {Static} \subseteq heap))
  BY DEF ReadLine
<1>3. /\ pc = "prompt" /\ pc' = "read" /\ turn < MaxTurns /\ turn' = turn + 1 /\ turn \in Nat
      /\ UNCHANGED <<error, nodes, command, stage, result, contextVars, last_typed_commands, directory>>
  BY <1>1 DEF ReadLine, TypeOK
<1>4. TheLine' = [turn |-> turn', line |-> l.kind, for |-> "line", at |-> <<>>]
  BY <1>2 DEF TheLine, Block
<1>0. PICK listed : listed = {[turn |-> turn', line |-> l.kind, for |-> "listed", at |-> p] : p \in ListedBy(l)}
  OBVIOUS
<1>e. ErrorInv'
  BY <1>1, <1>3, ErrorKept
<1>5. misused' = FALSE
  <2>1. input_mark \in heap \cup {Static}
    BY HeldIsLive DEF Held
  <2> QED BY <1>1, <1>2, <2>1
<1>6. TypeOK'
  <2>1. TheLine' \in Blocks
    <3>1. turn + 1 \in 0 .. MaxTurns
      BY <1>3, ShellLoopAssumption
    <3>2. l.kind \in LineKinds
      BY ShellLoopAssumption DEF LineType
    <3>3. "line" \in Purposes
      BY DEF Purposes
    <3> QED BY <1>3, <1>4, <3>1, <3>2, <3>3, PlacesAreSequences DEF Blocks
  <2>2. turn' \in 0 .. MaxTurns
    BY <1>3, ShellLoopAssumption
  <2>3. listed \subseteq Blocks
    <3>1. l.kind \in LineKinds /\ l.tabs \in Nat /\ "listed" \in Purposes
      BY ShellLoopAssumption DEF LineType, Purposes
    <3>2. Directories[directory] \in SUBSET EntryType /\ IsFiniteSet(Directories[directory])
      BY <1>1, ShellLoopAssumption DEF TypeOK
    <3>3. PICK n \in Nat : n = Cardinality(Listed(Directories[directory], TRUE))
      BY <3>2, ListedIsFinite, FS_CardinalityType
    <3>4. ASSUME NEW p \in ListedBy(l) PROVE p \in Seq(Nat)
      <4>1. p \in (1 .. l.tabs) \X (1 .. n)
        BY <3>3 DEF ListedBy
      <4>2. p = <<p[1], p[2]>> /\ p[1] \in Nat /\ p[2] \in Nat
        BY <3>1, <4>1
      <4>3. PICK k, i : k = p[1] /\ i = p[2]
        OBVIOUS
      <4>4. k \in Nat /\ i \in Nat /\ p = <<k, i>>
        BY <4>2, <4>3
      <4>5. <<k, i>> \in Seq(Nat)
        BY <4>4, PlacesAreSequences
      <4> QED BY <4>4, <4>5
    <3> QED BY <1>0, <2>2, <3>1, <3>4 DEF Blocks
  <2>4. heap' \subseteq Blocks
    BY <1>0, <1>1, <1>2, <1>4, <2>1, <2>3 DEF TypeOK
  <2> QED BY <1>1, <1>2, <1>3, <1>4, <1>5, <2>2, <2>4 DEF TypeOK, contextVars, Executing
<1>7. nodes = <<>> /\ NodesInv'
  BY <1>1, <1>3 DEF NodesInv, Executing
<1>8. HistoryInv'
  <2>1. PICK data : data = last_typed_commands.data
    OBVIOUS
  <2>2. data \in Seq(Blocks)
    BY <1>1, <2>1 DEF TypeOK
  <2>3. ASSUME NEW i \in DOMAIN data PROVE data[i].turn \in Nat /\ data[i].turn <= turn
    <3>1. data[i] \in Blocks
      BY <2>2
    <3> QED BY <1>1, <1>3, <2>1, <3>1 DEF HistoryInv, Blocks
  <2> QED BY <1>1, <1>3, <2>1, <2>3 DEF HistoryInv
<1>9. MarkInv'
  <2>1. ASSUME input_mark # Static PROVE input_mark.turn \in Nat
    BY <1>1, <2>1 DEF TypeOK, MaybeBlock, Blocks
  <2> QED BY <1>1, <1>3, <2>1 DEF MarkInv, contextVars
<1>10. Accounts'
  <2>1. \A b : Held(b)' <=> Held(b)
    BY <1>3, <1>7 DEF Held, InNodes, HasParams, contextVars
  <2>2. \A b \in listed : IsLeft(b)
    BY <1>0 DEF IsLeft
  <2>3. PICK made : made = {TheLine'} \cup listed
    OBVIOUS
  <2>4. heap' = heap \cup made
    BY <1>0, <1>2, <1>4, <2>3
  <2>5. Changes(made, {})
    BY <1>3, <2>1, <2>2, <2>3, <2>4 DEF Changes
  <2> QED BY <1>1, <1>3, <1>6, <1>e, <2>5, AccountsKept
<1> QED BY <1>5, <1>6, <1>7, <1>8, <1>9, <1>10, <1>e DEF IInv

LEMMA SkipLineInv == ASSUME IInv, SkipLine PROVE IInv'
<1>1. TypeOK /\ NodesInv /\ HistoryInv /\ MarkInv /\ ErrorInv /\ misused = FALSE /\ Accounts
  BY DEF IInv, TypeOK
<1>2. /\ pc = "read" /\ pc' = "prompt" /\ line.kind \in {"blank", "continued"}
      /\ Memory({}, {TheLine}, <<>>)
      /\ UNCHANGED <<nodeVars, result, contextVars, last_typed_commands, directory, turn>>
  BY DEF SkipLine
<1>3. misused' = FALSE /\ heap' = heap
  <2>1. ToSet(<<>>) = {} /\ ~Twice(<<>>)
    BY DEF ToSet, Twice
  <2>2. TheLine \in heap
    BY <1>1, <1>2 DEF Accounts
  <2>3. PICK none, used, freed : none = {} /\ used = {TheLine} /\ freed = <<>>
    OBVIOUS
  <2>4. Memory(none, used, freed)
    BY <1>2, <2>3
  <2>5. used \subseteq heap \cup none \cup {Static} /\ ToSet(freed) = {} /\ ~Twice(freed)
    BY <2>1, <2>2, <2>3
  <2>6. misused' = FALSE /\ heap' = (heap \cup none) \ (ToSet(freed) \ {Static})
    BY <1>1, <2>4, <2>5, MemoryStep
  <2> QED BY <2>3, <2>5, <2>6
<1>4. TypeOK'
  BY <1>1, <1>2, <1>3 DEF TypeOK, contextVars, nodeVars, Executing
<1>5. NodesInv'
  <2>1. nodes = <<>>
    BY <1>1, <1>2 DEF NodesInv
  <2> QED BY <1>2, <2>1 DEF NodesInv, nodeVars, Executing
<1>6. HistoryInv'
  BY <1>1, <1>2, HistoryKept
<1>7. MarkInv'
  BY <1>1, <1>2 DEF MarkInv, contextVars, Executing
<1>e. ErrorInv'
  BY <1>1, <1>2, ErrorKept DEF nodeVars
<1>8. Accounts'
  <2>1. \A b : Held(b)' <=> Held(b)
    BY <1>2 DEF Held, InNodes, HasParams, contextVars, nodeVars
  <2>2. IsLeft(TheLine)
    BY <1>2 DEF IsLeft, TheLine, Block
  <2>3. Changes({}, {})
    BY <1>2, <1>3, <2>1, <2>2 DEF Changes
  <2> QED BY <1>1, <1>2, <1>4, <1>e, <2>3, AccountsKept
<1> QED BY <1>3, <1>4, <1>5, <1>6, <1>7, <1>8, <1>e DEF IInv

\* What the parser allocates.
LEMMA TreeIs ==
  ASSUME TypeOK, NEW t, t = Tree
  PROVE  /\ t \in Seq(Seq(NodeType)) /\ DOMAIN t = DOMAIN line.commands
         /\ \A c \in DOMAIN t : /\ DOMAIN t[c] = DOMAIN line.commands[c]
                                /\ \A s \in DOMAIN t[c] : t[c][s] = Node(c, s)
<1>1. line.commands \in Seq(Seq(StageType))
  BY LineTypes DEF LineType
<1>2. PICK m \in Nat : m = Len(line.commands) /\ DOMAIN line.commands = 1 .. m
  BY <1>1
<1>3. t = [c \in 1 .. m |-> [s \in DOMAIN line.commands[c] |-> Node(c, s)]]
  BY <1>2 DEF Tree
<1>4. ASSUME NEW c \in 1 .. m
      PROVE  /\ t[c] \in Seq(NodeType) /\ DOMAIN t[c] = DOMAIN line.commands[c]
             /\ \A s \in DOMAIN t[c] : t[c][s] = Node(c, s)
  <2>1. PICK n \in Nat : n = Len(line.commands[c]) /\ DOMAIN line.commands[c] = 1 .. n
    BY <1>1, <1>2
  <2>2. t[c] = [s \in 1 .. n |-> Node(c, s)]
    BY <1>3, <2>1
  <2>3. \A s \in 1 .. n : Node(c, s) \in NodeType
    BY <1>2, <2>1, NodeIs
  <2>4. t[c] \in [1 .. n -> NodeType]
    BY <2>2, <2>3
  <2> QED BY <2>1, <2>2, <2>4
<1>5. t \in [1 .. m -> Seq(NodeType)]
  BY <1>3, <1>4
<1> QED BY <1>2, <1>4, <1>5

InTree(b) == \E c \in DOMAIN Tree : \E s \in DOMAIN Tree[c] : OfNode(b, Tree[c][s])

LEMMA FileNamesAre ==
  ASSUME TypeOK, NEW b \in AllFileNames
  PROVE  b \in Blocks /\ b.line = line.kind /\ b.for = "file_name"
<1>1. PICK c \in DOMAIN line.commands : b \in UNION {FileNames(c, s) : s \in DOMAIN line.commands[c]}
  BY DEF AllFileNames
<1>2. PICK s \in DOMAIN line.commands[c] : b \in FileNames(c, s)
  BY <1>1
<1>3. line.commands \in Seq(Seq(StageType))
  BY LineTypes DEF LineType
<1>4. c \in Nat /\ s \in Nat /\ line.commands[c][s] \in StageType
  BY <1>3
<1>5. PICK f : f = line.commands[c][s].files
  OBVIOUS
<1>6. f \in {"none", "one", "both", "two"}
  BY <1>4, <1>5 DEF StageType, Redirections
<1>7. NamesOf(f) \subseteq Nat
  BY <1>6 DEF NamesOf
<1>8. PICK i \in Nat : b = Block("file_name", <<c, s, i>>)
  BY <1>2, <1>5, <1>7 DEF FileNames
<1>9. "file_name" \in Purposes
  BY DEF Purposes
<1>10. b \in Blocks
  BY <1>4, <1>8, <1>9, BlockAt3
<1> QED BY <1>8, <1>10 DEF Block

LEMMA TreeBlocks ==
  ASSUME TypeOK
  PROVE  /\ \A b \in Strings(Tree) : \/ b = Static \/ b \in AllFileNames
                                     \/ b \in Blocks /\ b.line = line.kind /\ b.for = "string" /\ InTree(b)
         /\ \A b \in Structure(Tree) : \/ b = Static
                                       \/ b \in Blocks /\ b.line = line.kind /\ b.for \in {"args", "node"} /\ InTree(b)
         /\ \A b : InTree(b) => b \in Strings(Tree) \cup Structure(Tree)
<1>1. PICK t : t = Tree
  OBVIOUS
<1>2. /\ DOMAIN t = DOMAIN line.commands
      /\ \A c \in DOMAIN t : /\ DOMAIN t[c] = DOMAIN line.commands[c]
                             /\ \A s \in DOMAIN t[c] : t[c][s] = Node(c, s)
  BY <1>1, TreeIs
<1>3. \A n : n \in Stages(t) <=> \E c \in DOMAIN t : \E s \in DOMAIN t[c] : n = t[c][s]
  BY DEF Stages, ToSet
<1>4. ASSUME NEW c \in DOMAIN t, NEW s \in DOMAIN t[c]
      PROVE  /\ t[c][s].array \in Blocks /\ t[c][s].array.line = line.kind
             /\ t[c][s].array.for = "args"
             /\ t[c][s].block # Static => /\ t[c][s].block \in Blocks
                                          /\ t[c][s].block.line = line.kind
                                          /\ t[c][s].block.for = "node"
             /\ \A k \in DOMAIN t[c][s].args : t[c][s].args[k].block # Static =>
                  /\ t[c][s].args[k].block \in Blocks
                  /\ t[c][s].args[k].block.line = line.kind
                  /\ t[c][s].args[k].block.for = "string"
             /\ \A b : b \in ToSet(ArgBlocks(t[c][s]))
                         <=> \E k \in DOMAIN t[c][s].args : b = t[c][s].args[k].block
  <2>1. PICK n : n = t[c][s]
    OBVIOUS
  <2>2. n = Node(c, s) /\ c \in DOMAIN line.commands /\ s \in DOMAIN line.commands[c]
    BY <1>2, <2>1
  <2>3. Owns(n, c, s)
    BY <2>2, NewNodeOwns
  <2>4. /\ c \in Nat /\ s \in Nat /\ n.array = Block("args", <<c, s>>)
        /\ \A k \in DOMAIN n.args : /\ k \in Nat
                                    /\ n.args[k].block \in {Static, Block("string", <<c, s, k>>)}
    BY <2>2, NodeIs
  <2>5. n.array.for = "args" /\ \A k : Block("string", <<c, s, k>>).for = "string"
    BY <2>4 DEF Block
  <2>6. \A b : b \in ToSet(ArgBlocks(n)) <=> \E k \in DOMAIN n.args : b = n.args[k].block
    BY DEF ArgBlocks, ToSet
  <2>7. n.array \in Blocks /\ n.array.line = line.kind
    BY <2>3 DEF Owns, Own
  <2>8. n.block # Static => n.block \in Blocks /\ n.block.line = line.kind /\ n.block.for = "node"
    BY <2>3 DEF Owns, Own
  <2>9. ASSUME NEW k \in DOMAIN n.args, n.args[k].block # Static
        PROVE  /\ n.args[k].block \in Blocks /\ n.args[k].block.line = line.kind
               /\ n.args[k].block.for = "string"
    <3>1. n.args[k].block.for = "string"
      BY <2>4, <2>5, <2>9
    <3> QED BY <2>3, <2>9, <3>1 DEF Owns, Own
  <2> QED BY <2>1, <2>5, <2>6, <2>7, <2>8, <2>9
<1>5. ASSUME NEW b \in Strings(t)
      PROVE  \/ b = Static \/ b \in AllFileNames
             \/ b \in Blocks /\ b.line = line.kind /\ b.for = "string" /\ InTree(b)
  <2>1. b \in AllFileNames \/ \E n \in Stages(t) : b \in ToSet(ArgBlocks(n))
    BY DEF Strings
  <2>2. ASSUME NEW n \in Stages(t), b \in ToSet(ArgBlocks(n)), b # Static
        PROVE  b \in Blocks /\ b.line = line.kind /\ b.for = "string" /\ InTree(b)
    <3>1. PICK c \in DOMAIN t : \E s \in DOMAIN t[c] : n = t[c][s]
      BY <1>3
    <3>2. PICK s \in DOMAIN t[c] : n = t[c][s]
      BY <3>1
    <3>3. PICK k \in DOMAIN n.args : b = n.args[k].block
      BY <1>4, <2>2, <3>2
    <3>4. InTree(b)
      BY <1>1, <3>2, <3>3 DEF InTree, OfNode
    <3> QED BY <1>4, <2>2, <3>2, <3>3, <3>4
  <2> QED BY <2>1, <2>2
<1>6. ASSUME NEW b \in Structure(t)
      PROVE  \/ b = Static
             \/ b \in Blocks /\ b.line = line.kind /\ b.for \in {"args", "node"} /\ InTree(b)
  <2>1. PICK n \in Stages(t) : b = n.array \/ b = n.block
    BY DEF Structure
  <2>2. PICK c \in DOMAIN t : \E s \in DOMAIN t[c] : n = t[c][s]
    BY <1>3
  <2>3. PICK s \in DOMAIN t[c] : n = t[c][s]
    BY <2>2
  <2>4. InTree(b)
    BY <1>1, <2>1, <2>3 DEF InTree, OfNode
  <2> QED BY <1>4, <2>1, <2>3, <2>4
<1>7. ASSUME NEW b, InTree(b) PROVE b \in Strings(t) \cup Structure(t)
  <2>1. PICK c \in DOMAIN t : \E s \in DOMAIN t[c] : OfNode(b, t[c][s])
    BY <1>1, <1>7 DEF InTree
  <2>2. PICK s, n : s \in DOMAIN t[c] /\ n = t[c][s] /\ OfNode(b, n)
    BY <2>1
  <2>3. n \in Stages(t)
    BY <1>3, <2>2
  <2>4. CASE b = n.array \/ b = n.block
    BY <2>3, <2>4 DEF Structure
  <2>5. CASE \E k \in DOMAIN n.args : b = n.args[k].block
    <3>1. b \in ToSet(ArgBlocks(n))
      BY <1>4, <2>2, <2>5
    <3> QED BY <2>3, <3>1 DEF Strings
  <2> QED BY <2>2, <2>4, <2>5 DEF OfNode
<1> QED BY <1>1, <1>5, <1>6, <1>7

LEMMA ParseInv == ASSUME IInv, Parse PROVE IInv'
<1>1. TypeOK /\ NodesInv /\ HistoryInv /\ MarkInv /\ ErrorInv /\ misused = FALSE /\ Accounts
  BY DEF IInv, TypeOK
<1>2. PICK made : made = ((Strings(Tree) \cup IF line.kind = "untokenized" THEN {} ELSE Structure(Tree))
                             \ {Static}) \cup Errors
  OBVIOUS
<1>3. /\ pc = "read" /\ line.kind \in {"untokenized", "refused", "parsed"}
      /\ nodes' = (IF line.kind = "parsed" THEN Tree ELSE <<>>)
      /\ pc' = (IF line.kind = "parsed" THEN "substituting" ELSE "reporting")
      /\ error' = (IF line.kind = "parsed" THEN Static ELSE Error(0))
      /\ Memory(made, {TheLine}, <<>>)
      /\ command' = 1 /\ stage' = 1
      /\ UNCHANGED <<line, result, contextVars, last_typed_commands, directory, turn>>
  <2>1. line.kind \in {"untokenized", "refused", "parsed"}
    BY DEF Parse
  <2>2. line.errors = 0 <=> line.kind = "parsed"
    BY <1>1, <2>1, LineTypes
  <2> QED BY <1>2, <2>2 DEF Parse
<1>4. nodes = <<>>
  BY <1>1, <1>3 DEF NodesInv
<1>5. misused' = FALSE /\ heap' = heap \cup made
  <2>1. ToSet(<<>>) = {} /\ ~Twice(<<>>)
    BY DEF ToSet, Twice
  <2>2. TheLine \in heap
    BY <1>1, <1>3 DEF Accounts
  <2>3. misused' = FALSE /\ heap' = (heap \cup made) \ (ToSet(<<>>) \ {Static})
    <3>1. PICK used, freed : used = {TheLine} /\ freed = <<>>
      OBVIOUS
    <3>2. Memory(made, used, freed) /\ used \subseteq heap \cup made \cup {Static}
      BY <1>3, <2>2, <3>1
    <3>3. ToSet(freed) \subseteq heap \cup made \cup {Static} /\ ~Twice(freed)
      BY <2>1, <3>1
    <3> QED BY <1>1, <3>1, <3>2, <3>3, MemoryStep
  <2> QED BY <2>1, <2>3
<1>6. PICK t : t = Tree
  OBVIOUS
<1>7. /\ t \in Seq(Seq(NodeType)) /\ DOMAIN t = DOMAIN line.commands
      /\ \A c \in DOMAIN t : /\ DOMAIN t[c] = DOMAIN line.commands[c]
                             /\ \A s \in DOMAIN t[c] : t[c][s] = Node(c, s)
  BY <1>1, <1>6, TreeIs
<1>8. ASSUME NEW b \in made
      PROVE  /\ b \in Blocks /\ b # Static /\ b.line = line.kind
             /\ \/ b.for = "file_name"
                \/ b.for = "string" /\ InTree(b)
                \/ line.kind # "untokenized" /\ b.for \in {"args", "node"} /\ InTree(b)
                \/ line.kind # "parsed" /\ b = Error(0)
                \/ line.kind = "refused" /\ b.for = "error" /\ b.at # <<0>>
  <2>1. \/ b # Static /\ (b \in Strings(Tree) \/ (line.kind # "untokenized" /\ b \in Structure(Tree)))
        \/ b \in Errors
    BY <1>2
  <2>3. CASE b \in Errors
    <3>1. line.errors \in Nat
      BY <1>1, LineTypes
    <3>2. PICK later \in 0 .. line.errors - 1 : b = Error(later)
      BY <2>3 DEF Errors
    <3>3. later \in Nat /\ "error" \in Purposes
      BY <3>1, <3>2 DEF Purposes
    <3>4. b \in Blocks /\ b # Static
      BY <1>1, <3>2, <3>3, BlockAt1, BlockIsNotStatic DEF Error
    <3>5. b.line = line.kind /\ b.for = "error" /\ b.at = <<later>>
      BY <3>2 DEF Error, Block
    <3>6. later = 0 \/ (line.kind = "refused" /\ <<later>> # <<0>>)
      <4>1. later # 0 => line.errors > 1 /\ <<later>>[1] # <<0>>[1]
        BY <3>1, <3>2, <3>3
      <4> QED BY <1>1, <1>3, <3>1, <4>1, LineTypes
    <3>7. line.kind # "parsed"
      BY <1>1, <3>1, <3>2, LineTypes
    <3> QED BY <3>2, <3>4, <3>5, <3>6, <3>7
  <2>2. b \in AllFileNames => b \in Blocks /\ b.line = line.kind /\ b.for = "file_name"
    BY <1>1, FileNamesAre
  <2> QED BY <1>1, <2>1, <2>2, <2>3, TreeBlocks
<1>9. TypeOK'
  <2>1. made \subseteq Blocks
    BY <1>8
  <2>2. nodes' \in Seq(Seq(NodeType))
    BY <1>3, <1>6, <1>7
  <2>3. line.kind = "parsed" => 1 \in DOMAIN nodes'
    <3>1. ASSUME line.kind = "parsed" PROVE line.commands # <<>> /\ line.commands \in Seq(Seq(StageType))
      BY <1>1, <3>1, LineTypes DEF LineType
    <3> QED BY <1>3, <1>6, <1>7, <3>1
  <2>4. heap' \subseteq Blocks
    BY <1>1, <1>5, <2>1 DEF TypeOK
  <2>5. {command', stage'} \subseteq Nat /\ (pc' \in Executing => command' \in DOMAIN nodes')
    BY <1>3, <2>3 DEF Executing
  <2>6. {exit_requested', colorful', soundful', misused'} \subseteq BOOLEAN
    BY <1>1, <1>3, <1>5 DEF TypeOK, contextVars
  <2>7. error' \in MaybeBlock
    <3>1. "error" \in Purposes /\ 0 \in Nat
      BY DEF Purposes
    <3> QED BY <1>1, <1>3, <3>1, BlockAt1 DEF Error, MaybeBlock
  <2> QED BY <1>1, <1>3, <2>2, <2>4, <2>5, <2>6, <2>7 DEF TypeOK, contextVars, Executing
<1>10. NodesInv'
  <2>1. CASE line.kind # "parsed"
    BY <1>3, <2>1 DEF NodesInv, Executing
  <2>2. CASE line.kind = "parsed"
    <3>1. nodes' = t /\ pc' = "substituting" /\ command' = 1 /\ line' = line /\ turn' = turn
      BY <1>3, <1>6, <2>2
    <3>2. t # <<>>
      <4>1. line.commands # <<>> /\ line.commands \in Seq(Seq(StageType))
        BY <1>1, <2>2, LineTypes DEF LineType
      <4> QED BY <1>7, <4>1
    <3>3. ASSUME NEW c \in DOMAIN t, NEW s \in DOMAIN t[c] PROVE NodeInv(c, s)'
      <4>1. c \in Nat
        BY <1>7
      <4>2. ~IsReplaced(c, s)'
        <5>1. c \in 1 .. Len(t)
          BY <1>7
        <5> QED BY <3>1, <5>1 DEF IsReplaced
      <4>3. Node(c, s)' = Node(c, s)
        BY <3>1 DEF Node, Block, Pointer
      <4> QED BY <1>7, <3>1, <4>2, <4>3 DEF NodeInv
    <3> QED BY <1>7, <2>2, <3>1, <3>2, <3>3 DEF NodesInv, Executing
  <2> QED BY <2>1, <2>2
<1>11. HistoryInv'
  BY <1>1, <1>3, HistoryKept
<1>12. MarkInv'
  <2>1. input_mark # Static => /\ input_mark.for = "mark" /\ input_mark.turn < turn
                               /\ input_mark.at \in Nat \X Nat
    <3>1. "read" \in Executing \cup {"read"}
      OBVIOUS
    <3> QED BY <1>1, <1>3, <3>1 DEF MarkInv
  <2>2. input_mark # Static => input_mark.turn \in Nat
    BY <1>1 DEF TypeOK, MaybeBlock, Blocks
  <2> QED BY <1>1, <1>3, <2>1, <2>2 DEF MarkInv, contextVars, TypeOK
<1>e. ErrorInv'
  <2>1. line.kind # "parsed" => line.errors > 0
    BY <1>1, <1>3, LineTypes
  <2> QED BY <1>3, <2>1 DEF ErrorInv, Error, Block
<1>13. Accounts'
  <2>1. UNCHANGED <<last_typed_commands, input_mark>> /\ ~HasParams /\ ~HasParams' /\ pc # "reporting"
    BY <1>3 DEF contextVars, HasParams
  <2>2. \A b : ~InNodes(b)
    BY <1>4 DEF InNodes
  <2>3. \A b : InNodes(b)' => line.kind = "parsed" /\ InTree(b)
    BY <1>3 DEF InNodes, InTree
  <2>4. \A b : line.kind = "parsed" /\ InTree(b) => InNodes(b)'
    BY <1>3 DEF InNodes, InTree
  <2>5. \A b : Held(b)' <=> \/ Held(b)
                            \/ line.kind = "parsed" /\ InTree(b)
                            \/ line.kind # "parsed" /\ b = Error(0)
    BY <1>3, <2>1, <2>2, <2>3, <2>4 DEF Held
  <2>6. \A b : \/ b # Static /\ line.kind = "parsed" /\ InTree(b)
               \/ line.kind # "parsed" /\ b = Error(0)
              => b \in made
    <3>1. line.kind # "parsed" => Error(0) \in Errors
      BY <1>1, <1>3, LineTypes DEF Errors
    <3> QED BY <1>1, <1>2, <3>1, TreeBlocks
  <2>7. ASSUME NEW b \in made PROVE (b # Static /\ Held(b)') \/ IsLeft(b)
    BY <1>3, <1>8, <2>5 DEF IsLeft
  <2>8. TheLine' = TheLine /\ pc' # "prompt" /\ TheLine \in heap
    BY <1>1, <1>3 DEF TheLine, Block, Accounts
  <2>9. Changes(made, {})
    BY <1>5, <2>5, <2>6, <2>7, <2>8 DEF Changes
  <2> QED BY <1>1, <1>3, <1>9, <1>e, <2>9, AccountsKept
<1> QED BY <1>5, <1>9, <1>10, <1>11, <1>12, <1>13, <1>e DEF IInv

\* The last message is freed; those before it are not.
LEMMA ReportErrorInv == ASSUME IInv, ReportError PROVE IInv'
<1>1. TypeOK /\ NodesInv /\ HistoryInv /\ MarkInv /\ ErrorInv /\ misused = FALSE /\ Accounts
  BY DEF IInv, TypeOK
<1>2. /\ pc = "reporting" /\ pc' = "releasing" /\ error' = Static
      /\ Memory({}, {error}, <<error>>)
      /\ UNCHANGED <<line, nodes, command, stage, result, contextVars, last_typed_commands,
                     directory, turn>>
  BY DEF ReportError
<1>3. PICK gone : gone = {error}
  OBVIOUS
<1>4. error = Error(0) /\ error \in Blocks /\ error # Static /\ error.for = "error"
  <2>1. error = Error(0)
    BY <1>1, <1>2 DEF ErrorInv
  <2>2. "error" \in Purposes /\ 0 \in Nat
    BY DEF Purposes
  <2>3. error \in Blocks
    BY <1>1, <2>1, <2>2, BlockAt1 DEF Error
  <2> QED BY <2>1, <2>3, BlockIsNotStatic DEF Error, Block
<1>5. misused' = FALSE /\ heap' = heap \ gone
  <2>1. error \in heap
    <3>1. Held(error)
      BY <1>2 DEF Held
    <3> QED BY <1>4, <3>1, HeldIsLive
  <2>2. PICK none, f : none = {} /\ f = <<error>>
    OBVIOUS
  <2>3. ToSet(f) = gone /\ ~Twice(f)
    BY <1>3, <2>2 DEF ToSet, Twice
  <2>4. Memory(none, gone, f) /\ gone \subseteq heap \cup none \cup {Static}
    BY <1>2, <1>3, <2>1, <2>2
  <2>5. misused' = FALSE /\ heap' = (heap \cup none) \ (ToSet(f) \ {Static})
    BY <1>1, <2>3, <2>4, MemoryStep
  <2> QED BY <1>3, <1>4, <2>2, <2>3, <2>5
<1>6. TypeOK'
  <2>1. heap' \subseteq Blocks /\ error' \in MaybeBlock
    BY <1>1, <1>2, <1>5 DEF TypeOK, MaybeBlock
  <2> QED BY <1>1, <1>2, <1>5, <2>1 DEF TypeOK, contextVars, Executing
<1>7. nodes = <<>> /\ NodesInv'
  BY <1>1, <1>2 DEF NodesInv, Executing
<1>8. HistoryInv'
  BY <1>1, <1>2, HistoryKept
<1>9. MarkInv'
  BY <1>1, <1>2 DEF MarkInv, contextVars, Executing
<1>10. ErrorInv'
  BY <1>2 DEF ErrorInv
<1>11. Accounts'
  <2>1. \A b : ~InNodes(b) /\ ~InNodes(b)'
    BY <1>2, <1>7 DEF InNodes
  <2>2. ~HasParams /\ ~HasParams' /\ UNCHANGED <<last_typed_commands, input_mark>>
    BY <1>2 DEF HasParams, contextVars
  <2>3. \A b : Held(b) <=> \/ b = input_mark \/ b = error
                           \/ \E i \in DOMAIN last_typed_commands.data : b = last_typed_commands.data[i]
    BY <1>2, <2>1, <2>2 DEF Held
  <2>4. \A b : Held(b)' <=> \/ b = input_mark
                            \/ \E i \in DOMAIN last_typed_commands.data : b = last_typed_commands.data[i]
    BY <1>2, <2>1, <2>2 DEF Held
  <2>5. ASSUME NEW b, b # Static, Held(b)' PROVE Held(b) /\ b \notin gone
    BY <1>3, <1>4, <2>3, <2>4, <2>5, HeldIsFor
  <2>6. ASSUME NEW b, b # Static, Held(b), b \notin gone PROVE Held(b)'
    BY <1>3, <2>3, <2>4, <2>6
  <2>7. TheLine' = TheLine /\ TheLine \in heap /\ TheLine \notin gone
    <3>1. TheLine.for = "line"
      BY DEF TheLine, Block
    <3> QED BY <1>1, <1>2, <1>3, <1>4, <3>1 DEF TheLine, Block, Accounts
  <2>8. Changes({}, gone)
    BY <1>2, <1>5, <2>5, <2>6, <2>7 DEF Changes
  <2> QED BY <1>1, <1>2, <1>6, <1>10, <2>8, AccountsKept
<1> QED BY <1>5, <1>6, <1>7, <1>8, <1>9, <1>10, <1>11 DEF IInv

\* The first node of the command that is executed is as the parser left it, or as Substitute did.
LEMMA FirstNode ==
  ASSUME IInv, pc \in Executing
  PROVE  /\ command \in DOMAIN nodes /\ 1 \in DOMAIN nodes[command] /\ command \in Nat
         /\ command \in DOMAIN line.commands /\ 1 \in DOMAIN line.commands[command]
         /\ nodes[command] \in Seq(NodeType) /\ nodes[command][1] \in NodeType
         /\ Owns(nodes[command][1], command, 1) /\ NodeInv(command, 1)
         /\ DOMAIN nodes[command] = DOMAIN line.commands[command]
<1>1. TypeOK /\ NodesInv
  BY DEF IInv
<1>2. command \in DOMAIN nodes /\ line.kind = "parsed" /\ nodes # <<>>
  BY <1>1 DEF TypeOK, NodesInv
<1>3. command \in DOMAIN line.commands /\ DOMAIN nodes[command] = DOMAIN line.commands[command]
      /\ \A s \in DOMAIN nodes[command] : NodeInv(command, s)
  BY <1>1, <1>2 DEF NodesInv
<1>4. line.commands[command] # <<>> /\ line.commands \in Seq(Seq(StageType))
  BY <1>1, <1>2, <1>3, LineTypes DEF LineType
<1>5. 1 \in DOMAIN line.commands[command]
  BY <1>3, <1>4
<1> QED BY <1>1, <1>2, <1>3, <1>5, NodeTypes, NodeOwns

\* What Substitute does, named.
Substituting(n, orders, list, array, old) ==
  /\ n = nodes[command][1] /\ n = Node(command, 1) /\ n \in NodeType
  /\ Fresh(n.args) /\ Ordered(n.args, orders)
  /\ list = Substituted(n.args, orders)
  /\ array = Block("argv", <<command>>) /\ old = Block("args", <<command, 1>>) /\ old = n.array
  /\ nodes' = [nodes EXCEPT ![command][1].args = list.data, ![command][1].array = array]
  /\ Memory(({array} \cup {v.block : v \in ToSet(list.data)}) \ {Static},
            {old} \cup ToSet(ArgBlocks(n)) \cup PastEnd(list), <<old>>)

LEMMA SubstituteIs ==
  ASSUME IInv, Substitute
  PROVE  \E n, orders, list, array, old : Substituting(n, orders, list, array, old)
<1>1. TypeOK /\ pc = "substituting" /\ pc \in Executing
  BY DEF IInv, Substitute, Executing
<1>2. PICK n : n = nodes[command][1]
  OBVIOUS
<1>3. n = Node(command, 1) /\ n \in NodeType /\ command \in Nat
  <2>1. ~IsReplaced(command, 1)
    BY <1>1, FirstNode DEF IsReplaced
  <2> QED BY <1>1, <1>2, <2>1, FirstNode DEF NodeInv
<1>4. PICK args : args = n.args
  OBVIOUS
<1>5. PICK stars : stars = {k \in DOMAIN args : IsSymbol(args[k], <<"*">>)}
  OBVIOUS
<1>6. PICK orders \in [stars -> SetToSeqs(TheListed)] :
        LET list  == Substituted(args, orders)
            array == Block("argv", <<command>>)
            old   == nodes[command][1].array
        IN /\ nodes' = [nodes EXCEPT ![command][1].args = list.data,
                                     ![command][1].array = array]
           /\ Memory(({array} \cup {v.block : v \in ToSet(list.data)}) \ {Static},
                     {old} \cup ToSet(ArgBlocks(nodes[command][1])) \cup PastEnd(list),
                     <<old>>)
  BY <1>2, <1>4, <1>5 DEF Substitute, TheListed
<1>7. PICK list : list = Substituted(args, orders)
  OBVIOUS
<1>8. PICK array, old : array = Block("argv", <<command>>) /\ old = n.array
  OBVIOUS
<1>9. nodes' = [nodes EXCEPT ![command][1].args = list.data, ![command][1].array = array]
  BY <1>6, <1>7, <1>8
<1>10. Memory(({array} \cup {v.block : v \in ToSet(list.data)}) \ {Static},
              {old} \cup ToSet(ArgBlocks(n)) \cup PastEnd(list), <<old>>)
  BY <1>2, <1>6, <1>7, <1>8
<1>11. Ordered(args, orders)
  BY <1>5, <1>6 DEF Ordered
<1>12. old = Block("args", <<command, 1>>) /\ Fresh(args)
  <2>1. /\ n.array = Block("args", <<command, 1>>)
        /\ \A k \in DOMAIN n.args : n.args[k].block \in {Static, Block("string", <<command, 1, k>>)}
    BY <1>1, <1>3, FirstNode, NodeIs
  <2>2. DOMAIN args = 1 .. Len(args)
    BY <1>3, <1>4 DEF NodeType
  <2> QED BY <1>4, <1>8, <2>1, <2>2 DEF Fresh
<1>13. Substituting(n, orders, list, array, old)
  BY <1>2, <1>3, <1>4, <1>7, <1>8, <1>9, <1>10, <1>11, <1>12 DEF Substituting
<1> QED BY <1>13

\* The new node, and the others, which are as they were.
\* The nodes when the list has replaced the arguments of the command.
NodesReplaced(n, list, array) ==
  /\ list \in ListOf(ArgType) /\ Fits(list) /\ Placed(list.data, n.args, Len(n.args))
  /\ nodes' \in Seq(Seq(NodeType)) /\ DOMAIN nodes' = DOMAIN nodes
  /\ \A c \in DOMAIN nodes : /\ DOMAIN nodes'[c] = DOMAIN nodes[c]
                             /\ \A s \in DOMAIN nodes[c] : c # command \/ s # 1 => nodes'[c][s] = nodes[c][s]
  /\ nodes'[command][1] = [n EXCEPT !.args = list.data, !.array = array]
  /\ array \in Blocks /\ array.for = "argv" /\ array.at = <<command>>
  /\ array.turn = turn /\ array.line = line.kind

LEMMA SubstitutedNodes ==
  ASSUME IInv, Substitute, NEW n, NEW orders, NEW list, NEW array, NEW old,
         Substituting(n, orders, list, array, old)
  PROVE  NodesReplaced(n, list, array)
<1>1. TypeOK /\ pc \in Executing
  BY DEF IInv, Substitute, Executing
<1>2. /\ n = nodes[command][1] /\ n \in NodeType /\ Fresh(n.args) /\ Ordered(n.args, orders)
      /\ list = Substituted(n.args, orders) /\ array = Block("argv", <<command>>)
      /\ nodes' = [nodes EXCEPT ![command][1].args = list.data, ![command][1].array = array]
  BY DEF Substituting
<1>3. n.args \in Seq(ArgType)
  BY <1>2 DEF NodeType
<1>4. list \in ListOf(ArgType) /\ Fits(list) /\ Placed(list.data, n.args, Len(n.args))
  BY <1>1, <1>2, <1>3, SubstitutedPlaced
<1>5. /\ array \in Blocks /\ array.for = "argv" /\ array.at = <<command>>
      /\ array.turn = turn /\ array.line = line.kind
  <2>1. command \in Nat /\ "argv" \in Purposes
    BY <1>1 DEF TypeOK, Purposes
  <2>2. array \in Blocks
    BY <1>1, <1>2, <2>1, BlockAt1
  <2> QED BY <1>2, <2>2 DEF Block
<1>6. PICK m : m = [n EXCEPT !.args = list.data, !.array = array]
  OBVIOUS
<1>7. m \in NodeType
  <2>1. list.data \in Seq(ArgType)
    BY <1>4 DEF ListOf
  <2> QED BY <1>2, <1>5, <1>6, <2>1 DEF NodeType
<1>8. command \in DOMAIN nodes /\ 1 \in DOMAIN nodes[command] /\ nodes \in Seq(Seq(NodeType))
      /\ nodes[command] \in Seq(NodeType)
  BY <1>1, FirstNode DEF TypeOK
<1>9. PICK stages : stages = [nodes[command] EXCEPT ![1] = m]
  OBVIOUS
<1>10. stages \in Seq(NodeType) /\ DOMAIN stages = DOMAIN nodes[command] /\ stages[1] = m
       /\ \A s \in DOMAIN nodes[command] : s # 1 => stages[s] = nodes[command][s]
  BY <1>7, <1>8, <1>9
<1>11. nodes' = [nodes EXCEPT ![command] = stages]
  <2>1. nodes' = [nodes EXCEPT ![command] =
                    [[nodes[command] EXCEPT ![1] = [nodes[command][1] EXCEPT !.args = list.data]]
                       EXCEPT ![1] = [[nodes[command] EXCEPT ![1] =
                          [nodes[command][1] EXCEPT !.args = list.data]][1] EXCEPT !.array = array]]]
    BY <1>2, <1>8
  <2>2. PICK n1 : n1 = [n EXCEPT !.args = list.data]
    OBVIOUS
  <2>3. PICK s1 : s1 = [nodes[command] EXCEPT ![1] = n1]
    OBVIOUS
  <2>4. m = [n1 EXCEPT !.array = array] /\ s1[1] = n1
    BY <1>2, <1>6, <1>8, <2>2, <2>3 DEF NodeType
  <2>5. stages = [s1 EXCEPT ![1] = m]
    BY <1>8, <1>9, <2>3
  <2>6. nodes' = [nodes EXCEPT ![command] = [s1 EXCEPT ![1] = [s1[1] EXCEPT !.array = array]]]
    BY <1>2, <2>1, <2>2, <2>3
  <2> QED BY <2>4, <2>5, <2>6
<1>12. nodes' \in Seq(Seq(NodeType)) /\ DOMAIN nodes' = DOMAIN nodes
       /\ nodes'[command] = stages
       /\ \A c \in DOMAIN nodes : c # command => nodes'[c] = nodes[c]
  BY <1>8, <1>10, <1>11
<1> QED BY <1>4, <1>5, <1>6, <1>10, <1>12 DEF NodesReplaced

\* A block of the new arguments belongs to the command.
LEMMA PlacedBelongs ==
  ASSUME TypeOK, NEW data, NEW args, NEW m \in Nat, Placed(data, args, m),
         NEW i \in 1 .. Len(data), data[i].block # Static
  PROVE  /\ data[i].block \in Blocks /\ data[i].block.for \in {"string", "value"}
         /\ Belongs(data[i].block, command, 1)
<1>1. PICK b : b = data[i].block
  OBVIOUS
<1>2. PICK j \in 1 .. m : From(b, j)
  BY <1>1 DEF Placed
<1>3. command \in Nat /\ {"string", "value"} \subseteq Purposes /\ j \in Nat
  BY DEF TypeOK, Purposes
<1>4. CASE b = Block("string", <<command, 1, j>>)
  <2>1. b \in Blocks
    BY <1>3, <1>4, BlockAt3
  <2>2. b.turn = turn /\ b.line = line.kind /\ b.for = "string" /\ b.at = <<command, 1, j>>
    BY <1>4 DEF Block
  <2> QED BY <1>1, <2>1, <2>2 DEF Belongs
<1>5. CASE \E k \in Nat : b = Block("value", <<command, j, k>>)
  <2>1. PICK k \in Nat : b = Block("value", <<command, j, k>>)
    BY <1>5
  <2>2. b \in Blocks
    BY <1>3, <2>1, BlockAt3
  <2>3. b.turn = turn /\ b.line = line.kind /\ b.for = "value" /\ b.at = <<command, j, k>>
    BY <2>1 DEF Block
  <2> QED BY <1>1, <2>2, <2>3 DEF Belongs
<1> QED BY <1>1, <1>2, <1>4, <1>5 DEF From

LEMMA SubstituteInv == ASSUME IInv, Substitute PROVE IInv'
<1>1. TypeOK /\ NodesInv /\ HistoryInv /\ MarkInv /\ ErrorInv /\ misused = FALSE /\ Accounts
  BY DEF IInv, TypeOK
<1>2. /\ pc = "substituting" /\ pc' = "converting"
      /\ UNCHANGED <<line, error, command, stage, result, contextVars, last_typed_commands, directory, turn>>
  BY DEF Substitute
<1>3. PICK n, orders, list, array, old : Substituting(n, orders, list, array, old)
  BY SubstituteIs
<1>4. /\ n = nodes[command][1] /\ n = Node(command, 1) /\ n \in NodeType /\ old = n.array
      /\ old = Block("args", <<command, 1>>) /\ array = Block("argv", <<command>>)
      /\ Memory(({array} \cup {v.block : v \in ToSet(list.data)}) \ {Static},
                {old} \cup ToSet(ArgBlocks(n)) \cup PastEnd(list), <<old>>)
  BY <1>3 DEF Substituting
<1>5. /\ list \in ListOf(ArgType) /\ Fits(list) /\ Placed(list.data, n.args, Len(n.args))
      /\ nodes' \in Seq(Seq(NodeType)) /\ DOMAIN nodes' = DOMAIN nodes
      /\ \A c \in DOMAIN nodes : /\ DOMAIN nodes'[c] = DOMAIN nodes[c]
                                 /\ \A s \in DOMAIN nodes[c] : c # command \/ s # 1 => nodes'[c][s] = nodes[c][s]
      /\ nodes'[command][1] = [n EXCEPT !.args = list.data, !.array = array]
      /\ array \in Blocks /\ array.for = "argv" /\ array.at = <<command>>
      /\ array.turn = turn /\ array.line = line.kind
  <2>1. NodesReplaced(n, list, array)
    BY <1>3, SubstitutedNodes
  <2> QED BY <2>1 DEF NodesReplaced
<1>6. PICK d : d = list.data
  OBVIOUS
<1>7. PICK m : m = nodes'[command][1]
  OBVIOUS
<1>8. m.args = d /\ m.array = array /\ m.block = n.block /\ d \in Seq(ArgType)
      /\ DOMAIN d = 1 .. Len(d)
  BY <1>4, <1>5, <1>6, <1>7 DEF NodeType, ListOf
<1>9. /\ command \in DOMAIN nodes /\ 1 \in DOMAIN nodes[command] /\ command \in Nat
      /\ Owns(n, command, 1)
  <2>1. pc \in Executing
    BY <1>2 DEF Executing
  <2> QED BY <1>4, <2>1, FirstNode
<1>10. ASSUME NEW i \in 1 .. Len(d), d[i].block # Static
       PROVE  /\ d[i].block \in Blocks /\ d[i].block.for \in {"string", "value"}
              /\ Belongs(d[i].block, command, 1)
  <2>1. Len(n.args) \in Nat
    BY <1>4 DEF NodeType
  <2> QED BY <1>1, <1>5, <1>6, <1>10, <2>1, PlacedBelongs
<1>11. PICK made : made = ({array} \cup {v.block : v \in ToSet(list.data)}) \ {Static}
  OBVIOUS
<1>12. \A b : b \in made <=> b # Static /\ (b = array \/ \E i \in 1 .. Len(d) : b = d[i].block)
  BY <1>6, <1>8, <1>11 DEF ToSet
<1>13. old.for = "args" /\ Own(old, command, 1) /\ old \in Blocks /\ old # Static /\ array # Static
  <2>1. "args" \in Purposes /\ command \in Nat
    BY <1>9 DEF Purposes
  <2>2. old \in Blocks
    BY <1>1, <1>4, <2>1, BlockAt2
  <2>3. old.for = "args"
    BY <1>4 DEF Block
  <2> QED BY <1>4, <1>5, <1>9, <2>2, <2>3, BlockIsNotStatic DEF Owns
<1>14. misused' = FALSE /\ heap' = (heap \cup made) \ {old}
  <2>1. PICK u : u = {old} \cup ToSet(ArgBlocks(n)) \cup PastEnd(list)
    OBVIOUS
  <2>2. PastEnd(list) = {}
    BY <1>5 DEF PastEnd, Fits
  <2>3. u \subseteq heap \cup {Static}
    <3>1. ASSUME NEW b \in u PROVE b \in heap \cup {Static}
      <4>1. b = old \/ \E k \in DOMAIN n.args : b = n.args[k].block
        BY <2>1, <2>2 DEF ToSet, ArgBlocks
      <4>2. OfNode(b, n)
        BY <1>4, <4>1 DEF OfNode
      <4>3. Held(b)
        BY <1>4, <1>9, <4>2 DEF Held, InNodes
      <4> QED BY <4>3, HeldIsLive
    <3> QED BY <3>1
  <2>4. ToSet(<<old>>) = {old} /\ ~Twice(<<old>>)
    BY DEF ToSet, Twice
  <2>5. old \in heap
    BY <1>13, <2>1, <2>3
  <2>6. misused' = FALSE /\ heap' = (heap \cup made) \ (ToSet(<<old>>) \ {Static})
    <3>1. PICK freed : freed = <<old>>
      OBVIOUS
    <3>2. Memory(made, u, freed) /\ u \subseteq heap \cup made \cup {Static}
      BY <1>4, <1>11, <2>1, <2>3, <3>1
    <3>3. ToSet(freed) \subseteq heap \cup made \cup {Static} /\ ~Twice(freed)
      BY <2>4, <2>5, <3>1
    <3> QED BY <1>1, <3>1, <3>2, <3>3, MemoryStep
  <2> QED BY <1>13, <2>4, <2>6
<1>15. TypeOK'
  <2>1. made \subseteq Blocks
    BY <1>5, <1>10, <1>12
  <2>2. heap' \subseteq Blocks
    BY <1>1, <1>14, <2>1 DEF TypeOK
  <2> QED BY <1>1, <1>2, <1>5, <1>9, <1>14, <2>2 DEF TypeOK, contextVars, Executing
<1>16. NodesInv'
  <2>1. ASSUME NEW c \in DOMAIN nodes, NEW s \in DOMAIN nodes[c] PROVE NodeInv(c, s)'
    <3>1. NodeInv(c, s) /\ c \in Nat
      BY <1>1, NodeTypes DEF NodesInv
    <3>2. /\ Node(c, s)' = Node(c, s) /\ Block("argv", <<c>>)' = Block("argv", <<c>>)
          /\ \A b : Belongs(b, c, s)' <=> Belongs(b, c, s)
      BY <1>2 DEF Node, Block, Pointer, Belongs
    <3>3. CASE c = command /\ s = 1
      <4>1. IsReplaced(c, s)'
        BY <1>2, <3>3 DEF IsReplaced
      <4>2. m.block = Node(c, s).block
        BY <1>4, <1>8, <3>3
      <4>3. \A b \in ToSet(ArgBlocks(m)) \ {Static} : Belongs(b, c, s)
        <5>1. \A b : b \in ToSet(ArgBlocks(m)) <=> \E i \in 1 .. Len(d) : b = d[i].block
          BY <1>8 DEF ArgBlocks, ToSet
        <5> QED BY <1>10, <3>3, <5>1
      <4>4. ~Twice(ArgBlocks(m))
        <5>1. PICK e : e = ArgBlocks(m)
          OBVIOUS
        <5>2. DOMAIN e = 1 .. Len(d) /\ \A i \in 1 .. Len(d) : e[i] = d[i].block
          BY <1>8, <5>1 DEF ArgBlocks
        <5>3. \A i, j \in 1 .. Len(d) : i # j /\ d[i].block = d[j].block => d[i].block = Static
          BY <1>5, <1>6 DEF Placed
        <5> QED BY <5>1, <5>2, <5>3 DEF Twice
      <4> QED BY <1>4, <1>7, <1>8, <3>2, <3>3, <4>1, <4>2, <4>3, <4>4 DEF NodeInv, ArgBlocks, Twice
    <3>4. CASE ~(c = command /\ s = 1)
      <4>1. IsReplaced(c, s)' <=> IsReplaced(c, s)
        BY <1>2, <3>4 DEF IsReplaced
      <4>2. nodes'[c][s] = nodes[c][s]
        BY <1>5, <3>4
      <4>3. CASE ~IsReplaced(c, s)
        BY <3>1, <3>2, <4>1, <4>2, <4>3 DEF NodeInv
      <4>4. CASE IsReplaced(c, s)
        BY <3>1, <3>2, <4>1, <4>2, <4>4 DEF NodeInv, ArgBlocks, Twice
      <4> QED BY <4>3, <4>4
    <3> QED BY <3>3, <3>4
  <2>2. nodes # <<>> /\ line.kind = "parsed" /\ DOMAIN nodes = DOMAIN line.commands
        /\ \A c \in DOMAIN nodes : DOMAIN nodes[c] = DOMAIN line.commands[c]
    BY <1>1, <1>2 DEF NodesInv, Executing
  <2>3. nodes' # <<>>
    BY <1>5, <1>9
  <2> QED BY <1>2, <1>5, <2>1, <2>2, <2>3 DEF NodesInv, Executing
<1>17. HistoryInv'
  BY <1>1, <1>2, HistoryKept
<1>18. MarkInv'
  BY <1>1, <1>2 DEF MarkInv, contextVars, Executing
<1>e. ErrorInv'
  BY <1>1, <1>2, ErrorKept
<1>19. Accounts'
  <2>1. UNCHANGED <<last_typed_commands, input_mark>> /\ ~HasParams /\ ~HasParams' /\ pc # "reporting" /\ pc' # "reporting"
    BY <1>2 DEF contextVars, HasParams
  <2>2. \A b : OfNode(b, m) <=> b = array \/ b = n.block \/ \E i \in 1 .. Len(d) : b = d[i].block
    BY <1>8 DEF OfNode
  <2>3. ASSUME NEW b, b # Static, Held(b)' PROVE (Held(b) \/ b \in made) /\ b # old
    <3>1. CASE ~InNodes(b)'
      <4>1. Held(b) /\ (b = input_mark \/ \E i \in DOMAIN last_typed_commands.data : b = last_typed_commands.data[i])
        BY <2>1, <2>3, <3>1 DEF Held
      <4> QED BY <1>13, <2>3, <4>1, HeldIsFor
    <3>2. CASE InNodes(b)'
      <4>1. PICK c \in DOMAIN nodes : \E s \in DOMAIN nodes[c] : OfNode(b, nodes'[c][s])
        BY <1>5, <3>2 DEF InNodes
      <4>2. PICK s \in DOMAIN nodes[c] : OfNode(b, nodes'[c][s])
        BY <4>1
      <4>3. CASE c = command /\ s = 1
        <5>1. b = array \/ b = n.block \/ \E i \in 1 .. Len(d) : b = d[i].block
          BY <1>7, <2>2, <4>2, <4>3
        <5>2. CASE b = n.block
          <6>1. b.for = "node"
            BY <1>9, <2>3, <5>2 DEF Owns
          <6>2. Held(b)
            BY <1>4, <1>9, <5>2 DEF Held, InNodes, OfNode
          <6> QED BY <1>13, <6>1, <6>2
        <5>3. CASE b = array \/ \E i \in 1 .. Len(d) : b = d[i].block
          <6>1. b \in made
            BY <1>12, <2>3, <5>3
          <6>2. b.for \in {"argv", "string", "value"}
            BY <1>5, <1>10, <2>3, <5>3
          <6> QED BY <1>13, <6>1, <6>2
        <5> QED BY <5>1, <5>2, <5>3
      <4>4. CASE ~(c = command /\ s = 1)
        <5>1. OfNode(b, nodes[c][s])
          BY <1>5, <4>2, <4>4
        <5>2. Own(b, c, s)
          BY <1>1, <2>3, <5>1, NodeBlocks
        <5>3. b # old
          BY <1>13, <4>4, <5>2, OfOneNode
        <5>4. Held(b)
          BY <5>1 DEF Held, InNodes
        <5> QED BY <5>3, <5>4
      <4> QED BY <4>3, <4>4
    <3> QED BY <3>1, <3>2
  <2>4. \A b : OfNode(b, m) => InNodes(b)'
    BY <1>5, <1>7, <1>9 DEF InNodes
  <2>5. ASSUME NEW b, b # Static, Held(b), b # old PROVE Held(b)'
    <3>1. CASE ~InNodes(b)
      BY <2>1, <2>5, <3>1 DEF Held
    <3>2. CASE InNodes(b)
      <4>1. PICK c \in DOMAIN nodes : \E s \in DOMAIN nodes[c] : OfNode(b, nodes[c][s])
        BY <3>2 DEF InNodes
      <4>2. PICK s \in DOMAIN nodes[c] : OfNode(b, nodes[c][s])
        BY <4>1
      <4>3. CASE c = command /\ s = 1
        <5>1. OfNode(b, n)
          BY <1>4, <4>2, <4>3
        <5>2. b = n.block \/ \E k \in DOMAIN n.args : b = n.args[k].block
          BY <1>4, <2>5, <5>1 DEF OfNode
        <5>3. ASSUME NEW k \in DOMAIN n.args, b = n.args[k].block
              PROVE  \E i \in 1 .. Len(d) : b = d[i].block
          <6>1. k \in 1 .. Len(n.args)
            BY <1>4 DEF NodeType
          <6> QED BY <1>5, <1>6, <2>5, <5>3, <6>1 DEF Placed
        <5>4. OfNode(b, m)
          BY <2>2, <5>2, <5>3
        <5> QED BY <2>4, <5>4 DEF Held
      <4>4. CASE ~(c = command /\ s = 1)
        <5>1. OfNode(b, nodes'[c][s]) /\ s \in DOMAIN nodes'[c] /\ c \in DOMAIN nodes'
          BY <1>5, <4>2, <4>4
        <5> QED BY <5>1 DEF Held, InNodes
      <4> QED BY <4>3, <4>4
    <3> QED BY <3>1, <3>2
  <2>6. ASSUME NEW b \in made PROVE b # Static /\ Held(b)'
    <3>1. b # Static /\ OfNode(b, m)
      BY <1>12, <2>2
    <3> QED BY <2>4, <3>1 DEF Held
  <2>7. TheLine' = TheLine /\ TheLine \in heap /\ TheLine # old
    BY <1>1, <1>2, <1>13 DEF TheLine, Block, Accounts
  <2>8. Changes(made, {old})
    BY <1>2, <1>14, <2>3, <2>5, <2>6, <2>7 DEF Changes
  <2> QED BY <1>1, <1>2, <1>15, <1>e, <2>8, AccountsKept
<1> QED BY <1>14, <1>15, <1>16, <1>17, <1>18, <1>19, <1>e DEF IInv

\* The parameters of the stages behind the first one are allocated.
LEMMA ParamsAre ==
  ASSUME IInv, pc \in Executing
  PROVE  /\ Len(nodes[command]) \in Nat /\ DOMAIN Params = 1 .. Len(nodes[command])
         /\ Params[1] = Static /\ 1 \in DOMAIN Params
         /\ \A s \in 2 .. Len(nodes[command]) : Params[s] = Block("param", <<command, s>>)
         /\ \A b : b \in ToSet(Params) \ {Static} <=> IsParam(b)
         /\ \A b : IsParam(b) => b \in Blocks /\ b # Static /\ b.for = "param"
         /\ ~Twice(Params)
<1>1. /\ command \in DOMAIN nodes /\ 1 \in DOMAIN nodes[command] /\ command \in Nat
      /\ nodes[command] \in Seq(NodeType) /\ TypeOK
  BY FirstNode DEF IInv
<1>2. PICK n \in Nat : n = Len(nodes[command]) /\ n >= 1
  BY <1>1
<1>3. PICK p : p = Params
  OBVIOUS
<1>4. p = [s \in 1 .. n |-> IF s = 1 THEN Static ELSE Block("param", <<command, s>>)]
  BY <1>2, <1>3 DEF Params, Pipeline
<1>5. ASSUME NEW s \in 2 .. n
      PROVE  /\ p[s] = Block("param", <<command, s>>) /\ p[s] \in Blocks /\ p[s] # Static
             /\ p[s].for = "param" /\ p[s].at[2] = s
  <2>1. p[s] = Block("param", <<command, s>>)
    BY <1>4
  <2>2. "param" \in Purposes /\ s \in Nat
    BY DEF Purposes
  <2>3. p[s] \in Blocks
    BY <1>1, <2>1, <2>2, BlockAt2
  <2>4. p[s].for = "param" /\ p[s].at[2] = s
    BY <2>1 DEF Block
  <2> QED BY <2>1, <2>3, <2>4, BlockIsNotStatic
<1>6. p[1] = Static /\ DOMAIN p = 1 .. n
  BY <1>2, <1>4
<1>7. ASSUME NEW b PROVE b \in ToSet(p) \ {Static} <=> \E s \in 2 .. n : b = p[s]
  <2>1. b \in ToSet(p) <=> \E s \in 1 .. n : b = p[s]
    BY <1>6 DEF ToSet
  <2>2. \A s \in 1 .. n : s = 1 \/ s \in 2 .. n
    OBVIOUS
  <2>3. \A s \in 2 .. n : p[s] # Static
    BY <1>5
  <2>4. \A s \in 2 .. n : s \in 1 .. n
    OBVIOUS
  <2> QED BY <1>6, <2>1, <2>2, <2>3, <2>4
<1>8. \A b : IsParam(b) <=> \E s \in 2 .. n : b = p[s]
  BY <1>2, <1>5 DEF IsParam
<1>9. ~Twice(p)
  <2>1. ASSUME NEW i \in 1 .. n, NEW j \in 1 .. n, p[i] = p[j], p[i] # Static PROVE i = j
    <3>1. i \in 2 .. n /\ j \in 2 .. n
      BY <1>6, <2>1
    <3> QED BY <1>5, <2>1, <3>1
  <2> QED BY <1>6, <2>1 DEF Twice
<1>10. Len(nodes[command]) \in Nat /\ DOMAIN Params = 1 .. Len(nodes[command])
  BY <1>2, <1>3, <1>6
<1>11. Params[1] = Static /\ 1 \in DOMAIN Params /\ ~Twice(Params)
  BY <1>2, <1>3, <1>6, <1>9
<1>12. \A s \in 2 .. Len(nodes[command]) : Params[s] = Block("param", <<command, s>>)
  BY <1>2, <1>3, <1>5
<1>13. \A b : b \in ToSet(Params) \ {Static} <=> IsParam(b)
  BY <1>3, <1>7, <1>8
<1>14. \A b : IsParam(b) => b \in Blocks /\ b # Static /\ b.for = "param"
  BY <1>5, <1>8
<1> QED BY <1>10, <1>11, <1>12, <1>13, <1>14

\* What a stage uses is live.
LEMMA UsesAreLive ==
  ASSUME IInv, HasParams, NEW s \in 1 .. Len(nodes[command])
  PROVE  Uses(s) \subseteq heap \cup {Static}
<1>1. /\ pc \in Executing /\ command \in DOMAIN nodes /\ nodes[command] \in Seq(NodeType)
  BY FirstNode DEF HasParams, Executing
<1>2. s \in DOMAIN nodes[command]
  BY <1>1
<1>3. ASSUME NEW b \in Uses(s) PROVE b \in heap \cup {Static}
  <2>1. \/ OfNode(b, nodes[command][s]) \/ b = Params[s]
    BY DEF Uses, Pipeline, OfNode, ArgBlocks, ToSet
  <2>2. CASE OfNode(b, nodes[command][s])
    <3>1. Held(b)
      BY <1>1, <1>2, <2>2 DEF Held, InNodes
    <3> QED BY <3>1, HeldIsLive
  <2>3. CASE b = Params[s]
    <3>1. CASE s = 1
      BY <1>1, <2>3, <3>1, ParamsAre
    <3>2. CASE s \in 2 .. Len(nodes[command])
      <4>1. b = Block("param", <<command, s>>)
        BY <1>1, <2>3, <3>2, ParamsAre
      <4>2. Held(b)
        BY <3>2, <4>1 DEF Held, IsParam
      <4> QED BY <4>2, HeldIsLive
    <3> QED BY <3>1, <3>2
  <2> QED BY <2>1, <2>2, <2>3
<1> QED BY <1>3

LEMMA ConvertInv == ASSUME IInv, Convert PROVE IInv'
<1>1. TypeOK /\ NodesInv /\ HistoryInv /\ MarkInv /\ ErrorInv /\ misused = FALSE /\ Accounts
  BY DEF IInv, TypeOK
<1>2. /\ pc = "converting" /\ pc' \in {"running", "file_failed"} /\ stage' = 1
      /\ Memory(ToSet(Params) \ {Static}, {}, <<>>)
      /\ UNCHANGED <<line, error, nodes, command, result, contextVars, last_typed_commands, directory, turn>>
  BY DEF Convert
<1>3. pc \in Executing /\ ~HasParams /\ HasParams'
  BY <1>2 DEF Executing, HasParams
<1>4. PICK made : made = ToSet(Params) \ {Static}
  OBVIOUS
<1>5. /\ \A b : b \in made <=> IsParam(b)
      /\ \A b : IsParam(b) => b \in Blocks /\ b # Static
  BY <1>3, <1>4, ParamsAre
<1>6. misused' = FALSE /\ heap' = heap \cup made
  <2>1. ToSet(<<>>) = {} /\ ~Twice(<<>>)
    BY DEF ToSet, Twice
  <2>2. Memory(made, {}, <<>>)
    BY <1>2, <1>4
  <2>3. misused' = FALSE /\ heap' = (heap \cup made) \ (ToSet(<<>>) \ {Static})
    BY <1>1, <2>1, <2>2, MemoryStep
  <2> QED BY <2>1, <2>3
<1>7. TypeOK'
  <2>1. made \subseteq Blocks
    BY <1>5
  <2>2. heap' \subseteq Blocks
    BY <1>1, <1>6, <2>1 DEF TypeOK
  <2>3. 1 \in DOMAIN nodes[command] /\ command \in DOMAIN nodes
    BY <1>3, FirstNode
  <2>4. {command', stage'} \subseteq Nat /\ command' \in DOMAIN nodes' /\ stage' \in DOMAIN nodes'[command']
    BY <1>1, <1>2, <2>3 DEF TypeOK
  <2>5. {exit_requested', colorful', soundful', misused'} \subseteq BOOLEAN
    BY <1>1, <1>2, <1>6 DEF TypeOK, contextVars
  <2> QED BY <1>1, <1>2, <2>2, <2>4, <2>5 DEF TypeOK, contextVars, Executing
<1>8. NodesInv'
  <2>1. \A c \in DOMAIN nodes : \A s : IsReplaced(c, s)' <=> IsReplaced(c, s)
    BY <1>2 DEF IsReplaced
  <2>2. nodes # <<>> /\ line.kind = "parsed"
    BY <1>1, <1>3 DEF NodesInv
  <2> QED BY <1>1, <1>2, <2>1, <2>2, NodesKept
<1>9. HistoryInv'
  BY <1>1, <1>2, HistoryKept
<1>10. MarkInv'
  BY <1>1, <1>2 DEF MarkInv, contextVars, Executing
<1>e. ErrorInv'
  BY <1>1, <1>2, ErrorKept
<1>11. Accounts'
  <2>1. \A b : InNodes(b)' <=> InNodes(b)
    BY <1>2 DEF InNodes
  <2>2. \A b : IsParam(b)' <=> IsParam(b)
    BY <1>2 DEF IsParam, Block
  <2>3. \A b : Held(b)' <=> Held(b) \/ b \in made
    BY <1>2, <1>3, <1>5, <2>1, <2>2 DEF Held, contextVars
  <2>4. TheLine' = TheLine /\ TheLine \in heap
    BY <1>1, <1>2 DEF TheLine, Block, Accounts
  <2>5. Changes(made, {})
    BY <1>2, <1>5, <1>6, <2>3, <2>4 DEF Changes
  <2> QED BY <1>1, <1>2, <1>7, <1>e, <2>5, AccountsKept
<1> QED BY <1>6, <1>7, <1>8, <1>9, <1>10, <1>11, <1>e DEF IInv

\* The parameters of the command are freed.
LEMMA NextCommandInv ==
  ASSUME IInv, pc \in {"file_failed", "executed"}, NEW stop \in BOOLEAN, NEW used,
         used \subseteq heap \cup {Static}, NextCommand(stop, used),
         pc = "file_failed" => stop, last_status_code' \in Statuses \cup {0, 1},
         error' \in {error, Literal}
  PROVE  IInv'
<1>1. TypeOK /\ NodesInv /\ HistoryInv /\ MarkInv /\ ErrorInv /\ misused = FALSE /\ Accounts
  BY DEF IInv, TypeOK
<1>2. /\ Memory({}, used, Params)
      /\ IF stop \/ command = Len(nodes)
         THEN pc' = "releasing" /\ UNCHANGED command
         ELSE pc' = "substituting" /\ command' = command + 1
      /\ UNCHANGED <<line, nodes, stage, result, exit_requested, colorful, soundful, input_mark,
                     last_typed_commands, directory, turn>>
  BY DEF NextCommand, Freed
<1>3. pc \in Executing /\ HasParams /\ ~HasParams'
  BY <1>2 DEF Executing, HasParams
<1>4. /\ \A b : b \in ToSet(Params) \ {Static} <=> IsParam(b)
      /\ \A b : IsParam(b) => b \in Blocks /\ b # Static /\ b.for = "param"
      /\ ~Twice(Params)
  BY <1>3, ParamsAre
<1>5. PICK gone : gone = ToSet(Params) \ {Static}
  OBVIOUS
<1>6. misused' = FALSE /\ heap' = heap \ gone
  <2>1. ToSet(Params) \subseteq heap \cup {Static}
    <3>1. ASSUME NEW b \in ToSet(Params), b # Static PROVE b \in heap
      <4>1. Held(b)
        BY <1>3, <1>4, <3>1 DEF Held
      <4> QED BY <3>1, <4>1, HeldIsLive
    <3> QED BY <3>1
  <2>2. misused' = FALSE /\ heap' = (heap \cup {}) \ (ToSet(Params) \ {Static})
    BY <1>1, <1>2, <1>4, <2>1, MemoryStep
  <2> QED BY <1>5, <2>2
<1>7. command \in DOMAIN nodes /\ command \in Nat /\ nodes # <<>> /\ line.kind = "parsed"
      /\ DOMAIN nodes = 1 .. Len(nodes) /\ Len(nodes) \in Nat
  BY <1>1, <1>3 DEF TypeOK, NodesInv
<1>8. TypeOK'
  <2>1. command' \in Nat /\ command' \in DOMAIN nodes
    BY <1>2, <1>7
  <2>2. heap' \subseteq Blocks
    BY <1>1, <1>6 DEF TypeOK
  <2>3. error' \in MaybeBlock \cup {Literal}
    BY <1>1 DEF TypeOK
  <2> QED BY <1>1, <1>2, <1>6, <2>1, <2>2, <2>3 DEF TypeOK, Executing
<1>9. NodesInv'
  <2>1. ASSUME NEW c \in DOMAIN nodes, NEW s PROVE IsReplaced(c, s)' <=> IsReplaced(c, s)
    <3>1. c \in Nat
      BY <1>7
    <3> QED BY <1>2, <1>3, <1>7, <3>1 DEF IsReplaced, HasParams
  <2> QED BY <1>1, <1>2, <1>7, <2>1, NodesKept
<1>10. HistoryInv'
  BY <1>1, <1>2, HistoryKept
<1>11. MarkInv'
  <2>1. CASE pc' = "releasing"
    BY <1>1, <1>2, <2>1 DEF MarkInv, Executing
  <2>2. CASE pc' = "substituting"
    <3>1. pc = "executed" /\ command' = command + 1
      BY <1>2, <2>2
    <3>2. input_mark # Static =>
            /\ input_mark.for = "mark" /\ input_mark.at \in Nat \X Nat /\ input_mark.turn <= turn
            /\ input_mark.turn < turn \/ input_mark.at[1] < command \/ input_mark.at[1] = command
      BY <1>1, <3>1 DEF MarkInv, Executing
    <3> QED BY <1>2, <1>7, <2>2, <3>1, <3>2 DEF MarkInv, Executing
  <2> QED BY <1>2, <2>1, <2>2
<1>e. ErrorInv'
  <2>1. error' \in {error, Static, Literal}
    OBVIOUS
  <2> QED BY <1>1, <1>2, <2>1, ErrorKept
<1>12. Accounts'
  <2>1. \A b : InNodes(b)' <=> InNodes(b)
    BY <1>2 DEF InNodes
  <2>2. \A b : b \in gone <=> IsParam(b)
    BY <1>4, <1>5
  <2>3. ASSUME NEW b, b # Static, Held(b)' PROVE Held(b) /\ b \notin gone
    <3>1. Held(b) /\ (b = input_mark \/ InNodes(b) \/ \E i \in DOMAIN last_typed_commands.data : b = last_typed_commands.data[i])
      BY <1>2, <1>3, <2>1, <2>3 DEF Held
    <3> QED BY <1>4, <2>2, <2>3, <3>1, HeldIsFor
  <2>4. ASSUME NEW b, Held(b), b \notin gone PROVE Held(b)'
    BY <1>2, <2>1, <2>2, <2>4 DEF Held
  <2>5. TheLine' = TheLine /\ TheLine \in heap /\ TheLine \notin gone /\ pc' # "prompt"
    <3>1. TheLine.for = "line"
      BY DEF TheLine, Block
    <3> QED BY <1>1, <1>2, <1>3, <1>4, <2>2, <3>1 DEF TheLine, Block, Accounts, HasParams
  <2>6. Changes({}, gone)
    BY <1>6, <2>3, <2>4, <2>5 DEF Changes
  <2> QED BY <1>1, <1>3, <1>8, <1>e, <2>6, AccountsKept DEF HasParams
<1> QED BY <1>6, <1>8, <1>9, <1>10, <1>11, <1>12, <1>e DEF IInv

LEMMA ReportFileInv == ASSUME IInv, ReportFile PROVE IInv'
<1>1. pc = "file_failed" /\ NextCommand(TRUE, {TheLine, input_mark}) /\ last_status_code' = last_status_code
      /\ error' = Literal
  BY DEF ReportFile
<1>2. {TheLine, input_mark} \subseteq heap \cup {Static}
  <2>1. Held(input_mark)
    BY DEF Held
  <2>2. TheLine \in heap
    BY <1>1 DEF IInv, Accounts
  <2> QED BY <2>1, <2>2, HeldIsLive
<1>3. last_status_code \in Statuses \cup {0, 1}
  BY DEF IInv, TypeOK
<1>4. PICK used, stop : used = {TheLine, input_mark} /\ stop = TRUE
  OBVIOUS
<1> QED BY <1>1, <1>2, <1>3, <1>4, NextCommandInv

LEMMA ExecutedInv == ASSUME IInv, Executed PROVE IInv'
<1>1. pc = "executed" /\ NextCommand(result # 0, {}) /\ last_status_code' = result
      /\ error' = error
  BY DEF Executed
<1>2. result \in Statuses \cup {0, 1}
  BY DEF IInv, TypeOK
<1>3. PICK stop \in BOOLEAN : stop = (result # 0)
  OBVIOUS
<1> QED BY <1>1, <1>2, <1>3, NextCommandInv

\* A stage that ran and left the nodes alone: what is lost of the heap is the
\* old mark, what is gained the new one.
LEMMA StageRan ==
  ASSUME IInv, pc = "running", TypeOK', misused' = FALSE,
         \/ pc' = "running" /\ stage' = stage + 1
         \/ pc' = "executed",
         UNCHANGED <<line, error, nodes, command, last_typed_commands, turn>>,
         NEW gained, NEW lost, heap' = (heap \cup gained) \ lost,
         \/ input_mark' = input_mark /\ gained = {} /\ lost = {}
         \/ /\ input_mark' = Block("mark", <<command, stage>>)
            /\ gained = {input_mark'} /\ lost = {input_mark} \ {Static}
  PROVE  IInv'
<1>1. TypeOK /\ NodesInv /\ HistoryInv /\ MarkInv /\ ErrorInv /\ misused = FALSE /\ Accounts
  BY DEF IInv, TypeOK
<1>2. HasParams /\ HasParams' /\ pc \in Executing /\ pc' \in {"running", "executed"}
  BY DEF HasParams, Executing
<1>3. command \in Nat /\ stage \in Nat /\ turn \in Nat
  BY <1>1 DEF TypeOK
<1>4. PICK mark : mark = Block("mark", <<command, stage>>)
  OBVIOUS
<1>5. mark \in Blocks /\ mark # Static /\ mark.for = "mark" /\ mark.turn = turn
      /\ mark.at \in Nat \X Nat /\ mark.at[1] = command /\ mark.at[2] = stage
  <2>1. "mark" \in Purposes
    BY DEF Purposes
  <2>2. mark \in Blocks
    BY <1>1, <1>3, <1>4, <2>1, BlockAt2
  <2>3. mark.for = "mark" /\ mark.turn = turn /\ mark.at = <<command, stage>>
    BY <1>4 DEF Block
  <2> QED BY <1>3, <2>2, <2>3, BlockIsNotStatic
<1>6. input_mark # Static =>
        /\ input_mark.for = "mark" /\ input_mark.turn <= turn
        /\ \/ input_mark.turn < turn
           \/ input_mark.at[1] < command
           \/ input_mark.at[1] = command /\ input_mark.at[2] < stage
  BY <1>1, <1>2 DEF MarkInv
<1>7. input_mark # mark
  <2>1. CASE input_mark = Static
    BY <1>5, <2>1
  <2>2. CASE input_mark # Static
    BY <1>3, <1>5, <1>6, <2>2
  <2> QED BY <2>1, <2>2
<1>8. NodesInv'
  <2>1. \A c \in DOMAIN nodes : \A s : IsReplaced(c, s)' <=> IsReplaced(c, s)
    BY <1>2 DEF IsReplaced
  <2>2. nodes # <<>> /\ line.kind = "parsed"
    BY <1>1, <1>2 DEF NodesInv
  <2> QED BY <1>1, <1>2, <2>1, <2>2, NodesKept
<1>9. HistoryInv'
  BY <1>1, HistoryKept
<1>10. MarkInv'
  <2>1. CASE input_mark' = mark
    <3>1. /\ input_mark'.for = "mark" /\ input_mark'.turn = turn /\ input_mark'.at \in Nat \X Nat
          /\ input_mark'.at[1] = command /\ input_mark'.at[2] = stage
      BY <1>5, <2>1
    <3> QED BY <1>2, <1>3, <3>1 DEF MarkInv
  <2>2. CASE input_mark' = input_mark
    <3>1. CASE input_mark = Static
      BY <2>2, <3>1 DEF MarkInv
    <3>2. CASE input_mark # Static
      <4>1. input_mark.at \in Nat \X Nat
        BY <1>1, <3>2 DEF MarkInv
      <4>2. CASE pc' = "running" /\ stage' = stage + 1
        <5>1. input_mark.at[2] < stage => input_mark.at[2] < stage + 1
          BY <1>3, <4>1
        <5> QED BY <1>6, <2>2, <3>2, <4>1, <4>2, <5>1 DEF MarkInv
      <4>3. CASE pc' = "executed"
        BY <1>6, <2>2, <3>2, <4>1, <4>3 DEF MarkInv
      <4> QED BY <4>2, <4>3
    <3> QED BY <3>1, <3>2
  <2> QED BY <1>4, <2>1, <2>2
<1>e. ErrorInv'
  BY <1>1, <1>2, ErrorKept
<1>11. Accounts'
  <2>1. \A b : (InNodes(b)' <=> InNodes(b)) /\ (IsParam(b)' <=> IsParam(b))
    BY DEF InNodes, IsParam, Block
  <2>2. TheLine' = TheLine /\ TheLine \in heap /\ pc' # "prompt" /\ TheLine.for = "line"
    BY <1>1, <1>2 DEF TheLine, Block, Accounts
  <2>3. CASE input_mark' = input_mark /\ gained = {} /\ lost = {}
    <3>1. \A b : Held(b)' <=> Held(b)
      BY <1>2, <2>1, <2>3 DEF Held
    <3>2. Changes(gained, lost)
      BY <2>2, <2>3, <3>1 DEF Changes
    <3> QED BY <1>1, <1>e, <3>2, AccountsKept
  <2>4. CASE input_mark' = mark /\ gained = {mark} /\ lost = {input_mark} \ {Static}
    <3>1. \A b : Held(b) <=> \/ b = input_mark \/ InNodes(b) \/ IsParam(b)
                             \/ \E i \in DOMAIN last_typed_commands.data : b = last_typed_commands.data[i]
      BY <1>2 DEF Held
    <3>2. \A b : Held(b)' <=> \/ b = mark \/ InNodes(b) \/ IsParam(b)
                              \/ \E i \in DOMAIN last_typed_commands.data : b = last_typed_commands.data[i]
      BY <1>2, <2>1, <2>4 DEF Held
    <3>3. ASSUME NEW b, b # Static, Held(b)' PROVE (Held(b) \/ b \in gained) /\ b \notin lost
      <4>1. CASE b = mark
        BY <1>7, <2>4, <4>1
      <4>2. CASE b # mark
        <5>1. Held(b)
          BY <3>1, <3>2, <3>3, <4>2
        <5>2. b # input_mark
          BY <1>3, <3>2, <3>3, <4>2, HeldIsFor
        <5> QED BY <2>4, <5>1, <5>2
      <4> QED BY <4>1, <4>2
    <3>4. ASSUME NEW b, b # Static, Held(b), b \notin lost PROVE Held(b)'
      BY <2>4, <3>1, <3>2, <3>4
    <3>5. \A b \in gained : b # Static /\ Held(b)'
      BY <1>5, <2>4, <3>2
    <3>6. TheLine \notin lost
      BY <1>6, <2>2, <2>4
    <3>7. Changes(gained, lost)
      BY <2>2, <3>3, <3>4, <3>5, <3>6 DEF Changes
    <3> QED BY <1>1, <1>e, <3>7, AccountsKept
  <2> QED BY <1>4, <2>3, <2>4
<1> QED BY <1>8, <1>9, <1>10, <1>11, <1>e DEF IInv

\* What every builtin does.
LEMMA BuiltinIs ==
  ASSUME IInv, pc = "running", NEW status \in {0, 1}, Builtin(status)
  PROVE  /\ result' \in Statuses \cup {0, 1}
         /\ \/ pc' = "running" /\ stage' = stage + 1
            \/ pc' = "executed"
         /\ pc' \in {"running", "executed"} /\ stage' \in Nat /\ stage' \in DOMAIN nodes[command]
         /\ UNCHANGED <<line, error, nodes, command, last_status_code, last_typed_commands, turn>>
         /\ Uses(stage) \subseteq heap \cup {Static}
<1>1. TypeOK /\ stage \in DOMAIN nodes[command] /\ pc \in Executing /\ HasParams
  BY DEF IInv, TypeOK, Executing, HasParams
<1>2. nodes[command] \in Seq(NodeType)
  BY <1>1, FirstNode
<1>3. stage \in 1 .. Len(nodes[command]) /\ DOMAIN nodes[command] = 1 .. Len(nodes[command])
  BY <1>1, <1>2
<1>4. result' \in Statuses \cup {0, 1}
  BY <1>1 DEF Builtin, Returns, TypeOK
<1>5. \/ pc' = "running" /\ stage' = stage + 1 /\ stage < Len(nodes[command])
      \/ pc' = "executed" /\ stage' = stage
  BY DEF Builtin, Pipeline
<1>6. stage' \in 1 .. Len(nodes[command])
  BY <1>2, <1>3, <1>5
<1>7. UNCHANGED <<line, error, nodes, command, last_status_code, last_typed_commands, turn>>
  BY DEF Builtin
<1> QED BY <1>1, <1>3, <1>4, <1>5, <1>6, <1>7, UsesAreLive

LEMMA BuiltinType ==
  ASSUME IInv, pc = "running", NEW status \in {0, 1}, Builtin(status), misused' = FALSE,
         {exit_requested', colorful', soundful'} \subseteq BOOLEAN,
         input_mark' \in MaybeBlock, heap' \subseteq Blocks, directory' \in DOMAIN Directories
  PROVE  TypeOK'
<1>1. TypeOK /\ command \in DOMAIN nodes
  BY DEF IInv, TypeOK, Executing
<1> QED BY <1>1, BuiltinIs DEF TypeOK, Executing

\* A builtin that allocates nothing.
LEMMA PlainInv ==
  ASSUME IInv, pc = "running", NEW status \in {0, 1}, NEW used, used \subseteq heap \cup {Static},
         Builtin(status), Memory({}, used, <<>>), input_mark' = input_mark,
         {exit_requested', colorful', soundful'} \subseteq BOOLEAN,
         directory' \in DOMAIN Directories
  PROVE  IInv'
<1>1. TypeOK /\ misused = FALSE
  BY DEF IInv, TypeOK
<1>2. misused' = FALSE /\ heap' = heap
  <2>1. ToSet(<<>>) = {} /\ ~Twice(<<>>)
    BY DEF ToSet, Twice
  <2>2. misused' = FALSE /\ heap' = (heap \cup {}) \ (ToSet(<<>>) \ {Static})
    BY <1>1, <2>1, MemoryStep
  <2> QED BY <2>1, <2>2
<1>3. TypeOK'
  <2>1. input_mark' \in MaybeBlock /\ heap' \subseteq Blocks
    BY <1>1, <1>2 DEF TypeOK
  <2> QED BY <1>2, <2>1, BuiltinType
<1>4. PICK none : none = {}
  OBVIOUS
<1>5. heap' = (heap \cup none) \ none
  BY <1>2, <1>4
<1> QED BY <1>2, <1>3, <1>4, <1>5, BuiltinIs, StageRan

LEMMA CdInv == ASSUME IInv, builtin_cd PROVE IInv'
<1>1. pc = "running" /\ TypeOK
  BY DEF IInv, builtin_cd, Call
<1>2. PICK status \in {0, 1} : PlainBuiltin(status)
  BY DEF builtin_cd
<1>3. Builtin(status) /\ Memory({}, Uses(stage), <<>>)
  BY <1>2 DEF PlainBuiltin
<1>4. directory' \in DOMAIN Directories
  BY <1>1, ShellLoopAssumption DEF builtin_cd, CanEnter, TypeOK
<1>5. input_mark' = input_mark /\ {exit_requested', colorful', soundful'} \subseteq BOOLEAN
  BY <1>1 DEF builtin_cd, TypeOK
<1>6. PICK used : used = Uses(stage)
  OBVIOUS
<1>7. used \subseteq heap \cup {Static}
  BY <1>1, <1>3, <1>6, BuiltinIs
<1> QED BY <1>1, <1>3, <1>4, <1>5, <1>6, <1>7, PlainInv

LEMMA ExitInv == ASSUME IInv, builtin_exit PROVE IInv'
<1>1. pc = "running" /\ TypeOK
  BY DEF IInv, builtin_exit, Call
<1>2. PICK status \in {0, 1} : PlainBuiltin(status)
  BY DEF builtin_exit
<1>3. Builtin(status) /\ Memory({}, Uses(stage), <<>>)
  BY <1>2 DEF PlainBuiltin
<1>4. /\ input_mark' = input_mark /\ {exit_requested', colorful', soundful'} \subseteq BOOLEAN
      /\ directory' \in DOMAIN Directories
  BY <1>1 DEF builtin_exit, TypeOK
<1>5. PICK used : used = Uses(stage)
  OBVIOUS
<1>6. used \subseteq heap \cup {Static}
  BY <1>1, <1>3, <1>5, BuiltinIs
<1> QED BY <1>1, <1>3, <1>4, <1>5, <1>6, PlainInv

LEMMA HelpInv == ASSUME IInv, builtin_help PROVE IInv'
<1>1. pc = "running" /\ TypeOK
  BY DEF IInv, builtin_help, Call
<1>2. PICK status \in {0, 1} : PlainBuiltin(status)
  BY DEF builtin_help
<1>3. Builtin(status) /\ Memory({}, Uses(stage), <<>>)
  BY <1>2 DEF PlainBuiltin
<1>4. /\ input_mark' = input_mark /\ {exit_requested', colorful', soundful'} \subseteq BOOLEAN
      /\ directory' \in DOMAIN Directories
  BY <1>1 DEF builtin_help, shows, TypeOK
<1>5. PICK used : used = Uses(stage)
  OBVIOUS
<1>6. used \subseteq heap \cup {Static}
  BY <1>1, <1>3, <1>5, BuiltinIs
<1> QED BY <1>1, <1>3, <1>4, <1>5, <1>6, PlainInv

\* The lines it shows are live.
LEMMA HistoryShownInv == ASSUME IInv, builtin_history PROVE IInv'
<1>1. pc = "running" /\ TypeOK
  BY DEF IInv, builtin_history, Call
<1>2. PICK status \in {0, 1} : status = 0
  OBVIOUS
<1>3. Builtin(status)
  BY <1>2 DEF builtin_history
<1>4. PICK used : used = Uses(stage) \cup ToSet(last_typed_commands.data)
  OBVIOUS
<1>5. Memory({}, used, <<>>)
  BY <1>4 DEF builtin_history
<1>6. /\ input_mark' = input_mark /\ {exit_requested', colorful', soundful'} \subseteq BOOLEAN
      /\ directory' \in DOMAIN Directories
  BY <1>1 DEF builtin_history, shows, TypeOK
<1>7. used \subseteq heap \cup {Static}
  <2>1. Uses(stage) \subseteq heap \cup {Static}
    BY <1>1, <1>3, BuiltinIs
  <2>2. ASSUME NEW b \in ToSet(last_typed_commands.data) PROVE b \in heap \cup {Static}
    <3>1. Held(b)
      BY DEF Held, ToSet
    <3> QED BY <3>1, HeldIsLive
  <2> QED BY <1>4, <2>1, <2>2
<1> QED BY <1>1, <1>3, <1>5, <1>6, <1>7, PlainInv

LEMMA SetMarkInv ==
  ASSUME IInv, pc = "running", SetMark, UNCHANGED <<exit_requested, directory>> PROVE IInv'
<1>1. TypeOK /\ misused = FALSE /\ MarkInv /\ pc \in Executing
  BY DEF IInv, TypeOK, Executing
<1>2. PICK status \in {0, 1} : status = 0
  OBVIOUS
<1>3. /\ Builtin(status) /\ input_mark' = Block("mark", <<command, stage>>)
      /\ Memory({input_mark'}, Uses(stage), <<input_mark>>)
      /\ UNCHANGED <<colorful, soundful>>
  BY <1>2 DEF SetMark
<1>4. PICK gained, lost : gained = {input_mark'} /\ lost = {input_mark} \ {Static}
  OBVIOUS
<1>5. misused' = FALSE /\ heap' = (heap \cup gained) \ lost
  <2>1. Uses(stage) \subseteq heap \cup {Static}
    BY <1>3, BuiltinIs
  <2>2. PICK f : f = <<input_mark>>
    OBVIOUS
  <2>3. ToSet(f) = {input_mark} /\ ~Twice(f)
    BY <2>2 DEF ToSet, Twice
  <2>4. input_mark \in heap \cup {Static}
    <3>1. Held(input_mark)
      BY DEF Held
    <3> QED BY <3>1, HeldIsLive
  <2>5. PICK u : u = Uses(stage)
    OBVIOUS
  <2>6. Memory(gained, u, f)
    BY <1>3, <1>4, <2>2, <2>5
  <2>7. misused' = FALSE /\ heap' = (heap \cup gained) \ (ToSet(f) \ {Static})
    <3>1. u \subseteq heap \cup gained \cup {Static}
      BY <2>1, <2>5
    <3>2. ToSet(f) \subseteq heap \cup gained \cup {Static}
      BY <2>3, <2>4
    <3> QED BY <1>1, <2>3, <2>6, <3>1, <3>2, MemoryStep
  <2> QED BY <1>4, <2>3, <2>7
<1>6. TypeOK'
  <2>1. input_mark' \in Blocks
    <3>1. "mark" \in Purposes /\ command \in Nat /\ stage \in Nat
      BY <1>1 DEF Purposes, TypeOK
    <3> QED BY <1>1, <1>3, <3>1, BlockAt2
  <2>2. heap' \subseteq Blocks /\ input_mark' \in MaybeBlock
    BY <1>1, <1>4, <1>5, <2>1 DEF TypeOK, MaybeBlock
  <2>3. {exit_requested', colorful', soundful'} \subseteq BOOLEAN /\ directory' \in DOMAIN Directories
    BY <1>1, <1>3 DEF TypeOK
  <2> QED BY <1>3, <1>5, <2>2, <2>3, BuiltinType
<1> QED BY <1>3, <1>4, <1>5, <1>6, BuiltinIs, StageRan

LEMMA SetInv == ASSUME IInv, builtin_set PROVE IInv'
<1>1. pc = "running" /\ TypeOK /\ UNCHANGED <<exit_requested, directory>>
  BY DEF IInv, builtin_set, Call
<1>2. CASE SetMark
  BY <1>1, <1>2, SetMarkInv
<1>3. CASE SetFlag \/ SetNothing
  <2>1. PICK status \in {0, 1} : PlainBuiltin(status)
    BY <1>3 DEF SetFlag, SetNothing
  <2>2. Builtin(status) /\ Memory({}, Uses(stage), <<>>)
    BY <2>1 DEF PlainBuiltin
  <2>3. input_mark' = input_mark /\ {exit_requested', colorful', soundful'} \subseteq BOOLEAN
        /\ directory' \in DOMAIN Directories
    <3>1. \A flag \in BOOLEAN : \A on, off : Switched(flag, on, off) \in BOOLEAN
      BY DEF Switched
    <3>2. {exit_requested, colorful, soundful} \subseteq BOOLEAN /\ directory \in DOMAIN Directories
      BY <1>1 DEF TypeOK
    <3> QED BY <1>1, <1>3, <3>1, <3>2 DEF SetFlag, SetNothing
  <2>4. PICK used : used = Uses(stage)
    OBVIOUS
  <2>5. used \subseteq heap \cup {Static}
    BY <1>1, <2>2, <2>4, BuiltinIs
  <2> QED BY <1>1, <2>2, <2>3, <2>4, <2>5, PlainInv
<1> QED BY <1>2, <1>3 DEF builtin_set

LEMMA RunProgramsInv == ASSUME IInv, RunPrograms PROVE IInv'
<1>1. TypeOK /\ misused = FALSE /\ pc = "running" /\ pc \in Executing /\ HasParams
  BY DEF IInv, TypeOK, RunPrograms, Executing, HasParams
<1>2. /\ pc' = "executed" /\ result' \in Statuses \cup {0, 1}
      /\ Memory({}, UNION {Uses(s) : s \in stage .. Len(Pipeline)}, <<>>)
      /\ UNCHANGED <<nodeVars, contextVars, last_typed_commands, directory, turn>>
  BY <1>1 DEF RunPrograms, Returns, TypeOK
<1>3. PICK used : used = UNION {Uses(s) : s \in stage .. Len(Pipeline)}
  OBVIOUS
<1>4. used \subseteq heap \cup {Static}
  <2>1. stage \in DOMAIN nodes[command] /\ nodes[command] \in Seq(NodeType)
    BY <1>1, FirstNode DEF TypeOK
  <2>2. PICK n \in Nat : n = Len(nodes[command]) /\ stage \in 1 .. n
    BY <2>1
  <2>3. ASSUME NEW s \in stage .. n PROVE Uses(s) \subseteq heap \cup {Static}
    <3>1. s \in 1 .. Len(nodes[command])
      BY <2>2
    <3> QED BY <1>1, <3>1, UsesAreLive
  <2>4. used = UNION {Uses(s) : s \in stage .. n}
    BY <1>3, <2>2 DEF Pipeline
  <2> QED BY <2>3, <2>4
<1>5. misused' = FALSE /\ heap' = heap
  <2>1. ToSet(<<>>) = {} /\ ~Twice(<<>>)
    BY DEF ToSet, Twice
  <2>2. Memory({}, used, <<>>)
    BY <1>2, <1>3
  <2>3. misused' = FALSE /\ heap' = (heap \cup {}) \ (ToSet(<<>>) \ {Static})
    BY <1>1, <1>4, <2>1, <2>2, MemoryStep
  <2> QED BY <2>1, <2>3
<1>6. TypeOK'
  BY <1>1, <1>2, <1>5 DEF TypeOK, nodeVars, contextVars, Executing
<1>7. PICK none : none = {}
  OBVIOUS
<1>8. heap' = (heap \cup none) \ none
  BY <1>5, <1>7
<1>9. UNCHANGED <<line, error, nodes, command, last_typed_commands, turn>> /\ input_mark' = input_mark
  BY <1>2 DEF nodeVars, contextVars
<1> QED BY <1>1, <1>2, <1>5, <1>6, <1>7, <1>8, <1>9, StageRan

\* The process is gone; what it held is not looked at any more.
LEMMA AbortInv == ASSUME IInv, AbortWithoutWord PROVE IInv'
<1>1. TypeOK /\ NodesInv /\ HistoryInv /\ MarkInv /\ ErrorInv /\ misused = FALSE /\ Accounts
  BY DEF IInv, TypeOK
<1>2. /\ pc = "running" /\ pc' = "aborted" /\ pc \in Executing /\ HasParams /\ ~HasParams'
      /\ UNCHANGED <<nodeVars, result, contextVars, last_typed_commands, directory, heap, misused, turn>>
  BY DEF AbortWithoutWord, Executing, HasParams
<1>3. TypeOK'
  BY <1>1, <1>2 DEF TypeOK, nodeVars, contextVars, Executing
<1>4. NodesInv'
  <2>1. \A c \in DOMAIN nodes : \A s : IsReplaced(c, s)' <=> IsReplaced(c, s)
    BY <1>2 DEF IsReplaced, nodeVars
  <2>2. nodes # <<>> /\ line.kind = "parsed"
    BY <1>1, <1>2 DEF NodesInv
  <2>3. UNCHANGED <<nodes, line, turn>> /\ pc' \notin {"prompt", "read", "reporting", "remembering"}
    BY <1>2 DEF nodeVars
  <2> QED BY <1>1, <2>1, <2>2, <2>3, NodesKept
<1>5. HistoryInv'
  BY <1>1, <1>2, HistoryKept
<1>6. MarkInv'
  BY <1>1, <1>2 DEF MarkInv, contextVars, Executing
<1>e. ErrorInv'
  BY <1>1, <1>2, ErrorKept DEF nodeVars
<1>7. Accounts'
  <2>1. \A b : Held(b)' => Held(b)
    BY <1>2 DEF Held, InNodes, nodeVars, contextVars
  <2>2. Reachable' \subseteq heap
    <3>1. ASSUME NEW b \in Reachable' PROVE b \in heap
      <4>1. b # Static /\ Held(b)
        BY <1>3, <1>e, <2>1, <3>1, ReachableIsNext
      <4> QED BY <4>1, HeldIsLive
    <3> QED BY <3>1
  <2>3. TheLine' = TheLine
    BY <1>2 DEF TheLine, Block, nodeVars
  <2> QED BY <1>1, <1>2, <2>2, <2>3 DEF Accounts
<1> QED BY <1>1, <1>2, <1>3, <1>4, <1>5, <1>6, <1>7, <1>e DEF IInv

\* Of a node everything is freed once.
LEMMA ReleasedOnce ==
  ASSUME NEW n \in NodeType, NEW c, NEW s, Owns(n, c, s),
         NEW i \in DOMAIN ReleasedOf(n), NEW j \in DOMAIN ReleasedOf(n), i # j,
         ReleasedOf(n)[i] = ReleasedOf(n)[j]
  PROVE  ReleasedOf(n)[i] = Static
<1>1. PICK m \in Nat : m = Len(n.args) /\ DOMAIN n.args = 1 .. m
  BY ReleasedNode
<1>2. PICK r : r = ReleasedOf(n)
  OBVIOUS
<1>3. /\ DOMAIN r = 1 .. m + 2
      /\ \A k \in 1 .. m : r[k] = n.args[k].block
      /\ r[m + 1] = n.array /\ r[m + 2] = n.block
  BY <1>1, <1>2, ReleasedNode
<1>4. /\ \A k \in 1 .. m : r[k] # Static => r[k].for \in {"string", "value"}
      /\ r[m + 1].for \in {"args", "argv"}
      /\ r[m + 2] # Static => r[m + 2].for = "node"
      /\ \A k, l \in 1 .. m : k # l /\ r[k] = r[l] => r[k] = Static
  BY <1>1, <1>3 DEF Owns
<1>5. i \in 1 .. m + 2 /\ j \in 1 .. m + 2 /\ i # j /\ r[i] = r[j]
  BY <1>2, <1>3
<1>6. ASSUME r[i] # Static PROVE FALSE
  <2>1. \A k \in 1 .. m + 2 : k \in 1 .. m \/ k = m + 1 \/ k = m + 2
    OBVIOUS
  <2>2. i \in 1 .. m <=> r[i].for \in {"string", "value"}
    BY <1>4, <1>5, <1>6, <2>1
  <2>3. j \in 1 .. m <=> r[i].for \in {"string", "value"}
    BY <1>4, <1>5, <1>6, <2>1
  <2>4. CASE i \in 1 .. m /\ j \in 1 .. m
    BY <1>4, <1>5, <1>6, <2>4
  <2>5. CASE i \notin 1 .. m /\ j \notin 1 .. m
    <3>1. {i, j} = {m + 1, m + 2}
      BY <1>5, <2>1, <2>5
    <3>2. r[m + 1] = r[m + 2] /\ r[m + 2] # Static
      BY <1>5, <1>6, <3>1
    <3> QED BY <1>4, <3>2
  <2> QED BY <2>2, <2>3, <2>4, <2>5
<1> QED BY <1>2, <1>6

\* The places of what is freed of the nodes.
Places == UNION {UNION {{c} \X {s} \X DOMAIN ReleasedOf(nodes[c][s]) : s \in DOMAIN nodes[c]} :
                   c \in DOMAIN nodes}

LEMMA PlacesAre ==
  ASSUME NEW p
  PROVE  p \in Places <=> \E c \in DOMAIN nodes : \E s \in DOMAIN nodes[c] :
                            \E k \in DOMAIN ReleasedOf(nodes[c][s]) : p = <<c, s, k>>
<1>1. p \in Places <=> \E c \in DOMAIN nodes : \E s \in DOMAIN nodes[c] :
                         p \in {c} \X {s} \X DOMAIN ReleasedOf(nodes[c][s])
  BY DEF Places
<1>2. ASSUME NEW c, NEW s, NEW K
      PROVE  p \in {c} \X {s} \X K <=> \E k \in K : p = <<c, s, k>>
  OBVIOUS
<1> QED BY <1>1, <1>2

LEMMA ReleasedAre ==
  ASSUME TypeOK, NodesInv
  PROVE  ~Twice(Released) /\ \A b : b \in ToSet(Released) <=> InNodes(b)
<1>1. PICK f : f = Released
  OBVIOUS
<1>2. f = [p \in Places |-> ReleasedOf(nodes[p[1]][p[2]])[p[3]]]
  BY <1>1 DEF Released, Places
<1>3. \A c, s, k : <<c, s, k>> \in Places => f[<<c, s, k>>] = ReleasedOf(nodes[c][s])[k]
  BY <1>2
<1>4. ASSUME NEW b PROVE b \in ToSet(f) <=> InNodes(b)
  <2>1. b \in ToSet(f) <=> \E p \in Places : b = f[p]
    BY <1>2 DEF ToSet
  <2>2. ASSUME NEW c \in DOMAIN nodes, NEW s \in DOMAIN nodes[c]
        PROVE  OfNode(b, nodes[c][s]) <=> \E k \in DOMAIN ReleasedOf(nodes[c][s]) : b = f[<<c, s, k>>]
    <3>1. OfNode(b, nodes[c][s]) <=> b \in ToSet(ReleasedOf(nodes[c][s]))
      BY NodeTypes, ReleasedNode
    <3>2. b \in ToSet(ReleasedOf(nodes[c][s]))
            <=> \E k \in DOMAIN ReleasedOf(nodes[c][s]) : b = ReleasedOf(nodes[c][s])[k]
      BY DEF ToSet
    <3>3. \A k \in DOMAIN ReleasedOf(nodes[c][s]) : f[<<c, s, k>>] = ReleasedOf(nodes[c][s])[k]
      BY <1>3, PlacesAre
    <3> QED BY <3>1, <3>2, <3>3
  <2>3. ASSUME b \in ToSet(f) PROVE InNodes(b)
    <3>1. PICK p \in Places : b = f[p]
      BY <2>1, <2>3
    <3>2. PICK c \in DOMAIN nodes : \E s \in DOMAIN nodes[c] :
                 \E k \in DOMAIN ReleasedOf(nodes[c][s]) : p = <<c, s, k>>
      BY PlacesAre
    <3>3. PICK s \in DOMAIN nodes[c] : \E k \in DOMAIN ReleasedOf(nodes[c][s]) : p = <<c, s, k>>
      BY <3>2
    <3>4. OfNode(b, nodes[c][s])
      BY <2>2, <3>1, <3>3
    <3> QED BY <3>4 DEF InNodes
  <2>4. ASSUME InNodes(b) PROVE b \in ToSet(f)
    <3>1. PICK c \in DOMAIN nodes : \E s \in DOMAIN nodes[c] : OfNode(b, nodes[c][s])
      BY <2>4 DEF InNodes
    <3>2. PICK s \in DOMAIN nodes[c] : OfNode(b, nodes[c][s])
      BY <3>1
    <3>3. PICK k \in DOMAIN ReleasedOf(nodes[c][s]) : b = f[<<c, s, k>>]
      BY <2>2, <3>2
    <3>4. PICK p : p = <<c, s, k>>
      OBVIOUS
    <3>5. p \in Places
      BY <3>4, PlacesAre
    <3> QED BY <2>1, <3>3, <3>4, <3>5
  <2> QED BY <2>3, <2>4
<1>5. ~Twice(f)
  <2>1. ASSUME NEW p \in Places, NEW q \in Places, f[p] = f[q], f[p] # Static PROVE p = q
    <3>1. PICK c \in DOMAIN nodes : \E s \in DOMAIN nodes[c] :
                 \E k \in DOMAIN ReleasedOf(nodes[c][s]) : p = <<c, s, k>>
      BY PlacesAre
    <3>2. PICK s \in DOMAIN nodes[c] : \E k \in DOMAIN ReleasedOf(nodes[c][s]) : p = <<c, s, k>>
      BY <3>1
    <3>3. PICK k \in DOMAIN ReleasedOf(nodes[c][s]) : p = <<c, s, k>>
      BY <3>2
    <3>4. PICK d \in DOMAIN nodes : \E t \in DOMAIN nodes[d] :
                 \E l \in DOMAIN ReleasedOf(nodes[d][t]) : q = <<d, t, l>>
      BY PlacesAre
    <3>5. PICK t \in DOMAIN nodes[d] : \E l \in DOMAIN ReleasedOf(nodes[d][t]) : q = <<d, t, l>>
      BY <3>4
    <3>6. PICK l \in DOMAIN ReleasedOf(nodes[d][t]) : q = <<d, t, l>>
      BY <3>5
    <3>7. PICK b : b = f[p]
      OBVIOUS
    <3>8. b = ReleasedOf(nodes[c][s])[k] /\ b = ReleasedOf(nodes[d][t])[l] /\ b # Static
      BY <1>3, <2>1, <3>3, <3>6, <3>7
    <3>9. OfNode(b, nodes[c][s]) /\ OfNode(b, nodes[d][t])
      <4>1. b \in ToSet(ReleasedOf(nodes[c][s])) /\ b \in ToSet(ReleasedOf(nodes[d][t]))
        BY <3>8 DEF ToSet
      <4> QED BY <4>1, NodeTypes, ReleasedNode
    <3>10. c = d /\ s = t
      BY <3>8, <3>9, NodeBlocks, OfOneNode
    <3>11. PICK n : n = nodes[c][s]
      OBVIOUS
    <3>12. n \in NodeType /\ Owns(n, c, s)
      BY <3>11, NodeTypes, NodeOwns
    <3>13. k = l
      BY <3>8, <3>10, <3>11, <3>12, ReleasedOnce
    <3> QED BY <3>3, <3>6, <3>10, <3>13
  <2> QED BY <1>2, <2>1 DEF Twice
<1> QED BY <1>1, <1>4, <1>5

LEMMA ReleaseInv == ASSUME IInv, Release PROVE IInv'
<1>1. TypeOK /\ NodesInv /\ HistoryInv /\ MarkInv /\ ErrorInv /\ misused = FALSE /\ Accounts
  BY DEF IInv, TypeOK
<1>2. /\ pc = "releasing" /\ pc' = "remembering" /\ Memory({}, {}, Released) /\ nodes' = <<>>
      /\ UNCHANGED <<line, error, command, stage, result, contextVars, last_typed_commands, directory, turn>>
  BY DEF Release
<1>3. PICK gone : gone = ToSet(Released) \ {Static}
  OBVIOUS
<1>4. \A b : b \in gone <=> b # Static /\ InNodes(b)
  BY <1>1, <1>3, ReleasedAre
<1>5. misused' = FALSE /\ heap' = heap \ gone
  <2>1. ToSet(Released) \subseteq heap \cup {Static}
    <3>1. ASSUME NEW b \in ToSet(Released) PROVE b \in heap \cup {Static}
      <4>1. Held(b)
        BY <1>1, ReleasedAre DEF Held
      <4> QED BY <4>1, HeldIsLive
    <3> QED BY <3>1
  <2>2. ~Twice(Released)
    BY <1>1, ReleasedAre
  <2>3. PICK f : f = Released
    OBVIOUS
  <2>4. misused' = FALSE /\ heap' = (heap \cup {}) \ (ToSet(f) \ {Static})
    BY <1>1, <1>2, <2>1, <2>2, <2>3, MemoryStep
  <2> QED BY <1>3, <2>3, <2>4
<1>6. TypeOK'
  <2>1. heap' \subseteq Blocks /\ nodes' \in Seq(Seq(NodeType))
    BY <1>1, <1>2, <1>5 DEF TypeOK
  <2> QED BY <1>1, <1>2, <1>5, <2>1 DEF TypeOK, contextVars, Executing
<1>7. NodesInv'
  BY <1>2 DEF NodesInv, Executing
<1>8. HistoryInv'
  BY <1>1, <1>2, HistoryKept
<1>9. MarkInv'
  BY <1>1, <1>2 DEF MarkInv, contextVars, Executing
<1>e. ErrorInv'
  BY <1>1, <1>2, ErrorKept
<1>10. Accounts'
  <2>1. \A b : ~InNodes(b)'
    BY <1>2 DEF InNodes
  <2>2. ~HasParams /\ ~HasParams' /\ pc # "reporting" /\ pc' # "reporting" /\ UNCHANGED <<last_typed_commands, input_mark>>
    BY <1>2 DEF HasParams, contextVars
  <2>3. \A b : Held(b) <=> \/ b = input_mark \/ InNodes(b)
                           \/ \E i \in DOMAIN last_typed_commands.data : b = last_typed_commands.data[i]
    BY <2>2 DEF Held
  <2>4. \A b : Held(b)' <=> \/ b = input_mark
                            \/ \E i \in DOMAIN last_typed_commands.data : b = last_typed_commands.data[i]
    BY <2>1, <2>2 DEF Held
  <2>5. ASSUME NEW b, b # Static, Held(b)' PROVE Held(b) /\ b \notin gone
    BY <1>4, <2>3, <2>4, <2>5, HeldIsFor
  <2>6. ASSUME NEW b, b # Static, Held(b), b \notin gone PROVE Held(b)'
    BY <1>4, <2>3, <2>4, <2>6
  <2>7. TheLine' = TheLine /\ TheLine \in heap /\ TheLine \notin gone
    <3>1. TheLine.for = "line"
      BY DEF TheLine, Block
    <3>2. \A b \in gone : b.for \in {"string", "value", "args", "argv", "node"}
      BY <1>4, HeldIsFor
    <3>3. TheLine' = TheLine /\ TheLine \in heap
      BY <1>1, <1>2 DEF TheLine, Block, Accounts
    <3> QED BY <3>1, <3>2, <3>3
  <2>8. Changes({}, gone)
    BY <1>2, <1>5, <2>5, <2>6, <2>7 DEF Changes
  <2> QED BY <1>1, <1>2, <1>6, <1>e, <2>8, AccountsKept
<1> QED BY <1>5, <1>6, <1>7, <1>8, <1>9, <1>10, <1>e DEF IInv

\* The lines of the history, from the oldest on, are of other turns.
LEMMA RememberInv == ASSUME IInv, Remember PROVE IInv'
<1>1. TypeOK /\ NodesInv /\ HistoryInv /\ MarkInv /\ ErrorInv /\ misused = FALSE /\ Accounts
  BY DEF IInv, TypeOK
<1>2. PICK kept, list, drop : kept = Block("history", <<>>) /\ list = Push(last_typed_commands, kept)
                              /\ drop = TooMany(list)
  OBVIOUS
<1>3. PICK f : f = <<TheLine>> \o IF drop THEN <<list.data[1]>> ELSE <<>>
  OBVIOUS
<1>4. /\ pc = "remembering" /\ pc' = "prompt"
      /\ last_typed_commands' = IF drop THEN PopAt(list, 0) ELSE list
      /\ Memory({kept}, {TheLine} \cup PastEnd(list), f)
      /\ error' = Static
      /\ UNCHANGED <<line, nodes, command, stage, result, contextVars, directory, turn>>
  BY <1>2, <1>3 DEF Remember
<1>5. /\ kept \in Blocks /\ kept # Static /\ kept.for = "history" /\ kept.turn = turn
      /\ turn \in Nat
  <2>1. "history" \in Purposes
    BY DEF Purposes
  <2>2. kept \in Blocks
    <3>1. <<>> \in Seq(Nat)
      OBVIOUS
    <3> QED BY <1>1, <1>2, <2>1, <3>1, BlockType
  <2>3. kept.for = "history" /\ kept.turn = turn
    BY <1>2 DEF Block
  <2> QED BY <1>1, <2>2, <2>3, BlockIsNotStatic DEF TypeOK
<1>0. PICK data : data = last_typed_commands.data
  OBVIOUS
<1>6. PICK n \in Nat : data = last_typed_commands.data /\ n = Len(data)
  <2>1. data \in Seq(Blocks)
    BY <1>0, <1>1 DEF TypeOK
  <2> QED BY <1>0, <2>1
<1>7. /\ data \in Seq(Blocks) /\ DOMAIN data = 1 .. n /\ n <= MaxHistory
      /\ last_typed_commands \in ListOf(Blocks) /\ Fits(last_typed_commands)
      /\ \A i \in 1 .. n : data[i].for = "history" /\ data[i].turn < turn
      /\ \A i, j \in 1 .. n : i < j => data[i].turn < data[j].turn
      /\ n \in Nat
  <2>1. /\ last_typed_commands \in [size : Nat, data : Seq(Blocks), overrun : BOOLEAN]
        /\ n <= MaxHistory
    BY <1>1, <1>6 DEF TypeOK
  <2>2. data \in Seq(Blocks) /\ n \in Nat /\ DOMAIN data = 1 .. n
    BY <1>6, <2>1
  <2>3. last_typed_commands \in ListOf(Blocks)
    BY <2>1 DEF ListOf
  <2>4. Fits(last_typed_commands)
    BY <1>1 DEF HistoryInv, Fits
  <2>5. \A i \in 1 .. n : data[i].for = "history" /\ data[i].turn < turn
    BY <1>1, <1>4, <1>6, <2>2 DEF HistoryInv
  <2>6. \A i, j \in 1 .. n : i < j => data[i].turn < data[j].turn
    BY <1>1, <1>6, <2>2 DEF HistoryInv
  <2> QED BY <2>1, <2>2, <2>3, <2>4, <2>5, <2>6
<1>8. /\ list \in ListOf(Blocks) /\ Fits(list) /\ list.data = data \o <<kept>>
  BY <1>2, <1>5, <1>6, <1>7, PushFits
<1>9. PICK d : d = list.data
  OBVIOUS
<1>10. /\ d \in Seq(Blocks) /\ Len(d) = n + 1 /\ DOMAIN d = 1 .. n + 1
       /\ \A i \in 1 .. n : d[i] = data[i]
       /\ d[n + 1] = kept
  BY <1>5, <1>6, <1>7, <1>8, <1>9
<1>11. /\ \A i \in 1 .. n + 1 : d[i].for = "history" /\ d[i].turn <= turn /\ d[i].turn \in Nat
       /\ \A i, j \in 1 .. n + 1 : i < j => d[i].turn < d[j].turn
  <2>1. \A i \in 1 .. n + 1 : i \in 1 .. n \/ i = n + 1
    OBVIOUS
  <2>2. ASSUME NEW i \in 1 .. n + 1
        PROVE  d[i].for = "history" /\ d[i].turn <= turn /\ d[i].turn \in Nat
    <3>1. d[i] \in Blocks
      BY <1>10
    <3>2. d[i].turn \in Nat
      BY <3>1 DEF Blocks
    <3> QED BY <1>5, <1>7, <1>10, <2>1, <3>2
  <2>3. ASSUME NEW i \in 1 .. n + 1, NEW j \in 1 .. n + 1, i < j PROVE d[i].turn < d[j].turn
    <3>1. i \in 1 .. n
      BY <2>3
    <3> QED BY <1>5, <1>7, <1>10, <2>1, <2>3, <3>1
  <2> QED BY <2>2, <2>3
<1>12. PICK first : first = d[1]
  OBVIOUS
<1>13. PICK gone : gone = {TheLine} \cup IF drop THEN {first} ELSE {}
  OBVIOUS
<1>14. TheLine \in heap /\ TheLine.for = "line" /\ TheLine # Static
  <2>1. TheLine \in heap /\ heap \subseteq Blocks
    BY <1>1, <1>4 DEF Accounts, TypeOK
  <2>2. TheLine.for = "line"
    BY DEF TheLine, Block
  <2> QED BY <2>1, <2>2, BlockIsNotStatic
<1>15. \A i \in 1 .. n + 1 : d[i] \in heap \cup {kept} /\ d[i] # Static /\ d[i] # TheLine
  <2>1. ASSUME NEW i \in 1 .. n + 1
        PROVE d[i] \in heap \cup {kept} /\ d[i] # Static /\ d[i] # TheLine
    <3>1. d[i] \in Blocks
      BY <1>10
    <3>2. CASE i = n + 1
      BY <1>5, <1>10, <1>14, <3>2
    <3>3. CASE i \in 1 .. n
      <4>1. Held(d[i])
        BY <1>6, <1>7, <1>10, <3>3 DEF Held
      <4> QED BY <1>11, <1>14, <3>1, <4>1, HeldIsLive, BlockIsNotStatic
    <3> QED BY <3>2, <3>3
  <2> QED BY <2>1
<1>16. misused' = FALSE /\ heap' = (heap \cup {kept}) \ gone
  <2>1. 1 \in 1 .. n + 1 /\ list.data[1] = first
    BY <1>9, <1>12
  <2>2. f = IF drop THEN <<TheLine, first>> ELSE <<TheLine>>
    BY <1>3, <2>1
  <2>3. ToSet(f) = gone
    <3>1. CASE drop
      <4>1. f = <<TheLine, first>> /\ gone = {TheLine, first}
        BY <1>13, <2>2, <3>1
      <4> QED BY <4>1 DEF ToSet
    <3>2. CASE ~drop
      <4>1. f = <<TheLine>> /\ gone = {TheLine}
        BY <1>13, <2>2, <3>2
      <4> QED BY <4>1 DEF ToSet
    <3> QED BY <3>1, <3>2
  <2>4. first # TheLine /\ first # Static /\ first \in heap \cup {kept}
    BY <1>12, <1>15, <2>1
  <2>5. ~Twice(f)
    BY <2>2, <2>4 DEF Twice
  <2>6. PICK u, a : u = {TheLine} \cup PastEnd(list) /\ a = {kept}
    OBVIOUS
  <2>7. u = {TheLine}
    BY <1>8, <2>6 DEF PastEnd, Fits
  <2>8. gone \subseteq heap \cup {kept}
    BY <1>13, <1>14, <2>4
  <2>9. misused' = FALSE /\ heap' = (heap \cup a) \ (ToSet(f) \ {Static})
    <3>1. Memory(a, u, f)
      BY <1>4, <2>6
    <3>2. u \subseteq heap \cup a \cup {Static}
      BY <1>14, <2>7
    <3>3. ToSet(f) \subseteq heap \cup a \cup {Static}
      BY <2>3, <2>6, <2>8
    <3> QED BY <1>1, <2>5, <3>1, <3>2, <3>3, MemoryStep
  <2>10. Static \notin gone
    BY <1>13, <1>14, <2>4
  <2> QED BY <2>3, <2>6, <2>9, <2>10
\* What is left on the list is d from its element off on.
<1>17. PICK off \in {0, 1} : off = IF drop THEN 1 ELSE 0
  OBVIOUS
<1>18. PICK e : e = last_typed_commands'.data
  OBVIOUS
<1>19. /\ last_typed_commands' \in ListOf(Blocks) /\ Fits(last_typed_commands')
       /\ Len(e) = n + 1 - off /\ n + 1 - off <= MaxHistory
       /\ \A k \in 1 .. n + 1 - off : e[k] = d[k + off]
  <2>1. CASE drop
    <3>1. list.data # <<>>
      BY <1>9, <1>10
    <3>2. last_typed_commands' = PopAt(list, 0)
      BY <1>4, <2>1
    <3>3. PICK p : p = PopAt(list, 0)
      OBVIOUS
    <3>4. /\ p \in ListOf(Blocks) /\ Fits(p) /\ Len(p.data) = Len(list.data) - 1
          /\ \A k \in 1 .. Len(list.data) - 1 : p.data[k] = list.data[k + 1]
      BY <1>8, <3>1, <3>3, PopFirst
    <3>5. n + 1 - off = n /\ Len(list.data) - 1 = n
      BY <1>9, <1>10, <1>17, <2>1
    <3> QED BY <1>7, <1>9, <1>17, <1>18, <2>1, <3>2, <3>3, <3>4, <3>5
  <2>2. CASE ~drop
    <3>1. last_typed_commands' = list /\ off = 0 /\ e = d
      BY <1>4, <1>9, <1>17, <1>18, <2>2
    <3>2. n + 1 <= MaxHistory
      <4>1. ~TooMany(list)
        BY <1>2, <2>2
      <4>2. Len(list.data) = n + 1 /\ MaxHistory \in Nat /\ n \in Nat
        BY <1>7, <1>9, <1>10, ShellLoopAssumption
      <4> QED BY <4>1, <4>2 DEF TooMany
    <3> QED BY <1>8, <1>10, <3>1, <3>2
  <2> QED BY <2>1, <2>2
<1>20. e \in Seq(Blocks) /\ DOMAIN e = 1 .. n + 1 - off
  BY <1>18, <1>19 DEF ListOf
<1>21. nodes = <<>> /\ nodes' = <<>> /\ ~HasParams /\ ~HasParams' /\ pc # "reporting" /\ pc' # "reporting"
  BY <1>1, <1>4 DEF NodesInv, HasParams, nodeVars
<1>22. TypeOK'
  <2>1. heap' \subseteq Blocks
    BY <1>1, <1>5, <1>16 DEF TypeOK
  <2>2. last_typed_commands' \in [size : Nat, data : Seq(Blocks), overrun : BOOLEAN]
        /\ Len(last_typed_commands'.data) <= MaxHistory
    BY <1>18, <1>19 DEF ListOf
  <2>3. error' \in MaybeBlock
    BY <1>4 DEF MaybeBlock
  <2> QED BY <1>1, <1>4, <1>16, <2>1, <2>2, <2>3 DEF TypeOK, contextVars, Executing
<1>23. NodesInv'
  BY <1>4, <1>21 DEF NodesInv, Executing
<1>24. HistoryInv'
  <2>1. ~last_typed_commands'.overrun /\ Len(e) <= last_typed_commands'.size
    BY <1>18, <1>19 DEF Fits
  <2>2. ASSUME NEW i \in 1 .. n + 1 - off PROVE e[i].for = "history" /\ (e[i].turn < turn \/ e[i].turn = turn)
    <3>1. i + off \in 1 .. n + 1 /\ e[i] = d[i + off]
      BY <1>19
    <3> QED BY <1>5, <1>11, <3>1
  <2>3. ASSUME NEW i \in 1 .. n + 1 - off, NEW j \in 1 .. n + 1 - off, i < j
        PROVE  e[i].turn < e[j].turn
    <3>1. i + off \in 1 .. n + 1 /\ j + off \in 1 .. n + 1 /\ i + off < j + off
          /\ e[i] = d[i + off] /\ e[j] = d[j + off]
      BY <1>19, <2>3
    <3> QED BY <1>11, <3>1
  <2> QED BY <1>4, <1>18, <1>20, <2>1, <2>2, <2>3 DEF HistoryInv
<1>25. MarkInv'
  BY <1>1, <1>4 DEF MarkInv, contextVars, Executing
<1>e. ErrorInv'
  BY <1>1, <1>4, ErrorKept
<1>26. Accounts'
  <2>1. \A b : Held(b) <=> b = input_mark \/ \E i \in 1 .. n : b = d[i]
    BY <1>6, <1>7, <1>10, <1>21 DEF Held, InNodes
  <2>2. \A b : Held(b)' <=> b = input_mark \/ \E i \in 1 .. n + 1 - off : b = d[i + off]
    <3>1. \A b : ~InNodes(b)'
      BY <1>21 DEF InNodes
    <3>2. \A b : Held(b)' <=> b = input_mark \/ \E i \in 1 .. n + 1 - off : b = e[i]
      BY <1>4, <1>18, <1>20, <1>21, <3>1 DEF Held, contextVars
    <3> QED BY <1>19, <3>2
  <2>3. input_mark # Static => input_mark.for = "mark"
    BY <1>1 DEF MarkInv
  <2>4. ASSUME NEW b, b # Static, Held(b)' PROVE (Held(b) \/ b \in {kept}) /\ b \notin gone
    <3>1. CASE b = input_mark
      <4>1. first.for = "history"
        BY <1>11, <1>12
      <4> QED BY <1>13, <1>14, <2>1, <2>3, <2>4, <3>1, <4>1
    <3>2. CASE \E i \in 1 .. n + 1 - off : b = d[i + off]
      <4>1. PICK i \in 1 .. n + 1 - off : b = d[i + off]
        BY <3>2
      <4>2. i + off \in 1 .. n + 1 /\ (i + off \in 1 .. n \/ i + off = n + 1)
        OBVIOUS
      <4>3. Held(b) \/ b = kept
        BY <1>10, <2>1, <4>1, <4>2
      <4>4. b # TheLine
        BY <1>15, <4>1, <4>2
      <4>5. drop => b # first
        <5>1. ASSUME drop PROVE 1 < i + off
          BY <1>17, <5>1
        <5>2. drop => first.turn < b.turn /\ first.turn \in Nat
          BY <1>11, <1>12, <4>1, <4>2, <5>1
        <5> QED BY <5>2
      <4> QED BY <1>13, <4>3, <4>4, <4>5
    <3> QED BY <2>2, <2>4, <3>1, <3>2
  <2>5. ASSUME NEW i \in 1 .. n + 1, d[i] \notin gone PROVE Held(d[i])'
    <3>1. i - off \in 1 .. n + 1 - off /\ i = (i - off) + off
      <4>1. drop => i # 1
        BY <1>12, <1>13, <2>5
      <4> QED BY <1>17, <4>1
    <3> QED BY <2>2, <3>1
  <2>6. ASSUME NEW b, b # Static, Held(b), b \notin gone PROVE Held(b)'
    BY <2>1, <2>2, <2>5, <2>6
  <2>7. kept \in gone \/ (kept # Static /\ Held(kept)')
    <3>1. n + 1 \in 1 .. n + 1
      OBVIOUS
    <3> QED BY <1>5, <1>10, <2>5, <3>1
  <2>8. TheLine \in gone
    BY <1>13
  <2>9. Changes({kept}, gone)
    BY <1>4, <1>16, <2>4, <2>6, <2>7, <2>8 DEF Changes
  <2> QED BY <1>1, <1>4, <1>22, <1>e, <2>9, AccountsKept
<1> QED BY <1>16, <1>22, <1>23, <1>24, <1>25, <1>26, <1>e DEF IInv

LEMMA StutterInv == ASSUME IInv, UNCHANGED vars PROVE IInv'
<1>1. /\ pc' = pc /\ line' = line /\ nodes' = nodes /\ command' = command /\ stage' = stage
      /\ result' = result /\ last_status_code' = last_status_code
      /\ exit_requested' = exit_requested /\ colorful' = colorful /\ soundful' = soundful
      /\ input_mark' = input_mark /\ last_typed_commands' = last_typed_commands
      /\ directory' = directory /\ heap' = heap /\ misused' = misused /\ turn' = turn
      /\ error' = error
  BY DEF vars, nodeVars, contextVars
<1>2. TypeOK'
  BY <1>1 DEF IInv, TypeOK
<1>3. NodesInv'
  <2>1. \A c \in DOMAIN nodes : \A s : IsReplaced(c, s)' <=> IsReplaced(c, s)
    BY <1>1 DEF IsReplaced
  <2>2. /\ pc \in Executing => nodes # <<>> /\ line.kind = "parsed"
        /\ pc \in {"prompt", "read", "reporting", "remembering"} => nodes = <<>>
    BY DEF IInv, NodesInv
  <2> QED BY <1>1, <2>1, <2>2, NodesKept DEF IInv
<1>4. HistoryInv'
  BY <1>1 DEF IInv, HistoryInv
<1>5. MarkInv'
  BY <1>1 DEF IInv, MarkInv
<1>e. ErrorInv'
  BY <1>1 DEF IInv, ErrorInv, Error, Block
<1>6. Accounts'
  <2>1. Reachable' = Reachable
    <3>1. \A b : Held(b)' <=> Held(b)
      BY <1>1 DEF Held, HasParams, InNodes, IsParam, Block
    <3>2. \A b : b \in Reachable' <=> b \in Reachable
      BY <1>2, <1>e, <3>1, ReachableIs, ReachableIsNext DEF IInv
    <3> QED BY <3>2
  <2>2. TheLine' = TheLine
    BY <1>1 DEF TheLine, Block
  <2> QED BY <1>1, <2>1, <2>2 DEF IInv, Accounts
<1> QED BY <1>1, <1>2, <1>3, <1>4, <1>5, <1>6, <1>e DEF IInv

LEMMA NextInv == IInv /\ [Next]_vars => IInv'
<1> SUFFICES ASSUME IInv, [Next]_vars PROVE IInv'
  OBVIOUS
<1>1. CASE ReadLine \/ SkipLine \/ Parse \/ ReportError \/ Substitute
  BY <1>1, ReadLineInv, SkipLineInv, ParseInv, ReportErrorInv, SubstituteInv
<1>2. CASE Convert \/ ReportFile \/ Executed
  BY <1>2, ConvertInv, ReportFileInv, ExecutedInv
<1>3. CASE builtin_cd \/ builtin_set \/ builtin_exit \/ builtin_help \/ builtin_history
  BY <1>3, CdInv, SetInv, ExitInv, HelpInv, HistoryShownInv
<1>4. CASE RunPrograms \/ AbortWithoutWord
  BY <1>4, RunProgramsInv, AbortInv
<1>5. CASE Release \/ Remember
  BY <1>5, ReleaseInv, RememberInv
<1>6. CASE Done \/ UNCHANGED vars
  BY <1>6, StutterInv DEF Done
<1> QED BY <1>1, <1>2, <1>3, <1>4, <1>5, <1>6 DEF Next

LEMMA Invariance == Spec => []IInv
BY InitInv, NextInv, PTL DEF Spec

(***************************************************************************)
(* The types: the loop over the commands and over their stages is never    *)
(* beyond them, and the history never longer than it may be.               *)
(***************************************************************************)
THEOREM TypeCorrect == Spec => []TypeOK
<1>1. IInv => TypeOK
  BY DEF IInv
<1> QED BY <1>1, Invariance, PTL

(***************************************************************************)
(* Between two steps the nodes are the ones the parser made or Substitute  *)
(* completed, each with its own blocks; the mark and the history are older *)
(* than what is freed before them; the error is an allocated message only  *)
(* between the parser and its report, and then the last one; and whatever  *)
(* is allocated is reachable, is the line, or is one of the known leaks.   *)
(***************************************************************************)
THEOREM MemoryOwned == Spec => []MemoryInv
<1>1. IInv => MemoryInv
  BY DEF IInv, MemoryInv, Accounts
<1> QED BY <1>1, Invariance, PTL

(***************************************************************************)
(* No memory is used after it was freed, freed twice, or written past its  *)
(* end, no constant among the words and the errors is freed, and what the  *)
(* shell still points to is allocated.                                     *)
(***************************************************************************)
THEOREM MemorySound == Spec => []MemoryIsSound
<1>1. IInv => MemoryIsSound
  BY DEF IInv, MemoryIsSound, Accounts
<1> QED BY <1>1, Invariance, PTL

(***************************************************************************)
(* At the prompt a line that ran has left nothing but its place in the     *)
(* history, the names of its files and those a Tab listed; what is left of *)
(* a line that was refused is its words, its nodes and every message but   *)
(* the last, however many errors were reported.                            *)
(***************************************************************************)
THEOREM LeaksAreKnown == Spec => []OnlyKnownLeaks
<1>1. IInv => OnlyKnownLeaks
  BY DEF IInv, OnlyKnownLeaks, Accounts
<1> QED BY <1>1, Invariance, PTL

------------------------------------------------------------------------------
(* The symbols that are replaced. *)

\* How many texts a word becomes, when "*" becomes n.
Width(words, k, n) == IF words[k].symbol /\ words[k].text = <<"*">> THEN n ELSE 1

LEMMA StartsAre ==
  ASSUME NEW words, Len(words) \in Nat, NEW n \in Nat, NEW start, start = Starts(words, n)
  PROVE  /\ start[1] = 1
         /\ \A k \in 1 .. Len(words) + 1 : start[k] \in Nat
         /\ \A k \in 1 .. Len(words) : start[k + 1] = start[k] + Width(words, k, n)
<1>1. PICK m \in Nat : m = Len(words)
  OBVIOUS
<1>2. PICK w : w = [k \in 1 .. m |-> IF words[k].symbol /\ words[k].text = <<"*">> THEN n ELSE 1]
  OBVIOUS
<1>3. \A k \in 1 .. m : w[k] \in Nat /\ w[k] = Width(words, k, n)
        /\ w[k] = IF words[k].symbol /\ words[k].text = <<"*">> THEN n ELSE 1
  BY <1>2 DEF Width
<1>4. PICK T : T = [k \in 0 .. m |-> Nat]
  OBVIOUS
<1>5. PICK g : g = [k \in 1 .. m |-> [v \in Nat |-> v + w[k]]]
  OBVIOUS
<1>6. T \in [0 .. m -> SUBSET Nat] /\ 1 \in T[0]
  BY <1>4
<1>7. Maps(g, T, m)
  <2>1. ASSUME NEW k \in 1 .. m, NEW v \in T[k - 1] PROVE g[k][v] \in T[k]
    <3>1. v \in Nat /\ T[k] = Nat
      BY <1>4
    <3>2. g[k][v] = v + w[k]
      BY <1>5, <3>1
    <3> QED BY <1>3, <3>1, <3>2
  <2> QED BY <2>1 DEF Maps
<1>8. PICK f \in [0 .. m -> Nat] : Iterates(f, g, 1, T, m)
  BY <1>6, <1>7, IterationExists
<1>9. f[0] = 1 /\ \A k \in 1 .. m : f[k] = f[k - 1] + w[k]
  <2>1. \A k \in 1 .. m : f[k - 1] \in Nat
    OBVIOUS
  <2> QED BY <1>5, <1>8, <2>1 DEF Iterates
<1>10. PICK s : s = [k \in 1 .. m + 1 |-> f[k - 1]]
  OBVIOUS
<1>11. ASSUME NEW k \in 1 .. m + 1
       PROVE  s[k] = IF k = 1 THEN 1
                     ELSE s[k - 1] + (IF words[k - 1].symbol /\ words[k - 1].text = <<"*">> THEN n ELSE 1)
  <2>1. CASE k = 1
    <3>1. k - 1 = 0
      BY <2>1
    <3> QED BY <1>9, <1>10, <2>1, <3>1
  <2>2. CASE k # 1
    <3>1. PICK j : j = k - 1
      OBVIOUS
    <3>2. j \in 1 .. m /\ j \in 1 .. m + 1
      BY <2>2, <3>1
    <3>3. s[k] = f[j] /\ s[j] = f[j - 1] /\ f[j] = f[j - 1] + w[j]
      BY <1>9, <1>10, <3>1, <3>2
    <3>4. w[j] = IF words[j].symbol /\ words[j].text = <<"*">> THEN n ELSE 1
      BY <1>3, <3>2
    <3> QED BY <2>2, <3>1, <3>3, <3>4
  <2> QED BY <2>1, <2>2
<1>12. s = [k \in 1 .. Len(words) + 1 |->
             IF k = 1 THEN 1
             ELSE s[k - 1] + (IF words[k - 1].symbol /\ words[k - 1].text = <<"*">> THEN n ELSE 1)]
  BY <1>1, <1>10, <1>11
<1>13. start = CHOOSE h : h = [k \in 1 .. Len(words) + 1 |->
             IF k = 1 THEN 1
             ELSE h[k - 1] + (IF words[k - 1].symbol /\ words[k - 1].text = <<"*">> THEN n ELSE 1)]
  BY DEF Starts
<1>14. start = [k \in 1 .. m + 1 |->
             IF k = 1 THEN 1
             ELSE start[k - 1] + (IF words[k - 1].symbol /\ words[k - 1].text = <<"*">> THEN n ELSE 1)]
  BY <1>1, <1>12, <1>13
<1>15. start[1] = 1
  <2>1. 1 \in 1 .. m + 1
    OBVIOUS
  <2> QED BY <1>14, <2>1
<1>16. ASSUME NEW k \in 1 .. m PROVE start[k + 1] = start[k] + Width(words, k, n)
  <2>1. PICK j : j = k + 1
    OBVIOUS
  <2>2. j \in 1 .. m + 1 /\ j # 1 /\ j - 1 = k
    BY <2>1
  <2>3. start[j] = start[j - 1] + (IF words[j - 1].symbol /\ words[j - 1].text = <<"*">> THEN n ELSE 1)
    BY <1>14, <2>2
  <2> QED BY <2>1, <2>2, <2>3 DEF Width
<1>17. \A k \in 1 .. m + 1 : start[k] \in Nat
  <2> DEFINE P == {k \in 0 .. m : start[k + 1] \in Nat}
  <2>1. 0 \in P
    BY <1>15
  <2>2. ASSUME NEW k \in 1 .. m, k - 1 \in P PROVE k \in P
    <3>1. start[k] \in Nat /\ start[k + 1] = start[k] + w[k]
      BY <1>3, <1>16, <2>2
    <3> QED BY <1>3, <3>1
  <2>3. \A k \in 0 .. m : k \in P
    <3> HIDE DEF P
    <3>1. m \in Int
      OBVIOUS
    <3> QED BY <2>1, <2>2, <3>1, StepByStep
  <2>4. ASSUME NEW k \in 1 .. m + 1 PROVE start[k] \in Nat
    <3>1. PICK j \in 0 .. m : k = j + 1
      <4>1. k - 1 \in 0 .. m /\ k = (k - 1) + 1
        OBVIOUS
      <4> QED BY <4>1
    <3> QED BY <2>3, <3>1
  <2> QED BY <2>4
<1> QED BY <1>1, <1>15, <1>16, <1>17

LEMMA VisibleIs ==
  ASSUME TypeOK
  PROVE  Visible = TheListed /\ Cardinality(Visible) \in Nat
<1>1. Directories[directory] \subseteq EntryType
  BY ShellLoopAssumption DEF TypeOK
<1>2. \A f \in Directories[directory] :
        f.type # "DT_LNK" /\ ~f.hidden <=> f.type \in {"DT_REG", "DT_DIR"} /\ (FALSE \/ ~f.hidden)
  BY <1>1 DEF EntryType
<1>3. Visible = TheListed
  BY <1>2 DEF Visible, TheListed, Listed
<1> QED BY <1>3, TheListedIsFinite, FS_CardinalityType

\* The arguments are the words the parser found.
Says(args, words) ==
  /\ words \in Seq(Words) /\ Len(words) = Len(args)
  /\ \A k \in 1 .. Len(args) : /\ args[k].text = words[k].text
                               /\ args[k].block = Static <=> words[k].symbol

LEMMA NodeSays ==
  ASSUME IInv, pc = "substituting"
  PROVE  /\ nodes[command][1].args \in Seq(ArgType)
         /\ Says(nodes[command][1].args, line.commands[command][1].args)
<1>1. TypeOK /\ pc \in Executing
  BY DEF IInv, Executing
<1>2. PICK n : n = nodes[command][1]
  OBVIOUS
<1>3. PICK words : words = line.commands[command][1].args
  OBVIOUS
<1>4. n = Node(command, 1) /\ n \in NodeType
  <2>1. ~IsReplaced(command, 1)
    BY <1>1, FirstNode DEF IsReplaced
  <2> QED BY <1>1, <1>2, <2>1, FirstNode DEF NodeInv
<1>5. n.args \in Seq(ArgType)
  BY <1>4 DEF NodeType
<1>7. words \in Seq(Words)
  <2>1. line.commands \in Seq(Seq(StageType))
    BY <1>1, LineTypes DEF LineType
  <2>2. line.commands[command][1] \in StageType
    BY <1>1, <2>1, FirstNode
  <2> QED BY <1>3, <2>2 DEF StageType
<1>6. /\ command \in Nat /\ DOMAIN n.args = DOMAIN words
      /\ \A k \in DOMAIN n.args :
           /\ k \in Nat /\ n.args[k].text = words[k].text
           /\ n.args[k].block = IF words[k].symbol THEN Static ELSE Block("string", <<command, 1, k>>)
  <2>1. command \in Nat
    BY <1>1, FirstNode
  <2>2. n.args = [k \in DOMAIN words |-> Pointer(words[k], <<command, 1, k>>)]
    BY <1>3, <1>4 DEF Node
  <2>3. ASSUME NEW k \in DOMAIN words
        PROVE  /\ k \in Nat /\ n.args[k].text = words[k].text
               /\ n.args[k].block = IF words[k].symbol THEN Static ELSE Block("string", <<command, 1, k>>)
    <3>1. k \in Nat
      BY <1>7
    <3>2. n.args[k] = Pointer(words[k], <<command, 1, k>>)
      BY <2>2
    <3> QED BY <3>1, <3>2 DEF Pointer
  <2> QED BY <2>1, <2>2, <2>3
<1>8. Len(words) = Len(n.args) /\ DOMAIN n.args = 1 .. Len(n.args)
  BY <1>5, <1>6, <1>7
<1>9. ASSUME NEW k \in 1 .. Len(n.args)
      PROVE  n.args[k].block = Static <=> words[k].symbol
  <2>1. <<command, 1, k>> \in Seq(Nat) /\ "string" \in Purposes
    BY <1>6 DEF Purposes
  <2>2. Block("string", <<command, 1, k>>) \in Blocks
    BY <1>1, <2>1, BlockType
  <2>3. Block("string", <<command, 1, k>>) # Static
    BY <2>2, BlockIsNotStatic
  <2>4. words[k].symbol \in BOOLEAN
    <3>1. words[k] \in Words
      BY <1>7, <1>8
    <3> QED BY <3>1 DEF Words
  <2> QED BY <1>6, <1>8, <2>3, <2>4
<1> QED BY <1>2, <1>3, <1>5, <1>6, <1>7, <1>8, <1>9 DEF Says

\* What a word becomes is what it means.
TextsOf(texts, a) ==
  texts \in Seq(Seq(Parts)) /\ Len(texts) = Len(a) /\ \A i \in 1 .. Len(a) : texts[i] = a[i].text

LEMMA WordMeans ==
  ASSUME TypeOK, NEW args \in Seq(ArgType), NEW words, Says(args, words),
         NEW k \in 1 .. Len(args), NEW orders, Ordered(args, orders),
         NEW a, a = Additions(args, k, orders),
         NEW texts, TextsOf(texts, a)
  PROVE  Len(a) = Width(words, k, Cardinality(Visible)) /\ Means(words[k], texts)
<1>1. PICK w : w = words[k]
  OBVIOUS
<1>2. /\ w \in Words /\ args[k].text = w.text /\ (args[k].block = Static <=> w.symbol)
  BY <1>1 DEF Says
<1>3. w.symbol \in BOOLEAN /\ (w.symbol => w.text \in {<<"*">>, <<"$?">>})
  BY <1>2 DEF Words
<1>4. \A t : IsSymbol(args[k], t) <=> w.symbol /\ w.text = t
  BY <1>2, <1>3 DEF IsSymbol
<1>11. k \in Nat /\ k \in DOMAIN args
  OBVIOUS
<1>5. <<"*">> # <<"$?">>
  OBVIOUS
<1>6. Width(words, k, Cardinality(Visible))
        = IF w.symbol /\ w.text = <<"*">> THEN Cardinality(Visible) ELSE 1
  BY <1>1 DEF Width
<1>7. DOMAIN texts = 1 .. Len(a) /\ \A i \in 1 .. Len(a) : texts[i] = a[i].text
  BY DEF TextsOf
<1>12. texts \in Seq(Seq(Parts)) /\ Len(texts) = Len(a)
  BY DEF TextsOf
<1>8. CASE ~w.symbol
  <2>1. a = <<args[k]>>
    BY <1>4, <1>8, WordAdded
  <2>2. Len(a) = 1 /\ texts[1] = w.text
    BY <1>2, <1>7, <2>1
  <2>3. texts = <<w.text>>
    BY <1>12, <2>2
  <2> QED BY <1>1, <1>6, <1>8, <2>2, <2>3 DEF Means
<1>9. CASE w.symbol /\ w.text = <<"*">>
  <2>1. /\ Len(a) = Cardinality(TheListed)
        /\ {a[i].text : i \in 1 .. Len(a)} = TheListed
        /\ \A i, j \in 1 .. Len(a) : i < j => Rank(a[i].text) < Rank(a[j].text)
    <3>1. IsSymbol(args[k], <<"*">>)
      BY <1>4, <1>9
    <3>2. orders[k] \in SetToSeqs(TheListed)
      BY <1>11, <3>1 DEF Ordered
    <3>3. ListsNames(a)
      BY <1>11, <3>1, <3>2, NamesAdded
    <3> QED BY <3>3 DEF ListsNames
  <2>2. ToSet(texts) = {a[i].text : i \in 1 .. Len(a)}
    BY <1>7 DEF ToSet
  <2>3. Sorted(texts)
    BY <1>7, <2>1 DEF Sorted
  <2> QED BY <1>1, <1>6, <1>9, <2>1, <2>2, <2>3, VisibleIs DEF Means
<1>10. CASE w.symbol /\ w.text = <<"$?">>
  <2>1. Len(a) = 1 /\ a[1].text = int_to_cstring(last_status_code)
    <3>1. IsSymbol(args[k], <<"$?">>)
      BY <1>4, <1>10
    <3>2. Len(a) = 1
      BY <1>11, <3>1, StatusAdded
    <3>3. a[1].text = int_to_cstring(last_status_code)
      BY <1>11, <3>1, StatusAdded
    <3> QED BY <3>2, <3>3
  <2>2. Len(texts) = 1 /\ texts[1] = int_to_cstring(last_status_code)
    BY <1>7, <1>12, <2>1
  <2>3. last_status_code \in Int
    BY ShellLoopAssumption DEF TypeOK
  <2>4. NumberOf(texts[1]) = last_status_code /\ (Len(texts[1]) > 1 => texts[1][1] # "0")
    BY <2>2, <2>3, NumberIsWritten
  <2> QED BY <1>1, <1>5, <1>6, <1>10, <2>1, <2>2, <2>4 DEF Means
<1> QED BY <1>3, <1>8, <1>9, <1>10

\* The texts of a word start where the list ended before it.
StartsAfter(start, l, args) == \A k \in 1 .. Len(args) + 1 : start[k] = Len(l[k - 1].data) + 1

LEMMA StartsFollow ==
  ASSUME TypeOK, NEW args \in Seq(ArgType), NEW words, Says(args, words),
         NEW orders, Ordered(args, orders), NEW l, Substitutes(l, args, orders),
         NEW start, start = Starts(words, Cardinality(Visible))
  PROVE  StartsAfter(start, l, args)
<1>1. PICK m \in Nat : m = Len(args)
  OBVIOUS
<1>2. PICK n \in Nat : n = Cardinality(Visible)
  BY VisibleIs
<1>3. Len(words) = m
  BY <1>1 DEF Says
<1>4. start[1] = 1 /\ \A k \in 1 .. m : start[k + 1] = start[k] + Width(words, k, n)
  BY <1>2, <1>3, StartsAre
<1>5. l[0].data = <<>>
  BY SubstitutesGrows
<1> DEFINE P == {k \in 0 .. m : start[k + 1] = Len(l[k].data) + 1}
<1>6. 0 \in P
  <2>1. Len(l[0].data) = 0
    BY <1>5
  <2> QED BY <1>4, <2>1
<1>7. ASSUME NEW k \in 1 .. m, k - 1 \in P PROVE k \in P
  <2>1. PICK a : a = Additions(args, k, orders)
    OBVIOUS
  <2>2. a \in Seq(ArgType)
    BY <1>1, <2>1, AdditionsType
  <2>3. PICK texts : texts = [i \in 1 .. Len(a) |-> a[i].text]
    OBVIOUS
  <2>4. texts \in Seq(Seq(Parts)) /\ Len(texts) = Len(a) /\ \A i \in 1 .. Len(a) : texts[i] = a[i].text
    <3>1. ASSUME NEW i \in 1 .. Len(a) PROVE a[i].text \in Seq(Parts)
      <4>1. a[i] \in ArgType
        BY <2>2
      <4> QED BY <4>1 DEF ArgType
    <3> QED BY <2>2, <2>3, <3>1
  <2>5. Len(a) = Width(words, k, n)
    <3>1. TextsOf(texts, a)
      BY <2>4 DEF TextsOf
    <3> QED BY <1>1, <1>2, <2>1, <3>1, WordMeans
  <2>6. l[k].data = l[k - 1].data \o a /\ l[k - 1].data \in Seq(ArgType)
    <3>1. k - 1 \in 0 .. m
      OBVIOUS
    <3> QED BY <1>1, <2>1, <3>1, SubstitutesGrows DEF ListOf
  <2>7. Len(l[k].data) = Len(l[k - 1].data) + Len(a) /\ Len(l[k - 1].data) \in Nat /\ Len(a) \in Nat
    BY <2>2, <2>6
  <2>8. start[k] = Len(l[k - 1].data) + 1
    <3>1. k - 1 + 1 = k
      OBVIOUS
    <3> QED BY <1>7, <3>1
  <2>9. start[k + 1] = Len(l[k].data) + 1
    <3>1. start[k + 1] = start[k] + Len(a)
      BY <1>4, <2>5
    <3>2. PICK x, y : x = Len(l[k - 1].data) /\ y = Len(a)
      OBVIOUS
    <3>3. x \in Nat /\ y \in Nat /\ start[k + 1] = x + 1 + y /\ Len(l[k].data) = x + y
      BY <2>7, <2>8, <3>1, <3>2
    <3> QED BY <3>3
  <2> QED BY <2>9
<1>8. \A k \in 0 .. m : k \in P
  <2> HIDE DEF P
  <2>1. m \in Int
    OBVIOUS
  <2> QED BY <1>6, <1>7, <2>1, StepByStep
<1>9. ASSUME NEW k \in 1 .. m + 1 PROVE start[k] = Len(l[k - 1].data) + 1
  <2>1. k - 1 \in 0 .. m /\ k - 1 + 1 = k
    OBVIOUS
  <2> QED BY <1>8, <2>1
<1> QED BY <1>1, <1>9 DEF StartsAfter

\* What is in the list stays where it is.
Extends(data, e) == Len(e) <= Len(data) /\ \A i \in 1 .. Len(e) : data[i] = e[i]

LEMMA SubstitutesExtend ==
  ASSUME TypeOK, NEW args \in Seq(ArgType), NEW orders, Ordered(args, orders),
         NEW l, Substitutes(l, args, orders), NEW j \in 0 .. Len(args)
  PROVE  Extends(l[Len(args)].data, l[j].data)
<1>1. PICK m \in Nat : m = Len(args)
  OBVIOUS
<1>2. \A k \in 0 .. m : l[k].data \in Seq(ArgType)
  BY <1>1, SubstitutesGrows DEF ListOf
<1>3. PICK e : e = l[j].data
  OBVIOUS
<1>4. e \in Seq(ArgType) /\ Len(e) \in Nat
  BY <1>1, <1>2, <1>3
<1> DEFINE Kept(k) == Len(e) <= Len(l[k].data) /\ \A i \in 1 .. Len(e) : l[k].data[i] = e[i]
           P == {k \in 0 .. m : k < j \/ Kept(k)}
<1>5. \A k \in 0 .. m : k = j => k \in P
  BY <1>3, <1>4
<1>6. 0 \in P
  BY <1>1, <1>5
<1>7. ASSUME NEW k \in 1 .. m, k - 1 \in P PROVE k \in P
  <2>1. CASE k <= j
    BY <1>1, <1>5, <2>1
  <2>2. CASE j < k
    <3>1. Kept(k - 1)
      <4>1. ~(k - 1 < j)
        BY <1>1, <2>2
      <4> QED BY <1>7, <4>1
    <3>2. PICK a : a = Additions(args, k, orders)
      OBVIOUS
    <3>3. a \in Seq(ArgType) /\ l[k].data = l[k - 1].data \o a
      BY <1>1, <3>2, AdditionsType, SubstitutesGrows
    <3>4. l[k - 1].data \in Seq(ArgType)
      <4>1. k - 1 \in 0 .. m
        OBVIOUS
      <4> QED BY <1>2, <4>1
    <3>5. PICK d : d = l[k - 1].data
      OBVIOUS
    <3>6. /\ Len(l[k].data) = Len(d) + Len(a) /\ Len(d) \in Nat /\ Len(a) \in Nat
          /\ \A i \in 1 .. Len(d) : l[k].data[i] = d[i]
      BY <3>3, <3>4, <3>5, Concatenated
    <3>7. Len(e) <= Len(d) /\ \A i \in 1 .. Len(e) : d[i] = e[i]
      BY <3>1, <3>5
    <3> QED BY <1>4, <3>6, <3>7
  <2> QED BY <1>1, <2>1, <2>2
<1>8. \A k \in 0 .. m : k \in P
  <2> HIDE DEF P
  <2>1. m \in Int
    OBVIOUS
  <2> QED BY <1>6, <1>7, <2>1, StepByStep
<1>9. Kept(m)
  <2>1. m \in 0 .. m /\ ~(m < j)
    BY <1>1
  <2> QED BY <1>8, <2>1
<1> QED BY <1>1, <1>3, <1>9 DEF Extends

\* A part of a list by its place and its length.
LEMMA PartOf ==
  ASSUME NEW S, NEW texts \in Seq(S), NEW p \in Nat, NEW q \in Nat, p + q <= Len(texts),
         NEW part, part = SubSeq(texts, p + 1, p + q)
  PROVE  part \in Seq(S) /\ Len(part) = q /\ \A i \in 1 .. q : part[i] = texts[p + i]
OBVIOUS

\* The texts are those of the words, one word after the other.
AllMean(words, texts, start) ==
  /\ Len(texts) = start[Len(words) + 1] - 1
  /\ \A k \in 1 .. Len(words) : Means(words[k], SubSeq(texts, start[k], start[k + 1] - 1))

LEMMA ArgumentsMean ==
  ASSUME TypeOK, NEW args \in Seq(ArgType), NEW words, Says(args, words),
         NEW orders, Ordered(args, orders), NEW data, data = Substituted(args, orders).data,
         NEW texts, texts = [k \in DOMAIN data |-> data[k].text],
         NEW start, start = Starts(words, Cardinality(Visible))
  PROVE  AllMean(words, texts, start)
<1>1. PICK m \in Nat : m = Len(args) /\ m = Len(words)
  BY DEF Says
<1>2. PICK l : Substitutes(l, args, orders) /\ data = l[m].data
  BY <1>1, SubstitutedIs
<1>3. data \in Seq(ArgType) /\ DOMAIN data = 1 .. Len(data)
  <2>1. m \in 0 .. m
    OBVIOUS
  <2>2. l[m] \in ListOf(ArgType)
    BY <1>1, <1>2, <2>1, SubstitutesGrows
  <2>3. data \in Seq(ArgType)
    BY <1>2, <2>2 DEF ListOf
  <2> QED BY <2>3
<1>4. texts \in Seq(Seq(Parts)) /\ Len(texts) = Len(data) /\ \A i \in 1 .. Len(data) : texts[i] = data[i].text
  <2>1. ASSUME NEW i \in 1 .. Len(data) PROVE data[i].text \in Seq(Parts)
    <3>1. data[i] \in ArgType
      BY <1>3
    <3> QED BY <3>1 DEF ArgType
  <2> QED BY <1>3, <2>1
<1>5. \A k \in 1 .. m + 1 : start[k] = Len(l[k - 1].data) + 1
  <2>1. StartsAfter(start, l, args)
    BY <1>1, <1>2, StartsFollow
  <2> QED BY <1>1, <2>1 DEF StartsAfter
<1>6. Len(texts) = start[m + 1] - 1
  <2>1. m + 1 \in 1 .. m + 1 /\ m + 1 - 1 = m
    OBVIOUS
  <2> QED BY <1>2, <1>3, <1>4, <1>5, <2>1
<1>7. ASSUME NEW k \in 1 .. m
      PROVE  Means(words[k], SubSeq(texts, start[k], start[k + 1] - 1))
  <2>1. PICK e : e = l[k - 1].data
    OBVIOUS
  <2>2. PICK a : a = Additions(args, k, orders)
    OBVIOUS
  <2>3. a \in Seq(ArgType) /\ l[k].data = e \o a
    BY <1>1, <1>2, <2>1, <2>2, AdditionsType, SubstitutesGrows
  <2>4. e \in Seq(ArgType)
    <3>1. k - 1 \in 0 .. m
      OBVIOUS
    <3> QED BY <1>1, <1>2, <2>1, <3>1, SubstitutesGrows DEF ListOf
  <2>5. PICK p \in Nat, q \in Nat : p = Len(e) /\ q = Len(a)
    BY <2>3, <2>4
  <2>6. Len(l[k].data) = p + q /\ \A i \in 1 .. q : l[k].data[p + i] = a[i]
    BY <2>3, <2>4, <2>5, Concatenated
  <2>7. start[k] = p + 1
    BY <1>5, <2>1, <2>5
  <2>8. start[k + 1] - 1 = p + q
    <3>1. PICK j \in 1 .. m + 1 : j = k + 1
      OBVIOUS
    <3>2. start[j] = Len(l[j - 1].data) + 1 /\ j - 1 = k
      BY <1>5, <3>1
    <3>3. start[k + 1] = p + q + 1
      BY <2>6, <3>1, <3>2
    <3> QED BY <3>3
  <2>9. p + q <= Len(data) /\ \A i \in 1 .. q : data[p + i] = a[i]
    <3>0. k \in 0 .. m
      OBVIOUS
    <3>1. Len(l[k].data) <= Len(data) /\ \A i \in 1 .. Len(l[k].data) : data[i] = l[k].data[i]
      <4>1. Extends(data, l[k].data)
        BY <1>1, <1>2, <3>0, SubstitutesExtend
      <4> QED BY <4>1 DEF Extends
    <3>2. \A i \in 1 .. q : p + i \in 1 .. p + q
      OBVIOUS
    <3> QED BY <2>6, <3>1, <3>2
  <2>10. PICK part : part = SubSeq(texts, p + 1, p + q)
    OBVIOUS
  <2>11. part \in Seq(Seq(Parts)) /\ Len(part) = q /\ \A i \in 1 .. q : part[i] = texts[p + i]
    BY <1>4, <2>9, <2>10, PartOf
  <2>12. \A i \in 1 .. q : part[i] = a[i].text
    <3>1. \A i \in 1 .. q : p + i \in 1 .. Len(data)
      BY <1>3, <2>9
    <3>2. ASSUME NEW i \in 1 .. q PROVE part[i] = a[i].text
      <4>1. PICK x : x = p + i
        OBVIOUS
      <4>2. x \in 1 .. Len(data) /\ part[i] = texts[x] /\ data[x] = a[i]
        BY <2>9, <2>11, <3>1, <4>1
      <4> QED BY <1>4, <4>2
    <3> QED BY <3>2
  <2>13. Means(words[k], part)
    <3>1. TextsOf(part, a)
      BY <2>5, <2>11, <2>12 DEF TextsOf
    <3> QED BY <1>1, <2>2, <3>1, WordMeans
  <2> QED BY <2>7, <2>8, <2>10, <2>13
<1> QED BY <1>1, <1>6, <1>7 DEF AllMean

LEMMA SubstituteMeans == ASSUME IInv, Substitute PROVE SymbolsAreCurrent'
<1>1. TypeOK /\ pc = "substituting" /\ pc \in Executing
  BY DEF IInv, Substitute, Executing
<1>2. /\ line' = line /\ command' = command /\ directory' = directory
      /\ last_status_code' = last_status_code
  BY DEF Substitute, contextVars
<1>3. PICK n, orders, list, array, old : Substituting(n, orders, list, array, old)
  BY SubstituteIs
<1>4. /\ n = nodes[command][1] /\ Ordered(n.args, orders) /\ n \in NodeType
      /\ list = Substituted(n.args, orders)
  BY <1>3 DEF Substituting
<1>5. PICK data : data = list.data
  OBVIOUS
<1>6. nodes'[command][1].args = data
  <2>1. nodes'[command][1] = [n EXCEPT !.args = list.data, !.array = array]
    <3>1. NodesReplaced(n, list, array)
      BY <1>3, SubstitutedNodes
    <3> QED BY <3>1 DEF NodesReplaced
  <2> QED BY <1>4, <1>5, <2>1 DEF NodeType
<1>7. PICK words : words = line.commands[command][1].args
  OBVIOUS
<1>8. PICK texts : texts = [k \in DOMAIN data |-> data[k].text]
  OBVIOUS
<1>9. PICK start : start = Starts(words, Cardinality(Visible))
  OBVIOUS
<1>10. n.args \in Seq(ArgType) /\ Says(n.args, words)
  BY <1>1, <1>4, <1>7, NodeSays
<1>11. /\ Len(texts) = start[Len(words) + 1] - 1
       /\ \A k \in 1 .. Len(words) : Means(words[k], SubSeq(texts, start[k], start[k + 1] - 1))
  <2>1. PICK args : args = n.args
    OBVIOUS
  <2>2. data = Substituted(args, orders).data /\ args \in Seq(ArgType) /\ Says(args, words)
        /\ Ordered(args, orders)
    BY <1>4, <1>5, <1>10, <2>1
  <2>3. AllMean(words, texts, start)
    BY <1>1, <1>8, <1>9, <2>2, ArgumentsMean
  <2> QED BY <2>3 DEF AllMean
<1>12. DOMAIN words = 1 .. Len(words)
  BY <1>10 DEF Says
<1>13. Visible' = Visible
  BY <1>2 DEF Visible
<1>14. \A w, t : Means(w, t) => Means(w, t)'
  BY <1>2, <1>13 DEF Means
<1>15. words = line'.commands[command'][1].args
  BY <1>2, <1>7
<1>16. texts = [k \in DOMAIN nodes'[command'][1].args |-> nodes'[command'][1].args[k].text]
  BY <1>2, <1>6, <1>8
<1>17. start = Starts(words, Cardinality(Visible'))
  BY <1>9, <1>13
<1>18. \A k \in DOMAIN words : Means(words[k], SubSeq(texts, start[k], start[k + 1] - 1))'
  BY <1>11, <1>12, <1>14
<1> QED BY <1>11, <1>15, <1>16, <1>17, <1>18 DEF SymbolsAreCurrent

\* Only Substitute leads to where a command is converted.
LEMMA OthersConvertNothing ==
  ASSUME Next, ~Substitute, pc' = "converting"
  PROVE  UNCHANGED vars
<1>1. ~(ReadLine \/ SkipLine \/ Parse \/ ReportError)
  BY DEF ReadLine, SkipLine, Parse, ReportError
<1>2. ~(Convert \/ ReportFile \/ Executed)
  BY DEF Convert, ReportFile, Executed, NextCommand
<1>3. ASSUME NEW status PROVE ~Builtin(status)
  BY DEF Builtin
<1>4. ~(builtin_cd \/ builtin_exit \/ builtin_help \/ builtin_history)
  BY <1>3 DEF builtin_cd, builtin_exit, builtin_help, builtin_history, PlainBuiltin
<1>5. ~builtin_set
  BY <1>3 DEF builtin_set, SetFlag, SetMark, SetNothing, PlainBuiltin
<1>6. ~(RunPrograms \/ AbortWithoutWord \/ Release \/ Remember)
  BY DEF RunPrograms, AbortWithoutWord, Release, Remember
<1> QED BY <1>1, <1>2, <1>4, <1>5, <1>6 DEF Next, Done

(***************************************************************************)
(* Whatever is typed, wherever cd went and whatever was returned: when a   *)
(* command starts, every "*" among its arguments is the visible files of   *)
(* the directory it starts in, each once and in their order, every "$?"    *)
(* the status of the command before, and every other word is itself.       *)
(***************************************************************************)
THEOREM SymbolsReplaced == Spec => []SymbolsAreCurrent
<1>1. Init => SymbolsAreCurrent
  BY DEF Init, SymbolsAreCurrent
<1>2. SymbolsAreCurrent /\ IInv /\ [Next]_vars => SymbolsAreCurrent'
  <2> SUFFICES ASSUME SymbolsAreCurrent, IInv, [Next]_vars PROVE SymbolsAreCurrent'
    OBVIOUS
  <2>1. CASE Substitute
    BY <2>1, SubstituteMeans
  <2>2. CASE UNCHANGED vars
    <3>1. UNCHANGED <<pc, line, command, nodes, directory, last_status_code>>
      BY <2>2 DEF vars, nodeVars, contextVars
    <3>2. Visible' = Visible
      BY <3>1 DEF Visible
    <3>3. \A w, t : Means(w, t) => Means(w, t)'
      BY <3>1, <3>2 DEF Means
    <3> QED BY <3>1, <3>2, <3>3 DEF SymbolsAreCurrent
  <2>3. CASE Next /\ ~Substitute /\ pc' = "converting"
    BY <2>2, <2>3, OthersConvertNothing
  <2>4. CASE pc' # "converting"
    BY <2>4 DEF SymbolsAreCurrent
  <2> QED BY <2>1, <2>2, <2>3, <2>4
<1> QED BY <1>1, <1>2, Invariance, PTL DEF Spec
==============================================================================
