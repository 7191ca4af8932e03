---------------------------- MODULE LineEditorProofs ----------------------------
(***************************************************************************)
(* Theorems about Buffer.tla and LineEditor.tla, and that LineEditor.tla   *)
(* implements Editing.tla: for any characters, any bytes in the memory,    *)
(* any size of the blocks of the buffer and of the history, and for lines  *)
(* of any length.                                                          *)
(***************************************************************************)
EXTENDS LineEditor, SequenceTheorems, WellFoundedInduction, TLAPS

------------------------------------------------------------------------------
(* The least and the greatest of a set of numbers. *)

LEMMA MinOf ==
  ASSUME NEW S \in SUBSET Nat, S # {}
  PROVE  Min(S) \in S /\ \A n \in S : Min(S) <= n
<1> DEFINE Less == OpToRel(<, Nat)
<1>1. IsWellFoundedOn(Less, Nat)
  BY NatLessThanWellFounded
<1>2. \A m, n \in Nat : m < n => <<m, n>> \in Less
  BY DEF OpToRel
<1> HIDE DEF Less
<1>3. PICK m \in S : \A n \in S : ~(<<n, m>> \in Less)
  BY <1>1, WFMin
<1>4. ASSUME NEW n \in S PROVE m <= n
  <2>1. m \in Nat /\ n \in Nat
    OBVIOUS
  <2>2. ~(n < m)
    BY <1>2, <1>3, <2>1
  <2> QED BY <2>1, <2>2
<1> QED BY <1>4 DEF Min

LEMMA MaxOf ==
  ASSUME NEW n \in Nat, NEW S \in SUBSET (0 .. n), S # {}
  PROVE  Max(S) \in S /\ \A m \in S : m <= Max(S)
<1> DEFINE T == {k \in 0 .. n : n - k \in S}
<1>1. T \in SUBSET Nat /\ T # {}
  <2>1. PICK m \in S : TRUE
    OBVIOUS
  <2>2. m \in 0 .. n /\ n - (n - m) = m /\ n - m \in 0 .. n
    OBVIOUS
  <2> QED BY <2>2
<1>2. PICK t \in T : \A u \in T : t <= u
  BY <1>1, MinOf
<1>3. PICK x \in S : x = n - t
  BY <1>2
<1>4. ASSUME NEW m \in S PROVE m <= x
  <2>1. n - m \in 0 .. n /\ n - (n - m) \in S
    OBVIOUS
  <2>2. t <= n - m
    BY <1>2, <2>1
  <2> QED BY <1>3, <2>2
<1>5. \A m \in S : x >= m
  BY <1>4
<1> QED BY <1>5 DEF Max

------------------------------------------------------------------------------
(* The buffer. *)

\* It holds a line: characters up to index, and index within the allocation.
HoldsLine(b) ==
  /\ b \in Buffers /\ b.index <= MaxText
  /\ \A a \in 0 .. b.index - 1 : b.memory[a] \in Characters

LEMMA Constants ==
  /\ GrouthBy \in Nat /\ GrouthBy > 0 /\ MaxBlocks \in Nat /\ MaxBlocks > 0
  /\ MaxText \in Nat /\ MaxHistory \in Nat /\ MaxHistory > 0
  /\ MaxAddress \in Nat /\ MaxText < MaxAddress
  /\ Characters \subseteq Byte /\ Nul \in Byte /\ Garbage \subseteq Byte
BY BufferAssumption, LineEditorAssumption DEF MaxAddress

\* A size is at least a block and at most the memory, and can grow below that.
LEMMA SizeType ==
  ASSUME NEW s \in Sizes
  PROVE  /\ s \in Nat /\ s >= GrouthBy /\ s <= MaxAddress
         /\ s < MaxAddress => s + GrouthBy \in Sizes
<1>1. PICK n \in 1 .. MaxBlocks : s = GrouthBy * n
  BY DEF Sizes
<1>2. s \in Nat /\ s >= GrouthBy /\ s <= MaxAddress
  BY <1>1, Constants DEF MaxAddress
<1>3. ASSUME s < MaxAddress PROVE s + GrouthBy \in Sizes
  <2>1. n # MaxBlocks
    BY <1>1, <1>3 DEF MaxAddress
  <2>2. n + 1 \in 1 .. MaxBlocks /\ GrouthBy * (n + 1) = s + GrouthBy
    BY <1>1, <2>1, Constants
  <2> QED BY <2>2 DEF Sizes
<1> QED BY <1>2, <1>3

\* The whole memory and one block are sizes.
LEMMA SizeBounds == MaxAddress \in Sizes /\ GrouthBy \in Sizes
<1>1. MaxBlocks \in 1 .. MaxBlocks /\ 1 \in 1 .. MaxBlocks /\ GrouthBy = GrouthBy * 1
  BY Constants
<1> QED BY <1>1 DEF Sizes, MaxAddress

LEMMA EnsureNextHolds ==
  ASSUME NEW b, HoldsLine(b)
  PROVE  /\ HoldsLine(EnsureNext(b))
         /\ EnsureNext(b).index = b.index /\ EnsureNext(b).memory = b.memory
         /\ b.index < EnsureNext(b).buffer_size
<1>1. b.buffer_size \in Sizes /\ b.index \in Nat /\ b.index <= b.buffer_size /\ b \in Buffers
  BY DEF HoldsLine, Buffers
<1>2. b.index < MaxAddress
  BY <1>1, Constants DEF HoldsLine
<1>3. CASE b.index >= b.buffer_size
  <2>1. b.buffer_size \in Nat /\ b.buffer_size + GrouthBy \in Sizes
    BY <1>1, <1>2, <1>3, SizeType
  <2> QED BY <1>1, <1>3, <2>1, Constants DEF EnsureNext, HoldsLine, Buffers
<1>4. CASE ~(b.index >= b.buffer_size)
  BY <1>1, <1>4, SizeType DEF EnsureNext
<1> QED BY <1>3, <1>4

\* Where a line is looked at, character by character.
LEMMA TextAt ==
  ASSUME NEW b, b.index \in Nat
  PROVE  /\ Len(Text(b)) = b.index /\ DOMAIN Text(b) = 1 .. b.index
         /\ \A k \in 1 .. b.index : Text(b)[k] = b.memory[k - 1]
BY DEF Text

LEMMA TextType ==
  ASSUME NEW b, HoldsLine(b)
  PROVE  Text(b) \in Seq(Characters) /\ Text(b) \in Lines /\ Len(Text(b)) = b.index
<1>1. b.index \in Nat /\ \A k \in 1 .. b.index : b.memory[k - 1] \in Characters
  BY DEF HoldsLine, Buffers
<1>2. Text(b) \in Seq(Characters)
  BY <1>1 DEF Text
<1> QED BY <1>1, <1>2, TextAt DEF Lines, HoldsLine

\* Two buffers hold the same line when they agree below the same index.
LEMMA SameText ==
  ASSUME NEW b, NEW c, b.index \in Nat, c.index = b.index,
         \A a \in 0 .. b.index - 1 : c.memory[a] = b.memory[a]
  PROVE  Text(c) = Text(b)
BY DEF Text

LEMMA ViewHolds ==
  ASSUME NEW b, HoldsLine(b)
  PROVE  HoldsLine(View(b)) /\ View(b).index = b.index /\ Text(View(b)) = Text(b)
<1> DEFINE e == EnsureNext(b)
<1>1. HoldsLine(e) /\ e.index = b.index /\ e.memory = b.memory /\ b.index < e.buffer_size
  BY EnsureNextHolds
<1> HIDE DEF e
<1>2. e \in Buffers /\ e.memory \in Memories /\ e.index \in Nat /\ e.buffer_size \in Sizes
  BY <1>1 DEF HoldsLine, Buffers
<1>3. e.index \in Addresses
  BY <1>1, <1>2, Constants DEF Addresses, HoldsLine
<1>4. View(b) = [e EXCEPT !.memory[e.index] = Nul]
  BY DEF View, e
<1>5. /\ View(b).index = e.index /\ View(b).buffer_size = e.buffer_size
      /\ View(b).memory = [e.memory EXCEPT ![e.index] = Nul] /\ View(b) \in Buffers
  BY <1>2, <1>3, <1>4, Constants DEF Buffers, Memories
<1>6. \A a \in 0 .. b.index - 1 : View(b).memory[a] = b.memory[a]
  BY <1>1, <1>2, <1>3, <1>5 DEF Memories, Addresses
<1>7. Text(View(b)) = Text(b)
  BY <1>1, <1>2, <1>5, <1>6, SameText
<1> QED BY <1>1, <1>5, <1>6, <1>7 DEF HoldsLine

\* buffer_push_at puts a character before the i-th one.
LEMMA PushAtHolds ==
  ASSUME NEW b, HoldsLine(b), b.index < MaxText, NEW c \in Characters, NEW i \in 0 .. b.index
  PROVE  /\ HoldsLine(PushAt(b, c, i)) /\ PushAt(b, c, i).index = b.index + 1
         /\ \A a \in 0 .. b.index : PushAt(b, c, i).memory[a] =
              IF a < i THEN b.memory[a] ELSE IF a = i THEN c ELSE b.memory[a - 1]
<1> DEFINE e == EnsureNext(b)
           p == PushAt(b, c, i)
           m == [a \in Addresses |-> CASE a = i -> c
                                       [] a \in i + 1 .. e.index -> e.memory[a - 1]
                                       [] OTHER -> e.memory[a]]
<1>1. HoldsLine(e) /\ e.index = b.index /\ e.memory = b.memory /\ b.index < e.buffer_size
  BY EnsureNextHolds
<1>2. p = [e EXCEPT !.memory = m, !.index = @ + 1]
  BY DEF PushAt
<1> HIDE DEF e, p
<1>3. e \in Buffers /\ e.memory \in Memories /\ e.index \in Nat /\ e.buffer_size \in Sizes
  BY <1>1 DEF HoldsLine, Buffers
<1>4. e.index \in Addresses
  BY <1>1, <1>3, Constants DEF Addresses, HoldsLine
<1>5. ASSUME NEW a \in Addresses
      PROVE  /\ a = i => m[a] = c
             /\ a \in i + 1 .. e.index => m[a] = e.memory[a - 1]
             /\ a \notin i .. e.index => m[a] = e.memory[a]
  BY <1>1, <1>3
<1> HIDE DEF m
<1>6. /\ p.index = e.index + 1 /\ p.buffer_size = e.buffer_size /\ p.memory = m
  BY <1>2, <1>3 DEF Buffers
<1>7. ASSUME NEW a \in 0 .. b.index
      PROVE  m[a] = IF a < i THEN b.memory[a] ELSE IF a = i THEN c ELSE b.memory[a - 1]
  <2>1. a \in Addresses /\ a \in Nat /\ i \in Nat
    BY <1>1, <1>3, <1>4, Constants DEF Addresses
  <2>2. CASE a < i
    BY <1>1, <1>5, <2>1, <2>2
  <2>3. CASE a > i
    <3>1. a \in i + 1 .. e.index
      BY <1>1, <1>3, <2>1, <2>3
    <3> QED BY <1>1, <1>5, <2>1, <2>3, <3>1
  <2>4. CASE a = i
    BY <1>5, <2>1, <2>4
  <2> QED BY <2>1, <2>2, <2>3, <2>4
<1>8. \A a \in 0 .. b.index : m[a] \in Characters
  BY <1>1, <1>3, <1>7 DEF HoldsLine
<1>9. m \in Memories
  <2>1. \A a \in Addresses : m[a] \in Byte
    BY <1>1, <1>3, <1>4, <1>5, Constants DEF Addresses, Memories
  <2>2. m = [a \in Addresses |-> m[a]]
    BY DEF m
  <2> QED BY <2>1, <2>2 DEF Memories
<1>10. p \in Buffers /\ p.index = b.index + 1
  <2>1. p.index = b.index + 1 /\ p.index \in Nat /\ e.buffer_size \in Nat
    BY <1>1, <1>3, <1>6, SizeType
  <2>2. p \in [memory : Memories, buffer_size : Sizes, index : Nat]
    <3>1. p = [memory |-> m, buffer_size |-> e.buffer_size, index |-> e.index + 1]
      BY <1>2, <1>3 DEF Buffers
    <3> QED BY <1>1, <1>3, <1>9, <3>1
  <2>3. p.index <= p.buffer_size
    BY <1>1, <1>3, <1>6, <2>1
  <2> QED BY <2>1, <2>2, <2>3 DEF Buffers
<1> QED BY <1>1, <1>3, <1>6, <1>7, <1>8, <1>10, Constants DEF HoldsLine, p

\* buffer_pop_at removes the i-th character, counted from 0, if there is one.
LEMMA PopAtHolds ==
  ASSUME NEW b, HoldsLine(b), NEW i \in Nat
  PROVE  /\ HoldsLine(PopAt(b, i))
         /\ PopAt(b, i).index = IF i < b.index THEN b.index - 1 ELSE b.index
         /\ i < b.index => \A a \in 0 .. b.index - 2 :
              PopAt(b, i).memory[a] = IF a < i THEN b.memory[a] ELSE b.memory[a + 1]
         /\ i >= b.index => PopAt(b, i) = b
<1>1. b \in Buffers /\ b.memory \in Memories /\ b.index \in Nat /\ b.buffer_size \in Sizes
      /\ b.index <= b.buffer_size /\ b.index <= MaxText
  BY DEF HoldsLine, Buffers
<1>2. CASE i >= b.index
  BY <1>1, <1>2 DEF PopAt
<1>3. CASE i < b.index
  <2> DEFINE p == PopAt(b, i)
             m == [a \in Addresses |->
                     IF a \in i .. b.index - 2 THEN b.memory[a + 1] ELSE b.memory[a]]
  <2>1. p = [memory |-> m, buffer_size |-> b.buffer_size, index |-> b.index - 1]
    BY <1>1, <1>3 DEF PopAt, Buffers
  <2> HIDE DEF p
  <2>2. ASSUME NEW a \in 0 .. b.index - 2
        PROVE  m[a] = IF a < i THEN b.memory[a] ELSE b.memory[a + 1]
    <3>1. a \in Addresses
      BY <1>1, Constants DEF Addresses
    <3> QED BY <1>1, <1>3, <3>1
  <2>3. \A a \in 0 .. b.index - 2 : m[a] \in Characters
    <3> HIDE DEF m
    <3>1. \A a \in 0 .. b.index - 1 : b.memory[a] \in Characters
      BY DEF HoldsLine
    <3> QED BY <1>1, <2>2, <3>1
  <2>4. m \in Memories
    <3>1. ASSUME NEW a \in Addresses PROVE m[a] \in Byte
      <4>1. CASE a \in i .. b.index - 2
        <5>1. a + 1 \in Addresses
          BY <1>1, <4>1, Constants DEF Addresses
        <5> QED BY <1>1, <4>1, <5>1 DEF Memories
      <4>2. CASE a \notin i .. b.index - 2
        BY <1>1, <4>2 DEF Memories
      <4> QED BY <4>1, <4>2
    <3> QED BY <3>1 DEF Memories
  <2> HIDE DEF m
  <2>5. b.index - 1 \in Nat /\ b.index - 1 <= b.buffer_size /\ b.buffer_size \in Nat
    BY <1>1, <1>3, SizeType
  <2>6. p \in Buffers
    BY <1>1, <2>1, <2>4, <2>5 DEF Buffers
  <2>7. HoldsLine(p)
    BY <1>1, <2>1, <2>3, <2>5, <2>6, Constants DEF HoldsLine
  <2> QED BY <1>1, <1>3, <2>1, <2>2, <2>7 DEF p
<1> QED BY <1>1, <1>2, <1>3

\* The least size that is enough, if one is.
LEMMA EnsureNextNHolds ==
  ASSUME NEW b, HoldsLine(b), NEW n \in Nat, b.index + n <= MaxText
  PROVE  /\ EnsureNextN(b, n) \in Buffers
         /\ EnsureNextN(b, n).index = b.index /\ EnsureNextN(b, n).memory = b.memory
         /\ b.index + n <= EnsureNextN(b, n).buffer_size
<1> DEFINE enough == {s \in Sizes : s >= b.buffer_size /\ s >= b.index + n}
<1>1. b \in Buffers /\ b.index \in Nat /\ b.buffer_size \in Sizes /\ b.memory \in Memories
  BY DEF HoldsLine, Buffers
<1>2. MaxAddress \in enough
  <2>1. MaxAddress \in Sizes
    BY SizeBounds
  <2>2. b.buffer_size \in Nat /\ b.buffer_size <= MaxAddress
    BY <1>1, SizeType
  <2>3. b.index + n <= MaxAddress
    BY <1>1, Constants
  <2> QED BY <2>1, <2>2, <2>3, Constants
<1>3. enough \in SUBSET Nat /\ enough # {}
  BY <1>2, SizeType
<1> HIDE DEF enough
<1>4. \E s \in enough : \A t \in enough : s <= t
  BY <1>3, MinOf
<1>5. PICK size : size = CHOOSE s \in enough : \A t \in enough : s <= t
  OBVIOUS
<1>6. size \in enough
  BY <1>4, <1>5
<1>7. EnsureNextN(b, n) = [b EXCEPT !.buffer_size = size]
  BY <1>5 DEF EnsureNextN, enough
<1>8. size \in Sizes /\ size >= b.index + n /\ size \in Nat
  BY <1>6, SizeType DEF enough
<1>9. EnsureNextN(b, n) = [memory |-> b.memory, buffer_size |-> size, index |-> b.index]
  BY <1>1, <1>7 DEF Buffers
<1> QED BY <1>1, <1>8, <1>9 DEF Buffers

\* A buffer that was cleared and filled with a line holds that line.
LEMMA RefillHolds ==
  ASSUME NEW b, HoldsLine(b), NEW s \in Lines
  PROVE  /\ HoldsLine(PushAll(Clear(b), s)) /\ PushAll(Clear(b), s).index = Len(s)
         /\ Text(PushAll(Clear(b), s)) = s
<1> DEFINE c == Clear(b)
           e == EnsureNextN(c, Len(s))
           p == PushAll(c, s)
           m == [a \in Addresses |->
                     IF a \in e.index .. e.index + Len(s) - 1 THEN s[a - e.index + 1]
                     ELSE e.memory[a]]
<1>1. s \in Seq(Characters) /\ Len(s) \in Nat /\ Len(s) <= MaxText
  BY DEF Lines
<1>2. HoldsLine(c) /\ c.index = 0
  BY Constants, SizeType DEF Clear, HoldsLine, Buffers
<1>3. /\ e \in Buffers /\ e.index = 0 /\ Len(s) <= e.buffer_size
  BY <1>1, <1>2, EnsureNextNHolds
<1>4. p = [e EXCEPT !.memory = m, !.index = @ + Len(s)]
  BY DEF PushAll
<1> HIDE DEF e, c, p
<1>5. e.memory \in Memories /\ e.buffer_size \in Sizes
  BY <1>3 DEF Buffers
<1>6. ASSUME NEW a \in Addresses
      PROVE  m[a] = IF a \in 0 .. Len(s) - 1 THEN s[a + 1] ELSE e.memory[a]
  BY <1>3 DEF Addresses
<1>7. m = [a \in Addresses |-> m[a]]
  OBVIOUS
<1> HIDE DEF m
<1>8. p = [memory |-> m, buffer_size |-> e.buffer_size, index |-> Len(s)]
  <2>1. p = [memory |-> m, buffer_size |-> e.buffer_size, index |-> e.index + Len(s)]
    BY <1>3, <1>4 DEF Buffers
  <2>2. e.index + Len(s) = Len(s)
    BY <1>1, <1>3
  <2> QED BY <2>1, <2>2
<1>9. \A a \in 0 .. Len(s) - 1 : a \in Addresses /\ m[a] = s[a + 1] /\ s[a + 1] \in Characters
  <2>1. ASSUME NEW a \in 0 .. Len(s) - 1 PROVE a \in Addresses /\ a + 1 \in 1 .. Len(s)
    BY <1>1, Constants DEF Addresses
  <2> QED BY <1>1, <1>6, <2>1
<1>10. m \in Memories
  <2>1. ASSUME NEW a \in Addresses PROVE m[a] \in Byte
    <3>1. CASE a \in 0 .. Len(s) - 1
      BY <1>9, <3>1, Constants
    <3>2. CASE a \notin 0 .. Len(s) - 1
      BY <1>5, <1>6, <3>2 DEF Memories
    <3> QED BY <3>1, <3>2
  <2> QED BY <1>7, <2>1 DEF Memories
<1>11. p \in Buffers
  BY <1>1, <1>3, <1>5, <1>8, <1>10 DEF Buffers
<1>12. HoldsLine(p)
  BY <1>1, <1>8, <1>9, <1>11 DEF HoldsLine
<1>13. Text(p) = s
  <2>1. Text(p) \in Seq(Characters) /\ Len(Text(p)) = Len(s)
    BY <1>8, <1>12, TextType
  <2>2. ASSUME NEW k \in 1 .. Len(s) PROVE Text(p)[k] = s[k]
    <3>1. k - 1 \in 0 .. Len(s) - 1 /\ (k - 1) + 1 = k
      BY <1>1
    <3>2. p.memory[k - 1] = s[k]
      BY <1>8, <1>9, <3>1
    <3> QED BY <1>1, <1>8, <3>2, TextAt
  <2> QED BY <1>1, <2>1, <2>2, SeqEqual
<1> QED BY <1>8, <1>12, <1>13 DEF p, c

------------------------------------------------------------------------------
(* The word motions stay inside the line. *)

LEMMA LeftLoops ==
  ASSUME NEW p \in Nat
  PROVE  SpacesLeft(p) \in 0 .. p /\ WordLeft(p) \in 0 .. p
<1>1. ({0} \cup {q \in 0 .. p : ~IsSpace(q)}) \in SUBSET (0 .. p)
      /\ ({0} \cup {q \in 0 .. p : ~IsSpace(q)}) # {}
  OBVIOUS
<1>2. ({0} \cup {q \in 0 .. p : IsSpace(q)}) \in SUBSET (0 .. p)
      /\ ({0} \cup {q \in 0 .. p : IsSpace(q)}) # {}
  OBVIOUS
<1>3. SpacesLeft(p) \in ({0} \cup {q \in 0 .. p : ~IsSpace(q)})
  BY <1>1, MaxOf DEF SpacesLeft
<1>4. WordLeft(p) \in ({0} \cup {q \in 0 .. p : IsSpace(q)})
  BY <1>2, MaxOf DEF WordLeft
<1> QED BY <1>1, <1>2, <1>3, <1>4

LEMMA RightLoops ==
  ASSUME NEW size \in Nat, NEW p \in 0 .. size
  PROVE  SpacesRight(p, size) \in p .. size /\ WordRight(p, size) \in p .. size
<1>1. ({size} \cup {q \in p .. size : ~IsSpace(q)}) \in SUBSET (p .. size)
      /\ ({size} \cup {q \in p .. size : ~IsSpace(q)}) \in SUBSET Nat
      /\ ({size} \cup {q \in p .. size : ~IsSpace(q)}) # {}
  OBVIOUS
<1>2. ({size} \cup {q \in p .. size : IsSpace(q)}) \in SUBSET (p .. size)
      /\ ({size} \cup {q \in p .. size : IsSpace(q)}) \in SUBSET Nat
      /\ ({size} \cup {q \in p .. size : IsSpace(q)}) # {}
  OBVIOUS
<1>3. SpacesRight(p, size) \in ({size} \cup {q \in p .. size : ~IsSpace(q)})
  BY <1>1, MinOf DEF SpacesRight
<1>4. WordRight(p, size) \in ({size} \cup {q \in p .. size : IsSpace(q)})
  BY <1>2, MinOf DEF WordRight
<1> QED BY <1>1, <1>2, <1>3, <1>4

LEMMA SkipLeftStays ==
  ASSUME NEW size \in Nat, NEW start \in 0 .. size
  PROVE  skip_word_to_the_left(size, start) \in 0 .. size
<1> DEFINE leaves == ~IsSpace(start) /\ start > 0 /\ IsSpace(start - 1)
<1>1. PICK a \in 0 .. size : a = IF leaves THEN start - 1 ELSE start
  OBVIOUS
<1>2. PICK p \in 0 .. size : p = SpacesLeft(a)
  BY <1>1, LeftLoops
<1>3. PICK q \in 0 .. size : q = IF IsSpace(p) THEN p ELSE WordLeft(p)
  BY <1>2, LeftLoops
<1>4. skip_word_to_the_left(size, start) =
        IF ~IsSpace(p) /\ p > 0 /\ IsSpace(q) /\ q < size - 1 THEN q + 1 ELSE q
  BY <1>1, <1>2, <1>3 DEF skip_word_to_the_left
<1> QED BY <1>3, <1>4

LEMMA SkipRightStays ==
  ASSUME NEW size \in Nat, NEW start \in 0 .. size
  PROVE  skip_word_to_the_right(size, start) \in 0 .. size
<1> DEFINE leaves == ~IsSpace(start) /\ start < size /\ IsSpace(start + 1)
<1>1. PICK a \in 0 .. size : a = IF leaves THEN start + 1 ELSE start
  OBVIOUS
<1>2. PICK p \in 0 .. size : p = SpacesRight(a, size)
  BY <1>1, RightLoops
<1>3. skip_word_to_the_right(size, start) = WordRight(p, size)
  BY <1>1, <1>2 DEF skip_word_to_the_right
<1> QED BY <1>2, <1>3, RightLoops

------------------------------------------------------------------------------
(* The line and the screen. *)

\* The line, its cursor and the screen, as far as TypeOK speaks of them.
LineTyped ==
  /\ HoldsLine(buffer) /\ cursor_position \in 0 .. buffer.index
  /\ drawn \in Seq(Characters) /\ column \in Nat /\ lost_report \in BOOLEAN

\* ScreenShowsLine, also after an unknown key, which changes nothing on it.
Shown ==
  ~lost_report =>
    /\ drawn = Text(buffer)
    /\ cursor_position = buffer.index => column = Len(drawn)

LEMMA RedrawShows ==
  ASSUME NEW b, HoldsLine(b), cursor_position' \in 0 .. b.index, Redraw(b)
  PROVE  LineTyped' /\ Shown'
<1>1. HoldsLine(buffer') /\ buffer'.index = b.index /\ Text(buffer') = Text(b)
  BY ViewHolds DEF Redraw
<1>2. Text(b) \in Seq(Characters) /\ Len(Text(b)) = b.index
  BY TextType
<1>3. b.index \in Nat /\ cursor_position' \in Nat
  BY DEF HoldsLine, Buffers
<1>4. CASE Draw(Text(b), cursor_position', FALSE)
  BY <1>1, <1>2, <1>3, <1>4 DEF Draw, LineTyped, Shown
<1>5. CASE ReportMayBeLost /\ Draw(Text(b), b.index, TRUE)
  BY <1>1, <1>2, <1>3, <1>5 DEF Draw, LineTyped, Shown
<1> QED BY <1>4, <1>5 DEF Redraw, DrawAndPlace

LEMMA PlaceShows ==
  ASSUME LineTyped, Shown, cursor_position' \in 0 .. buffer.index, Place(buffer)
  PROVE  LineTyped' /\ Shown'
<1>1. buffer' = buffer
  BY DEF Place
<1>2. buffer.index \in Nat /\ Len(Text(buffer)) = buffer.index
  BY TextType DEF LineTyped, HoldsLine, Buffers
<1>3. cursor_position' \in Nat
  BY <1>2
<1>4. CASE Draw(drawn, cursor_position', lost_report)
  BY <1>1, <1>2, <1>3, <1>4 DEF Draw, LineTyped, Shown
<1>5. CASE ReportMayBeLost /\ Draw(drawn, column, TRUE)
  BY <1>1, <1>2, <1>3, <1>5 DEF Draw, LineTyped, Shown
<1> QED BY <1>4, <1>5 DEF Place, DrawAndPlace

\* Writing a character keeps a line of characters; at its end, it appends.
LEMMA WrittenType ==
  ASSUME LineTyped, NEW c \in Characters
  PROVE  /\ Written(c) \in Seq(Characters)
         /\ column = Len(drawn) => Written(c) = Append(drawn, c)
<1>1. drawn \in Seq(Characters) /\ Len(drawn) \in Nat /\ column \in Nat
  BY DEF LineTyped
<1>2. PICK n : n = Max({Len(drawn), column + 1})
  OBVIOUS
<1>3. n \in {Len(drawn), column + 1} /\ Len(drawn) <= n /\ column + 1 <= n
  <2>1. {Len(drawn), column + 1} \in SUBSET (0 .. Len(drawn) + column + 1)
        /\ {Len(drawn), column + 1} # {}
    BY <1>1
  <2>2. Len(drawn) + column + 1 \in Nat
    BY <1>1
  <2> QED BY <1>2, <2>1, <2>2, MaxOf
<1>4. n \in Nat
  BY <1>1, <1>3
<1>5. Written(c) = [k \in 1 .. n |-> IF k = column + 1 THEN c
                                     ELSE IF k <= Len(drawn) THEN drawn[k] ELSE Space]
  BY <1>2 DEF Written
<1>6. Written(c) \in Seq(Characters) /\ Len(Written(c)) = n
  BY <1>1, <1>4, <1>5 DEF Characters
<1>7. ASSUME column = Len(drawn) PROVE Written(c) = Append(drawn, c)
  <2>1. n = Len(drawn) + 1
    BY <1>1, <1>3, <1>7
  <2>2. Append(drawn, c) \in Seq(Characters) /\ Len(Append(drawn, c)) = n
    BY <1>1, <2>1
  <2>3. ASSUME NEW k \in 1 .. n PROVE Written(c)[k] = Append(drawn, c)[k]
    BY <1>1, <1>5, <1>7, <2>1
  <2> QED BY <1>6, <2>2, <2>3, SeqEqual
<1> QED BY <1>6, <1>7

------------------------------------------------------------------------------
(* What each key does to the line and the screen. *)

LEMMA TypeCharacterShows ==
  ASSUME LineTyped, Shown, TypeCharacter
  PROVE  LineTyped' /\ Shown'
<1>1. PICK c \in Characters :
        LET b == PushAt(buffer, c, cursor_position) IN
        /\ buffer.index < MaxText
        /\ cursor_position' = cursor_position + 1
        /\ IF AppendedAt(b, cursor_position)
           THEN /\ buffer' = b
                /\ \/ DrawAndPlace(Written(c), column + 1, lost_report)
                   \/ Draw(Written(c), column + 1, lost_report)
           ELSE /\ buffer' = View(b)
                /\ \/ DrawAndPlace(Text(b), b.index, FALSE)
                   \/ Draw(Text(b), b.index, FALSE)
  BY DEF TypeCharacter
<1>2. HoldsLine(buffer) /\ cursor_position \in 0 .. buffer.index /\ buffer.index \in Nat
  BY DEF LineTyped, HoldsLine, Buffers
<1>3. PICK b : b = PushAt(buffer, c, cursor_position)
  OBVIOUS
<1>4. /\ HoldsLine(b) /\ b.index = buffer.index + 1 /\ b.index \in Nat
      /\ \A a \in 0 .. buffer.index : b.memory[a] =
           IF a < cursor_position THEN buffer.memory[a]
           ELSE IF a = cursor_position THEN c ELSE buffer.memory[a - 1]
  BY <1>1, <1>2, <1>3, PushAtHolds
<1>5. cursor_position' \in 0 .. b.index /\ cursor_position' \in Nat
  BY <1>1, <1>2, <1>4
<1>6. CASE AppendedAt(b, cursor_position)
  <2>1. buffer' = b /\ cursor_position = buffer.index /\ cursor_position' = b.index
    BY <1>1, <1>2, <1>3, <1>4, <1>6 DEF AppendedAt
  <2>2. \/ DrawAndPlace(Written(c), column + 1, lost_report)
        \/ Draw(Written(c), column + 1, lost_report)
    BY <1>1, <1>3, <1>6
  <2>3. PICK w : w = Written(c)
    OBVIOUS
  <2>4. w \in Seq(Characters) /\ (column = Len(drawn) => w = Append(drawn, c))
    BY <2>3, WrittenType
  <2>5. ASSUME ~lost_report PROVE w = Text(b) /\ Len(w) = column + 1 /\ Len(w) = b.index
    <3>1. drawn = Text(buffer) /\ column = Len(drawn)
      BY <2>1, <2>5 DEF Shown
    <3>2. /\ Text(buffer) \in Seq(Characters) /\ Len(Text(buffer)) = buffer.index
          /\ Text(b) \in Seq(Characters) /\ Len(Text(b)) = buffer.index + 1
      BY <1>2, <1>4, TextType
    <3>3. Len(w) = buffer.index + 1 /\ w = Append(Text(buffer), c)
      BY <2>4, <3>1, <3>2
    <3>4. ASSUME NEW k \in 1 .. buffer.index + 1 PROVE w[k] = Text(b)[k]
      <4>1. Text(b)[k] = b.memory[k - 1]
        BY <1>2, <1>4, TextAt
      <4>2. CASE k = buffer.index + 1
        <5>1. b.memory[k - 1] = c
          BY <1>2, <1>4, <2>1, <4>2
        <5> QED BY <3>2, <3>3, <4>1, <4>2, <5>1
      <4>3. CASE k \in 1 .. buffer.index
        <5>1. Text(buffer)[k] = buffer.memory[k - 1]
          BY <1>2, <4>3, TextAt
        <5>2. b.memory[k - 1] = buffer.memory[k - 1]
          BY <1>2, <1>4, <2>1, <4>3
        <5>3. w[k] = Text(buffer)[k]
          BY <3>2, <3>3, <4>3
        <5> QED BY <4>1, <5>1, <5>2, <5>3
      <4> QED BY <1>2, <4>2, <4>3
    <3>5. w = Text(b)
      BY <2>4, <3>2, <3>3, <3>4, SeqEqual
    <3> QED BY <1>4, <3>1, <3>2, <3>3, <3>5
  <2>6. column + 1 \in Nat /\ lost_report \in BOOLEAN
    BY DEF LineTyped
  <2>7. CASE Draw(w, cursor_position', lost_report)
    BY <1>4, <1>5, <2>1, <2>4, <2>5, <2>6, <2>7 DEF Draw, LineTyped, Shown
  <2>8. CASE Draw(w, column + 1, TRUE)
    BY <1>4, <1>5, <2>1, <2>4, <2>6, <2>8 DEF Draw, LineTyped, Shown
  <2>9. CASE Draw(w, column + 1, lost_report)
    BY <1>4, <1>5, <2>1, <2>4, <2>5, <2>6, <2>9 DEF Draw, LineTyped, Shown
  <2> QED BY <2>2, <2>3, <2>7, <2>8, <2>9 DEF DrawAndPlace
<1>7. CASE ~AppendedAt(b, cursor_position)
  <2>1. /\ buffer' = View(b)
        /\ DrawAndPlace(Text(b), b.index, FALSE) \/ Draw(Text(b), b.index, FALSE)
    BY <1>1, <1>3, <1>7
  <2>2. CASE DrawAndPlace(Text(b), b.index, FALSE)
    BY <1>4, <1>5, <2>1, <2>2, RedrawShows DEF Redraw
  <2>3. CASE Draw(Text(b), b.index, FALSE)
    <3>1. HoldsLine(buffer') /\ buffer'.index = b.index /\ Text(buffer') = Text(b)
      BY <1>4, <2>1, ViewHolds
    <3>2. Text(b) \in Seq(Characters) /\ Len(Text(b)) = b.index
      BY <1>4, TextType
    <3> QED BY <1>4, <1>5, <2>3, <3>1, <3>2 DEF Draw, LineTyped, Shown
  <2> QED BY <2>1, <2>2, <2>3
<1> QED BY <1>6, <1>7

LEMMA BackspaceShows ==
  ASSUME LineTyped, Shown, Backspace
  PROVE  LineTyped' /\ Shown'
<1>1. HoldsLine(buffer) /\ cursor_position \in 0 .. buffer.index /\ buffer.index \in Nat
  BY DEF LineTyped, HoldsLine, Buffers
<1>2. CASE cursor_position >= 1
  <2>1. PICK b : b = PopAt(buffer, cursor_position - 1)
    OBVIOUS
  <2>2. cursor_position - 1 \in Nat /\ cursor_position - 1 < buffer.index
    BY <1>1, <1>2
  <2>3. HoldsLine(b) /\ b.index = buffer.index - 1
    BY <1>1, <2>1, <2>2, PopAtHolds
  <2>4. cursor_position' = cursor_position - 1 /\ Redraw(b)
    BY <1>2, <2>1 DEF Backspace
  <2>5. cursor_position' \in 0 .. b.index
    BY <1>1, <1>2, <2>3, <2>4
  <2> QED BY <2>3, <2>4, <2>5, RedrawShows
<1>3. CASE ~(cursor_position >= 1)
  BY <1>3 DEF Backspace, screenVars, LineTyped, Shown
<1> QED BY <1>2, <1>3

LEMMA DeleteShows ==
  ASSUME LineTyped, Shown, Delete
  PROVE  LineTyped' /\ Shown'
<1>1. HoldsLine(buffer) /\ cursor_position \in 0 .. buffer.index /\ buffer.index \in Nat
  BY DEF LineTyped, HoldsLine, Buffers
<1>2. cursor_position' = cursor_position
  BY DEF Delete
<1>3. CASE Deletable(cursor_position)
  <2>1. PICK b : b = PopAt(buffer, cursor_position)
    OBVIOUS
  <2>2. /\ HoldsLine(b)
        /\ b.index = IF cursor_position < buffer.index THEN buffer.index - 1 ELSE buffer.index
    <3>1. cursor_position \in Nat
      BY <1>1
    <3> QED BY <1>1, <2>1, <3>1, PopAtHolds
  <2>3. Redraw(b)
    BY <1>3, <2>1 DEF Delete
  <2>4. cursor_position' \in 0 .. b.index
    BY <1>1, <1>2, <2>2
  <2> QED BY <2>2, <2>3, <2>4, RedrawShows
<1>4. CASE ~Deletable(cursor_position)
  BY <1>1, <1>2, <1>4, PlaceShows DEF Delete
<1> QED BY <1>3, <1>4

\* The keys that move the cursor.
LEMMA MovesShow ==
  ASSUME LineTyped, Shown, Move \/ SkipWord
  PROVE  LineTyped' /\ Shown'
<1>1. HoldsLine(buffer) /\ cursor_position \in 0 .. buffer.index /\ buffer.index \in Nat
  BY DEF LineTyped, HoldsLine, Buffers
<1>2. CASE Move
  <2>1. Place(buffer) /\ cursor_position' \in 0 .. buffer.index
    BY <1>1, <1>2 DEF Move, MoveTo
  <2> QED BY <2>1, PlaceShows
<1>3. CASE SkipWord
  <2>1. cursor_position' \in 0 .. buffer.index
    BY <1>1, <1>3, SkipLeftStays, SkipRightStays DEF SkipWord, SkipTo
  <2>2. Redraw(buffer) \/ Place(buffer)
    BY <1>3 DEF SkipWord, SkipTo
  <2> QED BY <1>1, <2>1, <2>2, RedrawShows, PlaceShows
<1> QED BY <1>2, <1>3

------------------------------------------------------------------------------
(* The history. *)

\* What TypeOK says of the variables that are not on the line.
HistoryTyped ==
  /\ pc \in {"typing", "read_line", "exited", "aborted"}
  /\ last_typed_commands \in Seq(Lines) /\ Len(last_typed_commands) <= MaxHistory
  /\ entered \in Seq(Lines)
  /\ next_typed_command_to_show \in -1 .. Len(last_typed_commands)
  /\ pc = "typing" =>
       next_typed_command_to_show = -1 \/ next_typed_command_to_show < Len(last_typed_commands)
  /\ exit_requested \in BOOLEAN
  /\ key \in Keys

LEMMA TypeParts ==
  ASSUME TypeOK
  PROVE  LineTyped /\ HistoryTyped
<1>1. buffer \in Buffers /\ buffer.index \in Nat /\ buffer.index <= MaxText
  BY DEF TypeOK, Buffers
<1>2. ASSUME NEW a \in 0 .. buffer.index - 1 PROVE buffer.memory[a] \in Characters
  <2>1. a + 1 \in 1 .. buffer.index /\ (a + 1) - 1 = a
    BY <1>1
  <2>2. Text(buffer) \in Seq(Characters) /\ Len(Text(buffer)) = buffer.index
    BY <1>1, TextAt DEF TypeOK, readed_line
  <2>3. Text(buffer)[a + 1] \in Characters
    BY <2>1, <2>2
  <2>4. Text(buffer)[a + 1] = buffer.memory[a]
    BY <1>1, <2>1, TextAt
  <2> QED BY <2>3, <2>4
<1>3. HoldsLine(buffer)
  BY <1>1, <1>2 DEF HoldsLine
<1>4. LineTyped
  BY <1>3 DEF TypeOK, LineTyped
<1>5. HistoryTyped
  BY DEF TypeOK, HistoryTyped
<1> QED BY <1>4, <1>5

\* The line the arrows show is one of the history.
LEMMA ShowShows ==
  ASSUME LineTyped, HistoryTyped, NEW n \in Nat, n < Len(last_typed_commands), Show(n)
  PROVE  LineTyped' /\ Shown' /\ next_typed_command_to_show' = n
<1>1. HoldsLine(buffer)
  BY DEF LineTyped
<1>2. PICK s : s = last_typed_commands[Len(last_typed_commands) - n]
  OBVIOUS
<1>3. s \in Lines
  <2>1. last_typed_commands \in Seq(Lines) /\ Len(last_typed_commands) \in Nat
    BY DEF HistoryTyped
  <2>2. Len(last_typed_commands) - n \in 1 .. Len(last_typed_commands)
    BY <2>1
  <2> QED BY <1>2, <2>1, <2>2
<1>4. PICK b : b = PushAll(Clear(buffer), s)
  OBVIOUS
<1>5. HoldsLine(b) /\ b.index \in Nat
  BY <1>1, <1>3, <1>4, RefillHolds DEF HoldsLine, Buffers
<1>6. cursor_position' = b.index /\ Redraw(b) /\ next_typed_command_to_show' = n
  BY <1>2, <1>4 DEF Show
<1>7. cursor_position' \in 0 .. b.index
  BY <1>5, <1>6
<1> QED BY <1>5, <1>6, <1>7, RedrawShows

LEMMA ArrowsShow ==
  ASSUME LineTyped, HistoryTyped, Shown, ArrowUp \/ ArrowDown
  PROVE  LineTyped' /\ Shown' /\ HistoryTyped'
<1>1. HoldsLine(buffer) /\ cursor_position \in 0 .. buffer.index /\ buffer.index \in Nat
  BY DEF LineTyped, HoldsLine, Buffers
<1>2. /\ next_typed_command_to_show \in Int /\ next_typed_command_to_show >= -1
      /\ Len(last_typed_commands) \in Nat
      /\ next_typed_command_to_show = -1 \/ next_typed_command_to_show < Len(last_typed_commands)
  BY DEF HistoryTyped, ArrowUp, ArrowDown, Press
<1>3. UNCHANGED <<pc, exit_requested, last_typed_commands, entered>> /\ key' \in Keys
  BY DEF ArrowUp, ArrowDown, Press, Keys, historyVars
<1>4. CASE cursor_position' = cursor_position
           /\ next_typed_command_to_show' = next_typed_command_to_show /\ Place(buffer)
  <2>1. LineTyped' /\ Shown'
    BY <1>1, <1>4, PlaceShows
  <2> QED BY <1>3, <1>4, <2>1 DEF HistoryTyped
<1>5. ASSUME NEW n \in Nat, n < Len(last_typed_commands), Show(n)
      PROVE  LineTyped' /\ Shown' /\ HistoryTyped'
  <2>1. LineTyped' /\ Shown' /\ next_typed_command_to_show' = n
    BY <1>5, ShowShows
  <2> QED BY <1>2, <1>3, <1>5, <2>1 DEF HistoryTyped
<1>6. CASE HasOlder(next_typed_command_to_show) /\ Show(next_typed_command_to_show + 1)
  <2>1. next_typed_command_to_show + 1 \in Nat
        /\ next_typed_command_to_show + 1 < Len(last_typed_commands)
    BY <1>2, <1>6 DEF HasOlder
  <2> QED BY <1>5, <1>6, <2>1
<1>7. CASE next_typed_command_to_show > 0 /\ Show(next_typed_command_to_show - 1)
  <2>1. next_typed_command_to_show - 1 \in Nat
        /\ next_typed_command_to_show - 1 < Len(last_typed_commands)
    BY <1>2, <1>7
  <2> QED BY <1>5, <1>7, <2>1
<1> QED BY <1>4, <1>6, <1>7 DEF ArrowUp, ArrowDown

\* Only the evaluation of a line changes the history: at most one line is
\* added, and at most one, the oldest, is dropped.
LEMMA RememberedType ==
  ASSUME HistoryTyped, NEW line \in Lines
  PROVE  /\ Remembered(line) \in Seq(Lines) /\ Len(Remembered(line)) <= MaxHistory
         /\ Len(Remembered(line)) >= Len(last_typed_commands)
<1>1. /\ last_typed_commands \in Seq(Lines) /\ Len(last_typed_commands) \in Nat
      /\ Len(last_typed_commands) <= MaxHistory
  BY DEF HistoryTyped
<1>2. PICK all : all = Append(last_typed_commands, line)
  OBVIOUS
<1>3. all \in Seq(Lines) /\ Len(all) = Len(last_typed_commands) + 1 /\ all # <<>>
  BY <1>1, <1>2
<1>4. Tail(all) \in Seq(Lines) /\ Len(Tail(all)) = Len(all) - 1
  BY <1>3
<1>5. Remembered(line) = IF Len(all) > MaxHistory THEN Tail(all) ELSE all
  BY <1>2 DEF Remembered
<1> QED BY <1>1, <1>3, <1>4, <1>5, Constants

LEMMA EmptyLine ==
  ASSUME NEW heap \in Heaps
  PROVE  HoldsLine(CreateBuffer(heap)) /\ Text(CreateBuffer(heap)) = <<>>
<1>1. CreateBuffer(heap) = [memory |-> heap, buffer_size |-> GrouthBy, index |-> 0]
  BY DEF CreateBuffer
<1>2. heap \in Memories
  BY Constants DEF Heaps, Memories
<1>3. HoldsLine(CreateBuffer(heap))
  BY <1>1, <1>2, Constants, SizeBounds DEF HoldsLine, Buffers
<1>4. Text(CreateBuffer(heap)) \in Seq(Characters) /\ Len(Text(CreateBuffer(heap))) = 0
  BY <1>1, <1>3, TextType
<1> QED BY <1>3, <1>4

LEMMA EvalLineShows ==
  ASSUME LineTyped, HistoryTyped, Shown, EvalLine
  PROVE  LineTyped' /\ Shown' /\ HistoryTyped'
<1>1. Text(buffer) \in Lines
  BY TextType DEF LineTyped
<1>2. /\ last_typed_commands' \in Seq(Lines) /\ Len(last_typed_commands') <= MaxHistory
      /\ Len(last_typed_commands') >= Len(last_typed_commands)
      /\ entered' \in Seq(Lines) /\ exit_requested' \in BOOLEAN
  <2>1. CASE UNCHANGED <<exit_requested, historyVars>>
    BY <2>1 DEF HistoryTyped, historyVars
  <2>2. CASE /\ exit_requested' \in BOOLEAN
             /\ last_typed_commands' = Remembered(Text(buffer))
             /\ entered' = Append(entered, Text(buffer))
    BY <1>1, <2>2, RememberedType DEF HistoryTyped
  <2> QED BY <2>1, <2>2 DEF EvalLine, readed_line
<1>3. key' = key /\ key \in Keys
  BY DEF EvalLine, HistoryTyped
<1>4. CASE StartLine
  <2>1. PICK heap \in Heaps : buffer' = CreateBuffer(heap)
    BY <1>4 DEF StartLine
  <2>2. HoldsLine(buffer') /\ Text(buffer') = <<>> /\ buffer'.index = 0
    BY <2>1, EmptyLine DEF CreateBuffer
  <2>3. LineTyped' /\ Shown'
    <3>1. /\ drawn' = Text(buffer') /\ column' = 0 /\ lost_report' = FALSE
          /\ cursor_position' = 0
      BY <1>4, <2>2 DEF StartLine, Draw
    <3>2. Text(buffer') \in Seq(Characters) /\ Len(Text(buffer')) = 0
      BY <2>2, TextType
    <3>3. HoldsLine(buffer') /\ cursor_position' \in 0 .. buffer'.index
      BY <2>2, <3>1
    <3> QED BY <3>1, <3>2, <3>3 DEF LineTyped, Shown
  <2>4. Len(last_typed_commands') \in Nat
    BY <1>2
  <2>5. HistoryTyped'
    BY <1>2, <1>3, <1>4, <2>4 DEF StartLine, HistoryTyped
  <2> QED BY <2>3, <2>5
<1>5. CASE pc' = "exited" /\ UNCHANGED <<buffer, cursor_position,
                                         next_typed_command_to_show, screenVars>>
  <2>1. LineTyped' /\ Shown'
    BY <1>5 DEF screenVars, LineTyped, Shown
  <2>2. next_typed_command_to_show' \in -1 .. Len(last_typed_commands')
    BY <1>2, <1>5 DEF HistoryTyped
  <2>3. HistoryTyped'
    BY <1>2, <1>3, <1>5, <2>2 DEF HistoryTyped
  <2> QED BY <2>1, <2>3
<1> QED BY <1>4, <1>5 DEF EvalLine

\* The other keys: what they do to the line and the screen.
LEMMA OthersShow ==
  ASSUME LineTyped, Shown,
         Tab \/ ClearScreen \/ CtrlC \/ OtherControl \/ UnknownKey \/ Enter \/ CtrlD
  PROVE  LineTyped' /\ Shown'
<1>1. HoldsLine(buffer) /\ cursor_position \in 0 .. buffer.index /\ buffer.index \in Nat
  BY DEF LineTyped, HoldsLine, Buffers
<1>2. PICK v : v = View(buffer)
  OBVIOUS
<1>3. HoldsLine(v) /\ v.index = buffer.index /\ Text(v) = Text(buffer)
  BY <1>1, <1>2, ViewHolds
<1>4. CASE UNCHANGED <<buffer, cursor_position, screenVars>>
  BY <1>4 DEF screenVars, LineTyped, Shown
<1>5. CASE buffer' = v /\ UNCHANGED <<cursor_position, screenVars>>
  BY <1>1, <1>3, <1>5 DEF screenVars, LineTyped, Shown
<1>6. CASE buffer' = v /\ Draw(Text(buffer), buffer.index, FALSE)
           /\ cursor_position' = cursor_position
  BY <1>1, <1>3, <1>6, TextType DEF Draw, LineTyped, Shown
<1>7. CASE ClearScreen
  BY <1>1, <1>7, RedrawShows DEF ClearScreen
<1>8. CASE CtrlC
  <2>1. PICK c : c = Clear(buffer)
    OBVIOUS
  <2>2. c = [memory |-> buffer.memory, buffer_size |-> buffer.buffer_size, index |-> 0]
    BY <1>1, <2>1 DEF Clear, HoldsLine, Buffers
  <2>3. HoldsLine(c) /\ c.index = 0
    BY <1>1, <2>2, Constants, SizeType DEF HoldsLine, Buffers
  <2>4. Text(c) = <<>>
    BY <2>3, TextType
  <2>5. buffer' = c /\ cursor_position' = 0
    BY <1>8, <2>1 DEF CtrlC
  <2>6. drawn' = Text(c) /\ column' = 0 /\ lost_report' \in BOOLEAN
    BY <1>8, <2>4, <2>5 DEF CtrlC, DrawAndPlace, Draw
  <2>7. Text(c) \in Seq(Characters) /\ Len(Text(c)) = 0
    BY <2>3, TextType
  <2> QED BY <2>3, <2>5, <2>6, <2>7 DEF LineTyped, Shown
<1>9. CASE Tab
  BY <1>2, <1>4, <1>6, <1>9 DEF Tab
<1>10. CASE OtherControl \/ UnknownKey
  BY <1>4, <1>10 DEF OtherControl, UnknownKey
<1>11. CASE Enter
  BY <1>2, <1>5, <1>11 DEF Enter, lineOnly
<1>12. CASE CtrlD
  BY <1>2, <1>4, <1>5, <1>12 DEF CtrlD, lineOnly
<1> QED BY <1>7, <1>8, <1>9, <1>10, <1>11, <1>12

\* And every key but the arrows to the rest.
LEMMA KeysKeepHistory ==
  ASSUME HistoryTyped,
         \/ TypeCharacter \/ Backspace \/ Delete \/ Move \/ SkipWord \/ Tab \/ ClearScreen
         \/ CtrlC \/ OtherControl \/ UnknownKey \/ Enter \/ CtrlD
  PROVE  HistoryTyped'
<1>1. UNCHANGED <<next_typed_command_to_show, last_typed_commands, entered>>
  BY DEF TypeCharacter, Backspace, Delete, Move, MoveTo, SkipWord, SkipTo, Tab, ClearScreen,
         CtrlC, OtherControl, UnknownKey, Enter, CtrlD, editOnly, lineOnly, historyVars
<1>2. pc = "typing" /\ key' \in Keys
  BY DEF TypeCharacter, Backspace, Delete, Move, MoveTo, SkipWord, SkipTo, Tab, ClearScreen,
         CtrlC, OtherControl, UnknownKey, Enter, CtrlD, Press, Keys
<1>3. pc' \in {"typing", "read_line", "aborted"} /\ exit_requested' \in {exit_requested, TRUE}
  BY <1>2 DEF TypeCharacter, Backspace, Delete, Move, MoveTo, SkipWord, SkipTo, Tab,
         ClearScreen, CtrlC, OtherControl, UnknownKey, Enter, CtrlD, editOnly, lineOnly
<1> QED BY <1>1, <1>2, <1>3 DEF HistoryTyped

------------------------------------------------------------------------------
(* The invariants. *)

LEMMA InitShows ==
  ASSUME Init
  PROVE  LineTyped /\ Shown /\ HistoryTyped
<1>1. PICK heap \in Heaps : buffer = CreateBuffer(heap)
  BY DEF Init
<1>2. HoldsLine(buffer) /\ Text(buffer) = <<>> /\ buffer.index = 0
  BY <1>1, EmptyLine DEF CreateBuffer
<1>3. Text(buffer) \in Seq(Characters) /\ Len(Text(buffer)) = 0
  BY <1>2, TextType
<1>4. LineTyped /\ Shown
  <2>1. drawn = Text(buffer) /\ column = 0 /\ lost_report = FALSE /\ cursor_position = 0
    BY <1>2 DEF Init
  <2>2. HoldsLine(buffer) /\ cursor_position \in 0 .. buffer.index
    BY <1>2, <2>1
  <2> QED BY <1>3, <2>1, <2>2 DEF LineTyped, Shown
<1>5. last_typed_commands = <<>> /\ entered = <<>> /\ Len(last_typed_commands) = 0
  BY DEF Init
<1>6. last_typed_commands \in Seq(Lines) /\ entered \in Seq(Lines)
  BY <1>5
<1>7. HistoryTyped
  <2>1. /\ pc = "typing" /\ key \in Keys /\ next_typed_command_to_show = -1
        /\ exit_requested \in BOOLEAN
    BY DEF Init, Keys
  <2>2. Len(last_typed_commands) <= MaxHistory
        /\ next_typed_command_to_show \in -1 .. Len(last_typed_commands)
    BY <1>5, <2>1, Constants
  <2> QED BY <1>6, <2>1, <2>2 DEF HistoryTyped
<1> QED BY <1>4, <1>7

LEMMA StepShows ==
  ASSUME LineTyped, Shown, HistoryTyped, [Next]_vars
  PROVE  LineTyped' /\ Shown' /\ HistoryTyped'
<1>1. CASE TypeCharacter
  BY <1>1, TypeCharacterShows, KeysKeepHistory
<1>2. CASE Backspace
  BY <1>2, BackspaceShows, KeysKeepHistory
<1>3. CASE Delete
  BY <1>3, DeleteShows, KeysKeepHistory
<1>4. CASE Move \/ SkipWord
  BY <1>4, MovesShow, KeysKeepHistory
<1>5. CASE ArrowUp \/ ArrowDown
  BY <1>5, ArrowsShow
<1>6. CASE Tab \/ ClearScreen \/ CtrlC \/ OtherControl \/ UnknownKey \/ Enter \/ CtrlD
  BY <1>6, OthersShow, KeysKeepHistory
<1>7. CASE EvalLine
  BY <1>7, EvalLineShows
<1>8. CASE Done \/ UNCHANGED vars
  BY <1>8 DEF Done, vars, screenVars, historyVars, LineTyped, Shown, HistoryTyped
<1> QED BY <1>1, <1>2, <1>3, <1>4, <1>5, <1>6, <1>7, <1>8 DEF Next

LEMMA EditorInvariance == Spec => [](LineTyped /\ Shown /\ HistoryTyped)
<1> DEFINE Inv == LineTyped /\ Shown /\ HistoryTyped
<1>1. Init => Inv
  BY InitShows
<1>2. Inv /\ [Next]_vars => Inv'
  BY StepShows
<1> HIDE DEF Inv
<1>3. Spec => []Inv
  BY <1>1, <1>2, PTL DEF Spec
<1> QED BY <1>3 DEF Inv

(***************************************************************************)
(* The text always ends inside the allocation, the cursor inside the text, *)
(* and the arrows never ask for a line the history does not hold, for      *)
(* lines of any length and a history of any size.                          *)
(***************************************************************************)
THEOREM TypeCorrectness == Spec => []TypeOK
<1>1. LineTyped /\ HistoryTyped => TypeOK
  <2> SUFFICES ASSUME LineTyped, HistoryTyped PROVE TypeOK
    OBVIOUS
  <2>1. /\ buffer \in Buffers /\ buffer.index <= MaxText /\ readed_line \in Seq(Characters)
    BY TextType DEF LineTyped, HoldsLine, readed_line
  <2> QED BY <2>1 DEF LineTyped, HistoryTyped, TypeOK
<1> QED BY <1>1, EditorInvariance, PTL

(***************************************************************************)
(* While the terminal answers, the line on it is the line that will run.   *)
(***************************************************************************)
THEOREM ScreenIsTheLine == Spec => []ScreenShowsLine
<1>1. Shown => ScreenShowsLine
  BY DEF Shown, ScreenShowsLine, readed_line
<1> QED BY <1>1, EditorInvariance, PTL

\* The k-th line of the history is the k-th of the latest ones.
LEMMA LatestLines ==
  ASSUME HistoryTyped, HistoryIsLatest
  PROVE  \A k \in 1 .. Len(last_typed_commands) :
           last_typed_commands[k] = entered[Len(entered) - Len(last_typed_commands) + k]
<1>1. PICK n, e : n = Len(last_typed_commands) /\ e = Len(entered)
  OBVIOUS
<1>2. entered \in Seq(Lines) /\ last_typed_commands = SubSeq(entered, e - n + 1, e)
  BY <1>1 DEF HistoryTyped, HistoryIsLatest
<1>3. n \in Nat /\ e \in Nat /\ n = IF e < MaxHistory THEN e ELSE MaxHistory
  BY <1>1 DEF HistoryTyped, HistoryIsLatest
<1>4. n <= e
  BY <1>3, Constants
<1>5. ASSUME NEW k \in 1 .. n PROVE last_typed_commands[k] = entered[e - n + k]
  <2>1. e - n + 1 \in 1 .. e + 1 /\ k \in 1 .. e - (e - n + 1) + 1
        /\ (e - n + 1) + k - 1 = e - n + k
    BY <1>3, <1>4
  <2>2. e - n + 1 \in 1 .. Len(entered) + 1 /\ e \in e - n .. Len(entered)
    BY <1>1, <1>3, <1>4
  <2> QED BY <1>2, <2>1, <2>2, SubSeqProperties
<1> QED BY <1>1, <1>5

\* Adding a line, and dropping the oldest when there is one too many.
LEMMA RememberedIsLatest ==
  ASSUME HistoryTyped, HistoryIsLatest, NEW line \in Lines,
         last_typed_commands' = Remembered(line), entered' = Append(entered, line)
  PROVE  HistoryIsLatest'
<1>0. PICK n, e : n = Len(last_typed_commands) /\ e = Len(entered)
  OBVIOUS
<1>a. /\ last_typed_commands \in Seq(Lines) /\ entered \in Seq(Lines)
      /\ last_typed_commands = SubSeq(entered, e - n + 1, e)
  BY <1>0 DEF HistoryTyped, HistoryIsLatest
<1>b. n \in Nat /\ e \in Nat /\ n = IF e < MaxHistory THEN e ELSE MaxHistory
  BY <1>0, <1>a DEF HistoryIsLatest
<1>1. n \in Nat /\ e \in Nat /\ n <= e /\ n <= MaxHistory /\ (n = e \/ n = MaxHistory)
  BY <1>b, Constants
<1>2. \A k \in 1 .. n : last_typed_commands[k] = entered[e - n + k]
  BY <1>0, LatestLines
<1>3. PICK all : all = Append(last_typed_commands, line)
  OBVIOUS
<1>4. /\ all \in Seq(Lines) /\ Len(all) = n + 1 /\ all[n + 1] = line
      /\ \A k \in 1 .. n : all[k] = last_typed_commands[k]
  <2>1. last_typed_commands \in Seq(Lines)
    BY <1>a
  <2>2. all \in Seq(Lines) /\ Len(all) = n + 1
    BY <1>0, <1>3, <2>1
  <2>3. all[n + 1] = line
    BY <1>0, <1>3, <2>1
  <2>4. ASSUME NEW k \in 1 .. n PROVE all[k] = last_typed_commands[k]
    BY <1>0, <1>3, <2>1
  <2> QED BY <2>2, <2>3, <2>4
<1>5. PICK new : new = entered'
  OBVIOUS
<1>6. /\ new \in Seq(Lines) /\ Len(new) = e + 1 /\ new[e + 1] = line
      /\ \A k \in 1 .. e : new[k] = entered[k]
  BY <1>0, <1>1, <1>a, <1>5
<1>7. PICK m : m = IF e + 1 < MaxHistory THEN e + 1 ELSE MaxHistory
  OBVIOUS
<1>c. /\ m \in Nat /\ m <= e + 1 /\ m > 0 /\ MaxHistory \in Nat
      /\ n + 1 > MaxHistory => m = n /\ n = MaxHistory
      /\ ~(n + 1 > MaxHistory) => n = e /\ m = e + 1
  BY <1>b, <1>7, Constants
<1>8. PICK last : last = last_typed_commands'
  OBVIOUS
<1>9. last = IF n + 1 > MaxHistory THEN Tail(all) ELSE all
  BY <1>3, <1>4, <1>8 DEF Remembered
<1>10. last \in Seq(Lines) /\ Len(last) = m
  <2>1. Tail(all) \in Seq(Lines) /\ Len(Tail(all)) = n
    BY <1>1, <1>4
  <2> QED BY <1>1, <1>4, <1>c, <1>9, <2>1
<1>11. PICK s : s = SubSeq(new, (e + 1) - m + 1, e + 1)
  OBVIOUS
<1>12. /\ s \in Seq(Lines) /\ Len(s) = m
       /\ \A k \in 1 .. m : s[k] = new[(e + 1) - m + k]
  <2>1. PICK lo : lo = (e + 1) - m + 1
    OBVIOUS
  <2>2. lo \in 1 .. Len(new) + 1 /\ e + 1 \in lo - 1 .. Len(new) /\ (e + 1) - lo + 1 = m
        /\ lo \in Nat
    BY <1>1, <1>6, <1>c, <2>1
  <2>3. s = SubSeq(new, lo, e + 1) /\ new \in Seq(Lines)
    BY <1>6, <1>11, <2>1
  <2>4. s \in Seq(Lines) /\ Len(s) = m
    BY <2>2, <2>3, SubSeqProperties
  <2>5. ASSUME NEW k \in 1 .. m PROVE s[k] = new[(e + 1) - m + k]
    <3>1. lo + k - 1 = (e + 1) - m + k /\ k \in 1 .. (e + 1) - lo + 1
      BY <1>1, <1>c, <2>1, <2>2
    <3> QED BY <2>2, <2>3, <3>1, SubSeqProperties
  <2> QED BY <2>4, <2>5
<1>13. ASSUME NEW k \in 1 .. m PROVE last[k] = s[k]
  <2>1. CASE n + 1 > MaxHistory
    <3>1. m = n /\ k \in Nat /\ k \in 1 .. n
      BY <1>c, <2>1
    <3>2. last[k] = all[k + 1]
      BY <1>1, <1>4, <1>9, <2>1, <3>1
    <3>3. s[k] = new[e - n + (k + 1)]
      <4>1. (e + 1) - m + k = e - n + (k + 1)
        BY <1>1, <3>1
      <4> QED BY <1>12, <4>1
    <3>4. CASE k = n
      <4>1. e - n + (k + 1) = e + 1
        BY <1>1, <3>4
      <4> QED BY <1>4, <1>6, <3>2, <3>3, <3>4, <4>1
    <3>5. CASE k < n
      <4>1. k + 1 \in 1 .. n /\ e - n + (k + 1) \in 1 .. e
        BY <1>1, <3>1, <3>5
      <4> QED BY <1>2, <1>4, <1>6, <3>2, <3>3, <4>1
    <3> QED BY <1>1, <3>1, <3>4, <3>5
  <2>2. CASE ~(n + 1 > MaxHistory)
    <3>1. n = e /\ m = e + 1 /\ last = all
      BY <1>1, <1>c, <1>9, <2>2
    <3>2. s[k] = new[k]
      <4>1. (e + 1) - m + k = k
        BY <1>1, <3>1
      <4> QED BY <1>12, <4>1
    <3>3. CASE k = n + 1
      BY <1>4, <1>6, <3>1, <3>2, <3>3
    <3>4. CASE k \in 1 .. n
      <4>1. e - n + k = k
        BY <1>1, <3>1, <3>4
      <4> QED BY <1>2, <1>4, <1>6, <3>1, <3>2, <3>4, <4>1
    <3> QED BY <1>1, <3>1, <3>3, <3>4
  <2> QED BY <2>1, <2>2
<1>14. last = s
  BY <1>10, <1>12, <1>13, SeqEqual
<1> QED BY <1>5, <1>6, <1>7, <1>8, <1>10, <1>11, <1>14 DEF HistoryIsLatest

(***************************************************************************)
(* The lines the arrows can recall are the latest that were entered, in    *)
(* their order, and as many of them as the history may hold.               *)
(***************************************************************************)
THEOREM HistoryIsTheLatest == Spec => []HistoryIsLatest
<1>1. Init => HistoryIsLatest
  <2> SUFFICES ASSUME Init PROVE HistoryIsLatest
    OBVIOUS
  <2>1. last_typed_commands = <<>> /\ entered = <<>> /\ Len(entered) = 0
    BY DEF Init
  <2>2. SubSeq(entered, 1, 0) = <<>>
    BY <2>1
  <2> QED BY <2>1, <2>2, Constants DEF HistoryIsLatest
<1>2. (LineTyped /\ Shown /\ HistoryTyped) /\ HistoryIsLatest /\ [Next]_vars => HistoryIsLatest'
  <2> SUFFICES ASSUME LineTyped, HistoryTyped, HistoryIsLatest, [Next]_vars
               PROVE  HistoryIsLatest'
    OBVIOUS
  <2>1. CASE UNCHANGED <<last_typed_commands, entered>>
    BY <2>1 DEF HistoryIsLatest
  <2>2. CASE EvalLine
    <3>1. Text(buffer) \in Lines
      BY TextType DEF LineTyped
    <3> QED BY <2>1, <2>2, <3>1, RememberedIsLatest DEF EvalLine, readed_line, historyVars
  <2>3. CASE ~EvalLine
    <3>1. UNCHANGED <<last_typed_commands, entered>>
      BY <2>3 DEF Next, TypeCharacter, Backspace, Delete, Move, MoveTo, SkipWord, SkipTo,
           ArrowUp, ArrowDown, Tab, ClearScreen, CtrlC, OtherControl, UnknownKey, Enter, CtrlD,
           Done, editOnly, lineOnly, historyVars, vars
    <3> QED BY <2>1, <3>1
  <2> QED BY <2>2, <2>3
<1>3. Spec => [](LineTyped /\ Shown /\ HistoryTyped)
  BY EditorInvariance
<1> QED BY <1>1, <1>2, <1>3, PTL DEF Spec

------------------------------------------------------------------------------
(* The line editor does what Editing.tla says, key by key.  First lines,   *)
(* where characters are inserted and removed.                              *)

LEMMA InsertedAt ==
  ASSUME NEW s \in Seq(Characters), NEW i \in 1 .. Len(s) + 1, NEW c \in Characters
  PROVE  /\ Editor!InsertAt(s, i, c) \in Seq(Characters)
         /\ Len(Editor!InsertAt(s, i, c)) = Len(s) + 1
         /\ \A k \in 1 .. Len(s) + 1 : Editor!InsertAt(s, i, c)[k] =
              IF k < i THEN s[k] ELSE IF k = i THEN c ELSE s[k - 1]
<1>1. PICK u, v : u = SubSeq(s, 1, i - 1) /\ v = SubSeq(s, i, Len(s))
  OBVIOUS
<1>2. /\ u \in Seq(Characters) /\ Len(u) = i - 1 /\ \A k \in 1 .. i - 1 : u[k] = s[k]
  <2>1. 1 \in 1 .. Len(s) + 1 /\ i - 1 \in 1 - 1 .. Len(s)
    OBVIOUS
  <2> QED BY <1>1, <2>1, SubSeqProperties
<1>3. /\ v \in Seq(Characters) /\ Len(v) = Len(s) - i + 1
      /\ \A k \in 1 .. Len(s) - i + 1 : v[k] = s[i + k - 1]
  <2>1. i \in 1 .. Len(s) + 1 /\ Len(s) \in i - 1 .. Len(s)
    OBVIOUS
  <2> QED BY <1>1, <2>1, SubSeqProperties
<1>4. PICK w : w = u \o <<c>>
  OBVIOUS
<1>5. <<c>> \in Seq(Characters) /\ Len(<<c>>) = 1 /\ <<c>>[1] = c
  OBVIOUS
<1>6. w \in Seq(Characters) /\ Len(w) = i /\ w[i] = c /\ \A k \in 1 .. i - 1 : w[k] = s[k]
  <2>1. w \in Seq(Characters) /\ Len(w) = i
    BY <1>2, <1>4, <1>5, ConcatProperties
  <2>2. w[i] = c
    BY <1>2, <1>4, <1>5, <2>1, ConcatProperties
  <2>3. ASSUME NEW k \in 1 .. i - 1 PROVE w[k] = s[k]
    BY <1>2, <1>4, <1>5, <2>1, ConcatProperties
  <2> QED BY <2>1, <2>2, <2>3
<1>7. PICK x : x = w \o v
  OBVIOUS
<1>8. x \in Seq(Characters) /\ Len(x) = Len(s) + 1
  <2>1. x \in Seq(Characters) /\ Len(x) = Len(w) + Len(v)
    BY <1>3, <1>6, <1>7, ConcatProperties
  <2>2. i + (Len(s) - i + 1) = Len(s) + 1
    OBVIOUS
  <2> QED BY <1>3, <1>6, <2>1, <2>2
<1>9. ASSUME NEW k \in 1 .. Len(s) + 1
      PROVE  x[k] = IF k < i THEN s[k] ELSE IF k = i THEN c ELSE s[k - 1]
  <2>1. CASE k <= i
    <3>1. x[k] = w[k]
      BY <1>3, <1>6, <1>7, <1>8, <2>1, ConcatProperties
    <3> QED BY <1>6, <2>1, <3>1
  <2>2. CASE k > i
    <3>1. x[k] = v[k - i]
      BY <1>3, <1>6, <1>7, <1>8, <2>2, ConcatProperties
    <3>2. k - i \in 1 .. Len(s) - i + 1 /\ i + (k - i) - 1 = k - 1
      BY <2>2
    <3> QED BY <1>3, <2>2, <3>1, <3>2
  <2> QED BY <2>1, <2>2
<1>10. x = Editor!InsertAt(s, i, c)
  BY <1>1, <1>4, <1>7 DEF Editor!InsertAt
<1> QED BY <1>8, <1>9, <1>10

LEMMA RemovedAt ==
  ASSUME NEW s \in Seq(Characters), NEW i \in 1 .. Len(s)
  PROVE  /\ Editor!RemoveAt(s, i) \in Seq(Characters)
         /\ Len(Editor!RemoveAt(s, i)) = Len(s) - 1
         /\ \A k \in 1 .. Len(s) - 1 :
              Editor!RemoveAt(s, i)[k] = IF k < i THEN s[k] ELSE s[k + 1]
<1>1. PICK u, v : u = SubSeq(s, 1, i - 1) /\ v = SubSeq(s, i + 1, Len(s))
  OBVIOUS
<1>2. /\ u \in Seq(Characters) /\ Len(u) = i - 1 /\ \A k \in 1 .. i - 1 : u[k] = s[k]
  <2>1. 1 \in 1 .. Len(s) + 1 /\ i - 1 \in 1 - 1 .. Len(s)
    OBVIOUS
  <2> QED BY <1>1, <2>1, SubSeqProperties
<1>3. /\ v \in Seq(Characters) /\ Len(v) = Len(s) - i
      /\ \A k \in 1 .. Len(s) - i : v[k] = s[i + k]
  <2>1. i + 1 \in 1 .. Len(s) + 1 /\ Len(s) \in (i + 1) - 1 .. Len(s)
    OBVIOUS
  <2>2. v \in Seq(Characters) /\ Len(v) = Len(s) - i
    BY <1>1, <2>1, SubSeqProperties
  <2>3. ASSUME NEW k \in 1 .. Len(s) - i PROVE v[k] = s[i + k]
    <3>1. k \in 1 .. Len(s) - (i + 1) + 1 /\ (i + 1) + k - 1 = i + k
      OBVIOUS
    <3> QED BY <1>1, <2>1, <3>1, SubSeqProperties
  <2> QED BY <2>2, <2>3
<1>4. PICK x : x = u \o v
  OBVIOUS
<1>5. x \in Seq(Characters) /\ Len(x) = Len(s) - 1
  <2>1. x \in Seq(Characters) /\ Len(x) = Len(u) + Len(v)
    BY <1>2, <1>3, <1>4, ConcatProperties
  <2>2. (i - 1) + (Len(s) - i) = Len(s) - 1
    OBVIOUS
  <2> QED BY <1>2, <1>3, <2>1, <2>2
<1>6. ASSUME NEW k \in 1 .. Len(s) - 1 PROVE x[k] = IF k < i THEN s[k] ELSE s[k + 1]
  <2>1. CASE k < i
    <3>1. x[k] = u[k]
      BY <1>2, <1>3, <1>4, <1>5, <2>1, ConcatProperties
    <3> QED BY <1>2, <2>1, <3>1
  <2>2. CASE k >= i
    <3>1. x[k] = v[k - (i - 1)]
      BY <1>2, <1>3, <1>4, <1>5, <2>2, ConcatProperties
    <3>2. k - (i - 1) \in 1 .. Len(s) - i /\ i + (k - (i - 1)) = k + 1
      BY <2>2
    <3> QED BY <1>3, <2>2, <3>1, <3>2
  <2> QED BY <2>1, <2>2
<1>7. x = Editor!RemoveAt(s, i)
  BY <1>1, <1>4 DEF Editor!RemoveAt
<1> QED BY <1>5, <1>6, <1>7

\* The memmoves of the buffer insert and remove.
LEMMA PushAtInserts ==
  ASSUME NEW b, HoldsLine(b), b.index < MaxText, NEW c \in Characters, NEW i \in 0 .. b.index
  PROVE  Text(PushAt(b, c, i)) = Editor!InsertAt(Text(b), i + 1, c)
<1>1. PICK p : p = PushAt(b, c, i)
  OBVIOUS
<1>2. /\ HoldsLine(p) /\ p.index = b.index + 1 /\ b.index \in Nat
      /\ \A a \in 0 .. b.index : p.memory[a] =
           IF a < i THEN b.memory[a] ELSE IF a = i THEN c ELSE b.memory[a - 1]
  BY <1>1, PushAtHolds DEF HoldsLine, Buffers
<1>3. PICK t : t = Text(b)
  OBVIOUS
<1>4. /\ t \in Seq(Characters) /\ Len(t) = b.index
      /\ \A k \in 1 .. b.index : t[k] = b.memory[k - 1]
  BY <1>2, <1>3, TextType, TextAt
<1>5. PICK u : u = Text(p)
  OBVIOUS
<1>6. /\ u \in Seq(Characters) /\ Len(u) = b.index + 1
      /\ \A k \in 1 .. b.index + 1 : u[k] = p.memory[k - 1]
  <2>1. p.index \in Nat
    BY <1>2
  <2> QED BY <1>2, <1>5, <2>1, TextType, TextAt
<1>7. PICK w : w = Editor!InsertAt(t, i + 1, c)
  OBVIOUS
<1>8. /\ w \in Seq(Characters) /\ Len(w) = b.index + 1
      /\ \A k \in 1 .. b.index + 1 : w[k] =
           IF k < i + 1 THEN t[k] ELSE IF k = i + 1 THEN c ELSE t[k - 1]
  <2>1. PICK j \in 1 .. Len(t) + 1 : j = i + 1
    BY <1>2, <1>4
  <2>2. /\ w \in Seq(Characters) /\ Len(w) = Len(t) + 1
        /\ \A k \in 1 .. Len(t) + 1 : w[k] =
             IF k < j THEN t[k] ELSE IF k = j THEN c ELSE t[k - 1]
    <3>1. w = Editor!InsertAt(t, j, c)
      BY <1>7, <2>1
    <3>2. t \in Seq(Characters)
      BY <1>4
    <3>3. /\ Editor!InsertAt(t, j, c) \in Seq(Characters)
          /\ Len(Editor!InsertAt(t, j, c)) = Len(t) + 1
          /\ \A k \in 1 .. Len(t) + 1 : Editor!InsertAt(t, j, c)[k] =
               IF k < j THEN t[k] ELSE IF k = j THEN c ELSE t[k - 1]
      BY <3>2, InsertedAt
    <3> QED BY <3>1, <3>3
  <2> QED BY <1>4, <2>1, <2>2
<1>9. ASSUME NEW k \in 1 .. b.index + 1 PROVE u[k] = w[k]
  <2>1. k - 1 \in 0 .. b.index
    BY <1>2
  <2>2. u[k] = p.memory[k - 1]
    BY <1>6
  <2>3. CASE k < i + 1
    <3>1. k \in 1 .. b.index /\ k - 1 < i
      BY <1>2, <2>3
    <3> QED BY <1>2, <1>4, <1>8, <2>1, <2>2, <2>3, <3>1
  <2>4. CASE k = i + 1
    <3>1. k - 1 = i /\ ~(k - 1 < i) /\ ~(k < i + 1)
      BY <1>2, <2>4
    <3> QED BY <1>2, <1>8, <2>1, <2>2, <2>4, <3>1
  <2>5. CASE k > i + 1
    <3>1. k - 1 \in 1 .. b.index /\ ~(k - 1 < i) /\ k - 1 # i /\ ~(k < i + 1) /\ k # i + 1
      BY <1>2, <2>5
    <3>2. w[k] = t[k - 1] /\ p.memory[k - 1] = b.memory[(k - 1) - 1]
      BY <1>2, <1>8, <2>1, <3>1
    <3> QED BY <1>4, <2>2, <3>1, <3>2
  <2> QED BY <1>2, <2>3, <2>4, <2>5
<1>10. u = w
  BY <1>2, <1>6, <1>8, <1>9, SeqEqual
<1> QED BY <1>1, <1>3, <1>5, <1>7, <1>10

LEMMA PopAtRemoves ==
  ASSUME NEW b, HoldsLine(b), NEW i \in Nat, i < b.index
  PROVE  Text(PopAt(b, i)) = Editor!RemoveAt(Text(b), i + 1)
<1>1. PICK p : p = PopAt(b, i)
  OBVIOUS
<1>2. /\ HoldsLine(p) /\ p.index = b.index - 1 /\ b.index \in Nat /\ p.index \in Nat
      /\ \A a \in 0 .. b.index - 2 :
           p.memory[a] = IF a < i THEN b.memory[a] ELSE b.memory[a + 1]
  BY <1>1, PopAtHolds DEF HoldsLine, Buffers
<1>3. PICK t : t = Text(b)
  OBVIOUS
<1>4. /\ t \in Seq(Characters) /\ Len(t) = b.index
      /\ \A k \in 1 .. b.index : t[k] = b.memory[k - 1]
  BY <1>2, <1>3, TextType, TextAt
<1>5. PICK u : u = Text(p)
  OBVIOUS
<1>6. /\ u \in Seq(Characters) /\ Len(u) = b.index - 1
      /\ \A k \in 1 .. b.index - 1 : u[k] = p.memory[k - 1]
  BY <1>2, <1>5, TextType, TextAt
<1>7. PICK w : w = Editor!RemoveAt(t, i + 1)
  OBVIOUS
<1>8. /\ w \in Seq(Characters) /\ Len(w) = b.index - 1
      /\ \A k \in 1 .. b.index - 1 : w[k] = IF k < i + 1 THEN t[k] ELSE t[k + 1]
  <2>1. PICK j \in 1 .. Len(t) : j = i + 1
    BY <1>2, <1>4
  <2>2. /\ Editor!RemoveAt(t, j) \in Seq(Characters)
        /\ Len(Editor!RemoveAt(t, j)) = Len(t) - 1
        /\ \A k \in 1 .. Len(t) - 1 :
             Editor!RemoveAt(t, j)[k] = IF k < j THEN t[k] ELSE t[k + 1]
    <3>1. t \in Seq(Characters)
      BY <1>4
    <3> QED BY <3>1, RemovedAt
  <2>3. w = Editor!RemoveAt(t, j)
    BY <1>7, <2>1
  <2> QED BY <1>4, <2>1, <2>2, <2>3
<1>9. ASSUME NEW k \in 1 .. b.index - 1 PROVE u[k] = w[k]
  <2>1. k - 1 \in 0 .. b.index - 2 /\ u[k] = p.memory[k - 1]
    BY <1>2, <1>6
  <2>2. CASE k < i + 1
    <3>1. k \in 1 .. b.index /\ k - 1 < i
      BY <1>2, <2>2
    <3> QED BY <1>2, <1>4, <1>8, <2>1, <2>2, <3>1
  <2>3. CASE ~(k < i + 1)
    <3>1. k + 1 \in 1 .. b.index /\ ~(k - 1 < i) /\ (k - 1) + 1 = (k + 1) - 1
      BY <1>2, <2>3
    <3>2. w[k] = t[k + 1] /\ p.memory[k - 1] = b.memory[(k - 1) + 1]
      BY <1>2, <1>8, <2>1, <2>3, <3>1
    <3>3. t[k + 1] = b.memory[(k + 1) - 1]
      BY <1>4, <3>1
    <3> QED BY <2>1, <3>1, <3>2, <3>3
  <2> QED BY <2>2, <2>3
<1>10. u = w
  BY <1>2, <1>6, <1>8, <1>9, SeqEqual
<1> QED BY <1>1, <1>3, <1>5, <1>7, <1>10

------------------------------------------------------------------------------
(* The word motions. *)

LEMMA MaxIs ==
  ASSUME NEW n \in Nat, NEW S \in SUBSET (0 .. n), NEW m \in S, \A w \in S : w <= m
  PROVE  Max(S) = m
<1>1. Max(S) \in S /\ m <= Max(S)
  BY MaxOf
<1>2. \A w \in S : w \in Int
  OBVIOUS
<1>3. Max(S) <= m /\ Max(S) \in Int /\ m \in Int
  BY <1>1, <1>2
<1> QED BY <1>1, <1>3

LEMMA MinIs ==
  ASSUME NEW S \in SUBSET Nat, NEW m \in S, \A w \in S : m <= w
  PROVE  Min(S) = m
<1>1. Min(S) \in S /\ Min(S) <= m
  BY MinOf
<1>2. \A w \in S : w \in Int
  OBVIOUS
<1>3. m <= Min(S) /\ Min(S) \in Int /\ m \in Int
  BY <1>1, <1>2
<1> QED BY <1>1, <1>3

\* What the loops of the motions find.
LEMMA LeftLoopsFind ==
  ASSUME NEW p \in Nat
  PROVE  /\ \A q \in 0 .. p : q > SpacesLeft(p) => IsSpace(q)
         /\ IsSpace(SpacesLeft(p)) => SpacesLeft(p) = 0
         /\ \A q \in 0 .. p : q > WordLeft(p) => ~IsSpace(q)
         /\ ~IsSpace(WordLeft(p)) => WordLeft(p) = 0
<1> DEFINE S == {0} \cup {q \in 0 .. p : ~IsSpace(q)}
           W == {0} \cup {q \in 0 .. p : IsSpace(q)}
<1>1. S \in SUBSET (0 .. p) /\ S # {} /\ W \in SUBSET (0 .. p) /\ W # {}
  OBVIOUS
<1>2. /\ \A q \in 0 .. p : ~IsSpace(q) => q \in S
      /\ \A q \in S : q = 0 \/ ~IsSpace(q)
      /\ \A q \in 0 .. p : IsSpace(q) => q \in W
      /\ \A q \in W : q = 0 \/ IsSpace(q)
  OBVIOUS
<1>3. SpacesLeft(p) = Max(S) /\ WordLeft(p) = Max(W)
  BY DEF SpacesLeft, WordLeft
<1> HIDE DEF S, W
<1>4. /\ SpacesLeft(p) \in S /\ \A q \in S : q <= SpacesLeft(p)
      /\ WordLeft(p) \in W /\ \A q \in W : q <= WordLeft(p)
  BY <1>1, <1>3, MaxOf
<1>5. SpacesLeft(p) \in Int /\ WordLeft(p) \in Int
  BY LeftLoops
<1>6. ASSUME NEW q \in 0 .. p, q > SpacesLeft(p) PROVE IsSpace(q)
  <2>1. ~(q <= SpacesLeft(p))
    BY <1>5, <1>6
  <2> QED BY <1>2, <1>4, <2>1
<1>7. ASSUME NEW q \in 0 .. p, q > WordLeft(p) PROVE ~IsSpace(q)
  <2>1. ~(q <= WordLeft(p))
    BY <1>5, <1>7
  <2> QED BY <1>2, <1>4, <2>1
<1> QED BY <1>2, <1>4, <1>6, <1>7

LEMMA RightLoopsFind ==
  ASSUME NEW size \in Nat, NEW p \in 0 .. size
  PROVE  /\ \A q \in p .. size : q < SpacesRight(p, size) => IsSpace(q)
         /\ SpacesRight(p, size) < size => ~IsSpace(SpacesRight(p, size))
         /\ \A q \in p .. size : q < WordRight(p, size) => ~IsSpace(q)
         /\ WordRight(p, size) < size => IsSpace(WordRight(p, size))
<1> DEFINE S == {size} \cup {q \in p .. size : ~IsSpace(q)}
           W == {size} \cup {q \in p .. size : IsSpace(q)}
<1>1. S \in SUBSET Nat /\ S # {} /\ W \in SUBSET Nat /\ W # {}
  OBVIOUS
<1>2. /\ \A q \in p .. size : ~IsSpace(q) => q \in S
      /\ \A q \in S : q = size \/ ~IsSpace(q)
      /\ \A q \in p .. size : IsSpace(q) => q \in W
      /\ \A q \in W : q = size \/ IsSpace(q)
  OBVIOUS
<1>3. SpacesRight(p, size) = Min(S) /\ WordRight(p, size) = Min(W)
  BY DEF SpacesRight, WordRight
<1> HIDE DEF S, W
<1>4. /\ SpacesRight(p, size) \in S /\ \A q \in S : SpacesRight(p, size) <= q
      /\ WordRight(p, size) \in W /\ \A q \in W : WordRight(p, size) <= q
  BY <1>1, <1>3, MinOf
<1>5. SpacesRight(p, size) \in Int /\ WordRight(p, size) \in Int
  BY RightLoops
<1>6. ASSUME NEW q \in p .. size, q < SpacesRight(p, size) PROVE IsSpace(q)
  <2>1. ~(SpacesRight(p, size) <= q)
    BY <1>5, <1>6
  <2> QED BY <1>2, <1>4, <2>1
<1>7. ASSUME NEW q \in p .. size, q < WordRight(p, size) PROVE ~IsSpace(q)
  <2>1. ~(WordRight(p, size) <= q)
    BY <1>5, <1>7
  <2> QED BY <1>2, <1>4, <2>1
<1> QED BY <1>2, <1>4, <1>5, <1>6, <1>7

\* Whether a cell of the text is a space, and where words start and end.
LEMMA WordsOfTheLine ==
  ASSUME LineTyped
  PROVE  /\ \A w \in 0 .. buffer.index - 1 :
              Editor!WordStart(w) <=> ~IsSpace(w) /\ (w = 0 \/ IsSpace(w - 1))
         /\ \A w \in 1 .. buffer.index :
              Editor!WordEnd(w) <=> ~IsSpace(w - 1) /\ (w = buffer.index \/ IsSpace(w))
<1>1. HoldsLine(buffer) /\ buffer.index \in Nat
  BY DEF LineTyped, HoldsLine, Buffers
<1>2. PICK t : t = readed_line
  OBVIOUS
<1>3. Len(t) = buffer.index /\ \A k \in 1 .. buffer.index : t[k] = buffer.memory[k - 1]
  BY <1>1, <1>2, TextType, TextAt DEF readed_line
<1>4. ASSUME NEW k \in 1 .. buffer.index PROVE IsSpace(k - 1) <=> t[k] = Space
  BY <1>3, LineEditorAssumption DEF IsSpace, At
<1>5. ASSUME NEW w \in 0 .. buffer.index - 1
      PROVE  Editor!WordStart(w) <=> ~IsSpace(w) /\ (w = 0 \/ IsSpace(w - 1))
  <2>1. Editor!WordStart(w) <=> t[w + 1] # Space /\ (w = 0 \/ t[w] = Space)
    BY <1>2 DEF Editor!WordStart
  <2>2. w + 1 \in 1 .. buffer.index /\ (w + 1) - 1 = w
    BY <1>1
  <2>3. w # 0 => w \in 1 .. buffer.index
    BY <1>1
  <2>4. IsSpace(w) <=> t[w + 1] = Space
    BY <1>4, <2>2
  <2> QED BY <1>4, <2>1, <2>3, <2>4
<1>6. ASSUME NEW w \in 1 .. buffer.index
      PROVE  Editor!WordEnd(w) <=> ~IsSpace(w - 1) /\ (w = buffer.index \/ IsSpace(w))
  <2>1. Editor!WordEnd(w) <=> t[w] # Space /\ (w = buffer.index \/ t[w + 1] = Space)
    BY <1>2, <1>3 DEF Editor!WordEnd
  <2>2. w # buffer.index => w + 1 \in 1 .. buffer.index /\ (w + 1) - 1 = w
    BY <1>1
  <2>3. w # buffer.index => (IsSpace(w) <=> t[w + 1] = Space)
    BY <1>4, <2>2
  <2> QED BY <1>4, <2>1, <2>3
<1> QED BY <1>5, <1>6

\* The motion to the left, whatever lies in the cell after the text.
LEMMA LeftFindsTheWord ==
  ASSUME LineTyped
  PROVE  skip_word_to_the_left(buffer.index, cursor_position) = Editor!WordLeft
<1>1. PICK n, start : n = buffer.index /\ start = cursor_position
  OBVIOUS
<1>2. n \in Nat /\ start \in 0 .. n
  BY <1>1 DEF LineTyped, HoldsLine, Buffers
<1> DEFINE leaves == ~IsSpace(start) /\ start > 0 /\ IsSpace(start - 1)
<1>3. PICK a \in 0 .. n : a = IF leaves THEN start - 1 ELSE start
  BY <1>2
<1>4. PICK p : p = SpacesLeft(a)
  OBVIOUS
<1>5. /\ p \in 0 .. a /\ \A q \in 0 .. a : q > p => IsSpace(q)
      /\ IsSpace(p) => p = 0
  BY <1>4, LeftLoops, LeftLoopsFind
<1>6. PICK o : o = WordLeft(p)
  OBVIOUS
<1>7. /\ o \in 0 .. p /\ \A q \in 0 .. p : q > o => ~IsSpace(q)
      /\ ~IsSpace(o) => o = 0
  <2>1. p \in Nat
    BY <1>5
  <2> QED BY <1>6, <2>1, LeftLoops, LeftLoopsFind
<1>8. PICK q : q = IF IsSpace(p) THEN p ELSE o
  OBVIOUS
<1>9. PICK r : r = IF ~IsSpace(p) /\ p > 0 /\ IsSpace(q) /\ q < n - 1 THEN q + 1 ELSE q
  OBVIOUS
<1>10. skip_word_to_the_left(n, start) = r
  BY <1>3, <1>4, <1>6, <1>8, <1>9 DEF skip_word_to_the_left
<1> DEFINE Start(w) == ~IsSpace(w) /\ (w = 0 \/ IsSpace(w - 1))
           S == {0} \cup {w \in 0 .. start - 1 : Start(w)}
<1>11. r \in S /\ \A w \in S : w <= r
  <2>1. CASE IsSpace(p)
    <3>1. r = 0 /\ \A w \in 0 .. a : IsSpace(w)
      BY <1>5, <1>8, <1>9, <2>1
    <3>2. \A w \in 0 .. start - 1 : w \in 0 .. a
      BY <1>2, <1>3
    <3> QED BY <3>1, <3>2
  <2>2. CASE ~IsSpace(p) /\ ~IsSpace(o)
    <3>1. r = 0 /\ o = 0
      BY <1>7, <1>8, <1>9, <2>2
    <3>2. ASSUME NEW w \in 1 .. start - 1 PROVE ~Start(w)
      <4>1. w \in 0 .. a /\ w - 1 \in 0 .. a
        BY <1>2, <1>3
      <4>2. CASE w > p
        BY <1>5, <4>1, <4>2
      <4>3. CASE w <= p
        <5>1. w - 1 \in 0 .. p /\ (w - 1 > 0 \/ w - 1 = 0)
          BY <1>5, <4>1, <4>3
        <5>2. ~IsSpace(w - 1)
          BY <1>7, <2>2, <3>1, <5>1
        <5> QED BY <5>2
      <4> QED BY <1>5, <4>1, <4>2, <4>3
    <3> QED BY <1>2, <3>1, <3>2
  <2>3. CASE ~IsSpace(p) /\ IsSpace(o)
    <3>1. o < p /\ o + 1 \in 0 .. p /\ p > 0
      <4>1. o # p
        BY <2>3
      <4> QED BY <1>5, <1>7, <4>1
    <3>2. \A w \in 0 .. p : w > o => ~IsSpace(w)
      BY <1>7
    <3>3. ~IsSpace(o + 1)
      BY <1>7, <3>1
    <3>4. o + 1 <= start - 1
      <4>1. CASE leaves
        BY <1>2, <1>3, <1>5, <1>7, <3>1, <4>1
      <4>2. CASE ~leaves
        <5>1. a = start
          BY <1>3, <4>2
        <5>2. CASE o + 1 = start
          <6>1. p = start /\ start > 0 /\ start - 1 = o
            BY <1>2, <1>5, <1>7, <3>1, <5>1, <5>2
          <6> QED BY <2>3, <4>2, <6>1
        <5> QED BY <1>2, <1>5, <1>7, <3>1, <5>1, <5>2
      <4> QED BY <4>1, <4>2
    <3>5. r = o + 1
      <4>1. o < n - 1
        BY <1>2, <1>5, <1>7, <3>4
      <4> QED BY <1>8, <1>9, <2>3, <3>1, <4>1
    <3>6. r \in S
      <4>1. r \in 0 .. start - 1 /\ r - 1 = o
        BY <1>2, <1>5, <1>7, <3>4, <3>5
      <4> QED BY <2>3, <3>3, <3>5, <4>1
    <3>7. ASSUME NEW w \in 0 .. start - 1, w > o + 1 PROVE ~Start(w)
      <4>1. w \in 0 .. a /\ w - 1 \in 0 .. a /\ w - 1 > o /\ w # 0
        BY <1>2, <1>3, <1>5, <1>7, <3>7
      <4>2. CASE w > p
        BY <1>5, <4>1, <4>2
      <4>3. CASE w <= p
        <5>1. w - 1 \in 0 .. p
          BY <1>5, <4>1, <4>3
        <5> QED BY <3>2, <4>1, <5>1
      <4> QED BY <1>5, <4>1, <4>2, <4>3
    <3>8. ASSUME NEW w \in S PROVE w <= r
      BY <1>2, <1>5, <1>7, <3>5, <3>7
    <3> QED BY <3>6, <3>8
  <2> QED BY <2>1, <2>2, <2>3
<1>12. S \in SUBSET (0 .. n)
  BY <1>2
<1>13. {w \in 0 .. start - 1 : Editor!WordStart(w)} = {w \in 0 .. start - 1 : Start(w)}
  <2>1. ASSUME NEW w \in 0 .. start - 1 PROVE w \in 0 .. buffer.index - 1
    BY <1>1, <1>2
  <2> QED BY <2>1, WordsOfTheLine
<1>14. Editor!WordLeft = Max(S)
  <2>1. Editor!WordLeft = Max({0} \cup {w \in 0 .. start - 1 : Editor!WordStart(w)})
    BY <1>1 DEF Editor!WordLeft, Editor!Max, Max
  <2> QED BY <1>13, <2>1
<1> HIDE DEF S
<1>15. Max(S) = r
  BY <1>2, <1>11, <1>12, MaxIs
<1> QED BY <1>1, <1>10, <1>14, <1>15

\* The motion to the right.
LEMMA RightFindsTheWord ==
  ASSUME LineTyped
  PROVE  skip_word_to_the_right(buffer.index, cursor_position) = Editor!WordRight
<1>1. PICK n, start : n = buffer.index /\ start = cursor_position
  OBVIOUS
<1>2. n \in Nat /\ start \in 0 .. n
  BY <1>1 DEF LineTyped, HoldsLine, Buffers
<1> DEFINE leaves == ~IsSpace(start) /\ start < n /\ IsSpace(start + 1)
<1>3. PICK a \in 0 .. n : a = IF leaves THEN start + 1 ELSE start
  BY <1>2
<1>4. PICK p : p = SpacesRight(a, n)
  OBVIOUS
<1>5. /\ p \in a .. n /\ \A q \in a .. n : q < p => IsSpace(q)
      /\ p < n => ~IsSpace(p)
  BY <1>2, <1>4, RightLoops, RightLoopsFind
<1>6. PICK r : r = WordRight(p, n)
  OBVIOUS
<1>7. /\ r \in p .. n /\ \A q \in p .. n : q < r => ~IsSpace(q)
      /\ r < n => IsSpace(r)
  <2>1. p \in 0 .. n
    BY <1>2, <1>5
  <2> QED BY <1>2, <1>6, <2>1, RightLoops, RightLoopsFind
<1>8. skip_word_to_the_right(n, start) = r
  BY <1>3, <1>4, <1>6 DEF skip_word_to_the_right
<1> DEFINE End(w) == ~IsSpace(w - 1) /\ (w = n \/ IsSpace(w))
           S == {n} \cup {w \in start + 2 .. n : End(w)}
<1>9. r \in S
  <2>1. CASE r = n
    BY <2>1
  <2>2. CASE r < n
    <3>1. IsSpace(r) /\ ~IsSpace(p) /\ p < r
      <4>1. IsSpace(r) /\ p < n
        BY <1>2, <1>3, <1>5, <1>7, <2>2
      <4>2. p # r
        BY <1>5, <4>1
      <4> QED BY <1>2, <1>3, <1>5, <1>7, <4>1, <4>2
    <3>2. ~IsSpace(r - 1)
      <4>1. r - 1 \in p .. n /\ r - 1 < r
        BY <1>2, <1>3, <1>5, <1>7, <3>1
      <4> QED BY <1>7, <4>1
    <3>3. r >= start + 2
      <4>1. CASE leaves
        BY <1>2, <1>3, <1>5, <1>7, <3>1, <4>1
      <4>2. CASE ~leaves
        <5>1. a = start
          BY <1>3, <4>2
        <5>2. CASE r = start + 1
          <6>1. p = start /\ start < n
            BY <1>2, <1>5, <1>7, <2>2, <3>1, <5>1, <5>2
          <6> QED BY <3>1, <4>2, <5>2, <6>1
        <5> QED BY <1>2, <1>5, <1>7, <3>1, <5>1, <5>2
      <4> QED BY <4>1, <4>2
    <3>4. r \in start + 2 .. n
      BY <1>2, <1>3, <1>5, <1>7, <3>3
    <3> QED BY <3>1, <3>2, <3>4
  <2> QED BY <1>2, <1>3, <1>5, <1>7, <2>1, <2>2
<1>10. ASSUME NEW w \in S PROVE r <= w
  <2>1. CASE w = n
    BY <1>2, <1>3, <1>5, <1>7, <2>1
  <2>2. CASE w \in start + 2 .. n /\ End(w)
    <3>1. SUFFICES ASSUME w < r PROVE FALSE
      BY <1>2, <1>3, <1>5, <1>7, <2>2
    <3>2. w # n /\ IsSpace(w) /\ ~IsSpace(w - 1)
      BY <1>2, <1>3, <1>5, <1>7, <2>2, <3>1
    <3>3. CASE w >= p
      <4>1. w \in p .. n
        BY <1>2, <1>3, <1>5, <2>2, <3>3
      <4> QED BY <1>7, <3>1, <3>2, <4>1
    <3>4. CASE w < p
      <4>1. w - 1 \in a .. n /\ w - 1 < p
        BY <1>2, <1>3, <1>5, <2>2, <3>4
      <4> QED BY <1>5, <3>2, <4>1
    <3> QED BY <1>2, <1>3, <1>5, <2>2, <3>3, <3>4
  <2> QED BY <2>1, <2>2
<1>11. S \in SUBSET Nat
  BY <1>2
<1>12. {w \in start + 2 .. n : Editor!WordEnd(w)} = {w \in start + 2 .. n : End(w)}
  <2>1. ASSUME NEW w \in start + 2 .. n PROVE w \in 1 .. buffer.index
    BY <1>1, <1>2
  <2> QED BY <1>1, <2>1, WordsOfTheLine
<1>13. Editor!WordRight = Min(S)
  <2>1. Len(readed_line) = n
    BY <1>1, TextType DEF readed_line, LineTyped
  <2>2. Editor!WordRight = Min({n} \cup {w \in start + 2 .. n : Editor!WordEnd(w)})
    BY <1>1, <2>1 DEF Editor!WordRight, Editor!Min, Min
  <2> QED BY <1>12, <2>2
<1> HIDE DEF S
<1>14. Min(S) = r
  BY <1>9, <1>10, <1>11, MinIs
<1> QED BY <1>1, <1>8, <1>13, <1>14

------------------------------------------------------------------------------
(* Each key does what Editing says of it. *)

LEMMA EditIs ==
  ASSUME NEW t, NEW c, Text(buffer') = t, cursor_position' = c,
         UNCHANGED <<pc, entered, next_typed_command_to_show>>
  PROVE  Editor!Edit(t, c)
BY DEF Editor!Edit, Phase, readed_line

LEMMA Redrawn ==
  ASSUME NEW b, HoldsLine(b), Redraw(b)
  PROVE  Text(buffer') = Text(b)
BY ViewHolds DEF Redraw

LEMMA LineIs ==
  ASSUME LineTyped
  PROVE  /\ HoldsLine(buffer) /\ buffer.index \in Nat /\ cursor_position \in 0 .. buffer.index
         /\ readed_line = Text(buffer) /\ readed_line \in Seq(Characters)
         /\ Len(readed_line) = buffer.index
<1>1. HoldsLine(buffer) /\ buffer.index \in Nat /\ cursor_position \in 0 .. buffer.index
  BY DEF LineTyped, HoldsLine, Buffers
<1> QED BY <1>1, TextType DEF readed_line

LEMMA TypeCharacterImplements ==
  ASSUME LineTyped, TypeCharacter
  PROVE  Editor!Press
<1>1. PICK c \in Characters :
        LET b == PushAt(buffer, c, cursor_position) IN
        /\ Press(c) /\ buffer.index < MaxText
        /\ cursor_position' = cursor_position + 1
        /\ buffer' = b \/ buffer' = View(b)
        /\ UNCHANGED <<pc, entered, next_typed_command_to_show>>
  BY DEF TypeCharacter, historyVars
<1>2. PICK b : b = PushAt(buffer, c, cursor_position)
  OBVIOUS
<1>3. HoldsLine(b)
  BY <1>1, <1>2, LineIs, PushAtHolds
<1>4. Text(buffer') = Text(b)
  BY <1>1, <1>2, <1>3, ViewHolds
<1>5. Text(b) = Editor!InsertAt(readed_line, cursor_position + 1, c)
  BY <1>1, <1>2, LineIs, PushAtInserts
<1>6. Editor!Edit(Editor!InsertAt(readed_line, cursor_position + 1, c), cursor_position + 1)
  BY <1>1, <1>4, <1>5, EditIs
<1>7. key' = c /\ c \in Letters \cup {Space} /\ pc = "typing"
  BY <1>1 DEF Press, Characters
<1>8. Editor!Insert
  BY <1>6, <1>7 DEF Editor!Insert
<1> QED BY <1>7, <1>8 DEF Editor!Press, Phase

LEMMA BackspaceImplements ==
  ASSUME LineTyped, Backspace
  PROVE  Editor!Press
<1>1. key' = "BACKSPACE" /\ pc = "typing"
      /\ UNCHANGED <<pc, entered, next_typed_command_to_show>>
  BY DEF Backspace, Press, editOnly, historyVars
<1>2. CASE cursor_position >= 1
  <2>1. PICK b : b = PopAt(buffer, cursor_position - 1)
    OBVIOUS
  <2>2. cursor_position - 1 \in Nat /\ cursor_position - 1 < buffer.index
        /\ (cursor_position - 1) + 1 = cursor_position /\ cursor_position > 0
    BY <1>2, LineIs
  <2>3. HoldsLine(b) /\ Text(b) = Editor!RemoveAt(readed_line, cursor_position)
    BY <2>1, <2>2, LineIs, PopAtHolds, PopAtRemoves
  <2>4. cursor_position' = cursor_position - 1 /\ Redraw(b)
    BY <1>2, <2>1 DEF Backspace
  <2>5. Editor!Edit(Editor!RemoveAt(readed_line, cursor_position), cursor_position - 1)
    BY <1>1, <2>3, <2>4, Redrawn, EditIs
  <2> QED BY <1>1, <2>2, <2>5 DEF Editor!Press, Editor!Backspace, Phase
<1>3. CASE ~(cursor_position >= 1)
  <2>1. Editor!Edit(readed_line, cursor_position)
    BY <1>1, <1>3, EditIs DEF Backspace, readed_line
  <2>2. ~(cursor_position > 0)
    BY <1>3, LineIs
  <2> QED BY <1>1, <2>1, <2>2 DEF Editor!Press, Editor!Backspace, Phase
<1> QED BY <1>2, <1>3

\* DELETE compares the cursor with the allocation, so it may miss the last
\* character of a line that fills it.
LEMMA DeleteImplements ==
  ASSUME LineTyped, Delete
  PROVE  Editor!Press
<1>1. key' = "DELETE" /\ pc = "typing" /\ cursor_position' = cursor_position
      /\ UNCHANGED <<pc, entered, next_typed_command_to_show>>
  BY DEF Delete, Press, editOnly, historyVars
<1>2. buffer.buffer_size \in Nat /\ buffer.index <= buffer.buffer_size
  BY LineIs, SizeType DEF HoldsLine, Buffers
<1>3. CASE cursor_position < buffer.index /\ Deletable(cursor_position)
  <2>1. PICK b : b = PopAt(buffer, cursor_position)
    OBVIOUS
  <2>2. HoldsLine(b) /\ Text(b) = Editor!RemoveAt(readed_line, cursor_position + 1)
    <3>1. cursor_position \in Nat /\ cursor_position < buffer.index
      BY <1>3, LineIs
    <3>2. HoldsLine(buffer) /\ readed_line = Text(buffer)
      BY LineIs
    <3>3. HoldsLine(PopAt(buffer, cursor_position))
      BY <3>1, <3>2, PopAtHolds
    <3>4. Text(PopAt(buffer, cursor_position)) = Editor!RemoveAt(Text(buffer), cursor_position + 1)
      BY <3>1, <3>2, PopAtRemoves
    <3> QED BY <2>1, <3>2, <3>3, <3>4
  <2>3. Redraw(b)
    BY <1>3, <2>1 DEF Delete
  <2>4. Editor!Edit(Editor!RemoveAt(readed_line, cursor_position + 1), cursor_position)
    BY <1>1, <2>2, <2>3, Redrawn, EditIs
  <2> QED BY <1>1, <1>3, <2>4, LineIs DEF Editor!Press, Editor!Delete, Phase
<1>4. CASE ~(cursor_position < buffer.index /\ Deletable(cursor_position))
  <2>1. cursor_position >= Len(readed_line) - 1
    BY <1>2, <1>4, LineIs DEF Deletable
  <2>2. Text(buffer') = readed_line
    <3>1. CASE Deletable(cursor_position)
      <4>1. PopAt(buffer, cursor_position) = buffer
        <5>1. cursor_position \in Nat /\ cursor_position >= buffer.index
          BY <1>4, <3>1, LineIs
        <5> QED BY <5>1, LineIs, PopAtHolds
      <4>2. Redraw(buffer)
        BY <3>1, <4>1 DEF Delete
      <4> QED BY <4>2, LineIs, Redrawn
    <3>2. CASE ~Deletable(cursor_position)
      BY <3>2 DEF Delete, Place, readed_line
    <3> QED BY <3>1, <3>2
  <2>3. Editor!Edit(readed_line, cursor_position)
    BY <1>1, <2>2, EditIs
  <2> QED BY <1>1, <2>1, <2>3 DEF Editor!Press, Editor!Delete, Phase
<1> QED BY <1>3, <1>4

LEMMA MoveImplements ==
  ASSUME LineTyped, Move
  PROVE  Editor!Press
<1>1. pc = "typing" /\ UNCHANGED <<pc, entered, next_typed_command_to_show>>
      /\ Text(buffer') = readed_line
  BY DEF Move, MoveTo, Press, Place, editOnly, historyVars, readed_line
<1>2. ASSUME NEW p, cursor_position' = p PROVE Editor!Edit(readed_line, p)
  BY <1>1, <1>2, EditIs
<1>3. cursor_position > 0 \/ cursor_position = 0
  BY LineIs
<1>4. CASE key' \in {"ALT_UP", "ALT_DOWN"} /\ cursor_position' = cursor_position
  <2>1. Editor!Ignore
    BY <1>2, <1>4 DEF Editor!Ignore
  <2> QED BY <1>1, <2>1 DEF Editor!Press, Phase
<1>5. CASE ~(key' \in {"ALT_UP", "ALT_DOWN"} /\ cursor_position' = cursor_position)
  <2>1. Editor!Move
    BY <1>2, <1>3, <1>5, LineIs DEF Move, MoveTo, Press, Editor!Move
  <2> QED BY <1>1, <2>1 DEF Editor!Press, Phase
<1> QED BY <1>4, <1>5

LEMMA SkipWordImplements ==
  ASSUME LineTyped, SkipWord
  PROVE  Editor!Press
<1>1. pc = "typing" /\ UNCHANGED <<pc, entered, next_typed_command_to_show>>
  BY DEF SkipWord, SkipTo, Press, editOnly, historyVars
<1>2. Text(buffer') = readed_line
  BY LineIs, Redrawn DEF SkipWord, SkipTo, Place
<1>3. \/ key' = "ALT_LEFT" /\ cursor_position' = Editor!WordLeft
      \/ key' = "ALT_RIGHT" /\ cursor_position' = Editor!WordRight
  BY LeftFindsTheWord, RightFindsTheWord DEF SkipWord, SkipTo, Press
<1>4. Editor!Edit(readed_line, cursor_position')
  BY <1>1, <1>2, EditIs
<1>5. Editor!Move
  BY <1>3, <1>4 DEF Editor!Move
<1> QED BY <1>1, <1>5 DEF Editor!Press, Phase

\* The line the arrows show is the one Editing recalls.
LEMMA ShowRecalls ==
  ASSUME LineTyped, HistoryTyped, HistoryIsLatest,
         NEW n \in Nat, n < Len(last_typed_commands), Show(n), UNCHANGED <<pc, entered>>
  PROVE  Editor!Recall(n)
<1>1. PICK h, e : h = Len(last_typed_commands) /\ e = Len(entered)
  OBVIOUS
<1>2. h \in Nat /\ e \in Nat
  BY <1>1 DEF HistoryTyped
<1>3. last_typed_commands[h - n] = entered[e - n]
  <2>1. h - n \in 1 .. h /\ e - h + (h - n) = e - n
    BY <1>1, <1>2
  <2> QED BY <1>1, <2>1, LatestLines
<1>4. PICK s \in Lines : s = last_typed_commands[h - n]
  <2>1. h - n \in 1 .. h
    BY <1>1, <1>2
  <2> QED BY <1>1, <2>1 DEF HistoryTyped
<1>5. PICK b : b = PushAll(Clear(buffer), s)
  OBVIOUS
<1>6. HoldsLine(b) /\ b.index = Len(s) /\ Text(b) = s
  BY <1>4, <1>5, LineIs, RefillHolds
<1>7. cursor_position' = b.index /\ Redraw(b) /\ next_typed_command_to_show' = n
  BY <1>1, <1>4, <1>5 DEF Show
<1>8. Text(buffer') = s
  BY <1>6, <1>7, Redrawn
<1> QED BY <1>1, <1>3, <1>4, <1>6, <1>7, <1>8 DEF Editor!Recall, Phase, readed_line

LEMMA ArrowsImplement ==
  ASSUME LineTyped, HistoryTyped, HistoryIsLatest, ArrowUp \/ ArrowDown
  PROVE  Editor!Press
<1>1. /\ pc = "typing" /\ UNCHANGED <<pc, entered>>
      /\ next_typed_command_to_show \in Int /\ next_typed_command_to_show >= -1
      /\ Len(last_typed_commands) \in Nat
      /\ next_typed_command_to_show = -1 \/ next_typed_command_to_show < Len(last_typed_commands)
  BY DEF HistoryTyped, ArrowUp, ArrowDown, Press, historyVars
<1>2. Editor!Recallable = Len(last_typed_commands)
  BY DEF HistoryIsLatest, Editor!Recallable
<1>3. ASSUME UNCHANGED <<cursor_position, next_typed_command_to_show>> /\ Place(buffer)
      PROVE  Editor!Edit(readed_line, cursor_position)
  BY <1>1, <1>3, EditIs DEF Place, readed_line
<1>4. CASE ArrowUp
  <2>1. key' = "UP"
    BY <1>4 DEF ArrowUp, Press
  <2>2. HasOlder(next_typed_command_to_show)
        <=> next_typed_command_to_show + 1 < Editor!Recallable
    BY <1>1, <1>2 DEF HasOlder
  <2>3. CASE HasOlder(next_typed_command_to_show)
    <3>1. next_typed_command_to_show + 1 \in Nat
          /\ next_typed_command_to_show + 1 < Len(last_typed_commands)
      BY <1>1, <1>2, <2>2, <2>3
    <3>2. Show(next_typed_command_to_show + 1)
      BY <1>4, <2>3 DEF ArrowUp
    <3>3. Editor!Recall(next_typed_command_to_show + 1)
      BY <1>1, <3>1, <3>2, ShowRecalls
    <3> QED BY <1>1, <2>1, <2>2, <2>3, <3>3 DEF Editor!Press, Editor!Older, Phase
  <2>4. CASE ~HasOlder(next_typed_command_to_show)
    BY <1>1, <1>3, <1>4, <2>1, <2>2, <2>4 DEF ArrowUp, Editor!Press, Editor!Older, Phase
  <2> QED BY <2>3, <2>4
<1>5. CASE ArrowDown
  <2>1. key' = "DOWN"
    BY <1>5 DEF ArrowDown, Press
  <2>2. CASE next_typed_command_to_show > 0
    <3>1. next_typed_command_to_show - 1 \in Nat
          /\ next_typed_command_to_show - 1 < Len(last_typed_commands)
      BY <1>1, <2>2
    <3>2. Show(next_typed_command_to_show - 1)
      BY <1>5, <2>2 DEF ArrowDown
    <3>3. Editor!Recall(next_typed_command_to_show - 1)
      BY <1>1, <3>1, <3>2, ShowRecalls
    <3> QED BY <1>1, <2>1, <2>2, <3>3 DEF Editor!Press, Editor!Newer, Phase
  <2>3. CASE ~(next_typed_command_to_show > 0)
    BY <1>1, <1>3, <1>5, <2>1, <2>3 DEF ArrowDown, Editor!Press, Editor!Newer, Phase
  <2> QED BY <2>2, <2>3
<1> QED BY <1>4, <1>5

LEMMA EmptyIs ==
  ASSUME NEW b, HoldsLine(b)
  PROVE  b.index = 0 <=> Text(b) = <<>>
<1>1. Text(b) \in Seq(Characters) /\ Len(Text(b)) = b.index
  BY TextType
<1> QED BY <1>1

LEMMA OthersImplement ==
  ASSUME LineTyped,
         Tab \/ ClearScreen \/ CtrlC \/ OtherControl \/ UnknownKey \/ Enter \/ CtrlD
  PROVE  Editor!Press
<1>1. pc = "typing" /\ UNCHANGED <<entered, next_typed_command_to_show>>
  BY DEF Tab, ClearScreen, CtrlC, OtherControl, UnknownKey, Enter, CtrlD, Press, editOnly,
         lineOnly, historyVars
<1>2. Text(View(buffer)) = readed_line
  BY LineIs, ViewHolds
<1>3. CASE Tab \/ ClearScreen \/ OtherControl \/ (CtrlD /\ buffer.index # 0)
  <2>1. /\ UNCHANGED <<pc, cursor_position>> /\ Text(buffer') = readed_line
        /\ key' \in {"TAB", "CTRL_L", "CONTROL", "CTRL_D"}
        /\ key' = "CTRL_D" => buffer.index # 0
    BY <1>2, <1>3 DEF Tab, ClearScreen, OtherControl, CtrlD, Press, Redraw, editOnly, lineOnly,
         readed_line
  <2>2. Editor!Edit(readed_line, cursor_position)
    BY <1>1, <2>1, EditIs
  <2>3. key' = "CTRL_D" => readed_line # <<>>
    BY <2>1, LineIs, EmptyIs
  <2>4. Editor!Ignore
    BY <2>1, <2>2, <2>3 DEF Editor!Ignore
  <2> QED BY <1>1, <2>4 DEF Editor!Press, Phase
<1>4. CASE CtrlC
  <2>1. HoldsLine(Clear(buffer)) /\ Clear(buffer).index = 0
    <3>1. Clear(buffer) = [memory |-> buffer.memory, buffer_size |-> buffer.buffer_size,
                           index |-> 0]
      BY LineIs DEF Clear, HoldsLine, Buffers
    <3> QED BY <3>1, LineIs, Constants, SizeType DEF HoldsLine, Buffers
  <2>2. Text(buffer') = <<>>
    BY <1>4, <2>1, EmptyIs DEF CtrlC
  <2>3. key' = "CTRL_C" /\ pc' = pc /\ cursor_position' = 0
    BY <1>4 DEF CtrlC, Press, editOnly
  <2>4. Editor!Edit(<<>>, 0)
    BY <1>1, <2>2, <2>3, EditIs
  <2> QED BY <1>1, <2>3, <2>4 DEF Editor!Press, Editor!Forget, Phase
<1>5. CASE UnknownKey
  <2>1. key' = "UNKNOWN" /\ pc' = "aborted" /\ UNCHANGED <<buffer, cursor_position>>
    BY <1>5 DEF UnknownKey, Press
  <2>2. Editor!Abort
    BY <1>1, <2>1 DEF Editor!Abort, Phase, readed_line
  <2> QED BY <1>1, <2>2 DEF Editor!Press, Phase
<1>6. CASE Enter \/ (CtrlD /\ buffer.index = 0)
  <2>1. /\ pc' = "read_line" /\ Text(buffer') = readed_line /\ cursor_position' = cursor_position
        /\ key' = "ENTER" \/ (key' = "CTRL_D" /\ buffer.index = 0)
    BY <1>2, <1>6 DEF Enter, CtrlD, Press, lineOnly
  <2>2. buffer.index = 0 => readed_line = <<>>
    BY LineIs, EmptyIs
  <2>3. Editor!Submit
    BY <1>1, <2>1, <2>2 DEF Editor!Submit, Phase, readed_line
  <2> QED BY <1>1, <2>3 DEF Editor!Press, Phase
<1> QED BY <1>3, <1>4, <1>5, <1>6

------------------------------------------------------------------------------
(* The evaluation of the line. *)

\* The exit is requested by ctrl-D on an empty line, until the line has run.
ExitKnown ==
  /\ pc = "typing" => ~exit_requested
  /\ pc = "read_line" => /\ exit_requested <=> key = "CTRL_D"
                         /\ key = "CTRL_D" => buffer.index = 0

LEMMA ExitStaysKnown ==
  ASSUME LineTyped, HistoryTyped, ExitKnown, [Next]_vars
  PROVE  ExitKnown'
<1>1. CASE Enter \/ CtrlD
  <2>1. View(buffer).index = buffer.index
    BY LineIs, ViewHolds
  <2> QED BY <1>1, <2>1 DEF Enter, CtrlD, Press, ExitKnown, HistoryTyped
<1>2. CASE EvalLine
  BY <1>2 DEF EvalLine, StartLine, ExitKnown
<1>3. CASE Done \/ UNCHANGED vars
  BY <1>3 DEF Done, vars, ExitKnown
<1>4. CASE \/ TypeCharacter \/ Backspace \/ Delete \/ Move \/ SkipWord \/ ArrowUp \/ ArrowDown
           \/ Tab \/ ClearScreen \/ CtrlC \/ OtherControl \/ UnknownKey
  <2>1. pc = "typing" /\ pc' \in {"typing", "aborted"} /\ exit_requested' = exit_requested
    BY <1>4 DEF TypeCharacter, Backspace, Delete, Move, MoveTo, SkipWord, SkipTo, ArrowUp,
         ArrowDown, Tab, ClearScreen, CtrlC, OtherControl, UnknownKey, Press, editOnly
  <2> QED BY <2>1 DEF ExitKnown
<1> QED BY <1>1, <1>2, <1>3, <1>4 DEF Next

LEMMA EvalLineImplements ==
  ASSUME LineTyped, HistoryTyped, ExitKnown, EvalLine
  PROVE  Editor!Evaluate
<1>1. pc = "read_line" /\ key' = key /\ (exit_requested <=> key = "CTRL_D")
  BY DEF EvalLine, ExitKnown
<1>2. /\ Editor!Blank <=> is_only_spaces_or_empty
      /\ Editor!Continued <=> ends_with_backslash
  BY LineIs DEF Editor!Blank, Editor!Continued, is_only_spaces_or_empty, ends_with_backslash
<1>3. entered' = IF Editor!Blank \/ Editor!Continued THEN entered
                 ELSE Append(entered, readed_line)
  BY <1>2 DEF EvalLine, historyVars
<1>4. key = "CTRL_D" => Editor!Blank
  <2>1. key = "CTRL_D" => Len(readed_line) = 0
    BY <1>1, LineIs DEF ExitKnown
  <2> QED BY <2>1 DEF Editor!Blank
<1>5. CASE exit_requested'
  <2>1. pc' = "exited" /\ UNCHANGED <<buffer, cursor_position, next_typed_command_to_show>>
    BY <1>5 DEF EvalLine
  <2>2. key = "CTRL_D" \/ ~(Editor!Blank \/ Editor!Continued)
    BY <1>1, <1>2, <1>5 DEF EvalLine
  <2> QED BY <1>1, <1>3, <2>1, <2>2 DEF Editor!Evaluate, Phase, readed_line
<1>6. CASE ~exit_requested'
  <2>1. StartLine
    BY <1>6 DEF EvalLine
  <2>2. PICK heap \in Heaps : buffer' = CreateBuffer(heap)
    BY <2>1 DEF StartLine
  <2>3. Text(buffer') = <<>>
    BY <2>2, EmptyLine
  <2>4. pc' = "typing" /\ cursor_position' = 0 /\ next_typed_command_to_show' = -1
    BY <2>1 DEF StartLine
  <2>5. key # "CTRL_D"
    BY <1>1, <1>2, <1>4, <1>6 DEF EvalLine
  <2> QED BY <1>1, <1>3, <2>3, <2>4, <2>5 DEF Editor!Evaluate, Phase, readed_line
<1> QED BY <1>5, <1>6

------------------------------------------------------------------------------

(***************************************************************************)
(* Whatever is typed, pasted, recalled or lost on the way to the terminal, *)
(* every key of the line editor does to the line, the cursor and the       *)
(* history what Editing.tla says it does, or nothing at all.               *)
(***************************************************************************)
THEOREM EditorImplementsEditing == Spec => ImplementsEditing
<1> DEFINE Inv == (LineTyped /\ Shown /\ HistoryTyped) /\ HistoryIsLatest /\ ExitKnown
<1>1. Init => Editor!Init
  <2> SUFFICES ASSUME Init PROVE Editor!Init
    OBVIOUS
  <2>1. PICK heap \in Heaps : buffer = CreateBuffer(heap)
    BY DEF Init
  <2>2. readed_line = <<>>
    BY <2>1, EmptyLine DEF readed_line
  <2> QED BY <2>2 DEF Init, Editor!Init, Phase
<1>2. Inv /\ [Next]_vars => [Editor!Next]_Editor!vars
  <2> SUFFICES ASSUME Inv, [Next]_vars PROVE [Editor!Next]_Editor!vars
    OBVIOUS
  <2>1. CASE TypeCharacter
    BY <2>1, TypeCharacterImplements DEF Editor!Next
  <2>2. CASE Backspace
    BY <2>2, BackspaceImplements DEF Editor!Next
  <2>3. CASE Delete
    BY <2>3, DeleteImplements DEF Editor!Next
  <2>4. CASE Move
    BY <2>4, MoveImplements DEF Editor!Next
  <2>5. CASE SkipWord
    BY <2>5, SkipWordImplements DEF Editor!Next
  <2>6. CASE ArrowUp \/ ArrowDown
    BY <2>6, ArrowsImplement DEF Editor!Next
  <2>7. CASE Tab \/ ClearScreen \/ CtrlC \/ OtherControl \/ UnknownKey \/ Enter \/ CtrlD
    BY <2>7, OthersImplement DEF Editor!Next
  <2>8. CASE EvalLine
    BY <2>8, EvalLineImplements DEF Editor!Next
  <2>9. CASE Done \/ UNCHANGED vars
    BY <2>9 DEF Done, vars, historyVars, Editor!vars, Phase, readed_line
  <2> QED BY <2>1, <2>2, <2>3, <2>4, <2>5, <2>6, <2>7, <2>8, <2>9 DEF Next
<1>3. Init => ExitKnown
  BY DEF Init, ExitKnown
<1>4. (LineTyped /\ Shown /\ HistoryTyped) /\ ExitKnown /\ [Next]_vars => ExitKnown'
  BY ExitStaysKnown
<1>5. Spec => [](LineTyped /\ Shown /\ HistoryTyped)
  BY EditorInvariance
<1>6. Spec => []HistoryIsLatest
  BY HistoryIsTheLatest
<1>7. Spec => []ExitKnown
  BY <1>3, <1>4, <1>5, PTL DEF Spec
<1>8. Spec => []Inv
  BY <1>5, <1>6, <1>7, PTL
<1> HIDE DEF Inv
<1> QED BY <1>1, <1>2, <1>8, PTL DEF Spec, ImplementsEditing, Editor!Spec
==============================================================================
