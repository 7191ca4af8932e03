-------------------------------- MODULE Sorting --------------------------------
(***************************************************************************)
(* quick_sort_list, as used on the names of files.  Positions count from 0 *)
(* as in the code, so list[i] is the element i + 1 of a sequence.          *)
(***************************************************************************)
EXTENDS Integers, Sequences, SequencesExt, Functions

CONSTANT NamesInOrder   (* all names, in the order of strcmp(3) *)

ASSUME SortingAssumption ==
  NamesInOrder \in Seq(ToSet(NamesInOrder)) /\ IsInjective(NamesInOrder)

Rank(name) == CHOOSE k \in DOMAIN NamesInOrder : NamesInOrder[k] = name

\* strcmp(a, b) <= 0
NotAfter(a, b) == Rank(a) <= Rank(b)

At(list, i)      == list[i + 1]
Swap(list, i, j) == [list EXCEPT ![i + 1] = At(list, j), ![j + 1] = At(list, i)]

\* The last position j that is compared with the pivot.
LastCompared_ButOne(end) == end - 2
LastCompared(end)        == end - 1

\* The list and the place of its pivot.
partition(list, begin, end) ==
  LET pivot == At(list, end)
      \* The list and i, when position j has been compared.
      scan[j \in begin - 1 .. LastCompared(end)] ==
        IF j = begin - 1 THEN [list |-> list, i |-> begin - 1]
        ELSE LET l == scan[j - 1]
             IN IF NotAfter(At(l.list, j), pivot)
                THEN [list |-> Swap(l.list, l.i + 1, j), i |-> l.i + 1]
                ELSE l
      last == scan[LastCompared(end)]
  IN [list |-> Swap(last.list, last.i + 1, end), i |-> last.i + 1]

Names == {NamesInOrder[k] : k \in DOMAIN NamesInOrder}

\* What a call is given: a list of n names and the range to be sorted.
Slice(list, begin, end) == [list |-> list, begin |-> begin, end |-> end]
Ranges(n) == [list : [1 .. n -> Names], begin : 0 .. n, end : -1 .. n - 1]

quick_sort_list(list, beginIndex, endIndex) ==
  LET n == Len(list)
      sort[r \in Ranges(n)] ==
        IF r.begin < r.end /\ r.begin >= 0
        THEN LET p    == partition(r.list, r.begin, r.end)
                 left == sort[Slice(p.list, r.begin, p.i - 1)]
             IN sort[Slice(left, p.i + 1, r.end)]
        ELSE r.list
  IN sort[Slice(list, beginIndex, endIndex)]
==============================================================================
