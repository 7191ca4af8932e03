--------------------------------- MODULE Lists ---------------------------------
(***************************************************************************)
(* The lists of list.macro.h: an allocation of internal_memory_size        *)
(* elements that grows before an element would not fit.                    *)
(***************************************************************************)
EXTENDS Integers, Sequences, SequencesExt

CONSTANTS ListSize, GrouthBy   (* of the lists made here, 1024 in the code *)

ASSUME ListsAssumption == ListSize \in Nat /\ GrouthBy \in Nat \ {0}

\* overrun: an element was written past the allocation.
CreateList == [size |-> ListSize, data |-> <<>>, overrun |-> FALSE]

\* ensure_enough_space, one step of growth.
EnsureSpace_TooLate(list) ==
  IF Len(list.data) > list.size THEN [list EXCEPT !.size = @ + GrouthBy] ELSE list
EnsureSpace(list) ==
  IF Len(list.data) >= list.size THEN [list EXCEPT !.size = @ + GrouthBy] ELSE list

\* ensure_enough_space_for_next_n_writes, as many steps as it takes.
EnsureSpaceFor(list, n) ==
  LET enough == {k \in 0 .. n : list.size + k * GrouthBy >= Len(list.data) + n}
  IN [list EXCEPT !.size = @ + Min(enough) * GrouthBy]

Written(list, values) ==
  [list EXCEPT !.data = @ \o values,
               !.overrun = @ \/ Len(list.data) + Len(values) > list.size]

Push(list, value)     == Written(EnsureSpace(list), <<value>>)
PushAll(list, values) == Written(EnsureSpaceFor(list, Len(values)), values)

\* list_of_strings_pop_at.
PopAt(list, index) ==
  IF index < Len(list.data) THEN [list EXCEPT !.data = RemoveAt(@, index + 1)] ELSE list
==============================================================================
