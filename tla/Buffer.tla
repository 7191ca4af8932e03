-------------------------------- MODULE Buffer --------------------------------
(***************************************************************************)
(* The growable character buffer of src/buffer.c, as operators on a record:*)
(* the memory it lives in, how much of that memory is allocated, and how   *)
(* much holds text.                                                        *)
(*                                                                         *)
(* memory covers more than the allocation, so that a read or a write past  *)
(* the end has a meaning: what lies there is whatever malloc(3) left there.*)
(* realloc(3) keeps what was allocated and adds memory of that kind, so    *)
(* growing only moves buffer_size.                                         *)
(***************************************************************************)
EXTENDS Integers, Sequences

CONSTANTS
  Byte,        (* what a cell of the memory holds *)
  Whitespace,  (* the bytes of is_whitespace *)
  Nul,         (* the end of a C string *)
  GrouthBy,    (* LINE_BUFFER_SIZE: first size and growth of the buffer *)
  MaxBlocks    (* bound: allocations of that size *)

ASSUME BufferAssumption ==
  /\ Whitespace \subseteq Byte
  /\ Nul \in Byte \ Whitespace
  /\ GrouthBy \in Nat \ {0} /\ MaxBlocks \in Nat \ {0}

MaxAddress == GrouthBy * MaxBlocks
Addresses  == 0 .. MaxAddress
Sizes      == {GrouthBy * n : n \in 1 .. MaxBlocks}

Memories == [Addresses -> Byte]

Buffers == {b \in [memory : Memories, buffer_size : Sizes, index : Nat] :
              b.index <= b.buffer_size}

CreateBuffer(memory) == [memory |-> memory, buffer_size |-> GrouthBy, index |-> 0]

\* The characters of the buffer.
Text(b) == [k \in 1 .. b.index |-> b.memory[k - 1]]

EnsureNext_TooLate(b) ==
  IF b.index > b.buffer_size THEN [b EXCEPT !.buffer_size = @ + GrouthBy] ELSE b

\* buffer_ensure_enough_space_for_next_write
EnsureNext(b) ==
  IF b.index >= b.buffer_size THEN [b EXCEPT !.buffer_size = @ + GrouthBy] ELSE b

\* buffer_ensure_enough_space_for_next_n_writes grows in whole blocks.
EnsureNextN(b, n) ==
  LET enough == {s \in Sizes : s >= b.buffer_size /\ s >= b.index + n}
  IN [b EXCEPT !.buffer_size = CHOOSE s \in enough : \A t \in enough : s <= t]

\* buffer_push_at: the memmove makes room at i.
PushAt(b, c, i) ==
  LET e == EnsureNext(b)
  IN [e EXCEPT
       !.memory = [a \in Addresses |-> CASE a = i -> c
                                         [] a \in i + 1 .. e.index -> e.memory[a - 1]
                                         [] OTHER -> e.memory[a]],
       !.index = @ + 1]

\* buffer_pop_at: the memmove closes the gap; the last cell keeps its byte.
PopAt(b, i) ==
  IF i < b.index
  THEN [b EXCEPT
         !.memory = [a \in Addresses |-> IF a \in i .. b.index - 2 THEN @[a + 1] ELSE @[a]],
         !.index = @ - 1]
  ELSE b

\* buffer_clear: the memory keeps what it holds.
Clear(b) == [b EXCEPT !.index = 0]

\* buffer_push_all
PushAll(b, s) ==
  LET e == EnsureNextN(b, Len(s))
  IN [e EXCEPT
       !.memory = [a \in Addresses |->
                     IF a \in e.index .. e.index + Len(s) - 1 THEN s[a - e.index + 1]
                     ELSE e.memory[a]],
       !.index = @ + Len(s)]

\* buffer_ensure_null_terminated_view
View(b) == LET e == EnsureNext(b) IN [e EXCEPT !.memory[e.index] = Nul]
==============================================================================
