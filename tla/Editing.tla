-------------------------------- MODULE Editing --------------------------------
(***************************************************************************)
(* What the line editor of the shell promises, key by key: a line of       *)
(* characters with a cursor in it, and the lines entered before, of which  *)
(* the latest can be recalled.                                             *)
(*                                                                         *)
(* LineEditor.tla implements this specification with a buffer that grows,  *)
(* memory that is never cleared and a history that forgets.                *)
(***************************************************************************)
EXTENDS Integers, Sequences, SequencesExt

CONSTANTS
  Letters,     (* characters that are not spaces *)
  Space,
  Backslash,   (* the letter that would continue a line *)
  MaxHistory   (* how many lines can be recalled *)

VARIABLES
  phase,     (* "typing", "evaluating", "over" *)
  key,       (* the last key pressed *)
  text,      (* the line *)
  cursor,    (* characters before the cursor *)
  entered,   (* every line that was run or refused by the parser *)
  recalled   (* how far back the recall is: -1 is not at all *)

vars == <<phase, key, text, cursor, entered, recalled>>

Recallable == IF Len(entered) < MaxHistory THEN Len(entered) ELSE MaxHistory

\* A word starts, or ends, between the first p characters and the others.
WordStart(p) == text[p + 1] # Space /\ (p = 0 \/ text[p] = Space)
WordEnd(p)   == text[p] # Space /\ (p = Len(text) \/ text[p + 1] = Space)

WordLeft == Max({0} \cup {p \in 0 .. cursor - 1 : WordStart(p)})

\* The end of a word at whose last character the cursor already is is passed.
WordRight == Min({Len(text)} \cup {p \in cursor + 2 .. Len(text) : WordEnd(p)})

Init ==
  /\ phase = "typing" /\ key = "none"
  /\ text = <<>> /\ cursor = 0
  /\ entered = <<>> /\ recalled = -1

Edit(t, c) == text' = t /\ cursor' = c /\ UNCHANGED <<phase, entered, recalled>>

Insert ==
  /\ key' \in Letters \cup {Space}
  /\ Edit(InsertAt(text, cursor + 1, key'), cursor + 1)

Backspace ==
  /\ key' = "BACKSPACE"
  /\ IF cursor > 0 THEN Edit(RemoveAt(text, cursor), cursor - 1) ELSE Edit(text, cursor)

\* DELETE may miss the last character: it does when the line fills its buffer.
Delete ==
  /\ key' = "DELETE"
  /\ \/ cursor < Len(text) /\ Edit(RemoveAt(text, cursor + 1), cursor)
     \/ cursor >= Len(text) - 1 /\ Edit(text, cursor)

Move ==
  \/ key' = "LEFT"       /\ Edit(text, IF cursor > 0 THEN cursor - 1 ELSE 0)
  \/ key' = "RIGHT"      /\ Edit(text, IF cursor < Len(text) THEN cursor + 1 ELSE cursor)
  \/ key' \in {"HOME", "CTRL_A"} /\ Edit(text, 0)
  \/ key' \in {"END", "CTRL_E"}  /\ Edit(text, Len(text))
  \/ key' = "ALT_LEFT"   /\ Edit(text, WordLeft)
  \/ key' = "ALT_RIGHT"  /\ Edit(text, WordRight)

Recall(r) ==
  /\ recalled' = r
  /\ text' = entered[Len(entered) - r]
  /\ cursor' = Len(text')
  /\ UNCHANGED <<phase, entered>>

Older ==
  /\ key' = "UP"
  /\ IF recalled + 1 < Recallable THEN Recall(recalled + 1) ELSE Edit(text, cursor)

Newer ==
  /\ key' = "DOWN"
  /\ IF recalled > 0 THEN Recall(recalled - 1) ELSE Edit(text, cursor)

\* The line is forgotten, the place in the history is not.
Forget == key' = "CTRL_C" /\ Edit(<<>>, 0)

\* Keys that change nothing, ctrl-D on a line that is not empty among them.
Ignore ==
  /\ key' \in {"TAB", "CTRL_L", "ALT_UP", "ALT_DOWN", "CONTROL", "CTRL_D"}
  /\ key' = "CTRL_D" => text # <<>>
  /\ Edit(text, cursor)

Submit ==
  /\ \/ key' = "ENTER"
     \/ key' = "CTRL_D" /\ text = <<>>
  /\ phase' = "evaluating"
  /\ UNCHANGED <<text, cursor, entered, recalled>>

\* An unknown key ends the program.
Abort ==
  /\ key' = "UNKNOWN"
  /\ phase' = "over"
  /\ UNCHANGED <<text, cursor, entered, recalled>>

Press ==
  /\ phase = "typing"
  /\ \/ Insert \/ Backspace \/ Delete \/ Move \/ Older \/ Newer
     \/ Forget \/ Ignore \/ Submit \/ Abort

Blank     == \A k \in 1 .. Len(text) : text[k] = Space
Continued == text # <<>> /\ text[Len(text)] = Backslash

\* Every line is remembered but those with nothing to run and those that would
\* be continued; ctrl-D and exit end the program.
Evaluate ==
  /\ phase = "evaluating"
  /\ entered' = IF Blank \/ Continued THEN entered ELSE Append(entered, text)
  /\ \/ /\ key # "CTRL_D"
        /\ phase' = "typing" /\ text' = <<>> /\ cursor' = 0 /\ recalled' = -1
     \/ /\ key = "CTRL_D" \/ ~(Blank \/ Continued)
        /\ phase' = "over"
        /\ UNCHANGED <<text, cursor, recalled>>
  /\ UNCHANGED key

Next == Press \/ Evaluate

Spec == Init /\ [][Next]_vars
==============================================================================
