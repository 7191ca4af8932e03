------------------------------ MODULE LineEditor ------------------------------
(***************************************************************************)
(* The line editor: shell_wait_command_input, with the keys that           *)
(* handle_control_key_pressed and the loop itself handle, and what         *)
(* read_eval_shell_loop does with the line and with the history.           *)
(*                                                                         *)
(* One action handles one key, from the read that returns it to the next   *)
(* read.  Besides the variables of the code there is the line of the       *)
(* terminal the editor draws on, which it never redraws when a character is*)
(* typed at the end, and on which it can place the cursor only when the    *)
(* terminal answers get_cursor_position.                                   *)
(***************************************************************************)
EXTENDS Buffer, FiniteSetsExt

CONSTANTS
  Letters,          (* characters that are not spaces *)
  Space,
  Backslash,        (* the letter that would continue a line *)
  Garbage,          (* what malloc(3) may leave in the memory it returns *)
  ReportMayBeLost,  (* whether get_cursor_position may fail *)
  MaxHistory,       (* HISTORY_MAX_ELEMENTS *)
  MaxText,          (* bound: characters of a line *)
  MaxEntered        (* bound: lines entered in a behaviour *)

Characters == Letters \cup {Space}

ASSUME LineEditorAssumption ==
  /\ Characters \subseteq Byte \ {Nul} /\ Space \notin Letters
  /\ Whitespace = {Space}
  /\ Garbage \subseteq Byte /\ Garbage # {}
  /\ ReportMayBeLost \in BOOLEAN
  /\ {MaxHistory, MaxText, MaxEntered} \subseteq Nat
  /\ MaxHistory > 0 /\ MaxText < MaxAddress

VARIABLES
  pc,                          (* "typing", "read_line", "exited", "aborted" *)
  buffer,                      (* the line; after the read, readed_line *)
  cursor_position,
  last_typed_commands,
  next_typed_command_to_show,
  exit_requested,
  drawn,                       (* characters on the terminal after the mark *)
  column,                      (* of the terminal's cursor, 0 after the mark *)
  lost_report,                 (* history: a report was lost since the line was drawn *)
  key,                         (* history: the last key *)
  entered                      (* history: every line added to the history *)

screenVars  == <<drawn, column, lost_report>>
historyVars == <<last_typed_commands, entered>>
vars == <<pc, buffer, cursor_position, next_typed_command_to_show, exit_requested, key,
          screenVars, historyVars>>

Heaps == [Addresses -> Garbage]

Init ==
  /\ pc = "typing" /\ key = "none"
  /\ \E heap \in Heaps : buffer = CreateBuffer(heap)
  /\ cursor_position = 0
  /\ last_typed_commands = <<>> /\ entered = <<>>
  /\ next_typed_command_to_show = -1
  /\ exit_requested = FALSE
  /\ drawn = <<>> /\ column = 0 /\ lost_report = FALSE

------------------------------------------------------------------------------
(* The terminal. *)

\* The line after a step that asks for no report.
Draw(line, col, lost) == drawn' = line /\ column' = col /\ lost_report' = lost

\* get_cursor_position, and set_cursor_position if it succeeds.
DrawAndPlace(line, col, lost) ==
  \/ Draw(line, cursor_position', lost)
  \/ ReportMayBeLost /\ Draw(line, col, TRUE)

\* What is on the line once c is written where the terminal's cursor is.
Written(c) ==
  [k \in 1 .. Max({Len(drawn), column + 1}) |->
     IF k = column + 1 THEN c ELSE IF k <= Len(drawn) THEN drawn[k] ELSE Space]

\* erase_line and print_input_mark with the whole line.
Redraw(b) == buffer' = View(b) /\ DrawAndPlace(Text(b), b.index, FALSE)

\* Nothing is redrawn, the cursor is placed.
Place(b) == buffer' = b /\ DrawAndPlace(drawn, column, lost_report)

Press(k) == pc = "typing" /\ key' = k

------------------------------------------------------------------------------
(* Typing. *)

AppendedAt_BeforeTheStep(b, p) == p = b.index - 2
AppendedAt(b, p)               == p + 1 = b.index

(***************************************************************************)
(* A character at the end of the line is written as it is; elsewhere the   *)
(* line is drawn again.  When the next byte is already there (a paste) the *)
(* cursor is not placed.                                                   *)
(***************************************************************************)
TypeCharacter ==
  \E c \in Characters :
    LET b == PushAt(buffer, c, cursor_position) IN
      /\ Press(c)
      /\ buffer.index < MaxText
      /\ cursor_position' = cursor_position + 1
      /\ IF AppendedAt(b, cursor_position)
         THEN /\ buffer' = b
              /\ \/ DrawAndPlace(Written(c), column + 1, lost_report)
                 \/ Draw(Written(c), column + 1, lost_report)
         ELSE /\ buffer' = View(b)
              /\ \/ DrawAndPlace(Text(b), b.index, FALSE)
                 \/ Draw(Text(b), b.index, FALSE)
      /\ UNCHANGED <<pc, next_typed_command_to_show, exit_requested, historyVars>>

editOnly == <<pc, next_typed_command_to_show, exit_requested, historyVars>>

Backspace ==
  /\ Press("BACKSPACE")
  /\ IF cursor_position >= 1
     THEN /\ cursor_position' = cursor_position - 1
          /\ Redraw(PopAt(buffer, cursor_position - 1))
     ELSE UNCHANGED <<buffer, cursor_position, screenVars>>
  /\ UNCHANGED editOnly

\* The bound is that of the allocation, not that of the text.
Deletable(p) == p < buffer.buffer_size - 1

Delete ==
  /\ Press("DELETE")
  /\ cursor_position' = cursor_position
  /\ IF Deletable(cursor_position)
     THEN Redraw(PopAt(buffer, cursor_position))
     ELSE Place(buffer)
  /\ UNCHANGED editOnly

------------------------------------------------------------------------------
(* Moving. *)

\* ARROW_LEFT, ARROW_RIGHT, HOME, END, ctrl-A, ctrl-E
MoveTo(k, p) ==
  /\ Press(k)
  /\ cursor_position' = p
  /\ Place(buffer)
  /\ UNCHANGED editOnly

Move ==
  \/ MoveTo("LEFT", IF cursor_position > 0 THEN cursor_position - 1 ELSE cursor_position)
  \/ MoveTo("RIGHT", IF cursor_position < buffer.index THEN cursor_position + 1
                     ELSE cursor_position)
  \/ MoveTo("HOME", 0)   \/ MoveTo("END", buffer.index)
  \/ MoveTo("CTRL_A", 0) \/ MoveTo("CTRL_E", buffer.index)
  \/ MoveTo("ALT_UP", cursor_position) \/ MoveTo("ALT_DOWN", cursor_position)

(***************************************************************************)
(* The loops of the word motions.  They look at the cell of the cursor     *)
(* before they compare it with the size, so they read the cell after the   *)
(* text, which holds a byte of an older line or lies past the allocation.  *)
(***************************************************************************)
At(p)      == buffer.memory[p]
IsSpace(p) == At(p) \in Whitespace

SpacesLeft(p) == Max({0} \cup {q \in 0 .. p : ~IsSpace(q)})
WordLeft(p)   == Max({0} \cup {q \in 0 .. p : IsSpace(q)})

SpacesRight(p, size) == Min({size} \cup {q \in p .. size : ~IsSpace(q)})
WordRight(p, size)   == Min({size} \cup {q \in p .. size : IsSpace(q)})

skip_word_to_the_left_StopsOnSpace(size, start) == WordLeft(SpacesLeft(start))

skip_word_to_the_left(size, start) ==
  LET leaves == ~IsSpace(start) /\ start > 0 /\ IsSpace(start - 1)
      p == SpacesLeft(IF leaves THEN start - 1 ELSE start)
      q == IF IsSpace(p) THEN p ELSE WordLeft(p)
  IN IF ~IsSpace(p) /\ p > 0 /\ IsSpace(q) /\ q < size - 1 THEN q + 1 ELSE q

skip_word_to_the_right(size, start) ==
  LET leaves == ~IsSpace(start) /\ start < size /\ IsSpace(start + 1)
  IN WordRight(SpacesRight(IF leaves THEN start + 1 ELSE start, size), size)

SkipTo(k, p) ==
  /\ Press(k)
  /\ cursor_position' = p
  /\ IF p # cursor_position THEN Redraw(buffer) ELSE Place(buffer)
  /\ UNCHANGED editOnly

SkipWord ==
  \/ SkipTo("ALT_LEFT", skip_word_to_the_left(buffer.index, cursor_position))
  \/ SkipTo("ALT_RIGHT", skip_word_to_the_right(buffer.index, cursor_position))

------------------------------------------------------------------------------
(* The history. *)

Show(n) ==
  /\ next_typed_command_to_show' = n
  /\ LET source == last_typed_commands[Len(last_typed_commands) - n]
         b == PushAll(Clear(buffer), source)
     IN cursor_position' = b.index /\ Redraw(b)

HasOlder_NotTheOldest(n) == n + 2 < Len(last_typed_commands)
HasOlder(n) == Len(last_typed_commands) > 0 /\ n > -2 /\ n + 1 < Len(last_typed_commands)

ArrowUp ==
  /\ Press("UP")
  /\ IF HasOlder(next_typed_command_to_show)
     THEN Show(next_typed_command_to_show + 1)
     ELSE UNCHANGED <<cursor_position, next_typed_command_to_show>> /\ Place(buffer)
  /\ UNCHANGED <<pc, exit_requested, historyVars>>

ArrowDown ==
  /\ Press("DOWN")
  /\ IF next_typed_command_to_show > 0
     THEN Show(next_typed_command_to_show - 1)
     ELSE UNCHANGED <<cursor_position, next_typed_command_to_show>> /\ Place(buffer)
  /\ UNCHANGED <<pc, exit_requested, historyVars>>

------------------------------------------------------------------------------
(* Other control keys. *)

\* The files of the directory are listed and the line is drawn below them; the
\* cursor is left at its end.
Tab ==
  /\ Press("TAB")
  /\ \/ buffer' = View(buffer) /\ Draw(Text(buffer), buffer.index, FALSE)
     \/ UNCHANGED <<buffer, screenVars>>
  /\ UNCHANGED <<cursor_position, editOnly>>

ClearScreen ==
  /\ Press("CTRL_L")
  /\ cursor_position' = cursor_position
  /\ Redraw(buffer)
  /\ UNCHANGED editOnly

\* The place in the history is kept.
CtrlC ==
  /\ Press("CTRL_C")
  /\ buffer' = Clear(buffer)
  /\ cursor_position' = 0
  /\ DrawAndPlace(<<>>, 0, FALSE)
  /\ UNCHANGED editOnly

OtherControl == Press("CONTROL") /\ UNCHANGED <<buffer, cursor_position, screenVars, editOnly>>

\* assert(false): a key the editor does not know.
UnknownKey ==
  /\ Press("UNKNOWN")
  /\ pc' = "aborted"
  /\ UNCHANGED <<buffer, cursor_position, next_typed_command_to_show, exit_requested,
                 screenVars, historyVars>>

lineOnly == <<cursor_position, next_typed_command_to_show, screenVars, historyVars>>

Enter ==
  /\ Press("ENTER") /\ Len(entered) < MaxEntered
  /\ buffer' = View(buffer)
  /\ pc' = "read_line"
  /\ UNCHANGED <<exit_requested, lineOnly>>

CtrlD ==
  /\ Press("CTRL_D")
  /\ IF buffer.index = 0
     THEN exit_requested' = TRUE /\ pc' = "read_line" /\ buffer' = View(buffer)
     ELSE UNCHANGED <<exit_requested, pc, buffer>>
  /\ UNCHANGED lineOnly

------------------------------------------------------------------------------
(* read_eval_shell_loop, around the execution of the line. *)

readed_line == Text(buffer)

is_only_spaces_or_empty == \A k \in 1 .. Len(readed_line) : readed_line[k] = Space
ends_with_backslash     == Len(readed_line) > 0 /\ readed_line[Len(readed_line)] = Backslash

Remembered_DropsLatest(line) ==
  IF Len(last_typed_commands) >= MaxHistory THEN last_typed_commands
  ELSE Append(last_typed_commands, line)

\* The oldest line is dropped when there is one too many.
Remembered(line) ==
  LET all == Append(last_typed_commands, line)
  IN IF Len(all) > MaxHistory THEN Tail(all) ELSE all

\* shell_wait_command_input, down to its loop.
StartLine ==
  /\ pc' = "typing"
  /\ \E heap \in Heaps : buffer' = CreateBuffer(heap)
  /\ cursor_position' = 0 /\ next_typed_command_to_show' = -1
  /\ Draw(<<>>, 0, FALSE)

\* A line of spaces and a line that would be continued are not remembered; any
\* other line is, after it ran, and running it may request the exit.
EvalLine ==
  /\ pc = "read_line"
  /\ IF is_only_spaces_or_empty \/ ends_with_backslash
     THEN UNCHANGED <<exit_requested, historyVars>>
     ELSE /\ \E requested \in BOOLEAN : exit_requested' = requested
          /\ last_typed_commands' = Remembered(readed_line)
          /\ entered' = Append(entered, readed_line)
  /\ IF exit_requested'
     THEN pc' = "exited" /\ UNCHANGED <<buffer, cursor_position, next_typed_command_to_show,
                                        screenVars>>
     ELSE StartLine
  /\ UNCHANGED key

Done == pc \in {"exited", "aborted"} /\ UNCHANGED vars

Next ==
  \/ TypeCharacter \/ Backspace \/ Delete \/ Move \/ SkipWord \/ ArrowUp \/ ArrowDown
  \/ Tab \/ ClearScreen \/ CtrlC \/ OtherControl \/ UnknownKey \/ Enter \/ CtrlD
  \/ EvalLine \/ Done

Spec == Init /\ [][Next]_vars

------------------------------------------------------------------------------
(* Properties. *)

Lines == {l \in Seq(Characters) : Len(l) <= MaxText}

Keys == Characters \cup
  {"none", "BACKSPACE", "DELETE", "LEFT", "RIGHT", "HOME", "END", "CTRL_A", "CTRL_E",
   "ALT_UP", "ALT_DOWN", "ALT_LEFT", "ALT_RIGHT", "UP", "DOWN", "TAB", "CTRL_L",
   "CTRL_C", "CONTROL", "UNKNOWN", "ENTER", "CTRL_D"}

(***************************************************************************)
(* The types, and the bounds that keep every access where it belongs: text *)
(* ends inside the allocation (Buffers), the cursor is inside the text,    *)
(* and the place in the history is the number of a line it holds.          *)
(***************************************************************************)
TypeOK ==
  /\ pc \in {"typing", "read_line", "exited", "aborted"}
  /\ buffer \in Buffers
  /\ buffer.index <= MaxText /\ readed_line \in Seq(Characters)
  /\ cursor_position \in 0 .. buffer.index
  /\ last_typed_commands \in Seq(Lines) /\ Len(last_typed_commands) <= MaxHistory
  /\ entered \in Seq(Lines)
  /\ next_typed_command_to_show \in -1 .. Len(last_typed_commands)
  /\ pc = "typing" =>
       next_typed_command_to_show = -1 \/ next_typed_command_to_show < Len(last_typed_commands)
  /\ exit_requested \in BOOLEAN
  /\ drawn \in Seq(Characters) /\ column \in Nat /\ lost_report \in BOOLEAN
  /\ key \in Keys

(***************************************************************************)
(* Unless the terminal failed to answer, the line on the terminal is the   *)
(* line in the buffer, although a character typed at the end of it is      *)
(* written without looking; what the user sees is what will run.  It rests *)
(* on the terminal's cursor being at the end of the line whenever that of  *)
(* the editor is, which paste, tab and ctrl-C must not break.              *)
(***************************************************************************)
ScreenShowsLine ==
  pc # "aborted" /\ ~lost_report =>
    /\ drawn = readed_line
    /\ cursor_position = buffer.index => column = Len(drawn)

\* The history is all that was entered, or the latest of it.
HistoryIsLatest ==
  LET n == Len(last_typed_commands)
  IN /\ n = IF Len(entered) < MaxHistory THEN Len(entered) ELSE MaxHistory
     /\ last_typed_commands = SubSeq(entered, Len(entered) - n + 1, Len(entered))

Phase == CASE pc = "typing"    -> "typing"
           [] pc = "read_line" -> "evaluating"
           [] OTHER            -> "over"

Editor == INSTANCE Editing
            WITH phase <- Phase, text <- readed_line, cursor <- cursor_position,
                 recalled <- next_typed_command_to_show

(***************************************************************************)
(* Every key does what Editing says it does, whatever older bytes the      *)
(* memory holds: the buffer is the line, the word motions find the words   *)
(* of the line, and the arrows recall the lines that were entered.         *)
(***************************************************************************)
ImplementsEditing == Editor!Spec
==============================================================================
