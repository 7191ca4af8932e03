----------------------------- MODULE TerminalInput -----------------------------
(***************************************************************************)
(* The bytes that come from the terminal, and who takes them.              *)
(*                                                                         *)
(* The editor reads bytes with read(2) from the kernel's queue, but the    *)
(* rest of an escape sequence and the answers of get_cursor_position with  *)
(* getchar(3), which moves all that is in the queue to a buffer read(2)    *)
(* does not see.  Keys and answers come down one wire, in pieces.  A read  *)
(* of an empty queue times out, and getchar never forgets that it did.     *)
(*                                                                         *)
(* The line being edited is left to LineEditor.tla: here a key is its      *)
(* bytes, and counts for what the loop of shell_wait_command_input does    *)
(* next.                                                                   *)
(***************************************************************************)
EXTENDS Integers, Sequences, SequencesExt, FiniteSets

CONSTANTS
  Characters,    (* bytes that are neither control characters nor ESC *)
  Bursts,        (* sequences of keys that may be sent together: keys, pastes *)
  RowDigit,      (* how the terminal writes the number of each of its rows *)
  ReportSize,    (* bytes get_cursor_position reads at most *)
  MaxBursts,     (* bound: bursts in a behaviour *)
  MaxDisturbed   (* bound: bursts after which no more follow what went wrong *)

ESC == "esc"
EOF == "eof"

\* The sequences try_process_escape_sequence knows; every other one ends in an
\* assertion, there or in handle_control_key_pressed.
KnownSequences ==
  {<<ESC, "[", c>> : c \in {"A", "B", "C", "D", "H", "F"}}
    \cup {<<ESC, "[", c, "~">> : c \in {"1", "3", "4", "7", "8"}}
    \cup {<<ESC, "[", "1", ";", "3", c>> : c \in {"A", "B", "C", "D"}}
    \cup {<<ESC, "O", c>> : c \in {"H", "F"}}

Controls == {"enter", "tab", "backspace", "ctrl_a", "ctrl_e", "ctrl_c", "ctrl_d", "ctrl_l",
             "control"}
Byte == Characters \cup Controls \cup {ESC}

Digits == {"0", "1", "2", "3", "4", "5", "6", "7", "8", "9"}

IsCharacter(key) == Len(key) = 1 /\ key[1] \in Characters
IsKnown(key)     == key \in KnownSequences \/ (Len(key) = 1 /\ key[1] # ESC)

ASSUME TerminalInputAssumption ==
  /\ EOF \notin Byte /\ Characters \cap Controls = {} /\ ESC \notin Characters
  /\ {"[", ";", "R"} \cup ToSet(RowDigit) \subseteq Characters
  /\ RowDigit \in Seq(Digits) \ {<<>>} /\ IsInjective(RowDigit)
  /\ Bursts \subseteq Seq(Seq(Byte) \ {<<>>}) \ {<<>>}
  /\ ReportSize \in Nat /\ ReportSize >= 6
  /\ {MaxBursts, MaxDisturbed} \subseteq Nat /\ MaxDisturbed <= MaxBursts

VARIABLES
  place,       (* what the shell does with input: see TypeOK *)
  got,         (* bytes of the escape sequence, or of the answer, read so far *)
  tty,         (* the kernel's queue *)
  stream,      (* the buffer of stdin, which only getchar reads *)
  eof,         (* its end-of-file indicator, which nothing clears *)
  wire,        (* sent by the terminal, not yet in the queue *)
  answers,     (* rows the terminal was asked for and has not sent *)
  cursor_row,  (* of the terminal's cursor *)
  line_row,    (* history: the row the edited line is on *)
  due,         (* history: bytes typed, not yet handled *)
  in_order,    (* history: they were handled in the order they were typed *)
  bursts,
  causes       (* history: what the user and the terminal did to the shell *)

inputVars  == <<tty, stream, eof, wire>>
screenVars == <<answers, cursor_row, line_row>>
dueVars    == <<due, in_order>>
userVars   == <<bursts, causes>>
vars == <<place, got, inputVars, screenVars, dueVars, userVars>>

Init ==
  /\ place = "waiting" /\ got = <<>>
  /\ tty = <<>> /\ stream = <<>> /\ eof = FALSE /\ wire = <<>>
  /\ answers = <<>> /\ cursor_row = 1 /\ line_row = 1
  /\ due = <<>> /\ in_order = TRUE
  /\ bursts = 0 /\ causes = {}

------------------------------------------------------------------------------
(* The user and the terminal. *)

Idle == place = "waiting" /\ <<tty, stream, wire, answers>> = <<<<>>, <<>>, <<>>, <<>>>>

\* A paste of characters may end in any key.
IsMixed(burst) == \E k \in 1 .. Len(burst) - 1 : ~IsCharacter(burst[k])

\* The column does not matter.
Report(row) == <<ESC, "[", RowDigit[row], ";", RowDigit[1], "R">>

\* Keys of one byte that neither begins nor ends an answer, and no more than fit
\* in front of one.
MayBeLost(burst) ==
  /\ \A k \in DOMAIN burst : Len(burst[k]) = 1 /\ burst[k][1] \notin {ESC, "R"}
  /\ Len(got \o stream \o tty \o wire \o FlattenSeq(burst)) + Len(Report(1)) <= ReportSize

UserTypes ==
  \E burst \in Bursts :
    /\ bursts < IF causes \subseteq {"hurried"} THEN MaxBursts ELSE MaxDisturbed
    /\ place \notin {"aborted", "exited"}
    /\ bursts' = bursts + 1
    /\ wire' = wire \o FlattenSeq(burst) /\ due' = due \o FlattenSeq(burst)
    /\ causes' = causes \cup {c \in {"hurried"} : ~Idle}
                        \cup {c \in {"rash"} : ~Idle /\ ~MayBeLost(burst)}
                        \cup {c \in {"mixed"} : IsMixed(burst)}
                        \cup {c \in {"unknown"} : ~\A k \in DOMAIN burst : IsKnown(burst[k])}
    /\ UNCHANGED <<place, got, tty, stream, eof, screenVars, in_order>>

TerminalAnswers ==
  /\ answers # <<>>
  /\ wire' = wire \o Report(Head(answers)) /\ answers' = Tail(answers)
  /\ UNCHANGED <<place, got, tty, stream, eof, cursor_row, line_row, dueVars, userVars>>

Deliver ==
  /\ wire # <<>>
  /\ tty' = Append(tty, Head(wire)) /\ wire' = Tail(wire)
  /\ UNCHANGED <<place, got, stream, eof, screenVars, dueVars, userVars>>

------------------------------------------------------------------------------
(* The shell: one byte of shell_wait_command_input. *)

NextRow(row) == IF row = Len(RowDigit) THEN row ELSE row + 1

StayOn(row) == cursor_row' = row /\ line_row' = row
NewLine     == StayOn(NextRow(cursor_row))

Handle(key) ==
  /\ in_order' = (in_order /\ IsPrefix(key, due))
  /\ due' = IF IsPrefix(key, due) THEN SubSeq(due, Len(key) + 1, Len(due)) ELSE due

\* get_cursor_position: the terminal answers with the row its cursor is on then.
Ask_BeforeDrawing ==
  place' = "reporting" /\ got' = <<>> /\ answers' = Append(answers, cursor_row)
Ask   == place' = "reporting" /\ got' = <<>> /\ answers' = Append(answers, cursor_row')
NoAsk == got' = <<>> /\ UNCHANGED answers

TakeCharacter_Asks(c) == c \in Characters /\ UNCHANGED <<cursor_row, line_row>> /\ Ask

\* After a character the loop looks whether the next one is already there.
TakeCharacter(c) ==
  c \in Characters /\ place' = "pasting" /\ NoAsk /\ UNCHANGED <<cursor_row, line_row>>

\* EOF, compared with a byte, is the byte 255, a control character here.
TakeEnter(c) == c = "enter" /\ place' = "evaluating" /\ NoAsk /\ NewLine

TakeTab(c) ==
  /\ c = "tab" /\ place' = "waiting" /\ NoAsk
  /\ \/ UNCHANGED <<cursor_row, line_row>>
     \/ StayOn(NextRow(NextRow(cursor_row)))

TakeControl(c) ==
  \/ c \in {"ctrl_a", "ctrl_e"} /\ UNCHANGED <<cursor_row, line_row>> /\ Ask
  \/ c = "ctrl_c" /\ NewLine /\ Ask
  \/ c = "ctrl_l" /\ StayOn(1) /\ Ask
  \/ /\ c = "backspace" /\ UNCHANGED <<cursor_row, line_row>>
     /\ Ask \/ (place' = "waiting" /\ NoAsk)
  \/ c = "ctrl_d" /\ place' = "exited" /\ NewLine /\ NoAsk
  \/ c \in {"ctrl_d", "control"} /\ place' = "waiting" /\ NoAsk
     /\ UNCHANGED <<cursor_row, line_row>>

TakeByte(c) ==
  \/ /\ c = ESC
     /\ place' = "escape" /\ got' = <<ESC>>
     /\ UNCHANGED <<screenVars, dueVars>>
  \/ /\ TakeCharacter(c) \/ TakeEnter(c) \/ TakeTab(c) \/ TakeControl(c)
     /\ Handle(<<c>>)

\* wait_to_read_a_byte, which waits for as long as it takes.
ReadByte ==
  /\ place = "waiting" /\ tty # <<>>
  /\ tty' = Tail(tty) /\ TakeByte(Head(tty))
  /\ UNCHANGED <<stream, eof, wire, userVars>>

\* The byte read for delayed_update is the next one handled.
ReadPasted_Dropped ==
  /\ place = "pasting" /\ tty # <<>>
  /\ tty' = Tail(tty) /\ UNCHANGED <<cursor_row, line_row>> /\ Ask
  /\ UNCHANGED <<stream, eof, wire, dueVars, userVars>>

ReadPasted ==
  /\ place = "pasting" /\ tty # <<>>
  /\ tty' = Tail(tty) /\ TakeByte(Head(tty))
  /\ UNCHANGED <<stream, eof, wire, userVars>>

TooLate == causes' = causes \cup {c \in {"late"} : wire # <<>> \/ answers # <<>>}

NothingPasted_GetChar ==
  /\ place = "pasting" /\ tty = <<>>
  /\ UNCHANGED <<cursor_row, line_row>> /\ Ask
  /\ TooLate /\ eof' = TRUE
  /\ UNCHANGED <<tty, stream, wire, dueVars, bursts>>

NothingPasted ==
  /\ place = "pasting" /\ tty = <<>>
  /\ UNCHANGED <<cursor_row, line_row>> /\ Ask
  /\ TooLate
  /\ UNCHANGED <<inputVars, dueVars, bursts>>

------------------------------------------------------------------------------
(* getchar. *)

Reading == place \in {"escape", "reporting"}

\* An empty buffer takes all that is in the queue, unless its end was seen.
Fill ==
  /\ Reading /\ stream = <<>> /\ ~eof /\ tty # <<>>
  /\ stream' = tty /\ tty' = <<>>
  /\ UNCHANGED <<place, got, eof, wire, screenVars, dueVars, userVars>>

\* The byte getchar returns: from the buffer, or EOF after a read timed out.
GetChar(c) ==
  /\ UNCHANGED <<tty, wire, bursts>>
  /\ \/ /\ stream # <<>> /\ c = Head(stream) /\ stream' = Tail(stream)
        /\ UNCHANGED <<eof, causes>>
     \/ /\ stream = <<>> /\ eof /\ c = EOF
        /\ UNCHANGED <<stream, eof, causes>>
     \/ /\ stream = <<>> /\ ~eof /\ tty = <<>> /\ c = EOF
        /\ eof' = TRUE /\ TooLate
        /\ UNCHANGED stream

ReadsOn(sequence) == \E known \in KnownSequences : IsStrictPrefix(sequence, known)

\* handle_control_key_pressed is followed by a question, whatever the key did.
EscapeByte ==
  /\ place = "escape"
  /\ \E c \in Byte \cup {EOF} :
       LET sequence == Append(got, c)
       IN /\ GetChar(c)
          /\ \/ /\ ReadsOn(sequence)
                /\ got' = sequence
                /\ UNCHANGED <<place, screenVars, dueVars>>
             \/ /\ sequence \in KnownSequences
                /\ Handle(sequence)
                /\ UNCHANGED <<cursor_row, line_row>> /\ Ask
             \/ /\ ~ReadsOn(sequence) /\ sequence \notin KnownSequences
                /\ place' = "aborted" /\ got' = <<>>
                /\ UNCHANGED <<screenVars, dueVars>>

\* The bytes kept of an answer: also those that say there was none.
Kept_NotTheEnd(c) == IF c = EOF THEN got ELSE Append(got, c)
Kept(c) == Append(got, c)

EndsReport_TooLate(bytes) == Len(bytes) > ReportSize
EndsReport(bytes) == Len(bytes) = ReportSize

\* sscanf "%d;%d" after ESC "[": what follows the second number is ignored.
IsReport(bytes) ==
  /\ Len(bytes) >= 5
  /\ bytes[1] = ESC /\ bytes[2] = "[" /\ bytes[4] = ";"
  /\ bytes[3] \in ToSet(RowDigit) /\ bytes[5] \in Digits
RowOf(bytes) == CHOOSE row \in DOMAIN RowDigit : RowDigit[row] = bytes[3]

\* Where the cursor is placed: nowhere if there was no answer.
RowAfter_Unchecked(bytes) == IF IsReport(bytes) THEN RowOf(bytes) ELSE 1
RowAfter(bytes) == IF IsReport(bytes) THEN RowOf(bytes) ELSE cursor_row

ReportByte ==
  /\ place = "reporting"
  /\ \E c \in Byte \cup {EOF} :
       LET bytes == Kept(c)
       IN /\ GetChar(c)
          /\ IF c = "R" \/ EndsReport(bytes)
             THEN /\ place' = "waiting" /\ got' = <<>>
                  /\ cursor_row' = RowAfter(bytes)
             ELSE /\ got' = bytes /\ UNCHANGED <<place, cursor_row>>
          /\ UNCHANGED <<answers, line_row, dueVars>>

------------------------------------------------------------------------------
(* The line runs. *)

\* Builtins, lines that are refused and blank lines leave the input alone.
EvalInShell ==
  /\ place = "evaluating"
  /\ place' = "waiting"
  /\ NewLine \/ UNCHANGED <<cursor_row, line_row>>
  /\ UNCHANGED <<got, inputVars, answers, dueVars, userVars>>

\* deactivate_raw_mode: TCSAFLUSH empties the queue, not the buffer of stdin.
RunProgram ==
  /\ place = "evaluating"
  /\ place' = "running" /\ tty' = <<>>
  /\ UNCHANGED <<got, stream, eof, wire, screenVars, dueVars, userVars>>

ProgramReads ==
  /\ place = "running" /\ tty # <<>>
  /\ tty' = Tail(tty)
  /\ UNCHANGED <<place, got, stream, eof, wire, screenVars, dueVars, userVars>>

\* activate_raw_mode.
ProgramEnds ==
  /\ place = "running"
  /\ place' = "waiting" /\ tty' = <<>>
  /\ NewLine \/ UNCHANGED <<cursor_row, line_row>>
  /\ UNCHANGED <<got, stream, eof, wire, answers, dueVars, userVars>>

ShellStep == ReadByte \/ ReadPasted \/ NothingPasted \/ Fill \/ EscapeByte \/ ReportByte

\* The shell may wait for a key for ever.
Rests == place \in {"waiting", "aborted", "exited"} /\ UNCHANGED vars

Next == \/ UserTypes \/ TerminalAnswers \/ Deliver
        \/ ShellStep
        \/ EvalInShell \/ RunProgram \/ ProgramReads \/ ProgramEnds
        \/ Rests

\* The shell runs when it can, and a read of an empty queue times out; neither
\* the user nor the terminal has to do anything.
Spec == Init /\ [][Next]_vars /\ WF_vars(ShellStep)

------------------------------------------------------------------------------
(* Properties. *)

(***************************************************************************)
(* The types; get_cursor_position never reads more bytes than fit, and     *)
(* while a sequence is read it may still become a known one.               *)
(***************************************************************************)
TypeOK ==
  /\ place \in {"waiting", "pasting", "escape", "reporting", "evaluating", "running",
                "aborted", "exited"}
  /\ got \in Seq(Byte \cup {EOF})
  /\ place = "reporting" => Len(got) < ReportSize
  /\ place = "escape" => ReadsOn(got)
  /\ ~Reading => got = <<>>
  /\ {tty, stream, wire, due} \subseteq Seq(Byte)
  /\ eof \in BOOLEAN /\ in_order \in BOOLEAN
  /\ answers \in Seq(DOMAIN RowDigit)
  /\ {cursor_row, line_row} \subseteq DOMAIN RowDigit
  /\ bursts \in 0 .. MaxBursts
  /\ causes \subseteq {"hurried", "rash", "mixed", "unknown", "late"}

\* The user waits for the shell, sends keys it knows one by one or pastes
\* characters, and no byte comes later than a read waits for it.
Undisturbed == causes = {}

\* Characters, the last of which may be another key.
IsTyped(bytes) ==
  bytes = <<>> \/ \E n \in 0 .. Len(bytes) - 1 :
    /\ \A k \in 1 .. n : bytes[k] \in Characters
    /\ IsKnown(SubSeq(bytes, n + 1, Len(bytes)))

InFlight == stream \o tty \o wire

(***************************************************************************)
(* Undisturbed, keys and answers are never on their way together: while    *)
(* the shell waits for an answer it is the only one, not read to its end,  *)
(* and nothing typed is left; when it does not, what is on its way is the  *)
(* rest of one burst, of which an escape sequence that was begun is the    *)
(* last key.                                                               *)
(***************************************************************************)
WireInv ==
  Undisturbed =>
    /\ in_order /\ ~eof /\ place # "aborted" /\ cursor_row = line_row
    /\ IF place = "reporting"
       THEN /\ due = <<>>
            /\ \/ answers = <<cursor_row>> /\ got \o InFlight = <<>>
               \/ answers = <<>> /\ got \o InFlight = Report(cursor_row) /\ InFlight # <<>>
       ELSE answers = <<>> /\ due = got \o InFlight
    /\ place \in {"waiting", "pasting"} => stream = <<>> /\ IsTyped(InFlight)
    /\ place = "escape" => got \o InFlight \in KnownSequences
    /\ place \in {"evaluating", "running", "exited"} => InFlight = <<>>

(***************************************************************************)
(* Undisturbed, every byte typed becomes part of a key, once and in the    *)
(* order of typing, although two ways of reading take bytes from one queue *)
(* and answers come in between: no answer is taken for a key and no key    *)
(* for an answer.                                                          *)
(***************************************************************************)
EveryKeyInOrder ==
  Undisturbed =>
    /\ in_order
    /\ due = IF place = "reporting" THEN <<>> ELSE got \o stream \o tty \o wire

(***************************************************************************)
(* Undisturbed, no sequence of bytes runs into one of the assertions about *)
(* escape sequences, and the end-of-file indicator, after which every      *)
(* escape sequence would, is never set.                                    *)
(***************************************************************************)
AbortsOnlyDisturbed == Undisturbed => place # "aborted" /\ ~eof

(***************************************************************************)
(* Undisturbed, the cursor is never placed on another row than the line    *)
(* is on: every answer is the one to the latest question.                  *)
(***************************************************************************)
StaysOnItsRow == Undisturbed => cursor_row = line_row

(***************************************************************************)
(* A user who types ahead, with keys of one byte other than R and no more  *)
(* than fit in the buffer of an answer, can lose what is typed between a   *)
(* question and its answer, and nothing worse: the bytes in front of an    *)
(* answer make it none, those behind it stay in the buffer of stdin until  *)
(* the next question, and neither moves the line to another row, runs into *)
(* an assertion or ends the input.                                         *)
(***************************************************************************)
TypingAheadOnlyLosesKeys ==
  causes \subseteq {"hurried"} => cursor_row = line_row /\ place # "aborted" /\ ~eof

(***************************************************************************)
(* get_cursor_position returns, whatever is typed meanwhile and although   *)
(* the terminal may never answer.                                          *)
(***************************************************************************)
ReportEnds == place = "reporting" ~> place # "reporting"
==============================================================================
