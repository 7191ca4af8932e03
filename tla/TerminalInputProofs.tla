--------------------------- MODULE TerminalInputProofs ---------------------------
(***************************************************************************)
(* Theorems about TerminalInput.tla: for any characters, any bursts of     *)
(* keys and pastes of any length, any number of rows of the terminal, and  *)
(* any size of the buffer its answers are read into.                       *)
(***************************************************************************)
EXTENDS TerminalInput, Recursion

------------------------------------------------------------------------------
(* Sequences. *)

\* Every byte that is compared somewhere, whether it can be typed or not.
Compared == Byte \cup {EOF, ESC, "[", ";", "R", "~", "O", "A", "B", "C", "D", "H", "F"} \cup Digits

LEMMA PrefixAt ==
  ASSUME NEW S, NEW s \in Seq(S), NEW t \in Seq(S)
  PROVE  IsPrefix(s, t) <=> Len(s) <= Len(t) /\ \A k \in 1 .. Len(s) : s[k] = t[k]
<1>1. PICK n : n = Len(s)
  OBVIOUS
<1>2. n \in Nat /\ Len(t) \in Nat
  BY <1>1
<1>3. SubSeq(s, 1, n) = s
  BY <1>1, SubSeqFull
<1>4. CASE n <= Len(t)
  <2>1. PICK p : p = SubSeq(t, 1, n)
    OBVIOUS
  <2>2. \A i \in 1 .. n : t[i] \in S
    BY <1>2, <1>4
  <2>3. p \in Seq(S) /\ Len(p) = n /\ \A k \in 1 .. n : p[k] = t[k]
    <3>1. p \in Seq(S) /\ Len(p) = n
      BY <1>2, <2>1, <2>2, SubSeqProperties
    <3>2. ASSUME NEW k \in 1 .. n PROVE p[k] = t[k]
      <4>1. 1 + k - 1 = k /\ k \in 1 .. n - 1 + 1
        BY <1>2
      <4> QED BY <1>2, <2>1, <2>2, <4>1, SubSeqProperties
    <3> QED BY <3>1, <3>2
  <2>4. s = p <=> \A k \in 1 .. n : s[k] = t[k]
    BY <1>1, <2>3, SeqEqual
  <2> QED BY <1>1, <1>3, <1>4, <2>1, <2>4 DEF IsPrefix
<1>5. CASE ~(n <= Len(t))
  BY <1>1, <1>5 DEF IsPrefix
<1> QED BY <1>4, <1>5

\* What is in flight does not change when bytes move from one place to the next.
Flight(a, b, w) == a \o b \o w
Behind(c, rest) == <<c>> \o rest

LEMMA FlightMoves ==
  ASSUME NEW S, NEW a \in Seq(S), NEW b \in Seq(S), NEW w \in Seq(S), w # <<>>
  PROVE  Flight(a, Append(b, Head(w)), Tail(w)) = Flight(a, b, w)
<1>1. Head(w) \in S /\ Tail(w) \in Seq(S) /\ w = <<Head(w)>> \o Tail(w)
  <2>1. Head(w) \in S /\ Tail(w) \in Seq(S)
    BY HeadTailProperties
  <2> QED BY <2>1
<1>2. PICK h, t : h = Head(w) /\ t = Tail(w)
  OBVIOUS
<1>3. <<h>> \in Seq(S) /\ t \in Seq(S) /\ w = <<h>> \o t /\ h \in S
  BY <1>1, <1>2
<1>4. Append(b, h) = b \o <<h>>
  BY <1>3, AppendIsConcat
<1>5. PICK ab : ab = a \o b
  OBVIOUS
<1>6. ab \in Seq(S)
  BY <1>5, ConcatProperties
<1>7. a \o (b \o <<h>>) = ab \o <<h>>
  BY <1>3, <1>5, ConcatAssociative
<1>8. (ab \o <<h>>) \o t = ab \o (<<h>> \o t)
  BY <1>3, <1>6, ConcatAssociative
<1> QED BY <1>2, <1>3, <1>4, <1>5, <1>7, <1>8 DEF Flight

LEMMA FlightFills ==
  ASSUME NEW S, NEW b \in Seq(S), NEW w \in Seq(S)
  PROVE  b \o <<>> \o w = <<>> \o b \o w
BY ConcatEmptySeq

\* A byte taken from the front of what is in flight.
LEMMA FlightTaken ==
  ASSUME NEW S, NEW a \in Seq(S), NEW b \in Seq(S), NEW w \in Seq(S)
  PROVE  /\ Flight(a, b, w) \in Seq(S)
         /\ a # <<>> => Flight(a, b, w) = Behind(Head(a), Flight(Tail(a), b, w))
         /\ a = <<>> /\ b = <<>> => Flight(a, b, w) = w
         /\ Flight(a, b, w) = <<>> => a = <<>> /\ b = <<>> /\ w = <<>>
<1>1. a \o b \in Seq(S) /\ a \o b \o w \in Seq(S)
  BY ConcatProperties
<1>2. ASSUME a # <<>> PROVE a \o b \o w = <<Head(a)>> \o (Tail(a) \o b \o w)
  <2>1. PICK h, t : h = Head(a) /\ t = Tail(a)
    OBVIOUS
  <2>2. h \in S /\ t \in Seq(S) /\ a = <<h>> \o t /\ <<h>> \in Seq(S)
    <3>1. h \in S /\ t \in Seq(S)
      BY <1>2, <2>1, HeadTailProperties
    <3> QED BY <1>2, <2>1, <3>1
  <2>3. (<<h>> \o t) \o b = <<h>> \o (t \o b) /\ t \o b \in Seq(S)
    BY <2>2, ConcatAssociative, ConcatProperties
  <2>4. (<<h>> \o (t \o b)) \o w = <<h>> \o ((t \o b) \o w)
    BY <2>2, <2>3, ConcatAssociative
  <2> QED BY <2>1, <2>2, <2>3, <2>4
<1>3. ASSUME a = <<>>, b = <<>> PROVE a \o b \o w = w
  BY <1>3, ConcatEmptySeq
<1>4. ASSUME a \o b \o w = <<>> PROVE a = <<>> /\ b = <<>> /\ w = <<>>
  BY <1>1, <1>4, ConcatEqualIffEmpty
<1> QED BY <1>1, <1>2, <1>3, <1>4 DEF Flight, Behind

LEMMA QueueTaken ==
  ASSUME NEW S, NEW a \in Seq(S), NEW b \in Seq(S), NEW w \in Seq(S), a = <<>>, b # <<>>
  PROVE  Flight(a, b, w) = Behind(Head(b), Flight(a, Tail(b), w))
<1>1. PICK h, t : h = Head(b) /\ t = Tail(b)
  OBVIOUS
<1>2. h \in S /\ t \in Seq(S) /\ b = <<h>> \o t /\ <<h>> \in Seq(S)
  <2>1. h \in S /\ t \in Seq(S)
    BY <1>1, HeadTailProperties
  <2> QED BY <1>1, <2>1
<1>3. (<<h>> \o t) \o w = <<h>> \o (t \o w)
  BY <1>2, ConcatAssociative
<1>4. a \o b = b /\ a \o t = t
  BY <1>2, ConcatEmptySeq
<1> QED BY <1>1, <1>2, <1>3, <1>4 DEF Flight, Behind

------------------------------------------------------------------------------
(* A burst is the concatenation of its keys. *)

\* The bytes of any burst.
LEMMA BurstType ==
  ASSUME NEW burst \in Bursts
  PROVE  FlattenSeq(burst) \in Seq(Byte)
<1>1. PICK n : n = Len(burst)
  OBVIOUS
<1>2. burst \in Seq(Seq(Byte)) /\ burst # <<>> /\ n \in Nat /\ n > 0
  <2>1. burst \in Seq(Seq(Byte) \ {<<>>}) /\ burst # <<>>
    BY TerminalInputAssumption
  <2>2. (Seq(Byte) \ {<<>>}) \subseteq Seq(Byte)
    OBVIOUS
  <2>3. burst \in Seq(Seq(Byte))
    BY <2>1, <2>2, SeqMonotonic
  <2>4. Len(burst) \in Nat /\ Len(burst) # 0
    BY <2>1, <2>3, EmptySeq
  <2> QED BY <1>1, <2>1, <2>3, <2>4
<1>3. PICK f : Flattens(burst, n, f) /\ FlattenSeq(burst) = f[n]
  BY <1>1, <1>2, FlattenIs
<1>4. \A i \in 1 .. n : f[i] = IF i = 1 THEN burst[i] ELSE f[i - 1] \o burst[i]
  <2>1. f = [i \in 1 .. n |-> IF i = 1 THEN burst[i] ELSE f[i - 1] \o burst[i]]
    BY <1>3 DEF Flattens
  <2> QED BY <2>1
<1> DEFINE Bad == {i \in 1 .. n : f[i] \notin Seq(Byte)}
<1>5. Bad = {}
  <2>1. SUFFICES ASSUME Bad # {} PROVE FALSE
    OBVIOUS
  <2>2. PICK i \in Bad : \A k \in Bad : i <= k
    <3>1. Bad \in SUBSET Nat
      OBVIOUS
    <3> HIDE DEF Bad
    <3> QED BY <2>1, <3>1, LeastOf
  <2>3. i \in 1 .. n /\ f[i] \notin Seq(Byte) /\ burst[i] \in Seq(Byte)
    BY <1>1, <1>2, <2>2
  <2>4. CASE i = 1
    BY <1>4, <2>3, <2>4
  <2>5. CASE i # 1
    <3>1. i - 1 \in 1 .. n /\ ~(i <= i - 1)
      BY <1>2, <2>3, <2>5
    <3>2. f[i - 1] \in Seq(Byte)
      BY <2>2, <3>1
    <3>3. f[i] = f[i - 1] \o burst[i]
      BY <1>4, <2>3, <2>5
    <3> QED BY <2>3, <3>2, <3>3, ConcatProperties
  <2> QED BY <2>4, <2>5
<1>6. n \in 1 .. n
  BY <1>2
<1> QED BY <1>3, <1>5, <1>6

------------------------------------------------------------------------------
(* The types. *)

LEMMA RowConstants ==
  /\ RowDigit \in Seq(Digits) /\ Len(RowDigit) \in Nat /\ Len(RowDigit) > 0
  /\ DOMAIN RowDigit = 1 .. Len(RowDigit) /\ 1 \in DOMAIN RowDigit
<1>1. RowDigit \in Seq(Digits) /\ RowDigit # <<>>
  BY TerminalInputAssumption
<1>2. Len(RowDigit) \in Nat /\ Len(RowDigit) # 0
  BY <1>1, EmptySeq
<1>3. DOMAIN RowDigit = 1 .. Len(RowDigit)
  BY <1>1, LenProperties
<1>4. 1 \in 1 .. Len(RowDigit)
  BY <1>2
<1> QED BY <1>1, <1>2, <1>3, <1>4

LEMMA RowBytes ==
  ASSUME NEW row \in DOMAIN RowDigit
  PROVE  RowDigit[row] \in Digits /\ RowDigit[row] \in Byte
<1>1. RowDigit[row] \in Digits
  BY RowConstants, ElementOfSeq
<1>2. ToSet(RowDigit) \subseteq Characters
  BY TerminalInputAssumption
<1>3. RowDigit[row] \in ToSet(RowDigit)
  BY DEF ToSet
<1> QED BY <1>1, <1>2, <1>3 DEF Byte

LEMMA ByteConstants == {ESC, "[", ";", "R"} \subseteq Byte /\ EOF \notin Byte
BY TerminalInputAssumption DEF Byte

LEMMA BoundConstants ==
  /\ ReportSize \in Nat /\ ReportSize >= 6
  /\ MaxBursts \in Nat /\ MaxDisturbed \in Nat /\ MaxDisturbed <= MaxBursts
BY TerminalInputAssumption

LEMMA ReportIs ==
  ASSUME NEW row \in DOMAIN RowDigit
  PROVE  /\ Report(row) \in Seq(Byte) /\ Len(Report(row)) = 6
         /\ Report(row)[1] = ESC /\ Report(row)[2] = "[" /\ Report(row)[3] = RowDigit[row]
         /\ Report(row)[4] = ";" /\ Report(row)[5] = RowDigit[1] /\ Report(row)[6] = "R"
<1>1. RowDigit[row] \in Byte /\ RowDigit[1] \in Byte
  BY RowConstants, RowBytes
<1>2. ESC \in Byte /\ "[" \in Byte /\ ";" \in Byte /\ "R" \in Byte
  BY ByteConstants
<1>3. PICK d, e : d = RowDigit[row] /\ e = RowDigit[1]
  OBVIOUS
<1>4. PICK r : r = <<ESC, "[", d, ";", e, "R">>
  OBVIOUS
<1>5. r \in Seq(Byte)
  <2>1. PICK a, b, c, f : a = ESC /\ b = "[" /\ c = ";" /\ f = "R"
    OBVIOUS
  <2>2. a \in Byte /\ b \in Byte /\ c \in Byte /\ d \in Byte /\ e \in Byte /\ f \in Byte
    BY <1>1, <1>2, <1>3, <2>1
  <2>3. <<a, b, d, c, e, f>> \in Seq(Byte)
    BY <2>2
  <2> QED BY <1>4, <2>1, <2>3
<1>6. Len(r) = 6
  BY <1>4
<1>7. r[1] = ESC /\ r[2] = "[" /\ r[3] = d /\ r[4] = ";" /\ r[5] = e /\ r[6] = "R"
  BY <1>4
<1>8. Report(row) = r
  BY <1>3, <1>4 DEF Report
<1> QED BY <1>3, <1>5, <1>6, <1>7, <1>8

LEMMA RowsType ==
  ASSUME NEW row \in DOMAIN RowDigit
  PROVE  NextRow(row) \in DOMAIN RowDigit
<1>1. PICK n \in Nat : n = Len(RowDigit)
  BY RowConstants
<1>2. row \in 1 .. n /\ DOMAIN RowDigit = 1 .. n
  BY <1>1, RowConstants
<1>3. row # n => row + 1 \in 1 .. n
  BY <1>2
<1> QED BY <1>1, <1>2, <1>3 DEF NextRow

LEMMA EscapeBegins == ReadsOn(<<ESC>>)
<1>1. PICK known : known = <<ESC, "[", "A">>
  OBVIOUS
<1>2. known \in KnownSequences
  BY <1>1 DEF KnownSequences
<1>3. <<ESC>> \in Seq({ESC, "[", "A"}) /\ known \in Seq({ESC, "[", "A"})
      /\ Len(<<ESC>>) = 1 /\ Len(known) = 3 /\ known[1] = ESC /\ <<ESC>>[1] = ESC
  BY <1>1
<1>4. IsPrefix(<<ESC>>, known) /\ known # <<ESC>>
  <2>1. \A k \in 1 .. 1 : <<ESC>>[k] = known[k]
    BY <1>3
  <2>2. PICK e : e = <<ESC>>
    OBVIOUS
  <2>3. e \in Seq({ESC, "[", "A"}) /\ Len(e) = 1 /\ \A k \in 1 .. Len(e) : e[k] = known[k]
    BY <1>3, <2>1, <2>2
  <2>4. IsPrefix(e, known)
    BY <1>3, <2>3, PrefixAt
  <2> QED BY <1>3, <2>2, <2>4
<1> QED BY <1>2, <1>4 DEF ReadsOn, IsStrictPrefix

LEMMA HandleType ==
  ASSUME due \in Seq(Byte), in_order \in BOOLEAN, NEW bytes, Len(bytes) \in Nat, Handle(bytes)
  PROVE  due' \in Seq(Byte) /\ in_order' \in BOOLEAN
<1>1. in_order' \in BOOLEAN
  BY DEF Handle, IsPrefix
<1>2. SubSeq(due, Len(bytes) + 1, Len(due)) \in Seq(Byte)
  <2>1. Len(bytes) + 1 \in Int /\ Len(due) \in Int
    OBVIOUS
  <2>2. \A i \in Len(bytes) + 1 .. Len(due) : due[i] \in Byte
    OBVIOUS
  <2> QED BY <2>1, <2>2, SubSeqProperties
<1> QED BY <1>1, <1>2 DEF Handle

\* The parts of TypeOK that a step of the shell changes.
ShellTyped ==
  /\ place \in {"waiting", "pasting", "escape", "reporting", "evaluating", "running",
                "aborted", "exited"}
  /\ got \in Seq(Byte \cup {EOF})
  /\ place = "reporting" => Len(got) < ReportSize
  /\ place = "escape" => ReadsOn(got)
  /\ ~Reading => got = <<>>
ScreenTyped == answers \in Seq(DOMAIN RowDigit)
               /\ cursor_row \in DOMAIN RowDigit /\ line_row \in DOMAIN RowDigit
DueTyped    == due \in Seq(Byte) /\ in_order \in BOOLEAN
InputTyped  == tty \in Seq(Byte) /\ stream \in Seq(Byte) /\ wire \in Seq(Byte) /\ eof \in BOOLEAN
UserTyped   == bursts \in 0 .. MaxBursts
               /\ causes \subseteq {"hurried", "rash", "mixed", "unknown", "late"}

LEMMA TypeParts == TypeOK <=> ShellTyped /\ ScreenTyped /\ DueTyped /\ InputTyped /\ UserTyped
BY DEF TypeOK, ShellTyped, ScreenTyped, DueTyped, InputTyped, UserTyped

\* A question, and a step that asks none.
LEMMA AskType ==
  ASSUME ScreenTyped, cursor_row' \in DOMAIN RowDigit, line_row' \in DOMAIN RowDigit,
         Ask \/ (NoAsk /\ place' \in {"waiting", "pasting", "evaluating", "exited"})
  PROVE  ShellTyped' /\ ScreenTyped'
<1>1. got' = <<>> /\ place' \in {"reporting", "waiting", "pasting", "evaluating", "exited"}
  BY DEF Ask, NoAsk
<1>2. ShellTyped'
  <2>1. got' \in Seq(Byte \cup {EOF}) /\ Len(got') = 0
    BY <1>1
  <2>2. Len(got') < ReportSize
    BY <2>1, BoundConstants
  <2> QED BY <1>1, <2>1, <2>2 DEF ShellTyped
<1>3. ScreenTyped'
  BY DEF ScreenTyped, Ask, NoAsk
<1> QED BY <1>2, <1>3

LEMMA TakeByteType ==
  ASSUME ScreenTyped, DueTyped, NEW c \in Byte, TakeByte(c)
  PROVE  ShellTyped' /\ ScreenTyped' /\ DueTyped'
<1>1. CASE /\ place' = "escape" /\ got' = <<ESC>> /\ UNCHANGED <<screenVars, dueVars>>
  <2>1. ESC \in Byte \cup {EOF}
    BY ByteConstants
  <2>2. <<ESC>> \in Seq(Byte \cup {EOF})
    BY <2>1
  <2>3. ShellTyped'
    BY <1>1, <2>2, EscapeBegins DEF ShellTyped, Reading
  <2> QED BY <1>1, <2>3 DEF ScreenTyped, DueTyped, screenVars, dueVars
<1>2. CASE (TakeCharacter(c) \/ TakeEnter(c) \/ TakeTab(c) \/ TakeControl(c)) /\ Handle(<<c>>)
  <2>1. DueTyped'
    <3>1. Len(<<c>>) \in Nat
      OBVIOUS
    <3> QED BY <1>2, <3>1, HandleType DEF DueTyped
  <2>2. /\ cursor_row \in DOMAIN RowDigit /\ line_row \in DOMAIN RowDigit
        /\ NextRow(cursor_row) \in DOMAIN RowDigit
        /\ NextRow(NextRow(cursor_row)) \in DOMAIN RowDigit
        /\ 1 \in DOMAIN RowDigit
    BY RowsType, RowConstants DEF ScreenTyped
  <2>3. cursor_row' \in DOMAIN RowDigit /\ line_row' \in DOMAIN RowDigit
    BY <1>2, <2>2 DEF TakeCharacter, TakeEnter, TakeTab, TakeControl, NewLine, StayOn
  <2>4. Ask \/ (NoAsk /\ place' \in {"waiting", "pasting", "evaluating", "exited"})
    BY <1>2 DEF TakeCharacter, TakeEnter, TakeTab, TakeControl
  <2> QED BY <2>1, <2>3, <2>4, AskType
<1> QED BY <1>1, <1>2 DEF TakeByte

\* What getchar returns, and what it leaves.
LEMMA GetCharType ==
  ASSUME InputTyped, UserTyped, NEW c, GetChar(c)
  PROVE  InputTyped' /\ UserTyped' /\ c \in Byte \cup {EOF}
<1>1. CASE stream # <<>> /\ c = Head(stream) /\ stream' = Tail(stream) /\ UNCHANGED <<eof, causes>>
  <2>1. Head(stream) \in Byte /\ Tail(stream) \in Seq(Byte)
    BY <1>1, HeadTailProperties DEF InputTyped
  <2> QED BY <1>1, <2>1 DEF GetChar, InputTyped, UserTyped
<1>2. CASE c = EOF /\ UNCHANGED <<stream, eof, causes>>
  BY <1>2 DEF GetChar, InputTyped, UserTyped
<1>3. CASE c = EOF /\ eof' = TRUE /\ TooLate /\ UNCHANGED stream
  BY <1>3 DEF GetChar, InputTyped, UserTyped, TooLate
<1> QED BY <1>1, <1>2, <1>3 DEF GetChar

LEMMA EscapeByteType ==
  ASSUME TypeOK, EscapeByte
  PROVE  TypeOK'
<1>1. ShellTyped /\ ScreenTyped /\ DueTyped /\ InputTyped /\ UserTyped /\ place = "escape"
  BY TypeParts DEF EscapeByte
<1>2. PICK c \in Byte \cup {EOF} :
        LET sequence == Append(got, c)
        IN /\ GetChar(c)
           /\ \/ /\ ReadsOn(sequence)
                 /\ got' = sequence
                 /\ UNCHANGED <<place, screenVars, dueVars>>
              \/ /\ sequence \in KnownSequences
                 /\ Handle(sequence)
                 /\ UNCHANGED <<cursor_row, line_row>> /\ Ask
              \/ /\ ~ReadsOn(sequence) /\ sequence \notin KnownSequences
                 /\ place' = "aborted" /\ got' = <<>>
                 /\ UNCHANGED <<screenVars, dueVars>>
  BY DEF EscapeByte
<1>3. InputTyped' /\ UserTyped'
  BY <1>1, <1>2, GetCharType
<1>4. SUFFICES ShellTyped' /\ ScreenTyped' /\ DueTyped'
  BY <1>3 DEF TypeOK, ShellTyped, ScreenTyped, DueTyped, InputTyped, UserTyped
<1>5. PICK sequence : sequence = Append(got, c)
  OBVIOUS
<1>6. sequence \in Seq(Byte \cup {EOF}) /\ Len(sequence) \in Nat
  BY <1>1, <1>5 DEF ShellTyped
<1>7. CASE ReadsOn(sequence) /\ got' = sequence /\ UNCHANGED <<place, screenVars, dueVars>>
  BY <1>1, <1>6, <1>7 DEF ShellTyped, ScreenTyped, DueTyped, Reading, screenVars, dueVars
<1>8. CASE Handle(sequence) /\ UNCHANGED <<cursor_row, line_row>> /\ Ask
  <2>1. DueTyped'
    BY <1>1, <1>6, <1>8, HandleType DEF DueTyped
  <2>2. cursor_row' \in DOMAIN RowDigit /\ line_row' \in DOMAIN RowDigit
    BY <1>1, <1>8 DEF ScreenTyped
  <2> QED BY <1>1, <1>8, <2>1, <2>2, AskType
<1>9. CASE place' = "aborted" /\ got' = <<>> /\ UNCHANGED <<screenVars, dueVars>>
  <2>1. <<>> \in Seq(Byte \cup {EOF})
    OBVIOUS
  <2> QED BY <1>1, <1>9, <2>1 DEF ShellTyped, ScreenTyped, DueTyped, Reading, screenVars, dueVars
<1> QED BY <1>2, <1>5, <1>7, <1>8, <1>9

LEMMA ReportByteType ==
  ASSUME TypeOK, ReportByte
  PROVE  TypeOK'
<1>1. ShellTyped /\ ScreenTyped /\ DueTyped /\ InputTyped /\ UserTyped /\ place = "reporting"
  BY TypeParts DEF ReportByte
<1>2. PICK c \in Byte \cup {EOF} :
        LET bytes == Kept(c)
        IN /\ GetChar(c)
           /\ IF c = "R" \/ EndsReport(bytes)
              THEN /\ place' = "waiting" /\ got' = <<>>
                   /\ cursor_row' = RowAfter(bytes)
              ELSE /\ got' = bytes /\ UNCHANGED <<place, cursor_row>>
           /\ UNCHANGED <<answers, line_row, dueVars>>
  BY DEF ReportByte
<1>3. InputTyped' /\ UserTyped'
  BY <1>1, <1>2, GetCharType
<1>4. SUFFICES ShellTyped' /\ ScreenTyped' /\ DueTyped'
  BY <1>3 DEF TypeOK, ShellTyped, ScreenTyped, DueTyped, InputTyped, UserTyped
<1>5. PICK bytes : bytes = Kept(c)
  OBVIOUS
<1>6. bytes \in Seq(Byte \cup {EOF}) /\ Len(bytes) = Len(got) + 1 /\ Len(got) \in Nat
      /\ Len(got) < ReportSize
  BY <1>1, <1>5 DEF ShellTyped, Kept
<1>7. IsReport(bytes) => RowOf(bytes) \in DOMAIN RowDigit
  <2>1. IsReport(bytes) => \E row \in DOMAIN RowDigit : RowDigit[row] = bytes[3]
    BY DEF IsReport, ToSet
  <2> QED BY <2>1 DEF RowOf
<1>8. CASE c = "R" \/ EndsReport(bytes)
  <2>1. place' = "waiting" /\ got' = <<>> /\ cursor_row' \in DOMAIN RowDigit
        /\ UNCHANGED <<answers, line_row, dueVars>>
    BY <1>1, <1>2, <1>5, <1>7, <1>8 DEF ScreenTyped, RowAfter
  <2>2. <<>> \in Seq(Byte \cup {EOF})
    OBVIOUS
  <2> QED BY <1>1, <2>1, <2>2 DEF ShellTyped, ScreenTyped, DueTyped, dueVars
<1>9. CASE ~(c = "R" \/ EndsReport(bytes))
  <2>1. got' = bytes /\ UNCHANGED <<place, cursor_row, answers, line_row, dueVars>>
    BY <1>2, <1>5, <1>9
  <2>2. Len(bytes) < ReportSize
    BY <1>6, <1>9, BoundConstants DEF EndsReport
  <2> QED BY <1>1, <1>6, <2>1, <2>2 DEF ShellTyped, ScreenTyped, DueTyped, Reading, dueVars
<1> QED BY <1>8, <1>9

LEMMA UserTypesType ==
  ASSUME TypeOK, UserTypes
  PROVE  TypeOK'
<1>1. PICK burst \in Bursts :
        /\ bursts < IF causes \subseteq {"hurried"} THEN MaxBursts ELSE MaxDisturbed
        /\ bursts' = bursts + 1
        /\ wire' = wire \o FlattenSeq(burst) /\ due' = due \o FlattenSeq(burst)
        /\ causes' = causes \cup {c \in {"hurried"} : ~Idle}
                            \cup {c \in {"rash"} : ~Idle /\ ~MayBeLost(burst)}
                            \cup {c \in {"mixed"} : IsMixed(burst)}
                            \cup {c \in {"unknown"} : ~\A k \in DOMAIN burst : IsKnown(burst[k])}
        /\ UNCHANGED <<place, got, tty, stream, eof, screenVars, in_order>>
  BY DEF UserTypes
<1>2. ShellTyped /\ ScreenTyped /\ DueTyped /\ InputTyped /\ UserTyped
  BY TypeParts
<1>3. FlattenSeq(burst) \in Seq(Byte)
  BY BurstType
<1>4. InputTyped' /\ DueTyped'
  BY <1>1, <1>2, <1>3, ConcatProperties DEF InputTyped, DueTyped
<1>5. UserTyped'
  <2>1. bursts' \in 0 .. MaxBursts
    BY <1>1, <1>2, BoundConstants DEF UserTyped
  <2>2. causes' \subseteq {"hurried", "rash", "mixed", "unknown", "late"}
    BY <1>1, <1>2 DEF UserTyped
  <2> QED BY <2>1, <2>2 DEF UserTyped
<1>6. ShellTyped' /\ ScreenTyped'
  BY <1>1, <1>2 DEF ShellTyped, ScreenTyped, Reading, screenVars
<1> QED BY <1>4, <1>5, <1>6 DEF TypeOK, ShellTyped, ScreenTyped, DueTyped, InputTyped, UserTyped

\* Bytes that move, and reads of the terminal by the shell.
LEMMA TransportType ==
  ASSUME TypeOK, TerminalAnswers \/ Deliver \/ Fill
  PROVE  TypeOK'
<1>1. ShellTyped /\ ScreenTyped /\ DueTyped /\ InputTyped /\ UserTyped
  BY TypeParts
<1>2. CASE TerminalAnswers
  <2>1. Head(answers) \in DOMAIN RowDigit /\ Tail(answers) \in Seq(DOMAIN RowDigit)
    BY <1>1, <1>2, HeadTailProperties DEF TerminalAnswers, ScreenTyped
  <2>2. Report(Head(answers)) \in Seq(Byte)
    BY <2>1, ReportIs
  <2>3. wire' \in Seq(Byte)
    BY <1>1, <1>2, <2>2, ConcatProperties DEF TerminalAnswers, InputTyped
  <2> QED BY <1>1, <1>2, <2>1, <2>3 DEF TypeOK, ShellTyped, ScreenTyped, DueTyped, InputTyped,
            UserTyped, TerminalAnswers, Reading, dueVars, userVars
<1>3. CASE Deliver
  <2>1. Head(wire) \in Byte /\ Tail(wire) \in Seq(Byte)
    BY <1>1, <1>3, HeadTailProperties DEF Deliver, InputTyped
  <2>2. tty' \in Seq(Byte)
    BY <1>1, <1>3, <2>1, AppendProperties DEF Deliver, InputTyped
  <2> QED BY <1>1, <1>3, <2>1, <2>2 DEF TypeOK, ShellTyped, ScreenTyped, DueTyped, InputTyped,
            UserTyped, Deliver, Reading, screenVars, dueVars, userVars
<1>4. CASE Fill
  <2>1. tty' \in Seq(Byte) /\ stream' \in Seq(Byte)
    BY <1>1, <1>4 DEF Fill, InputTyped
  <2> QED BY <1>1, <1>4, <2>1 DEF TypeOK, ShellTyped, ScreenTyped, DueTyped, InputTyped,
            UserTyped, Fill, Reading, screenVars, dueVars, userVars
<1> QED BY <1>2, <1>3, <1>4

LEMMA ReadsType ==
  ASSUME TypeOK, ReadByte \/ ReadPasted
  PROVE  TypeOK'
<1>1. ShellTyped /\ ScreenTyped /\ DueTyped /\ InputTyped /\ UserTyped
  BY TypeParts
<1>2. tty # <<>> /\ tty' = Tail(tty) /\ TakeByte(Head(tty)) /\ UNCHANGED <<stream, eof, wire, userVars>>
  BY DEF ReadByte, ReadPasted
<1>3. Head(tty) \in Byte /\ Tail(tty) \in Seq(Byte)
  BY <1>1, <1>2, HeadTailProperties DEF InputTyped
<1>4. ShellTyped' /\ ScreenTyped' /\ DueTyped'
  BY <1>1, <1>2, <1>3, TakeByteType
<1>5. InputTyped' /\ UserTyped'
  BY <1>1, <1>2, <1>3 DEF InputTyped, UserTyped, userVars
<1> QED BY <1>4, <1>5 DEF TypeOK, ShellTyped, ScreenTyped, DueTyped, InputTyped, UserTyped

LEMMA NothingPastedType ==
  ASSUME TypeOK, NothingPasted
  PROVE  TypeOK'
<1>1. ShellTyped /\ ScreenTyped /\ DueTyped /\ InputTyped /\ UserTyped
  BY TypeParts
<1>2. UNCHANGED <<cursor_row, line_row>> /\ Ask /\ TooLate /\ UNCHANGED <<inputVars, dueVars, bursts>>
  BY DEF NothingPasted
<1>3. ShellTyped' /\ ScreenTyped'
  <2>1. cursor_row' \in DOMAIN RowDigit /\ line_row' \in DOMAIN RowDigit
    BY <1>1, <1>2 DEF ScreenTyped
  <2> QED BY <1>1, <1>2, <2>1, AskType
<1>4. DueTyped' /\ InputTyped' /\ UserTyped'
  BY <1>1, <1>2 DEF DueTyped, InputTyped, UserTyped, TooLate, inputVars, dueVars
<1> QED BY <1>3, <1>4 DEF TypeOK, ShellTyped, ScreenTyped, DueTyped, InputTyped, UserTyped

\* The steps of a line that runs.
LEMMA RunType ==
  ASSUME TypeOK, EvalInShell \/ RunProgram \/ ProgramReads \/ ProgramEnds
  PROVE  TypeOK'
<1>1. ShellTyped /\ ScreenTyped /\ DueTyped /\ InputTyped /\ UserTyped
  BY TypeParts
<1>2. /\ place' \in {"waiting", "running"} /\ got = <<>> /\ got' = got
      /\ UNCHANGED <<stream, eof, wire, answers, dueVars, userVars>>
  BY <1>1 DEF ShellTyped, Reading, EvalInShell, RunProgram, ProgramReads, ProgramEnds, inputVars,
             screenVars
<1>3. tty' \in Seq(Byte)
  <2>1. tty # <<>> => Tail(tty) \in Seq(Byte)
    BY <1>1, HeadTailProperties DEF InputTyped
  <2>2. <<>> \in Seq(Byte)
    OBVIOUS
  <2> QED BY <1>1, <2>1, <2>2 DEF InputTyped, EvalInShell, RunProgram, ProgramReads, ProgramEnds,
            inputVars
<1>4. cursor_row' \in DOMAIN RowDigit /\ line_row' \in DOMAIN RowDigit
  <2>1. NextRow(cursor_row) \in DOMAIN RowDigit
    BY <1>1, RowsType DEF ScreenTyped
  <2> QED BY <1>1, <2>1 DEF ScreenTyped, EvalInShell, RunProgram, ProgramReads, ProgramEnds,
            NewLine, StayOn, screenVars
<1>5. ShellTyped'
  BY <1>1, <1>2 DEF ShellTyped, Reading
<1>6. ScreenTyped' /\ DueTyped' /\ InputTyped' /\ UserTyped'
  BY <1>1, <1>2, <1>3, <1>4 DEF ScreenTyped, DueTyped, InputTyped, UserTyped, dueVars, userVars
<1> QED BY <1>5, <1>6 DEF TypeOK, ShellTyped, ScreenTyped, DueTyped, InputTyped, UserTyped

LEMMA InitType == Init => TypeOK
<1>1. <<>> \in Seq(Byte) /\ <<>> \in Seq(Byte \cup {EOF}) /\ <<>> \in Seq(DOMAIN RowDigit)
  OBVIOUS
<1>2. 1 \in DOMAIN RowDigit /\ 0 \in 0 .. MaxBursts
  BY RowConstants, BoundConstants
<1> QED BY <1>1, <1>2 DEF Init, TypeOK, Reading

LEMMA NextType == TypeOK /\ [Next]_vars => TypeOK'
<1> SUFFICES ASSUME TypeOK, [Next]_vars PROVE TypeOK'
  OBVIOUS
<1>1. CASE UserTypes
  BY <1>1, UserTypesType
<1>2. CASE TerminalAnswers \/ Deliver
  BY <1>2, TransportType
<1>3. CASE ShellStep
  BY <1>3, ReadsType, NothingPastedType, TransportType, EscapeByteType, ReportByteType DEF ShellStep
<1>4. CASE EvalInShell \/ RunProgram \/ ProgramReads \/ ProgramEnds
  BY <1>4, RunType
<1>5. CASE UNCHANGED vars
  BY <1>5 DEF vars, TypeOK, Reading, inputVars, screenVars, dueVars, userVars
<1> QED BY <1>1, <1>2, <1>3, <1>4, <1>5 DEF Next, Rests

(***************************************************************************)
(* TypeOK holds for any bursts and any number of rows: the answer of the   *)
(* terminal never overruns the buffer get_cursor_position reads it into,   *)
(* and try_process_escape_sequence only reads on while what it has may     *)
(* still become a sequence it knows.                                       *)
(***************************************************************************)
THEOREM TypeCorrectness == Spec => []TypeOK
<1>1. Init /\ [][Next]_vars => []TypeOK
  BY InitType, NextType, PTL
<1> QED BY <1>1, PTL DEF Spec

------------------------------------------------------------------------------
(* Known sequences: none is the beginning of another. *)

\* The five shapes, byte by byte.
LEMMA KnownShape ==
  ASSUME NEW s \in KnownSequences
  PROVE  /\ s \in Seq(Compared) /\ s[1] = ESC
         /\ \/ Len(s) = 3 /\ s[2] = "[" /\ s[3] \in {"A", "B", "C", "D", "H", "F"}
            \/ Len(s) = 4 /\ s[2] = "[" /\ s[3] \in {"1", "3", "4", "7", "8"} /\ s[4] = "~"
            \/ Len(s) = 6 /\ s[2] = "[" /\ s[3] = "1" /\ s[4] = ";"
            \/ Len(s) = 3 /\ s[2] = "O"
<1>1. /\ \A c \in {"A", "B", "C", "D", "H", "F", "1", "3", "4", "7", "8"} : c \in Compared
      /\ ESC \in Compared /\ "[" \in Compared /\ "~" \in Compared /\ ";" \in Compared /\ "O" \in Compared
  BY DEF Compared, Digits
<1>2. ASSUME NEW c \in {"A", "B", "C", "D", "H", "F"}, s = <<ESC, "[", c>>
      PROVE  s \in Seq(Compared) /\ s[1] = ESC /\ Len(s) = 3 /\ s[2] = "[" /\ s[3] = c
  <2>1. c \in Compared
    BY <1>1, <1>2
  <2>2. PICK a, b : a = ESC /\ b = "["
    OBVIOUS
  <2>3. a \in Compared /\ b \in Compared
    BY <1>1, <2>2
  <2>4. <<a, b, c>> \in Seq(Compared)
    BY <2>1, <2>3
  <2> QED BY <1>2, <2>2, <2>4
<1>3. ASSUME NEW c \in {"1", "3", "4", "7", "8"}, s = <<ESC, "[", c, "~">>
      PROVE  s \in Seq(Compared) /\ s[1] = ESC /\ Len(s) = 4 /\ s[2] = "[" /\ s[3] = c /\ s[4] = "~"
  <2>1. c \in Compared
    BY <1>1, <1>3
  <2>2. PICK a, b, d : a = ESC /\ b = "[" /\ d = "~"
    OBVIOUS
  <2>3. a \in Compared /\ b \in Compared /\ d \in Compared
    BY <1>1, <2>2
  <2>4. <<a, b, c, d>> \in Seq(Compared)
    BY <2>1, <2>3
  <2> QED BY <1>3, <2>2, <2>4
<1>4. ASSUME NEW c \in {"A", "B", "C", "D"}, s = <<ESC, "[", "1", ";", "3", c>>
      PROVE  s \in Seq(Compared) /\ s[1] = ESC /\ Len(s) = 6 /\ s[2] = "[" /\ s[3] = "1" /\ s[4] = ";"
  <2>1. c \in Compared
    BY <1>1, <1>4
  <2>2. PICK a, b, d, e, f : a = ESC /\ b = "[" /\ d = "1" /\ e = ";" /\ f = "3"
    OBVIOUS
  <2>3. a \in Compared /\ b \in Compared /\ d \in Compared /\ e \in Compared /\ f \in Compared
    BY <1>1, <2>2
  <2>4. <<a, b, d, e, f, c>> \in Seq(Compared)
    BY <2>1, <2>3
  <2>5. s = <<a, b, d, e, f, c>>
    BY <1>4, <2>2
  <2>6. Len(s) = 6 /\ s[1] = a /\ s[2] = b /\ s[3] = d /\ s[4] = e
    BY <2>5
  <2> QED BY <2>2, <2>4, <2>5, <2>6
<1>5. ASSUME NEW c \in {"H", "F"}, s = <<ESC, "O", c>>
      PROVE  s \in Seq(Compared) /\ s[1] = ESC /\ Len(s) = 3 /\ s[2] = "O"
  <2>1. c \in Compared
    BY <1>1, <1>5
  <2>2. PICK a, b : a = ESC /\ b = "O"
    OBVIOUS
  <2>3. a \in Compared /\ b \in Compared
    BY <1>1, <2>2
  <2>4. <<a, b, c>> \in Seq(Compared)
    BY <2>1, <2>3
  <2> QED BY <1>5, <2>2, <2>4
<1>6. \/ \E c \in {"A", "B", "C", "D", "H", "F"} : s = <<ESC, "[", c>>
      \/ \E c \in {"1", "3", "4", "7", "8"} : s = <<ESC, "[", c, "~">>
      \/ \E c \in {"A", "B", "C", "D"} : s = <<ESC, "[", "1", ";", "3", c>>
      \/ \E c \in {"H", "F"} : s = <<ESC, "O", c>>
  BY DEF KnownSequences
<1>7. CASE \E c \in {"A", "B", "C", "D", "H", "F"} : s = <<ESC, "[", c>>
  BY <1>2, <1>7
<1>8. CASE \E c \in {"1", "3", "4", "7", "8"} : s = <<ESC, "[", c, "~">>
  BY <1>3, <1>8
<1>9. CASE \E c \in {"A", "B", "C", "D"} : s = <<ESC, "[", "1", ";", "3", c>>
  BY <1>4, <1>9
<1>10. CASE \E c \in {"H", "F"} : s = <<ESC, "O", c>>
  BY <1>5, <1>10
<1> QED BY <1>6, <1>7, <1>8, <1>9, <1>10

LEMMA KnownPrefixFree ==
  ASSUME NEW s \in KnownSequences, NEW t \in KnownSequences, IsPrefix(s, t)
  PROVE  s = t
<1>1. s \in Seq(Compared) /\ t \in Seq(Compared)
  BY KnownShape
<1>2. Len(s) <= Len(t) /\ \A k \in 1 .. Len(s) : s[k] = t[k]
  BY <1>1, PrefixAt
<1>3. Len(s) \in {3, 4, 6} /\ Len(t) \in {3, 4, 6}
  BY KnownShape
<1>4. 2 \in 1 .. Len(s) /\ 3 \in 1 .. Len(s)
  BY <1>3
<1>5. s[2] = t[2] /\ s[3] = t[3] /\ (Len(s) # 3 => s[4] = t[4])
  <2>1. PICK m : m = Len(s)
    OBVIOUS
  <2>2. m # 3 => 4 \in 1 .. m
    BY <1>3, <2>1
  <2> QED BY <1>2, <1>4, <2>1, <2>2
<1>6. Len(s) = Len(t)
  <2>1. PICK m \in Nat, n \in Nat : m = Len(s) /\ n = Len(t)
    BY <1>1
  <2>2. PICK s2, s3, s4, t2, t3, t4 : s2 = s[2] /\ s3 = s[3] /\ s4 = s[4]
                                      /\ t2 = t[2] /\ t3 = t[3] /\ t4 = t[4]
    OBVIOUS
  <2>3. \/ m = 3 /\ s2 = "[" /\ s3 \in {"A", "B", "C", "D", "H", "F"}
        \/ m = 4 /\ s2 = "[" /\ s3 \in {"1", "3", "4", "7", "8"} /\ s4 = "~"
        \/ m = 6 /\ s2 = "[" /\ s3 = "1" /\ s4 = ";"
        \/ m = 3 /\ s2 = "O"
    BY <2>1, <2>2, KnownShape
  <2>4. \/ n = 3 /\ t2 = "[" /\ t3 \in {"A", "B", "C", "D", "H", "F"}
        \/ n = 4 /\ t2 = "[" /\ t3 \in {"1", "3", "4", "7", "8"} /\ t4 = "~"
        \/ n = 6 /\ t2 = "[" /\ t3 = "1" /\ t4 = ";"
        \/ n = 3 /\ t2 = "O"
    BY <2>1, <2>2, KnownShape
  <2>5. s2 = t2 /\ s3 = t3 /\ (m # 3 => s4 = t4)
    BY <1>5, <2>1, <2>2
  <2>6. CASE s2 = "O"
    BY <2>1, <2>3, <2>4, <2>5, <2>6
  <2>7. CASE s2 # "O" /\ s3 \in {"A", "B", "C", "D", "H", "F"}
    <3>1. m = 3
      BY <2>3, <2>7
    <3>2. n = 3
      BY <2>4, <2>5, <2>7
    <3> QED BY <2>1, <3>1, <3>2
  <2>8. CASE s2 # "O" /\ s3 \notin {"A", "B", "C", "D", "H", "F"}
    <3>1. (m = 4 /\ s4 = "~") \/ (m = 6 /\ s4 = ";")
      BY <2>3, <2>8
    <3>2. (n = 4 /\ t4 = "~") \/ (n = 6 /\ t4 = ";")
      BY <2>4, <2>5, <2>8
    <3>3. m # 3
      <4>1. 4 # 3 /\ 6 # 3
        OBVIOUS
      <4> QED BY <3>1, <4>1, Zenon
    <3>4. s4 = t4
      BY <2>5, <3>3, Zenon
    <3>5. "~" # ";"
      OBVIOUS
    <3>6. m = n
      <4>1. CASE m = 4 /\ s4 = "~"
        BY <3>2, <3>4, <3>5, <4>1, Zenon
      <4>2. CASE m = 6 /\ s4 = ";"
        BY <3>2, <3>4, <3>5, <4>2, Zenon
      <4> QED BY <3>1, <4>1, <4>2
    <3> QED BY <2>1, <3>6
  <2> QED BY <2>6, <2>7, <2>8
<1>7. \A k \in 1 .. Len(s) : s[k] = t[k]
  BY <1>2
<1> QED BY <1>1, <1>6, <1>7, SeqEqual

\* What has been read of a known sequence, when a byte of it comes next.
LEMMA KnownNext ==
  ASSUME NEW s \in Seq(Compared), NEW rest \in Seq(Compared), s \o rest \in KnownSequences
  PROVE  /\ ReadsOn(s) \/ (s \in KnownSequences /\ rest = <<>>)
         /\ s \in KnownSequences => rest = <<>>
<1>1. PICK known \in KnownSequences : known = s \o rest
  OBVIOUS
<1>2. known \in Seq(Compared) /\ Len(known) = Len(s) + Len(rest)
      /\ \A k \in 1 .. Len(s) : known[k] = s[k]
  BY <1>1, ConcatProperties
<1>3. IsPrefix(s, known)
  <2>1. Len(s) <= Len(known)
    BY <1>2
  <2> QED BY <1>2, <2>1, PrefixAt
<1>4. s = known => rest = <<>>
  <2>1. s = known => Len(rest) = 0
    BY <1>2
  <2> QED BY <2>1, EmptySeq
<1>5. s # known => ReadsOn(s)
  BY <1>3 DEF ReadsOn, IsStrictPrefix
<1>6. s \in KnownSequences => s = known
  BY <1>3, KnownPrefixFree
<1> QED BY <1>4, <1>5, <1>6

\* Nothing can be read on of what is already known.
LEMMA KnownEnds ==
  ASSUME NEW s \in KnownSequences
  PROVE  ~ReadsOn(s)
BY KnownPrefixFree DEF ReadsOn, IsStrictPrefix

------------------------------------------------------------------------------
(* What is typed. *)

\* The first byte of what is typed begins an escape sequence that is all there
\* is, or is followed by what is typed, and by nothing when it is a control
\* character.
LEMMA TypedHead ==
  ASSUME NEW c \in Byte, NEW rest \in Seq(Byte), IsTyped(<<c>> \o rest)
  PROVE  /\ c = ESC => <<c>> \o rest \in KnownSequences
         /\ c # ESC => IsTyped(rest)
         /\ c \notin Characters \cup {ESC} => rest = <<>>
<1>1. PICK s, m : s = <<c>> \o rest /\ m = Len(rest)
  OBVIOUS
<1>2. s \in Seq(Byte) /\ m \in Nat /\ Len(s) = m + 1 /\ s[1] = c
      /\ (\A k \in 1 .. m : s[k + 1] = rest[k]) /\ s # <<>>
  <2>1. PICK h : h = <<c>>
    OBVIOUS
  <2>2. h \in Seq(Byte) /\ Len(h) = 1 /\ h[1] = c
    BY <2>1
  <2>3. m \in Nat /\ s = h \o rest
    BY <1>1, <2>1
  <2>4. s \in Seq(Byte) /\ Len(s) = m + 1
    BY <1>1, <2>2, <2>3, ConcatProperties
  <2>5. \A i \in 1 .. 1 + m : s[i] = IF i <= 1 THEN h[i] ELSE rest[i - 1]
    BY <1>1, <2>2, <2>3, ConcatProperties
  <2>6. s[1] = c
    <3>1. 1 \in 1 .. 1 + m
      BY <2>3
    <3> QED BY <2>2, <2>5, <3>1
  <2>7. ASSUME NEW k \in 1 .. m PROVE s[k + 1] = rest[k]
    <3>1. k + 1 \in 1 .. 1 + m /\ ~(k + 1 <= 1) /\ k + 1 - 1 = k
      BY <2>3
    <3> QED BY <2>5, <3>1
  <2>8. s # <<>>
    BY <2>3, <2>4
  <2> QED BY <2>3, <2>4, <2>6, <2>7, <2>8
<1>3. m = 0 => rest = <<>>
  BY <1>1, EmptySeq
<1>4. IsTyped(<<>>)
  BY DEF IsTyped
<1>5. PICK n \in 0 .. Len(s) - 1 :
        /\ \A k \in 1 .. n : s[k] \in Characters
        /\ IsKnown(SubSeq(s, n + 1, Len(s)))
  BY <1>1, <1>2 DEF IsTyped
<1>6. n \in Nat /\ n <= m
  BY <1>2, <1>5
<1>7. CASE n = 0
  <2>1. SubSeq(s, n + 1, Len(s)) = s
    BY <1>2, <1>7, SubSeqFull
  <2>2. s \in KnownSequences \/ (Len(s) = 1 /\ s[1] # ESC)
    BY <1>5, <2>1 DEF IsKnown
  <2>3. CASE s \in KnownSequences
    <3>1. c = ESC
      BY <1>2, <2>3, KnownShape
    <3> QED BY <1>1, <2>3, <3>1
  <2>4. CASE Len(s) = 1 /\ s[1] # ESC
    BY <1>2, <1>3, <1>4, <2>4
  <2> QED BY <2>2, <2>3, <2>4
<1>8. CASE n # 0
  <2>1. 1 \in 1 .. n
    BY <1>6, <1>8
  <2>2. c \in Characters /\ c # ESC
    BY <1>2, <1>5, <2>1, TerminalInputAssumption
  <2>3. IsTyped(rest)
    <3>1. PICK p, q : p = SubSeq(rest, n, m) /\ q = SubSeq(s, n + 1, m + 1)
      OBVIOUS
    <3>2. \A i \in n .. m : rest[i] \in Byte
      BY <1>1, <1>6, <1>8
    <3>3. p \in Seq(Byte) /\ Len(p) = m - n + 1 /\ \A i \in 1 .. m - n + 1 : p[i] = rest[n + i - 1]
      BY <1>2, <1>6, <3>1, <3>2, SubSeqProperties
    <3>4. \A i \in n + 1 .. m + 1 : s[i] \in Byte
      BY <1>2, <1>6
    <3>5. n + 1 \in Int /\ m + 1 \in Int
      BY <1>2, <1>6
    <3>6. q \in Seq(Byte) /\ Len(q) = m - n + 1
          /\ \A i \in 1 .. m - n + 1 : q[i] = s[n + i]
      <4>1. /\ q \in Seq(Byte) /\ Len(q) = IF n + 1 <= m + 1 THEN (m + 1) - (n + 1) + 1 ELSE 0
            /\ \A i \in 1 .. (m + 1) - (n + 1) + 1 : q[i] = s[(n + 1) + i - 1]
        BY <3>1, <3>4, <3>5, SubSeqProperties
      <4>2. n + 1 <= m + 1 /\ (m + 1) - (n + 1) + 1 = m - n + 1
        BY <1>2, <1>6
      <4>3. ASSUME NEW i \in 1 .. m - n + 1 PROVE (n + 1) + i - 1 = n + i
        BY <1>2, <1>6
      <4> QED BY <4>1, <4>2, <4>3
    <3>7. p = q
      <4>1. ASSUME NEW i \in 1 .. m - n + 1 PROVE p[i] = q[i]
        <5>1. n + i - 1 \in 1 .. m /\ (n + i - 1) + 1 = n + i
          BY <1>2, <1>6, <1>8
        <5>2. rest[n + i - 1] = s[(n + i - 1) + 1]
          BY <1>2, <5>1
        <5> QED BY <3>3, <3>6, <5>1, <5>2
      <4> QED BY <3>3, <3>6, <4>1, SeqEqual
    <3>8. IsKnown(p)
      BY <1>2, <1>5, <3>1, <3>7
    <3>9. \A k \in 1 .. n - 1 : rest[k] \in Characters
      <4>1. ASSUME NEW k \in 1 .. n - 1 PROVE rest[k] \in Characters
        <5>1. k \in 1 .. m /\ k + 1 \in 1 .. n
          BY <1>2, <1>6
        <5> QED BY <1>2, <1>5, <5>1
      <4> QED BY <4>1
    <3>10. n - 1 \in 0 .. m - 1 /\ (n - 1) + 1 = n
      BY <1>2, <1>6, <1>8
    <3>11. IsKnown(SubSeq(rest, (n - 1) + 1, Len(rest)))
      BY <1>1, <3>1, <3>8, <3>10
    <3>12. n - 1 \in 0 .. Len(rest) - 1
      BY <1>1, <3>10
    <3> QED BY <3>9, <3>11, <3>12 DEF IsTyped
  <2> QED BY <2>2, <2>3
<1> QED BY <1>6, <1>7, <1>8


\* The bytes of a burst that is one key the shell knows, or characters of which
\* the last may be such a key.
LEMMA BurstIsTyped ==
  ASSUME NEW burst \in Bursts, ~IsMixed(burst), \A k \in DOMAIN burst : IsKnown(burst[k])
  PROVE  IsTyped(FlattenSeq(burst))
<1>1. PICK n : n = Len(burst)
  OBVIOUS
<1>2. /\ n \in Nat /\ n > 0 /\ DOMAIN burst = 1 .. n
      /\ \A k \in 1 .. n : burst[k] \in Seq(Byte)
  <2>1. burst \in Seq(Seq(Byte) \ {<<>>}) /\ burst # <<>>
    BY TerminalInputAssumption
  <2>2. Len(burst) \in Nat /\ Len(burst) # 0
    BY <2>1, EmptySeq
  <2>3. DOMAIN burst = 1 .. n
    BY <1>1, <2>1, LenProperties
  <2>4. \A k \in 1 .. n : burst[k] \in Seq(Byte)
    BY <1>1, <2>1, ElementOfSeq
  <2> QED BY <1>1, <2>2, <2>3, <2>4
<1>3. \A k \in 1 .. n - 1 : Len(burst[k]) = 1 /\ burst[k][1] \in Characters
  BY <1>1 DEF IsMixed, IsCharacter
<1>4. PICK f : Flattens(burst, n, f) /\ FlattenSeq(burst) = f[n]
  BY <1>1, <1>2, FlattenIs
<1>5. \A i \in 1 .. n : f[i] = IF i = 1 THEN burst[i] ELSE f[i - 1] \o burst[i]
  <2>1. f = [i \in 1 .. n |-> IF i = 1 THEN burst[i] ELSE f[i - 1] \o burst[i]]
    BY <1>4 DEF Flattens
  <2> QED BY <2>1
<1> DEFINE AllCharacters(i) == /\ f[i] \in Seq(Byte) /\ Len(f[i]) = i
                               /\ \A k \in 1 .. i : f[i][k] \in Characters
<1> DEFINE Bad == {i \in 1 .. n - 1 : ~AllCharacters(i)}
<1>6. Bad = {}
  <2>1. SUFFICES ASSUME Bad # {} PROVE FALSE
    OBVIOUS
  <2>2. PICK i \in Bad : \A k \in Bad : i <= k
    <3>1. Bad \in SUBSET Nat
      BY <1>2
    <3> HIDE DEF Bad
    <3> QED BY <2>1, <3>1, LeastOf
  <2>3. i \in 1 .. n - 1 /\ i \in 1 .. n /\ ~AllCharacters(i)
    BY <1>2, <2>2
  <2>4. PICK b : b = burst[i]
    OBVIOUS
  <2>5. b \in Seq(Byte) /\ Len(b) = 1 /\ b[1] \in Characters
    BY <1>2, <1>3, <2>3, <2>4
  <2>6. CASE i = 1
    <3>1. f[i] = b
      BY <1>5, <2>3, <2>4, <2>6
    <3>2. \A k \in 1 .. 1 : b[k] \in Characters
      BY <2>5
    <3> QED BY <2>3, <2>5, <2>6, <3>1, <3>2
  <2>7. CASE i # 1
    <3>1. i - 1 \in 1 .. n - 1 /\ ~(i <= i - 1) /\ i \in Nat
      BY <1>2, <2>3, <2>7
    <3>2. AllCharacters(i - 1)
      BY <2>2, <3>1
    <3>3. PICK a : a = f[i - 1]
      OBVIOUS
    <3>4. a \in Seq(Byte) /\ Len(a) = i - 1 /\ \A k \in 1 .. i - 1 : a[k] \in Characters
      BY <3>2, <3>3
    <3>5. f[i] = a \o b
      BY <1>5, <2>3, <2>4, <2>7, <3>3
    <3>6. a \o b \in Seq(Byte) /\ Len(a \o b) = i
      <4>1. a \o b \in Seq(Byte) /\ Len(a \o b) = Len(a) + Len(b)
        BY <2>5, <3>4, ConcatProperties
      <4> QED BY <2>5, <3>1, <3>4, <4>1
    <3>7. ASSUME NEW k \in 1 .. i PROVE (a \o b)[k] \in Characters
      <4>1. k \in 1 .. Len(a) + Len(b)
        BY <2>5, <3>1, <3>4
      <4>2. (a \o b)[k] = IF k <= i - 1 THEN a[k] ELSE b[k - (i - 1)]
        BY <2>5, <3>4, <4>1, ConcatProperties
      <4>3. k <= i - 1 => k \in 1 .. i - 1
        BY <3>1
      <4>4. ~(k <= i - 1) => k - (i - 1) = 1
        BY <3>1
      <4> QED BY <2>5, <3>4, <4>2, <4>3, <4>4
    <3> QED BY <2>3, <3>5, <3>6, <3>7
  <2> QED BY <2>6, <2>7
<1>7. PICK b : b = burst[n]
  OBVIOUS
<1>8. b \in Seq(Byte) /\ IsKnown(b) /\ Len(b) \in Nat /\ Len(b) > 0
  <2>1. n \in 1 .. n
    BY <1>2
  <2>2. b \in Seq(Byte) /\ IsKnown(b)
    BY <1>2, <1>7, <2>1
  <2>3. b \in KnownSequences => Len(b) \in {3, 4, 6}
    BY KnownShape
  <2> QED BY <2>2, <2>3 DEF IsKnown
<1>9. PICK F, m : F = FlattenSeq(burst) /\ m = Len(b)
  OBVIOUS
<1>10. m \in Nat /\ m > 0
  BY <1>8, <1>9
<1>11. CASE n = 1
  <2>1. F = b
    BY <1>4, <1>5, <1>7, <1>9, <1>11
  <2>2. SubSeq(F, 0 + 1, Len(F)) = F
    BY <1>8, <2>1, SubSeqFull
  <2>3. 0 \in 0 .. Len(F) - 1 /\ \A k \in 1 .. 0 : F[k] \in Characters
    BY <1>9, <1>10, <2>1
  <2>4. IsKnown(SubSeq(F, 0 + 1, Len(F)))
    BY <1>8, <2>1, <2>2
  <2> QED BY <1>9, <2>3, <2>4 DEF IsTyped
<1>12. CASE n # 1
  <2>1. n - 1 \in 1 .. n - 1 /\ n \in 1 .. n
    BY <1>2, <1>12
  <2>2. AllCharacters(n - 1)
    BY <1>6, <2>1
  <2>3. PICK a : a = f[n - 1]
    OBVIOUS
  <2>4. a \in Seq(Byte) /\ Len(a) = n - 1 /\ \A k \in 1 .. n - 1 : a[k] \in Characters
    BY <2>2, <2>3
  <2>5. F = a \o b
    BY <1>4, <1>5, <1>7, <1>9, <1>12, <2>1, <2>3
  <2>6. F \in Seq(Byte) /\ Len(F) = (n - 1) + m
        /\ \A k \in 1 .. (n - 1) + m : F[k] = IF k <= n - 1 THEN a[k] ELSE b[k - (n - 1)]
    <3>1. /\ a \o b \in Seq(Byte) /\ Len(a \o b) = Len(a) + Len(b)
          /\ \A k \in 1 .. Len(a) + Len(b) :
               (a \o b)[k] = IF k <= Len(a) THEN a[k] ELSE b[k - Len(a)]
      BY <1>8, <2>4, ConcatProperties
    <3> QED BY <1>9, <2>4, <2>5, <3>1
  <2>7. \A k \in 1 .. n - 1 : F[k] \in Characters
    <3>1. ASSUME NEW k \in 1 .. n - 1 PROVE F[k] \in Characters
      <4>1. k \in 1 .. (n - 1) + m /\ k <= n - 1
        BY <1>2, <1>10
      <4> QED BY <2>4, <2>6, <4>1
    <3> QED BY <3>1
  <2>8. SubSeq(F, (n - 1) + 1, Len(F)) = b
    <3>1. PICK i, j \in Len(a) + 1 .. Len(a) + Len(b) : i = (n - 1) + 1 /\ j = Len(F)
      <4>1. (n - 1) + 1 \in Len(a) + 1 .. Len(a) + Len(b)
            /\ Len(F) \in Len(a) + 1 .. Len(a) + Len(b)
        BY <1>2, <1>9, <1>10, <2>4, <2>6
      <4> QED BY <4>1
    <3>2. SubSeq(a \o b, i, j) = SubSeq(b, i - Len(a), j - Len(a))
      <4>1. a \in Seq(Byte) /\ b \in Seq(Byte)
        BY <1>8, <2>4
      <4> QED BY <4>1, SubSeqOfConcat2
    <3>3. i - Len(a) = 1 /\ j - Len(a) = Len(b)
      BY <1>2, <1>9, <1>10, <2>4, <2>6, <3>1
    <3>4. SubSeq(b, 1, Len(b)) = b
      BY <1>8, SubSeqFull
    <3>5. SubSeq(a \o b, i, j) = b
      BY <3>2, <3>3, <3>4
    <3> QED BY <2>5, <3>1, <3>5
  <2>9. n - 1 \in 0 .. Len(F) - 1
    BY <1>2, <1>10, <2>6
  <2>10. IsKnown(SubSeq(F, (n - 1) + 1, Len(F)))
    BY <1>8, <2>8
  <2> QED BY <1>9, <2>7, <2>9, <2>10 DEF IsTyped
<1> QED BY <1>11, <1>12

------------------------------------------------------------------------------
(* WireInv is inductive. *)

LEMMA TakenIsKept ==
  ASSUME NEW S, NEW g \in Seq(S), NEW c \in S, NEW i \in Seq(S)
  PROVE  g \o (<<c>> \o i) = Append(g, c) \o i
<1>1. <<c>> \in Seq(S)
  OBVIOUS
<1>2. (g \o <<c>>) \o i = g \o (<<c>> \o i)
  BY <1>1, ConcatAssociative
<1>3. Append(g, c) = g \o <<c>>
  BY AppendIsConcat
<1> QED BY <1>2, <1>3

\* A key that is the first of what is due is handled in order.
LEMMA HandlesTheFirst ==
  ASSUME NEW S, NEW key \in Seq(S), NEW rest \in Seq(S), due = key \o rest, Handle(key), in_order
  PROVE  due' = rest /\ in_order'
<1>1. PICK d, m, n : d = key \o rest /\ m = Len(key) /\ n = Len(rest)
  OBVIOUS
<1>2. d \in Seq(S) /\ m \in Nat /\ n \in Nat /\ Len(d) = m + n
  BY <1>1, ConcatProperties
<1>3. IsPrefix(key, d)
  <2>1. \A k \in 1 .. m + n : d[k] = IF k <= m THEN key[k] ELSE rest[k - m]
    BY <1>1, ConcatProperties
  <2>2. \A k \in 1 .. m : key[k] = d[k]
    BY <1>2, <2>1
  <2>3. m <= Len(d)
    BY <1>2
  <2> QED BY <1>1, <1>2, <2>2, <2>3, PrefixAt
<1>4. SubSeq(d, m + 1, Len(d)) = rest
  <2>1. CASE n = 0
    <3>1. m + 1 \in Int /\ Len(d) \in Int /\ Len(d) < m + 1
      BY <1>2, <2>1
    <3>2. SubSeq(d, m + 1, Len(d)) = <<>>
      BY <3>1, SubSeqEmpty
    <3>3. rest = <<>>
      BY <1>1, <2>1, EmptySeq
    <3> QED BY <3>2, <3>3
  <2>2. CASE n # 0
    <3>1. m + 1 \in m + 1 .. m + n /\ m + n \in m + 1 .. m + n
      BY <1>2, <2>2
    <3>2. SubSeq(key \o rest, m + 1, m + n) = SubSeq(rest, (m + 1) - m, (m + n) - m)
      BY <1>1, <3>1, SubSeqOfConcat2
    <3>3. (m + 1) - m = 1 /\ (m + n) - m = n
      BY <1>2
    <3>4. SubSeq(rest, 1, n) = rest
      BY <1>1, SubSeqFull
    <3> QED BY <1>1, <1>2, <3>2, <3>3, <3>4
  <2> QED BY <2>1, <2>2
<1>5. in_order' = (in_order /\ IsPrefix(key, due))
  BY DEF Handle
<1>6. due' = SubSeq(due, m + 1, Len(due))
  BY <1>1, <1>3 DEF Handle
<1> QED BY <1>1, <1>3, <1>4, <1>5, <1>6

\* What went wrong once stays so.
LEMMA CausesGrow ==
  ASSUME [Next]_vars, Undisturbed'
  PROVE  Undisturbed
<1>1. CASE UserTypes
  BY <1>1 DEF UserTypes, Undisturbed
<1>2. CASE TerminalAnswers \/ Deliver \/ Fill \/ ReadByte \/ ReadPasted
  BY <1>2 DEF TerminalAnswers, Deliver, Fill, ReadByte, ReadPasted, userVars, Undisturbed
<1>3. CASE NothingPasted
  BY <1>3 DEF NothingPasted, TooLate, Undisturbed
<1>4. CASE EscapeByte \/ ReportByte
  BY <1>4 DEF EscapeByte, ReportByte, GetChar, TooLate, Undisturbed
<1>5. CASE EvalInShell \/ RunProgram \/ ProgramReads \/ ProgramEnds
  BY <1>5 DEF EvalInShell, RunProgram, ProgramReads, ProgramEnds, userVars, Undisturbed
<1>6. CASE UNCHANGED vars
  BY <1>6 DEF vars, userVars, Undisturbed
<1> QED BY <1>1, <1>2, <1>3, <1>4, <1>5, <1>6 DEF Next, ShellStep, Rests

LEMMA InFlightIs == InFlight = Flight(stream, tty, wire)
BY DEF InFlight, Flight

\* What WireInv says of an undisturbed state, taken apart.
LEMMA Calm ==
  ASSUME TypeOK, WireInv, Undisturbed
  PROVE  /\ stream \in Seq(Byte) /\ tty \in Seq(Byte) /\ wire \in Seq(Byte)
         /\ InFlight \in Seq(Byte) /\ got \in Seq(Byte \cup {EOF})
         /\ in_order /\ ~eof /\ place # "aborted" /\ cursor_row = line_row
         /\ cursor_row \in DOMAIN RowDigit
         /\ place = "reporting" =>
              /\ due = <<>>
              /\ \/ answers = <<cursor_row>> /\ got \o InFlight = <<>>
                 \/ answers = <<>> /\ got \o InFlight = Report(cursor_row) /\ InFlight # <<>>
         /\ place # "reporting" => answers = <<>> /\ due = got \o InFlight
         /\ place \in {"waiting", "pasting"} => stream = <<>> /\ IsTyped(InFlight)
         /\ place = "escape" => got \o InFlight \in KnownSequences
         /\ place \in {"evaluating", "running", "exited"} => InFlight = <<>>
         /\ place \notin {"escape", "reporting"} => got = <<>> /\ due = InFlight
<1>1. stream \in Seq(Byte) /\ tty \in Seq(Byte) /\ wire \in Seq(Byte)
      /\ got \in Seq(Byte \cup {EOF}) /\ cursor_row \in DOMAIN RowDigit
  BY DEF TypeOK
<1>2. InFlight \in Seq(Byte)
  BY <1>1, FlightTaken, InFlightIs
<1>3. place \notin {"escape", "reporting"} => got = <<>> /\ due = InFlight
  <2>1. place \notin {"escape", "reporting"} => got = <<>>
    BY DEF TypeOK, Reading
  <2>2. <<>> \o InFlight = InFlight
    BY <1>2, ConcatEmptySeq
  <2>3. place # "reporting" => due = got \o InFlight
    BY DEF WireInv
  <2> QED BY <2>1, <2>2, <2>3
<1>4. /\ in_order /\ ~eof /\ place # "aborted" /\ cursor_row = line_row
      /\ place = "reporting" =>
              /\ due = <<>>
              /\ \/ answers = <<cursor_row>> /\ got \o InFlight = <<>>
                 \/ answers = <<>> /\ got \o InFlight = Report(cursor_row) /\ InFlight # <<>>
      /\ place # "reporting" => answers = <<>> /\ due = got \o InFlight
      /\ place \in {"waiting", "pasting"} => stream = <<>> /\ IsTyped(InFlight)
      /\ place = "escape" => got \o InFlight \in KnownSequences
      /\ place \in {"evaluating", "running", "exited"} => InFlight = <<>>
  BY DEF WireInv
<1> QED BY <1>1, <1>2, <1>3, <1>4

\* Nothing is in flight when the parts are empty, and only then.
LEMMA NoFlight ==
  ASSUME stream \in Seq(Byte), tty \in Seq(Byte), wire \in Seq(Byte)
  PROVE  InFlight = <<>> <=> stream = <<>> /\ tty = <<>> /\ wire = <<>>
<1>1. <<>> \in Seq(Byte)
  OBVIOUS
<1>2. ASSUME stream = <<>>, tty = <<>>, wire = <<>> PROVE InFlight = <<>>
  <2>1. Flight(stream, tty, wire) = wire
    BY <1>2, FlightTaken
  <2> QED BY <1>2, <2>1, InFlightIs
<1> QED BY <1>2, FlightTaken, InFlightIs

\* A user who waits begins with an empty wire, and types what IsTyped describes.
LEMMA UserTypesWire ==
  ASSUME TypeOK, WireInv, Undisturbed, Undisturbed', UserTypes
  PROVE  WireInv'
<1>1. PICK burst \in Bursts :
        /\ wire' = wire \o FlattenSeq(burst) /\ due' = due \o FlattenSeq(burst)
        /\ causes' = causes \cup {c \in {"hurried"} : ~Idle}
                            \cup {c \in {"rash"} : ~Idle /\ ~MayBeLost(burst)}
                            \cup {c \in {"mixed"} : IsMixed(burst)}
                            \cup {c \in {"unknown"} : ~\A k \in DOMAIN burst : IsKnown(burst[k])}
        /\ UNCHANGED <<place, got, tty, stream, eof, screenVars, in_order>>
  BY DEF UserTypes
<1>2. Idle /\ ~IsMixed(burst) /\ \A k \in DOMAIN burst : IsKnown(burst[k])
  <2>1. causes' = {}
    BY DEF Undisturbed
  <2>2. "hurried" \notin causes' /\ "mixed" \notin causes' /\ "unknown" \notin causes'
    BY <2>1
  <2>3. Idle
    BY <1>1, <2>2
  <2>4. ~IsMixed(burst)
    BY <1>1, <2>2
  <2>5. \A k \in DOMAIN burst : IsKnown(burst[k])
    BY <1>1, <2>2
  <2> QED BY <2>3, <2>4, <2>5
<1>3. place = "waiting" /\ tty = <<>> /\ stream = <<>> /\ wire = <<>> /\ answers = <<>>
  BY <1>2 DEF Idle
<1>4. PICK F : F = FlattenSeq(burst)
  OBVIOUS
<1>5. F \in Seq(Byte) /\ IsTyped(F)
  BY <1>2, <1>4, BurstType, BurstIsTyped
<1>6. <<>> \o F = F /\ <<>> \o <<>> \o F = F /\ <<>> \in Seq(Byte)
  <2>1. <<>> \in Seq(Byte)
    OBVIOUS
  <2> QED BY <1>5, <2>1, ConcatEmptySeq
<1>7. InFlight = <<>> /\ got = <<>> /\ due = <<>> /\ in_order /\ ~eof /\ cursor_row = line_row
  <2>1. InFlight = <<>>
    BY <1>3, NoFlight, <1>6
  <2> QED BY <1>3, <2>1, Calm
<1>8. InFlight' = F /\ due' = F /\ got' = <<>>
  BY <1>1, <1>3, <1>4, <1>6, <1>7 DEF InFlight
<1>9. due' = got' \o InFlight'
  BY <1>6, <1>8
<1>10. place' = "waiting" /\ stream' = <<>> /\ answers' = <<>> /\ in_order' /\ ~eof'
       /\ cursor_row' = line_row'
  BY <1>1, <1>3, <1>7 DEF screenVars
<1>11. IsTyped(InFlight')
  BY <1>5, <1>8
<1>12. IsTyped(InFlight)'
  BY <1>11 DEF IsTyped, IsKnown, KnownSequences
<1> QED BY <1>9, <1>10, <1>12 DEF WireInv


\* Bytes on their way stay the same bytes; an answer is sent for the one question.
LEMMA TransportWire ==
  ASSUME TypeOK, WireInv, Undisturbed, TerminalAnswers \/ Deliver \/ Fill
  PROVE  WireInv'
<1>1. stream \in Seq(Byte) /\ tty \in Seq(Byte) /\ wire \in Seq(Byte) /\ InFlight \in Seq(Byte)
      /\ got \in Seq(Byte \cup {EOF})
  BY Calm
<1>2. CASE TerminalAnswers
  <2>1. answers # <<>> /\ wire' = wire \o Report(Head(answers)) /\ answers' = Tail(answers)
        /\ UNCHANGED <<place, got, tty, stream, eof, cursor_row, line_row, dueVars>>
    BY <1>2 DEF TerminalAnswers
  <2>2. place = "reporting" /\ due = <<>> /\ answers = <<cursor_row>> /\ got \o InFlight = <<>>
        /\ in_order /\ ~eof /\ cursor_row = line_row
    <3>1. answers # <<>>
      BY <2>1
    <3>2. place = "reporting" => answers = <<cursor_row>> \/ answers = <<>>
      BY Calm
    <3>3. place # "reporting" => answers = <<>>
      BY Calm
    <3> QED BY <3>1, <3>2, <3>3, Calm
  <2>3. Head(answers) = cursor_row /\ Tail(answers) = <<>>
    BY <2>2
  <2>4. got = <<>> /\ InFlight = <<>>
    <3>1. InFlight \in Seq(Byte \cup {EOF})
      BY <1>1, SeqMonotonic
    <3> QED BY <1>1, <2>2, <3>1, ConcatEqualIffEmpty
  <2>5. stream = <<>> /\ tty = <<>> /\ wire = <<>>
    BY <1>1, <2>4, NoFlight
  <2>6. PICK r : r = Report(cursor_row)
    OBVIOUS
  <2>7. r \in Seq(Byte) /\ r # <<>>
    <3>1. r \in Seq(Byte) /\ Len(r) = 6
      BY <2>6, Calm, ReportIs
    <3> QED BY <3>1, EmptySeq
  <2>8. <<>> \o r = r /\ <<>> \o <<>> \o r = r
    <3>1. <<>> \in Seq(Byte)
      OBVIOUS
    <3> QED BY <2>7, <3>1, ConcatEmptySeq
  <2>9. InFlight' = r
    BY <2>1, <2>3, <2>5, <2>6, <2>8 DEF InFlight
  <2>10. Report(cursor_row)' = r
    BY <2>1, <2>6 DEF Report
  <2>11. got' \o InFlight' = r
    BY <2>1, <2>4, <2>8, <2>9
  <2>12. place' = "reporting" /\ in_order' /\ ~eof' /\ cursor_row' = line_row' /\ due' = <<>>
         /\ answers' = <<>>
    BY <2>1, <2>2, <2>3 DEF dueVars
  <2> QED BY <2>7, <2>9, <2>10, <2>11, <2>12 DEF WireInv
<1>3. CASE Deliver \/ Fill
  <2>1. InFlight' = InFlight
    <3>1. CASE Deliver
      <4>1. wire # <<>>
        BY <3>1 DEF Deliver
      <4>2. Flight(stream, Append(tty, Head(wire)), Tail(wire)) = Flight(stream, tty, wire)
        BY <1>1, <4>1, FlightMoves
      <4>3. InFlight = Flight(stream, tty, wire)
        BY InFlightIs
      <4>4. InFlight' = Flight(stream, Append(tty, Head(wire)), Tail(wire))
        BY <3>1 DEF Deliver, InFlight, Flight
      <4> QED BY <4>2, <4>3, <4>4
    <3>2. CASE Fill
      <4>1. <<>> \o tty \o wire = tty \o <<>> \o wire
        BY <1>1, FlightFills
      <4> QED BY <3>2, <4>1 DEF Fill, InFlight
    <3> QED BY <1>3, <3>1, <3>2
  <2>2. UNCHANGED <<place, got, eof, screenVars, dueVars>>
    BY <1>3 DEF Deliver, Fill
  <2>3. place \in {"waiting", "pasting"} => stream' = stream
    BY <1>3 DEF Deliver, Fill, Reading
  <2>4. Report(cursor_row)' = Report(cursor_row)
    BY <2>2 DEF Report, screenVars
  <2>5. IsTyped(InFlight)' = IsTyped(InFlight)
    BY <2>1
  <2> QED BY <2>1, <2>2, <2>3, <2>4, <2>5, Calm DEF WireInv, screenVars, dueVars
<1> QED BY <1>2, <1>3

\* A question the shell asks when nothing is on its way and nothing is due.
LEMMA AskWire ==
  ASSUME answers = <<>>, Ask, InFlight' = <<>>, due' = <<>>, in_order', ~eof', cursor_row' = line_row'
  PROVE  WireInv'
<1>1. place' = "reporting" /\ answers' = <<cursor_row'>> /\ got' = <<>>
  BY DEF Ask
<1>2. got' \o InFlight' = <<>>
  BY <1>1
<1> QED BY <1>1, <1>2 DEF WireInv


LEMMA NextFlightIs == InFlight' = Flight(stream', tty', wire')
BY DEF InFlight, Flight

\* A byte read(2) takes, with what is left behind it.
LEMMA ReadTakes ==
  ASSUME stream \in Seq(Byte), tty \in Seq(Byte), wire \in Seq(Byte),
         stream = <<>>, tty # <<>>, tty' = Tail(tty), UNCHANGED <<stream, wire>>
  PROVE  /\ Head(tty) \in Byte /\ InFlight' \in Seq(Byte)
         /\ InFlight = <<Head(tty)>> \o InFlight'
<1>1. Head(tty) \in Byte /\ Tail(tty) \in Seq(Byte)
  BY HeadTailProperties
<1>2. Flight(stream, tty, wire) = Behind(Head(tty), Flight(stream, Tail(tty), wire))
  BY QueueTaken
<1>3. Flight(stream, Tail(tty), wire) \in Seq(Byte)
  BY <1>1, FlightTaken
<1> QED BY <1>1, <1>2, <1>3, InFlightIs, NextFlightIs DEF Behind

\* A byte getchar takes from the buffer.
LEMMA GetCharTakes ==
  ASSUME stream \in Seq(Byte), tty \in Seq(Byte), wire \in Seq(Byte),
         stream # <<>>, stream' = Tail(stream), UNCHANGED <<tty, wire>>
  PROVE  /\ Head(stream) \in Byte /\ InFlight' \in Seq(Byte)
         /\ InFlight = <<Head(stream)>> \o InFlight'
<1>1. Head(stream) \in Byte /\ Tail(stream) \in Seq(Byte)
  BY HeadTailProperties
<1>2. Flight(stream, tty, wire) = Behind(Head(stream), Flight(Tail(stream), tty, wire))
  BY FlightTaken
<1>3. Flight(Tail(stream), tty, wire) \in Seq(Byte)
  BY <1>1, FlightTaken
<1> QED BY <1>1, <1>2, <1>3, InFlightIs, NextFlightIs DEF Behind

\* A key of one byte, or the first of an escape sequence.
LEMMA ReadsWire ==
  ASSUME TypeOK, WireInv, Undisturbed, ReadByte \/ ReadPasted
  PROVE  WireInv'
<1>1. /\ place \in {"waiting", "pasting"} /\ tty # <<>> /\ tty' = Tail(tty)
      /\ TakeByte(Head(tty)) /\ UNCHANGED <<stream, eof, wire>>
  BY DEF ReadByte, ReadPasted
<1>2. /\ stream \in Seq(Byte) /\ tty \in Seq(Byte) /\ wire \in Seq(Byte)
      /\ stream = <<>> /\ got = <<>> /\ answers = <<>> /\ due = InFlight /\ IsTyped(InFlight)
      /\ in_order /\ ~eof /\ cursor_row = line_row
  BY <1>1, Calm
<1>3. PICK c, rest : c = Head(tty) /\ rest = InFlight'
  OBVIOUS
<1>4. c \in Byte /\ rest \in Seq(Byte) /\ InFlight = <<c>> \o rest
  BY <1>1, <1>2, <1>3, ReadTakes
<1>5. /\ c = ESC => <<c>> \o rest \in KnownSequences
      /\ c # ESC => IsTyped(rest)
      /\ c \notin Characters \cup {ESC} => rest = <<>>
  <2>1. IsTyped(<<c>> \o rest)
    BY <1>2, <1>4
  <2> QED BY <1>4, <2>1, TypedHead
<1>6. stream' = <<>> /\ ~eof'
  BY <1>1, <1>2
<1>7. IsTyped(rest) => IsTyped(InFlight)'
  BY <1>3
<1>8. CASE c = ESC /\ place' = "escape" /\ got' = <<ESC>> /\ UNCHANGED <<screenVars, dueVars>>
  <2>1. got' \o InFlight' = <<c>> \o rest
    BY <1>3, <1>8
  <2>2. got' \o InFlight' \in KnownSequences /\ due' = got' \o InFlight'
    BY <1>2, <1>4, <1>5, <1>8, <2>1 DEF dueVars
  <2>3. answers' = <<>> /\ in_order' /\ cursor_row' = line_row'
    BY <1>2, <1>8 DEF screenVars, dueVars
  <2> QED BY <1>6, <1>8, <2>2, <2>3 DEF WireInv
<1>9. CASE (TakeCharacter(c) \/ TakeEnter(c) \/ TakeTab(c) \/ TakeControl(c)) /\ Handle(<<c>>)
  <2>1. due' = rest /\ in_order'
    <3>1. <<c>> \in Seq(Byte)
      BY <1>4
    <3>2. due = <<c>> \o rest
      BY <1>2, <1>4
    <3> QED BY <1>2, <1>4, <1>9, <3>1, <3>2, HandlesTheFirst
  <2>2. cursor_row' = line_row'
    BY <1>2, <1>9 DEF TakeCharacter, TakeEnter, TakeTab, TakeControl, NewLine, StayOn
  <2>3. c # ESC /\ (c \in Characters => TakeCharacter(c))
    <3>1. ESC \notin Characters /\ Characters \cap Controls = {}
      BY TerminalInputAssumption
    <3>2. \A k \in {"enter", "tab", "ctrl_a", "ctrl_e", "ctrl_c", "ctrl_l", "backspace", "ctrl_d",
                    "control"} : k \in Controls /\ k # ESC
      BY DEF Controls, ESC
    <3>3. TakeEnter(c) \/ TakeTab(c) \/ TakeControl(c) => c \in Controls /\ c # ESC
      BY <3>2 DEF TakeEnter, TakeTab, TakeControl
    <3>4. TakeCharacter(c) => c \in Characters
      BY DEF TakeCharacter
    <3> QED BY <1>9, <3>1, <3>3, <3>4
  <2>4. CASE TakeCharacter(c)
    <3>1. place' = "pasting" /\ got' = <<>> /\ answers' = <<>>
      BY <1>2, <2>4 DEF TakeCharacter, NoAsk
    <3>2. <<>> \o rest = rest
      BY <1>4, ConcatEmptySeq
    <3>3. due' = got' \o InFlight'
      BY <1>3, <2>1, <3>1, <3>2
    <3>4. IsTyped(InFlight)'
      BY <1>5, <1>7, <2>3
    <3> QED BY <1>6, <2>1, <2>2, <3>1, <3>3, <3>4 DEF WireInv
  <2>5. CASE ~TakeCharacter(c)
    <3>1. rest = <<>> /\ InFlight' = <<>> /\ due' = <<>>
      BY <1>3, <1>5, <2>1, <2>3, <2>5
    <3>2. Ask \/ (NoAsk /\ place' \in {"waiting", "evaluating", "exited"})
      BY <1>9, <2>5 DEF TakeEnter, TakeTab, TakeControl
    <3>3. CASE Ask
      BY <1>2, <1>6, <2>1, <2>2, <3>1, <3>3, AskWire
    <3>4. CASE NoAsk /\ place' \in {"waiting", "evaluating", "exited"}
      <4>1. got' = <<>> /\ answers' = <<>>
        BY <1>2, <3>4 DEF NoAsk
      <4>2. due' = got' \o InFlight'
        BY <3>1, <4>1
      <4>3. IsTyped(InFlight)'
        BY <1>5, <1>7, <2>3
      <4> QED BY <1>6, <2>1, <2>2, <3>1, <3>4, <4>1, <4>2, <4>3 DEF WireInv
    <3> QED BY <3>2, <3>3, <3>4
  <2> QED BY <2>4, <2>5
<1>10. TakeByte(c)
  BY <1>1, <1>3
<1> QED BY <1>8, <1>9, <1>10 DEF TakeByte

\* A paste ends when nothing is there, and nothing is on its way then.
LEMMA NothingPastedWire ==
  ASSUME TypeOK, WireInv, Undisturbed, Undisturbed', NothingPasted
  PROVE  WireInv'
<1>1. place = "pasting" /\ tty = <<>> /\ UNCHANGED <<cursor_row, line_row, inputVars, dueVars>>
      /\ Ask /\ TooLate
  BY DEF NothingPasted
<1>2. wire = <<>>
  <2>1. "late" \notin causes'
    BY DEF Undisturbed
  <2> QED BY <1>1, <2>1 DEF TooLate
<1>3. /\ stream = <<>> /\ got = <<>> /\ answers = <<>> /\ due = InFlight /\ in_order /\ ~eof
      /\ cursor_row = line_row /\ stream \in Seq(Byte) /\ tty \in Seq(Byte) /\ wire \in Seq(Byte)
  BY <1>1, Calm
<1>4. InFlight = <<>>
  BY <1>1, <1>2, <1>3, NoFlight
<1>5. InFlight' = InFlight
  BY <1>1 DEF InFlight, inputVars
<1>6. in_order' /\ ~eof' /\ due' = <<>> /\ cursor_row' = line_row'
  BY <1>1, <1>3, <1>4 DEF inputVars, dueVars
<1> QED BY <1>1, <1>3, <1>4, <1>5, <1>6, AskWire


\* While bytes are on their way getchar returns the first of them, or its read
\* times out too early.
LEMMA GetCharCalm ==
  ASSUME TypeOK, WireInv, Undisturbed, Undisturbed', NEW c, GetChar(c),
         InFlight # <<>> \/ answers # <<>>
  PROVE  /\ c \in Byte /\ InFlight' \in Seq(Byte) /\ InFlight = <<c>> \o InFlight' /\ eof' = eof
<1>1. stream \in Seq(Byte) /\ tty \in Seq(Byte) /\ wire \in Seq(Byte) /\ ~eof
  BY Calm
<1>2. UNCHANGED <<tty, wire>>
  BY DEF GetChar
<1>3. CASE stream # <<>> /\ c = Head(stream) /\ stream' = Tail(stream) /\ UNCHANGED <<eof, causes>>
  <2>1. Head(stream) \in Byte /\ InFlight' \in Seq(Byte) /\ InFlight = <<Head(stream)>> \o InFlight'
    BY <1>1, <1>2, <1>3, GetCharTakes
  <2> QED BY <1>3, <2>1
<1>4. CASE stream = <<>> /\ tty = <<>> /\ TooLate
  <2>1. "late" \notin causes'
    BY DEF Undisturbed
  <2>2. wire = <<>> /\ answers = <<>>
    BY <1>4, <2>1 DEF TooLate
  <2>3. InFlight = <<>>
    BY <1>1, <1>4, <2>2, NoFlight
  <2> QED BY <2>2, <2>3
<1> QED BY <1>1, <1>3, <1>4 DEF GetChar

\* An escape sequence is read to its end, and to no more than its end.
LEMMA EscapeByteWire ==
  ASSUME TypeOK, WireInv, Undisturbed, Undisturbed', EscapeByte
  PROVE  WireInv'
<1>1. PICK c \in Byte \cup {EOF} :
        LET sequence == Append(got, c)
        IN /\ GetChar(c)
           /\ \/ /\ ReadsOn(sequence)
                 /\ got' = sequence
                 /\ UNCHANGED <<place, screenVars, dueVars>>
              \/ /\ sequence \in KnownSequences
                 /\ Handle(sequence)
                 /\ UNCHANGED <<cursor_row, line_row>> /\ Ask
              \/ /\ ~ReadsOn(sequence) /\ sequence \notin KnownSequences
                 /\ place' = "aborted" /\ got' = <<>>
                 /\ UNCHANGED <<screenVars, dueVars>>
  BY DEF EscapeByte
<1>2. place = "escape"
  BY DEF EscapeByte
<1>3. /\ InFlight \in Seq(Byte) /\ got \in Seq(Byte \cup {EOF}) /\ answers = <<>>
      /\ got \o InFlight \in KnownSequences /\ due = got \o InFlight
      /\ in_order /\ ~eof /\ cursor_row = line_row
  BY <1>2, Calm
<1>4. Byte \cup {EOF} \subseteq Compared /\ Byte \subseteq Compared
  BY DEF Compared
<1>5. got \in Seq(Compared)
  BY <1>3, <1>4, SeqMonotonic
<1>6. InFlight # <<>>
  <2>1. SUFFICES ASSUME InFlight = <<>> PROVE FALSE
    OBVIOUS
  <2>2. got \o <<>> = got
    BY <1>5, ConcatEmptySeq
  <2>3. got \in KnownSequences
    BY <1>3, <2>1, <2>2
  <2>4. ReadsOn(got)
    BY <1>2 DEF TypeOK
  <2> QED BY <2>3, <2>4, KnownEnds
<1>7. GetChar(c)
  BY <1>1
<1>8. c \in Byte /\ InFlight' \in Seq(Byte) /\ InFlight = <<c>> \o InFlight' /\ eof' = eof
  BY <1>6, <1>7, GetCharCalm
<1>9. PICK sequence, rest : sequence = Append(got, c) /\ rest = InFlight'
  OBVIOUS
<1>10. c \in Compared /\ rest \in Seq(Compared)
  <2>1. rest \in Seq(Byte)
    BY <1>8, <1>9
  <2> QED BY <1>4, <1>8, <2>1, SeqMonotonic
<1>11. sequence \in Seq(Compared)
  BY <1>5, <1>9, <1>10, AppendProperties
<1>12. got \o InFlight = sequence \o rest
  <2>1. got \o (<<c>> \o rest) = Append(got, c) \o rest
    BY <1>5, <1>10, TakenIsKept
  <2>2. InFlight = <<c>> \o rest
    BY <1>8, <1>9
  <2> QED BY <1>9, <2>1, <2>2
<1>13. ReadsOn(sequence) \/ (sequence \in KnownSequences /\ rest = <<>>)
  BY <1>3, <1>10, <1>11, <1>12, KnownNext
<1>14. sequence \in KnownSequences => rest = <<>>
  BY <1>3, <1>10, <1>11, <1>12, KnownNext
<1>15. CASE ReadsOn(sequence) /\ got' = sequence /\ UNCHANGED <<place, screenVars, dueVars>>
  <2>1. got' \o InFlight' = got \o InFlight
    BY <1>9, <1>12, <1>15
  <2>2. due' = got' \o InFlight' /\ got' \o InFlight' \in KnownSequences
    BY <1>3, <1>15, <2>1 DEF dueVars
  <2>3. place' = "escape" /\ answers' = <<>> /\ in_order' /\ ~eof' /\ cursor_row' = line_row'
    BY <1>2, <1>3, <1>8, <1>15 DEF dueVars, screenVars
  <2> QED BY <2>2, <2>3 DEF WireInv
<1>16. CASE /\ sequence \in KnownSequences /\ Handle(sequence)
            /\ UNCHANGED <<cursor_row, line_row>> /\ Ask
  <2>1. rest = <<>>
    BY <1>14, <1>16
  <2>2. due = sequence \o rest
    BY <1>3, <1>12
  <2>3. due' = rest /\ in_order'
    BY <1>3, <1>10, <1>11, <1>16, <2>2, HandlesTheFirst
  <2>4. InFlight' = <<>> /\ due' = <<>> /\ ~eof' /\ cursor_row' = line_row'
    BY <1>3, <1>8, <1>9, <1>16, <2>1, <2>3
  <2> QED BY <1>3, <1>16, <2>3, <2>4, AskWire
<1> QED BY <1>1, <1>9, <1>13, <1>15, <1>16

\* Rows are written differently, so that an answer means the row it is about.
LEMMA ReportRead ==
  ASSUME NEW row \in DOMAIN RowDigit
  PROVE  IsReport(Report(row)) /\ RowOf(Report(row)) = row
<1>1. PICK r : r = Report(row)
  OBVIOUS
<1>2. Len(r) = 6 /\ r[1] = ESC /\ r[2] = "[" /\ r[3] = RowDigit[row] /\ r[4] = ";"
      /\ r[5] = RowDigit[1]
  BY <1>1, ReportIs
<1>3. r[3] \in ToSet(RowDigit)
  BY <1>2 DEF ToSet
<1>4. r[5] \in Digits
  BY <1>2, RowConstants, RowBytes
<1>5. IsReport(r)
  <2>1. Len(r) >= 5
    <3>1. Len(r) = 6
      BY <1>2, Zenon
    <3> QED BY <3>1
  <2>2. r[1] = ESC /\ r[2] = "[" /\ r[4] = ";"
    BY <1>2
  <2> QED BY <1>3, <1>4, <2>1, <2>2, Zenon DEF IsReport
<1>6. \A other \in DOMAIN RowDigit : RowDigit[other] = r[3] => other = row
  <2>1. IsInjective(RowDigit)
    BY TerminalInputAssumption
  <2> QED BY <1>2, <2>1 DEF IsInjective
<1>7. RowOf(r) = row
  BY <1>2, <1>6 DEF RowOf
<1> QED BY <1>1, <1>5, <1>7

\* The "R" is the last byte of an answer and no other.
LEMMA ReportEndsOnce ==
  ASSUME NEW row \in DOMAIN RowDigit, NEW k \in 1 .. 6
  PROVE  Report(row)[k] = "R" <=> k = 6
<1>1. PICK r, d, e : r = Report(row) /\ d = RowDigit[row] /\ e = RowDigit[1]
  OBVIOUS
<1>2. d \in Digits /\ e \in Digits
  BY <1>1, RowBytes, RowConstants
<1>3. d # "R" /\ e # "R"
  BY <1>2 DEF Digits
<1>4. r[1] # "R" /\ r[2] # "R" /\ r[3] # "R" /\ r[4] # "R" /\ r[5] # "R" /\ r[6] = "R"
  <2>1. r[1] = ESC /\ r[2] = "[" /\ r[3] = d /\ r[4] = ";" /\ r[5] = e /\ r[6] = "R"
    BY <1>1, ReportIs
  <2>2. ESC # "R" /\ "[" # "R" /\ ";" # "R"
    BY DEF ESC
  <2> QED BY <1>3, <2>1, <2>2
<1>5. k \in {1, 2, 3, 4, 5, 6}
  OBVIOUS
<1> QED BY <1>1, <1>4, <1>5

\* get_cursor_position reads the answer to its end, and takes the row from it.
LEMMA ReportByteWire ==
  ASSUME TypeOK, WireInv, Undisturbed, Undisturbed', ReportByte
  PROVE  WireInv'
<1>1. PICK c \in Byte \cup {EOF} :
        LET bytes == Kept(c)
        IN /\ GetChar(c)
           /\ IF c = "R" \/ EndsReport(bytes)
              THEN /\ place' = "waiting" /\ got' = <<>>
                   /\ cursor_row' = RowAfter(bytes)
              ELSE /\ got' = bytes /\ UNCHANGED <<place, cursor_row>>
           /\ UNCHANGED <<answers, line_row, dueVars>>
  BY DEF ReportByte
<1>2. place = "reporting"
  BY DEF ReportByte
<1>3. /\ InFlight \in Seq(Byte) /\ got \in Seq(Byte \cup {EOF}) /\ due = <<>>
      /\ in_order /\ ~eof /\ cursor_row = line_row /\ cursor_row \in DOMAIN RowDigit
      /\ \/ answers = <<cursor_row>> /\ got \o InFlight = <<>>
         \/ answers = <<>> /\ got \o InFlight = Report(cursor_row) /\ InFlight # <<>>
  BY <1>2, Calm
<1>4. PICK bytes, rest, r : bytes = Append(got, c) /\ rest = InFlight' /\ r = Report(cursor_row)
  OBVIOUS
<1>5. GetChar(c)
  BY <1>1
<1>6. c \in Byte /\ rest \in Seq(Byte) /\ InFlight = <<c>> \o rest /\ eof' = eof
  <2>1. answers # <<>> \/ InFlight # <<>>
    <3>1. answers = <<cursor_row>> => answers # <<>>
      OBVIOUS
    <3> QED BY <1>3, <3>1
  <2> QED BY <1>4, <1>5, <2>1, GetCharCalm
<1>7. rest \in Seq(Byte \cup {EOF}) /\ InFlight \in Seq(Byte \cup {EOF})
  BY <1>3, <1>6, SeqMonotonic
<1>8. got \o InFlight = bytes \o rest
  <2>1. got \o (<<c>> \o rest) = Append(got, c) \o rest
    BY <1>3, <1>6, <1>7, TakenIsKept
  <2> QED BY <1>4, <1>6, <2>1
<1>9. bytes \in Seq(Byte \cup {EOF}) /\ Len(bytes) = Len(got) + 1 /\ bytes[Len(got) + 1] = c
      /\ Len(got) \in Nat
  BY <1>1, <1>3, <1>4, AppendProperties
<1>10. answers = <<>> /\ bytes \o rest = r
  <2>1. got \o InFlight # <<>>
    <3>1. InFlight # <<>>
      <4>1. PICK i, h : i = InFlight /\ h = <<c>>
        OBVIOUS
      <4>2. h \in Seq(Byte) /\ Len(h) = 1 /\ i = h \o rest
        BY <1>6, <4>1
      <4>3. Len(i) = 1 + Len(rest) /\ Len(rest) \in Nat
        BY <1>6, <4>2, ConcatProperties
      <4>4. Len(i) # 0
        BY <4>3
      <4> QED BY <4>1, <4>4, EmptySeq
    <3> QED BY <1>3, <1>7, <3>1, ConcatEqualIffEmpty
  <2> QED BY <1>3, <1>4, <1>8, <2>1
<1>11. PICK n \in Nat, m \in Nat : n = Len(bytes) /\ m = Len(rest)
  BY <1>6, <1>9
<1>12. n + m = 6 /\ n > 0 /\ r[n] = c
  <2>1. Len(bytes \o rest) = n + m
    BY <1>7, <1>9, <1>11, ConcatProperties
  <2>2. Len(r) = 6
    BY <1>3, <1>4, ReportIs
  <2>3. n = Len(got) + 1 /\ n \in 1 .. Len(bytes) + Len(rest) /\ n <= Len(bytes)
    BY <1>9, <1>11
  <2>4. (bytes \o rest)[n] = bytes[n]
    BY <1>7, <1>9, <2>3, ConcatProperties
  <2>5. r[n] = bytes[n] /\ bytes[n] = c
    BY <1>9, <1>10, <2>3, <2>4
  <2>6. n + m = 6
    BY <1>10, <2>1, <2>2
  <2>7. n > 0
    BY <1>9, <2>3
  <2> QED BY <2>5, <2>6, <2>7
<1>13. c = "R" <=> n = 6
  <2>1. n \in 1 .. 6
    BY <1>11, <1>12
  <2> QED BY <1>3, <1>4, <1>12, <2>1, ReportEndsOnce
<1>14. EndsReport(bytes) => n = 6
  BY <1>11, <1>12, BoundConstants DEF EndsReport
<1>15. CASE n = 6
  <2>1. rest = <<>>
    <3>1. m = 0
      BY <1>11, <1>12, <1>15
    <3> QED BY <1>6, <1>11, <3>1, EmptySeq
  <2>2. bytes = r
    <3>1. bytes \o <<>> = bytes
      BY <1>9, ConcatEmptySeq
    <3> QED BY <1>10, <2>1, <3>1
  <2>3. place' = "waiting" /\ got' = <<>> /\ UNCHANGED <<answers, line_row, dueVars>>
        /\ cursor_row' = RowAfter(bytes)
    BY <1>1, <1>4, <1>13, <1>15 DEF Kept
  <2>4. cursor_row' = cursor_row
    BY <1>3, <1>4, <2>2, <2>3, ReportRead DEF RowAfter
  <2>5. InFlight' = <<>> /\ got' \o InFlight' = <<>>
    BY <1>4, <2>1, <2>3
  <2>6. IsTyped(InFlight)'
    <3>1. IsTyped(<<>>)
      BY DEF IsTyped
    <3> QED BY <2>5, <3>1
  <2>7. stream' = <<>>
    <3>1. /\ stream \in Seq(Byte) /\ tty \in Seq(Byte) /\ wire \in Seq(Byte)
      BY Calm
    <3>2. UNCHANGED <<tty, wire>> /\ stream' \in Seq(Byte)
      <4>1. stream # <<>> => Tail(stream) \in Seq(Byte)
        BY <3>1, HeadTailProperties
      <4> QED BY <1>5, <3>1, <4>1 DEF GetChar
    <3>3. tty' \in Seq(Byte) /\ wire' \in Seq(Byte)
      BY <3>1, <3>2
    <3>4. Flight(stream', tty', wire') = <<>>
      BY <2>5, NextFlightIs
    <3> QED BY <3>2, <3>3, <3>4, FlightTaken
  <2>8. answers' = <<>> /\ due' = <<>> /\ in_order' /\ ~eof' /\ cursor_row' = line_row'
    BY <1>3, <1>6, <1>10, <2>3, <2>4 DEF dueVars
  <2> QED BY <2>3, <2>5, <2>6, <2>7, <2>8 DEF WireInv
<1>16. CASE n # 6
  <2>1. got' = bytes /\ UNCHANGED <<place, cursor_row, answers, line_row, dueVars>>
    BY <1>1, <1>4, <1>13, <1>14, <1>16 DEF Kept
  <2>2. InFlight' # <<>>
    <3>1. m # 0
      BY <1>11, <1>12, <1>16
    <3> QED BY <1>4, <1>11, <3>1
  <2>3. Report(cursor_row)' = r
    BY <1>4, <2>1 DEF Report
  <2>4. got' \o InFlight' = Report(cursor_row)'
    BY <1>4, <1>10, <2>1, <2>3
  <2>5. place' = "reporting" /\ answers' = <<>> /\ due' = <<>> /\ in_order' /\ ~eof'
        /\ cursor_row' = line_row'
    BY <1>2, <1>3, <1>6, <1>10, <2>1 DEF dueVars
  <2> QED BY <2>2, <2>4, <2>5 DEF WireInv
<1> QED BY <1>15, <1>16

\* Nothing is on its way while a line runs.
LEMMA RunWire ==
  ASSUME TypeOK, WireInv, Undisturbed, EvalInShell \/ RunProgram \/ ProgramReads \/ ProgramEnds
  PROVE  WireInv'
<1>1. place \in {"evaluating", "running"}
  BY DEF EvalInShell, RunProgram, ProgramReads, ProgramEnds
<1>2. /\ stream \in Seq(Byte) /\ tty \in Seq(Byte) /\ wire \in Seq(Byte)
      /\ InFlight = <<>> /\ got = <<>> /\ due = InFlight /\ answers = <<>>
      /\ in_order /\ ~eof /\ cursor_row = line_row
  BY <1>1, Calm
<1>3. stream = <<>> /\ tty = <<>> /\ wire = <<>>
  BY <1>2, NoFlight
<1>4. /\ place' \in {"waiting", "running"} /\ tty' = <<>>
      /\ UNCHANGED <<got, stream, eof, wire, answers, dueVars>>
      /\ NewLine \/ UNCHANGED <<cursor_row, line_row>>
  BY <1>3 DEF EvalInShell, RunProgram, ProgramReads, ProgramEnds, inputVars, screenVars
<1>5. InFlight' = InFlight
  BY <1>3, <1>4 DEF InFlight
<1>6. cursor_row' = line_row'
  BY <1>2, <1>4 DEF NewLine, StayOn
<1>7. got' \o InFlight' = <<>>
  BY <1>2, <1>4, <1>5
<1>8. IsTyped(InFlight)'
  <2>1. IsTyped(<<>>)
    BY DEF IsTyped
  <2> QED BY <1>2, <1>5, <2>1
<1>9. in_order' /\ ~eof' /\ due' = <<>> /\ answers' = <<>> /\ stream' = <<>> /\ InFlight' = <<>>
  BY <1>2, <1>3, <1>4, <1>5 DEF dueVars
<1> QED BY <1>4, <1>6, <1>7, <1>8, <1>9 DEF WireInv

LEMMA InitWire == Init => WireInv
<1> SUFFICES ASSUME Init PROVE WireInv
  OBVIOUS
<1>1. InFlight = <<>> /\ got \o InFlight = <<>>
  BY DEF Init, InFlight
<1>2. IsTyped(InFlight)
  BY <1>1 DEF IsTyped
<1> QED BY <1>1, <1>2 DEF Init, WireInv

LEMMA NextWire == TypeOK /\ WireInv /\ [Next]_vars => WireInv'
<1> SUFFICES ASSUME TypeOK, WireInv, [Next]_vars, Undisturbed' PROVE WireInv'
  BY DEF WireInv
<1>1. Undisturbed
  BY CausesGrow
<1>2. CASE UserTypes
  BY <1>1, <1>2, UserTypesWire
<1>3. CASE TerminalAnswers \/ Deliver \/ Fill
  BY <1>1, <1>3, TransportWire
<1>4. CASE ReadByte \/ ReadPasted
  BY <1>1, <1>4, ReadsWire
<1>5. CASE NothingPasted
  BY <1>1, <1>5, NothingPastedWire
<1>6. CASE EscapeByte
  BY <1>1, <1>6, EscapeByteWire
<1>7. CASE ReportByte
  BY <1>1, <1>7, ReportByteWire
<1>8. CASE EvalInShell \/ RunProgram \/ ProgramReads \/ ProgramEnds
  BY <1>1, <1>8, RunWire
<1>9. CASE UNCHANGED vars
  <2>1. WireInv <=> WireInv'
    BY <1>9 DEF vars, inputVars, screenVars, dueVars, userVars, WireInv, Undisturbed, InFlight,
                Report
  <2> QED BY <2>1
<1> QED BY <1>2, <1>3, <1>4, <1>5, <1>6, <1>7, <1>8, <1>9 DEF Next, ShellStep, Rests

(***************************************************************************)
(* A user who waits for the shell, and a terminal that is in time, are all *)
(* it takes: keys and answers are never on their way together, for any     *)
(* length of the pastes and however the bytes are cut into pieces.         *)
(***************************************************************************)
THEOREM WireInvariance == Spec => []WireInv
<1>1. Init /\ [][Next]_vars => [](TypeOK /\ WireInv)
  BY InitType, NextType, InitWire, NextWire, PTL
<1> QED BY <1>1, PTL DEF Spec

LEMMA WireTyped == Spec => [](TypeOK /\ WireInv)
BY TypeCorrectness, WireInvariance, PTL

(***************************************************************************)
(* No byte that is typed is lost, doubled, or handled out of order between *)
(* read(2) and getchar, unless somebody disturbs: what is still due is     *)
(* exactly what was read of a key and what is on its way.                  *)
(***************************************************************************)
THEOREM KeysInOrder == Spec => []EveryKeyInOrder
<1>1. TypeOK /\ WireInv => EveryKeyInOrder
  <2> SUFFICES ASSUME TypeOK, WireInv, Undisturbed
               PROVE  in_order /\ due = IF place = "reporting" THEN <<>>
                                        ELSE got \o stream \o tty \o wire
    BY DEF EveryKeyInOrder
  <2>1. in_order
    BY Calm
  <2>2. CASE place = "reporting"
    BY <2>1, <2>2, Calm
  <2>3. CASE place # "reporting"
    <3>1. PICK g, a, b, w : g = got /\ a = stream /\ b = tty /\ w = wire
      OBVIOUS
    <3>2. PICK S : S = Byte \cup {EOF}
      OBVIOUS
    <3>3. g \in Seq(S) /\ a \in Seq(S) /\ b \in Seq(S) /\ w \in Seq(S)
      <4>1. stream \in Seq(Byte) /\ tty \in Seq(Byte) /\ wire \in Seq(Byte)
            /\ got \in Seq(Byte \cup {EOF})
        BY Calm
      <4> QED BY <3>1, <3>2, <4>1, SeqMonotonic
    <3>4. PICK ab : ab = a \o b
      OBVIOUS
    <3>5. ab \in Seq(S)
      BY <3>3, <3>4, ConcatProperties
    <3>6. (g \o a) \o b = g \o ab
      BY <3>3, <3>4, ConcatAssociative
    <3>7. (g \o ab) \o w = g \o (ab \o w)
      BY <3>3, <3>5, ConcatAssociative
    <3>8. due = g \o (ab \o w)
      BY <2>3, <3>1, <3>4, Calm DEF InFlight
    <3> QED BY <2>1, <2>3, <3>1, <3>6, <3>7, <3>8
  <2> QED BY <2>2, <2>3
<1> QED BY <1>1, WireTyped, PTL

(***************************************************************************)
(* The assertions about escape sequences hold for every user who sends     *)
(* known keys one by one to a terminal that is in time.                    *)
(***************************************************************************)
THEOREM OnlyDisturbedAborts == Spec => []AbortsOnlyDisturbed
<1>1. WireInv => AbortsOnlyDisturbed
  BY DEF WireInv, AbortsOnlyDisturbed
<1> QED BY <1>1, WireInvariance, PTL

(***************************************************************************)
(* The row get_cursor_position reads is the row the line is on.            *)
(***************************************************************************)
THEOREM RowIsKept == Spec => []StaysOnItsRow
<1>1. WireInv => StaysOnItsRow
  BY DEF WireInv, StaysOnItsRow
<1> QED BY <1>1, WireInvariance, PTL
==============================================================================
