-------------------------- MODULE CommandParserProofs --------------------------
(***************************************************************************)
(* Theorems about Tokenizer.tla and CommandParser.tla, for lines of any    *)
(* length and any characters: the places and texts of tokens, what stands  *)
(* in a line and what is read of it, then the calls of the parser and the  *)
(* grammar of what they read.                                              *)
(***************************************************************************)
EXTENDS CommandParser, FiniteSetTheorems, Recursion

------------------------------------------------------------------------------
(* Characters. *)

\* The first character that satisfies a condition, the set of those being S.
LEMMA FirstPlace ==
  ASSUME NEW p \in Nat, NEW n \in Nat, p <= n, NEW S
  PROVE  \E q \in p .. n : (q = n \/ q \in S) /\ \A r \in p .. q - 1 : r \notin S
<1> DEFINE T == {q \in p .. n : q = n \/ q \in S}
<1>1. n \in T /\ T \subseteq Nat
  OBVIOUS
<1>2. PICK m \in T : \A r \in T : m <= r
  BY <1>1, LeastOf
<1>3. \A r \in p .. m - 1 : r \notin S
  BY <1>2
<1> QED BY <1>2, <1>3

\* The blanks skipped lead to a place of the line.
LEMMA SkipType ==
  ASSUME NEW p \in 0 .. Length, Length \in Nat
  PROVE  skip_whitespace(p) \in p .. Length
<1> DEFINE S == {q \in p .. Length : Char(q) \notin Whitespace}
<1> HIDE DEF S
<1> p \in Nat /\ p <= Length
  OBVIOUS
<1>1. \E q \in p .. Length : (q = Length \/ q \in S) /\ \A r \in p .. q - 1 : r \notin S
  BY FirstPlace
<1>2. \E q \in p .. Length : (q = Length \/ Char(q) \notin Whitespace)
                             /\ \A r \in p .. q - 1 : ~(Char(r) \notin Whitespace)
  BY <1>1 DEF S
<1> QED BY <1>2 DEF skip_whitespace, FirstFrom

\* A word that starts in the line ends in it, and not before it starts.
LEMMA StringEndType ==
  ASSUME NEW p \in 0 .. Length - 1, Length \in Nat
  PROVE  StringEnd(p) \in (IF IsQuoted(p) THEN p + 1 ELSE p) .. Length
<1>1. CASE IsQuoted(p)
  <2> DEFINE P(q) == BadEscape(p, q) \/ Closes(p, q) \/ Char(q) \in Unprintable
             S == {q \in p + 1 .. Length : P(q)}
  <2> HIDE DEF P, S
  <2> p + 1 \in Nat /\ p + 1 <= Length
    OBVIOUS
  <2>1. \E q \in p + 1 .. Length : (q = Length \/ q \in S) /\ \A r \in p + 1 .. q - 1 : r \notin S
    BY FirstPlace
  <2>2. \E q \in p + 1 .. Length : (q = Length \/ P(q)) /\ \A r \in p + 1 .. q - 1 : ~P(r)
    BY <2>1 DEF S
  <2> QED BY <1>1, <2>2 DEF P, StringEnd, FirstFrom
<1>2. CASE ~IsQuoted(p)
  <2> DEFINE P(q) == Char(q) \in Whitespace \cup {Backslash} \cup Unprintable
             S == {q \in p .. Length : P(q)}
  <2> HIDE DEF P, S
  <2> p \in Nat /\ p <= Length
    OBVIOUS
  <2>1. \E q \in p .. Length : (q = Length \/ q \in S) /\ \A r \in p .. q - 1 : r \notin S
    BY FirstPlace
  <2>2. \E q \in p .. Length : (q = Length \/ P(q)) /\ \A r \in p .. q - 1 : ~P(r)
    BY <2>1 DEF S
  <2> QED BY <1>2, <2>2 DEF P, StringEnd, FirstFrom
<1> QED BY <1>1, <1>2

------------------------------------------------------------------------------
(* Symbols. *)

\* A spelling has one to three characters, and none is the end of the line.
LEMMA SpellingShape ==
  ASSUME NEW kind \in DOMAIN Spelling
  PROVE  /\ kind \in TokenKinds
         /\ Len(Spelling[kind]) \in 1 .. 3
         /\ Spelling[kind][Len(Spelling[kind])] # Nul
<1>1. kind \in {"|", "&&", "*", "$?", ">", ">>", "1>", "1>>", "2>", "2>>"} /\ kind \in TokenKinds
  BY DEF Spelling, TokenKinds, Symbols, Redirects
<1>2. Spelling[kind] \in {<<"|">>, <<"&", "&">>, <<"*">>, <<"$", "?">>, <<">">>, <<">", ">">>,
                          <<"1", ">">>, <<"1", ">", ">">>, <<"2", ">">>, <<"2", ">", ">">>}
  BY <1>1 DEF Spelling
<1>3. ASSUME NEW s \in {<<"|">>, <<"*">>, <<">">>}
      PROVE  Len(s) = 1 /\ s[1] # Nul
  BY DEF Nul
<1>4. ASSUME NEW s \in {<<"&", "&">>, <<"$", "?">>, <<">", ">">>, <<"1", ">">>, <<"2", ">">>}
      PROVE  Len(s) = 2 /\ s[2] # Nul
  BY DEF Nul
<1>5. ASSUME NEW s \in {<<"1", ">", ">">>, <<"2", ">", ">">>}
      PROVE  Len(s) = 3 /\ s[3] # Nul
  BY DEF Nul
<1> HIDE DEF Nul
<1> QED BY <1>1, <1>2, <1>3, <1>4, <1>5

SpellingChars == {"|", "&", "*", "$", "?", ">", "1", "2"}

LEMMA SpellingType ==
  ASSUME NEW kind \in DOMAIN Spelling
  PROVE  Spelling[kind] \in Seq(SpellingChars)
<1>1. kind \in {"|", "&&", "*", "$?", ">", ">>", "1>", "1>>", "2>", "2>>"}
  BY DEF Spelling, TokenKinds, Symbols, Redirects
<1>2. Spelling[kind] \in {<<"|">>, <<"&", "&">>, <<"*">>, <<"$", "?">>, <<">">>, <<">", ">">>,
                          <<"1", ">">>, <<"1", ">", ">">>, <<"2", ">">>, <<"2", ">", ">">>}
  BY <1>1 DEF Spelling
<1>3. PICK T : T = SpellingChars
  OBVIOUS
<1>4. ASSUME NEW x \in T, NEW y \in T, NEW z \in T
      PROVE  <<x>> \in Seq(T) /\ <<x, y>> \in Seq(T) /\ <<x, y, z>> \in Seq(T)
  OBVIOUS
<1>5. /\ "|" \in T /\ "&" \in T /\ "*" \in T /\ "$" \in T /\ "?" \in T /\ ">" \in T
      /\ "1" \in T /\ "2" \in T
  BY <1>3 DEF SpellingChars
<1>6. /\ \A s \in {<<"|">>, <<"*">>, <<">">>} : s \in Seq(T)
      /\ \A s \in {<<"&", "&">>, <<"$", "?">>, <<">", ">">>, <<"1", ">">>, <<"2", ">">>} : s \in Seq(T)
      /\ \A s \in {<<"1", ">", ">">>, <<"2", ">", ">">>} : s \in Seq(T)
  BY <1>4, <1>5
<1> QED BY <1>2, <1>3, <1>6

\* Two symbols have two spellings, and each starts as a symbol does.
LEMMA SpellingStarts ==
  ASSUME NEW kind \in DOMAIN Spelling
  PROVE  \/ Spelling[kind][1] \in {"*", "|", "&", "$", ">"}
         \/ Len(Spelling[kind]) > 1 /\ Spelling[kind][1] \in {"1", "2"} /\ Spelling[kind][2] = ">"
<1>1. kind \in {"|", "&&", "*", "$?", ">", ">>", "1>", "1>>", "2>", "2>>"}
  BY DEF Spelling, TokenKinds, Symbols, Redirects
<1>2. Spelling[kind] \in {<<"|">>, <<"&", "&">>, <<"*">>, <<"$", "?">>, <<">">>, <<">", ">">>,
                          <<"1", ">">>, <<"1", ">", ">">>, <<"2", ">">>, <<"2", ">", ">">>}
  BY <1>1 DEF Spelling
<1> QED BY <1>2

LEMMA SpellingDiffers ==
  ASSUME NEW kind \in DOMAIN Spelling, NEW other \in DOMAIN Spelling, Spelling[kind] = Spelling[other]
  PROVE  kind = other
<1>1. /\ kind \in {"|", "&&", "*", "$?", ">", ">>", "1>", "1>>", "2>", "2>>"}
      /\ other \in {"|", "&&", "*", "$?", ">", ">>", "1>", "1>>", "2>", "2>>"}
  BY DEF Spelling, TokenKinds, Symbols, Redirects
<1> QED BY <1>1 DEF Spelling

\* The longest spelling is one of those that fit.
LEMMA SymbolAtType ==
  ASSUME NEW p, Spelled(p) # {}
  PROVE  /\ SymbolAt(p) \in Spelled(p)
         /\ \A other \in Spelled(p) : Len(Spelling[other]) <= Len(Spelling[SymbolAt(p)])
<1> DEFINE L(kind) == Len(Spelling[kind])
<1>1. \A kind \in Spelled(p) : L(kind) \in 1 .. 3
  BY SpellingShape DEF Spelled
<1> HIDE DEF L
<1>2. CASE \E kind \in Spelled(p) : L(kind) = 3
  <2>1. \E kind \in Spelled(p) : \A other \in Spelled(p) : L(other) <= L(kind)
    BY <1>1, <1>2
  <2> QED BY <2>1 DEF SymbolAt, L
<1>3. CASE (\A kind \in Spelled(p) : L(kind) # 3) /\ \E kind \in Spelled(p) : L(kind) = 2
  <2>1. \E kind \in Spelled(p) : \A other \in Spelled(p) : L(other) <= L(kind)
    BY <1>1, <1>3
  <2> QED BY <2>1 DEF SymbolAt, L
<1>4. CASE \A kind \in Spelled(p) : L(kind) # 3 /\ L(kind) # 2
  <2>1. \E kind \in Spelled(p) : \A other \in Spelled(p) : L(other) <= L(kind)
    BY <1>1, <1>4
  <2> QED BY <2>1 DEF SymbolAt, L
<1> QED BY <1>2, <1>3, <1>4

\* A symbol that fits ends in the line.
LEMMA SymbolEnd ==
  ASSUME NEW p \in Nat, Length \in Nat, Spelled(p) # {}
  PROVE  SymbolAt(p) \in TokenKinds /\ EndOf(p) \in p + 1 .. Length
<1>1. SymbolAt(p) \in Spelled(p)
  BY SymbolAtType
<1>2. PICK kind \in DOMAIN Spelling : kind = SymbolAt(p)
  BY <1>1 DEF Spelled
<1>3. PICK n \in 1 .. 3 : n = Len(Spelling[kind])
  BY SpellingShape
<1>4. Char(p + n - 1) = Spelling[kind][n]
  <2>1. \A i \in 1 .. Len(Spelling[kind]) : Char(p + i - 1) = Spelling[kind][i]
    BY <1>1, <1>2 DEF Spelled
  <2> QED BY <1>3, <2>1
<1>5. Char(p + n - 1) # Nul
  BY <1>3, <1>4, SpellingShape
<1>6. p + n - 1 < Length
  BY <1>5, <1>3 DEF Char
<1> QED BY <1>2, <1>3, <1>6, SpellingShape DEF EndOf

\* What starts like a symbol starts in the line.
LEMMA SymbolStart ==
  ASSUME NEW p \in 0 .. Length, Length \in Nat, StartsSymbol(p)
  PROVE  p < Length
BY DEF StartsSymbol, Char, Nul

------------------------------------------------------------------------------
(* The tokenizer. *)

\* A sequence is one of its elements.
LEMMA SeqOfItsElements ==
  ASSUME NEW S, NEW s \in Seq(S)
  PROVE  s \in Seq(ToSet(s))
<1>1. s \in [1 .. Len(s) -> S] /\ Len(s) \in Nat /\ DOMAIN s = 1 .. Len(s)
  BY LenProperties
<1>2. s \in [1 .. Len(s) -> ToSet(s)]
  BY <1>1 DEF ToSet
<1> QED BY <1>1, <1>2, SeqDef

\* The line is a sequence, its length a number.
LEMMA LengthType == PlacesOK => Length \in Nat
BY DEF PlacesOK, Length

LEMMA PlacesInit == Init => PlacesOK
<1> SUFFICES ASSUME Init PROVE PlacesOK
  OBVIOUS
<1>1. PICK l \in Lines : source = l.source
  BY DEF Init, TokenizerInit
<1>2. source \in Seq(ToSet(source))
  BY <1>1, TokenizerAssumption
<1>3. index = 0 /\ error_start_index = -1 /\ tokens = <<>> /\ phase = "tokenizing"
  BY DEF Init, TokenizerInit
<1>4. Length \in Nat
  BY <1>2 DEF Length
<1>5. tokens \in Seq({}) /\ Len(tokens) = 0
  BY <1>3, EmptySeq
<1>6. tokens \in Seq(ToSet(tokens))
  BY <1>5, SeqOfItsElements
<1> QED BY <1>2, <1>3, <1>4, <1>5, <1>6 DEF PlacesOK

\* A token that is taken starts in the line, and the next place is in it.
LEMMA TakePlaces ==
  ASSUME PlacesOK, NEW kind \in TokenKinds, NEW text, NEW p \in 0 .. Length,
         NEW next \in 0 .. Length, Take(NewToken(kind, text, p), next)
  PROVE  PlacesOK'
<1> DEFINE t == NewToken(kind, text, p)
<1>1. t.kind = kind /\ t.token_index_start = p
  BY DEF NewToken
<1> HIDE DEF t
<1>2. PICK S : S = ToSet(tokens) /\ tokens \in Seq(S)
  BY DEF PlacesOK
<1>3. tokens' = Append(tokens, t) /\ tokens \in Seq(S \cup {t})
  BY <1>2, SeqMonotonic DEF Take, t
<1>4. /\ tokens' \in Seq(S \cup {t}) /\ Len(tokens') = Len(tokens) + 1
      /\ \A k \in 1 .. Len(tokens) : tokens'[k] = tokens[k]
      /\ tokens'[Len(tokens) + 1] = t
  BY <1>3, AppendProperties
<1>5. tokens' \in Seq(ToSet(tokens'))
  BY <1>4, SeqOfItsElements
<1>6. Len(tokens) \in Nat
  BY <1>2
<1>7. Length' = Length /\ UNCHANGED <<source, error_start_index, phase>> /\ index' = next
  BY DEF Take, Length
<1>8. ASSUME NEW k \in 1 .. Len(tokens')
      PROVE  tokens'[k].kind \in TokenKinds /\ tokens'[k].token_index_start \in 0 .. Length
  <2>1. CASE k = Len(tokens) + 1
    BY <1>1, <1>4, <2>1
  <2>2. CASE k # Len(tokens) + 1
    <3>1. k \in 1 .. Len(tokens)
      BY <1>4, <1>6, <2>2
    <3> QED BY <1>4, <3>1 DEF PlacesOK
  <2> QED BY <2>1, <2>2
<1> QED BY <1>5, <1>7, <1>8 DEF PlacesOK

\* An error in the line is reported there.
LEMMA RefusePlaces ==
  ASSUME PlacesOK, NEW p \in 0 .. Length, Start \in 0 .. Length, Refuse(p)
  PROVE  PlacesOK'
<1>1. Length' = Length /\ UNCHANGED <<source, tokens>>
  BY DEF Refuse, Length
<1> QED BY <1>1 DEF PlacesOK, Refuse

\* Every turn of the loop of tokenize keeps the places in the line.
LEMMA TokenizePlaces ==
  ASSUME PlacesOK, Tokenize
  PROVE  PlacesOK'
<1>1. Length \in Nat
  BY LengthType
<1>2. index \in 0 .. Length
  BY DEF PlacesOK
<1>3. Start \in 0 .. Length
  BY <1>1, <1>2, SkipType DEF Start
<1>4. CASE TakeSymbol
  <2>1. SymbolAt(Start) \in TokenKinds /\ EndOf(Start) \in 0 .. Length
    BY <1>1, <1>3, <1>4, SymbolEnd DEF TakeSymbol, IsSymbol
  <2> QED BY <1>3, <1>4, <2>1, TakePlaces DEF TakeSymbol
<1>5. CASE RefuseSymbol
  <2>1. CASE Spelled(Start) = {}
    <3>1. Start + 1 \in 0 .. Length
      BY <1>1, <1>3, <1>5, SymbolStart DEF RefuseSymbol
    <3>2. Refuse(Start + 1)
      BY <1>5, <2>1 DEF RefuseSymbol
    <3> QED BY <1>3, <3>1, <3>2, RefusePlaces
  <2>2. CASE Spelled(Start) # {}
    <3>1. EndOf(Start) \in 0 .. Length
      BY <1>1, <1>3, <2>2, SymbolEnd
    <3>2. Refuse(EndOf(Start))
      BY <1>5, <2>2 DEF RefuseSymbol
    <3> QED BY <1>3, <3>1, <3>2, RefusePlaces
  <2> QED BY <2>1, <2>2
<1>6. CASE TakeWord \/ RefuseWord \/ StartLoop
  <2>0. StartsWord
    BY <1>6 DEF TakeWord, RefuseWord, StartLoop
  <2>1. Start \in 0 .. Length - 1
    BY <1>1, <1>3, <2>0 DEF StartsWord
  <2>2. StringEnd(Start) \in (IF IsQuoted(Start) THEN Start + 1 ELSE Start) .. Length
    BY <1>1, <2>1, StringEndType
  <2>3. CASE TakeWord
    <3>1. (IF IsQuoted(Start) THEN StringEnd(Start) + 1 ELSE StringEnd(Start)) \in 0 .. Length
      BY <1>1, <2>1, <2>2, <2>3 DEF TakeWord, IsWord
    <3>2. "word" \in TokenKinds
      BY DEF TokenKinds
    <3> QED BY <1>3, <2>3, <3>1, <3>2, TakePlaces DEF TakeWord
  <2>4. CASE RefuseWord
    <3>1. WordError(Start) \in 0 .. Length
      BY <1>1, <2>1, <2>2 DEF WordError
    <3> QED BY <1>3, <2>4, <3>1, RefusePlaces DEF RefuseWord
  <2>5. CASE StartLoop
    <3>1. Length' = Length
      BY <2>5 DEF StartLoop, Length
    <3> QED BY <1>3, <2>5, <3>1 DEF StartLoop, PlacesOK
  <2> QED BY <1>6, <2>3, <2>4, <2>5
<1>7. CASE EndTokenize
  <2>1. Length' = Length
    BY <1>7 DEF EndTokenize, Length
  <2> QED BY <1>3, <1>7, <2>1 DEF EndTokenize, PlacesOK
<1> QED BY <1>4, <1>5, <1>6, <1>7 DEF Tokenize

------------------------------------------------------------------------------
(* Words.  What the loop of try_parse_string knows at each character.      *)

\* escaped_quote, up to the end of the line.
IsEscaping(f, p) ==
  f = [r \in p .. Length |-> r > p + 1 /\ Char(r - 1) = Backslash /\ ~f[r - 1]]

LEMMA EscapingExists ==
  ASSUME NEW p \in Nat, Length \in Nat, p <= Length
  PROVE  \E f : IsEscaping(f, p)
<1>1. PICK m \in Nat : m = Length - p
  <2>1. PICK n \in Nat : n = Length
    OBVIOUS
  <2>2. n - p \in Nat
    BY <2>1
  <2> QED BY <2>1, <2>2
<1>2. PICK T : T = [k \in 0 .. m |-> BOOLEAN]
  OBVIOUS
<1>3. PICK g : g = [k \in 1 .. m |-> [v \in BOOLEAN |-> k > 1 /\ Char(p + k - 1) = Backslash /\ ~v]]
  OBVIOUS
<1>4. ASSUME NEW k \in 1 .. m, NEW v \in BOOLEAN
      PROVE  g[k][v] = (k > 1 /\ Char(p + k - 1) = Backslash /\ ~v) /\ g[k][v] \in BOOLEAN
  BY <1>3
<1>5. Maps(g, T, m)
  <2>1. \A k \in 1 .. m : T[k - 1] = BOOLEAN /\ T[k] = BOOLEAN
    BY <1>2
  <2> QED BY <1>4, <2>1 DEF Maps
<1>6. T \in [0 .. m -> SUBSET BOOLEAN] /\ FALSE \in T[0]
  BY <1>2
<1>7. PICK f \in [0 .. m -> BOOLEAN] : Iterates(f, g, FALSE, T, m)
  BY <1>5, <1>6, IterationExists
<1>8. f[0] = FALSE /\ \A k \in 1 .. m : f[k] = (k > 1 /\ Char(p + k - 1) = Backslash /\ ~f[k - 1])
  <2>1. ASSUME NEW k \in 1 .. m PROVE f[k - 1] \in BOOLEAN /\ f[k] = g[k][f[k - 1]]
    <3>1. k - 1 \in 0 .. m
      OBVIOUS
    <3> QED BY <1>7, <3>1 DEF Iterates
  <2> QED BY <1>4, <1>7, <2>1 DEF Iterates
<1>9. PICK e : e = [r \in p .. Length |-> f[r - p]]
  OBVIOUS
<1>10. ASSUME NEW r \in p .. Length
       PROVE  e[r] = (r > p + 1 /\ Char(r - 1) = Backslash /\ ~e[r - 1])
  <2>1. CASE r = p
    <3>1. e[r] = f[0]
      BY <1>9, <2>1
    <3> QED BY <1>8, <2>1, <3>1
  <2>2. CASE r # p
    <3>1. PICK k : k = r - p
      OBVIOUS
    <3>2. k \in 1 .. m /\ p + k = r /\ r - 1 \in p .. Length /\ r - 1 - p = k - 1 /\ p + k - 1 = r - 1
          /\ (k > 1 <=> r > p + 1)
      BY <1>1, <2>2, <3>1
    <3>3. e[r] = f[k] /\ e[r - 1] = f[k - 1]
      BY <1>9, <3>1, <3>2
    <3>4. f[k] = (k > 1 /\ Char(r - 1) = Backslash /\ ~f[k - 1])
      BY <1>8, <3>2
    <3> QED BY <3>2, <3>3, <3>4
  <2> QED BY <2>1, <2>2
<1>11. IsEscaping(e, p)
  <2>1. e = [r \in p .. Length |-> r > p + 1 /\ Char(r - 1) = Backslash /\ ~e[r - 1]]
    BY <1>9, <1>10
  <2> QED BY <2>1 DEF IsEscaping
<1> QED BY <1>11

\* A character is escaped by the "\" before it, unless that one is escaped.
LEMMA EscapedIs ==
  ASSUME NEW p \in Nat, Length \in Nat, NEW q \in p .. Length
  PROVE  Escaped(p, q) <=> IsQuoted(p) /\ q > p + 1 /\ Char(q - 1) = Backslash /\ ~Escaped(p, q - 1)
<1>1. p <= Length
  OBVIOUS
<1>2. PICK f : f = CHOOSE g : IsEscaping(g, p)
  OBVIOUS
<1>3. IsEscaping(f, p)
  BY <1>1, <1>2, EscapingExists
<1>4. f[q] = (q > p + 1 /\ Char(q - 1) = Backslash /\ ~f[q - 1])
  BY <1>3 DEF IsEscaping
<1>5. f = CHOOSE g : g = [r \in p .. Length |-> r > p + 1 /\ Char(r - 1) = Backslash /\ ~g[r - 1]]
  BY <1>2 DEF IsEscaping
<1>6. \A r : Escaped(p, r) <=> IsQuoted(p) /\ f[r]
  BY <1>5 DEF Escaped
<1> QED BY <1>4, <1>6

\* The buffer of try_parse_string, from the first character to the last.
First(p) == IF IsQuoted(p) THEN p + 1 ELSE p

IsBuffer(b, p) ==
  b = [q \in First(p) .. StringEnd(p) |->
        IF q = First(p) THEN <<>>
        ELSE IF IsPushed(p, q - 1) THEN Append(b[q - 1], Char(q - 1)) ELSE b[q - 1]]

\* Characters of the line.
LEMMA CharType ==
  ASSUME PlacesOK, NEW q \in 0 .. Length - 1
  PROVE  Char(q) = source[q + 1] /\ Char(q) \in ToSet(source)
<1>1. Length \in Nat /\ source \in Seq(ToSet(source)) /\ Length = Len(source)
  BY LengthType DEF PlacesOK, Length
<1>2. q < Length /\ q + 1 \in 1 .. Len(source)
  BY <1>1
<1>3. Char(q) = source[q + 1]
  BY <1>2 DEF Char
<1> QED BY <1>1, <1>2, <1>3

LEMMA BufferExists ==
  ASSUME PlacesOK, NEW p \in 0 .. Length - 1
  PROVE  \E b : IsBuffer(b, p) /\ \A q \in First(p) .. StringEnd(p) : b[q] \in Seq(ToSet(source))
<1>1. Length \in Nat
  BY LengthType
<1>2. PICK e : e = StringEnd(p)
  OBVIOUS
<1>3. PICK first : first = First(p)
  OBVIOUS
<1>4. first \in Nat /\ e \in first .. Length
  BY <1>1, <1>2, <1>3, StringEndType DEF First
<1>5. PICK m \in Nat : m = e - first
  <2>1. e - first \in Nat
    BY <1>1, <1>4
  <2> QED BY <2>1
<1>6. PICK S : S = Seq(ToSet(source))
  OBVIOUS
<1>7. PICK T : T = [k \in 0 .. m |-> S]
  OBVIOUS
<1>8. PICK g : g = [k \in 1 .. m |-> [v \in S |->
                 IF IsPushed(p, first + k - 1) THEN Append(v, Char(first + k - 1)) ELSE v]]
  OBVIOUS
<1>9. ASSUME NEW k \in 1 .. m, NEW v \in S
      PROVE  /\ g[k][v] = IF IsPushed(p, first + k - 1) THEN Append(v, Char(first + k - 1)) ELSE v
             /\ g[k][v] \in S
  <2>1. PICK q : q = first + k - 1
    OBVIOUS
  <2>2. q \in 0 .. Length - 1
    BY <1>1, <1>4, <1>5, <2>1
  <2>3. Char(q) \in ToSet(source)
    BY <2>2, CharType
  <2>4. Append(v, Char(q)) \in S
    BY <1>6, <2>3
  <2>5. g[k][v] = IF IsPushed(p, q) THEN Append(v, Char(q)) ELSE v
    BY <1>8, <2>1
  <2> QED BY <2>1, <2>4, <2>5
<1>10. Maps(g, T, m)
  <2>1. \A k \in 1 .. m : T[k - 1] = S /\ T[k] = S
    BY <1>7
  <2> QED BY <1>9, <2>1 DEF Maps
<1>11. T \in [0 .. m -> SUBSET S] /\ <<>> \in T[0]
  BY <1>6, <1>7, EmptySeq
<1>12. PICK f \in [0 .. m -> S] : Iterates(f, g, <<>>, T, m)
  BY <1>10, <1>11, IterationExists
<1>13. f[0] = <<>> /\ \A k \in 1 .. m :
         f[k] = IF IsPushed(p, first + k - 1) THEN Append(f[k - 1], Char(first + k - 1)) ELSE f[k - 1]
  <2>1. ASSUME NEW k \in 1 .. m PROVE f[k - 1] \in S /\ f[k] = g[k][f[k - 1]]
    <3>1. k - 1 \in 0 .. m
      OBVIOUS
    <3> QED BY <1>12, <3>1 DEF Iterates
  <2> QED BY <1>9, <1>12, <2>1 DEF Iterates
<1>14. PICK b : b = [q \in first .. e |-> f[q - first]]
  OBVIOUS
<1>15. ASSUME NEW q \in first .. e
       PROVE  /\ b[q] \in S
              /\ b[q] = IF q = first THEN <<>>
                        ELSE IF IsPushed(p, q - 1) THEN Append(b[q - 1], Char(q - 1)) ELSE b[q - 1]
  <2>0. q - first \in 0 .. m
    BY <1>1, <1>4, <1>5
  <2>1. b[q] \in S
    BY <1>14, <2>0
  <2>2. CASE q = first
    <3>1. b[q] = f[0]
      BY <1>4, <1>14, <2>2
    <3> QED BY <1>13, <2>1, <2>2, <3>1
  <2>3. CASE q # first
    <3>1. PICK k : k = q - first
      OBVIOUS
    <3>2. k \in 1 .. m /\ q - 1 \in first .. e /\ q - 1 - first = k - 1 /\ first + k - 1 = q - 1
      BY <1>1, <1>4, <1>5, <2>3, <3>1
    <3>3. b[q] = f[k] /\ b[q - 1] = f[k - 1]
      BY <1>14, <3>1, <3>2
    <3>4. f[k] = IF IsPushed(p, q - 1) THEN Append(f[k - 1], Char(q - 1)) ELSE f[k - 1]
      BY <1>13, <3>2
    <3> QED BY <2>1, <2>3, <3>3, <3>4
  <2> QED BY <2>2, <2>3
<1>16. b = [q \in first .. e |->
             IF q = first THEN <<>>
             ELSE IF IsPushed(p, q - 1) THEN Append(b[q - 1], Char(q - 1)) ELSE b[q - 1]]
  BY <1>14, <1>15
<1>17. IsBuffer(b, p)
  BY <1>2, <1>3, <1>16 DEF IsBuffer
<1>18. \A q \in First(p) .. StringEnd(p) : b[q] \in Seq(ToSet(source))
  BY <1>2, <1>3, <1>6, <1>15
<1> QED BY <1>17, <1>18

\* What the loop does to the buffer, character by character.
Buffers(b, p) ==
  /\ \A q \in First(p) .. StringEnd(p) : b[q] \in Seq(ToSet(source))
  /\ b[First(p)] = <<>>
  /\ \A q \in First(p) .. StringEnd(p) - 1 :
       b[q + 1] = IF IsPushed(p, q) THEN Append(b[q], Char(q)) ELSE b[q]

LEMMA WordTextIs ==
  ASSUME PlacesOK, NEW p \in 0 .. Length - 1
  PROVE  \E b : Buffers(b, p) /\ WordText(p) = b[StringEnd(p)]
<1>1. PICK e, first : e = StringEnd(p) /\ first = First(p)
  OBVIOUS
<1>2. first \in Nat /\ e \in Nat /\ first <= e
  <2>1. Length \in Nat
    BY LengthType
  <2> QED BY <1>1, <2>1, StringEndType DEF First
<1>3. PICK c : IsBuffer(c, p) /\ \A q \in first .. e : c[q] \in Seq(ToSet(source))
  BY <1>1, BufferExists
<1>4. PICK b : b = CHOOSE a : IsBuffer(a, p)
  OBVIOUS
<1>5. IsBuffer(b, p)
  BY <1>3, <1>4
<1>6. b = [q \in first .. e |->
            IF q = first THEN <<>>
            ELSE IF IsPushed(p, q - 1) THEN Append(b[q - 1], Char(q - 1)) ELSE b[q - 1]]
  BY <1>1, <1>5 DEF IsBuffer
<1>7. c = [q \in first .. e |->
            IF q = first THEN <<>>
            ELSE IF IsPushed(p, q - 1) THEN Append(c[q - 1], Char(q - 1)) ELSE c[q - 1]]
  BY <1>1, <1>3 DEF IsBuffer
<1>8. ASSUME NEW q \in first .. e - 1
      PROVE  /\ b[q + 1] = IF IsPushed(p, q) THEN Append(b[q], Char(q)) ELSE b[q]
             /\ c[q + 1] = IF IsPushed(p, q) THEN Append(c[q], Char(q)) ELSE c[q]
  <2>1. PICK r : r = q + 1
    OBVIOUS
  <2>2. r \in first .. e /\ r # first /\ r - 1 = q
    BY <1>2, <2>1
  <2> QED BY <1>6, <1>7, <2>1, <2>2
<1>9. first \in first .. e /\ b[first] = <<>> /\ c[first] = <<>>
  BY <1>2, <1>6, <1>7
<1>10. \A q \in first .. e : b[q] = c[q]
  <2> DEFINE P == {k \in 0 .. e - first : b[first + k] = c[first + k]}
  <2>1. 0 \in P
    BY <1>2, <1>9
  <2>2. ASSUME NEW k \in 1 .. e - first, k - 1 \in P PROVE k \in P
    <3>1. PICK q : q = first + (k - 1)
      OBVIOUS
    <3>2. q \in first .. e - 1 /\ q + 1 = first + k /\ b[q] = c[q]
      BY <1>2, <2>2, <3>1
    <3>3. b[first + k] = c[first + k]
      BY <1>8, <3>2
    <3> QED BY <1>2, <3>3
  <2>3. \A k \in 0 .. e - first : k \in P
    <3> HIDE DEF P
    <3>1. e - first \in Int
      BY <1>2
    <3> QED BY <2>1, <2>2, <3>1, StepByStep
  <2>4. ASSUME NEW q \in first .. e PROVE b[q] = c[q]
    <3>1. q - first \in 0 .. e - first /\ first + (q - first) = q
      BY <1>2
    <3> QED BY <2>3, <3>1
  <2> QED BY <2>4
<1>11. Buffers(b, p)
  BY <1>1, <1>3, <1>8, <1>9, <1>10 DEF Buffers
<1>12. WordText(p) = b[e]
  <2>1. b = CHOOSE a : a = [q \in First(p) .. StringEnd(p) |->
              IF q = First(p) THEN <<>>
              ELSE IF IsPushed(p, q - 1) THEN Append(a[q - 1], Char(q - 1)) ELSE a[q - 1]]
    BY <1>4 DEF IsBuffer
  <2> QED BY <1>1, <2>1 DEF WordText, First
<1> QED BY <1>1, <1>11, <1>12

\* The text of a word is made of characters of the line.
LEMMA WordTextType ==
  ASSUME PlacesOK, NEW p \in 0 .. Length - 1
  PROVE  WordText(p) \in Seq(ToSet(source))
<1>1. PICK b : Buffers(b, p) /\ WordText(p) = b[StringEnd(p)]
  BY WordTextIs
<1>2. StringEnd(p) \in First(p) .. StringEnd(p)
  BY LengthType, StringEndType DEF First
<1> QED BY <1>1, <1>2 DEF Buffers

\* What a step takes from the line, one token or none.
Taken(token) == tokens' = Append(tokens, token) /\ UNCHANGED source

LEMMA TakenTexts ==
  ASSUME PlacesOK, TextsOK, NEW token, Taken(token), token.text \in Seq(ToSet(source))
  PROVE  TextsOK'
<1>1. PICK S : S = ToSet(tokens) /\ tokens \in Seq(S)
  BY DEF PlacesOK
<1>2. tokens' = Append(tokens, token) /\ tokens \in Seq(S \cup {token})
  BY <1>1, SeqMonotonic DEF Taken
<1>3. /\ DOMAIN tokens' = 1 .. Len(tokens) + 1 /\ Len(tokens) \in Nat /\ DOMAIN tokens = 1 .. Len(tokens)
      /\ \A k \in 1 .. Len(tokens) : tokens'[k] = tokens[k]
      /\ tokens'[Len(tokens) + 1] = token
  BY <1>2, AppendProperties
<1>4. ASSUME NEW k \in DOMAIN tokens' PROVE tokens'[k].text \in Seq(ToSet(source))
  <2>1. CASE k = Len(tokens) + 1
    BY <1>3, <2>1
  <2>2. CASE k # Len(tokens) + 1
    <3>1. k \in DOMAIN tokens
      BY <1>3, <2>2
    <3> QED BY <1>3, <3>1 DEF TextsOK
  <2> QED BY <2>1, <2>2
<1> QED BY <1>4 DEF TextsOK, Taken

LEMMA TokenizeTexts ==
  ASSUME PlacesOK, TextsOK, Tokenize
  PROVE  TextsOK'
<1>1. CASE TakeSymbol
  <2>1. PICK t : t = NewToken(SymbolAt(Start), <<>>, Start)
    OBVIOUS
  <2>2. Taken(t)
    BY <1>1, <2>1 DEF TakeSymbol, Take, Taken
  <2>3. t.text \in Seq(ToSet(source))
    BY <2>1, EmptySeq DEF NewToken
  <2> QED BY <2>2, <2>3, TakenTexts
<1>2. CASE TakeWord
  <2>1. PICK t : t = NewToken("word", WordText(Start), Start)
    OBVIOUS
  <2>2. Taken(t)
    BY <1>2, <2>1 DEF TakeWord, Take, Taken
  <2>3. Start \in 0 .. Length - 1
    <3>1. index \in 0 .. Length /\ Length \in Nat
      BY LengthType DEF PlacesOK
    <3>2. Start \in 0 .. Length
      BY <3>1, SkipType DEF Start
    <3> QED BY <1>2, <3>1, <3>2 DEF TakeWord, StartsWord
  <2>4. WordText(Start) \in Seq(ToSet(source))
    BY <2>3, WordTextType
  <2>5. t.text \in Seq(ToSet(source))
    BY <2>1, <2>4 DEF NewToken
  <2> QED BY <2>2, <2>5, TakenTexts
<1>3. CASE RefuseSymbol \/ RefuseWord \/ StartLoop \/ EndTokenize
  <2>1. UNCHANGED <<source, tokens>>
    BY <1>3 DEF RefuseSymbol, RefuseWord, StartLoop, EndTokenize, Refuse
  <2> QED BY <2>1 DEF TextsOK
<1> QED BY <1>1, <1>2, <1>3 DEF Tokenize

------------------------------------------------------------------------------
(* Tokens and what stands in the line. *)

\* The characters of the line from a on, before b.
Cut(a, b) == SubSeq(source, a + 1, b)

\* A line has no NUL in it.
LineOK == PlacesOK /\ Nul \notin ToSet(source)

LEMMA CutEmpty ==
  ASSUME LineOK, NEW a \in Nat
  PROVE  Cut(a, a) = <<>>
<1>1. PICK b : b = a + 1
  OBVIOUS
<1>2. b \in Int /\ a \in Int /\ a < b
  BY <1>1
<1>3. SubSeq(source, b, a) = <<>>
  BY <1>2, SubSeqEmpty
<1> QED BY <1>1, <1>3 DEF Cut

LEMMA CutType ==
  ASSUME LineOK, NEW a \in 0 .. Length, NEW b \in a .. Length
  PROVE  /\ Cut(a, b) \in Seq(ToSet(source)) /\ Len(Cut(a, b)) = b - a
         /\ \A i \in 1 .. b - a : Cut(a, b)[i] = Char(a + i - 1)
<1>1. Length \in Nat /\ source \in Seq(ToSet(source)) /\ Length = Len(source)
  BY LengthType DEF LineOK, PlacesOK, Length
<1>2. PICK m : m = a + 1
  OBVIOUS
<1>3. m \in Int /\ b \in Int /\ \A i \in m .. b : source[i] \in ToSet(source)
  <2>1. \A i \in m .. b : i \in 1 .. Len(source)
    BY <1>1, <1>2
  <2> QED BY <1>1, <1>2, <2>1, ElementOfSeq
<1>4. /\ SubSeq(source, m, b) \in Seq(ToSet(source))
      /\ Len(SubSeq(source, m, b)) = IF m <= b THEN b - m + 1 ELSE 0
      /\ \A i \in 1 .. b - m + 1 : SubSeq(source, m, b)[i] = source[m + i - 1]
  BY <1>3, SubSeqProperties
<1>5. (IF m <= b THEN b - m + 1 ELSE 0) = b - a /\ b - m + 1 = b - a
  BY <1>1, <1>2
<1>6. Cut(a, b) = SubSeq(source, m, b)
  BY <1>2 DEF Cut
<1>7. ASSUME NEW i \in 1 .. b - a PROVE source[m + i - 1] = Char(a + i - 1)
  <2>1. PICK q : q = a + i - 1
    OBVIOUS
  <2>2. q \in 0 .. Length - 1 /\ q + 1 = m + i - 1
    BY <1>1, <1>2, <2>1
  <2>3. Char(q) = source[q + 1]
    BY <2>2, CharType DEF LineOK
  <2> QED BY <2>1, <2>2, <2>3
<1> QED BY <1>4, <1>5, <1>6, <1>7

LEMMA CutGrows ==
  ASSUME LineOK, NEW a \in 0 .. Length, NEW b \in a .. Length - 1
  PROVE  Cut(a, b + 1) = Append(Cut(a, b), Char(b))
<1>1. Length \in Nat /\ source \in Seq(ToSet(source)) /\ Length = Len(source)
  BY LengthType DEF LineOK, PlacesOK, Length
<1>2. PICK m, n : m = a + 1 /\ n = b + 1
  OBVIOUS
<1>3. m \in 1 .. Len(source) /\ n \in m .. Len(source) /\ n - 1 = b /\ b \in 0 .. Length - 1
  BY <1>1, <1>2
<1>4. SubSeq(source, m, n) = SubSeq(source, m, n - 1) \o <<source[n]>>
  BY <1>1, <1>3, SubSeqRecursiveSecond
<1>5. source[n] = Char(b) /\ Char(b) \in ToSet(source)
  BY <1>2, <1>3, CharType DEF LineOK
<1>6. Cut(a, b) \in Seq(ToSet(source))
  BY <1>1, <1>2, <1>3, CutType
<1>7. Append(Cut(a, b), Char(b)) = Cut(a, b) \o <<Char(b)>>
  BY <1>5, <1>6, AppendIsConcat
<1> QED BY <1>2, <1>3, <1>4, <1>5, <1>7 DEF Cut

\* Only at the end there is a NUL, and it is no blank.
LEMMA NulAtEnd ==
  ASSUME LineOK, NEW q \in 0 .. Length
  PROVE  /\ Char(q) = Nul => q = Length
         /\ Char(q) \in Whitespace => q < Length /\ source[q + 1] \in Whitespace
<1>1. Length \in Nat
  BY LengthType DEF LineOK
<1>2. Nul \notin Whitespace
  BY TokenizerAssumption
<1>3. CASE q < Length
  <2>1. q \in 0 .. Length - 1
    BY <1>1, <1>3
  <2>2. Char(q) = source[q + 1] /\ Char(q) \in ToSet(source)
    BY <2>1, CharType DEF LineOK
  <2> QED BY <1>3, <2>2 DEF LineOK
<1>4. CASE q = Length
  <2>1. Char(q) = Nul
    BY <1>1, <1>4 DEF Char
  <2> QED BY <1>2, <1>4, <2>1
<1> QED BY <1>1, <1>3, <1>4

\* A text as it is written between quotes.
Escaping(c, quote) == IF c \in {Backslash, quote} THEN <<Backslash, c>> ELSE <<c>>
Escapings(text, quote) == FlattenSeq([k \in DOMAIN text |-> Escaping(text[k], quote)])

LEMMA QuotedIs ==
  ASSUME NEW text, NEW quote
  PROVE  Quoted(text, quote) = <<quote>> \o Escapings(text, quote) \o <<quote>>
BY DEF Quoted, Escapings, Escaping

\* A character more.
LEMMA EscapingsGrow ==
  ASSUME NEW S, NEW text \in Seq(S), NEW c \in S, NEW quote
  PROVE  /\ Escapings(Append(text, c), quote) = Escapings(text, quote) \o Escaping(c, quote)
         /\ Escapings(text, quote) \in Seq(S \cup {Backslash})
<1>1. PICK C : C = S \cup {Backslash}
  OBVIOUS
<1>2. ASSUME NEW d \in S PROVE Escaping(d, quote) \in Seq(C)
  <2>1. d \in C /\ Backslash \in C
    BY <1>1
  <2>2. <<Backslash, d>> \in Seq(C) /\ <<d>> \in Seq(C)
    BY <2>1
  <2> QED BY <2>2 DEF Escaping
<1>3. PICK s, t, x : /\ s = [k \in DOMAIN text |-> Escaping(text[k], quote)]
                     /\ t = [k \in DOMAIN Append(text, c) |-> Escaping(Append(text, c)[k], quote)]
                     /\ x = Escaping(c, quote)
  OBVIOUS
<1>4. PICK n \in Nat : n = Len(text) /\ DOMAIN text = 1 .. n /\ \A k \in 1 .. n : text[k] \in S
  BY ElementOfSeq
<1>5. s \in Seq(Seq(C)) /\ Len(s) = n /\ x \in Seq(C)
  BY <1>2, <1>3, <1>4
<1>6. /\ DOMAIN Append(text, c) = 1 .. n + 1 /\ Append(text, c)[n + 1] = c
      /\ \A k \in 1 .. n : Append(text, c)[k] = text[k]
  BY <1>4, AppendProperties
<1>7. t = Append(s, x)
  <2>1. t = [k \in 1 .. n + 1 |-> Escaping(Append(text, c)[k], quote)]
    BY <1>3, <1>6
  <2>2. t \in Seq(Seq(C)) /\ Len(t) = n + 1
    <3>1. \A k \in 1 .. n + 1 : Append(text, c)[k] \in S
      BY <1>4, <1>6
    <3> QED BY <1>2, <1>4, <2>1, <3>1
  <2>3. /\ Append(s, x) \in Seq(Seq(C)) /\ Len(Append(s, x)) = n + 1
        /\ Append(s, x)[n + 1] = x /\ \A k \in 1 .. n : Append(s, x)[k] = s[k]
    BY <1>5, AppendProperties
  <2>4. ASSUME NEW k \in 1 .. n + 1 PROVE t[k] = Append(s, x)[k]
    BY <1>3, <1>4, <1>6, <2>1, <2>3
  <2> QED BY <2>2, <2>3, <2>4, SeqEqual
<1>8. FlattenSeq(Append(s, x)) = FlattenSeq(s) \o x /\ FlattenSeq(s) \in Seq(C)
  BY <1>5, FlattenGrows
<1> QED BY <1>1, <1>3, <1>7, <1>8 DEF Escapings

LEMMA EscapingsEmpty ==
  ASSUME NEW quote
  PROVE  Escapings(<<>>, quote) = <<>>
<1>1. DOMAIN <<>> = {} /\ \A f : [k \in {} |-> f[k]] = <<>>
  OBVIOUS
<1>2. [k \in DOMAIN <<>> |-> Escaping(<<>>[k], quote)] = <<>>
  BY <1>1
<1> QED BY <1>2 DEF Escapings, FlattenSeq

\* Where the loop of try_parse_string stops.
Stops(p, q) ==
  IF IsQuoted(p) THEN BadEscape(p, q) \/ Closes(p, q) \/ Char(q) \in Unprintable
  ELSE Char(q) \in Whitespace \cup {Backslash} \cup Unprintable

StopsFirst(p, e) ==
  /\ e \in First(p) .. Length /\ (e = Length \/ Stops(p, e))
  /\ \A r \in First(p) .. e - 1 : ~Stops(p, r)

LEMMA StringEndIs ==
  ASSUME NEW p \in 0 .. Length - 1, Length \in Nat
  PROVE  StopsFirst(p, StringEnd(p)) /\ \A e : StopsFirst(p, e) => e = StringEnd(p)
<1>1. PICK first \in Nat : first = First(p) /\ first <= Length
  BY DEF First
<1>2. PICK S : S = {q \in first .. Length : Stops(p, q)}
  OBVIOUS
<1>3. PICK e \in first .. Length : (e = Length \/ e \in S) /\ \A r \in first .. e - 1 : r \notin S
  BY <1>1, FirstPlace
<1>4. (e = Length \/ Stops(p, e)) /\ \A r \in first .. e - 1 : ~Stops(p, r)
  BY <1>1, <1>2, <1>3
<1>5. StringEnd(p) = CHOOSE q \in first .. Length :
                       (q = Length \/ Stops(p, q)) /\ \A r \in first .. q - 1 : ~Stops(p, r)
  <2>1. CASE IsQuoted(p)
    BY <1>1, <2>1 DEF StringEnd, FirstFrom, Stops, First
  <2>2. CASE ~IsQuoted(p)
    BY <1>1, <2>2 DEF StringEnd, FirstFrom, Stops, First
  <2> QED BY <2>1, <2>2
<1>6. PICK d : d = StringEnd(p)
  OBVIOUS
<1>7. /\ d \in first .. Length /\ (d = Length \/ Stops(p, d))
      /\ \A r \in first .. d - 1 : ~Stops(p, r)
  BY <1>3, <1>4, <1>5, <1>6
<1>8. StopsFirst(p, d)
  BY <1>1, <1>7 DEF StopsFirst
<1>9. ASSUME NEW c, StopsFirst(p, c) PROVE c = d
  <2>1. /\ c \in first .. Length /\ (c = Length \/ Stops(p, c))
        /\ \A r \in first .. c - 1 : ~Stops(p, r)
    BY <1>1, <1>9 DEF StopsFirst
  <2>2. ~(c < d) /\ ~(d < c)
    BY <1>1, <1>7, <2>1
  <2> QED BY <1>1, <1>7, <2>1, <2>2
<1> QED BY <1>6, <1>8, <1>9

\* The blanks that are skipped, and what follows them.
SkipsTo(p, q) ==
  /\ q \in p .. Length /\ (q = Length \/ Char(q) \notin Whitespace)
  /\ \A r \in p .. q - 1 : Char(r) \in Whitespace

LEMMA SkipIs ==
  ASSUME NEW p \in 0 .. Length, Length \in Nat
  PROVE  SkipsTo(p, skip_whitespace(p)) /\ \A q : SkipsTo(p, q) => q = skip_whitespace(p)
<1>1. PICK S : S = {q \in p .. Length : Char(q) \notin Whitespace}
  OBVIOUS
<1>2. p \in Nat /\ p <= Length
  OBVIOUS
<1>3. PICK e \in p .. Length : (e = Length \/ e \in S) /\ \A r \in p .. e - 1 : r \notin S
  BY <1>2, FirstPlace
<1>4. (e = Length \/ Char(e) \notin Whitespace) /\ \A r \in p .. e - 1 : ~(Char(r) \notin Whitespace)
  BY <1>1, <1>2, <1>3
<1>5. PICK d : d = skip_whitespace(p)
  OBVIOUS
<1>6. /\ d \in p .. Length /\ (d = Length \/ Char(d) \notin Whitespace)
      /\ \A r \in p .. d - 1 : ~(Char(r) \notin Whitespace)
  BY <1>4, <1>5 DEF skip_whitespace, FirstFrom
<1>7. SkipsTo(p, d)
  BY <1>6 DEF SkipsTo
<1>8. ASSUME NEW c, SkipsTo(p, c) PROVE c = d
  <2>1. /\ c \in p .. Length /\ (c = Length \/ Char(c) \notin Whitespace)
        /\ \A r \in p .. c - 1 : Char(r) \in Whitespace
    BY <1>8 DEF SkipsTo
  <2>2. ~(c < d) /\ ~(d < c)
    BY <1>2, <1>6, <2>1
  <2> QED BY <1>2, <1>6, <2>1, <2>2
<1> QED BY <1>5, <1>7, <1>8

\* What is read as a token of this kind and text stands from p to stop.
Stands(kind, text, p, stop) ==
  \E written \in Writings(kind, text) :
    stop = p + Len(written) /\ written = Cut(p, stop) /\ Ended(source, kind, written, stop)

\* A word without quotes is all that stands up to its end.
LEMMA BareText ==
  ASSUME LineOK, NEW p \in 0 .. Length - 1, ~IsQuoted(p), IsWord(p)
  PROVE  WordText(p) = Cut(p, StringEnd(p))
<1>1. Length \in Nat
  BY LengthType DEF LineOK
<1>2. PICK e : e = StringEnd(p)
  OBVIOUS
<1>3. e \in p .. Length /\ \A r \in p .. e - 1 : Char(r) \notin Whitespace \cup {Backslash} \cup Unprintable
  BY <1>1, <1>2, StringEndIs DEF StopsFirst, Stops, First
<1>4. PICK b : Buffers(b, p) /\ WordText(p) = b[e]
  BY <1>2, WordTextIs DEF LineOK
<1>5. b[p] = <<>> /\ \A q \in p .. e - 1 : b[q + 1] = Append(b[q], Char(q))
  <2>1. b[p] = <<>> /\ \A q \in p .. e - 1 :
          b[q + 1] = IF IsPushed(p, q) THEN Append(b[q], Char(q)) ELSE b[q]
    BY <1>2, <1>4 DEF Buffers, First
  <2>2. \A q \in p .. e - 1 : IsPushed(p, q)
    BY <1>3 DEF IsPushed
  <2> QED BY <2>1, <2>2
<1>6. PICK P : P = {k \in 0 .. e - p : b[p + k] = Cut(p, p + k)}
  OBVIOUS
<1>7. 0 \in P
  <2>1. p + 0 = p /\ p \in Nat /\ 0 \in 0 .. e - p
    BY <1>1, <1>3
  <2> QED BY <1>5, <1>6, <2>1, CutEmpty
<1>8. ASSUME NEW k \in 1 .. e - p, k - 1 \in P PROVE k \in P
  <2>1. PICK q : q = p + (k - 1)
    OBVIOUS
  <2>2. q \in p .. e - 1 /\ q \in p .. Length - 1 /\ p \in 0 .. Length /\ q + 1 = p + k
    BY <1>1, <1>3, <2>1
  <2>3. b[q] = Cut(p, q)
    BY <1>6, <1>8, <2>1
  <2>4. b[q + 1] = Cut(p, q + 1)
    BY <1>5, <2>2, <2>3, CutGrows
  <2> QED BY <1>6, <2>2, <2>4
<1>9. e - p \in Int /\ \A k \in 0 .. e - p : k \in P
  <2>1. e - p \in Int
    BY <1>1, <1>3
  <2> QED BY <1>7, <1>8, <2>1, StepByStep
<1>10. e - p \in 0 .. e - p /\ p + (e - p) = e
  BY <1>1, <1>3
<1>11. b[e] = Cut(p, e)
  BY <1>6, <1>9, <1>10
<1> QED BY <1>2, <1>4, <1>11

LEMMA BareStands ==
  ASSUME LineOK, NEW p \in 0 .. Length - 1, ~IsQuoted(p), IsWord(p),
         Char(p) \notin Whitespace, ~StartsSymbol(p)
  PROVE  Stands("word", WordText(p), p, StringEnd(p))
<1>1. Length \in Nat /\ p \in 0 .. Length
  BY LengthType DEF LineOK
<1>2. PICK e, t : e = StringEnd(p) /\ t = WordText(p)
  OBVIOUS
<1>3. e \in p .. Length /\ \A r \in p .. e - 1 : Char(r) \notin Whitespace \cup {Backslash} \cup Unprintable
  BY <1>1, <1>2, StringEndIs DEF StopsFirst, Stops, First
<1>4. Char(e) \in Whitespace \cup {Nul}
  BY <1>2 DEF IsWord
<1>5. e \in 0 .. Length
  BY <1>1, <1>3
<1>6. e # p
  BY <1>1, <1>4, NulAtEnd
<1>7. t = Cut(p, e) /\ Len(t) = e - p /\ (\A i \in 1 .. e - p : t[i] = Char(p + i - 1))
      /\ t \in Seq(ToSet(source))
  <2>1. t = Cut(p, e)
    BY <1>2, BareText
  <2> QED BY <1>1, <1>3, <2>1, CutType
<1>8. DOMAIN t = 1 .. e - p /\ 1 \in 1 .. e - p
  BY <1>1, <1>3, <1>6, <1>7
<1>9. IsBare(t)
  <2>1. t # <<>>
    BY <1>7, <1>8
  <2>2. ASSUME NEW k \in DOMAIN t PROVE t[k] \notin Whitespace \cup {Backslash}
    <3>1. PICK r : r = p + k - 1
      OBVIOUS
    <3>2. k \in 1 .. e - p /\ r \in p .. e - 1
      BY <1>1, <1>3, <1>8, <3>1
    <3> QED BY <1>3, <1>7, <3>1, <3>2
  <2>3. t[1] = Char(p)
    <3>1. p + 1 - 1 = p
      OBVIOUS
    <3> QED BY <1>7, <1>8, <3>1
  <2>4. ASSUME Len(t) > 1 PROVE t[2] = Char(p + 1)
    <3>1. 2 \in 1 .. e - p /\ p + 2 - 1 = p + 1
      BY <1>1, <1>3, <1>7, <2>4
    <3> QED BY <1>7, <3>1
  <2> QED BY <2>1, <2>2, <2>3, <2>4 DEF IsBare, IsQuoted, StartsSymbol
<1>10. Ended(source, "word", t, e)
  <2>1. "word" \notin {"|", "&&"}
    OBVIOUS
  <2> QED BY <1>4, <1>5, <2>1, NulAtEnd DEF Ended, Length
<1>11. t \in Writings("word", t)
  BY <1>9 DEF Writings
<1>12. e = p + Len(t)
  BY <1>1, <1>3, <1>7
<1> QED BY <1>2, <1>7, <1>10, <1>11, <1>12 DEF Stands

\* Between the quotes stands the text with its escapes; while a character is
\* escaped, its "\" is passed and not yet pushed.
Passed(b, p, q) ==
  Escapings(b[q], Char(p)) = IF Escaped(p, q) THEN Cut(p + 1, q - 1) ELSE Cut(p + 1, q)

LEMMA PassOne ==
  ASSUME LineOK, NEW p \in 0 .. Length - 1, IsQuoted(p), NEW q \in p + 1 .. Length - 1,
         ~Stops(p, q), NEW b, b[q] \in Seq(ToSet(source)), Passed(b, p, q),
         b[q + 1] = IF IsPushed(p, q) THEN Append(b[q], Char(q)) ELSE b[q]
  PROVE  Passed(b, p, q + 1)
<1>1. Length \in Nat /\ p \in Nat
  BY LengthType DEF LineOK
<1>2. PICK r, S, t, c, d, a : /\ r = q + 1 /\ S = ToSet(source) /\ t = b[q] /\ c = Char(p) /\ d = Char(q)
                              /\ a = p + 1
  OBVIOUS
<1>3. /\ q \in 0 .. Length - 1 /\ r \in p .. Length /\ q \in p .. Length /\ r > p + 1 /\ r - 1 = q
      /\ a \in 0 .. Length /\ q \in a .. Length - 1 /\ t \in Seq(S)
  BY <1>1, <1>2
<1>4. d \in S
  BY <1>2, <1>3, CharType DEF LineOK
<1>5. Escaped(p, r) <=> d = Backslash /\ ~Escaped(p, q)
  BY <1>1, <1>2, <1>3, EscapedIs
<1>6. c # Backslash
  BY <1>2 DEF IsQuoted, Quotes, Backslash
<1>7. /\ Escapings(Append(t, d), c) = Escapings(t, c) \o Escaping(d, c)
      /\ Cut(a, r) = Append(Cut(a, q), d)
  <2>1. Escapings(Append(t, d), c) = Escapings(t, c) \o Escaping(d, c)
    <3>1. t \in Seq(S)
      BY <1>3
    <3> QED BY <1>4, <3>1, EscapingsGrow
  <2>2. Cut(a, q + 1) = Append(Cut(a, q), Char(q))
    BY <1>3, CutGrows
  <2> QED BY <1>2, <2>1, <2>2
<1>8. ~BadEscape(p, q) /\ ~Closes(p, q)
  BY DEF Stops
<1>9. CASE Escaped(p, q)
  <2>1. q > p + 1 /\ Char(q - 1) = Backslash
    BY <1>1, <1>3, <1>9, EscapedIs
  <2>2. d \in {Backslash, c}
    BY <1>2, <1>8, <1>9 DEF BadEscape
  <2>3. IsPushed(p, q) /\ ~Escaped(p, r)
    BY <1>5, <1>9 DEF IsPushed
  <2>4. PICK o : o = q - 1
    OBVIOUS
  <2>5. o \in a .. Length - 1 /\ o + 1 = q /\ a \in 0 .. Length /\ o \in a .. Length
    BY <1>1, <1>2, <1>3, <2>1, <2>4
  <2>6. Cut(a, q) = Append(Cut(a, o), Backslash) /\ Cut(a, o) \in Seq(S)
    BY <1>2, <2>1, <2>4, <2>5, CutGrows, CutType
  <2>7. Escapings(t, c) = Cut(a, o)
    BY <1>2, <1>9, <2>4 DEF Passed
  <2>8. Append(Append(Cut(a, o), Backslash), d) = Cut(a, o) \o <<Backslash, d>>
    <3>1. PICK s : s = Cut(a, o)
      OBVIOUS
    <3>2. s \in Seq(S \cup {Backslash}) /\ d \in S \cup {Backslash} /\ Backslash \in S \cup {Backslash}
      BY <1>4, <2>6, <3>1
    <3>3. Append(Append(s, Backslash), d) = s \o <<Backslash, d>>
      BY <3>2
    <3> QED BY <3>1, <3>3
  <2>9. Escapings(Append(t, d), c) = Cut(a, r)
    BY <1>7, <2>2, <2>6, <2>7, <2>8 DEF Escaping
  <2>10. b[r] = Append(t, d)
    BY <1>2, <2>3
  <2> QED BY <1>2, <2>3, <2>9, <2>10 DEF Passed
<1>10. CASE ~Escaped(p, q)
  <2>1. Escapings(t, c) = Cut(a, q) /\ d # c
    BY <1>2, <1>8, <1>10 DEF Passed, Closes
  <2>2. CASE d = Backslash
    <3>1. ~IsPushed(p, q) /\ Escaped(p, r)
      BY <1>2, <1>5, <1>10, <2>2 DEF IsPushed
    <3>2. b[r] = t
      BY <1>2, <3>1
    <3> QED BY <1>2, <1>3, <2>1, <3>1, <3>2 DEF Passed
  <2>3. CASE d # Backslash
    <3>1. IsPushed(p, q) /\ ~Escaped(p, r)
      BY <1>2, <1>5, <2>3 DEF IsPushed
    <3>2. b[r] = Append(t, d)
      BY <1>2, <3>1
    <3>3. Escaping(d, c) = <<d>>
      BY <2>1, <2>3 DEF Escaping
    <3>4. Cut(a, q) \in Seq(S)
      BY <1>2, <1>3, CutType
    <3>5. Append(Cut(a, q), d) = Cut(a, q) \o <<d>>
      BY <1>4, <3>4, AppendIsConcat
    <3>6. Escapings(b[r], c) = Cut(a, r)
      BY <1>7, <2>1, <3>2, <3>3, <3>5
    <3> QED BY <1>2, <3>1, <3>6 DEF Passed
  <2> QED BY <2>2, <2>3
<1> QED BY <1>9, <1>10

\* A quoted word stands there with its quotes and its escapes.
LEMMA QuotedText ==
  ASSUME LineOK, NEW p \in 0 .. Length - 1, IsQuoted(p), IsWord(p)
  PROVE  Quoted(WordText(p), Char(p)) = Cut(p, StringEnd(p) + 1)
<1>1. Length \in Nat /\ p \in Nat
  BY LengthType DEF LineOK
<1>2. PICK e, a, c, S : e = StringEnd(p) /\ a = p + 1 /\ c = Char(p) /\ S = ToSet(source)
  OBVIOUS
<1>3. e < Length /\ Char(e) = c /\ ~Escaped(p, e)
  BY <1>2 DEF IsWord, Closes
<1>4. e \in a .. Length /\ \A r \in a .. e - 1 : ~Stops(p, r)
  BY <1>1, <1>2, StringEndIs DEF StopsFirst, First
<1>5. PICK b : Buffers(b, p) /\ WordText(p) = b[e]
  BY <1>2, WordTextIs DEF LineOK
<1>6. /\ \A q \in a .. e : b[q] \in Seq(S)
      /\ b[a] = <<>> /\ \A q \in a .. e - 1 :
           b[q + 1] = IF IsPushed(p, q) THEN Append(b[q], Char(q)) ELSE b[q]
  BY <1>2, <1>5 DEF Buffers, First
<1>7. PICK P : P = {k \in 0 .. e - a : Passed(b, p, a + k)}
  OBVIOUS
<1>8. 0 \in P
  <2>1. a \in p .. Length /\ a + 0 = a /\ ~(a > p + 1) /\ 0 \in 0 .. e - a /\ a \in Nat
    BY <1>1, <1>2, <1>3, <1>4
  <2>2. ~Escaped(p, a)
    BY <1>1, <2>1, EscapedIs
  <2>3. Escapings(b[a], c) = <<>> /\ Cut(a, a) = <<>>
    BY <1>6, <2>1, EscapingsEmpty, CutEmpty
  <2>4. Passed(b, p, a)
    BY <1>2, <2>2, <2>3 DEF Passed
  <2> QED BY <1>7, <2>1, <2>4
<1>9. ASSUME NEW k \in 1 .. e - a, k - 1 \in P PROVE k \in P
  <2>1. PICK q : q = a + (k - 1)
    OBVIOUS
  <2>2. q \in a .. e - 1 /\ q \in p + 1 .. Length - 1 /\ q + 1 = a + k /\ q \in a .. e
    BY <1>1, <1>2, <1>3, <1>4, <2>1
  <2>3. Passed(b, p, q) /\ ~Stops(p, q) /\ b[q] \in Seq(S)
    BY <1>4, <1>6, <1>7, <1>9, <2>1, <2>2
  <2>4. b[q + 1] = IF IsPushed(p, q) THEN Append(b[q], Char(q)) ELSE b[q]
    BY <1>6, <2>2
  <2>5. Passed(b, p, q + 1)
    BY <1>2, <2>2, <2>3, <2>4, PassOne
  <2> QED BY <1>7, <2>2, <2>5
<1>10. e - a \in Int /\ \A k \in 0 .. e - a : k \in P
  <2>1. e - a \in Int
    BY <1>1, <1>2, <1>4
  <2> QED BY <1>8, <1>9, <2>1, StepByStep
<1>11. e - a \in 0 .. e - a /\ a + (e - a) = e
  BY <1>1, <1>2, <1>4
<1>12. Passed(b, p, e)
  BY <1>7, <1>10, <1>11
<1>13. Escapings(WordText(p), c) = Cut(a, e)
  BY <1>2, <1>3, <1>5, <1>12 DEF Passed
<1>14. Quoted(WordText(p), c) = <<c>> \o Cut(a, e) \o <<c>>
  BY <1>13, QuotedIs
<1>15. PICK n : n = e + 1
  OBVIOUS
<1>16. /\ a \in 0 .. Length /\ e \in a .. Length - 1 /\ e \in a .. Length /\ p \in 0 .. Length
       /\ e \in p .. Length - 1 /\ e \in p .. Length
  BY <1>1, <1>2, <1>3, <1>4
<1>17. Cut(a, e) \in Seq(S) /\ c \in S
  BY <1>2, <1>16, CutType, CharType DEF LineOK
<1>18. Cut(p, n) = Append(Cut(p, e), c)
  BY <1>3, <1>15, <1>16, CutGrows
<1>19. Cut(p, e) = <<c>> \o Cut(a, e)
  <2>1. PICK s : s = Cut(a, e)
    OBVIOUS
  <2>2. PICK t : t = <<c>> \o s
    OBVIOUS
  <2>3. /\ s \in Seq(S) /\ Len(s) = e - a /\ \A i \in 1 .. e - a : s[i] = Char(a + i - 1)
    BY <1>2, <1>16, <2>1, CutType
  <2>4. /\ Cut(p, e) \in Seq(S) /\ Len(Cut(p, e)) = e - p /\ \A i \in 1 .. e - p : Cut(p, e)[i] = Char(p + i - 1)
    BY <1>2, <1>16, CutType
  <2>5. <<c>> \in Seq(S) /\ Len(<<c>>) = 1 /\ <<c>>[1] = c
    BY <1>17
  <2>6. /\ t \in Seq(S) /\ Len(t) = 1 + (e - a)
        /\ \A i \in 1 .. 1 + (e - a) : t[i] = IF i <= 1 THEN c ELSE s[i - 1]
    BY <2>2, <2>3, <2>5, ConcatProperties
  <2>7. ASSUME NEW i \in 1 .. e - p PROVE Cut(p, e)[i] = t[i]
    <3>1. CASE i = 1
      <4>1. p + 1 - 1 = p /\ 1 \in 1 .. 1 + (e - a)
        BY <1>1, <1>16
      <4> QED BY <1>2, <2>4, <2>6, <3>1, <4>1
    <3>2. CASE i # 1
      <4>1. i \in 1 .. 1 + (e - a) /\ i - 1 \in 1 .. e - a /\ ~(i <= 1) /\ a + (i - 1) - 1 = p + i - 1
        BY <1>1, <1>2, <1>16, <3>2
      <4> QED BY <2>3, <2>4, <2>6, <4>1
    <3> QED BY <3>1, <3>2
  <2>8. e - p = 1 + (e - a)
    BY <1>1, <1>2, <1>16
  <2> QED BY <2>1, <2>2, <2>4, <2>6, <2>7, <2>8, SeqEqual
<1>20. Append(Cut(p, e), c) = Cut(p, e) \o <<c>>
  <2>1. Cut(p, e) \in Seq(S)
    BY <1>2, <1>16, CutType
  <2> QED BY <1>17, <2>1, AppendIsConcat
<1>21. Quoted(WordText(p), c) = Cut(p, n)
  BY <1>14, <1>18, <1>19, <1>20
<1> QED BY <1>2, <1>15, <1>21

LEMMA QuotedStands ==
  ASSUME LineOK, NEW p \in 0 .. Length - 1, IsQuoted(p), IsWord(p)
  PROVE  Stands("word", WordText(p), p, StringEnd(p) + 1)
<1>1. PICK e, t, w, n : e = StringEnd(p) /\ t = WordText(p) /\ w = Quoted(t, Char(p)) /\ n = e + 1
  OBVIOUS
<1>2. Length \in Nat /\ p \in Nat /\ e \in p + 1 .. Length /\ e < Length
  BY <1>1, LengthType, StringEndIs DEF LineOK, StopsFirst, First, IsWord
<1>3. w = Cut(p, n) /\ p \in 0 .. Length /\ n \in p .. Length
  BY <1>1, <1>2, QuotedText
<1>4. Len(w) = n - p /\ w[1] = Char(p)
  <2>1. Len(Cut(p, n)) = n - p /\ \A i \in 1 .. n - p : Cut(p, n)[i] = Char(p + i - 1)
    BY <1>3, CutType
  <2>2. 1 \in 1 .. n - p /\ p + 1 - 1 = p
    BY <1>1, <1>2
  <2> QED BY <1>3, <2>1, <2>2
<1>5. w \in Writings("word", t) /\ w[1] \in Quotes
  BY <1>1, <1>4 DEF Writings, IsQuoted
<1>6. n = p + Len(w) /\ Ended(source, "word", w, n)
  BY <1>1, <1>2, <1>4, <1>5 DEF Ended
<1> QED BY <1>1, <1>3, <1>5, <1>6 DEF Stands

\* A symbol is its spelling.
LEMMA SymbolStands ==
  ASSUME LineOK, NEW p \in 0 .. Length - 1, IsSymbol(p)
  PROVE  Stands(SymbolAt(p), <<>>, p, EndOf(p))
<1>1. Length \in Nat /\ p \in Nat /\ p \in 0 .. Length
  BY LengthType DEF LineOK
<1>2. PICK e, kind : e = EndOf(p) /\ kind = SymbolAt(p)
  OBVIOUS
<1>3. kind \in Spelled(p) /\ e \in p + 1 .. Length /\ Char(e) \in Follows(kind)
  BY <1>1, <1>2, SymbolAtType, SymbolEnd DEF IsSymbol
<1>4. PICK w : w = Spelling[kind]
  OBVIOUS
<1>5. /\ kind \in DOMAIN Spelling /\ Len(w) \in 1 .. 3 /\ e = p + Len(w) /\ kind # "word"
      /\ \A i \in 1 .. Len(w) : w[i] = Char(p + i - 1)
  <2>1. kind \in DOMAIN Spelling /\ \A i \in 1 .. Len(w) : Char(p + i - 1) = w[i]
    BY <1>3, <1>4 DEF Spelled
  <2>2. Len(w) \in 1 .. 3
    BY <1>4, <2>1, SpellingShape
  <2>3. kind # "word"
    BY <2>1 DEF Spelling
  <2> QED BY <1>2, <1>4, <2>1, <2>2, <2>3 DEF EndOf
<1>6. w = Cut(p, e)
  <2>1. /\ e \in p .. Length /\ e - p = Len(w)
    BY <1>1, <1>3, <1>5
  <2>2. /\ Cut(p, e) \in Seq(ToSet(source)) /\ Len(Cut(p, e)) = e - p
        /\ \A i \in 1 .. e - p : Cut(p, e)[i] = Char(p + i - 1)
    BY <1>1, <2>1, CutType
  <2>3. PICK T : T = SpellingChars
    OBVIOUS
  <2>4. w \in Seq(T)
    BY <1>4, <1>5, <2>3, SpellingType
  <2>5. w \in Seq(T \cup ToSet(source)) /\ Cut(p, e) \in Seq(T \cup ToSet(source))
    BY <2>2, <2>4, SeqMonotonic
  <2> QED BY <1>5, <2>1, <2>2, <2>5, SeqEqual
<1>7. Ended(source, kind, w, e)
  <2>1. e \in 0 .. Length
    BY <1>1, <1>3
  <2>2. CASE Char(e) \in Whitespace
    BY <2>1, <2>2, NulAtEnd DEF Ended, Length
  <2>3. CASE Char(e) \notin Whitespace
    <3>1. Char(e) = Nul /\ kind \notin {"|", "&&"}
      BY <1>3, <2>3 DEF Follows
    <3> QED BY <2>1, <3>1, NulAtEnd DEF Ended, Length
  <2> QED BY <2>2, <2>3
<1>8. w \in Writings(kind, <<>>)
  BY <1>4, <1>5 DEF Writings
<1> QED BY <1>2, <1>5, <1>6, <1>7, <1>8 DEF Stands

\* A writing has a length.
LEMMA WritingLength ==
  ASSUME NEW kind \in TokenKinds, NEW S, NEW text \in Seq(S), NEW written \in Writings(kind, text)
  PROVE  Len(written) \in Nat /\ Len(written) > 0
<1>1. CASE kind # "word"
  <2>1. kind \in DOMAIN Spelling /\ written = Spelling[kind]
    BY <1>1 DEF Writings, Spelling
  <2>2. PICK n \in 1 .. 3 : n = Len(Spelling[kind])
    BY <2>1, SpellingShape
  <2>3. n = Len(written)
    BY <2>1, <2>2
  <2> QED BY <2>2, <2>3
<1>2. CASE kind = "word" /\ written = text /\ IsBare(text)
  BY <1>2 DEF IsBare
<1>3. CASE kind = "word" /\ ~(written = text /\ IsBare(text))
  <2>1. PICK quote \in Quotes : written = Quoted(text, quote)
    BY <1>3 DEF Writings
  <2>2. PICK T, C : T = S \cup {Backslash} /\ C = T \cup {Backslash, quote}
    OBVIOUS
  <2>3. text \in Seq(T) /\ Backslash \in T
    BY <2>2
  <2>4. PICK s : s = Escapings(text, quote) /\ s \in Seq(T \cup {Backslash})
    BY <2>3, EscapingsGrow
  <2>5. s \in Seq(C) /\ quote \in C
    BY <2>2, <2>4, SeqMonotonic
  <2>6. <<quote>> \o s \o <<quote>> \in Seq(C) /\ Len(<<quote>> \o s \o <<quote>>) = 1 + Len(s) + 1
    BY <2>5
  <2>7. Len(s) \in Nat
    BY <2>5
  <2>8. written = <<quote>> \o s \o <<quote>>
    BY <2>1, <2>4, QuotedIs
  <2>9. Len(written) = 1 + Len(s) + 1
    BY <2>6, <2>8
  <2> QED BY <2>7, <2>9
<1> QED BY <1>1, <1>2, <1>3

\* Written, token by token.
StartIn(ts, end, k) == IF k > Len(ts) THEN end ELSE ts[k].token_index_start

Blanks(p, q) == \A r \in p .. q - 1 : source[r + 1] \in Whitespace

StandsIn(ts, end, k) ==
  \E stop \in Int :
    /\ Stands(ts[k].kind, ts[k].text, ts[k].token_index_start, stop)
    /\ stop <= StartIn(ts, end, k + 1) /\ Blanks(stop, StartIn(ts, end, k + 1))

LEMMA WrittenIs ==
  ASSUME NEW S, NEW ts \in Seq(S), NEW end,
         \A k \in 1 .. Len(ts) : /\ ts[k].kind \in TokenKinds /\ ts[k].token_index_start \in Nat
                                 /\ \E T : ts[k].text \in Seq(T)
  PROVE  Written(source, ts, end) <=>
           Blanks(0, StartIn(ts, end, 1)) /\ \A k \in 1 .. Len(ts) : StandsIn(ts, end, k)
<1>1. DOMAIN ts = 1 .. Len(ts) /\ Len(ts) \in Nat
  OBVIOUS
<1>2. ASSUME NEW k \in 1 .. Len(ts)
      PROVE  StandsIn(ts, end, k) <=>
               \E written \in Writings(ts[k].kind, ts[k].text) :
                 LET stop == ts[k].token_index_start + Len(written)
                 IN /\ stop <= StartIn(ts, end, k + 1)
                    /\ written = SubSeq(source, ts[k].token_index_start + 1, stop)
                    /\ Ended(source, ts[k].kind, written, stop)
                    /\ Blanks(stop, StartIn(ts, end, k + 1))
  <2>1. PICK p, kind, text, T : /\ p = ts[k].token_index_start /\ kind = ts[k].kind /\ text = ts[k].text
                                /\ p \in Nat /\ kind \in TokenKinds /\ text \in Seq(T)
    OBVIOUS
  <2>2. ASSUME NEW written \in Writings(kind, text) PROVE p + Len(written) \in Int
    <3>1. Len(written) \in Nat
      BY <2>1, WritingLength
    <3> QED BY <2>1, <3>1
  <2>3. StandsIn(ts, end, k) <=>
          \E written \in Writings(kind, text) :
            /\ p + Len(written) <= StartIn(ts, end, k + 1)
            /\ written = SubSeq(source, p + 1, p + Len(written))
            /\ Ended(source, kind, written, p + Len(written))
            /\ Blanks(p + Len(written), StartIn(ts, end, k + 1))
    BY <2>1, <2>2 DEF StandsIn, Stands, Cut
  <2> QED BY <2>1, <2>3
<1>3. \A k \in 1 .. Len(ts) : StartIn(ts, end, k) = ts[k].token_index_start
  BY <1>1 DEF StartIn
<1> QED BY <1>1, <1>2, <1>3 DEF Written, StartIn, Blanks

\* The blanks that are skipped are blanks of the line.
LEMMA SkippedBlanks ==
  ASSUME LineOK, NEW p \in 0 .. Length, NEW q, SkipsTo(p, q)
  PROVE  q \in p .. Length /\ Blanks(p, q)
<1>1. Length \in Nat /\ q \in p .. Length
  BY LengthType DEF LineOK, SkipsTo
<1>2. ASSUME NEW r \in p .. q - 1 PROVE source[r + 1] \in Whitespace
  <2>1. r \in 0 .. Length /\ Char(r) \in Whitespace
    BY <1>1 DEF SkipsTo
  <2> QED BY <2>1, NulAtEnd
<1> QED BY <1>1, <1>2 DEF Blanks

\* What is known of the tokens that were taken.
TokensTyped ==
  /\ LineOK /\ TextsOK /\ Len(tokens) \in Nat /\ index \in 0 .. Length /\ Length \in Nat
  /\ \E S : tokens \in Seq(S)
  /\ \A k \in 1 .. Len(tokens) :
       /\ tokens[k].kind \in TokenKinds /\ tokens[k].token_index_start \in Nat
       /\ \E T : tokens[k].text \in Seq(T)

LEMMA TokensAreTyped == LineOK /\ TextsOK => TokensTyped
<1> SUFFICES ASSUME LineOK, TextsOK PROVE TokensTyped
  OBVIOUS
<1>1. PlacesOK /\ Length \in Nat
  BY LengthType DEF LineOK
<1>2. PICK S : tokens \in Seq(S)
  BY <1>1 DEF PlacesOK
<1>3. Len(tokens) \in Nat /\ DOMAIN tokens = 1 .. Len(tokens)
  BY <1>2
<1>4. ASSUME NEW k \in 1 .. Len(tokens)
      PROVE  /\ tokens[k].kind \in TokenKinds /\ tokens[k].token_index_start \in Nat
             /\ \E T : tokens[k].text \in Seq(T)
  BY <1>1, <1>3 DEF PlacesOK, TextsOK
<1> QED BY <1>1, <1>2, <1>3, <1>4 DEF TokensTyped, PlacesOK

\* The blanks before the next token, or before the end, are read.
LEMMA ReadsBlanks ==
  ASSUME TokensTyped, Written(source, tokens, index), NEW p, SkipsTo(index, p)
  PROVE  Written(source, tokens, p)
<1>1. LineOK /\ index \in 0 .. Length /\ Length \in Nat /\ Len(tokens) \in Nat
  BY DEF TokensTyped
<1>2. p \in index .. Length /\ Blanks(index, p)
  BY <1>1, SkippedBlanks
<1>3. Blanks(0, StartIn(tokens, index, 1)) /\ \A k \in 1 .. Len(tokens) : StandsIn(tokens, index, k)
  BY WrittenIs DEF TokensTyped
<1>4. ASSUME NEW o \in Int, o <= index, Blanks(o, index) PROVE o <= p /\ Blanks(o, p)
  <2>1. \A r \in o .. p - 1 : r \in o .. index - 1 \/ r \in index .. p - 1
    BY <1>1, <1>2
  <2> QED BY <1>1, <1>2, <1>4, <2>1 DEF Blanks
<1>5. Blanks(0, StartIn(tokens, p, 1))
  <2>1. CASE 1 > Len(tokens)
    <3>1. StartIn(tokens, index, 1) = index /\ StartIn(tokens, p, 1) = p
      BY <2>1 DEF StartIn
    <3>2. 0 \in Int /\ 0 <= index
      BY <1>1
    <3> QED BY <1>3, <1>4, <3>1, <3>2
  <2>2. CASE ~(1 > Len(tokens))
    <3>1. StartIn(tokens, index, 1) = StartIn(tokens, p, 1)
      BY <2>2 DEF StartIn
    <3> QED BY <1>3, <3>1
  <2> QED BY <2>1, <2>2
<1>6. ASSUME NEW k \in 1 .. Len(tokens) PROVE StandsIn(tokens, p, k)
  <2>1. PICK stop \in Int :
          /\ Stands(tokens[k].kind, tokens[k].text, tokens[k].token_index_start, stop)
          /\ stop <= StartIn(tokens, index, k + 1) /\ Blanks(stop, StartIn(tokens, index, k + 1))
    BY <1>3 DEF StandsIn
  <2>2. stop <= StartIn(tokens, p, k + 1) /\ Blanks(stop, StartIn(tokens, p, k + 1))
    <3>1. CASE k + 1 > Len(tokens)
      <4>1. StartIn(tokens, index, k + 1) = index /\ StartIn(tokens, p, k + 1) = p
        BY <3>1 DEF StartIn
      <4> QED BY <1>4, <2>1, <4>1
    <3>2. CASE ~(k + 1 > Len(tokens))
      <4>1. StartIn(tokens, index, k + 1) = StartIn(tokens, p, k + 1)
        BY <3>2 DEF StartIn
      <4> QED BY <2>1, <4>1
    <3> QED BY <3>1, <3>2
  <2> QED BY <2>1, <2>2 DEF StandsIn
<1> QED BY <1>5, <1>6, WrittenIs DEF TokensTyped

\* A token that stands after the others is read with them.
LEMMA ReadsToken ==
  ASSUME TokensTyped, NEW p \in 0 .. Length, NEW stop \in Int, Written(source, tokens, p),
         NEW t, t.token_index_start = p, Stands(t.kind, t.text, p, stop),
         TokensTyped', tokens' = Append(tokens, t), UNCHANGED source
  PROVE  Written(source, tokens, stop)'
<1>1. Len(tokens) \in Nat /\ Length \in Nat
  BY DEF TokensTyped
<1>2. PICK n, ts : n = Len(tokens) + 1 /\ ts = tokens'
  OBVIOUS
<1>3. /\ Len(ts) = n /\ ts[n] = t /\ n \in Nat /\ n >= 1
      /\ \A k \in 1 .. n - 1 : ts[k] = tokens[k]
  <2>1. PICK S : tokens \in Seq(S)
    BY DEF TokensTyped
  <2>2. tokens \in Seq(S \cup {t}) /\ t \in S \cup {t}
    BY <2>1, SeqMonotonic
  <2> QED BY <1>1, <1>2, <2>2, AppendProperties
<1>4. Blanks(0, StartIn(tokens, p, 1)) /\ \A k \in 1 .. n - 1 : StandsIn(tokens, p, k)
  <2>1. n - 1 = Len(tokens)
    BY <1>1, <1>2
  <2> QED BY <2>1, WrittenIs DEF TokensTyped
<1>5. \A k \in 1 .. n : StartIn(ts, stop, k) = StartIn(tokens, p, k)
  <2>1. ASSUME NEW k \in 1 .. n PROVE StartIn(ts, stop, k) = StartIn(tokens, p, k)
    <3>1. CASE k = n
      BY <1>1, <1>2, <1>3, <3>1 DEF StartIn
    <3>2. CASE k # n
      <4>1. k \in 1 .. n - 1 /\ ~(k > Len(tokens)) /\ ~(k > n)
        BY <1>1, <1>2, <3>2
      <4> QED BY <1>3, <4>1 DEF StartIn
    <3> QED BY <3>1, <3>2
  <2> QED BY <2>1
<1>6. Blanks(0, StartIn(ts, stop, 1))
  BY <1>3, <1>4, <1>5
<1>7. ASSUME NEW k \in 1 .. n PROVE StandsIn(ts, stop, k)
  <2>1. CASE k = n
    <3>1. StartIn(ts, stop, k + 1) = stop
      BY <1>3, <2>1 DEF StartIn
    <3>2. Blanks(stop, stop)
      BY DEF Blanks
    <3> QED BY <1>3, <2>1, <3>1, <3>2 DEF StandsIn
  <2>2. CASE k # n
    <3>1. k \in 1 .. n - 1 /\ k + 1 \in 1 .. n
      BY <1>3, <2>2
    <3> QED BY <1>3, <1>4, <1>5, <3>1 DEF StandsIn
  <2> QED BY <2>1, <2>2
<1>8. /\ \E S : ts \in Seq(S)
      /\ \A k \in 1 .. Len(ts) : /\ ts[k].kind \in TokenKinds /\ ts[k].token_index_start \in Nat
                                 /\ \E T : ts[k].text \in Seq(T)
  BY <1>2 DEF TokensTyped
<1>9. Written(source, ts, stop)
  BY <1>3, <1>6, <1>7, <1>8, WrittenIs
<1> QED BY <1>2, <1>9

------------------------------------------------------------------------------
(* What stands is what is read. *)

\* A line that was written from tokens is printable.
Printable == LineOK /\ ToSet(source) \cap Unprintable = {}

LEMMA PrintableChar ==
  ASSUME Printable, NEW q \in 0 .. Length
  PROVE  Char(q) \notin Unprintable
<1>1. Length \in Nat
  BY LengthType DEF LineOK, Printable
<1>2. CASE q < Length
  <2>1. q \in 0 .. Length - 1
    BY <1>1, <1>2
  <2> QED BY <2>1, CharType DEF LineOK, Printable
<1>3. CASE ~(q < Length)
  <2>1. Char(q) = Nul
    BY <1>3 DEF Char
  <2> QED BY <2>1, TokenizerAssumption
<1> QED BY <1>2, <1>3

\* What is written stands there character by character, and a blank or the end follows.
LEMMA StandsChars ==
  ASSUME LineOK, NEW p \in 0 .. Length, NEW stop \in p .. Length, NEW w, w = Cut(p, stop),
         stop = p + Len(w)
  PROVE  /\ Len(w) = stop - p /\ w \in Seq(ToSet(source))
         /\ \A i \in 1 .. Len(w) : w[i] = Char(p + i - 1)
BY CutType

LEMMA EndedIs ==
  ASSUME LineOK, NEW kind, NEW w, NEW stop \in 0 .. Length, Ended(source, kind, w, stop),
         w[1] \notin Quotes
  PROVE  Char(stop) \in Follows(kind)
<1>1. Length \in Nat
  BY LengthType DEF LineOK
<1>2. CASE stop < Length /\ source[stop + 1] \in Whitespace
  <2>1. Char(stop) = source[stop + 1]
    BY <1>2 DEF Char
  <2> QED BY <1>2, <2>1 DEF Follows
<1>3. CASE stop = Length /\ kind \notin {"|", "&&"}
  <2>1. Char(stop) = Nul
    BY <1>1, <1>3 DEF Char
  <2> QED BY <1>3, <2>1 DEF Follows
<1> QED BY <1>2, <1>3 DEF Ended, Length

\* A symbol is read as itself and not as a longer one.
LEMMA ReadsSymbol ==
  ASSUME LineOK, NEW p \in 0 .. Length - 1, NEW kind \in DOMAIN Spelling,
         NEW stop \in p .. Length, Stands(kind, <<>>, p, stop)
  PROVE  StartsSymbol(p) /\ IsSymbol(p) /\ SymbolAt(p) = kind /\ EndOf(p) = stop
<1>1. Length \in Nat /\ p \in Nat /\ p \in 0 .. Length /\ stop \in 0 .. Length
  BY LengthType DEF LineOK
<1>2. PICK w : w = Spelling[kind]
  OBVIOUS
<1>3. kind # "word" /\ kind \in TokenKinds
  BY SpellingShape DEF Spelling
<1>4. stop = p + Len(w) /\ w = Cut(p, stop) /\ Ended(source, kind, w, stop)
  BY <1>2, <1>3 DEF Stands, Writings
<1>5. PICK n \in 1 .. 3 : n = Len(w) /\ stop = p + n
  BY <1>2, <1>4, SpellingShape
<1>6. w \in Seq(ToSet(source)) /\ \A i \in 1 .. n : w[i] = Char(p + i - 1)
  BY <1>1, <1>4, <1>5, StandsChars
<1>7. kind \in Spelled(p)
  BY <1>2, <1>5, <1>6 DEF Spelled
<1>8. p + 1 - 1 = p /\ 1 \in 1 .. n
  BY <1>1
<1>9. w[1] = Char(p) /\ (n > 1 => w[2] = Char(p + 1))
  <2>1. n > 1 => 2 \in 1 .. n /\ p + 2 - 1 = p + 1
    BY <1>1
  <2> QED BY <1>6, <1>8, <2>1
<1>10. StartsSymbol(p)
  <2>1. \/ w[1] \in {"*", "|", "&", "$", ">"}
        \/ Len(w) > 1 /\ w[1] \in {"1", "2"} /\ w[2] = ">"
    BY <1>2, SpellingStarts
  <2> QED BY <1>5, <1>9, <2>1 DEF StartsSymbol
<1>11. w[1] \notin Quotes
  <2>1. w[1] \in SpellingChars
    BY <1>2, <1>5, <1>8, SpellingType, ElementOfSeq
  <2> QED BY <2>1 DEF SpellingChars, Quotes
<1>12. Char(stop) \in Follows(kind)
  BY <1>1, <1>4, <1>11, EndedIs
<1>13. Char(stop) \in Whitespace \cup {Nul}
  BY <1>12 DEF Follows
<1>14. ASSUME NEW other \in Spelled(p) PROVE Len(Spelling[other]) <= n
  <2>1. PICK v : v = Spelling[other]
    OBVIOUS
  <2>2. other \in DOMAIN Spelling /\ \A i \in 1 .. Len(v) : Char(p + i - 1) = v[i]
    BY <2>1 DEF Spelled
  <2>3. PICK m \in 1 .. 3 : m = Len(v)
    BY <2>1, <2>2, SpellingShape
  <2>4. ASSUME m > n PROVE FALSE
    <3>1. n + 1 \in 1 .. Len(v) /\ p + (n + 1) - 1 = stop
      BY <1>1, <1>5, <2>3, <2>4
    <3>2. v[n + 1] = Char(stop)
      BY <2>2, <3>1
    <3>3. v[n + 1] \in SpellingChars /\ v[n + 1] \in ToSet(v)
      <4>1. v \in Seq(SpellingChars)
        BY <2>1, <2>2, SpellingType
      <4>2. n + 1 \in DOMAIN v
        BY <3>1, <4>1
      <4> QED BY <3>1, <4>1, <4>2, ElementOfSeq DEF ToSet
    <3>4. v[n + 1] \notin Whitespace
      BY <2>1, <2>2, <3>3, TokenizerAssumption
    <3>5. v[n + 1] # Nul
      BY <3>3 DEF SpellingChars, Nul
    <3> QED BY <1>13, <3>2, <3>4, <3>5
  <2> QED BY <2>1, <2>3, <2>4
<1>15. PICK other : other = SymbolAt(p)
  OBVIOUS
<1>16. other \in Spelled(p) /\ Len(w) <= Len(Spelling[other])
  BY <1>2, <1>7, <1>15, SymbolAtType
<1>17. PICK v : v = Spelling[other]
  OBVIOUS
<1>18. other \in DOMAIN Spelling /\ \A i \in 1 .. Len(v) : Char(p + i - 1) = v[i]
  BY <1>16, <1>17 DEF Spelled
<1>19. Len(v) = n
  <2>1. PICK m \in 1 .. 3 : m = Len(v)
    BY <1>17, <1>18, SpellingShape
  <2> QED BY <1>5, <1>14, <1>16, <1>17, <2>1
<1>20. v = w
  <2>1. v \in Seq(SpellingChars) /\ w \in Seq(SpellingChars)
    BY <1>2, <1>17, <1>18, SpellingType
  <2>2. Len(v) = Len(w) /\ \A i \in 1 .. Len(v) : v[i] = w[i]
    BY <1>5, <1>6, <1>18, <1>19
  <2> QED BY <2>1, <2>2, SeqEqual
<1>21. SymbolAt(p) = kind
  BY <1>2, <1>15, <1>17, <1>18, <1>20, SpellingDiffers
<1>22. EndOf(p) = stop
  BY <1>2, <1>4, <1>21 DEF EndOf
<1> QED BY <1>7, <1>10, <1>12, <1>21, <1>22 DEF IsSymbol

\* A word that needs no quotes is read to its end.
LEMMA ReadsBare ==
  ASSUME Printable, NEW p \in 0 .. Length - 1, NEW stop \in p .. Length, NEW text,
         IsBare(text), stop = p + Len(text), text = Cut(p, stop), Ended(source, "word", text, stop)
  PROVE  /\ ~StartsSymbol(p) /\ ~IsQuoted(p) /\ IsWord(p) /\ ~Loops(p)
         /\ WordText(p) = text /\ StringEnd(p) = stop
<1>1. Length \in Nat /\ p \in Nat /\ p \in 0 .. Length /\ stop \in 0 .. Length /\ LineOK
  BY LengthType DEF LineOK, Printable
<1>2. PICK n \in Int : n = Len(text) /\ n = stop - p
  <2>1. Len(text) = stop - p
    BY <1>1, CutType
  <2> QED BY <1>1, <2>1
<1>3. text \in Seq(ToSet(source)) /\ \A i \in 1 .. n : text[i] = Char(p + i - 1)
  <2>1. Cut(p, stop) \in Seq(ToSet(source)) /\ \A i \in 1 .. stop - p : Cut(p, stop)[i] = Char(p + i - 1)
    BY <1>1, CutType
  <2> QED BY <1>2, <2>1
<1>4. n \in Nat /\ n >= 1 /\ DOMAIN text = 1 .. n
  BY <1>2, <1>3, EmptySeq DEF IsBare
<1>5. text[1] = Char(p) /\ (n > 1 => text[2] = Char(p + 1))
  <2>1. 1 \in 1 .. n /\ p + 1 - 1 = p
    BY <1>1, <1>4
  <2>2. n > 1 => 2 \in 1 .. n /\ p + 2 - 1 = p + 1
    BY <1>1, <1>4
  <2> QED BY <1>3, <2>1, <2>2
<1>6. ~IsQuoted(p) /\ Char(p) \notin {"*", "|", "&", "$", ">"}
  BY <1>5 DEF IsBare, IsQuoted
<1>7. Char(stop) \in Whitespace \cup {Nul}
  <2>1. text[1] \notin Quotes
    BY <1>5, <1>6 DEF IsQuoted
  <2> QED BY <1>1, <2>1, EndedIs DEF Follows
<1>8. ~(Char(p) \in {"1", "2"} /\ Char(p + 1) = ">")
  <2>1. CASE n > 1
    BY <1>2, <1>5, <2>1 DEF IsBare
  <2>2. CASE n = 1
    <3>1. p + 1 = stop
      BY <1>1, <1>2, <2>2
    <3>2. ">" \notin Whitespace
      <4>1. ">" \in DOMAIN Spelling /\ Spelling[">"] = <<">">>
        BY DEF Spelling, TokenKinds, Redirects
      <4>2. ">" \in ToSet(Spelling[">"])
        BY <4>1 DEF ToSet
      <4> QED BY <4>1, <4>2, TokenizerAssumption
    <3>3. ">" # Nul
      BY DEF Nul
    <3> QED BY <1>7, <3>1, <3>2, <3>3
  <2> QED BY <1>4, <2>1, <2>2
<1>9. StopsFirst(p, stop)
  <2>1. First(p) = p
    BY <1>6 DEF First
  <2>2. stop = Length \/ Stops(p, stop)
    BY <1>1, <1>6, <1>7, NulAtEnd DEF Stops
  <2>3. ASSUME NEW r \in p .. stop - 1 PROVE ~Stops(p, r)
    <3>1. PICK i : i = r - p + 1
      OBVIOUS
    <3>2. i \in 1 .. n /\ p + i - 1 = r /\ r \in 0 .. Length
      BY <1>1, <1>2, <3>1
    <3>3. Char(r) \notin Whitespace \cup {Backslash}
      BY <1>3, <1>4, <3>2 DEF IsBare
    <3>4. Char(r) \notin Unprintable
      BY <3>2, PrintableChar
    <3> QED BY <1>6, <3>3, <3>4 DEF Stops
  <2> QED BY <2>1, <2>2, <2>3 DEF StopsFirst
<1>10. StringEnd(p) = stop
  BY <1>1, <1>9, StringEndIs
<1>11. IsWord(p)
  BY <1>6, <1>7, <1>10 DEF IsWord
<1>12. ~Loops(p)
  BY <1>1, <1>10, PrintableChar DEF Loops
<1>13. WordText(p) = text
  BY <1>1, <1>6, <1>10, <1>11, BareText
<1> QED BY <1>6, <1>8, <1>10, <1>11, <1>12, <1>13 DEF StartsSymbol

\* The first k characters of a text as they are written between quotes.
Lead(text, k, quote) == Escapings(SubSeq(text, 1, k), quote)

LEMMA LeadGrows ==
  ASSUME NEW S, NEW text \in Seq(S), NEW quote, NEW k \in 1 .. Len(text)
  PROVE  /\ Lead(text, k, quote) = Lead(text, k - 1, quote) \o Escaping(text[k], quote)
         /\ Lead(text, k - 1, quote) \in Seq(S \cup {Backslash})
         /\ Escaping(text[k], quote) \in Seq(S \cup {Backslash})
<1>1. PICK j : j = k - 1
  OBVIOUS
<1>2. PICK s : s = SubSeq(text, 1, j)
  OBVIOUS
<1>3. 1 \in 1 .. Len(text) /\ k \in 1 .. Len(text) /\ j \in 0 .. Len(text) /\ text[k] \in S
  BY <1>1, ElementOfSeq
<1>4. s \in Seq(S)
  BY <1>2, <1>3
<1>5. SubSeq(text, 1, k) = s \o <<text[k]>>
  BY <1>1, <1>2, <1>3, SubSeqRecursiveSecond
<1>6. SubSeq(text, 1, k) = Append(s, text[k])
  BY <1>3, <1>4, <1>5, AppendIsConcat
<1>7. /\ Escapings(Append(s, text[k]), quote) = Escapings(s, quote) \o Escaping(text[k], quote)
      /\ Escapings(s, quote) \in Seq(S \cup {Backslash})
  BY <1>3, <1>4, EscapingsGrow
<1>8. Escaping(text[k], quote) \in Seq(S \cup {Backslash})
  <2>1. PICK d, C : d = text[k] /\ C = S \cup {Backslash}
    OBVIOUS
  <2>2. d \in C /\ Backslash \in C
    BY <1>3, <2>1
  <2>3. <<Backslash, d>> \in Seq(C) /\ <<d>> \in Seq(C)
    BY <2>2
  <2> QED BY <2>1, <2>3 DEF Escaping
<1> QED BY <1>1, <1>2, <1>6, <1>7, <1>8 DEF Lead

\* The whole starts with each of them.
StartsWith(s, u) == Len(u) \in Nat /\ Len(u) <= Len(s) /\ \A i \in 1 .. Len(u) : s[i] = u[i]

LEMMA LeadStarts ==
  ASSUME NEW S, NEW text \in Seq(S), NEW quote, NEW s, s = Escapings(text, quote)
  PROVE  \A k \in 0 .. Len(text) : StartsWith(s, Lead(text, k, quote))
<1>1. PICK m \in Nat : m = Len(text)
  OBVIOUS
<1>2. PICK P : P = {j \in 0 .. m : StartsWith(s, Lead(text, m - j, quote))}
  OBVIOUS
<1>3. 0 \in P
  <2>1. SubSeq(text, 1, m) = text
    BY <1>1, SubSeqFull
  <2>2. Lead(text, m, quote) = s
    BY <2>1 DEF Lead
  <2>3. PICK T : T = S \cup {Backslash}
    OBVIOUS
  <2>4. s \in Seq(T \cup {Backslash})
    <3>1. text \in Seq(T) /\ Backslash \in T
      BY <2>3
    <3> QED BY <3>1, EscapingsGrow
  <2>5. StartsWith(s, s)
    BY <2>4 DEF StartsWith
  <2> QED BY <1>1, <1>2, <2>2, <2>5
<1>4. ASSUME NEW j \in 1 .. m, j - 1 \in P PROVE j \in P
  <2>1. PICK k : k = m - (j - 1)
    OBVIOUS
  <2>2. k \in 1 .. Len(text) /\ k - 1 = m - j
    BY <1>1, <2>1
  <2>3. PICK u, v, y, C : /\ u = Lead(text, k - 1, quote) /\ v = Lead(text, k, quote)
                          /\ y = Escaping(text[k], quote) /\ C = S \cup {Backslash}
    OBVIOUS
  <2>4. v = u \o y /\ u \in Seq(C) /\ y \in Seq(C)
    BY <2>2, <2>3, LeadGrows
  <2>5. Len(v) = Len(u) + Len(y) /\ Len(u) \in Nat /\ Len(y) \in Nat /\ \A i \in 1 .. Len(u) : v[i] = u[i]
    BY <2>4
  <2>6. StartsWith(s, v)
    BY <1>2, <1>4, <2>1, <2>3
  <2>7. Len(s) >= Len(v) /\ \A i \in 1 .. Len(v) : s[i] = v[i]
    BY <2>6 DEF StartsWith
  <2>8. Len(u) <= Len(s)
    <3>1. Len(s) \in Int
      <4>1. PICK T : T = S \cup {Backslash}
        OBVIOUS
      <4>2. text \in Seq(T) /\ Backslash \in T
        BY <4>1
      <4>3. s \in Seq(T \cup {Backslash})
        BY <4>2, EscapingsGrow
      <4> QED BY <4>3
    <3> QED BY <2>5, <2>7, <3>1
  <2>9. ASSUME NEW i \in 1 .. Len(u) PROVE s[i] = u[i]
    <3>1. i \in 1 .. Len(v)
      BY <2>5
    <3> QED BY <2>5, <2>7, <3>1
  <2>10. StartsWith(s, u)
    BY <2>5, <2>8, <2>9 DEF StartsWith
  <2> QED BY <1>2, <2>2, <2>3, <2>10
<1>5. \A j \in 0 .. m : j \in P
  BY <1>3, <1>4, StepByStep
<1>6. ASSUME NEW k \in 0 .. m PROVE StartsWith(s, Lead(text, k, quote))
  <2>1. PICK j : j = m - k
    OBVIOUS
  <2>2. j \in 0 .. m /\ m - j = k
    BY <2>1
  <2> QED BY <1>2, <1>5, <2>2
<1> QED BY <1>1, <1>6

\* One character as it is written, escaped or not, is passed without stopping
\* and is pushed once.
PushedAt(b, p, x) == b[x + 1] = IF IsPushed(p, x) THEN Append(b[x], Char(x)) ELSE b[x]

PushedFrom(b, p, q, r) == \A x \in q .. r - 1 : PushedAt(b, p, x)

LEMMA ReadsEscaping ==
  ASSUME Printable, NEW p \in 0 .. Length - 1, IsQuoted(p), NEW q \in p + 1 .. Length,
         ~Escaped(p, q), NEW c, NEW y, y = Escaping(c, Char(p)), NEW n \in Nat, n = Len(y),
         q + n <= Length, \A i \in 1 .. n : Char(q + i - 1) = y[i]
  PROVE  /\ n >= 1 /\ ~Escaped(p, q + n)
         /\ \A r \in q .. q + n - 1 : ~Stops(p, r)
         /\ \A b : PushedFrom(b, p, q, q + n) => b[q + n] = Append(b[q], c)
<1>1. Length \in Nat /\ p \in Nat /\ LineOK
  BY LengthType DEF LineOK, Printable
<1>2. PICK o, r : o = q + 1 /\ r = q + 2
  OBVIOUS
<1>3. /\ o \in Int /\ q + 1 - 1 = q /\ q + 2 - 1 = o /\ q \in p .. Length /\ q \in 0 .. Length
      /\ o - 1 = q /\ r - 1 = o /\ o > p + 1 /\ r > p + 1
  BY <1>1, <1>2
<1>4. Char(p) # Backslash
  BY DEF IsQuoted, Quotes, Backslash
<1>5. CASE c \in {Backslash, Char(p)}
  <2>1. y = <<Backslash, c>> /\ n = 2
    BY <1>5 DEF Escaping
  <2>2. Char(q) = Backslash /\ Char(o) = c
    <3>1. 1 \in 1 .. n /\ 2 \in 1 .. n /\ y[1] = Backslash /\ y[2] = c
      BY <2>1
    <3> QED BY <1>3, <3>1
  <2>3. o \in p .. Length /\ r \in p .. Length /\ o \in 0 .. Length
    BY <1>1, <1>2, <2>1
  <2>4. Escaped(p, o)
    BY <1>1, <1>3, <2>2, <2>3, EscapedIs
  <2>5. ~Escaped(p, r)
    BY <1>1, <1>3, <2>3, <2>4, EscapedIs
  <2>6. ~Stops(p, q)
    <3>1. Char(q) \notin Unprintable
      BY <1>3, PrintableChar
    <3> QED BY <1>4, <2>2, <3>1 DEF Stops, BadEscape, Closes
  <2>7. ~Stops(p, o)
    <3>1. Char(o) \notin Unprintable
      BY <2>3, PrintableChar
    <3> QED BY <1>5, <2>2, <2>4, <3>1 DEF Stops, BadEscape, Closes
  <2>8. \A x \in q .. q + n - 1 : x = q \/ x = o
    BY <1>2, <2>1
  <2>9. ASSUME NEW b, PushedFrom(b, p, q, q + n) PROVE b[q + n] = Append(b[q], c)
    <3>1. ~IsPushed(p, q) /\ IsPushed(p, o)
      BY <2>2, <2>4 DEF IsPushed
    <3>2. q \in q .. q + n - 1 /\ o \in q .. q + n - 1 /\ q + 1 = o /\ o + 1 = r /\ q + n = r
      BY <1>2, <2>1
    <3>3. b[o] = b[q] /\ b[r] = Append(b[o], Char(o))
      <4>1. PushedAt(b, p, q) /\ PushedAt(b, p, o)
        BY <2>9, <3>2 DEF PushedFrom
      <4>2. /\ b[q + 1] = IF IsPushed(p, q) THEN Append(b[q], Char(q)) ELSE b[q]
            /\ b[o + 1] = IF IsPushed(p, o) THEN Append(b[o], Char(o)) ELSE b[o]
        BY <4>1 DEF PushedAt
      <4> QED BY <3>1, <3>2, <4>2
    <3> QED BY <2>2, <3>2, <3>3
  <2> QED BY <1>2, <2>1, <2>5, <2>6, <2>7, <2>8, <2>9
<1>6. CASE c \notin {Backslash, Char(p)}
  <2>1. y = <<c>> /\ n = 1
    BY <1>6 DEF Escaping
  <2>2. Char(q) = c
    <3>1. 1 \in 1 .. n /\ y[1] = c
      BY <2>1
    <3> QED BY <1>3, <3>1
  <2>3. o \in p .. Length
    BY <1>1, <1>2, <2>1
  <2>4. ~Escaped(p, o)
    BY <1>1, <1>3, <1>6, <2>2, <2>3, EscapedIs
  <2>5. ~Stops(p, q)
    <3>1. Char(q) \notin Unprintable
      BY <1>3, PrintableChar
    <3> QED BY <1>6, <2>2, <3>1 DEF Stops, BadEscape, Closes
  <2>6. \A x \in q .. q + n - 1 : x = q
    BY <2>1
  <2>7. ASSUME NEW b, PushedFrom(b, p, q, q + n) PROVE b[q + n] = Append(b[q], c)
    <3>1. IsPushed(p, q)
      BY <1>6, <2>2 DEF IsPushed
    <3>2. q \in q .. q + n - 1 /\ q + n = q + 1
      BY <2>1
    <3>3. PushedAt(b, p, q)
      BY <2>7, <3>2 DEF PushedFrom
    <3>4. b[q + 1] = Append(b[q], Char(q))
      BY <3>1, <3>3 DEF PushedAt
    <3> QED BY <2>2, <3>2, <3>4
  <2> QED BY <1>2, <2>1, <2>4, <2>5, <2>6, <2>7
<1> QED BY <1>5, <1>6

\* Where the k-th character of a quoted text is passed.
PlaceOf(p, text, k) == p + 1 + Len(Lead(text, k, Char(p)))

\* The text stands between quotes, with its escapes, from p to the quote at e.
BetweenQuotes(p, text, e) ==
  LET s == Escapings(text, Char(p))
  IN /\ IsQuoted(p) /\ text \in Seq(ToSet(source))
     /\ e = p + 1 + Len(s) /\ e < Length /\ Char(e) = Char(p)
     /\ \A i \in 1 .. Len(s) : Char(p + i) = s[i]

LEMMA QuotesAround ==
  ASSUME LineOK, NEW p \in 0 .. Length - 1, NEW stop \in p .. Length, NEW quote \in Quotes,
         NEW text \in Seq(ToSet(source)), NEW w, w = Quoted(text, quote), w = Cut(p, stop),
         stop = p + Len(w)
  PROVE  stop - 1 \in Int /\ BetweenQuotes(p, text, stop - 1)
<1>1. Length \in Nat /\ p \in Nat /\ p \in 0 .. Length
  BY LengthType DEF LineOK
<1>2. PICK T : T = ToSet(source) \cup {Backslash}
  OBVIOUS
<1>3. PICK s : s = Escapings(text, quote)
  OBVIOUS
<1>4. s \in Seq(T \cup {Backslash})
  <2>1. text \in Seq(T) /\ Backslash \in T
    BY <1>2
  <2> QED BY <1>3, <2>1, EscapingsGrow
<1>5. PICK C : C = T \cup {Backslash, quote}
  OBVIOUS
<1>6. s \in Seq(C) /\ <<quote>> \in Seq(C) /\ Len(<<quote>>) = 1 /\ <<quote>>[1] = quote
  BY <1>4, <1>5, SeqMonotonic
<1>7. PICK l \in Nat : l = Len(s)
  BY <1>6
<1>8. PICK u : u = <<quote>> \o s
  OBVIOUS
<1>9. /\ u \in Seq(C) /\ Len(u) = 1 + l
      /\ \A i \in 1 .. 1 + l : u[i] = IF i <= 1 THEN quote ELSE s[i - 1]
  BY <1>6, <1>7, <1>8, ConcatProperties
<1>10. w = u \o <<quote>>
  BY <1>3, <1>8, QuotedIs
<1>11. /\ Len(w) = l + 2
       /\ \A i \in 1 .. 1 + l + 1 : w[i] = IF i <= 1 + l THEN u[i] ELSE quote
  <2>1. /\ Len(u \o <<quote>>) = (1 + l) + 1
        /\ \A i \in 1 .. (1 + l) + 1 : (u \o <<quote>>)[i] = IF i <= 1 + l THEN u[i] ELSE <<quote>>[i - (1 + l)]
    BY <1>6, <1>9, ConcatProperties
  <2>2. \A i \in 1 .. (1 + l) + 1 : ~(i <= 1 + l) => i - (1 + l) = 1
    BY <1>7
  <2> QED BY <1>6, <1>7, <1>10, <2>1, <2>2
<1>12. \A i \in 1 .. l + 2 : w[i] = Char(p + i - 1)
  <2>1. stop - p = l + 2
    BY <1>1, <1>7, <1>11
  <2>2. \A i \in 1 .. stop - p : Cut(p, stop)[i] = Char(p + i - 1)
    BY <1>1, CutType
  <2> QED BY <2>1, <2>2
<1>13. Char(p) = quote
  <2>1. 1 \in 1 .. l + 2 /\ p + 1 - 1 = p /\ 1 \in 1 .. 1 + l + 1 /\ 1 <= 1 + l /\ 1 \in 1 .. 1 + l
    BY <1>1, <1>7
  <2> QED BY <1>9, <1>11, <1>12, <2>1
<1>14. ASSUME NEW i \in 1 .. l PROVE Char(p + i) = s[i]
  <2>1. PICK j : j = i + 1
    OBVIOUS
  <2>2. j \in 1 .. l + 2 /\ j \in 1 .. 1 + l + 1 /\ j <= 1 + l /\ j \in 1 .. 1 + l /\ ~(j <= 1)
        /\ j - 1 = i /\ p + j - 1 = p + i
    BY <1>1, <1>7, <2>1
  <2> QED BY <1>9, <1>11, <1>12, <2>2
<1>15. PICK e : e = stop - 1
  OBVIOUS
<1>16. e = p + 1 + l /\ e < Length /\ e \in Int
  <2>1. stop = p + (l + 2)
    BY <1>11
  <2>2. stop \in Int /\ stop <= Length
    BY <1>1
  <2>3. PICK n \in Int : n = stop /\ n = p + (l + 2) /\ n <= Length /\ e = n - 1
    BY <1>15, <2>1, <2>2
  <2>4. n - 1 = p + 1 + l /\ n - 1 < Length /\ n - 1 \in Int
    BY <1>1, <1>7, <2>3
  <2> QED BY <2>3, <2>4
<1>17. Char(e) = quote
  <2>1. l + 2 \in 1 .. l + 2 /\ l + 2 \in 1 .. 1 + l + 1 /\ ~(l + 2 <= 1 + l) /\ p + (l + 2) - 1 = e
    BY <1>1, <1>7, <1>16
  <2> QED BY <1>11, <1>12, <2>1
<1>18. BetweenQuotes(p, text, e)
  BY <1>3, <1>7, <1>13, <1>14, <1>16, <1>17 DEF BetweenQuotes, IsQuoted
<1> QED BY <1>15, <1>16, <1>18

\* Between the quotes: from one character of the text to the next.
LEMMA PlaceNext ==
  ASSUME LineOK, NEW p \in 0 .. Length - 1, NEW text, NEW e, BetweenQuotes(p, text, e),
         NEW k \in 1 .. Len(text)
  PROVE  /\ PlaceOf(p, text, k - 1) \in p + 1 .. Length
         /\ LET n == Len(Escaping(text[k], Char(p)))
            IN /\ n \in Nat /\ PlaceOf(p, text, k) = PlaceOf(p, text, k - 1) + n
               /\ PlaceOf(p, text, k) <= e
               /\ \A i \in 1 .. n : Char(PlaceOf(p, text, k - 1) + i - 1) = Escaping(text[k], Char(p))[i]
<1>1. Length \in Nat /\ p \in Nat
  BY LengthType DEF LineOK
<1>2. PICK s, c, S, C : /\ s = Escapings(text, c) /\ c = Char(p) /\ S = ToSet(source)
                        /\ C = S \cup {Backslash}
  OBVIOUS
<1>3. /\ text \in Seq(S) /\ e = p + 1 + Len(s) /\ e < Length /\ \A i \in 1 .. Len(s) : Char(p + i) = s[i]
  BY <1>2 DEF BetweenQuotes
<1>4. PICK u, v, y : u = Lead(text, k - 1, c) /\ v = Lead(text, k, c) /\ y = Escaping(text[k], c)
  OBVIOUS
<1>5. v = u \o y /\ u \in Seq(C) /\ y \in Seq(C)
  <2>1. /\ Lead(text, k, c) = Lead(text, k - 1, c) \o Escaping(text[k], c)
        /\ Lead(text, k - 1, c) \in Seq(S \cup {Backslash})
        /\ Escaping(text[k], c) \in Seq(S \cup {Backslash})
    BY <1>3, LeadGrows
  <2> QED BY <1>2, <1>4, <2>1
<1>6. PICK x \in Nat, n \in Nat : x = Len(u) /\ n = Len(y)
  BY <1>5
<1>7. Len(v) = x + n /\ \A i \in 1 .. x + n : v[i] = IF i <= x THEN u[i] ELSE y[i - x]
  BY <1>5, <1>6, ConcatProperties
<1>8. StartsWith(s, v)
  <2>1. k \in 0 .. Len(text)
    BY <1>3
  <2> QED BY <1>2, <1>3, <1>4, <2>1, LeadStarts
<1>9. x + n <= Len(s) /\ \A i \in 1 .. x + n : s[i] = v[i]
  BY <1>7, <1>8 DEF StartsWith
<1>10. Len(s) \in Nat
  <2>1. PICK T : T = S \cup {Backslash}
    OBVIOUS
  <2>2. text \in Seq(T) /\ Backslash \in T
    BY <1>3, <2>1
  <2>3. s \in Seq(T \cup {Backslash})
    BY <1>2, <2>2, EscapingsGrow
  <2> QED BY <2>3
<1>11. PICK q : q = p + 1 + x
  OBVIOUS
<1>12. q \in p + 1 .. Length /\ q + n = p + 1 + (x + n) /\ q + n <= e
  <2>1. PICK l \in Nat : l = Len(s) /\ e = p + 1 + l /\ x + n <= l
    BY <1>3, <1>9, <1>10
  <2> QED BY <1>1, <1>3, <1>6, <1>11, <2>1
<1>13. ASSUME NEW i \in 1 .. n PROVE Char(q + i - 1) = y[i]
  <2>1. PICK j : j = x + i
    OBVIOUS
  <2>2. j \in 1 .. x + n /\ j \in 1 .. Len(s) /\ ~(j <= x) /\ j - x = i /\ p + j = q + i - 1
    BY <1>1, <1>9, <1>10, <1>11, <2>1
  <2> QED BY <1>3, <1>7, <1>9, <2>2
<1>14. q = PlaceOf(p, text, k - 1) /\ q + n = PlaceOf(p, text, k)
  BY <1>2, <1>4, <1>6, <1>7, <1>11, <1>12 DEF PlaceOf
<1> QED BY <1>2, <1>4, <1>6, <1>12, <1>13, <1>14

LEMMA PlaceEnds ==
  ASSUME LineOK, NEW p \in 0 .. Length - 1, NEW text, NEW e, BetweenQuotes(p, text, e)
  PROVE  /\ PlaceOf(p, text, 0) = p + 1 /\ PlaceOf(p, text, Len(text)) = e
         /\ Len(text) \in Nat /\ e \in p + 1 .. Length - 1
<1>1. text \in Seq(ToSet(source)) /\ e = p + 1 + Len(Escapings(text, Char(p))) /\ e < Length
  BY DEF BetweenQuotes
<1>2. SubSeq(text, 1, Len(text)) = text
  BY <1>1, SubSeqFull
<1>3. SubSeq(text, 1, 0) = <<>>
  BY SubSeqEmpty
<1>4. Len(Lead(text, 0, Char(p))) = 0
  <2>1. Lead(text, 0, Char(p)) = <<>>
    BY <1>3, EscapingsEmpty DEF Lead
  <2>2. Len(<<>>) = 0
    OBVIOUS
  <2> QED BY <2>1, <2>2
<1>5. Len(Escapings(text, Char(p))) \in Nat
  <2>1. PICK T : T = ToSet(source) \cup {Backslash}
    OBVIOUS
  <2>2. text \in Seq(T) /\ Backslash \in T
    BY <1>1, <2>1
  <2>3. Escapings(text, Char(p)) \in Seq(T \cup {Backslash})
    BY <2>2, EscapingsGrow
  <2> QED BY <2>3
<1>6. Length \in Nat
  BY LengthType DEF LineOK
<1>7. PlaceOf(p, text, 0) = p + 1 /\ PlaceOf(p, text, Len(text)) = e
  <2>1. Lead(text, Len(text), Char(p)) = Escapings(text, Char(p))
    BY <1>2 DEF Lead
  <2>2. PlaceOf(p, text, Len(text)) = e
    BY <1>1, <2>1 DEF PlaceOf
  <2>3. PlaceOf(p, text, 0) = p + 1
    <3>1. PICK z : z = Len(Lead(text, 0, Char(p)))
      OBVIOUS
    <3> QED BY <1>4, <3>1 DEF PlaceOf
  <2> QED BY <2>2, <2>3
<1> QED BY <1>1, <1>5, <1>6, <1>7

\* No character of the text stops the loop.
LEMMA NoneStops ==
  ASSUME Printable, NEW p \in 0 .. Length - 1, NEW text, NEW e, BetweenQuotes(p, text, e)
  PROVE  \A k \in 0 .. Len(text) :
           ~Escaped(p, PlaceOf(p, text, k)) /\ \A r \in p + 1 .. PlaceOf(p, text, k) - 1 : ~Stops(p, r)
<1>1. Length \in Nat /\ p \in Nat /\ LineOK
  BY LengthType DEF LineOK, Printable
<1>2. PICK m \in Nat : m = Len(text)
  BY <1>1, PlaceEnds
<1>3. PICK P : P = {k \in 0 .. m : /\ ~Escaped(p, PlaceOf(p, text, k))
                                   /\ \A r \in p + 1 .. PlaceOf(p, text, k) - 1 : ~Stops(p, r)}
  OBVIOUS
<1>4. 0 \in P
  <2>1. PICK a : a = p + 1
    OBVIOUS
  <2>2. a = PlaceOf(p, text, 0) /\ a \in p .. Length /\ ~(a > p + 1) /\ \A r \in p + 1 .. a - 1 : FALSE
    BY <1>1, <2>1, PlaceEnds
  <2>3. ~Escaped(p, a)
    BY <1>1, <2>2, EscapedIs
  <2> QED BY <1>3, <2>2, <2>3
<1>5. ASSUME NEW k \in 1 .. m, k - 1 \in P PROVE k \in P
  <2>1. PICK q, y : q = PlaceOf(p, text, k - 1) /\ y = Escaping(text[k], Char(p))
    OBVIOUS
  <2>2. PICK n \in Nat : n = Len(y)
    BY <1>1, <1>2, <2>1, PlaceNext
  <2>3. /\ q \in p + 1 .. Length /\ PlaceOf(p, text, k) = q + n /\ q + n <= e
        /\ \A i \in 1 .. n : Char(q + i - 1) = y[i]
    <3>1. k \in 1 .. Len(text) /\ LineOK
      BY <1>1, <1>2
    <3> QED BY <2>1, <2>2, <3>1, PlaceNext
  <2>4. q + n <= Length
    BY <1>1, <2>3, PlaceEnds
  <2>5. ~Escaped(p, q) /\ \A r \in p + 1 .. q - 1 : ~Stops(p, r)
    BY <1>3, <1>5, <2>1
  <2>6. ~Escaped(p, q + n) /\ \A r \in q .. q + n - 1 : ~Stops(p, r)
    <3>1. IsQuoted(p)
      BY DEF BetweenQuotes
    <3> QED BY <2>1, <2>2, <2>3, <2>4, <2>5, <3>1, ReadsEscaping
  <2>7. \A r \in p + 1 .. q + n - 1 : r \in p + 1 .. q - 1 \/ r \in q .. q + n - 1
    BY <1>1, <2>3
  <2>8. \A r \in p + 1 .. q + n - 1 : ~Stops(p, r)
    BY <2>5, <2>6, <2>7
  <2> QED BY <1>3, <2>3, <2>6, <2>8
<1>6. \A k \in 0 .. m : k \in P
  BY <1>4, <1>5, StepByStep
<1> QED BY <1>2, <1>3, <1>6

\* The first k characters have been pushed.
HasPushed(b, p, text, k) == b[PlaceOf(p, text, k)] = SubSeq(text, 1, k)

\* A word between quotes is read to its quote, and without the escapes.
LEMMA ReadsQuoted ==
  ASSUME Printable, NEW p \in 0 .. Length - 1, NEW text, NEW e, BetweenQuotes(p, text, e)
  PROVE  /\ ~StartsSymbol(p) /\ IsQuoted(p) /\ IsWord(p) /\ ~Loops(p)
         /\ WordText(p) = text /\ StringEnd(p) = e
<1>1. Length \in Nat /\ p \in Nat /\ LineOK /\ IsQuoted(p) /\ Char(e) = Char(p)
  BY LengthType DEF LineOK, Printable, BetweenQuotes
<1>2. PICK m \in Nat : m = Len(text)
  BY <1>1, PlaceEnds
<1>3. PlaceOf(p, text, 0) = p + 1 /\ PlaceOf(p, text, m) = e /\ e \in p + 1 .. Length - 1
  BY <1>1, <1>2, PlaceEnds
<1>4. \A k \in 0 .. m : ~Escaped(p, PlaceOf(p, text, k))
  BY <1>2, NoneStops
<1>5. ~Escaped(p, e) /\ \A r \in p + 1 .. e - 1 : ~Stops(p, r)
  <2>1. m \in 0 .. m
    OBVIOUS
  <2> QED BY <1>2, <1>3, <2>1, NoneStops
<1>6. Closes(p, e)
  BY <1>1, <1>5 DEF Closes
<1>7. StopsFirst(p, e)
  <2>1. e \in p + 1 .. Length
    BY <1>1, <1>3
  <2> QED BY <1>1, <1>5, <1>6, <2>1 DEF StopsFirst, Stops, First
<1>8. StringEnd(p) = e
  BY <1>1, <1>7, StringEndIs
<1>9. IsWord(p)
  BY <1>1, <1>3, <1>6, <1>8 DEF IsWord
<1>10. ~Loops(p)
  <2>1. e \in 0 .. Length
    BY <1>1, <1>3
  <2> QED BY <1>8, <2>1, PrintableChar DEF Loops
<1>11. ~StartsSymbol(p)
  BY <1>1 DEF IsQuoted, StartsSymbol, Quotes
<1>12. PICK b : Buffers(b, p) /\ WordText(p) = b[e]
  BY <1>1, <1>8, WordTextIs DEF LineOK
<1>13. b[p + 1] = <<>> /\ PushedFrom(b, p, p + 1, e)
  BY <1>1, <1>8, <1>12 DEF Buffers, First, PushedFrom, PushedAt
<1>14. text \in Seq(ToSet(source))
  BY DEF BetweenQuotes
<1>15. PICK P : P = {k \in 0 .. m : HasPushed(b, p, text, k)}
  OBVIOUS
<1>16. 0 \in P
  <2>1. SubSeq(text, 1, 0) = <<>>
    BY SubSeqEmpty
  <2>2. HasPushed(b, p, text, 0)
    BY <1>3, <1>13, <2>1 DEF HasPushed
  <2> QED BY <1>15, <2>2
<1>17. ASSUME NEW k \in 1 .. m, k - 1 \in P PROVE k \in P
  <2>1. PICK q, y : q = PlaceOf(p, text, k - 1) /\ y = Escaping(text[k], Char(p))
    OBVIOUS
  <2>2. PICK n \in Nat : n = Len(y)
    BY <1>1, <1>2, <2>1, PlaceNext
  <2>3. /\ q \in p + 1 .. Length /\ PlaceOf(p, text, k) = q + n /\ q + n <= e
        /\ \A i \in 1 .. n : Char(q + i - 1) = y[i]
    <3>1. k \in 1 .. Len(text) /\ LineOK
      BY <1>1, <1>2
    <3> QED BY <2>1, <2>2, <3>1, PlaceNext
  <2>4. q + n <= Length
    BY <1>1, <1>3, <2>3
  <2>5. ~Escaped(p, q)
    <3>1. k - 1 \in 0 .. m
      OBVIOUS
    <3> QED BY <1>4, <2>1, <3>1
  <2>6. PushedFrom(b, p, q, q + n)
    <3>1. PICK z : z = q + n
      OBVIOUS
    <3>2. \A x \in q .. z - 1 : x \in p + 1 .. e - 1
      BY <1>1, <1>3, <2>3, <3>1
    <3>3. \A x \in q .. z - 1 : PushedAt(b, p, x)
      BY <1>13, <3>2 DEF PushedFrom
    <3>4. PushedFrom(b, p, q, z)
      BY <3>3 DEF PushedFrom
    <3> QED BY <3>1, <3>4
  <2>7. b[q + n] = Append(b[q], text[k])
    <3>1. PICK c : c = text[k]
      OBVIOUS
    <3>2. y = Escaping(c, Char(p)) /\ n = Len(y)
      BY <2>1, <2>2, <3>1
    <3>3. \A d : PushedFrom(d, p, q, q + n) => d[q + n] = Append(d[q], c)
      BY <1>1, <2>3, <2>4, <2>5, <3>2, ReadsEscaping
    <3> QED BY <2>6, <3>1, <3>3
  <2>8. b[q] = SubSeq(text, 1, k - 1)
    BY <1>15, <1>17, <2>1 DEF HasPushed
  <2>9. SubSeq(text, 1, k) = Append(SubSeq(text, 1, k - 1), text[k])
    <3>1. PICK j : j = k - 1
      OBVIOUS
    <3>2. 1 \in 1 .. Len(text) /\ k \in 1 .. Len(text) /\ j \in 0 .. Len(text)
      BY <1>2, <3>1
    <3>3. SubSeq(text, 1, k) = SubSeq(text, 1, j) \o <<text[k]>>
      BY <1>14, <3>1, <3>2, SubSeqRecursiveSecond
    <3>4. SubSeq(text, 1, j) \in Seq(ToSet(source)) /\ text[k] \in ToSet(source)
      BY <1>14, <3>2, ElementOfSeq
    <3> QED BY <3>1, <3>3, <3>4, AppendIsConcat
  <2>10. HasPushed(b, p, text, k)
    BY <2>3, <2>7, <2>8, <2>9 DEF HasPushed
  <2> QED BY <1>15, <2>10
<1>18. \A k \in 0 .. m : k \in P
  BY <1>16, <1>17, StepByStep
<1>19. m \in 0 .. m /\ SubSeq(text, 1, m) = text
  BY <1>2, <1>14, SubSeqFull
<1>20. WordText(p) = text
  BY <1>3, <1>12, <1>15, <1>18, <1>19 DEF HasPushed
<1> QED BY <1>1, <1>8, <1>9, <1>10, <1>11, <1>20

\* What the turn of the loop at p takes.
Takes(p, kind, text, stop) ==
  \/ /\ StartsSymbol(p) /\ IsSymbol(p)
     /\ kind = SymbolAt(p) /\ text = <<>> /\ stop = EndOf(p)
  \/ /\ ~StartsSymbol(p) /\ IsWord(p) /\ ~Loops(p)
     /\ kind = "word" /\ text = WordText(p)
     /\ stop = IF IsQuoted(p) THEN StringEnd(p) + 1 ELSE StringEnd(p)

\* It takes what was written there.
LEMMA ReadsWhatStands ==
  ASSUME Printable, NEW kind \in TokenKinds, NEW text \in Seq(ToSet(source)),
         kind # "word" => text = <<>>, NEW p \in 0 .. Length, NEW stop \in Int, stop <= Length,
         Stands(kind, text, p, stop)
  PROVE  p \in 0 .. Length - 1 /\ Char(p) \notin Whitespace /\ Takes(p, kind, text, stop)
<1>1. Length \in Nat /\ LineOK
  BY LengthType DEF LineOK, Printable
<1>2. PICK w \in Writings(kind, text) :
        stop = p + Len(w) /\ w = Cut(p, stop) /\ Ended(source, kind, w, stop)
  BY DEF Stands
<1>3. PICK n \in Nat : n = Len(w) /\ n > 0
  BY <1>2, WritingLength
<1>4. p \in 0 .. Length - 1 /\ stop \in p .. Length
  BY <1>1, <1>2, <1>3
<1>5. w[1] = Char(p)
  <2>1. \A i \in 1 .. Len(w) : w[i] = Char(p + i - 1)
    <3>1. w = Cut(p, stop) /\ stop = p + Len(w)
      BY <1>2
    <3> QED BY <1>1, <1>4, <3>1, StandsChars
  <2>2. 1 \in 1 .. Len(w) /\ p + 1 - 1 = p
    BY <1>1, <1>3
  <2> QED BY <2>1, <2>2
<1>6. CASE kind # "word"
  <2>1. kind \in DOMAIN Spelling /\ w = Spelling[kind] /\ text = <<>>
    BY <1>2, <1>6 DEF Writings, Spelling
  <2>2. Stands(kind, <<>>, p, stop)
    BY <2>1
  <2>3. StartsSymbol(p) /\ IsSymbol(p) /\ SymbolAt(p) = kind /\ EndOf(p) = stop
    BY <1>1, <1>4, <2>1, <2>2, ReadsSymbol
  <2>4. w[1] \notin Whitespace
    <3>1. w \in Seq(SpellingChars) /\ 1 \in 1 .. Len(w)
      BY <1>3, <2>1, SpellingType
    <3>2. w[1] \in ToSet(w)
      BY <3>1 DEF ToSet
    <3> QED BY <2>1, <3>2, TokenizerAssumption
  <2> QED BY <1>4, <1>5, <2>1, <2>3, <2>4 DEF Takes
<1>7. CASE kind = "word" /\ w = text /\ IsBare(text)
  <2>1. /\ ~StartsSymbol(p) /\ ~IsQuoted(p) /\ IsWord(p) /\ ~Loops(p)
        /\ WordText(p) = text /\ StringEnd(p) = stop
    BY <1>2, <1>4, <1>7, ReadsBare
  <2>2. w[1] \notin Whitespace
    <3>1. 1 \in DOMAIN text
      BY <1>3, <1>7
    <3> QED BY <1>7, <3>1 DEF IsBare
  <2> QED BY <1>4, <1>5, <1>7, <2>1, <2>2 DEF Takes
<1>8. CASE kind = "word" /\ ~(w = text /\ IsBare(text))
  <2>1. PICK quote \in Quotes : w = Quoted(text, quote)
    BY <1>2, <1>8 DEF Writings
  <2>2. PICK e \in Int : e = stop - 1
    OBVIOUS
  <2>3. BetweenQuotes(p, text, e)
    BY <1>1, <1>2, <1>4, <2>1, <2>2, QuotesAround
  <2>4. /\ ~StartsSymbol(p) /\ IsQuoted(p) /\ IsWord(p) /\ ~Loops(p)
        /\ WordText(p) = text /\ StringEnd(p) = e
    BY <1>4, <2>3, ReadsQuoted
  <2>5. Char(p) \notin Whitespace
    BY <2>4, TokenizerAssumption DEF IsQuoted
  <2>6. e + 1 = stop
    BY <2>2
  <2> QED BY <1>4, <1>8, <2>4, <2>5, <2>6 DEF Takes
<1> QED BY <1>6, <1>7, <1>8

------------------------------------------------------------------------------
(* The calls of the parser. *)

ParserTypes == PlacesOK /\ CallsOK

\* The stack of calls, the innermost one, and the tokens.
LEMMA CallTypes ==
  ASSUME ParserTypes
  PROVE  /\ frames \in Seq(FrameType) /\ Depth \in Nat
         /\ \A k \in 1 .. Depth : frames[k] \in FrameType
         /\ Depth > 0 => Call \in FrameType
         /\ Len(tokens) \in Nat /\ token_index \in 0 .. 2 * Len(tokens)
         /\ \A k \in 1 .. Len(tokens) :
              Kind(k) \in TokenKinds /\ tokens[k].token_index_start \in 0 .. Length
<1>1. frames \in Seq(FrameType) /\ Depth \in Nat
  BY DEF ParserTypes, CallsOK, Depth
<1>2. \A k \in 1 .. Depth : frames[k] \in FrameType
  BY <1>1, ElementOfSeq DEF Depth
<1> QED BY <1>1, <1>2 DEF ParserTypes, PlacesOK, CallsOK, Call, Kind

\* What is known of a call stays known as long as no error is taken back.
LEMMA KeptCall ==
  ASSUME NEW f, CallInv(f), error_start_index' = -1 => error_start_index = -1
  PROVE  CallInv(f)'
BY DEF CallInv

LEMMA KeptWaits ==
  ASSUME NEW f, NEW g, Waits(f, g), error_start_index' = -1 => error_start_index = -1
  PROVE  Waits(f, g)'
BY DEF Waits

\* Each call by itself and with the one it waits for.
CallStack ==
  /\ \A k \in 1 .. Depth : CallInv(frames[k])
  /\ \A k \in 1 .. Depth - 1 : Waits(frames[k], frames[k + 1])
  /\ Depth > 0 => ~frames[1].piping

\* The innermost call changes, the others wait.
LEMMA TopChanges ==
  ASSUME ParserTypes, ParserInv, Depth > 0, NEW f \in FrameType,
         frames' = [frames EXCEPT ![Depth] = f], f.piping = Call.piping,
         error_start_index' = -1 => error_start_index = -1, CallInv(f)'
  PROVE  frames' \in Seq(FrameType) /\ Depth' = Depth /\ Call' = f /\ CallStack'
<1>1. frames \in Seq(FrameType) /\ Depth \in 1 .. Len(frames) /\ Depth \in Nat
  BY CallTypes DEF Depth
<1>2. /\ frames' \in Seq(FrameType) /\ Len(frames') = Len(frames)
      /\ frames'[Depth] = f
      /\ \A j \in 1 .. Depth : j # Depth => frames'[j] = frames[j]
  BY <1>1, ExceptSeq DEF Depth
<1>3. Depth' = Depth /\ Call' = f
  BY <1>2 DEF Depth, Call
<1>4. ASSUME NEW k \in 1 .. Depth PROVE CallInv(frames[k])'
  <2>1. CASE k = Depth
    BY <1>2, <2>1
  <2>2. CASE k # Depth
    <3>1. PICK g : g = frames[k]
      OBVIOUS
    <3>2. CallInv(g)
      BY <3>1 DEF ParserInv
    <3>3. CallInv(g)' /\ frames'[k] = g
      BY <1>2, <2>2, <3>1, <3>2, KeptCall
    <3> QED BY <3>3
  <2> QED BY <2>1, <2>2
<1>5. ASSUME NEW k \in 1 .. Depth - 1 PROVE Waits(frames[k], frames[k + 1])'
  <2>1. k \in 1 .. Depth /\ k # Depth /\ k + 1 \in 1 .. Depth
    BY <1>1
  <2>2. PICK g, h : g = frames[k] /\ h = frames[k + 1]
    OBVIOUS
  <2>3. Waits(g, h)
    BY <2>2 DEF ParserInv
  <2>4. Waits(g, h)' /\ frames'[k] = g
    BY <1>2, <2>1, <2>2, <2>3, KeptWaits
  <2>5. CASE k + 1 = Depth
    <3>1. Waits(g, f)'
      BY <2>2, <2>4, <2>5 DEF Waits, Call
    <3>2. frames'[k + 1] = f
      BY <1>2, <2>5
    <3> QED BY <2>4, <3>1, <3>2
  <2>6. CASE k + 1 # Depth
    <3>1. frames'[k + 1] = h
      BY <1>2, <2>1, <2>2, <2>6
    <3> QED BY <2>4, <3>1
  <2> QED BY <2>5, <2>6
<1>6. ~frames'[1].piping
  BY <1>1, <1>2 DEF ParserInv, Call
<1> QED BY <1>2, <1>3, <1>4, <1>5, <1>6 DEF CallStack

\* The whole invariant of the calls.
ParserSafe == ParserTypes /\ ParserInv

\* In the loop, the next token is one of the line, and the parser at work.
LEMMA LoopPlace ==
  ASSUME ParserSafe, InLoop
  PROVE  /\ phase = "parsing" /\ Depth \in Nat \ {0} /\ Call \in FrameType /\ ~Call.broken
         /\ Len(tokens) \in Nat /\ token_index \in Nat /\ token_index < Len(tokens)
         /\ Position \in 1 .. Len(tokens)
         /\ Depth <= token_index + 1
         /\ CallInv(Call)
         /\ error_start_index = -1 /\ Call.piped => Token = "&&"
<1>1. Depth \in Nat /\ Depth > 0 /\ ~Call.broken /\ token_index < Len(tokens)
  BY CallTypes DEF InLoop, ParserSafe
<1>2. /\ phase = "parsing" /\ CallPlace /\ CallInv(frames[Depth])
  BY <1>1 DEF ParserInv, ParserSafe
<1>3. Depth <= token_index + 1
  BY <1>1, <1>2 DEF CallPlace
<1>4. Len(tokens) \in Nat /\ token_index \in Nat /\ Call \in FrameType
  BY <1>1, CallTypes DEF ParserSafe
<1>5. error_start_index = -1 /\ Call.piped => Token = "&&"
  BY <1>1, <1>2, <1>4 DEF CallPlace, AtAnd, Token, Position
<1> QED BY <1>1, <1>2, <1>3, <1>4, <1>5 DEF Call, Position

\* A turn of the loop that goes on with the next token.
LEMMA ContinueSafe ==
  ASSUME ParserSafe, InLoop, Token # "&&", NEW f \in FrameType, Continue(f),
         f.piping = Call.piping, f.piped = Call.piped, ~f.broken, CallInv(f)
  PROVE  ParserSafe'
<1>1. UNCHANGED <<source, index, error_start_index, tokens, phase, meant, commands>>
  BY DEF Continue, tokenizerVars
<1>2. CallInv(f)'
  BY <1>1, KeptCall
<1>3. frames' \in Seq(FrameType) /\ Depth' = Depth /\ Call' = f /\ CallStack'
  <2>1. ParserTypes /\ ParserInv /\ Depth > 0
    BY LoopPlace DEF ParserSafe
  <2> QED BY <1>1, <1>2, <2>1, TopChanges DEF Continue
<1>4. PlacesOK'
  BY <1>1 DEF ParserSafe, ParserTypes, PlacesOK, Length
<1>5. token_index' = token_index + 1 /\ token_index' \in 0 .. 2 * Len(tokens)
  BY LoopPlace DEF Continue
<1>6. CallsOK'
  BY <1>1, <1>3, <1>5 DEF CallsOK, ParserSafe, ParserTypes
<1>7. Depth + token_index' <= 2 * Len(tokens) + 1 /\ Depth <= token_index' + 1
  BY <1>5, LoopPlace
<1>8. error_start_index = -1 => ~Call.piped
  BY LoopPlace
<1>9. CallPlace'
  BY <1>1, <1>3, <1>5, <1>7, <1>8, LoopPlace DEF CallPlace
<1>10. ParserInv'
  BY <1>1, <1>3, <1>9, LoopPlace DEF ParserInv, CallStack
<1> QED BY <1>4, <1>6, <1>10 DEF ParserSafe, ParserTypes

\* An error leaves the loop of the innermost call.
LEMMA ReportSafe ==
  ASSUME ParserSafe, InLoop, Report
  PROVE  ParserSafe'
<1>1. UNCHANGED <<source, index, tokens, phase, meant, token_index, commands>>
  BY DEF Report
<1>2. error_start_index' \in 0 .. Length /\ error_start_index' # -1
  BY LoopPlace, CallTypes DEF Report, ParserSafe
<1>3. PICK f : f = [Call EXCEPT !.broken = TRUE]
  OBVIOUS
<1>4. f \in FrameType /\ f.piping = Call.piping /\ frames' = [frames EXCEPT ![Depth] = f]
  BY <1>3, LoopPlace DEF FrameType, Report, Call
<1>5. CallInv(f)
  BY <1>3, LoopPlace DEF CallInv, FrameType
<1>6. CallInv(f)'
  BY <1>2, <1>5, KeptCall
<1>7. frames' \in Seq(FrameType) /\ Depth' = Depth /\ Call' = f /\ CallStack'
  <2>1. ParserTypes /\ ParserInv /\ Depth > 0
    BY LoopPlace DEF ParserSafe
  <2> QED BY <1>2, <1>4, <1>6, <2>1, TopChanges
<1>8. PlacesOK'
  BY <1>1, <1>2 DEF ParserSafe, ParserTypes, PlacesOK, Length
<1>9. CallsOK'
  BY <1>1, <1>7 DEF CallsOK, ParserSafe, ParserTypes
<1>10. f.broken = TRUE
  BY <1>3, LoopPlace DEF FrameType
<1>11. CallPlace
  BY LoopPlace DEF ParserSafe, ParserInv
<1>12. CallPlace'
  BY <1>1, <1>2, <1>7, <1>10, <1>11, LoopPlace DEF CallPlace
<1>13. ParserInv'
  BY <1>1, <1>2, <1>7, <1>12, LoopPlace DEF ParserInv, CallStack
<1> QED BY <1>8, <1>9, <1>13 DEF ParserSafe, ParserTypes

LEMMA ArgumentSafe == ParserSafe /\ Argument => ParserSafe'
<1> SUFFICES ASSUME ParserSafe, Argument PROVE ParserSafe'
  OBVIOUS
<1>1. InLoop /\ Token # "&&" /\ Call \in FrameType /\ CallInv(Call) /\ ~Call.broken
  BY LoopPlace DEF Argument, Symbols
<1>2. Position \in Nat
  BY <1>1, LoopPlace
<1>3. PICK args : args = Append(Call.stage.args, Position)
  OBVIOUS
<1>4. args \in Seq(Nat)
  BY <1>1, <1>2, <1>3 DEF FrameType, StageType
<1>5. PICK f : f = [Call EXCEPT !.stage.args = args]
  OBVIOUS
<1>6. Continue(f)
  BY <1>3, <1>5 DEF Argument
<1>7. /\ f \in FrameType /\ f.piping = Call.piping /\ f.piped = Call.piped /\ ~f.broken
      /\ f.stage.stdout = Call.stage.stdout /\ f.expect_stdout = Call.expect_stdout
      /\ f.has_stdout = Call.has_stdout /\ f.pipe = Call.pipe /\ f.next = Call.next
      /\ f.next_found = Call.next_found
  BY <1>1, <1>4, <1>5 DEF FrameType, StageType
<1>8. CallInv(f)
  BY <1>1, <1>7 DEF CallInv
<1> QED BY <1>1, <1>7, <1>8, <1>6, ContinueSafe

LEMMA FileNameSafe == ParserSafe /\ FileName => ParserSafe'
<1> SUFFICES ASSUME ParserSafe, FileName PROVE ParserSafe'
  OBVIOUS
<1>1. InLoop /\ Token # "&&" /\ Call \in FrameType /\ CallInv(Call) /\ ~Call.broken
  BY LoopPlace DEF FileName
<1>2. Position \in Nat
  BY <1>1, LoopPlace
<1>3. PICK f : f = [Call EXCEPT
                !.stage.stdout = IF Call.expect_stdout THEN Position ELSE @,
                !.stage.stderr = IF Call.expect_stderr THEN Position ELSE @,
                !.expect_stdout = FALSE, !.expect_stderr = FALSE]
  OBVIOUS
<1>4. /\ f \in FrameType /\ f.piping = Call.piping /\ f.piped = Call.piped /\ ~f.broken
      /\ ~Call.expect_stdout => f.stage.stdout = Call.stage.stdout
      /\ ~f.expect_stdout
      /\ f.has_stdout = Call.has_stdout /\ f.pipe = Call.pipe /\ f.next = Call.next
      /\ f.next_found = Call.next_found
  BY <1>1, <1>2, <1>3 DEF FrameType, StageType
<1>5. CallInv(f)
  BY <1>1, <1>4 DEF CallInv
<1> QED BY <1>1, <1>3, <1>4, <1>5, ContinueSafe DEF FileName

LEMMA RedirectSafe == ParserSafe /\ Redirect => ParserSafe'
<1> SUFFICES ASSUME ParserSafe, Redirect PROVE ParserSafe'
  OBVIOUS
<1>1. InLoop /\ Token # "&&" /\ Call \in FrameType /\ CallInv(Call) /\ ~Call.broken
  BY LoopPlace DEF Redirect, Redirects
<1>2. CASE Report
  BY <1>1, <1>2, ReportSafe
<1>3. CASE ~Report
  <2>1. PICK f : f = [Call EXCEPT
                     !.has_stdout = @ \/ ToStdout(Token), !.expect_stdout = ToStdout(Token),
                     !.has_stderr = @ \/ ToStderr(Token), !.expect_stderr = ToStderr(Token)]
    OBVIOUS
  <2>2. Continue(f)
    BY <1>3, <2>1 DEF Redirect
  <2>3. ToStdout(Token) \in BOOLEAN /\ ToStderr(Token) \in BOOLEAN
    BY DEF ToStdout, ToStderr
  <2>4. /\ f \in FrameType /\ f.piping = Call.piping /\ f.piped = Call.piped /\ ~f.broken
        /\ f.stage = Call.stage /\ f.pipe = Call.pipe /\ f.next = Call.next
        /\ f.next_found = Call.next_found
        /\ f.has_stdout = (Call.has_stdout \/ ToStdout(Token))
        /\ f.expect_stdout = ToStdout(Token)
    <3>1. Call \in FrameType /\ ~Call.broken
      BY <1>1
    <3>2. f \in FrameType
      BY <2>1, <2>3, <3>1 DEF FrameType
    <3> QED BY <2>1, <3>1, <3>2 DEF FrameType
  <2>5. error_start_index = -1 => ~Call.piped
    BY <1>1, LoopPlace
  <2>6. CallInv(f)
    BY <1>1, <2>3, <2>4, <2>5 DEF CallInv
  <2> QED BY <1>1, <2>2, <2>4, <2>6, ContinueSafe
<1> QED BY <1>2, <1>3

\* A call for what follows a "|" or a "&&".
LEMMA RecurseSafe ==
  ASSUME ParserSafe, InLoop, NEW piping \in BOOLEAN, Recurse(piping), HasArgs, HasMore,
         piping => ~PipeConflicts, ~piping => ~Call.piping
  PROVE  ParserSafe'
<1>1. UNCHANGED <<source, index, error_start_index, tokens, phase, meant, commands>>
  BY DEF Recurse, tokenizerVars
<1>2. PICK f : f = NewFrame(piping)
  OBVIOUS
<1>3. /\ f \in FrameType /\ f.piping = piping /\ ~f.piped /\ ~f.broken
      /\ f.stage.stdout = 0 /\ ~f.expect_stdout /\ ~f.has_stdout /\ f.pipe = <<>> /\ f.next = <<>>
      /\ ~f.next_found
  BY <1>2 DEF NewFrame, FrameType, EmptyStage, StageType
<1>4. CallInv(f)
  BY <1>3 DEF CallInv, OnlyLastRedirects
<1>5. Waits(Call, f)
  BY <1>3, LoopPlace DEF Waits, HasArgs, PipeConflicts, FrameType
<1>6. frames \in Seq(FrameType) /\ frames' = Append(frames, f)
  BY <1>2, CallTypes DEF Recurse, ParserSafe
<1>7. /\ frames' \in Seq(FrameType) /\ Depth' = Depth + 1 /\ Call' = f
      /\ \A k \in 1 .. Depth : frames'[k] = frames[k]
      /\ frames'[Depth + 1] = f
  BY <1>3, <1>6, AppendProperties, LoopPlace DEF Depth, Call
<1>8. CallStack'
  <2>1. ASSUME NEW k \in 1 .. Depth + 1 PROVE CallInv(frames[k])'
    <3>1. PICK g : g = frames'[k]
      OBVIOUS
    <3>2. CallInv(g)
      <4>1. CASE k = Depth + 1
        BY <1>4, <1>7, <3>1, <4>1
      <4>2. CASE k # Depth + 1
        <5>1. k \in 1 .. Depth
          BY <4>2, LoopPlace
        <5> QED BY <1>7, <3>1, <5>1 DEF ParserSafe, ParserInv
      <4> QED BY <4>1, <4>2
    <3>3. CallInv(g)'
      BY <1>1, <3>2, KeptCall
    <3> QED BY <3>1, <3>3
  <2>2. ASSUME NEW k \in 1 .. Depth PROVE Waits(frames[k], frames[k + 1])'
    <3>1. PICK g, h : g = frames'[k] /\ h = frames'[k + 1]
      OBVIOUS
    <3>2. Waits(g, h)
      <4>1. CASE k = Depth
        BY <1>5, <1>7, <3>1, <4>1 DEF Call
      <4>2. CASE k # Depth
        <5>1. k \in 1 .. Depth - 1 /\ k + 1 \in 1 .. Depth
          BY <4>2, LoopPlace
        <5> QED BY <1>7, <3>1, <5>1 DEF ParserSafe, ParserInv
      <4> QED BY <4>1, <4>2
    <3>3. Waits(g, h)'
      BY <1>1, <3>2, KeptWaits
    <3> QED BY <3>1, <3>3
  <2>3. ~frames'[1].piping
    BY <1>7, LoopPlace DEF ParserSafe, ParserInv
  <2>4. Depth' - 1 = Depth
    BY <1>7, LoopPlace
  <2> QED BY <1>7, <2>1, <2>2, <2>3, <2>4 DEF CallStack
<1>9. PlacesOK'
  BY <1>1 DEF ParserSafe, ParserTypes, PlacesOK, Length
<1>10. token_index' = token_index + 1 /\ token_index' < Len(tokens)
  BY LoopPlace DEF Recurse, HasMore, Position
<1>11. CallsOK'
  BY <1>1, <1>7, <1>10, LoopPlace DEF CallsOK, ParserSafe, ParserTypes
<1>12. CallPlace'
  BY <1>1, <1>3, <1>7, <1>10, LoopPlace DEF CallPlace
<1>13. ParserInv'
  BY <1>1, <1>7, <1>8, <1>12, LoopPlace DEF ParserInv, CallStack
<1> QED BY <1>9, <1>11, <1>13 DEF ParserSafe, ParserTypes

LEMMA PipeSafe == ParserSafe /\ Pipe => ParserSafe'
<1> SUFFICES ASSUME ParserSafe, Pipe PROVE ParserSafe'
  OBVIOUS
<1>1. CASE Report
  BY <1>1, ReportSafe DEF Pipe
<1>2. CASE ~Report
  <2>1. InLoop /\ Recurse(TRUE) /\ HasArgs /\ HasMore /\ ~PipeConflicts
    BY <1>2 DEF Pipe
  <2> QED BY <2>1, RecurseSafe
<1> QED BY <1>1, <1>2

LEMMA AndSafe == ParserSafe /\ And => ParserSafe'
<1> SUFFICES ASSUME ParserSafe, And PROVE ParserSafe'
  OBVIOUS
<1>1. CASE Report
  BY <1>1, ReportSafe DEF And
<1>2. CASE ~Report
  <2>1. InLoop /\ Recurse(FALSE) /\ HasArgs /\ HasMore /\ ~Call.piping
    BY <1>2 DEF And
  <2> QED BY <2>1, RecurseSafe
<1> QED BY <1>1, <1>2

LEMMA AndInPipelineSafe == ParserSafe /\ AndInPipeline => ParserSafe'
<1> SUFFICES ASSUME ParserSafe, AndInPipeline PROVE ParserSafe'
  OBVIOUS
<1>1. InLoop /\ Call.piping /\ Token = "&&"
  BY DEF AndInPipeline
<1>2. UNCHANGED <<source, index, error_start_index, tokens, phase, meant, commands>>
  BY DEF AndInPipeline, tokenizerVars
<1>3. PICK f : f = [Call EXCEPT !.broken = TRUE]
  OBVIOUS
<1>4. f \in FrameType /\ f.piping = Call.piping /\ frames' = [frames EXCEPT ![Depth] = f]
  BY <1>1, <1>3, LoopPlace DEF FrameType, AndInPipeline, Call
<1>5. CallInv(f) /\ f.broken
  BY <1>1, <1>3, LoopPlace DEF CallInv, FrameType
<1>6. CallInv(f)'
  BY <1>2, <1>5, KeptCall
<1>7. frames' \in Seq(FrameType) /\ Depth' = Depth /\ Call' = f /\ CallStack'
  <2>1. ParserTypes /\ ParserInv /\ Depth > 0
    BY <1>1, LoopPlace DEF ParserSafe
  <2> QED BY <1>2, <1>4, <1>6, <2>1, TopChanges
<1>8. PlacesOK'
  BY <1>2 DEF ParserSafe, ParserTypes, PlacesOK, Length
<1>9. CallPlace
  BY <1>1, LoopPlace DEF ParserSafe, ParserInv
<1>10. token_index' = token_index - 1 /\ token_index >= 1
  BY <1>1, <1>9, LoopPlace DEF AndInPipeline, GivenBack, CallPlace
<1>11. CallsOK'
  BY <1>1, <1>2, <1>7, <1>10, LoopPlace DEF CallsOK, ParserSafe, ParserTypes
<1>12. AtAnd(token_index + 1)'
  <2>1. token_index' + 1 = token_index /\ token_index < Len(tokens) /\ Kind(token_index + 1) = "&&"
    BY <1>1, <1>10, LoopPlace DEF Token, Position
  <2> QED BY <1>2, <2>1 DEF AtAnd, Kind
<1>13. CallPlace'
  <2>1. Depth + token_index' <= 2 * Len(tokens) + 1 /\ Depth <= token_index' + 2
    BY <1>1, <1>9, <1>10, LoopPlace DEF CallPlace
  <2> QED BY <1>2, <1>5, <1>7, <1>12, <2>1 DEF CallPlace
<1>14. ParserInv'
  BY <1>1, <1>2, <1>7, <1>13, LoopPlace DEF ParserInv, CallStack
<1> QED BY <1>8, <1>11, <1>14 DEF ParserSafe, ParserTypes

\* The innermost call returns and changes the one that waits for it.
LEMMA TopReturns ==
  ASSUME ParserTypes, ParserInv, Depth > 1, NEW f \in FrameType,
         frames' = [SubSeq(frames, 1, Depth - 1) EXCEPT ![Depth - 1] = f],
         f.piping = frames[Depth - 1].piping,
         error_start_index' = -1 => error_start_index = -1, CallInv(f)'
  PROVE  frames' \in Seq(FrameType) /\ Depth' = Depth - 1 /\ Call' = f /\ CallStack'
<1>1. frames \in Seq(FrameType) /\ Depth \in Nat /\ Depth = Len(frames)
  BY CallTypes DEF Depth
<1>2. PICK n \in Nat : n = Depth - 1 /\ n > 0
  BY <1>1
<1>3. PICK rest : rest = SubSeq(frames, 1, n)
  OBVIOUS
<1>4. rest \in Seq(FrameType) /\ Len(rest) = n /\ \A j \in 1 .. n : rest[j] = frames[j]
  BY <1>1, <1>2, <1>3
<1>5. /\ frames' \in Seq(FrameType) /\ Len(frames') = n
      /\ frames'[n] = f
      /\ \A j \in 1 .. n : j # n => frames'[j] = frames[j]
  <2>1. PICK m : m = Len(rest)
    OBVIOUS
  <2>2. PICK new : new = [rest EXCEPT ![n] = f]
    OBVIOUS
  <2>3. n \in 1 .. Len(rest)
    BY <1>2, <1>4
  <2>4. /\ new \in Seq(FrameType) /\ Len(new) = n
        /\ \A j \in 1 .. n : new[j] = IF j = n THEN f ELSE rest[j]
    BY <1>4, <2>2, <2>3, ExceptSeq
  <2>5. frames' = new
    BY <1>2, <1>3, <2>2
  <2> QED BY <1>4, <2>3, <2>4, <2>5
<1>6. Depth' = n /\ Call' = f
  BY <1>5 DEF Depth, Call
<1>7. ASSUME NEW k \in 1 .. n PROVE CallInv(frames[k])'
  <2>1. CASE k = n
    BY <1>5, <2>1
  <2>2. CASE k # n
    <3>1. PICK g : g = frames[k]
      OBVIOUS
    <3>2. CallInv(g)
      BY <1>1, <1>2, <3>1 DEF ParserInv
    <3>3. CallInv(g)' /\ frames'[k] = g
      BY <1>5, <2>2, <3>1, <3>2, KeptCall
    <3> QED BY <3>3
  <2> QED BY <2>1, <2>2
<1>8. ASSUME NEW k \in 1 .. n - 1 PROVE Waits(frames[k], frames[k + 1])'
  <2>1. k \in 1 .. n /\ k # n /\ k + 1 \in 1 .. n /\ k \in 1 .. Depth - 1
    BY <1>2
  <2>2. PICK g, h : g = frames[k] /\ h = frames[k + 1]
    OBVIOUS
  <2>3. Waits(g, h)
    BY <2>1, <2>2 DEF ParserInv
  <2>4. Waits(g, h)' /\ frames'[k] = g
    BY <1>5, <2>1, <2>2, <2>3, KeptWaits
  <2>5. CASE k + 1 = n
    <3>1. Waits(g, f)'
      BY <1>2, <2>2, <2>4, <2>5 DEF Waits
    <3>2. frames'[k + 1] = f
      BY <1>5, <2>5
    <3> QED BY <2>4, <3>1, <3>2
  <2>6. CASE k + 1 # n
    <3>1. frames'[k + 1] = h
      BY <1>5, <2>1, <2>2, <2>6
    <3> QED BY <2>4, <3>1
  <2> QED BY <2>5, <2>6
<1>9. ~frames'[1].piping
  BY <1>1, <1>2, <1>5 DEF ParserInv
<1> QED BY <1>2, <1>5, <1>6, <1>7, <1>8, <1>9 DEF CallStack

LEMMA NodeType ==
  ASSUME NEW f \in FrameType
  PROVE  StagesFrom(f) \in Seq(StageType) /\ CommandsFrom(f) \in Seq(Seq(StageType))
BY DEF FrameType, StagesFrom, CommandsFrom

\* Without an error only its last stages redirect.
LEMMA NodeRedirects ==
  ASSUME NEW f \in FrameType, CallInv(f), error_start_index = -1
  PROVE  /\ OnlyLastRedirects(StagesFrom(f))
         /\ \A c \in 1 .. Len(CommandsFrom(f)) : OnlyLastRedirects(CommandsFrom(f)[c])
<1>1. f.pipe \in Seq(StageType) /\ f.stage \in StageType /\ f.next \in Seq(Seq(StageType))
  BY DEF FrameType
<1>2. OnlyLastRedirects(StagesFrom(f))
  <2>1. /\ Len(StagesFrom(f)) = 1 + Len(f.pipe) /\ StagesFrom(f)[1] = f.stage
        /\ \A s \in 2 .. Len(f.pipe) + 1 : StagesFrom(f)[s] = f.pipe[s - 1]
    BY <1>1 DEF StagesFrom
  <2>2. CASE f.piped
    <3>1. f.stage.stdout = 0 /\ OnlyLastRedirects(f.pipe)
      BY <2>2, <1>1 DEF CallInv, StageType, FrameType
    <3>2. ASSUME NEW s \in 1 .. Len(StagesFrom(f)) - 1 PROVE StagesFrom(f)[s].stdout = 0
      <4>1. CASE s = 1
        BY <2>1, <3>1, <4>1
      <4>2. CASE s # 1
        <5>1. s - 1 \in 1 .. Len(f.pipe) - 1 /\ s \in 2 .. Len(f.pipe) + 1
          BY <1>1, <2>1, <4>2
        <5> QED BY <2>1, <3>1, <5>1 DEF OnlyLastRedirects
      <4> QED BY <4>1, <4>2
    <3> QED BY <3>2 DEF OnlyLastRedirects
  <2>3. CASE ~f.piped
    <3>1. Len(StagesFrom(f)) = 1
      BY <2>1, <2>3 DEF CallInv
    <3> QED BY <3>1 DEF OnlyLastRedirects
  <2> QED BY <2>2, <2>3
<1>3. ASSUME NEW c \in 1 .. Len(CommandsFrom(f)) PROVE OnlyLastRedirects(CommandsFrom(f)[c])
  <2>1. StagesFrom(f) \in Seq(StageType)
    BY NodeType
  <2>2. /\ Len(CommandsFrom(f)) = 1 + Len(f.next) /\ CommandsFrom(f)[1] = StagesFrom(f)
        /\ \A d \in 2 .. Len(f.next) + 1 : CommandsFrom(f)[d] = f.next[d - 1]
    BY <1>1, <2>1 DEF CommandsFrom
  <2>3. CASE c = 1
    BY <1>2, <2>2, <2>3
  <2>4. CASE c # 1
    <3>1. c - 1 \in 1 .. Len(f.next) /\ c \in 2 .. Len(f.next) + 1
      BY <1>1, <2>2, <2>4
    <3>2. OnlyLastRedirects(f.next[c - 1])
      BY <3>1 DEF CallInv
    <3> QED BY <2>2, <3>1, <3>2
  <2> QED BY <2>3, <2>4
<1> QED BY <1>2, <1>3

\* What every return has in common.
LEMMA Returned ==
  ASSUME ParserSafe, Returns, phase' \in {"parsing", "parsed"}
  PROVE  /\ Depth \in Nat /\ Depth > 0 /\ Call \in FrameType /\ CallInv(Call)
         /\ phase = "parsing" /\ CallPlace /\ PlacesOK' /\ UNCHANGED tokens
         /\ error_start_index' = -1 => error_start_index = -1
         /\ Len(tokens) \in Nat /\ token_index \in 0 .. 2 * Len(tokens)
         /\ token_index >= Len(tokens) \/ Call.broken
<1>1. Depth \in Nat /\ Depth > 0 /\ ~InLoop /\ Call \in FrameType
  BY CallTypes DEF Returns, ParserSafe
<1>2. UNCHANGED <<source, index, tokens, meant>> /\ Length' = Length /\ Length \in Nat
  BY LengthType DEF Returns, Length, ParserSafe, ParserTypes
<1>3. error_start_index' = -1 => error_start_index = -1
  BY DEF Returns
<1>4. error_start_index' \in -1 .. Length
  BY <1>2 DEF Returns, ParserSafe, ParserTypes, PlacesOK
<1>5. phase = "parsing" /\ CallPlace /\ CallInv(Call)
  BY <1>1 DEF ParserSafe, ParserInv, Call
<1>6. PlacesOK'
  BY <1>2, <1>4 DEF ParserSafe, ParserTypes, PlacesOK, Length
<1>7. Len(tokens) \in Nat /\ token_index \in 0 .. 2 * Len(tokens)
  BY CallTypes DEF ParserSafe
<1>8. token_index >= Len(tokens) \/ Call.broken
  BY <1>1, <1>7 DEF InLoop
<1> QED BY <1>1, <1>2, <1>3, <1>5, <1>6, <1>7, <1>8

\* The call it returns to.
LEMMA CallerWaits ==
  ASSUME ParserSafe, Depth > 1
  PROVE  Caller \in FrameType /\ CallInv(Caller) /\ Waits(Caller, Call)
<1>1. Depth - 1 \in 1 .. Depth - 1 /\ Depth - 1 \in 1 .. Depth /\ (Depth - 1) + 1 = Depth
  BY CallTypes DEF ParserSafe
<1>2. Waits(frames[Depth - 1], frames[(Depth - 1) + 1])
  BY <1>1 DEF ParserSafe, ParserInv
<1> QED BY <1>1, <1>2, CallTypes DEF ParserSafe, ParserInv, Call, Caller

LEMMA ReturnLineSafe == ParserSafe /\ ReturnLine => ParserSafe'
<1> SUFFICES ASSUME ParserSafe, ReturnLine PROVE ParserSafe'
  OBVIOUS
<1>1. commands' = CommandsFrom(Call) /\ frames' = <<>> /\ phase' = "parsed"
      /\ token_index' = token_index
  BY DEF ReturnLine
<1>2. /\ Call \in FrameType /\ CallInv(Call) /\ PlacesOK' /\ UNCHANGED tokens
      /\ error_start_index' = -1 => error_start_index = -1
      /\ token_index \in 0 .. 2 * Len(tokens)
  BY <1>1, Returned DEF ReturnLine
<1>3. CommandsFrom(Call) \in Seq(Seq(StageType))
  BY <1>2, NodeType
<1>4. error_start_index = -1 =>
        \A c \in 1 .. Len(CommandsFrom(Call)) : OnlyLastRedirects(CommandsFrom(Call)[c])
  BY <1>2, NodeRedirects
<1>5. Depth' = 0
  BY <1>1 DEF Depth
<1>6. CallsOK'
  BY <1>1, <1>2, <1>3 DEF CallsOK
<1>7. ParserInv'
  BY <1>1, <1>2, <1>4, <1>5 DEF ParserInv
<1> QED BY <1>2, <1>6, <1>7 DEF ParserSafe, ParserTypes

LEMMA ReturnPipeSafe == ParserSafe /\ ReturnPipe => ParserSafe'
<1> SUFFICES ASSUME ParserSafe, ReturnPipe PROVE ParserSafe'
  OBVIOUS
<1>1. Returns /\ Depth > 1 /\ Call.piping /\ UNCHANGED <<commands, phase>>
      /\ token_index' = token_index + 1
  BY DEF ReturnPipe, ToCaller
<1>2. phase = "parsing"
  BY <1>1, CallTypes DEF ParserSafe, ParserInv
<1>3. /\ Depth \in Nat /\ Call \in FrameType /\ CallInv(Call)
      /\ CallPlace /\ PlacesOK' /\ UNCHANGED tokens
      /\ error_start_index' = -1 => error_start_index = -1
      /\ Len(tokens) \in Nat /\ token_index \in 0 .. 2 * Len(tokens)
      /\ token_index >= Len(tokens) \/ Call.broken
  BY <1>1, <1>2, Returned
<1>4. Caller \in FrameType /\ CallInv(Caller) /\ Waits(Caller, Call)
  BY <1>1, CallerWaits
<1>5. PICK stages : stages = StagesFrom(Call)
  OBVIOUS
<1>6. stages \in Seq(StageType)
  BY <1>3, <1>5, NodeType
<1>7. error_start_index = -1 => OnlyLastRedirects(stages)
  BY <1>3, <1>5, NodeRedirects
<1>8. PICK f : f = [Caller EXCEPT !.pipe = stages, !.piped = TRUE]
  OBVIOUS
<1>9. /\ f \in FrameType /\ f.piping = Caller.piping /\ f.piped /\ ~f.broken
      /\ f.stage = Caller.stage /\ f.expect_stdout = Caller.expect_stdout
      /\ f.has_stdout = Caller.has_stdout /\ f.pipe = stages /\ f.next = Caller.next
      /\ f.next_found = Caller.next_found
  BY <1>4, <1>6, <1>8 DEF FrameType, Waits
<1>10. frames' = [SubSeq(frames, 1, Depth - 1) EXCEPT ![Depth - 1] = f]
  BY <1>5, <1>8 DEF ReturnPipe, ToCaller
<1>11. CallInv(f)
  BY <1>1, <1>4, <1>7, <1>9 DEF CallInv, Waits
<1>12. frames' \in Seq(FrameType) /\ Depth' = Depth - 1 /\ Call' = f /\ CallStack'
  <2>1. CallInv(f)'
    BY <1>3, <1>11, KeptCall
  <2> QED BY <1>1, <1>3, <1>9, <1>10, <2>1, TopReturns DEF ParserSafe, Caller
<1>13. token_index' \in 0 .. 2 * Len(tokens)
  BY <1>1, <1>3 DEF CallPlace
<1>14. CallsOK'
  BY <1>1, <1>3, <1>12, <1>13 DEF CallsOK, ParserSafe, ParserTypes
<1>15. error_start_index = -1 => token_index' >= Len(tokens) \/ AtAnd(token_index + 1)
  BY <1>1, <1>3 DEF CallPlace
<1>16. AtAnd(token_index + 1) => AtAnd(token_index)'
  BY <1>1, <1>3 DEF AtAnd, Kind
<1>17. CallPlace'
  BY <1>1, <1>3, <1>9, <1>12, <1>15, <1>16 DEF CallPlace
<1>18. ParserInv'
  BY <1>1, <1>2, <1>3, <1>12, <1>17 DEF ParserInv, CallStack
<1> QED BY <1>3, <1>14, <1>18 DEF ParserSafe, ParserTypes

LEMMA ReturnNextSafe == ParserSafe /\ ReturnNext => ParserSafe'
<1> SUFFICES ASSUME ParserSafe, ReturnNext PROVE ParserSafe'
  OBVIOUS
<1>1. Returns /\ Depth > 1 /\ ~Call.piping /\ UNCHANGED <<commands, phase, token_index>>
  BY DEF ReturnNext, ToCaller
<1>2. phase = "parsing"
  BY <1>1, CallTypes DEF ParserSafe, ParserInv
<1>3. /\ Depth \in Nat /\ Call \in FrameType /\ CallInv(Call)
      /\ CallPlace /\ PlacesOK' /\ UNCHANGED tokens
      /\ error_start_index' = -1 => error_start_index = -1
      /\ Len(tokens) \in Nat /\ token_index \in 0 .. 2 * Len(tokens)
  BY <1>1, <1>2, Returned
<1>4. Caller \in FrameType /\ CallInv(Caller) /\ Waits(Caller, Call)
  BY <1>1, CallerWaits
<1>5. PICK node : node = CommandsFrom(Call)
  OBVIOUS
<1>6. node \in Seq(Seq(StageType))
  BY <1>3, <1>5, NodeType
<1>7. error_start_index = -1 => \A c \in 1 .. Len(node) : OnlyLastRedirects(node[c])
  BY <1>3, <1>5, NodeRedirects
<1>8. PICK f : f = [Caller EXCEPT !.next = node, !.next_found = TRUE, !.broken = TRUE]
  OBVIOUS
<1>9. /\ f \in FrameType /\ f.piping = Caller.piping /\ f.piped = Caller.piped /\ f.broken
      /\ f.stage = Caller.stage /\ f.expect_stdout = Caller.expect_stdout
      /\ f.has_stdout = Caller.has_stdout /\ f.pipe = Caller.pipe /\ f.next = node
  BY <1>4, <1>6, <1>8 DEF FrameType
<1>10. frames' = [SubSeq(frames, 1, Depth - 1) EXCEPT ![Depth - 1] = f]
  BY <1>5, <1>8 DEF ReturnNext, ToCaller
<1>11. CallInv(f) /\ ~f.piping
  BY <1>1, <1>4, <1>7, <1>9 DEF CallInv, Waits
<1>12. frames' \in Seq(FrameType) /\ Depth' = Depth - 1 /\ Call' = f /\ CallStack'
  <2>1. CallInv(f)'
    BY <1>3, <1>11, KeptCall
  <2> QED BY <1>1, <1>3, <1>9, <1>10, <2>1, TopReturns DEF ParserSafe, Caller
<1>13. CallsOK'
  BY <1>1, <1>3, <1>12 DEF CallsOK, ParserSafe, ParserTypes
<1>14. CallPlace'
  BY <1>1, <1>3, <1>9, <1>11, <1>12 DEF CallPlace
<1>15. ParserInv'
  BY <1>1, <1>2, <1>3, <1>12, <1>14 DEF ParserInv, CallStack
<1> QED BY <1>3, <1>13, <1>15 DEF ParserSafe, ParserTypes

------------------------------------------------------------------------------
(* The theorems. *)

LEMMA InitSafe == Init => ParserSafe
<1> SUFFICES ASSUME Init PROVE ParserSafe
  OBVIOUS
<1>1. PlacesOK
  BY PlacesInit
<1>2. token_index = 0 /\ frames = <<>> /\ commands = <<>> /\ phase = "tokenizing"
  BY DEF Init, TokenizerInit
<1>3. Len(tokens) \in Nat /\ Depth = 0
  BY <1>1, <1>2 DEF PlacesOK, Depth
<1>4. CallsOK
  BY <1>2, <1>3 DEF CallsOK
<1>5. ParserInv
  BY <1>2, <1>3 DEF ParserInv
<1> QED BY <1>1, <1>4, <1>5 DEF ParserSafe, ParserTypes

\* While the tokenizer works the parser has not started.
LEMMA TokenizeSafe == ParserSafe /\ Tokenize /\ UNCHANGED parserVars => ParserSafe'
<1> SUFFICES ASSUME ParserSafe, Tokenize, UNCHANGED parserVars PROVE ParserSafe'
  OBVIOUS
<1>1. PlacesOK'
  BY TokenizePlaces DEF ParserSafe, ParserTypes
<1>2. phase = "tokenizing" /\ phase' \notin {"parsing", "parsed"}
  BY DEF Tokenize, TakeSymbol, RefuseSymbol, TakeWord, RefuseWord, StartLoop, EndTokenize,
         StartsWord, InTokenize, Take, Refuse
<1>3. Depth \in Nat /\ ~(Depth > 0) /\ token_index = 0 /\ commands = <<>>
  BY <1>2, CallTypes DEF ParserSafe, ParserInv
<1>4. /\ token_index' = 0 /\ commands' = <<>> /\ UNCHANGED frames /\ Depth' = Depth
  BY <1>3 DEF parserVars, Depth
<1>5. Len(tokens') \in Nat
  BY <1>1 DEF PlacesOK
<1>6. CallsOK'
  BY <1>4, <1>5 DEF CallsOK, ParserSafe, ParserTypes
<1>7. ParserInv'
  BY <1>2, <1>3, <1>4 DEF ParserInv
<1> QED BY <1>1, <1>6, <1>7 DEF ParserSafe, ParserTypes

LEMMA ParseSafe == ParserSafe /\ Parse => ParserSafe'
<1> SUFFICES ASSUME ParserSafe, Parse PROVE ParserSafe'
  OBVIOUS
<1>1. /\ phase = "tokenized" /\ phase' = "parsing"
      /\ UNCHANGED <<source, index, error_start_index, tokens, token_index, commands>>
  BY DEF Parse
<1>2. PICK f : f = NewFrame(FALSE)
  OBVIOUS
<1>3. /\ f \in FrameType /\ ~f.piping /\ ~f.piped /\ ~f.broken /\ ~f.next_found
      /\ f.stage.stdout = 0 /\ ~f.expect_stdout /\ ~f.has_stdout /\ f.pipe = <<>> /\ f.next = <<>>
  BY <1>2 DEF NewFrame, FrameType, EmptyStage, StageType
<1>4. frames' = <<f>>
  BY <1>2 DEF Parse
<1>5. frames' \in Seq(FrameType) /\ Depth' = 1 /\ frames'[1] = f /\ Call' = f
  BY <1>3, <1>4 DEF Depth, Call
<1>6. CallInv(f)'
  BY <1>3 DEF CallInv, OnlyLastRedirects
<1>7. PlacesOK'
  BY <1>1 DEF ParserSafe, ParserTypes, PlacesOK, Length
<1>8. Len(tokens) \in Nat /\ token_index = 0
  BY <1>1, CallTypes DEF ParserSafe, ParserInv
<1>9. CallsOK'
  BY <1>1, <1>5 DEF CallsOK, ParserSafe, ParserTypes
<1>10. CallPlace'
  BY <1>1, <1>3, <1>5, <1>8 DEF CallPlace
<1>11. CallStack'
  BY <1>3, <1>5, <1>6 DEF CallStack
<1>12. ParserInv'
  BY <1>1, <1>5, <1>10, <1>11 DEF ParserInv, CallStack
<1> QED BY <1>7, <1>9, <1>12 DEF ParserSafe, ParserTypes

LEMMA StutterSafe == ParserSafe /\ UNCHANGED vars => ParserSafe'
<1> SUFFICES ASSUME ParserSafe, UNCHANGED vars PROVE ParserSafe'
  OBVIOUS
<1>1. UNCHANGED <<source, index, error_start_index, tokens, phase, token_index, frames, commands>>
  BY DEF vars, tokenizerVars, parserVars
<1>2. PlacesOK'
  BY <1>1 DEF ParserSafe, ParserTypes, PlacesOK, Length
<1>3. CallsOK'
  BY <1>1 DEF ParserSafe, ParserTypes, CallsOK
<1>4. ParserInv'
  BY <1>1 DEF ParserSafe, ParserInv, Depth, Call, CallInv, Waits, CallPlace, AtAnd, Kind
<1> QED BY <1>2, <1>3, <1>4 DEF ParserSafe, ParserTypes

LEMMA NextSafe == ParserSafe /\ [Next]_vars => ParserSafe'
<1> SUFFICES ASSUME ParserSafe, [Next]_vars PROVE ParserSafe'
  OBVIOUS
<1>1. CASE NotAFileName
  BY <1>1, ReportSafe DEF NotAFileName
<1> QED
  BY <1>1, TokenizeSafe, ParseSafe, ArgumentSafe, FileNameSafe, RedirectSafe, PipeSafe,
     AndInPipelineSafe, AndSafe, ReturnPipeSafe, ReturnNextSafe, ReturnLineSafe, StutterSafe
     DEF Next, Step, Done

(***************************************************************************)
(* The inductive invariant of the parser: positions stay in the line, the  *)
(* calls have their types, and the calls that wait fit the one at work.    *)
(***************************************************************************)
THEOREM ParserInvariance == Spec => [](PlacesOK /\ CallsOK /\ ParserInv)
<1>1. ParserSafe => PlacesOK /\ CallsOK /\ ParserInv
  BY DEF ParserSafe, ParserTypes
<1> QED BY <1>1, InitSafe, NextSafe, PTL DEF Spec

\* Once the line is read, its tokens stay.
LEMMA TokensStay ==
  ASSUME ParserSafe, [Next]_vars, ~Tokenize
  PROVE  /\ UNCHANGED <<source, index, tokens, meant>>
         /\ phase' # phase => phase \in {"tokenized", "parsing"} /\ phase' \in {"parsing", "parsed"}
<1>1. CASE UNCHANGED vars
  BY <1>1 DEF vars, tokenizerVars
<1>2. CASE Parse
  BY <1>2 DEF Parse
<1>3. CASE NotAFileName \/ Argument \/ FileName \/ Redirect \/ Pipe \/ AndInPipeline \/ And
  BY <1>3 DEF NotAFileName, Argument, FileName, Redirect, Pipe, AndInPipeline, And,
              Report, Continue, Recurse, tokenizerVars
<1>4. CASE ReturnPipe \/ ReturnNext \/ ReturnLine
  <2>1. Returns /\ (phase' = phase \/ phase' = "parsed")
    BY <1>4 DEF ReturnPipe, ReturnNext, ReturnLine, ToCaller
  <2>2. phase = "parsing"
    BY <2>1 DEF Returns, ParserSafe, ParserInv
  <2> QED BY <2>1, <2>2 DEF Returns
<1> QED BY <1>1, <1>2, <1>3, <1>4 DEF Next, Step, Done

(***************************************************************************)
(* The types: whatever the line, the tokenizer and the calls of the parser *)
(* stay in it, a token's text is made of its characters, and no position   *)
(* of a token leaves the line.                                             *)
(***************************************************************************)
THEOREM TypeCorrect == Spec => []TypeOK
<1>1. Init => ParserSafe /\ TextsOK
  <2>1. Init => DOMAIN tokens = {}
    BY EmptySeq DEF Init, TokenizerInit
  <2> QED BY <2>1, InitSafe DEF TextsOK
<1>2. ParserSafe /\ TextsOK /\ [Next]_vars => (ParserSafe /\ TextsOK)'
  <2> SUFFICES ASSUME ParserSafe, TextsOK, [Next]_vars PROVE (ParserSafe /\ TextsOK)'
    OBVIOUS
  <2>1. ParserSafe'
    BY NextSafe
  <2>2. CASE Tokenize
    BY <2>1, <2>2, TokenizeTexts DEF ParserSafe, ParserTypes
  <2>3. CASE ~Tokenize
    BY <2>1, <2>3, TokensStay DEF TextsOK
  <2> QED BY <2>2, <2>3
<1>3. ParserSafe /\ TextsOK => TypeOK
  BY DEF ParserSafe, ParserTypes, TypeOK
<1> QED BY <1>1, <1>2, <1>3, PTL DEF Spec

\* The line is one that was given, and has no NUL in it.
FromLines == \E l \in Lines : source = l.source /\ meant = l.meant

\* What is known while tokens are taken.
TokensSafe == ParserSafe /\ TextsOK /\ FromLines

LEMMA TokensSafeInit == Init => TokensSafe
<1>1. Init => DOMAIN tokens = {}
  BY EmptySeq DEF Init, TokenizerInit
<1> QED BY <1>1, InitSafe DEF TokensSafe, TextsOK, FromLines, Init, TokenizerInit

LEMMA TokensSafeNext == TokensSafe /\ [Next]_vars => TokensSafe'
<1> SUFFICES ASSUME TokensSafe, [Next]_vars PROVE TokensSafe'
  OBVIOUS
<1>1. ParserSafe'
  BY NextSafe DEF TokensSafe
<1>2. CASE Tokenize
  <2>1. UNCHANGED <<source, meant>>
    BY <1>2 DEF Tokenize, TakeSymbol, RefuseSymbol, TakeWord, RefuseWord, StartLoop, EndTokenize,
                Take, Refuse
  <2>2. TextsOK'
    BY <1>2, TokenizeTexts DEF TokensSafe, ParserSafe, ParserTypes
  <2> QED BY <1>1, <2>1, <2>2 DEF TokensSafe, FromLines
<1>3. CASE ~Tokenize
  <2>1. UNCHANGED <<source, tokens, meant>>
    BY <1>3, TokensStay DEF TokensSafe
  <2> QED BY <1>1, <2>1 DEF TokensSafe, FromLines, TextsOK
<1> QED BY <1>2, <1>3

LEMMA TokensSafeTyped == TokensSafe => LineOK /\ TokensTyped
<1>1. TokensSafe => LineOK
  BY TokenizerAssumption DEF TokensSafe, FromLines, LineOK, ParserSafe, ParserTypes
<1> QED BY <1>1, TokensAreTyped DEF TokensSafe

\* Between two tokens there is nothing but blanks.
LEMMA StartIs ==
  ASSUME TokensSafe
  PROVE  /\ SkipsTo(index, Start) /\ Start \in index .. Length /\ Start \in 0 .. Length
         /\ Start < Length => Start \in 0 .. Length - 1 /\ Char(Start) \notin Whitespace
<1>1. index \in 0 .. Length /\ Length \in Nat
  BY TokensSafeTyped DEF TokensTyped
<1>2. SkipsTo(index, Start)
  BY <1>1, SkipIs DEF Start
<1> QED BY <1>1, <1>2 DEF SkipsTo

\* A turn of the loop takes what stands there.
LEMMA TakeReads ==
  ASSUME TokensSafe, TokensSafe', Written(source, tokens, index), NEW kind, NEW text, NEW stop \in Int,
         Stands(kind, text, Start, stop), Take(NewToken(kind, text, Start), stop)
  PROVE  Written(source, tokens, index)'
<1>1. PICK t, p : t = NewToken(kind, text, p) /\ p = Start
  OBVIOUS
<1>2. t.kind = kind /\ t.text = text /\ t.token_index_start = p
  BY <1>1 DEF NewToken
<1>3. Written(source, tokens, p) /\ p \in 0 .. Length
  BY <1>1, StartIs, ReadsBlanks, TokensSafeTyped
<1>4. TokensTyped /\ TokensTyped'
  <2>1. TokensSafe' => (LineOK /\ TokensTyped)'
    BY TokensSafeTyped, PTL
  <2> QED BY <2>1, TokensSafeTyped
<1>5. tokens' = Append(tokens, t) /\ UNCHANGED source /\ index' = stop
  BY <1>1 DEF Take
<1>6. Written(source, tokens, stop)'
  BY <1>1, <1>2, <1>3, <1>4, <1>5, ReadsToken
<1> QED BY <1>5, <1>6

(***************************************************************************)
(* Whatever the line: as long as it is not refused, the tokens taken from  *)
(* it stand in it in their order, each where it starts and as it may be    *)
(* written, with only blanks between them, up to the place that is read.   *)
(***************************************************************************)
THEOREM TokensAreWhatStands == Spec => []TokensReadBack
<1> DEFINE IInv == TokensSafe /\ TokensReadBack
<1>1. Init => IInv
  <2> SUFFICES ASSUME Init PROVE IInv
    OBVIOUS
  <2>1. TokensSafe /\ TokensTyped
    BY TokensSafeInit, TokensSafeTyped
  <2>2. tokens = <<>> /\ index = 0 /\ Len(tokens) = 0
    BY DEF Init, TokenizerInit
  <2>3. StartIn(tokens, index, 1) = 0 /\ Blanks(0, 0)
    BY <2>2 DEF StartIn, Blanks
  <2>4. Written(source, tokens, index)
    <3>1. PICK ts, end : ts = tokens /\ end = index
      OBVIOUS
    <3>2. /\ \E S : ts \in Seq(S)
          /\ \A k \in 1 .. Len(ts) : FALSE
      BY <2>1, <2>2, <3>1 DEF TokensTyped
    <3>3. Blanks(0, StartIn(ts, end, 1))
      BY <2>3, <3>1
    <3>4. Written(source, ts, end)
      BY <3>2, <3>3, WrittenIs
    <3> QED BY <3>1, <3>4
  <2> QED BY <2>1, <2>4 DEF TokensReadBack
<1>2. IInv /\ [Next]_vars => IInv'
  <2> SUFFICES ASSUME TokensSafe, TokensReadBack, [Next]_vars PROVE TokensSafe' /\ TokensReadBack'
    OBVIOUS
  <2>1. TokensSafe'
    BY TokensSafeNext
  <2>2. Length \in Nat /\ LineOK
    BY TokensSafeTyped DEF TokensTyped
  <2>3. CASE TakeSymbol
    <3>1. StartsSymbol(Start) /\ IsSymbol(Start) /\ phase = "tokenizing"
          /\ Take(NewToken(SymbolAt(Start), <<>>, Start), EndOf(Start))
      BY <2>3 DEF TakeSymbol, InTokenize
    <3>2. Start \in 0 .. Length - 1
      BY <2>2, <3>1, StartIs, SymbolStart
    <3>3. Stands(SymbolAt(Start), <<>>, Start, EndOf(Start)) /\ EndOf(Start) \in Int
      BY <2>2, <3>1, <3>2, SymbolStands, SymbolEnd DEF IsSymbol
    <3>4. Written(source, tokens, index)'
      BY <2>1, <3>1, <3>3, TakeReads DEF TokensReadBack
    <3> QED BY <2>1, <3>4 DEF TokensReadBack
  <2>4. CASE TakeWord
    <3>1. PICK stop : stop = IF IsQuoted(Start) THEN StringEnd(Start) + 1 ELSE StringEnd(Start)
      OBVIOUS
    <3>2. ~StartsSymbol(Start) /\ IsWord(Start) /\ phase = "tokenizing" /\ Start < Length
          /\ Take(NewToken("word", WordText(Start), Start), stop)
      BY <2>4, <3>1 DEF TakeWord, StartsWord, InTokenize
    <3>3. Start \in 0 .. Length - 1 /\ Char(Start) \notin Whitespace
      BY <3>2, StartIs
    <3>4. stop \in Int
      <4>1. StringEnd(Start) \in Int
        BY <2>2, <3>3, StringEndType
      <4> QED BY <3>1, <4>1
    <3>5. Stands("word", WordText(Start), Start, stop)
      BY <2>2, <3>1, <3>2, <3>3, BareStands, QuotedStands
    <3>6. Written(source, tokens, index)'
      BY <2>1, <3>2, <3>4, <3>5, TakeReads DEF TokensReadBack
    <3> QED BY <2>1, <3>6 DEF TokensReadBack
  <2>5. CASE EndTokenize
    <3>1. UNCHANGED <<source, tokens>> /\ index' = Start /\ phase = "tokenizing"
      BY <2>5 DEF EndTokenize
    <3>2. Written(source, tokens, Start)
      BY <3>1, StartIs, ReadsBlanks, TokensSafeTyped DEF TokensReadBack
    <3> QED BY <2>1, <3>1, <3>2 DEF TokensReadBack
  <2>6. CASE RefuseSymbol \/ RefuseWord \/ StartLoop
    <3>1. phase' \in {"refused", "looping"}
      BY <2>6 DEF RefuseSymbol, RefuseWord, StartLoop, Refuse
    <3> QED BY <2>1, <3>1 DEF TokensReadBack
  <2>7. CASE ~Tokenize
    <3>1. UNCHANGED <<source, index, tokens>>
          /\ (phase' = phase \/ phase \in {"tokenized", "parsing"})
      BY <2>7, TokensStay DEF TokensSafe
    <3> QED BY <2>1, <3>1 DEF TokensReadBack
  <2> QED BY <2>3, <2>4, <2>5, <2>6, <2>7 DEF Tokenize
<1> QED BY <1>1, <1>2, PTL DEF Spec

\* What the tokens are that a line was written from.
MeantAt(k) ==
  /\ meant[k].kind \in TokenKinds /\ meant[k].text \in Seq(ToSet(source))
  /\ meant[k].kind # "word" => meant[k].text = <<>>
  /\ meant[k].token_index_start \in 0 .. Length
  /\ meant[k] = NewToken(meant[k].kind, meant[k].text, meant[k].token_index_start)
  /\ StandsIn(meant, Length, k)

LEMMA MeantIs ==
  ASSUME TokensSafe, meant # <<>>
  PROVE  /\ Printable /\ Len(meant) \in Nat /\ Length \in Nat /\ index \in 0 .. Length
         /\ Len(tokens) \in Nat
         /\ Blanks(0, StartIn(meant, Length, 1)) /\ \A k \in 1 .. Len(meant) : MeantAt(k)
<1>1. LineOK /\ Length \in Nat /\ index \in 0 .. Length /\ Len(tokens) \in Nat
  BY TokensSafeTyped DEF TokensTyped
<1>2. PICK l \in Lines : source = l.source /\ meant = l.meant
  BY DEF TokensSafe, FromLines
<1>3. /\ meant \in Seq(TokensOf(source)) /\ ToSet(source) \cap Unprintable = {}
      /\ Written(source, meant, Length)
  BY <1>2, TokenizerAssumption DEF Length
<1>4. PICK ts : ts = meant
  OBVIOUS
<1>5. ts \in Seq(TokensOf(source)) /\ Len(ts) \in Nat
  BY <1>3, <1>4
<1>6. ASSUME NEW k \in 1 .. Len(ts)
      PROVE  /\ ts[k].kind \in TokenKinds /\ ts[k].text \in Seq(ToSet(source))
             /\ ts[k].kind # "word" => ts[k].text = <<>>
             /\ ts[k].token_index_start \in 0 .. Length
             /\ ts[k] = NewToken(ts[k].kind, ts[k].text, ts[k].token_index_start)
  <2>1. ts[k] \in TokensOf(source)
    BY <1>5, ElementOfSeq
  <2>2. PICK t : t = ts[k]
    OBVIOUS
  <2>3. t \in [kind : TokenKinds, text : Seq(ToSet(source)), token_index_start : 0 .. Len(source)]
        /\ (t.kind # "word" => t.text = <<>>)
    BY <2>1, <2>2 DEF TokensOf
  <2> QED BY <2>2, <2>3 DEF NewToken, Length
<1>7. \A k \in 1 .. Len(ts) : /\ ts[k].kind \in TokenKinds /\ ts[k].token_index_start \in Nat
                              /\ \E T : ts[k].text \in Seq(T)
  BY <1>1, <1>6
<1>8. Blanks(0, StartIn(ts, Length, 1)) /\ \A k \in 1 .. Len(ts) : StandsIn(ts, Length, k)
  <2>1. PICK end : end = Length
    OBVIOUS
  <2>2. Written(source, ts, end)
    BY <1>3, <1>4, <2>1
  <2>3. Blanks(0, StartIn(ts, end, 1)) /\ \A k \in 1 .. Len(ts) : StandsIn(ts, end, k)
    BY <1>5, <1>7, <2>2, WrittenIs
  <2> QED BY <2>1, <2>3
<1>9. Printable
  BY <1>1, <1>3 DEF Printable
<1> QED BY <1>1, <1>4, <1>5, <1>6, <1>8, <1>9 DEF MeantAt

\* Blanks are skipped up to what stands after them.
LEMMA SkipsBlanks ==
  ASSUME LineOK, NEW p \in 0 .. Length, NEW q \in p .. Length, Blanks(p, q),
         q = Length \/ Char(q) \notin Whitespace
  PROVE  skip_whitespace(p) = q
<1>1. Length \in Nat
  BY LengthType DEF LineOK
<1>2. ASSUME NEW r \in p .. q - 1 PROVE Char(r) \in Whitespace
  <2>1. r \in 0 .. Length - 1
    BY <1>1
  <2> QED BY <2>1, CharType DEF LineOK, Blanks
<1>3. SkipsTo(p, q)
  BY <1>2 DEF SkipsTo
<1> QED BY <1>1, <1>3, SkipIs

\* The next token that was meant is the one that is taken,
NextMeant(k) ==
  \E stop \in Int :
    /\ Takes(Start, meant[k].kind, meant[k].text, stop)
    /\ stop <= StartIn(meant, Length, k + 1) /\ Blanks(stop, StartIn(meant, Length, k + 1))

LEMMA MeantNext ==
  ASSUME TokensSafe, meant # <<>>, NEW k \in 1 .. Len(meant),
         index <= StartIn(meant, Length, k), Blanks(index, StartIn(meant, Length, k))
  PROVE  Start = meant[k].token_index_start /\ Start < Length /\ NextMeant(k)
<1>1. /\ Printable /\ LineOK /\ Len(meant) \in Nat /\ Length \in Nat /\ index \in 0 .. Length
      /\ \A j \in 1 .. Len(meant) : MeantAt(j)
  BY MeantIs DEF Printable
<1>2. PICK p : p = meant[k].token_index_start
  OBVIOUS
<1>3. StartIn(meant, Length, k) = p
  BY <1>1, <1>2 DEF StartIn
<1>4. PICK stop \in Int :
        /\ Stands(meant[k].kind, meant[k].text, p, stop)
        /\ stop <= StartIn(meant, Length, k + 1) /\ Blanks(stop, StartIn(meant, Length, k + 1))
  BY <1>1, <1>2 DEF MeantAt, StandsIn
<1>5. StartIn(meant, Length, k + 1) \in 0 .. Length
  <2>1. CASE k + 1 > Len(meant)
    BY <1>1, <2>1 DEF StartIn
  <2>2. CASE ~(k + 1 > Len(meant))
    <3>1. k + 1 \in 1 .. Len(meant)
      BY <1>1, <2>2
    <3> QED BY <1>1, <2>2, <3>1 DEF StartIn, MeantAt
  <2> QED BY <2>1, <2>2
<1>6. stop <= Length
  BY <1>1, <1>4, <1>5
<1>7. p \in 0 .. Length - 1 /\ Char(p) \notin Whitespace /\ Takes(p, meant[k].kind, meant[k].text, stop)
  <2>1. PICK kind, text : kind = meant[k].kind /\ text = meant[k].text
    OBVIOUS
  <2>2. kind \in TokenKinds /\ text \in Seq(ToSet(source)) /\ (kind # "word" => text = <<>>)
        /\ p \in 0 .. Length
    BY <1>1, <1>2, <2>1 DEF MeantAt
  <2> QED BY <1>1, <1>4, <1>6, <2>1, <2>2, ReadsWhatStands
<1>8. Start = p
  <2>1. p \in index .. Length
    BY <1>1, <1>3, <1>7
  <2> QED BY <1>1, <1>3, <1>7, <2>1, SkipsBlanks DEF Start
<1> QED BY <1>1, <1>2, <1>4, <1>7, <1>8 DEF NextMeant

\* and after the last one there are only blanks.
LEMMA MeantEnd ==
  ASSUME TokensSafe, meant # <<>>, NEW k, k = Len(meant) + 1,
         index <= StartIn(meant, Length, k), Blanks(index, StartIn(meant, Length, k))
  PROVE  Start = Length
<1>1. LineOK /\ Len(meant) \in Nat /\ Length \in Nat /\ index \in 0 .. Length
  BY MeantIs DEF Printable
<1>2. StartIn(meant, Length, k) = Length
  BY <1>1 DEF StartIn
<1>3. Length \in index .. Length
  BY <1>1
<1> QED BY <1>1, <1>2, <1>3, SkipsBlanks DEF Start

\* What was read so far is what was meant, and what follows is still to be read.
ReadSoFar ==
  /\ phase \notin {"refused", "looping"}
  /\ Len(tokens) <= Len(meant) /\ \A k \in 1 .. Len(tokens) : tokens[k] = meant[k]
  /\ phase # "tokenizing" => Len(tokens) = Len(meant)
  /\ phase = "tokenizing" =>
       /\ index <= StartIn(meant, Length, Len(tokens) + 1)
       /\ Blanks(index, StartIn(meant, Length, Len(tokens) + 1))

\* One token more.
LEMMA ReadsOne ==
  ASSUME TokensSafe, meant # <<>>, ReadSoFar, phase = "tokenizing", Start < Length, NEW kind, NEW text, NEW next,
         Takes(Start, kind, text, next), Take(NewToken(kind, text, Start), next)
  PROVE  ReadSoFar'
<1>1. Len(meant) \in Nat /\ Len(tokens) \in Nat /\ Length \in Nat
  BY MeantIs
<1>2. PICK n : n = Len(tokens) + 1
  OBVIOUS
<1>3. n \in 1 .. Len(meant) + 1 /\ index <= StartIn(meant, Length, n) /\ Blanks(index, StartIn(meant, Length, n))
  BY <1>1, <1>2 DEF ReadSoFar
<1>4. n # Len(meant) + 1
  <2>1. Start # Length
    BY <1>1
  <2> QED BY <1>3, <2>1, MeantEnd
<1>5. n \in 1 .. Len(meant)
  BY <1>1, <1>3, <1>4
<1>6. Start = meant[n].token_index_start /\ NextMeant(n)
  BY <1>3, <1>5, MeantNext
<1>7. PICK stop \in Int :
        /\ Takes(Start, meant[n].kind, meant[n].text, stop)
        /\ stop <= StartIn(meant, Length, n + 1) /\ Blanks(stop, StartIn(meant, Length, n + 1))
  BY <1>6 DEF NextMeant
<1>8. kind = meant[n].kind /\ text = meant[n].text /\ next = stop
  BY <1>7 DEF Takes
<1>9. NewToken(kind, text, Start) = meant[n]
  BY <1>5, <1>6, <1>8, MeantIs DEF MeantAt
<1>10. tokens' = Append(tokens, meant[n]) /\ index' = stop /\ UNCHANGED <<source, phase, meant>>
  BY <1>8, <1>9 DEF Take
<1>11. /\ Len(tokens') = n /\ tokens'[n] = meant[n]
       /\ \A k \in 1 .. n - 1 : tokens'[k] = meant[k]
  <2>1. PICK S : tokens \in Seq(S)
    BY TokensSafeTyped DEF TokensTyped
  <2>2. tokens \in Seq(S \cup {meant[n]}) /\ meant[n] \in S \cup {meant[n]}
    BY <2>1, SeqMonotonic
  <2>3. /\ Len(tokens') = Len(tokens) + 1 /\ tokens'[Len(tokens) + 1] = meant[n]
        /\ \A k \in 1 .. Len(tokens) : tokens'[k] = tokens[k]
    BY <1>10, <2>2, AppendProperties
  <2>4. n - 1 = Len(tokens)
    BY <1>1, <1>2
  <2> QED BY <1>2, <2>3, <2>4 DEF ReadSoFar
<1>12. \A k \in 1 .. n : k = n \/ k \in 1 .. n - 1
  BY <1>5
<1>13. Length' = Length
  BY <1>10 DEF Length
<1>14. index' <= StartIn(meant, Length, n + 1)' /\ Blanks(index, StartIn(meant, Length, n + 1))'
  BY <1>7, <1>10, <1>13 DEF StartIn, Blanks
<1>15. n <= Len(meant)
  BY <1>5
<1> QED BY <1>10, <1>11, <1>12, <1>13, <1>14, <1>15 DEF ReadSoFar

(***************************************************************************)
(* A line written from tokens, whatever they are and with any quotes that  *)
(* fit, is never refused by the tokenizer and is read as those tokens,     *)
(* where they stand, and no others.                                        *)
(***************************************************************************)
THEOREM ReadsAsMeant == Spec => []ReadsWhatWasMeant
<1> DEFINE IInv == TokensSafe /\ (meant # <<>> => ReadSoFar)
<1>1. Init => IInv
  <2> SUFFICES ASSUME Init PROVE TokensSafe /\ (meant # <<>> => ReadSoFar)
    OBVIOUS
  <2>1. TokensSafe
    BY TokensSafeInit
  <2>2. ASSUME meant # <<>> PROVE ReadSoFar
    <3>1. index = 0 /\ phase = "tokenizing" /\ Len(tokens) = 0
      BY DEF Init, TokenizerInit
    <3>2. Len(meant) \in Nat /\ Length \in Nat /\ Blanks(0, StartIn(meant, Length, 1))
      BY <2>1, <2>2, MeantIs
    <3>3. StartIn(meant, Length, 1) \in Nat
      <4>1. CASE Len(meant) >= 1
        <5>1. 1 \in 1 .. Len(meant) /\ ~(1 > Len(meant))
          BY <3>2, <4>1
        <5>2. MeantAt(1)
          BY <2>1, <2>2, <5>1, MeantIs
        <5> QED BY <3>2, <5>1, <5>2 DEF StartIn, MeantAt
      <4>2. CASE ~(Len(meant) >= 1)
        BY <3>2, <4>2 DEF StartIn
      <4> QED BY <4>1, <4>2
    <3>4. 0 + 1 = 1
      OBVIOUS
    <3> QED BY <3>1, <3>2, <3>3, <3>4 DEF ReadSoFar
  <2> QED BY <2>1, <2>2
<1>2. IInv /\ [Next]_vars => IInv'
  <2> SUFFICES ASSUME TokensSafe, meant # <<>> => ReadSoFar, [Next]_vars
               PROVE  TokensSafe' /\ (meant # <<>> => ReadSoFar)'
    OBVIOUS
  <2>1. TokensSafe'
    BY TokensSafeNext
  <2>2. UNCHANGED meant
    <3>1. CASE Tokenize
      BY <3>1 DEF Tokenize, TakeSymbol, RefuseSymbol, TakeWord, RefuseWord, StartLoop, EndTokenize,
                  Take, Refuse
    <3>2. CASE ~Tokenize
      BY <3>2, TokensStay DEF TokensSafe
    <3> QED BY <3>1, <3>2
  <2>3. ASSUME meant # <<>> PROVE ReadSoFar'
    <3>1. ReadSoFar /\ Length \in Nat /\ Len(meant) \in Nat /\ Len(tokens) \in Nat
      BY <2>3, MeantIs
    <3>2. PICK n : n = Len(tokens) + 1
      OBVIOUS
    <3>3. CASE ~Tokenize
      <4>1. /\ UNCHANGED <<source, index, tokens, meant>>
            /\ \/ phase' = phase
               \/ phase \in {"tokenized", "parsing"} /\ phase' \in {"parsing", "parsed"}
        BY <3>3, TokensStay DEF TokensSafe
      <4>2. Length' = Length
        BY <4>1 DEF Length
      <4> QED BY <3>1, <4>1, <4>2 DEF ReadSoFar, StartIn, Blanks
    <3>4. ASSUME phase = "tokenizing"
          PROVE  \/ n = Len(meant) + 1 /\ Start = Length
                 \/ n \in 1 .. Len(meant) /\ Start < Length /\ NextMeant(n)
      <4>1. n \in 1 .. Len(meant) + 1 /\ index <= StartIn(meant, Length, n)
            /\ Blanks(index, StartIn(meant, Length, n))
        BY <3>1, <3>2, <3>4 DEF ReadSoFar
      <4>2. CASE n = Len(meant) + 1
        BY <2>3, <4>1, <4>2, MeantEnd
      <4>3. CASE n # Len(meant) + 1
        <5>1. n \in 1 .. Len(meant)
          BY <3>1, <4>1, <4>3
        <5> QED BY <2>3, <4>1, <5>1, MeantNext
      <4> QED BY <4>2, <4>3
    <3>5. CASE TakeSymbol
      <4>1. StartsSymbol(Start) /\ IsSymbol(Start) /\ phase = "tokenizing"
            /\ Take(NewToken(SymbolAt(Start), <<>>, Start), EndOf(Start))
        BY <3>5 DEF TakeSymbol, InTokenize
      <4>2. Takes(Start, SymbolAt(Start), <<>>, EndOf(Start))
        BY <4>1 DEF Takes
      <4>3. Start < Length
        <5>1. Start \in 0 .. Length
          BY StartIs
        <5> QED BY <3>1, <4>1, <5>1, SymbolStart
      <4> QED BY <2>3, <3>1, <4>1, <4>2, <4>3, ReadsOne
    <3>6. CASE TakeWord \/ RefuseWord \/ StartLoop
      <4>1. phase = "tokenizing" /\ ~StartsSymbol(Start) /\ Start < Length
        BY <3>6 DEF TakeWord, RefuseWord, StartLoop, StartsWord, InTokenize
      <4>2. NextMeant(n)
        BY <3>1, <3>4, <4>1
      <4>3. IsWord(Start) /\ ~Loops(Start)
        BY <4>1, <4>2 DEF NextMeant, Takes
      <4>4. PICK next : next = IF IsQuoted(Start) THEN StringEnd(Start) + 1 ELSE StringEnd(Start)
        OBVIOUS
      <4>5. Take(NewToken("word", WordText(Start), Start), next)
        BY <3>6, <4>3, <4>4 DEF TakeWord, RefuseWord, StartLoop
      <4>6. Takes(Start, "word", WordText(Start), next)
        BY <4>1, <4>3, <4>4 DEF Takes
      <4> QED BY <2>3, <3>1, <4>1, <4>5, <4>6, ReadsOne
    <3>7. CASE RefuseSymbol
      <4>1. phase = "tokenizing" /\ StartsSymbol(Start) /\ ~IsSymbol(Start)
        BY <3>7 DEF RefuseSymbol, InTokenize
      <4>2. Start < Length
        <5>1. Start \in 0 .. Length
          BY StartIs
        <5> QED BY <3>1, <4>1, <5>1, SymbolStart
      <4>3. NextMeant(n)
        BY <3>1, <3>4, <4>1, <4>2
      <4> QED BY <4>1, <4>3 DEF NextMeant, Takes
    <3>8. CASE EndTokenize
      <4>1. phase = "tokenizing" /\ Start = Length /\ phase' = "tokenized" /\ UNCHANGED <<tokens, meant>>
        BY <3>8 DEF EndTokenize
      <4>2. n = Len(meant) + 1
        BY <3>1, <3>4, <4>1
      <4>3. Len(tokens) = Len(meant)
        BY <3>1, <3>2, <4>2
      <4> QED BY <3>1, <4>1, <4>3 DEF ReadSoFar
    <3> QED BY <3>3, <3>5, <3>6, <3>7, <3>8 DEF Tokenize
  <2> QED BY <2>1, <2>2, <2>3
<1>3. IInv => ReadsWhatWasMeant
  <2> SUFFICES ASSUME TokensSafe, meant # <<>>, ReadSoFar PROVE ReadsWhatWasMeant
    BY DEF ReadsWhatWasMeant
  <2>1. DOMAIN tokens = 1 .. Len(tokens)
    BY TokensSafeTyped DEF TokensTyped
  <2> QED BY <2>1 DEF ReadsWhatWasMeant, ReadSoFar
<1> QED BY <1>1, <1>2, <1>3, PTL DEF Spec

(***************************************************************************)
(* The parser hands the shell only commands of which no stage but the last *)
(* has its output redirected, for lines of any length.                     *)
(***************************************************************************)
THEOREM RedirectsAreLast == Spec => []OnlyLastStageRedirects
<1>1. PlacesOK /\ CallsOK /\ ParserInv => OnlyLastStageRedirects
  BY DEF ParserInv, OnlyLastStageRedirects
<1> QED BY <1>1, ParserInvariance, PTL

(***************************************************************************)
(* What the parser checks as a precaution it has already reported: after a *)
(* pipe there is nothing but a "&&", after a next command nothing at all.  *)
(***************************************************************************)
THEOREM PrecautionsAreSpare == Spec => []PrecautionsFindNothing
<1>1. PlacesOK /\ CallsOK /\ ParserInv => PrecautionsFindNothing
  <2> SUFFICES ASSUME PlacesOK, CallsOK, ParserInv, InLoop, error_start_index = -1
               PROVE  ~Call.next_found /\ (Call.piped => Token = "&&")
    BY DEF PrecautionsFindNothing
  <2>1. ParserSafe
    BY DEF ParserSafe, ParserTypes
  <2> QED BY <2>1, LoopPlace DEF CallInv
<1> QED BY <1>1, ParserInvariance, PTL

------------------------------------------------------------------------------
(* The grammar: places of tokens. *)

Counted == Len(tokens) \in Nat

\* Those of a kind before a place are finitely many.
LEMMA OfFinite ==
  ASSUME Counted, NEW K, NEW S \in SUBSET Of(K)
  PROVE  IsFiniteSet(S) /\ Cardinality(S) \in Nat
<1>1. IsFiniteSet(1 .. Len(tokens))
  BY FS_Interval DEF Counted
<1>2. S \subseteq 1 .. Len(tokens)
  BY DEF Of, Positions
<1> QED BY <1>1, <1>2, FS_Subset, FS_CardinalityType

AndsBefore(i) == {j \in Of({"&&"}) : j < i}

LEMMA CommandType ==
  ASSUME Counted, NEW i
  PROVE  Command(i) \in Nat \ {0} /\ Command(i) = 1 + Cardinality(AndsBefore(i))
<1>1. AndsBefore(i) \in SUBSET Of({"&&"})
  BY DEF AndsBefore
<1>2. Cardinality(AndsBefore(i)) \in Nat
  BY <1>1, OfFinite
<1>3. Command(i) = 1 + Cardinality(AndsBefore(i))
  BY DEF Command, AndsBefore
<1> QED BY <1>2, <1>3

\* The command of a token is that of the one before it, unless that is a "&&".
LEMMA CommandNext ==
  ASSUME Counted, NEW i \in 1 .. Len(tokens)
  PROVE  Command(i + 1) = IF Kind(i) = "&&" THEN Command(i) + 1 ELSE Command(i)
<1>1. PICK A, B : A = AndsBefore(i) /\ B = AndsBefore(i + 1)
  OBVIOUS
<1>2. Command(i) = 1 + Cardinality(A) /\ Command(i + 1) = 1 + Cardinality(B)
  BY <1>1, CommandType
<1>3. A \in SUBSET Of({"&&"})
  BY <1>1 DEF AndsBefore
<1>4. IsFiniteSet(A) /\ Cardinality(A) \in Nat
  BY <1>3, OfFinite
<1>5. \A j \in 1 .. Len(tokens) : j < i + 1 <=> j < i \/ j = i
  BY DEF Counted
<1>6. CASE Kind(i) = "&&"
  <2>1. B = A \cup {i} /\ i \notin A
    BY <1>1, <1>5, <1>6 DEF AndsBefore, Of, Positions, Counted
  <2>2. Cardinality(B) = Cardinality(A) + 1
    BY <1>4, <2>1, FS_AddElement
  <2> QED BY <1>2, <1>4, <1>6, <2>2
<1>7. CASE Kind(i) # "&&"
  <2>1. B = A
    BY <1>1, <1>5, <1>7 DEF AndsBefore, Of, Positions
  <2> QED BY <1>2, <1>7, <2>1
<1> QED BY <1>6, <1>7

LEMMA CommandGrows ==
  ASSUME Counted, NEW i \in Int, NEW j \in Int, i <= j
  PROVE  Command(i) <= Command(j)
<1>1. PICK A, B : A = AndsBefore(i) /\ B = AndsBefore(j)
  OBVIOUS
<1>2. Command(i) = 1 + Cardinality(A) /\ Command(j) = 1 + Cardinality(B)
  BY <1>1, CommandType
<1>3. B \in SUBSET Of({"&&"}) /\ A \subseteq B
  BY <1>1 DEF AndsBefore, Of, Positions, Counted
<1>4. IsFiniteSet(B) /\ Cardinality(B) \in Nat /\ Cardinality(A) \in Nat /\ Cardinality(A) <= Cardinality(B)
  <2>1. IsFiniteSet(B) /\ Cardinality(B) \in Nat
    BY <1>3, OfFinite
  <2> QED BY <1>3, <2>1, FS_Subset, FS_CardinalityType
<1> QED BY <1>2, <1>4

\* The stages of a command up to a place.
PipesIn(c, n) == {j \in Of({"|"}) : j <= n /\ Command(j) = c}
StagesSoFar(c, n) == 1 + Cardinality(PipesIn(c, n))

LEMMA StagesType ==
  ASSUME Counted, NEW c, NEW n
  PROVE  IsFiniteSet(PipesIn(c, n)) /\ Cardinality(PipesIn(c, n)) \in Nat /\ StagesSoFar(c, n) \in Nat \ {0}
<1>1. PipesIn(c, n) \in SUBSET Of({"|"})
  BY DEF PipesIn
<1>2. IsFiniteSet(PipesIn(c, n)) /\ Cardinality(PipesIn(c, n)) \in Nat
  BY <1>1, OfFinite
<1> QED BY <1>2 DEF StagesSoFar

LEMMA StagesNext ==
  ASSUME Counted, NEW c, NEW n \in 0 .. Len(tokens) - 1
  PROVE  StagesSoFar(c, n + 1) =
           IF Kind(n + 1) = "|" /\ Command(n + 1) = c THEN StagesSoFar(c, n) + 1 ELSE StagesSoFar(c, n)
<1>1. PICK i, A, B : i = n + 1 /\ A = PipesIn(c, n) /\ B = PipesIn(c, i)
  OBVIOUS
<1>2. IsFiniteSet(A) /\ Cardinality(A) \in Nat
  BY <1>1, StagesType
<1>3. i \in 1 .. Len(tokens) /\ ~(i <= n) /\ \A j \in 1 .. Len(tokens) : j <= i <=> j <= n \/ j = i
  BY <1>1 DEF Counted
<1>4. CASE Kind(i) = "|" /\ Command(i) = c
  <2>1. B = A \cup {i} /\ i \notin A
    BY <1>1, <1>3, <1>4 DEF PipesIn, Of, Positions
  <2>2. Cardinality(B) = Cardinality(A) + 1
    BY <1>2, <2>1, FS_AddElement
  <2> QED BY <1>1, <1>2, <1>4, <2>2 DEF StagesSoFar
<1>5. CASE ~(Kind(i) = "|" /\ Command(i) = c)
  <2>1. B = A
    BY <1>1, <1>3, <1>5 DEF PipesIn, Of, Positions
  <2> QED BY <1>1, <1>5, <2>1 DEF StagesSoFar
<1> QED BY <1>4, <1>5

\* The stage of the next token.
LEMMA StageIs ==
  ASSUME Counted, NEW n \in 0 .. Len(tokens)
  PROVE  StageOf(n + 1) = StagesSoFar(Command(n + 1), n)
<1>1. \A j \in 1 .. Len(tokens) : j < n + 1 <=> j <= n
  BY DEF Counted
<1>2. PipesIn(Command(n + 1), n) = {j \in Of({"|"}) : j < n + 1 /\ Command(j) = Command(n + 1)}
  BY <1>1 DEF PipesIn, Of, Positions
<1> QED BY <1>2 DEF StagesSoFar, StageOf

LEMMA StagesNone ==
  ASSUME Counted, NEW n \in 0 .. Len(tokens), NEW c \in Int, Command(n) < c
  PROVE  StagesSoFar(c, n) = 1
<1>1. ASSUME NEW j \in PipesIn(c, n) PROVE FALSE
  <2>1. j \in Int /\ j <= n /\ Command(j) = c
    BY <1>1 DEF PipesIn, Of, Positions, Counted
  <2>2. Command(j) <= Command(n)
    BY <2>1, CommandGrows
  <2> QED BY <2>1, <2>2, CommandType
<1>2. PipesIn(c, n) = {}
  BY <1>1
<1> QED BY <1>2, FS_EmptySet DEF StagesSoFar

------------------------------------------------------------------------------
(* The grammar, token by token. *)

\* What WellFormed says of one token and those before it.
Fits(i) ==
  /\ Kind(i) \in Redirects \cup {"|", "&&"} => i < Len(tokens)
  /\ IsFile(i) => Kind(i) = "word"
  /\ StartsStage(i) => \/ Kind(i) \in {"word"} \cup Symbols
                       \/ Kind(i) = "&&" /\ i > 1 /\ Kind(i - 1) = "|"
  /\ \A j \in Of(Redirects) : j < i /\ Together(j, i) =>
       /\ Kind(i) \in Redirects =>
            ~(ToStdout(Kind(j)) /\ ToStdout(Kind(i))) /\ ~(ToStderr(Kind(j)) /\ ToStderr(Kind(i)))
       /\ Kind(i) = "|" => ~ToStdout(Kind(j))

FitSoFar(n) == \A i \in 1 .. n : Fits(i)

LEMMA WellFormedIs ==
  ASSUME Counted, Len(tokens) > 0
  PROVE  WellFormed <=> FitSoFar(Len(tokens))
<1>1. PICK L \in Nat : L = Len(tokens)
  BY DEF Counted
<1>2. Positions = 1 .. L /\ L \in Positions
  BY <1>1 DEF Positions
<1>3. ASSUME WellFormed, NEW i \in 1 .. L PROVE Fits(i)
  <2>1. Kind(i) \in Redirects \cup {"|", "&&"} => i < L
    BY <1>1, <1>3 DEF WellFormed
  <2>2. IsFile(i) => Kind(i) = "word"
    <3>1. ASSUME IsFile(i) PROVE Kind(i) = "word"
      <4>1. PICK j : j = i - 1
        OBVIOUS
      <4>2. j \in Of(Redirects) /\ j + 1 = i
        BY <1>2, <3>1, <4>1 DEF IsFile, Of
      <4>3. Kind(j + 1) = "word"
        BY <1>3, <4>2 DEF WellFormed
      <4> QED BY <4>2, <4>3
    <3> QED BY <3>1
  <2>3. StartsStage(i) => \/ Kind(i) \in {"word"} \cup Symbols
                          \/ Kind(i) = "&&" /\ i > 1 /\ Kind(i - 1) = "|"
    BY <1>2, <1>3 DEF WellFormed
  <2>4. ASSUME NEW j \in Of(Redirects), j < i, Together(j, i)
        PROVE  /\ Kind(i) \in Redirects =>
                    /\ ~(ToStdout(Kind(j)) /\ ToStdout(Kind(i)))
                    /\ ~(ToStderr(Kind(j)) /\ ToStderr(Kind(i)))
               /\ Kind(i) = "|" => ~ToStdout(Kind(j))
    <3>1. Kind(i) \in Redirects => i \in Of(Redirects)
      BY <1>2 DEF Of
    <3>2. Kind(i) = "|" => i \in Of({"|"})
      BY <1>2 DEF Of
    <3> QED BY <1>3, <2>4, <3>1, <3>2 DEF WellFormed
  <2> QED BY <1>1, <2>1, <2>2, <2>3, <2>4 DEF Fits
<1>4. ASSUME \A i \in 1 .. L : Fits(i) PROVE WellFormed
  <2>1. Kind(L) \notin Redirects \cup {"|", "&&"}
    BY <1>1, <1>2, <1>4 DEF Fits
  <2>2. ASSUME NEW i \in Of(Redirects) PROVE Kind(i + 1) = "word"
    <3>1. i \in 1 .. L /\ Kind(i) \in Redirects
      BY <1>2 DEF Of
    <3>2. i < L
      BY <1>1, <1>4, <3>1 DEF Fits
    <3>3. PICK k : k = i + 1
      OBVIOUS
    <3>4. k \in 1 .. L /\ k > 1 /\ k - 1 = i
      BY <3>1, <3>2, <3>3
    <3>5. IsFile(k)
      BY <3>1, <3>4 DEF IsFile
    <3> QED BY <1>4, <3>3, <3>4, <3>5 DEF Fits
  <2>3. \A i \in Positions : StartsStage(i) =>
          \/ Kind(i) \in {"word"} \cup Symbols
          \/ Kind(i) = "&&" /\ i > 1 /\ Kind(i - 1) = "|"
    BY <1>2, <1>4 DEF Fits
  <2>4. \A i, j \in Of(Redirects) : i < j /\ Together(i, j) =>
          ~(ToStdout(Kind(i)) /\ ToStdout(Kind(j))) /\ ~(ToStderr(Kind(i)) /\ ToStderr(Kind(j)))
    BY <1>2, <1>4 DEF Fits, Of
  <2>5. \A i \in Of(Redirects), j \in Of({"|"}) : i < j /\ Together(i, j) => ~ToStdout(Kind(i))
    BY <1>2, <1>4 DEF Fits, Of
  <2> QED BY <1>1, <2>1, <2>2, <2>3, <2>4, <2>5 DEF WellFormed
<1> QED BY <1>1, <1>3, <1>4 DEF FitSoFar

LEMMA FitNext ==
  ASSUME Counted, NEW n \in Nat, FitSoFar(n), Fits(n + 1)
  PROVE  FitSoFar(n + 1)
<1>1. \A i \in 1 .. n + 1 : i = n + 1 \/ i \in 1 .. n
  OBVIOUS
<1> QED BY <1>1 DEF FitSoFar

LEMMA FitsNot ==
  ASSUME Counted, NEW i \in 1 .. Len(tokens), ~Fits(i)
  PROVE  ~WellFormed
<1>1. Len(tokens) > 0
  BY DEF Counted
<1> QED BY <1>1, WellFormedIs DEF FitSoFar

------------------------------------------------------------------------------
(* What a stage says of the tokens up to a place. *)

UpTo(S, n) == {i \in S : i <= n}

ArgsOK(stage, c, s, n) ==
  /\ {stage.args[k] : k \in DOMAIN stage.args} = UpTo(ArgsOf(c, s), n)
  /\ \A k \in 1 .. Len(stage.args) - 1 : stage.args[k] < stage.args[k + 1]
StdoutOK(stage, c, s, n) == {stage.stdout} \ {0} = UpTo(FilesOf(c, s, ToStdout), n)
StderrOK(stage, c, s, n) == {stage.stderr} \ {0} = UpTo(FilesOf(c, s, ToStderr), n)

SaysSoFar(stage, c, s, n) ==
  ArgsOK(stage, c, s, n) /\ StdoutOK(stage, c, s, n) /\ StderrOK(stage, c, s, n)

LEMMA SaysAll ==
  ASSUME Counted, NEW stage, NEW c, NEW s, SaysSoFar(stage, c, s, Len(tokens))
  PROVE  Says(stage, c, s)
<1>1. PICK L \in Nat : L = Len(tokens)
  BY DEF Counted
<1>2. /\ UpTo(ArgsOf(c, s), L) = ArgsOf(c, s)
      /\ UpTo(FilesOf(c, s, ToStdout), L) = FilesOf(c, s, ToStdout)
      /\ UpTo(FilesOf(c, s, ToStderr), L) = FilesOf(c, s, ToStderr)
  BY <1>1 DEF UpTo, ArgsOf, FilesOf, Of, Positions
<1> QED BY <1>1, <1>2 DEF SaysSoFar, ArgsOK, StdoutOK, StderrOK, Says

At(i, c, s) == Command(i) = c /\ StageOf(i) = s

\* A set of places and the next place.
LEMMA UpToNext ==
  ASSUME Counted, NEW n \in 0 .. Len(tokens) - 1, NEW S \in SUBSET Positions
  PROVE  UpTo(S, n + 1) = IF n + 1 \in S THEN UpTo(S, n) \cup {n + 1} ELSE UpTo(S, n)
<1>1. \A i \in Positions : i <= n + 1 <=> i <= n \/ i = n + 1
  BY DEF Positions, Counted
<1> QED BY <1>1 DEF UpTo

LEMMA PlacesOf ==
  ASSUME NEW c, NEW s
  PROVE  /\ ArgsOf(c, s) \in SUBSET Positions
         /\ FilesOf(c, s, ToStdout) \in SUBSET Positions
         /\ FilesOf(c, s, ToStderr) \in SUBSET Positions
BY DEF ArgsOf, FilesOf, Of

\* A token that is no argument and no file of a stage changes nothing for it.
LEMMA KeepsSaying ==
  ASSUME Counted, NEW n \in 0 .. Len(tokens) - 1, NEW stage, NEW c, NEW s,
         SaysSoFar(stage, c, s, n),
         Kind(n + 1) \notin {"word"} \cup Symbols \/ ~At(n + 1, c, s)
  PROVE  SaysSoFar(stage, c, s, n + 1)
<1>1. PICK i : i = n + 1
  OBVIOUS
<1>2. i \notin ArgsOf(c, s) /\ i \notin FilesOf(c, s, ToStdout) /\ i \notin FilesOf(c, s, ToStderr)
  BY <1>1 DEF ArgsOf, FilesOf, Of, At
<1>3. /\ UpTo(ArgsOf(c, s), i) = UpTo(ArgsOf(c, s), n)
      /\ UpTo(FilesOf(c, s, ToStdout), i) = UpTo(FilesOf(c, s, ToStdout), n)
      /\ UpTo(FilesOf(c, s, ToStderr), i) = UpTo(FilesOf(c, s, ToStderr), n)
  BY <1>1, <1>2, UpToNext, PlacesOf
<1> QED BY <1>1, <1>3 DEF SaysSoFar, ArgsOK, StdoutOK, StderrOK

\* The next token is in the same stage, but for a "|" and a "&&".
LEMMA SamePlace ==
  ASSUME Counted, NEW i \in 1 .. Len(tokens), Kind(i) \notin {"|", "&&"}
  PROVE  Command(i + 1) = Command(i) /\ StageOf(i + 1) = StageOf(i)
<1>1. PICK n : n = i - 1
  OBVIOUS
<1>2. n \in 0 .. Len(tokens) - 1 /\ n \in 0 .. Len(tokens) /\ n + 1 = i
  BY <1>1 DEF Counted
<1>3. Command(i + 1) = Command(i)
  BY CommandNext
<1>4. StageOf(i) = StagesSoFar(Command(i), n)
  BY <1>2, StageIs
<1>5. StageOf(i + 1) = StagesSoFar(Command(i + 1), i)
  <2>1. i \in 0 .. Len(tokens)
    OBVIOUS
  <2> QED BY <2>1, StageIs
<1>6. PICK c : c = Command(i)
  OBVIOUS
<1>7. StagesSoFar(c, i) = StagesSoFar(c, n)
  <2>1. StagesSoFar(c, n + 1) = StagesSoFar(c, n)
    BY <1>2, StagesNext
  <2> QED BY <1>2, <2>1
<1> QED BY <1>3, <1>4, <1>5, <1>6, <1>7

\* The file of a redirection is the first one of its streams.
LEMMA FirstFile ==
  ASSUME Counted, NEW n \in 1 .. Len(tokens), Kind(n) \in Redirects, Fits(n),
         NEW c, NEW s, At(n + 1, c, s)
  PROVE  /\ ToStdout(Kind(n)) => UpTo(FilesOf(c, s, ToStdout), n) = {}
         /\ ToStderr(Kind(n)) => UpTo(FilesOf(c, s, ToStderr), n) = {}
<1>1. Kind(n) \notin {"|", "&&"}
  BY DEF Redirects
<1>2. At(n, c, s)
  BY <1>1, SamePlace DEF At
<1>3. ASSUME NEW p \in Positions, p <= n, At(p, c, s), IsFile(p)
      PROVE  /\ ~(ToStdout(Kind(p - 1)) /\ ToStdout(Kind(n)))
             /\ ~(ToStderr(Kind(p - 1)) /\ ToStderr(Kind(n)))
  <2>1. PICK q : q = p - 1
    OBVIOUS
  <2>2. q \in 1 .. Len(tokens) /\ q + 1 = p /\ q < n /\ Kind(q) \in Redirects
    BY <1>3, <2>1 DEF IsFile, Positions, Counted
  <2>3. At(q, c, s)
    <3>1. Kind(q) \notin {"|", "&&"}
      BY <2>2 DEF Redirects
    <3> QED BY <1>3, <2>2, <3>1, SamePlace DEF At
  <2>4. q \in Of(Redirects) /\ Together(q, n)
    BY <1>2, <2>2, <2>3 DEF Of, Positions, Together, At
  <2> QED BY <2>1, <2>2, <2>4 DEF Fits
<1>4. ASSUME ToStdout(Kind(n)), NEW p \in UpTo(FilesOf(c, s, ToStdout), n) PROVE FALSE
  <2>1. p \in Positions /\ p <= n /\ At(p, c, s) /\ IsFile(p) /\ ToStdout(Kind(p - 1))
    BY <1>4 DEF UpTo, FilesOf, Of, At
  <2> QED BY <1>3, <1>4, <2>1
<1>5. ASSUME ToStderr(Kind(n)), NEW p \in UpTo(FilesOf(c, s, ToStderr), n) PROVE FALSE
  <2>1. p \in Positions /\ p <= n /\ At(p, c, s) /\ IsFile(p) /\ ToStderr(Kind(p - 1))
    BY <1>5 DEF UpTo, FilesOf, Of, At
  <2> QED BY <1>3, <1>5, <2>1
<1> QED BY <1>4, <1>5

\* One argument more.
LEMMA SaysArgument ==
  ASSUME Counted, NEW n \in 0 .. Len(tokens) - 1, NEW stage \in StageType, NEW other \in StageType,
         NEW c, NEW s, SaysSoFar(stage, c, s, n), At(n + 1, c, s),
         Kind(n + 1) \in {"word"} \cup Symbols, ~IsFile(n + 1),
         other.args = Append(stage.args, n + 1),
         other.stdout = stage.stdout, other.stderr = stage.stderr
  PROVE  SaysSoFar(other, c, s, n + 1)
<1>1. PICK i : i = n + 1
  OBVIOUS
<1>2. i \in Positions /\ n \in Nat
  BY <1>1 DEF Positions, Counted
<1>3. i \in ArgsOf(c, s) /\ i \notin FilesOf(c, s, ToStdout) /\ i \notin FilesOf(c, s, ToStderr)
  BY <1>1, <1>2 DEF ArgsOf, FilesOf, Of, At
<1>4. /\ UpTo(ArgsOf(c, s), i) = UpTo(ArgsOf(c, s), n) \cup {i}
      /\ UpTo(FilesOf(c, s, ToStdout), i) = UpTo(FilesOf(c, s, ToStdout), n)
      /\ UpTo(FilesOf(c, s, ToStderr), i) = UpTo(FilesOf(c, s, ToStderr), n)
  BY <1>1, <1>3, UpToNext, PlacesOf
<1>5. StdoutOK(other, c, s, i) /\ StderrOK(other, c, s, i)
  BY <1>4 DEF SaysSoFar, StdoutOK, StderrOK
<1>6. PICK args, more : args = stage.args /\ more = other.args
  OBVIOUS
<1>7. args \in Seq(Nat) /\ more = Append(args, i) /\ i \in Nat
  BY <1>1, <1>2, <1>6 DEF StageType
<1>8. PICK L \in Nat : L = Len(args)
  BY <1>7
<1>9. /\ Len(more) = L + 1 /\ DOMAIN more = 1 .. L + 1 /\ DOMAIN args = 1 .. L /\ more[L + 1] = i
      /\ \A k \in 1 .. L : more[k] = args[k]
  BY <1>7, <1>8, AppendProperties
<1>10. {args[k] : k \in DOMAIN args} = UpTo(ArgsOf(c, s), n)
  BY <1>6 DEF SaysSoFar, ArgsOK
<1>11. {more[k] : k \in DOMAIN more} = {args[k] : k \in DOMAIN args} \cup {i}
  <2>1. \A k \in 1 .. L + 1 : k = L + 1 \/ k \in 1 .. L
    OBVIOUS
  <2>2. L + 1 \in 1 .. L + 1 /\ \A k \in 1 .. L : k \in 1 .. L + 1
    OBVIOUS
  <2> QED BY <1>9, <2>1, <2>2
<1>12. ASSUME NEW k \in 1 .. L PROVE more[k] < more[k + 1]
  <2>1. CASE k = L
    <3>1. args[k] \in UpTo(ArgsOf(c, s), n)
      BY <1>9, <1>10
    <3>2. args[k] <= n /\ args[k] \in Nat
      BY <1>7, <1>8, <3>1 DEF UpTo
    <3> QED BY <1>1, <1>2, <1>9, <2>1, <3>2
  <2>2. CASE k # L
    <3>1. k \in 1 .. L - 1 /\ k + 1 \in 1 .. L
      BY <2>2
    <3>2. args[k] < args[k + 1]
      BY <1>6, <1>8, <3>1 DEF SaysSoFar, ArgsOK
    <3> QED BY <1>9, <3>1, <3>2
  <2> QED BY <2>1, <2>2
<1>13. ArgsOK(other, c, s, i)
  <2>1. Len(more) - 1 = L
    BY <1>9
  <2> QED BY <1>4, <1>6, <1>10, <1>11, <1>12, <2>1 DEF ArgsOK
<1> QED BY <1>1, <1>5, <1>13 DEF SaysSoFar

\* One file more.
LEMMA SaysFile ==
  ASSUME Counted, NEW n \in 1 .. Len(tokens) - 1, NEW stage \in StageType, NEW other \in StageType,
         NEW c, NEW s, SaysSoFar(stage, c, s, n), At(n + 1, c, s),
         Kind(n + 1) = "word", Kind(n) \in Redirects, Fits(n),
         other.args = stage.args,
         other.stdout = IF ToStdout(Kind(n)) THEN n + 1 ELSE stage.stdout,
         other.stderr = IF ToStderr(Kind(n)) THEN n + 1 ELSE stage.stderr
  PROVE  SaysSoFar(other, c, s, n + 1)
<1>1. PICK i : i = n + 1
  OBVIOUS
<1>2. i \in Positions /\ i > 1 /\ i # 0 /\ i - 1 = n /\ IsFile(i)
  BY <1>1 DEF Positions, Counted, IsFile
<1>3. /\ i \notin ArgsOf(c, s)
      /\ i \in FilesOf(c, s, ToStdout) <=> ToStdout(Kind(n))
      /\ i \in FilesOf(c, s, ToStderr) <=> ToStderr(Kind(n))
  BY <1>1, <1>2 DEF ArgsOf, FilesOf, Of, At
<1>4. /\ UpTo(ArgsOf(c, s), i) = UpTo(ArgsOf(c, s), n)
      /\ UpTo(FilesOf(c, s, ToStdout), i) =
           IF ToStdout(Kind(n)) THEN UpTo(FilesOf(c, s, ToStdout), n) \cup {i}
           ELSE UpTo(FilesOf(c, s, ToStdout), n)
      /\ UpTo(FilesOf(c, s, ToStderr), i) =
           IF ToStderr(Kind(n)) THEN UpTo(FilesOf(c, s, ToStderr), n) \cup {i}
           ELSE UpTo(FilesOf(c, s, ToStderr), n)
  <2>1. n \in 0 .. Len(tokens) - 1
    OBVIOUS
  <2> QED BY <1>1, <1>3, <2>1, UpToNext, PlacesOf
<1>5. /\ ToStdout(Kind(n)) => UpTo(FilesOf(c, s, ToStdout), n) = {}
      /\ ToStderr(Kind(n)) => UpTo(FilesOf(c, s, ToStderr), n) = {}
  <2>1. n \in 1 .. Len(tokens)
    BY DEF Counted
  <2> QED BY <2>1, FirstFile
<1>6. ArgsOK(other, c, s, i)
  BY <1>4 DEF SaysSoFar, ArgsOK
<1>7. StdoutOK(other, c, s, i)
  BY <1>1, <1>2, <1>4, <1>5 DEF SaysSoFar, StdoutOK
<1>8. StderrOK(other, c, s, i)
  BY <1>1, <1>2, <1>4, <1>5 DEF SaysSoFar, StderrOK
<1> QED BY <1>1, <1>6, <1>7, <1>8 DEF SaysSoFar

------------------------------------------------------------------------------
(* What the calls have read. *)

\* The first m calls are for commands, the others for stages of the last one.
CallCommand(k, m) == IF k < m THEN k ELSE m
CallStage(k, m)   == IF k > m THEN k - m + 1 ELSE 1

CallSays(f, c, s, n) ==
  /\ SaysSoFar(f.stage, c, s, n)
  /\ \A i \in 1 .. Len(f.pipe) : SaysSoFar(f.pipe[i], c, s + i, n)

CommandSays(stages, c, n) ==
  /\ Len(stages) = StagesSoFar(c, n)
  /\ \A s \in 1 .. Len(stages) : SaysSoFar(stages[s], c, s, n)

\* A call that waits has read its stages, or waits for them.
Waiting(f, k, m, n) ==
  /\ ~f.expect_stdout /\ ~f.expect_stderr /\ f.next = <<>>
  /\ IF k < m THEN StagesSoFar(k, n) = 1 + Len(f.pipe) ELSE f.pipe = <<>>

Outer(fs, n, m) ==
  \A k \in 1 .. Len(fs) - 1 :
    CallSays(fs[k], CallCommand(k, m), CallStage(k, m), n) /\ Waiting(fs[k], k, m, n)

StdoutSoFar(c, s, n) == \E i \in Of(Redirects) : i <= n /\ At(i, c, s) /\ ToStdout(Kind(i))
StderrSoFar(c, s, n) == \E i \in Of(Redirects) : i <= n /\ At(i, c, s) /\ ToStderr(Kind(i))

\* The call at work: where it is,
AtPlace(f, c, s, n) ==
  /\ Command(n + 1) = c + Len(f.next)
  /\ StagesSoFar(c, n) = s + Len(f.pipe)
  /\ \A j \in 1 .. Len(f.next) : CommandSays(f.next[j], c + j, n)
  /\ f.broken /\ ~f.piping => n = Len(tokens)
  /\ ~f.broken \/ f.piping => f.next = <<>>

\* which redirections it has seen,
AtFiles(f, c, s, n) ==
  /\ f.broken => ~f.expect_stdout /\ ~f.expect_stderr
  /\ f.expect_stdout <=> n > 0 /\ Kind(n) \in Redirects /\ ToStdout(Kind(n))
  /\ f.expect_stderr <=> n > 0 /\ Kind(n) \in Redirects /\ ToStderr(Kind(n))
  /\ ~f.piped /\ ~f.broken =>
       (f.has_stdout <=> StdoutSoFar(c, s, n)) /\ (f.has_stderr <=> StderrSoFar(c, s, n))

\* and whether its stage has begun.
AtArgs(f, n) ==
  /\ f.piped => f.stage.args # <<>> /\ n > 0 /\ Kind(n) # "&&"
  /\ ~f.piped => (f.stage.args = <<>> <=> StartsStage(n + 1))
  /\ f.stage.args = <<>> => IF f.piping THEN n > 0 /\ Kind(n) = "|" ELSE n = 0 \/ Kind(n) = "&&"

AtWork(f, c, s, n) ==
  CallSays(f, c, s, n) /\ AtPlace(f, c, s, n) /\ AtFiles(f, c, s, n) /\ AtArgs(f, n)

Piping(fs, m) == \A k \in 1 .. Len(fs) : fs[k].piping <=> k > m

\* The calls fs have read the first n tokens.
Reads(fs, n, m) ==
  /\ n \in 0 .. Len(tokens) /\ FitSoFar(n)
  /\ Piping(fs, m) /\ Outer(fs, n, m)
  /\ AtWork(fs[Len(fs)], m, CallStage(Len(fs), m), n)

\* The calls that wait are not concerned by the next token.
LEMMA OuterNext ==
  ASSUME Counted, NEW n \in 0 .. Len(tokens) - 1, NEW fs \in Seq(FrameType), NEW m \in 1 .. Len(fs),
         Outer(fs, n, m), Command(n + 1) = m,
         \/ Kind(n + 1) \in {"|", "&&"}
         \/ Kind(n + 1) \notin {"|", "&&"} /\ StageOf(n + 1) = CallStage(Len(fs), m)
  PROVE  Outer(fs, n + 1, m)
<1>1. PICK D \in Nat : D = Len(fs)
  OBVIOUS
<1>2. ASSUME NEW k \in 1 .. D - 1
      PROVE  /\ CallSays(fs[k], CallCommand(k, m), CallStage(k, m), n + 1)
             /\ Waiting(fs[k], k, m, n + 1)
  <2>1. PICK f, c, s : f = fs[k] /\ c = CallCommand(k, m) /\ s = CallStage(k, m)
    OBVIOUS
  <2>2. CallSays(f, c, s, n) /\ Waiting(f, k, m, n)
    BY <1>1, <2>1 DEF Outer
  <2>3. f.pipe \in Seq(StageType) /\ Len(f.pipe) \in Nat
    <3>1. f \in FrameType
      BY <1>1, <2>1, ElementOfSeq
    <3> QED BY <3>1 DEF FrameType
  <2>4. \/ Kind(n + 1) \notin {"word"} \cup Symbols
        \/ IF k < m THEN c # m ELSE s # StageOf(n + 1)
    BY <1>1, <2>1 DEF CallCommand, CallStage, Symbols
  <2>5. k < m \/ k >= m
    BY <1>1
  <2>6. SaysSoFar(f.stage, c, s, n + 1)
    <3>1. Kind(n + 1) \notin {"word"} \cup Symbols \/ ~At(n + 1, c, s)
      BY <2>4, <2>5 DEF At
    <3> QED BY <2>2, <3>1, KeepsSaying DEF CallSays
  <2>7. ASSUME NEW i \in 1 .. Len(f.pipe) PROVE SaysSoFar(f.pipe[i], c, s + i, n + 1)
    <3>1. k < m
      BY <1>1, <2>2, <2>3, <2>5, <2>7 DEF Waiting
    <3>2. Kind(n + 1) \notin {"word"} \cup Symbols \/ ~At(n + 1, c, s + i)
      BY <2>4, <3>1 DEF At
    <3> QED BY <2>2, <2>7, <3>2, KeepsSaying DEF CallSays
  <2>8. Waiting(f, k, m, n + 1)
    <3>1. CASE k < m
      <4>1. ~(Kind(n + 1) = "|" /\ Command(n + 1) = k)
        BY <1>1, <3>1
      <4>2. StagesSoFar(k, n + 1) = StagesSoFar(k, n)
        BY <4>1, StagesNext
      <4> QED BY <2>2, <3>1, <4>2 DEF Waiting
    <3>2. CASE ~(k < m)
      BY <2>2, <3>2 DEF Waiting
    <3> QED BY <3>1, <3>2
  <2> QED BY <2>1, <2>6, <2>7, <2>8 DEF CallSays
<1> QED BY <1>1, <1>2 DEF Outer

\* No token of a stage has been read when it begins.
LEMMA StagesGrow ==
  ASSUME Counted, NEW c, NEW i \in Int, NEW j \in Int, i <= j
  PROVE  StagesSoFar(c, i) <= StagesSoFar(c, j)
<1>1. PICK A, B : A = PipesIn(c, i) /\ B = PipesIn(c, j)
  OBVIOUS
<1>2. IsFiniteSet(B) /\ Cardinality(B) \in Nat /\ Cardinality(A) \in Nat
  BY <1>1, StagesType
<1>3. A \subseteq B
  BY <1>1 DEF PipesIn, Of, Positions, Counted
<1>4. Cardinality(A) <= Cardinality(B)
  BY <1>2, <1>3, FS_Subset
<1> QED BY <1>1, <1>2, <1>4 DEF StagesSoFar

LEMMA NotYet ==
  ASSUME Counted, NEW n \in 0 .. Len(tokens), NEW c \in Nat, NEW s \in Nat,
         Command(n) < c \/ StagesSoFar(c, n - 1) < s
  PROVE  \A i \in 1 .. n : ~At(i, c, s)
<1> SUFFICES ASSUME NEW i \in 1 .. n, At(i, c, s) PROVE FALSE
  OBVIOUS
<1>1. Command(i) = c /\ StageOf(i) = s /\ i <= n /\ i \in Int /\ n \in Int
  BY DEF At
<1>2. Command(i) <= Command(n)
  BY <1>1, CommandGrows
<1>3. PICK j : j = i - 1
  OBVIOUS
<1>4. j \in 0 .. Len(tokens) /\ j + 1 = i /\ j <= n - 1 /\ j \in Int /\ n - 1 \in Int
  BY <1>3 DEF Counted
<1>5. StageOf(i) = StagesSoFar(c, j)
  BY <1>1, <1>4, StageIs
<1>6. StagesSoFar(c, j) <= StagesSoFar(c, n - 1)
  BY <1>4, StagesGrow
<1>7. Command(n) \in Nat /\ Command(i) \in Nat /\ StagesSoFar(c, n - 1) \in Nat /\ StagesSoFar(c, j) \in Nat
  BY CommandType, StagesType
<1> QED BY <1>1, <1>2, <1>5, <1>6, <1>7

------------------------------------------------------------------------------
(* A turn of the loop that finds no error. *)

\* The tokens that were read, without the "&&" that was given back.
Cursor(fs, i) ==
  IF fs[Len(fs)].piping /\ fs[Len(fs)].broken THEN i + 1
  ELSE IF i < Len(tokens) THEN i ELSE Len(tokens)

ReadsOn(fs, i) == \E m \in 1 .. Len(fs) : Reads(fs, Cursor(fs, i), m)

LEMMA RedirectStreams ==
  ASSUME NEW t \in Redirects
  PROVE  (ToStdout(t) \/ ToStderr(t)) /\ t \notin {"word", "|", "&&"} \cup Symbols
BY DEF Redirects, ToStdout, ToStderr, Symbols

\* Where the call at work is.
LEMMA Turn ==
  ASSUME ParserSafe, InLoop, error_start_index = -1, NEW n, n = token_index,
         NEW m \in 1 .. Depth, Reads(frames, n, m)
  PROVE  /\ Counted /\ n \in 0 .. Len(tokens) - 1 /\ n + 1 \in 1 .. Len(tokens)
         /\ Position = n + 1 /\ Token = Kind(n + 1) /\ Token \in TokenKinds
         /\ frames \in Seq(FrameType) /\ Depth \in Nat \ {0} /\ Depth = Len(frames)
         /\ Call = frames[Depth] /\ Call \in FrameType /\ ~Call.broken /\ CallInv(Call)
         /\ AtWork(Call, m, CallStage(Depth, m), n) /\ FitSoFar(n)
         /\ Command(n + 1) = m /\ Call.next = <<>>
         /\ Token # "&&" => /\ ~Call.piped /\ Call.pipe = <<>>
                            /\ StageOf(n + 1) = CallStage(Depth, m)
                            /\ StagesSoFar(m, n) = CallStage(Depth, m)
<1>1. /\ Len(tokens) \in Nat /\ token_index \in Nat /\ token_index < Len(tokens)
      /\ Depth \in Nat \ {0} /\ Call \in FrameType /\ ~Call.broken /\ CallInv(Call)
      /\ Call.piped => Token = "&&"
  BY LoopPlace
<1>2. Counted /\ n \in 0 .. Len(tokens) - 1 /\ n + 1 \in 1 .. Len(tokens)
  BY <1>1 DEF Counted
<1>3. Position = n + 1 /\ Token = Kind(n + 1)
  BY DEF Position, Token
<1>4. frames \in Seq(FrameType) /\ Token \in TokenKinds
  BY <1>2, <1>3, CallTypes DEF ParserSafe
<1>5. Depth = Len(frames) /\ Call = frames[Depth]
  BY DEF Depth, Call
<1>6. AtWork(Call, m, CallStage(Depth, m), n) /\ FitSoFar(n)
  BY <1>5 DEF Reads
<1>7. Call.next = <<>> /\ Len(Call.next) = 0
  BY <1>1, <1>6 DEF AtWork, AtPlace
<1>8. Command(n + 1) = m
  BY <1>6, <1>7 DEF AtWork, AtPlace
<1>9. ASSUME Token # "&&"
      PROVE  /\ ~Call.piped /\ Call.pipe = <<>>
             /\ StageOf(n + 1) = CallStage(Depth, m) /\ StagesSoFar(m, n) = CallStage(Depth, m)
  <2>1. ~Call.piped /\ Call.pipe = <<>> /\ Len(Call.pipe) = 0
    BY <1>1, <1>9 DEF CallInv
  <2>2. CallStage(Depth, m) \in Nat
    BY <1>1 DEF CallStage
  <2>3. StagesSoFar(m, n) = CallStage(Depth, m)
    BY <1>6, <2>1, <2>2 DEF AtWork, AtPlace
  <2>4. StageOf(n + 1) = StagesSoFar(m, n)
    <3>1. n \in 0 .. Len(tokens)
      BY <1>2
    <3> QED BY <1>2, <1>8, <3>1, StageIs
  <2> QED BY <2>1, <2>3, <2>4
<1> QED BY <1>1, <1>2, <1>3, <1>4, <1>5, <1>6, <1>7, <1>8, <1>9

\* The redirections before the next place.
LEMMA SoFarNext ==
  ASSUME Counted, NEW n \in 0 .. Len(tokens) - 1, NEW c, NEW s
  PROVE  /\ StdoutSoFar(c, s, n + 1) <=>
              \/ StdoutSoFar(c, s, n)
              \/ Kind(n + 1) \in Redirects /\ At(n + 1, c, s) /\ ToStdout(Kind(n + 1))
         /\ StderrSoFar(c, s, n + 1) <=>
              \/ StderrSoFar(c, s, n)
              \/ Kind(n + 1) \in Redirects /\ At(n + 1, c, s) /\ ToStderr(Kind(n + 1))
<1>1. PICK i : i = n + 1
  OBVIOUS
<1>2. i \in Positions /\ \A j \in Positions : j <= i <=> j <= n \/ j = i
  BY <1>1 DEF Positions, Counted
<1>3. \A j \in Of(Redirects) : j \in Positions
  BY DEF Of
<1>4. i \in Of(Redirects) <=> Kind(i) \in Redirects
  BY <1>2 DEF Of
<1>5. i <= i
  BY <1>2 DEF Positions, Counted
<1>6. StdoutSoFar(c, s, i) <=>
        StdoutSoFar(c, s, n) \/ (Kind(i) \in Redirects /\ At(i, c, s) /\ ToStdout(Kind(i)))
  BY <1>2, <1>3, <1>4, <1>5 DEF StdoutSoFar
<1>7. StderrSoFar(c, s, i) <=>
        StderrSoFar(c, s, n) \/ (Kind(i) \in Redirects /\ At(i, c, s) /\ ToStderr(Kind(i)))
  BY <1>2, <1>3, <1>4, <1>5 DEF StderrSoFar
<1> QED BY <1>1, <1>6, <1>7

\* A token of the same stage.
LEMMA PlaceStays ==
  ASSUME Counted, NEW n \in 0 .. Len(tokens) - 1, NEW m, NEW s, NEW f, NEW g,
         AtPlace(f, m, s, n), f.next = <<>>, g.next = <<>>, g.pipe = f.pipe, ~g.broken,
         Kind(n + 1) \notin {"|", "&&"}
  PROVE  AtPlace(g, m, s, n + 1)
<1>1. PICK i : i = n + 1
  OBVIOUS
<1>2. i \in 1 .. Len(tokens)
  BY <1>1 DEF Counted
<1>3. Command(i + 1) = Command(i)
  BY <1>1, <1>2, SamePlace
<1>4. StagesSoFar(m, i) = StagesSoFar(m, n)
  BY <1>1, StagesNext
<1> QED BY <1>1, <1>3, <1>4 DEF AtPlace

LEMMA NotStarting ==
  ASSUME Counted, NEW n \in 0 .. Len(tokens) - 1, Kind(n + 1) \notin {"|", "&&"}
  PROVE  ~StartsStage((n + 1) + 1)
<1>1. PICK i : i = n + 1
  OBVIOUS
<1>2. i + 1 # 1 /\ (i + 1) - 1 = i /\ Kind(i) \notin {"|", "&&"}
  BY <1>1 DEF Counted
<1>3. ~StartsStage(i + 1)
  BY <1>2 DEF StartsStage
<1> QED BY <1>1, <1>3

LEMMA ContinueReads ==
  ASSUME ParserSafe, InLoop, error_start_index = -1, NEW n, n = token_index,
         NEW m \in 1 .. Depth, Reads(frames, n, m), Token \notin {"|", "&&"}, Fits(n + 1),
         NEW f \in FrameType, Continue(f), f.piping = Call.piping, ~f.broken,
         AtWork(f, m, CallStage(Depth, m), n + 1)
  PROVE  ReadsOn(frames', token_index')
<1>1. PICK D, fs, gs, i : D = Depth /\ fs = frames /\ gs = frames' /\ i = n + 1
  OBVIOUS
<1>2. /\ Counted /\ n \in 0 .. Len(tokens) - 1 /\ Token = Kind(n + 1)
      /\ fs \in Seq(FrameType) /\ D \in Nat \ {0} /\ D = Len(fs) /\ Call = fs[D]
      /\ FitSoFar(n) /\ Command(n + 1) = m /\ StageOf(n + 1) = CallStage(D, m)
  BY <1>1, Turn
<1>3. gs = [fs EXCEPT ![D] = f] /\ token_index' = i
  BY <1>1 DEF Continue
<1>4. gs \in Seq(FrameType) /\ Len(gs) = D /\ gs[D] = f /\ \A k \in 1 .. D - 1 : gs[k] = fs[k]
  BY <1>2, <1>3, ExceptSeq
<1>5. Outer(fs, i, m)
  BY <1>1, <1>2, OuterNext DEF Reads
<1>6. Outer(gs, i, m)
  BY <1>2, <1>4, <1>5 DEF Outer
<1>7. Piping(gs, m)
  <2>1. Piping(fs, m)
    BY <1>1 DEF Reads
  <2>2. \A k \in 1 .. D : k = D \/ k \in 1 .. D - 1
    BY <1>2
  <2> QED BY <1>2, <1>4, <2>1, <2>2 DEF Piping
<1>8. FitSoFar(i) /\ i \in 0 .. Len(tokens)
  <2>1. n \in Nat /\ i \in 0 .. Len(tokens)
    BY <1>1, <1>2 DEF Counted
  <2> QED BY <1>1, <1>2, <2>1, FitNext
<1>9. Cursor(gs, i) = i
  <2>1. CASE i < Len(tokens)
    BY <1>4, <2>1 DEF Cursor
  <2>2. CASE ~(i < Len(tokens))
    <3>1. i = Len(tokens)
      BY <1>8, <2>2 DEF Counted
    <3> QED BY <1>4, <2>2, <3>1 DEF Cursor
  <2> QED BY <2>1, <2>2
<1>10. Reads(gs, i, m)
  BY <1>1, <1>4, <1>6, <1>7, <1>8 DEF Reads
<1>11. m \in 1 .. Len(gs)
  BY <1>1, <1>4
<1> QED BY <1>1, <1>3, <1>9, <1>10, <1>11 DEF ReadsOn

LEMMA InLoopReads ==
  ASSUME ParserSafe, InLoop, ReadsOn(frames, token_index)
  PROVE  \E m \in 1 .. Depth : Reads(frames, token_index, m)
<1>1. ~frames[Len(frames)].broken /\ token_index < Len(tokens)
  BY DEF InLoop, Call, Depth
<1>2. Cursor(frames, token_index) = token_index
  BY <1>1 DEF Cursor
<1> QED BY <1>2 DEF ReadsOn, Depth

\* While no file name is expected, the last token was no redirection.
LEMMA NoFileExpected ==
  ASSUME NEW f, NEW c, NEW s, NEW n \in Nat, AtFiles(f, c, s, n),
         ~f.expect_stdout, ~f.expect_stderr
  PROVE  (n > 0 => Kind(n) \notin Redirects) /\ ~IsFile(n + 1)
<1>1. n > 0 => Kind(n) \notin Redirects
  BY RedirectStreams DEF AtFiles
<1>2. PICK i : i = n + 1
  OBVIOUS
<1>3. i - 1 = n /\ (i > 1 => n > 0)
  BY <1>2
<1>4. ~IsFile(i)
  BY <1>1, <1>3 DEF IsFile
<1> QED BY <1>1, <1>2, <1>4

LEMMA ArgumentReads ==
  ASSUME ParserSafe, error_start_index = -1, ReadsOn(frames, token_index), Argument
  PROVE  ReadsOn(frames', token_index')
<1>1. InLoop /\ Token \in {"word"} \cup Symbols /\ ~Call.expect_stdout /\ ~Call.expect_stderr
  BY DEF Argument, ExpectsFileName
<1>2. PICK n : n = token_index
  OBVIOUS
<1>3. PICK m \in 1 .. Depth : Reads(frames, n, m)
  BY <1>1, <1>2, InLoopReads
<1>4. PICK s, i, f : /\ s = CallStage(Depth, m) /\ i = n + 1
                     /\ f = [Call EXCEPT !.stage.args = Append(@, Position)]
  OBVIOUS
<1>5. Token \notin Redirects \cup {"|", "&&"}
  BY <1>1 DEF Redirects, Symbols
<1>6. /\ Counted /\ n \in 0 .. Len(tokens) - 1 /\ i \in 1 .. Len(tokens)
      /\ Position = i /\ Token = Kind(i)
      /\ Call \in FrameType /\ ~Call.broken /\ AtWork(Call, m, s, n)
      /\ Command(i) = m /\ Call.next = <<>> /\ ~Call.piped /\ Call.pipe = <<>>
      /\ StageOf(i) = s
  BY <1>1, <1>2, <1>3, <1>4, <1>5, Turn
<1>7. n \in Nat /\ i \in Nat /\ i > 0
  BY <1>4, <1>6 DEF Counted
<1>8. ~IsFile(i)
  BY <1>1, <1>4, <1>6, <1>7, NoFileExpected DEF AtWork
<1>9. Fits(i)
  BY <1>1, <1>5, <1>6, <1>8 DEF Fits
<1>10. PICK args : args = Append(Call.stage.args, i)
  OBVIOUS
<1>11. args \in Seq(Nat) /\ args # <<>>
  <2>1. Call.stage.args \in Seq(Nat)
    BY <1>6 DEF FrameType, StageType
  <2> QED BY <1>7, <1>10, <2>1
<1>12. f = [Call EXCEPT !.stage.args = args]
  BY <1>4, <1>6, <1>10
<1>13. /\ f \in FrameType /\ f.stage.args = args /\ f.stage.stdout = Call.stage.stdout
       /\ f.stage.stderr = Call.stage.stderr /\ f.piping = Call.piping /\ ~f.broken
       /\ f.pipe = <<>> /\ f.next = <<>> /\ ~f.piped
       /\ f.has_stdout = Call.has_stdout /\ f.has_stderr = Call.has_stderr
       /\ f.expect_stdout = Call.expect_stdout /\ f.expect_stderr = Call.expect_stderr
  BY <1>6, <1>11, <1>12 DEF FrameType, StageType
<1>14. CallSays(f, m, s, i)
  <2>1. SaysSoFar(Call.stage, m, s, n)
    BY <1>6 DEF AtWork, CallSays
  <2>2. Call.stage \in StageType /\ f.stage \in StageType
    BY <1>6, <1>13 DEF FrameType
  <2>3. PICK stage, other : stage = Call.stage /\ other = f.stage
    OBVIOUS
  <2>4. SaysSoFar(other, m, s, n + 1)
    BY <1>1, <1>4, <1>6, <1>8, <1>10, <1>13, <2>1, <2>2, <2>3, SaysArgument DEF At
  <2> QED BY <1>4, <1>13, <2>3, <2>4 DEF CallSays
<1>15. AtPlace(f, m, s, i)
  BY <1>4, <1>5, <1>6, <1>13, PlaceStays DEF AtWork
<1>16. AtFiles(f, m, s, i)
  <2>1. /\ StdoutSoFar(m, s, i) <=> StdoutSoFar(m, s, n)
        /\ StderrSoFar(m, s, i) <=> StderrSoFar(m, s, n)
    BY <1>4, <1>5, <1>6, SoFarNext
  <2> QED BY <1>1, <1>5, <1>6, <1>13, <2>1 DEF AtWork, AtFiles
<1>17. AtArgs(f, i)
  BY <1>4, <1>5, <1>6, <1>11, <1>13, NotStarting DEF AtArgs
<1>18. Continue(f)
  BY <1>4 DEF Argument
<1> QED
  BY <1>1, <1>2, <1>3, <1>4, <1>5, <1>9, <1>13, <1>14, <1>15, <1>16, <1>17, <1>18, ContinueReads
  DEF AtWork

LEMMA FileNameReads ==
  ASSUME ParserSafe, error_start_index = -1, ReadsOn(frames, token_index), FileName
  PROVE  ReadsOn(frames', token_index')
<1>1. InLoop /\ Token = "word" /\ ExpectsFileName
  BY DEF FileName
<1>2. PICK n : n = token_index
  OBVIOUS
<1>3. PICK m \in 1 .. Depth : Reads(frames, n, m)
  BY <1>1, <1>2, InLoopReads
<1>4. PICK s, i, f : /\ s = CallStage(Depth, m) /\ i = n + 1
                     /\ f = [Call EXCEPT
                              !.stage.stdout = IF Call.expect_stdout THEN Position ELSE @,
                              !.stage.stderr = IF Call.expect_stderr THEN Position ELSE @,
                              !.expect_stdout = FALSE, !.expect_stderr = FALSE]
  OBVIOUS
<1>5. Token \notin Redirects \cup {"|", "&&"}
  BY <1>1 DEF Redirects
<1>6. /\ Counted /\ n \in 0 .. Len(tokens) - 1 /\ i \in 1 .. Len(tokens)
      /\ Position = i /\ Token = Kind(i) /\ FitSoFar(n)
      /\ Call \in FrameType /\ ~Call.broken /\ AtWork(Call, m, s, n)
      /\ Command(i) = m /\ Call.next = <<>> /\ ~Call.piped /\ Call.pipe = <<>>
      /\ StageOf(i) = s
  BY <1>1, <1>2, <1>3, <1>4, <1>5, Turn
<1>7. /\ n > 0 /\ Kind(n) \in Redirects
      /\ Call.expect_stdout <=> ToStdout(Kind(n))
      /\ Call.expect_stderr <=> ToStderr(Kind(n))
  BY <1>1, <1>6 DEF AtWork, AtFiles, ExpectsFileName
<1>8. n \in 1 .. Len(tokens) /\ n \in 1 .. Len(tokens) - 1 /\ i \in Nat /\ i # 0 /\ i # 1 /\ i - 1 = n
  BY <1>4, <1>6, <1>7 DEF Counted
<1>9. ~StartsStage(i)
  <2>1. Kind(n) \notin {"|", "&&"}
    BY <1>7, RedirectStreams
  <2> QED BY <1>8, <2>1 DEF StartsStage
<1>10. Call.stage.args # <<>>
  BY <1>4, <1>6, <1>9 DEF AtWork, AtArgs
<1>11. Fits(i)
  BY <1>1, <1>5, <1>6, <1>9 DEF Fits
<1>12. /\ f \in FrameType /\ f.stage.args = Call.stage.args
       /\ f.stage.stdout = IF Call.expect_stdout THEN i ELSE Call.stage.stdout
       /\ f.stage.stderr = IF Call.expect_stderr THEN i ELSE Call.stage.stderr
       /\ f.piping = Call.piping /\ ~f.broken
       /\ f.pipe = <<>> /\ f.next = <<>> /\ ~f.piped
       /\ f.has_stdout = Call.has_stdout /\ f.has_stderr = Call.has_stderr
       /\ ~f.expect_stdout /\ ~f.expect_stderr
  BY <1>4, <1>6, <1>8 DEF FrameType, StageType
<1>13. CallSays(f, m, s, i)
  <2>1. SaysSoFar(Call.stage, m, s, n)
    BY <1>6 DEF AtWork, CallSays
  <2>2. Call.stage \in StageType /\ f.stage \in StageType
    BY <1>6, <1>12 DEF FrameType
  <2>3. PICK stage, other : stage = Call.stage /\ other = f.stage
    OBVIOUS
  <2>4. Fits(n)
    BY <1>6, <1>7, <1>8 DEF FitSoFar, Counted
  <2>5. SaysSoFar(other, m, s, n + 1)
    BY <1>1, <1>4, <1>6, <1>7, <1>8, <1>12, <2>1, <2>2, <2>3, <2>4, SaysFile DEF At
  <2> QED BY <1>4, <1>12, <2>3, <2>5 DEF CallSays
<1>14. AtPlace(f, m, s, i)
  <2>1. AtPlace(Call, m, s, n) /\ i = n + 1
    BY <1>4, <1>6 DEF AtWork
  <2> QED BY <1>5, <1>6, <1>12, <2>1, PlaceStays
<1>15. AtFiles(f, m, s, i)
  <2>1. /\ StdoutSoFar(m, s, i) <=> StdoutSoFar(m, s, n)
        /\ StderrSoFar(m, s, i) <=> StderrSoFar(m, s, n)
    BY <1>4, <1>5, <1>6, SoFarNext
  <2> QED BY <1>1, <1>5, <1>6, <1>12, <2>1 DEF AtWork, AtFiles
<1>16. AtArgs(f, i)
  BY <1>4, <1>5, <1>6, <1>10, <1>12, NotStarting DEF AtArgs
<1>17. Continue(f)
  BY <1>4 DEF FileName
<1> QED
  BY <1>1, <1>2, <1>3, <1>4, <1>5, <1>11, <1>12, <1>13, <1>14, <1>15, <1>16, <1>17, ContinueReads
  DEF AtWork

\* A redirection that is reported is one that does not fit.
LEMMA RedirectFits ==
  ASSUME ParserSafe, error_start_index = -1, NEW n, n = token_index, NEW m \in 1 .. Depth,
         Reads(frames, n, m), Redirect
  PROVE  IF Repeated(Token) \/ ~HasArgs \/ ~HasMore THEN ~Fits(n + 1) ELSE Fits(n + 1)
<1>1. InLoop /\ Token \in Redirects /\ ~Call.expect_stdout /\ ~Call.expect_stderr
  BY DEF Redirect, ExpectsFileName
<1>2. PICK s, i : s = CallStage(Depth, m) /\ i = n + 1
  OBVIOUS
<1>3. Token \notin {"word", "|", "&&"} \cup Symbols
  BY <1>1, RedirectStreams
<1>4. /\ Counted /\ n \in 0 .. Len(tokens) - 1 /\ i \in 1 .. Len(tokens)
      /\ Position = i /\ Token = Kind(i)
      /\ Call \in FrameType /\ ~Call.broken /\ AtWork(Call, m, s, n)
      /\ Command(i) = m /\ ~Call.piped /\ StageOf(i) = s
  BY <1>1, <1>2, <1>3, Turn
<1>5. HasMore <=> i < Len(tokens)
  BY <1>4 DEF HasMore
<1>6. HasArgs <=> ~StartsStage(i)
  BY <1>2, <1>4 DEF HasArgs, AtWork, AtArgs
<1>7. n \in Nat /\ ~IsFile(i)
  BY <1>1, <1>2, <1>4, NoFileExpected DEF AtWork, Counted
<1>8. /\ Call.has_stdout <=> StdoutSoFar(m, s, n)
      /\ Call.has_stderr <=> StderrSoFar(m, s, n)
  BY <1>4 DEF AtWork, AtFiles
<1>9. \A j \in Of(Redirects) : j < i /\ Together(j, i) <=> j <= n /\ At(j, m, s)
  <2>1. \A j \in Of(Redirects) : j < i <=> j <= n
    BY <1>2, <1>4 DEF Of, Positions, Counted
  <2> QED BY <1>4, <2>1 DEF Together, At
<1>10. Repeated(Token) <=>
         \E j \in Of(Redirects) : j < i /\ Together(j, i) /\
            ((ToStdout(Kind(j)) /\ ToStdout(Kind(i))) \/ (ToStderr(Kind(j)) /\ ToStderr(Kind(i))))
  BY <1>4, <1>8, <1>9 DEF Repeated, StdoutSoFar, StderrSoFar
<1>11. Fits(i) <=>
         /\ i < Len(tokens) /\ ~StartsStage(i)
         /\ \A j \in Of(Redirects) : j < i /\ Together(j, i) =>
              ~(ToStdout(Kind(j)) /\ ToStdout(Kind(i))) /\ ~(ToStderr(Kind(j)) /\ ToStderr(Kind(i)))
  BY <1>1, <1>3, <1>4, <1>7 DEF Fits
<1> QED BY <1>2, <1>5, <1>6, <1>10, <1>11

\* A turn reports an error of the line, or reads on.
ReportsOrReads ==
  \/ Report /\ ~WellFormed
  \/ UNCHANGED <<error_start_index, phase>> /\ ReadsOn(frames', token_index')

LEMMA RedirectReads ==
  ASSUME ParserSafe, error_start_index = -1, ReadsOn(frames, token_index), Redirect
  PROVE  ReportsOrReads
<1>1. InLoop /\ Token \in Redirects /\ ~Call.expect_stdout /\ ~Call.expect_stderr
  BY DEF Redirect, ExpectsFileName
<1>2. PICK n : n = token_index
  OBVIOUS
<1>3. PICK m \in 1 .. Depth : Reads(frames, n, m)
  BY <1>1, <1>2, InLoopReads
<1>4. PICK s, i, t : s = CallStage(Depth, m) /\ i = n + 1 /\ t = Token
  OBVIOUS
<1>5. Token \notin {"word", "|", "&&"} \cup Symbols
  BY <1>1, RedirectStreams
<1>6. /\ Counted /\ n \in 0 .. Len(tokens) - 1 /\ i \in 1 .. Len(tokens)
      /\ Position = i /\ t = Kind(i)
      /\ Call \in FrameType /\ ~Call.broken /\ AtWork(Call, m, s, n)
      /\ Command(i) = m /\ Call.next = <<>> /\ ~Call.piped /\ Call.pipe = <<>>
      /\ StageOf(i) = s
  BY <1>1, <1>2, <1>3, <1>4, <1>5, Turn
<1>7. CASE Repeated(Token) \/ ~HasArgs \/ ~HasMore
  <2>1. ~Fits(i)
    BY <1>2, <1>3, <1>4, <1>7, RedirectFits
  <2>2. ~WellFormed
    BY <1>6, <2>1, FitsNot
  <2> QED BY <1>7, <2>2 DEF Redirect, ReportsOrReads
<1>8. CASE ~(Repeated(Token) \/ ~HasArgs \/ ~HasMore)
  <2>1. Fits(i)
    BY <1>2, <1>3, <1>4, <1>8, RedirectFits
  <2>2. PICK f : f = [Call EXCEPT
                       !.has_stdout = @ \/ ToStdout(t), !.expect_stdout = ToStdout(t),
                       !.has_stderr = @ \/ ToStderr(t), !.expect_stderr = ToStderr(t)]
    OBVIOUS
  <2>3. Continue(f)
    BY <1>4, <1>8, <2>2 DEF Redirect
  <2>4. ToStdout(t) \in BOOLEAN /\ ToStderr(t) \in BOOLEAN
    BY DEF ToStdout, ToStderr
  <2>5. /\ f \in FrameType /\ f.stage = Call.stage /\ f.piping = Call.piping /\ ~f.broken
        /\ f.pipe = <<>> /\ f.next = <<>> /\ ~f.piped
        /\ f.has_stdout <=> Call.has_stdout \/ ToStdout(t)
        /\ f.has_stderr <=> Call.has_stderr \/ ToStderr(t)
        /\ f.expect_stdout <=> ToStdout(t)
        /\ f.expect_stderr <=> ToStderr(t)
    <3>1. PICK frame \in FrameType : frame = Call
      BY <1>6
    <3>2. f = [frame EXCEPT
                !.has_stdout = frame.has_stdout \/ ToStdout(t), !.expect_stdout = ToStdout(t),
                !.has_stderr = frame.has_stderr \/ ToStderr(t), !.expect_stderr = ToStderr(t)]
      BY <2>2, <3>1
    <3>3. f \in FrameType
      <4>1. ASSUME NEW a \in BOOLEAN, NEW b \in BOOLEAN, NEW c \in BOOLEAN, NEW d \in BOOLEAN
            PROVE  [frame EXCEPT !.has_stdout = a, !.expect_stdout = b,
                                 !.has_stderr = c, !.expect_stderr = d] \in FrameType
        BY DEF FrameType
      <4>2. /\ (frame.has_stdout \/ ToStdout(t)) \in BOOLEAN
            /\ (frame.has_stderr \/ ToStderr(t)) \in BOOLEAN
        OBVIOUS
      <4> QED BY <2>4, <3>2, <4>1, <4>2
    <3>4. /\ f.stage = frame.stage /\ f.piping = frame.piping /\ f.broken = frame.broken
          /\ f.pipe = frame.pipe /\ f.next = frame.next /\ f.piped = frame.piped
          /\ f.has_stdout = (frame.has_stdout \/ ToStdout(t))
          /\ f.has_stderr = (frame.has_stderr \/ ToStderr(t))
          /\ f.expect_stdout = ToStdout(t) /\ f.expect_stderr = ToStderr(t)
      BY <3>2 DEF FrameType
    <3> QED BY <1>6, <3>1, <3>3, <3>4
  <2>6. CallSays(f, m, s, i)
    <3>1. SaysSoFar(Call.stage, m, s, n) /\ Kind(n + 1) \notin {"word"} \cup Symbols
      BY <1>4, <1>5, <1>6 DEF AtWork, CallSays
    <3>2. PICK stage : stage = Call.stage
      OBVIOUS
    <3>3. SaysSoFar(stage, m, s, n + 1)
      BY <1>6, <3>1, <3>2, KeepsSaying
    <3> QED BY <1>4, <2>5, <3>2, <3>3 DEF CallSays
  <2>7. AtPlace(f, m, s, i)
    <3>1. AtPlace(Call, m, s, n) /\ i = n + 1
      BY <1>4, <1>6 DEF AtWork
    <3> QED BY <1>4, <1>5, <1>6, <2>5, <3>1, PlaceStays
  <2>8. AtFiles(f, m, s, i)
    <3>1. /\ StdoutSoFar(m, s, i) <=> StdoutSoFar(m, s, n) \/ ToStdout(t)
          /\ StderrSoFar(m, s, i) <=> StderrSoFar(m, s, n) \/ ToStderr(t)
      BY <1>1, <1>4, <1>6, SoFarNext DEF At
    <3>2. /\ Call.has_stdout <=> StdoutSoFar(m, s, n)
          /\ Call.has_stderr <=> StderrSoFar(m, s, n)
      BY <1>6 DEF AtWork, AtFiles
    <3>3. i > 0
      BY <1>6 DEF Counted
    <3> QED BY <1>1, <1>4, <1>6, <2>5, <3>1, <3>2, <3>3 DEF AtFiles
  <2>9. AtArgs(f, i)
    <3>1. ~StartsStage(i + 1)
      BY <1>4, <1>5, <1>6, NotStarting
    <3> QED BY <1>8, <2>5, <3>1 DEF AtArgs, HasArgs
  <2>10. AtWork(f, m, s, i)
    BY <2>6, <2>7, <2>8, <2>9 DEF AtWork
  <2>11. ReadsOn(frames', token_index')
    BY <1>1, <1>2, <1>3, <1>4, <1>5, <2>1, <2>3, <2>5, <2>10, ContinueReads
  <2> QED BY <2>3, <2>11 DEF ReportsOrReads, Continue, tokenizerVars
<1> QED BY <1>7, <1>8

LEMMA NotAFileNameReports ==
  ASSUME ParserSafe, error_start_index = -1, ReadsOn(frames, token_index), NotAFileName
  PROVE  ReportsOrReads
<1>1. InLoop /\ Token # "word" /\ ExpectsFileName /\ Report
  BY DEF NotAFileName
<1>2. PICK n : n = token_index
  OBVIOUS
<1>3. PICK m \in 1 .. Depth : Reads(frames, n, m)
  BY <1>1, <1>2, InLoopReads
<1>4. PICK s, i : s = CallStage(Depth, m) /\ i = n + 1
  OBVIOUS
<1>5. /\ Counted /\ n \in 0 .. Len(tokens) - 1 /\ i \in 1 .. Len(tokens) /\ Token = Kind(i)
      /\ AtWork(Call, m, s, n)
  BY <1>1, <1>2, <1>3, <1>4, Turn
<1>6. n > 0 /\ Kind(n) \in Redirects
  BY <1>1, <1>5 DEF AtWork, AtFiles, ExpectsFileName
<1>7. IsFile(i)
  <2>1. i > 1 /\ i - 1 = n
    BY <1>4, <1>5, <1>6 DEF Counted
  <2> QED BY <1>6, <2>1 DEF IsFile
<1>8. ~Fits(i)
  BY <1>1, <1>5, <1>7 DEF Fits
<1> QED BY <1>1, <1>5, <1>8, FitsNot DEF ReportsOrReads

\* A call that has just been made.
LEMMA NewCallReads ==
  ASSUME Counted, NEW n \in 0 .. Len(tokens), NEW c \in Nat, NEW s \in Nat, NEW piping \in BOOLEAN,
         Command(n + 1) = c, StagesSoFar(c, n) = s, \A i \in 1 .. n : ~At(i, c, s),
         IF piping THEN n > 0 /\ Kind(n) = "|" ELSE n = 0 \/ Kind(n) = "&&",
         NEW f, f = NewFrame(piping)
  PROVE  f \in FrameType /\ f.piping = piping /\ ~f.broken /\ AtWork(f, c, s, n)
<1>1. /\ f \in FrameType /\ f.piping = piping /\ ~f.piped /\ ~f.broken
      /\ f.stage = EmptyStage /\ f.pipe = <<>> /\ f.next = <<>>
      /\ ~f.has_stdout /\ ~f.has_stderr /\ ~f.expect_stdout /\ ~f.expect_stderr
  BY DEF NewFrame, FrameType, EmptyStage, StageType
<1>2. EmptyStage.args = <<>> /\ EmptyStage.stdout = 0 /\ EmptyStage.stderr = 0
  BY DEF EmptyStage
<1>3. \A i \in Positions : i <= n => ~At(i, c, s)
  BY DEF Positions, Counted
<1>4. /\ UpTo(ArgsOf(c, s), n) = {}
      /\ UpTo(FilesOf(c, s, ToStdout), n) = {} /\ UpTo(FilesOf(c, s, ToStderr), n) = {}
  BY <1>3 DEF UpTo, ArgsOf, FilesOf, Of, At
<1>5. SaysSoFar(EmptyStage, c, s, n)
  <2>1. PICK args : args = EmptyStage.args
    OBVIOUS
  <2>2. args = <<>> /\ Len(args) = 0 /\ {args[k] : k \in DOMAIN args} = {}
    BY <1>2, <2>1
  <2>3. ArgsOK(EmptyStage, c, s, n)
    BY <1>4, <2>1, <2>2 DEF ArgsOK
  <2> QED BY <1>2, <1>4, <2>3 DEF SaysSoFar, StdoutOK, StderrOK
<1>6. Len(<<>>) = 0
  OBVIOUS
<1>7. CallSays(f, c, s, n) /\ AtPlace(f, c, s, n)
  BY <1>1, <1>5, <1>6 DEF CallSays, AtPlace
<1>8. ~StdoutSoFar(c, s, n) /\ ~StderrSoFar(c, s, n)
  BY <1>3 DEF StdoutSoFar, StderrSoFar, Of
<1>9. n > 0 => Kind(n) \in {"|", "&&"}
  OBVIOUS
<1>10. AtFiles(f, c, s, n)
  <2>1. n > 0 => Kind(n) \notin Redirects
    BY <1>9, RedirectStreams
  <2> QED BY <1>1, <1>8, <2>1 DEF AtFiles
<1>11. StartsStage(n + 1)
  <2>1. PICK i : i = n + 1
    OBVIOUS
  <2>2. i - 1 = n /\ (n = 0 => i = 1)
    BY <2>1
  <2>3. n = 0 \/ n > 0
    OBVIOUS
  <2>4. StartsStage(i)
    BY <1>9, <2>2, <2>3 DEF StartsStage
  <2> QED BY <2>1, <2>4
<1>12. AtArgs(f, n)
  BY <1>1, <1>2, <1>11 DEF AtArgs
<1> QED BY <1>1, <1>7, <1>10, <1>12 DEF AtWork

\* The call at work will wait for the stage or the command that follows.
LEMMA RecurseReads ==
  ASSUME ParserSafe, InLoop, error_start_index = -1, NEW n, n = token_index,
         NEW m \in 1 .. Depth, Reads(frames, n, m), NEW piping \in BOOLEAN, Recurse(piping),
         Fits(n + 1), Token = IF piping THEN "|" ELSE "&&", ~piping => ~Call.piping,
         ~Call.expect_stdout /\ ~Call.expect_stderr
  PROVE  ReadsOn(frames', token_index')
<1>1. PICK D, fs, gs, i, s, f : /\ D = Depth /\ fs = frames /\ gs = frames' /\ i = n + 1
                                /\ s = CallStage(D, m) /\ f = NewFrame(piping)
  OBVIOUS
<1>2. /\ Counted /\ n \in 0 .. Len(tokens) - 1 /\ i \in 1 .. Len(tokens) /\ Token = Kind(i)
      /\ fs \in Seq(FrameType) /\ D \in Nat \ {0} /\ D = Len(fs)
      /\ Call = fs[D] /\ fs[D] \in FrameType
      /\ FitSoFar(n) /\ Command(i) = m /\ fs[D].next = <<>> /\ AtWork(fs[D], m, s, n)
      /\ piping => fs[D].pipe = <<>> /\ StageOf(i) = s /\ StagesSoFar(m, n) = s
  BY <1>1, Turn
<1>3. gs = Append(fs, f) /\ token_index' = i
  BY <1>1 DEF Recurse
<1>4. PICK E \in Nat : E = D + 1
  BY <1>2
<1>5. /\ f \in FrameType /\ f.piping = piping
  BY <1>1 DEF NewFrame, FrameType, EmptyStage, StageType
<1>6. gs \in Seq(FrameType) /\ Len(gs) = E /\ gs[E] = f /\ \A k \in 1 .. D : gs[k] = fs[k]
  BY <1>2, <1>3, <1>4, <1>5, AppendProperties
<1>7. Kind(i) \in {"|", "&&"} /\ Kind(i) \notin {"word"} \cup Symbols
  BY <1>2 DEF Symbols
<1>8. Outer(fs, i, m)
  BY <1>1, <1>2, <1>7, OuterNext DEF Reads
<1>9. CallSays(fs[D], m, s, i)
  <2>1. PICK g : g = fs[D]
    OBVIOUS
  <2>2. CallSays(g, m, s, n)
    BY <1>2, <2>1 DEF AtWork
  <2>3. CallSays(g, m, s, n + 1)
    BY <1>1, <1>2, <1>7, <2>2, KeepsSaying DEF CallSays
  <2> QED BY <1>1, <2>1, <2>3
<1>10. FitSoFar(i) /\ i \in 0 .. Len(tokens) /\ n \in Nat /\ i \in Nat /\ i > 0
  <2>1. n \in Nat /\ i \in 0 .. Len(tokens) /\ i \in Nat /\ i > 0
    BY <1>1, <1>2 DEF Counted
  <2> QED BY <1>1, <1>2, <2>1, FitNext
<1>11. Command(i + 1) = IF piping THEN m ELSE m + 1
  BY <1>2, CommandNext
<1>12. /\ s \in Nat /\ m \in Nat /\ m <= D /\ D \in Nat /\ D >= 1
       /\ E \in Nat /\ E > m /\ E - 1 = D /\ Len(gs) - 1 = D /\ m \in 1 .. E /\ E \in 1 .. E
  BY <1>1, <1>2, <1>4, <1>6 DEF CallStage
<1>13. Piping(fs, m) /\ \A k \in 1 .. E : k = E \/ k \in 1 .. D
  BY <1>1, <1>2, <1>4 DEF Reads
<1>14. \A k \in 1 .. D : k = D \/ k \in 1 .. Len(fs) - 1
  BY <1>2
<1>15. Cursor(gs, i) = i
  <2>1. ~f.broken
    BY <1>1 DEF NewFrame
  <2>2. i < Len(tokens) \/ i = Len(tokens)
    BY <1>2 DEF Counted
  <2> QED BY <1>6, <2>1, <2>2 DEF Cursor
<1>16. CASE piping
  <2>1. PICK u \in Nat : u = s + 1
    BY <1>12
  <2>2. AtWork(f, m, u, i)
    <3>1. StagesSoFar(m, i) = u
      BY <1>1, <1>2, <1>16, <2>1, StagesNext
    <3>2. \A j \in 1 .. i : ~At(j, m, u)
      <4>1. i - 1 = n /\ s < u
        BY <1>1, <1>10, <1>12, <2>1
      <4>2. StagesSoFar(m, i - 1) < u
        BY <1>2, <1>16, <4>1
      <4> QED BY <1>2, <1>10, <1>12, <4>2, NotYet
    <3>3. IF piping THEN i > 0 /\ Kind(i) = "|" ELSE i = 0 \/ Kind(i) = "&&"
      BY <1>2, <1>10, <1>16
    <3>4. Command(i + 1) = m
      BY <1>11, <1>16
    <3> QED BY <1>1, <1>2, <1>10, <1>12, <3>1, <3>2, <3>3, <3>4, NewCallReads
  <2>3. Outer(gs, i, m)
    <3>1. CallSays(fs[D], CallCommand(D, m), CallStage(D, m), i)
      <4>1. CallCommand(D, m) = m /\ CallStage(D, m) = s
        BY <1>1, <1>12 DEF CallCommand
      <4> QED BY <1>9, <4>1
    <3>2. Waiting(fs[D], D, m, i)
      BY <1>2, <1>12, <1>16 DEF Waiting
    <3> QED BY <1>6, <1>8, <1>12, <1>14, <3>1, <3>2 DEF Outer
  <2>4. Piping(gs, m)
    <3>1. gs[E].piping <=> E > m
      BY <1>5, <1>6, <1>12, <1>16
    <3>2. \A k \in 1 .. D : gs[k].piping <=> k > m
      BY <1>2, <1>6, <1>13 DEF Piping
    <3> QED BY <1>6, <1>13, <3>1, <3>2 DEF Piping
  <2>5. CallStage(E, m) = u
    BY <1>1, <1>4, <1>12, <2>1 DEF CallStage
  <2>6. Reads(gs, i, m) /\ m \in 1 .. Len(gs)
    BY <1>6, <1>10, <1>12, <2>2, <2>3, <2>4, <2>5 DEF Reads
  <2> QED BY <1>1, <1>3, <1>15, <2>6 DEF ReadsOn
<1>17. CASE ~piping
  <2>1. m = D /\ s = 1
    <3>1. ~(D > m)
      BY <1>2, <1>13, <1>17 DEF Piping
    <3> QED BY <1>1, <1>2, <1>12, <3>1 DEF CallStage
  <2>2. AtWork(f, E, 1, i)
    <3>1. Command(i + 1) = E /\ Command(i) < E
      BY <1>2, <1>4, <1>11, <1>17, <2>1
    <3>2. StagesSoFar(E, i) = 1
      BY <1>2, <1>10, <3>1, StagesNone
    <3>3. \A j \in 1 .. i : ~At(j, E, 1)
      BY <1>2, <1>10, <3>1, NotYet
    <3> QED BY <1>1, <1>2, <1>10, <1>17, <3>1, <3>2, <3>3, NewCallReads
  <2>3. Outer(gs, i, E)
    <3>1. CallSays(fs[D], CallCommand(D, E), CallStage(D, E), i)
      BY <1>4, <1>9, <2>1 DEF CallCommand, CallStage
    <3>2. Waiting(fs[D], D, E, i)
      <4>1. StagesSoFar(D, n) = 1 + Len(fs[D].pipe)
        BY <1>2, <2>1 DEF AtWork, AtPlace
      <4>2. StagesSoFar(D, i) = StagesSoFar(D, n)
        BY <1>1, <1>2, <1>17, StagesNext
      <4> QED BY <1>2, <1>4, <4>1, <4>2 DEF Waiting
    <3>3. ASSUME NEW k \in 1 .. Len(fs) - 1
          PROVE  CallSays(fs[k], CallCommand(k, E), CallStage(k, E), i) /\ Waiting(fs[k], k, E, i)
      <4>1. k < D /\ k < E /\ k \in Nat
        BY <1>2, <1>4, <3>3
      <4>2. CallSays(fs[k], CallCommand(k, D), CallStage(k, D), i) /\ Waiting(fs[k], k, D, i)
        BY <1>8, <2>1 DEF Outer
      <4>3. CallCommand(k, E) = CallCommand(k, D) /\ CallStage(k, E) = CallStage(k, D)
        BY <1>2, <1>4, <4>1 DEF CallCommand, CallStage
      <4>4. Waiting(fs[k], k, E, i)
        BY <4>1, <4>2 DEF Waiting
      <4> QED BY <4>2, <4>3, <4>4
    <3> QED BY <1>6, <1>12, <1>14, <3>1, <3>2, <3>3 DEF Outer
  <2>4. Piping(gs, E)
    <3>1. gs[E].piping <=> E > E
      BY <1>5, <1>6, <1>12, <1>17
    <3>2. \A k \in 1 .. D : gs[k].piping <=> k > E
      BY <1>2, <1>4, <1>6, <1>12, <1>13, <2>1 DEF Piping
    <3> QED BY <1>6, <1>13, <3>1, <3>2 DEF Piping
  <2>5. CallStage(E, E) = 1
    BY <1>4 DEF CallStage
  <2>6. Reads(gs, i, E) /\ E \in 1 .. Len(gs)
    BY <1>6, <1>10, <1>12, <2>2, <2>3, <2>4, <2>5 DEF Reads
  <2> QED BY <1>1, <1>3, <1>15, <2>6 DEF ReadsOn
<1> QED BY <1>16, <1>17

LEMMA PipeReads ==
  ASSUME ParserSafe, error_start_index = -1, ReadsOn(frames, token_index), Pipe
  PROVE  ReportsOrReads
<1>1. InLoop /\ Token = "|" /\ ~Call.expect_stdout /\ ~Call.expect_stderr
  BY DEF Pipe, ExpectsFileName
<1>2. PICK n : n = token_index
  OBVIOUS
<1>3. PICK m \in 1 .. Depth : Reads(frames, n, m)
  BY <1>1, <1>2, InLoopReads
<1>4. PICK s, i : s = CallStage(Depth, m) /\ i = n + 1
  OBVIOUS
<1>5. /\ Counted /\ n \in 0 .. Len(tokens) - 1 /\ i \in 1 .. Len(tokens)
      /\ Position = i /\ Kind(i) = "|"
      /\ Call \in FrameType /\ ~Call.broken /\ AtWork(Call, m, s, n)
      /\ Command(i) = m /\ ~Call.piped /\ StageOf(i) = s
  BY <1>1, <1>2, <1>3, <1>4, Turn
<1>6. HasMore <=> i < Len(tokens)
  BY <1>5 DEF HasMore
<1>7. HasArgs <=> ~StartsStage(i)
  BY <1>4, <1>5 DEF HasArgs, AtWork, AtArgs
<1>8. n \in Nat /\ ~IsFile(i)
  BY <1>1, <1>4, <1>5, NoFileExpected DEF AtWork, Counted
<1>9. Call.has_stdout <=> StdoutSoFar(m, s, n)
  BY <1>5 DEF AtWork, AtFiles
<1>10. \A j \in Of(Redirects) : j < i /\ Together(j, i) <=> j <= n /\ At(j, m, s)
  <2>1. \A j \in Of(Redirects) : j < i <=> j <= n
    BY <1>4, <1>5 DEF Of, Positions, Counted
  <2> QED BY <1>5, <2>1 DEF Together, At
<1>11. PipeConflicts <=> \E j \in Of(Redirects) : j < i /\ Together(j, i) /\ ToStdout(Kind(j))
  BY <1>5, <1>9, <1>10 DEF PipeConflicts, StdoutSoFar
<1>12. Fits(i) <=> /\ i < Len(tokens) /\ ~StartsStage(i)
                   /\ \A j \in Of(Redirects) : j < i /\ Together(j, i) => ~ToStdout(Kind(j))
  <2>1. Kind(i) \notin Redirects \cup {"word"} \cup Symbols
    BY <1>5 DEF Redirects, Symbols
  <2> QED BY <1>5, <1>8, <2>1 DEF Fits
<1>13. CASE PipeConflicts \/ ~HasArgs \/ ~HasMore
  <2>1. ~Fits(i)
    BY <1>6, <1>7, <1>11, <1>12, <1>13
  <2>2. ~WellFormed
    BY <1>5, <2>1, FitsNot
  <2> QED BY <1>13, <2>2 DEF Pipe, ReportsOrReads
<1>14. CASE ~(PipeConflicts \/ ~HasArgs \/ ~HasMore)
  <2>1. Fits(n + 1) /\ Recurse(TRUE)
    BY <1>4, <1>6, <1>7, <1>11, <1>12, <1>14 DEF Pipe
  <2>2. ReadsOn(frames', token_index')
    BY <1>1, <1>2, <1>3, <2>1, RecurseReads
  <2> QED BY <2>1, <2>2 DEF ReportsOrReads, Recurse, tokenizerVars
<1> QED BY <1>13, <1>14

LEMMA AndReads ==
  ASSUME ParserSafe, error_start_index = -1, ReadsOn(frames, token_index), And
  PROVE  ReportsOrReads
<1>1. InLoop /\ Token = "&&" /\ ~Call.piping /\ ~Call.expect_stdout /\ ~Call.expect_stderr
  BY DEF And, ExpectsFileName
<1>2. PICK n : n = token_index
  OBVIOUS
<1>3. PICK m \in 1 .. Depth : Reads(frames, n, m)
  BY <1>1, <1>2, InLoopReads
<1>4. PICK s, i : s = CallStage(Depth, m) /\ i = n + 1
  OBVIOUS
<1>5. /\ Counted /\ n \in 0 .. Len(tokens) - 1 /\ i \in 1 .. Len(tokens)
      /\ Position = i /\ Kind(i) = "&&"
      /\ Call \in FrameType /\ ~Call.broken /\ CallInv(Call) /\ AtWork(Call, m, s, n)
  BY <1>1, <1>2, <1>3, <1>4, Turn
<1>6. HasMore <=> i < Len(tokens)
  BY <1>5 DEF HasMore
<1>7. ~Call.next_found
  BY <1>5 DEF CallInv
<1>8. n \in Nat /\ i - 1 = n /\ ~IsFile(i)
  BY <1>1, <1>4, <1>5, NoFileExpected DEF AtWork, Counted
<1>9. i = 1 <=> n = 0
  BY <1>4, <1>8
<1>10. Fits(i) <=> i < Len(tokens) /\ (StartsStage(i) => n > 0 /\ Kind(n) = "|")
  <2>1. Kind(i) \notin Redirects \cup {"word", "|"} \cup Symbols
    BY <1>5 DEF Redirects, Symbols
  <2>2. i > 1 <=> n > 0
    BY <1>4, <1>8
  <2> QED BY <1>5, <1>8, <2>1, <2>2 DEF Fits
<1>11. HasArgs <=> (StartsStage(i) => n > 0 /\ Kind(n) = "|")
  <2>1. StartsStage(i) <=> n = 0 \/ Kind(n) \in {"|", "&&"}
    BY <1>8, <1>9 DEF StartsStage
  <2>2. CASE Call.stage.args = <<>>
    <3>1. ~Call.piped /\ StartsStage(i)
      BY <1>4, <1>5, <2>2 DEF AtWork, AtArgs
    <3>2. n = 0 \/ Kind(n) = "&&"
      BY <1>1, <1>5, <2>2 DEF AtWork, AtArgs
    <3> QED BY <1>8, <2>2, <3>1, <3>2 DEF HasArgs
  <2>3. CASE Call.stage.args # <<>>
    <3>1. CASE Call.piped
      <4>1. n > 0 /\ Kind(n) # "&&"
        BY <1>5, <3>1 DEF AtWork, AtArgs
      <4> QED BY <1>8, <2>1, <2>3, <4>1 DEF HasArgs
    <3>2. CASE ~Call.piped
      <4>1. ~StartsStage(i)
        BY <1>4, <1>5, <2>3, <3>2 DEF AtWork, AtArgs
      <4> QED BY <2>3, <4>1 DEF HasArgs
    <3> QED BY <3>1, <3>2
  <2> QED BY <2>2, <2>3
<1>12. CASE Call.next_found \/ ~HasArgs \/ ~HasMore
  <2>1. ~Fits(i)
    BY <1>6, <1>7, <1>10, <1>11, <1>12
  <2>2. ~WellFormed
    BY <1>5, <2>1, FitsNot
  <2> QED BY <1>12, <2>2 DEF And, ReportsOrReads
<1>13. CASE ~(Call.next_found \/ ~HasArgs \/ ~HasMore)
  <2>1. Fits(n + 1) /\ Recurse(FALSE)
    BY <1>4, <1>6, <1>10, <1>11, <1>13 DEF And
  <2>2. ReadsOn(frames', token_index')
    BY <1>1, <1>2, <1>3, <2>1, RecurseReads
  <2> QED BY <2>1, <2>2 DEF ReportsOrReads, Recurse, tokenizerVars
<1> QED BY <1>12, <1>13

\* The "&&" that is given back was not read.
LEMMA AndInPipelineReads ==
  ASSUME ParserSafe, error_start_index = -1, ReadsOn(frames, token_index), AndInPipeline
  PROVE  ReadsOn(frames', token_index')
<1>1. InLoop /\ Token = "&&" /\ Call.piping /\ ~Call.expect_stdout /\ ~Call.expect_stderr
  BY DEF AndInPipeline, ExpectsFileName
<1>2. PICK n : n = token_index
  OBVIOUS
<1>3. PICK m \in 1 .. Depth : Reads(frames, n, m)
  BY <1>1, <1>2, InLoopReads
<1>4. PICK D, fs, gs, s, f : /\ D = Depth /\ fs = frames /\ gs = frames' /\ s = CallStage(D, m)
                             /\ f = [Call EXCEPT !.broken = TRUE]
  OBVIOUS
<1>5. /\ Counted /\ n \in 0 .. Len(tokens) - 1
      /\ fs \in Seq(FrameType) /\ D \in Nat \ {0} /\ D = Len(fs) /\ Call = fs[D]
      /\ Call \in FrameType /\ Call.next = <<>> /\ FitSoFar(n) /\ AtWork(Call, m, s, n)
  BY <1>1, <1>2, <1>3, <1>4, Turn
<1>6. gs = [fs EXCEPT ![D] = f] /\ token_index' = n - 1
  BY <1>2, <1>4 DEF AndInPipeline, GivenBack, Call
<1>7. /\ f \in FrameType /\ f.piping /\ f.broken /\ f.stage = Call.stage /\ f.pipe = Call.pipe
      /\ f.next = <<>> /\ f.piped = Call.piped /\ ~f.expect_stdout /\ ~f.expect_stderr
  BY <1>1, <1>4, <1>5 DEF FrameType
<1>8. gs \in Seq(FrameType) /\ Len(gs) = D /\ gs[D] = f /\ \A k \in 1 .. D - 1 : gs[k] = fs[k]
  BY <1>5, <1>6, <1>7, ExceptSeq
<1>9. Outer(gs, n, m)
  BY <1>3, <1>4, <1>5, <1>8 DEF Reads, Outer
<1>10. Piping(gs, m)
  <2>1. Piping(fs, m)
    BY <1>3, <1>4 DEF Reads
  <2>2. \A k \in 1 .. D : k = D \/ k \in 1 .. D - 1
    BY <1>5
  <2> QED BY <1>1, <1>5, <1>7, <1>8, <2>1, <2>2 DEF Piping
<1>11. AtWork(f, m, s, n)
  <2>1. CallSays(f, m, s, n)
    BY <1>5, <1>7 DEF AtWork, CallSays
  <2>2. AtPlace(f, m, s, n)
    BY <1>5, <1>7 DEF AtWork, AtPlace
  <2>3. AtFiles(f, m, s, n)
    BY <1>1, <1>5, <1>7 DEF AtWork, AtFiles
  <2>4. AtArgs(f, n)
    BY <1>1, <1>5, <1>7 DEF AtWork, AtArgs
  <2> QED BY <2>1, <2>2, <2>3, <2>4 DEF AtWork
<1>12. Cursor(gs, token_index') = n
  BY <1>5, <1>6, <1>7, <1>8 DEF Cursor
<1>13. n \in 0 .. Len(tokens) /\ m \in 1 .. Len(gs)
  BY <1>4, <1>5, <1>8
<1>14. Reads(gs, n, m)
  BY <1>4, <1>5, <1>8, <1>9, <1>10, <1>11, <1>13 DEF Reads
<1> QED BY <1>4, <1>12, <1>13, <1>14 DEF ReadsOn

------------------------------------------------------------------------------
(* The returns. *)

\* The node of a call says what the call has read.
LEMMA StagesSay ==
  ASSUME NEW f \in FrameType, NEW c, NEW s \in Nat, NEW n, CallSays(f, c, s, n)
  PROVE  /\ StagesFrom(f) \in Seq(StageType) /\ Len(StagesFrom(f)) = 1 + Len(f.pipe)
         /\ \A i \in 1 .. Len(StagesFrom(f)) : SaysSoFar(StagesFrom(f)[i], c, (s + i) - 1, n)
<1>1. PICK pipe, stages : pipe = f.pipe /\ stages = StagesFrom(f)
  OBVIOUS
<1>2. pipe \in Seq(StageType) /\ f.stage \in StageType
  BY <1>1 DEF FrameType
<1>3. PICK l \in Nat : l = Len(pipe)
  BY <1>2
<1>4. /\ stages \in Seq(StageType) /\ Len(stages) = 1 + l /\ stages[1] = f.stage
      /\ \A i \in 2 .. l + 1 : stages[i] = pipe[i - 1]
  BY <1>1, <1>2, <1>3 DEF StagesFrom
<1>5. SaysSoFar(f.stage, c, s, n) /\ \A i \in 1 .. l : SaysSoFar(pipe[i], c, s + i, n)
  BY <1>1, <1>3 DEF CallSays
<1>6. ASSUME NEW i \in 1 .. Len(stages) PROVE SaysSoFar(stages[i], c, (s + i) - 1, n)
  <2>1. CASE i = 1
    <3>1. (s + i) - 1 = s
      BY <2>1
    <3> QED BY <1>4, <1>5, <2>1, <3>1
  <2>2. CASE i # 1
    <3>1. i \in 2 .. l + 1 /\ i - 1 \in 1 .. l /\ (s + i) - 1 = s + (i - 1)
      BY <1>3, <1>4, <2>2
    <3> QED BY <1>4, <1>5, <3>1
  <2> QED BY <2>1, <2>2
<1> QED BY <1>1, <1>3, <1>4, <1>6

LEMMA CommandsSay ==
  ASSUME NEW f \in FrameType, NEW m \in Nat, NEW n, CallSays(f, m, 1, n),
         StagesSoFar(m, n) = 1 + Len(f.pipe),
         \A j \in 1 .. Len(f.next) : CommandSays(f.next[j], m + j, n)
  PROVE  /\ Len(CommandsFrom(f)) = 1 + Len(f.next)
         /\ \A j \in 1 .. Len(CommandsFrom(f)) : CommandSays(CommandsFrom(f)[j], (m + j) - 1, n)
<1>1. PICK next, node, stages : next = f.next /\ node = CommandsFrom(f) /\ stages = StagesFrom(f)
  OBVIOUS
<1>2. /\ next \in Seq(Seq(StageType))
      /\ stages \in Seq(StageType) /\ Len(stages) = 1 + Len(f.pipe)
      /\ \A i \in 1 .. Len(stages) : SaysSoFar(stages[i], m, (1 + i) - 1, n)
  BY <1>1, StagesSay DEF FrameType
<1>3. PICK l \in Nat : l = Len(next)
  BY <1>2
<1>4. /\ Len(node) = 1 + l /\ node[1] = stages
      /\ \A j \in 2 .. l + 1 : node[j] = next[j - 1]
  BY <1>1, <1>2, <1>3 DEF CommandsFrom
<1>5. CommandSays(stages, m, n)
  <2>1. \A i \in 1 .. Len(stages) : (1 + i) - 1 = i
    OBVIOUS
  <2> QED BY <1>2, <2>1 DEF CommandSays
<1>6. ASSUME NEW j \in 1 .. Len(node) PROVE CommandSays(node[j], (m + j) - 1, n)
  <2>1. CASE j = 1
    <3>1. (m + j) - 1 = m
      BY <2>1
    <3> QED BY <1>4, <1>5, <2>1, <3>1
  <2>2. CASE j # 1
    <3>1. j \in 2 .. l + 1 /\ j - 1 \in 1 .. l /\ (m + j) - 1 = m + (j - 1)
      BY <1>3, <1>4, <2>2
    <3>2. CommandSays(next[j - 1], m + (j - 1), n)
      BY <1>1, <1>3, <3>1
    <3> QED BY <1>4, <3>1, <3>2
  <2> QED BY <2>1, <2>2
<1> QED BY <1>1, <1>3, <1>4, <1>6

\* A call returns at a "&&" that was given back, or at the end, and expects nothing.
LEMMA ReturnsAt ==
  ASSUME ParserSafe, error_start_index = -1, ReadsOn(frames, token_index), Returns,
         phase' \in {"parsing", "parsed"}
  PROVE  \E m \in 1 .. Depth, n \in 0 .. Len(tokens) :
           /\ n = Cursor(frames, token_index) /\ Reads(frames, n, m)
           /\ AtWork(Call, m, CallStage(Depth, m), n)
           /\ ~ExpectsFileName /\ (n > 0 => Kind(n) \notin Redirects)
           /\ IF Call.piping /\ Call.broken THEN n = token_index + 1 /\ n < Len(tokens)
              ELSE n = Len(tokens) /\ token_index >= Len(tokens)
<1>1. /\ Depth \in Nat /\ Depth > 0 /\ CallPlace /\ Call = frames[Len(frames)]
      /\ Len(tokens) \in Nat /\ token_index \in Nat
      /\ token_index >= Len(tokens) \/ Call.broken
  BY Returned DEF Call, Depth
<1>2. PICK n : n = Cursor(frames, token_index)
  OBVIOUS
<1>3. PICK m \in 1 .. Depth : Reads(frames, n, m)
  BY <1>2 DEF ReadsOn, Depth
<1>4. AtWork(Call, m, CallStage(Depth, m), n) /\ n \in 0 .. Len(tokens) /\ FitSoFar(n)
  BY <1>1, <1>3 DEF Reads, Depth
<1>5. IF Call.piping /\ Call.broken THEN n = token_index + 1 /\ n < Len(tokens)
      ELSE n = Len(tokens) /\ token_index >= Len(tokens)
  <2>1. CASE Call.piping /\ Call.broken
    <3>1. n = token_index + 1
      BY <1>1, <1>2, <2>1 DEF Cursor
    <3> QED BY <1>1, <2>1, <3>1 DEF CallPlace, AtAnd
  <2>2. CASE ~Call.piping /\ Call.broken
    <3>1. n = Len(tokens)
      BY <1>4, <2>2 DEF AtWork, AtPlace
    <3>2. token_index >= Len(tokens)
      BY <1>1, <1>2, <2>2, <3>1 DEF Cursor
    <3> QED BY <2>2, <3>1, <3>2
  <2>3. CASE ~Call.broken
    <3>1. n = Len(tokens)
      BY <1>1, <1>2, <2>3 DEF Cursor
    <3> QED BY <1>1, <2>3, <3>1
  <2> QED BY <2>1, <2>2, <2>3
<1>6. ~Call.expect_stdout /\ ~Call.expect_stderr
  <2>1. CASE Call.broken
    BY <1>4, <2>1 DEF AtWork, AtFiles
  <2>2. CASE ~Call.broken
    <3>1. n = Len(tokens)
      BY <1>5, <2>2
    <3>2. n > 0 => Fits(n)
      BY <1>4 DEF FitSoFar
    <3>3. n > 0 => Kind(n) \notin Redirects
      BY <1>1, <3>1, <3>2 DEF Fits
    <3> QED BY <1>4, <3>3 DEF AtWork, AtFiles
  <2> QED BY <2>1, <2>2
<1>7. n > 0 => Kind(n) \notin Redirects
  BY <1>4, <1>6, NoFileExpected DEF AtWork
<1> QED BY <1>2, <1>3, <1>4, <1>5, <1>6, <1>7 DEF ExpectsFileName

\* The stack without its last call.
LEMMA StackReturns ==
  ASSUME NEW fs \in Seq(FrameType), NEW E \in Nat, E >= 1, E < Len(fs), NEW f \in FrameType,
         NEW gs, gs = [SubSeq(fs, 1, E) EXCEPT ![E] = f]
  PROVE  /\ gs \in Seq(FrameType) /\ Len(gs) = E /\ gs[E] = f
         /\ \A k \in 1 .. E - 1 : gs[k] = fs[k]
<1>1. PICK rest : rest = SubSeq(fs, 1, E)
  OBVIOUS
<1>2. rest \in Seq(FrameType) /\ Len(rest) = E /\ \A k \in 1 .. E : rest[k] = fs[k]
  BY <1>1
<1>3. E \in 1 .. Len(rest) /\ gs = [rest EXCEPT ![E] = f]
  BY <1>1, <1>2
<1>4. /\ gs \in Seq(FrameType) /\ Len(gs) = E
      /\ \A k \in 1 .. E : gs[k] = IF k = E THEN f ELSE rest[k]
  BY <1>2, <1>3, ExceptSeq
<1> QED BY <1>2, <1>4

\* The stages of a pipeline go to the call that waits for them.
LEMMA ReturnPipeReads ==
  ASSUME ParserSafe, error_start_index = -1, ReadsOn(frames, token_index), ReturnPipe
  PROVE  error_start_index' = -1 /\ ReadsOn(frames', token_index')
<1>1. /\ Returns /\ Depth > 1 /\ Call.piping /\ phase' = phase
      /\ token_index' = token_index + 1
  BY DEF ReturnPipe, ToCaller
<1>2. phase = "parsing"
  BY <1>1, CallTypes DEF ParserSafe, ParserInv
<1>3. PICK m \in 1 .. Depth, n \in 0 .. Len(tokens) :
        /\ n = Cursor(frames, token_index) /\ Reads(frames, n, m)
        /\ AtWork(Call, m, CallStage(Depth, m), n)
        /\ ~ExpectsFileName /\ (n > 0 => Kind(n) \notin Redirects)
        /\ IF Call.piping /\ Call.broken THEN n = token_index + 1 /\ n < Len(tokens)
           ELSE n = Len(tokens) /\ token_index >= Len(tokens)
  BY <1>1, <1>2, ReturnsAt
<1>4. PICK D, E, fs, gs, outer, call, s, f :
        /\ D = Depth /\ E = D - 1 /\ fs = frames /\ gs = frames' /\ outer = Caller /\ call = Call
        /\ s = CallStage(E, m) /\ f = [Caller EXCEPT !.pipe = StagesFrom(Call), !.piped = TRUE]
  OBVIOUS
<1>5. /\ Counted /\ Len(tokens) \in Nat /\ token_index \in Nat
      /\ fs \in Seq(FrameType) /\ D \in Nat /\ D = Len(fs) /\ D > 1 /\ E \in Nat /\ E >= 1
      /\ call = fs[D] /\ outer = fs[E] /\ call \in FrameType /\ outer \in FrameType
      /\ ~outer.broken /\ outer.stage.args # <<>>
  BY <1>1, <1>4, CallTypes, CallerWaits DEF Counted, ParserSafe, Depth, Call, Caller, Waits
<1>6. m \in Nat /\ D > m /\ m <= E
  <2>1. call.piping <=> D > m
    BY <1>3, <1>4, <1>5 DEF Reads, Piping
  <2> QED BY <1>1, <1>4, <1>5, <2>1
<1>7. s \in Nat /\ CallStage(D, m) = s + 1 /\ CallCommand(E, m) = m
  BY <1>4, <1>5, <1>6 DEF CallStage, CallCommand
<1>8. CallSays(outer, m, s, n) /\ Waiting(outer, E, m, n)
  BY <1>3, <1>4, <1>5, <1>7 DEF Reads, Outer
<1>9. AtWork(call, m, s + 1, n) /\ call.piping /\ call.next = <<>>
  BY <1>1, <1>3, <1>4, <1>7 DEF AtWork, AtPlace
<1>10. PICK stages : stages = StagesFrom(call)
  OBVIOUS
<1>11. /\ stages \in Seq(StageType) /\ Len(stages) = 1 + Len(call.pipe)
       /\ \A i \in 1 .. Len(stages) : SaysSoFar(stages[i], m, ((s + 1) + i) - 1, n)
  <2>1. s + 1 \in Nat /\ CallSays(call, m, s + 1, n)
    BY <1>7, <1>9 DEF AtWork
  <2> QED BY <1>5, <1>10, <2>1, StagesSay
<1>12. /\ f \in FrameType /\ f.piping = outer.piping /\ f.stage = outer.stage /\ f.pipe = stages
       /\ f.piped /\ ~f.broken /\ f.next = <<>> /\ ~f.expect_stdout /\ ~f.expect_stderr
  <2>1. f = [outer EXCEPT !.pipe = stages, !.piped = TRUE]
    BY <1>4, <1>10
  <2> QED BY <1>5, <1>8, <1>11, <2>1 DEF FrameType, Waiting
<1>13. gs \in Seq(FrameType) /\ Len(gs) = E /\ gs[E] = f /\ \A k \in 1 .. E - 1 : gs[k] = fs[k]
  <2>1. gs = [SubSeq(fs, 1, E) EXCEPT ![E] = f]
    BY <1>4 DEF ReturnPipe, ToCaller
  <2>2. fs \in Seq(FrameType) /\ E \in Nat /\ E >= 1 /\ E < Len(fs)
    BY <1>4, <1>5
  <2>3. f \in FrameType
    BY <1>12
  <2> QED BY <2>1, <2>2, <2>3, StackReturns
<1>14. Outer(gs, n, m)
  <2>1. Outer(fs, n, m)
    BY <1>3, <1>4 DEF Reads
  <2>2. \A i, j \in Nat : j = i - 1 => \A k \in 1 .. j - 1 : k \in 1 .. i - 1
    OBVIOUS
  <2>3. Len(gs) = E /\ \A k \in 1 .. E - 1 : k \in 1 .. Len(fs) - 1
    BY <1>4, <1>5, <1>13, <2>2
  <2> QED BY <1>13, <2>1, <2>3 DEF Outer
<1>15. Piping(gs, m)
  <2>1. \A k \in 1 .. E : k = E \/ k \in 1 .. E - 1
    BY <1>5
  <2>2. \A k \in 1 .. E : fs[k].piping <=> k > m
    BY <1>3, <1>4, <1>5 DEF Reads, Piping
  <2> QED BY <1>5, <1>12, <1>13, <2>1, <2>2 DEF Piping
<1>16. CallSays(f, m, s, n)
  <2>1. \A i \in 1 .. Len(stages) : ((s + 1) + i) - 1 = s + i
    BY <1>7
  <2> QED BY <1>8, <1>11, <1>12, <2>1 DEF CallSays
<1>17. AtPlace(f, m, s, n)
  <2>1. PICK l \in Nat : l = Len(call.pipe)
    BY <1>5 DEF FrameType
  <2>2. Command(n + 1) = m + Len(call.next) /\ StagesSoFar(m, n) = (s + 1) + l
    BY <1>9, <2>1 DEF AtWork, AtPlace
  <2>3. (s + 1) + l = s + (1 + l)
    <3>1. \A i, j \in Nat : (i + 1) + j = i + (1 + j)
      OBVIOUS
    <3> QED BY <1>7, <2>1, <3>1
  <2> QED BY <1>9, <1>11, <1>12, <2>1, <2>2, <2>3 DEF AtPlace
<1>18. AtFiles(f, m, s, n)
  BY <1>3, <1>12 DEF AtFiles
<1>19. AtArgs(f, n)
  <2>1. n > 0 /\ Kind(n) # "&&"
    <3>1. CASE call.piped \/ call.stage.args = <<>>
      BY <1>9, <3>1 DEF AtWork, AtArgs
    <3>2. CASE ~call.piped /\ call.stage.args # <<>>
      <4>1. ~StartsStage(n + 1)
        BY <1>9, <3>2 DEF AtWork, AtArgs
      <4>2. n > 0 \/ n + 1 = 1
        OBVIOUS
      <4>3. (n + 1) - 1 = n
        OBVIOUS
      <4> QED BY <4>1, <4>2, <4>3 DEF StartsStage
    <3> QED BY <3>1, <3>2
  <2> QED BY <1>5, <1>12, <2>1 DEF AtArgs
<1>20. Cursor(gs, token_index') = n
  <2>1. CASE call.broken
    <3>1. n = token_index' /\ n < Len(tokens)
      BY <1>1, <1>3, <1>4, <2>1
    <3> QED BY <1>12, <1>13, <3>1 DEF Cursor
  <2>2. CASE ~call.broken
    <3>1. n = Len(tokens) /\ ~(token_index' < Len(tokens))
      BY <1>1, <1>3, <1>4, <1>5, <2>2
    <3> QED BY <1>12, <1>13, <3>1 DEF Cursor
  <2> QED BY <2>1, <2>2
<1>21. AtWork(f, m, s, n) /\ m \in 1 .. Len(gs) /\ FitSoFar(n)
  BY <1>3, <1>5, <1>6, <1>13, <1>16, <1>17, <1>18, <1>19 DEF AtWork, Reads
<1>22. Reads(gs, n, m)
  BY <1>4, <1>13, <1>14, <1>15, <1>21 DEF Reads
<1>23. error_start_index' = -1
  BY <1>1, <1>3 DEF Returns
<1> QED BY <1>4, <1>20, <1>21, <1>22, <1>23 DEF ReadsOn

\* The commands that follow go to the call that waits for them.
LEMMA ReturnNextReads ==
  ASSUME ParserSafe, error_start_index = -1, ReadsOn(frames, token_index), ReturnNext
  PROVE  error_start_index' = -1 /\ ReadsOn(frames', token_index')
<1>1. /\ Returns /\ Depth > 1 /\ ~Call.piping /\ phase' = phase
      /\ token_index' = token_index
  BY DEF ReturnNext, ToCaller
<1>2. phase = "parsing"
  BY <1>1, CallTypes DEF ParserSafe, ParserInv
<1>3. PICK m \in 1 .. Depth, n \in 0 .. Len(tokens) :
        /\ n = Cursor(frames, token_index) /\ Reads(frames, n, m)
        /\ AtWork(Call, m, CallStage(Depth, m), n)
        /\ ~ExpectsFileName /\ (n > 0 => Kind(n) \notin Redirects)
        /\ IF Call.piping /\ Call.broken THEN n = token_index + 1 /\ n < Len(tokens)
           ELSE n = Len(tokens) /\ token_index >= Len(tokens)
  BY <1>1, <1>2, ReturnsAt
<1>4. PICK D, E, fs, gs, outer, call, f :
        /\ D = Depth /\ E = D - 1 /\ fs = frames /\ gs = frames' /\ outer = Caller /\ call = Call
        /\ f = [Caller EXCEPT !.next = CommandsFrom(Call), !.next_found = TRUE, !.broken = TRUE]
  OBVIOUS
<1>5. /\ Counted /\ Len(tokens) \in Nat /\ token_index \in Nat /\ n = Len(tokens) /\ n > 0
      /\ fs \in Seq(FrameType) /\ D \in Nat /\ D = Len(fs) /\ D > 1 /\ E \in Nat /\ E >= 1
      /\ call = fs[D] /\ outer = fs[E] /\ call \in FrameType /\ outer \in FrameType
      /\ outer.stage.args # <<>>
  <2>1. CallPlace
    BY <1>1, <1>2, CallTypes DEF ParserSafe, ParserInv
  <2>2. Len(tokens) \in Nat /\ token_index \in Nat /\ Depth \in Nat
    BY CallTypes DEF ParserSafe
  <2>3. Len(tokens) > 0 /\ n = Len(tokens)
    BY <1>1, <1>3, <2>1, <2>2 DEF CallPlace
  <2> QED
    BY <1>1, <1>4, <2>2, <2>3, CallTypes, CallerWaits
    DEF Counted, ParserSafe, Depth, Call, Caller, Waits
<1>6. m = D
  <2>1. call.piping <=> D > m
    BY <1>3, <1>4, <1>5 DEF Reads, Piping
  <2> QED BY <1>1, <1>4, <1>5, <2>1
<1>7. CallStage(D, D) = 1 /\ CallStage(E, D) = 1 /\ CallCommand(E, D) = E /\ CallStage(E, E) = 1
  BY <1>4, <1>5 DEF CallStage, CallCommand
<1>8. CallSays(outer, E, 1, n) /\ Waiting(outer, E, D, n)
  BY <1>3, <1>4, <1>5, <1>6, <1>7 DEF Reads, Outer
<1>9. AtWork(call, D, 1, n)
  BY <1>3, <1>4, <1>6, <1>7
<1>10. PICK node : node = CommandsFrom(call)
  OBVIOUS
<1>11. PICK l \in Nat : l = Len(call.next)
  <2>1. call \in FrameType
    BY <1>5
  <2> QED BY <2>1 DEF FrameType
<1>12. /\ node \in Seq(Seq(StageType)) /\ Len(node) = 1 + l
       /\ \A j \in 1 .. Len(node) : CommandSays(node[j], (D + j) - 1, n)
  <2>1. /\ CallSays(call, D, 1, n) /\ StagesSoFar(D, n) = 1 + Len(call.pipe)
        /\ \A j \in 1 .. Len(call.next) : CommandSays(call.next[j], D + j, n)
    BY <1>9 DEF AtWork, AtPlace
  <2> QED BY <1>5, <1>10, <1>11, <2>1, CommandsSay, NodeType
<1>13. /\ f \in FrameType /\ f.piping = outer.piping /\ f.stage = outer.stage
       /\ f.pipe = outer.pipe /\ f.piped = outer.piped
       /\ f.broken /\ f.next = node /\ ~f.expect_stdout /\ ~f.expect_stderr
  <2>1. f = [outer EXCEPT !.next = node, !.next_found = TRUE, !.broken = TRUE]
    BY <1>4, <1>10
  <2> QED BY <1>5, <1>8, <1>12, <2>1 DEF FrameType, Waiting
<1>14. gs \in Seq(FrameType) /\ Len(gs) = E /\ gs[E] = f /\ \A k \in 1 .. E - 1 : gs[k] = fs[k]
  <2>1. gs = [SubSeq(fs, 1, E) EXCEPT ![E] = f]
    BY <1>4 DEF ReturnNext, ToCaller
  <2>2. fs \in Seq(FrameType) /\ E \in Nat /\ E >= 1 /\ E < Len(fs)
    BY <1>4, <1>5
  <2>3. f \in FrameType
    BY <1>13
  <2> QED BY <2>1, <2>2, <2>3, StackReturns
<1>15. Outer(gs, n, E)
  <2>1. ASSUME NEW k \in 1 .. E - 1
        PROVE  CallSays(gs[k], CallCommand(k, E), CallStage(k, E), n) /\ Waiting(gs[k], k, E, n)
    <3>1. k \in 1 .. Len(fs) - 1 /\ k < E /\ k < D /\ k \in Nat /\ ~(k > E) /\ ~(k > D)
      BY <1>4, <1>5
    <3>2. CallSays(fs[k], CallCommand(k, D), CallStage(k, D), n) /\ Waiting(fs[k], k, D, n)
      BY <1>3, <1>4, <1>6, <3>1 DEF Reads, Outer
    <3>3. CallCommand(k, E) = CallCommand(k, D) /\ CallStage(k, E) = CallStage(k, D)
      BY <3>1 DEF CallCommand, CallStage
    <3>4. Waiting(fs[k], k, E, n)
      BY <3>1, <3>2 DEF Waiting
    <3> QED BY <1>14, <3>2, <3>3, <3>4
  <2> QED BY <1>14, <2>1 DEF Outer
<1>16. Piping(gs, E) /\ ~f.piping
  <2>1. \A k \in 1 .. E : (k = E \/ k \in 1 .. E - 1) /\ ~(k > E) /\ ~(k > D) /\ k \in 1 .. D
    BY <1>4, <1>5
  <2>2. \A k \in 1 .. D : fs[k].piping <=> k > D
    BY <1>3, <1>4, <1>5, <1>6 DEF Reads, Piping
  <2>3. ~f.piping
    BY <1>5, <1>13, <2>1, <2>2
  <2> QED BY <1>5, <1>14, <2>1, <2>2, <2>3 DEF Piping
<1>17. CallSays(f, E, 1, n)
  BY <1>8, <1>13 DEF CallSays
<1>18. AtPlace(f, E, 1, n)
  <2>1. Command(n + 1) = D + l
    BY <1>9, <1>11 DEF AtWork, AtPlace
  <2>2. D + l = E + (1 + l)
    <3>1. \A i, j \in Nat : (i + 1) + j = i + (1 + j)
      OBVIOUS
    <3>2. D = E + 1
      BY <1>4, <1>5
    <3>3. E \in Nat /\ l \in Nat
      BY <1>5, <1>11
    <3> QED BY <3>1, <3>2, <3>3
  <2>3. StagesSoFar(E, n) = 1 + Len(f.pipe)
    BY <1>4, <1>5, <1>8, <1>13 DEF Waiting
  <2>4. ASSUME NEW j \in 1 .. Len(node) PROVE CommandSays(node[j], E + j, n)
    <3>1. (D + j) - 1 = E + j
      BY <1>4, <1>5
    <3> QED BY <1>12, <3>1
  <2> QED BY <1>5, <1>12, <1>13, <1>16, <2>1, <2>2, <2>3, <2>4 DEF AtPlace
<1>19. AtFiles(f, E, 1, n)
  BY <1>3, <1>13 DEF AtFiles
<1>20. AtArgs(f, n)
  <2>1. Fits(n)
    BY <1>3, <1>5 DEF Reads, FitSoFar
  <2>2. Kind(n) \notin {"|", "&&"}
    BY <1>5, <2>1 DEF Fits
  <2>3. ~StartsStage(n + 1)
    <3>1. (n + 1) - 1 = n /\ n + 1 # 1
      BY <1>5
    <3> QED BY <2>2, <3>1 DEF StartsStage
  <2> QED BY <1>5, <1>13, <2>2, <2>3 DEF AtArgs
<1>21. Cursor(gs, token_index') = n
  <2>1. ~(token_index' < Len(tokens))
    BY <1>1, <1>3, <1>5
  <2> QED BY <1>5, <1>14, <1>16, <2>1 DEF Cursor
<1>22. AtWork(f, E, 1, n) /\ E \in 1 .. Len(gs) /\ FitSoFar(n)
  BY <1>3, <1>5, <1>14, <1>17, <1>18, <1>19, <1>20 DEF AtWork, Reads
<1>23. Reads(gs, n, E)
  BY <1>7, <1>14, <1>15, <1>16, <1>22 DEF Reads
<1>24. error_start_index' = -1
  BY <1>1, <1>3 DEF Returns
<1> QED BY <1>4, <1>21, <1>22, <1>23, <1>24 DEF ReadsOn

\* What ParsesAsWritten says of the commands of a line.
SaysTheLine(cs) ==
  /\ Len(cs) = Command(Len(tokens))
  /\ \A c \in 1 .. Len(cs) :
       /\ Len(cs[c]) = 1 + Cardinality({j \in Of({"|"}) : Command(j) = c})
       /\ \A s \in 1 .. Len(cs[c]) : Says(cs[c][s], c, s)

\* The outermost call returns the commands of the line.
LEMMA ReturnLineReads ==
  ASSUME ParserSafe, error_start_index = -1, ReadsOn(frames, token_index), ReturnLine, tokens # <<>>
  PROVE  error_start_index' = -1 /\ WellFormed /\ SaysTheLine(commands')
<1>1. Returns /\ Depth = 1 /\ phase' = "parsed"
  BY DEF ReturnLine
<1>2. PICK m \in 1 .. Depth, n \in 0 .. Len(tokens) :
        /\ n = Cursor(frames, token_index) /\ Reads(frames, n, m)
        /\ AtWork(Call, m, CallStage(Depth, m), n)
        /\ ~ExpectsFileName /\ (n > 0 => Kind(n) \notin Redirects)
        /\ IF Call.piping /\ Call.broken THEN n = token_index + 1 /\ n < Len(tokens)
           ELSE n = Len(tokens) /\ token_index >= Len(tokens)
  BY <1>1, ReturnsAt
<1>3. /\ Counted /\ Call \in FrameType /\ ~Call.piping
  BY <1>1, CallTypes DEF ParserSafe, ParserInv, Counted, Call
<1>4. m = 1 /\ n = Len(tokens)
  BY <1>1, <1>2, <1>3
<1>5. n > 0 /\ n \in Nat
  <2>1. tokens \in Seq(ToSet(tokens))
    BY DEF ParserSafe, ParserTypes, PlacesOK
  <2> QED BY <1>3, <1>4, <2>1, EmptySeq DEF Counted
<1>6. AtWork(Call, 1, 1, n)
  BY <1>1, <1>2, <1>4 DEF CallStage
<1>7. FitSoFar(n) /\ Fits(n)
  BY <1>2, <1>5 DEF Reads, FitSoFar
<1>8. WellFormed
  BY <1>3, <1>4, <1>5, <1>7, WellFormedIs
<1>9. PICK node : node = CommandsFrom(Call)
  OBVIOUS
<1>10. PICK l \in Nat : l = Len(Call.next)
  BY <1>3 DEF FrameType
<1>11. Len(node) = 1 + l /\ \A j \in 1 .. Len(node) : CommandSays(node[j], (1 + j) - 1, n)
  <2>1. /\ CallSays(Call, 1, 1, n) /\ StagesSoFar(1, n) = 1 + Len(Call.pipe)
        /\ \A j \in 1 .. Len(Call.next) : CommandSays(Call.next[j], 1 + j, n)
    BY <1>6 DEF AtWork, AtPlace
  <2> QED BY <1>3, <1>9, <1>10, <2>1, CommandsSay
<1>12. Command(n) = 1 + l
  <2>1. Command(n + 1) = 1 + l
    BY <1>6, <1>10 DEF AtWork, AtPlace
  <2>2. Kind(n) # "&&"
    BY <1>4, <1>5, <1>7 DEF Fits
  <2>3. n \in 1 .. Len(tokens)
    BY <1>4, <1>5
  <2> QED BY <1>3, <2>1, <2>2, <2>3, CommandNext
<1>13. ASSUME NEW c \in 1 .. Len(node)
       PROVE  /\ Len(node[c]) = 1 + Cardinality({j \in Of({"|"}) : Command(j) = c})
              /\ \A s \in 1 .. Len(node[c]) : Says(node[c][s], c, s)
  <2>1. CommandSays(node[c], c, n)
    <3>1. (1 + c) - 1 = c
      OBVIOUS
    <3> QED BY <1>11, <3>1
  <2>2. PipesIn(c, n) = {j \in Of({"|"}) : Command(j) = c}
    BY <1>4 DEF PipesIn, Of, Positions
  <2>3. Len(node[c]) = 1 + Cardinality({j \in Of({"|"}) : Command(j) = c})
    BY <2>1, <2>2 DEF CommandSays, StagesSoFar
  <2>4. ASSUME NEW s \in 1 .. Len(node[c]) PROVE Says(node[c][s], c, s)
    BY <1>3, <1>4, <2>1, <2>4, SaysAll DEF CommandSays
  <2> QED BY <2>3, <2>4
<1>14. commands' = node
  BY <1>9 DEF ReturnLine
<1>15. SaysTheLine(node)
  BY <1>4, <1>11, <1>12, <1>13 DEF SaysTheLine
<1>16. error_start_index' = -1
  BY <1>1, <1>2 DEF Returns
<1> QED BY <1>8, <1>14, <1>15, <1>16

------------------------------------------------------------------------------
(* The line stays as it was tokenized. *)

LEMMA PlacesStay ==
  ASSUME UNCHANGED tokens
  PROVE  /\ \A i : Kind(i)' = Kind(i)
         /\ \A K : Of(K)' = Of(K)
         /\ \A i : Command(i)' = Command(i)
         /\ \A i : StageOf(i)' = StageOf(i)
         /\ \A i : IsFile(i)' <=> IsFile(i)
         /\ \A i : StartsStage(i)' <=> StartsStage(i)
         /\ \A i, j : Together(i, j)' <=> Together(i, j)
<1>1. \A i : Kind(i)' = Kind(i)
  BY DEF Kind
<1>2. \A K : Of(K)' = Of(K)
  BY <1>1 DEF Of, Positions
<1>3. ASSUME NEW i PROVE Command(i)' = Command(i)
  <2>1. PICK A : A = Of({"&&"})
    OBVIOUS
  <2>2. A = Of({"&&"})'
    BY <1>2, <2>1
  <2>3. Command(i) = 1 + Cardinality({j \in A : j < i})
    BY <2>1 DEF Command
  <2>4. Command(i)' = 1 + Cardinality({j \in A : j < i})
    BY <2>2 DEF Command
  <2> QED BY <2>3, <2>4
<1>4. ASSUME NEW i PROVE StageOf(i)' = StageOf(i)
  <2>1. PICK S : S = {j \in Of({"|"}) : j < i /\ Command(j) = Command(i)}
    OBVIOUS
  <2>2. S = {j \in Of({"|"}) : j < i /\ Command(j) = Command(i)}'
    BY <1>2, <1>3, <2>1
  <2>3. StageOf(i) = 1 + Cardinality(S)
    BY <2>1 DEF StageOf
  <2>4. StageOf(i)' = 1 + Cardinality(S)
    BY <2>2 DEF StageOf
  <2> QED BY <2>3, <2>4
<1>5. \A i : IsFile(i)' <=> IsFile(i)
  BY <1>1 DEF IsFile
<1>6. \A i : StartsStage(i)' <=> StartsStage(i)
  BY <1>1 DEF StartsStage
<1>7. \A i, j : Together(i, j)' <=> Together(i, j)
  BY <1>3, <1>4 DEF Together
<1> QED BY <1>1, <1>2, <1>3, <1>4, <1>5, <1>6, <1>7

LEMMA WellFormedStays ==
  ASSUME UNCHANGED tokens
  PROVE  WellFormed' <=> WellFormed
<1>1. Positions' = Positions
  BY DEF Positions
<1>2. /\ Kind(Len(tokens))' = Kind(Len(tokens))
      /\ \A i : Kind(i + 1)' = Kind(i + 1)
      /\ \A i : Kind(i - 1)' = Kind(i - 1)
      /\ \A i : Kind(i)' = Kind(i)
  BY DEF Kind
<1> QED BY <1>1, <1>2, PlacesStay DEF WellFormed

LEMMA SaysStays ==
  ASSUME UNCHANGED tokens
  PROVE  /\ \A c, s : ArgsOf(c, s)' = ArgsOf(c, s)
         /\ \A c, s : FilesOf(c, s, ToStdout)' = FilesOf(c, s, ToStdout)
         /\ \A c, s : FilesOf(c, s, ToStderr)' = FilesOf(c, s, ToStderr)
         /\ \A stage, c, s : Says(stage, c, s)' <=> Says(stage, c, s)
<1>1. \A c, s : ArgsOf(c, s)' = ArgsOf(c, s)
  BY PlacesStay DEF ArgsOf
<1>2. \A i : Kind(i - 1)' = Kind(i - 1)
  BY DEF Kind
<1>3. \A c, s : FilesOf(c, s, ToStdout)' = FilesOf(c, s, ToStdout)
  BY <1>2, PlacesStay DEF FilesOf
<1>4. \A c, s : FilesOf(c, s, ToStderr)' = FilesOf(c, s, ToStderr)
  BY <1>2, PlacesStay DEF FilesOf
<1>5. \A stage, c, s : Says(stage, c, s)' <=> Says(stage, c, s)
  BY <1>1, <1>3, <1>4 DEF Says
<1> QED BY <1>1, <1>3, <1>4, <1>5

LEMMA SaysTheLineStays ==
  ASSUME UNCHANGED tokens, NEW cs
  PROVE  SaysTheLine(cs)' <=> SaysTheLine(cs)
<1>1. Command(Len(tokens))' = Command(Len(tokens))
  <2>1. PICK L : L = Len(tokens)
    OBVIOUS
  <2>2. Command(L)' = Command(L)
    BY PlacesStay
  <2> QED BY <2>1, <2>2
<1>2. ASSUME NEW c
      PROVE  Cardinality({j \in Of({"|"}) : Command(j) = c})' = Cardinality({j \in Of({"|"}) : Command(j) = c})
  <2>1. {j \in Of({"|"}) : Command(j) = c}' = {j \in Of({"|"}) : Command(j) = c}
    BY PlacesStay
  <2> QED BY <2>1
<1> QED BY <1>1, <1>2, SaysStays DEF SaysTheLine

LEMMA SoFarStays ==
  ASSUME UNCHANGED tokens
  PROVE  /\ \A n : FitSoFar(n)' <=> FitSoFar(n)
         /\ \A c, n : StagesSoFar(c, n)' = StagesSoFar(c, n)
         /\ \A stage, c, s, n : SaysSoFar(stage, c, s, n)' <=> SaysSoFar(stage, c, s, n)
         /\ \A c, s, n : StdoutSoFar(c, s, n)' <=> StdoutSoFar(c, s, n)
         /\ \A c, s, n : StderrSoFar(c, s, n)' <=> StderrSoFar(c, s, n)
<1>1. \A i : Kind(i - 1)' = Kind(i - 1)
  BY DEF Kind
<1>2. ASSUME NEW n PROVE FitSoFar(n)' <=> FitSoFar(n)
  <2>1. ASSUME NEW i PROVE Fits(i)' <=> Fits(i)
    BY <1>1, PlacesStay DEF Fits
  <2> QED BY <2>1 DEF FitSoFar
<1>3. ASSUME NEW c, NEW n PROVE StagesSoFar(c, n)' = StagesSoFar(c, n)
  <2>1. PICK P : P = PipesIn(c, n)
    OBVIOUS
  <2>2. P = PipesIn(c, n)'
    BY <2>1, PlacesStay DEF PipesIn
  <2> QED BY <2>1, <2>2 DEF StagesSoFar
<1>4. ASSUME NEW stage, NEW c, NEW s, NEW n
      PROVE  SaysSoFar(stage, c, s, n)' <=> SaysSoFar(stage, c, s, n)
  BY SaysStays DEF SaysSoFar, ArgsOK, StdoutOK, StderrOK, UpTo
<1>5. ASSUME NEW c, NEW s, NEW n
      PROVE  /\ StdoutSoFar(c, s, n)' <=> StdoutSoFar(c, s, n)
             /\ StderrSoFar(c, s, n)' <=> StderrSoFar(c, s, n)
  BY PlacesStay DEF StdoutSoFar, StderrSoFar, At
<1> QED BY <1>2, <1>3, <1>4, <1>5

LEMMA ReadsStays ==
  ASSUME UNCHANGED tokens, NEW fs, NEW i
  PROVE  ReadsOn(fs, i)' <=> ReadsOn(fs, i)
<1>1. ASSUME NEW f, NEW c, NEW s, NEW n PROVE CallSays(f, c, s, n)' <=> CallSays(f, c, s, n)
  BY SoFarStays DEF CallSays
<1>2. ASSUME NEW f, NEW k, NEW m, NEW n PROVE Waiting(f, k, m, n)' <=> Waiting(f, k, m, n)
  BY SoFarStays DEF Waiting
<1>3. ASSUME NEW stages, NEW c, NEW n PROVE CommandSays(stages, c, n)' <=> CommandSays(stages, c, n)
  BY SoFarStays DEF CommandSays
<1>4. ASSUME NEW f, NEW c, NEW s, NEW n PROVE AtWork(f, c, s, n)' <=> AtWork(f, c, s, n)
  <2>1. Kind(n)' = Kind(n) /\ Command(n + 1)' = Command(n + 1) /\ (StartsStage(n + 1)' <=> StartsStage(n + 1))
    BY PlacesStay
  <2>2. AtPlace(f, c, s, n)' <=> AtPlace(f, c, s, n)
    BY <1>3, <2>1, SoFarStays DEF AtPlace
  <2>3. AtFiles(f, c, s, n)' <=> AtFiles(f, c, s, n)
    BY <2>1, SoFarStays DEF AtFiles
  <2>4. AtArgs(f, n)' <=> AtArgs(f, n)
    BY <2>1 DEF AtArgs
  <2> QED BY <1>1, <2>2, <2>3, <2>4 DEF AtWork
<1>5. ASSUME NEW n, NEW m PROVE Outer(fs, n, m)' <=> Outer(fs, n, m)
  BY <1>1, <1>2 DEF Outer
<1>6. ASSUME NEW n, NEW m PROVE Reads(fs, n, m)' <=> Reads(fs, n, m)
  BY <1>4, <1>5, SoFarStays DEF Reads
<1>7. Cursor(fs, i)' = Cursor(fs, i)
  BY DEF Cursor
<1>8. PICK n : n = Cursor(fs, i)
  OBVIOUS
<1> QED BY <1>6, <1>7, <1>8 DEF ReadsOn

------------------------------------------------------------------------------
(* The invariant of the grammar. *)

\* The outermost call has read nothing.
LEMMA ParseReads ==
  ASSUME ParserSafe, Parse
  PROVE  ReadsOn(frames', token_index')
<1>1. PICK f, gs : f = NewFrame(FALSE) /\ gs = frames'
  OBVIOUS
<1>2. Counted /\ token_index' = 0 /\ gs = <<f>>
  BY <1>1, CallTypes DEF Parse, ParserSafe, ParserInv, Counted
<1>3. Len(gs) = 1 /\ gs[1] = f
  BY <1>2
<1>4. 0 \in 0 .. Len(tokens)
  BY <1>2 DEF Counted
<1>5. Command(0 + 1) = 1
  <2>1. PICK A : A = AndsBefore(1)
    OBVIOUS
  <2>2. A = {}
    BY <1>2, <2>1 DEF AndsBefore, Of, Positions, Counted
  <2>3. Command(1) = 1 + Cardinality(A)
    BY <1>2, <2>1, CommandType
  <2> QED BY <2>2, <2>3, FS_EmptySet
<1>6. StagesSoFar(1, 0) = 1
  <2>1. PipesIn(1, 0) = {}
    BY <1>2 DEF PipesIn, Of, Positions, Counted
  <2> QED BY <2>1, FS_EmptySet DEF StagesSoFar
<1>7. f.piping = FALSE /\ ~f.broken /\ AtWork(f, 1, 1, 0)
  <2>1. \A i \in 1 .. 0 : ~At(i, 1, 1)
    OBVIOUS
  <2>2. IF FALSE THEN 0 > 0 /\ Kind(0) = "|" ELSE 0 = 0 \/ Kind(0) = "&&"
    OBVIOUS
  <2> QED BY <1>1, <1>2, <1>4, <1>5, <1>6, <2>1, <2>2, NewCallReads
<1>8. Cursor(gs, 0) = 0
  BY <1>2, <1>3, <1>7 DEF Cursor, Counted
<1>9. FitSoFar(0) /\ Outer(gs, 0, 1) /\ Piping(gs, 1)
  BY <1>3, <1>7 DEF FitSoFar, Outer, Piping
<1>10. CallStage(1, 1) = 1
  BY DEF CallStage
<1>11. Reads(gs, 0, 1)
  BY <1>3, <1>4, <1>7, <1>9, <1>10 DEF Reads
<1> QED BY <1>1, <1>2, <1>3, <1>8, <1>11 DEF ReadsOn

\* No line is all blanks, and none is parsed that was refused.
Begun ==
  /\ tokens = <<>> /\ phase = "tokenizing" => index = 0
  /\ phase \in {"tokenized", "parsing", "parsed"} => tokens # <<>>
  /\ phase \in {"tokenizing", "tokenized"} => error_start_index = -1

LEMMA BegunNext ==
  ASSUME TokensSafe, Begun, [Next]_vars
  PROVE  Begun'
<1>1. CASE TakeSymbol \/ TakeWord
  <2>1. PICK t : tokens' = Append(tokens, t) /\ UNCHANGED <<error_start_index, phase>>
    BY <1>1 DEF TakeSymbol, TakeWord, Take
  <2>2. tokens' # <<>>
    BY <2>1, TokensSafeTyped DEF TokensTyped
  <2>3. phase = "tokenizing"
    BY <1>1 DEF TakeSymbol, TakeWord, StartsWord, InTokenize
  <2> QED BY <2>1, <2>2, <2>3 DEF Begun
<1>2. CASE RefuseSymbol \/ RefuseWord \/ StartLoop
  BY <1>2 DEF RefuseSymbol, RefuseWord, StartLoop, Refuse, Begun
<1>3. CASE EndTokenize
  <2>1. /\ phase = "tokenizing" /\ Start = Length /\ phase' = "tokenized"
        /\ UNCHANGED <<error_start_index, tokens>>
    BY <1>3 DEF EndTokenize
  <2>2. ASSUME tokens = <<>> PROVE FALSE
    <3>1. SkipsTo(0, Length) /\ PlacesOK /\ Length \in Nat
      BY <2>1, <2>2, StartIs, TokensSafeTyped DEF Begun, TokensTyped, LineOK
    <3>2. PICK k \in DOMAIN source : source[k] \notin Whitespace
      BY TokenizerAssumption DEF TokensSafe, FromLines
    <3>3. k \in 1 .. Length
      BY <3>1 DEF PlacesOK, Length
    <3>4. PICK r : r = k - 1
      OBVIOUS
    <3>5. r \in 0 .. Length - 1 /\ r + 1 = k
      BY <3>1, <3>3, <3>4
    <3>6. Char(r) = source[k]
      BY <3>1, <3>5, CharType
    <3> QED BY <3>1, <3>2, <3>5, <3>6 DEF SkipsTo
  <2> QED BY <2>1, <2>2 DEF Begun
<1>4. CASE ~Tokenize
  <2>1. /\ UNCHANGED <<index, tokens>>
        /\ phase' # phase => phase \in {"tokenized", "parsing"} /\ phase' \in {"parsing", "parsed"}
    BY <1>4, TokensStay DEF TokensSafe
  <2>2. phase' \in {"tokenizing", "tokenized"} => UNCHANGED error_start_index
    <3>1. CASE UNCHANGED vars
      BY <3>1 DEF vars, tokenizerVars
    <3>2. CASE Parse
      BY <3>2 DEF Parse
    <3>3. CASE NotAFileName \/ Argument \/ FileName \/ Redirect \/ Pipe \/ AndInPipeline \/ And
      <4>1. phase = "parsing"
        BY <3>3, LoopPlace
        DEF NotAFileName, Argument, FileName, Redirect, Pipe, AndInPipeline, And, TokensSafe
      <4> QED BY <2>1, <4>1
    <3>4. CASE ReturnPipe \/ ReturnNext \/ ReturnLine
      <4>1. phase = "parsing"
        BY <3>4 DEF ReturnPipe, ReturnNext, ReturnLine, Returns, TokensSafe, ParserSafe, ParserInv
      <4> QED BY <2>1, <4>1
    <3> QED BY <1>4, <3>1, <3>2, <3>3, <3>4 DEF Next, Step, Done
  <2> QED BY <2>1, <2>2 DEF Begun
<1> QED BY <1>1, <1>2, <1>3, <1>4 DEF Tokenize

\* Without an error the calls have read the tokens before the cursor, and say so.
GrammarOK ==
  /\ phase = "parsing" /\ error_start_index = -1 => ReadsOn(frames, token_index)
  /\ phase \in {"parsing", "parsed"} /\ error_start_index # -1 => ~WellFormed
  /\ phase = "parsed" /\ error_start_index = -1 => WellFormed /\ SaysTheLine(commands)

\* The same of the next state, told of the tokens of this one.
GrammarNext ==
  /\ phase' = "parsing" /\ error_start_index' = -1 => ReadsOn(frames', token_index')
  /\ phase' \in {"parsing", "parsed"} /\ error_start_index' # -1 => ~WellFormed
  /\ phase' = "parsed" /\ error_start_index' = -1 => WellFormed /\ SaysTheLine(commands')

LEMMA GrammarStays == UNCHANGED tokens /\ GrammarNext => GrammarOK'
<1> SUFFICES ASSUME UNCHANGED tokens, GrammarNext PROVE GrammarOK'
  OBVIOUS
<1>1. PICK fs, i, cs : fs = frames' /\ i = token_index' /\ cs = commands'
  OBVIOUS
<1>2. /\ ReadsOn(fs, i)' <=> ReadsOn(fs, i)
      /\ SaysTheLine(cs)' <=> SaysTheLine(cs)
      /\ WellFormed' <=> WellFormed
  BY ReadsStays, SaysTheLineStays, WellFormedStays
<1>3. /\ ReadsOn(frames, token_index)' <=> ReadsOn(fs, i)
      /\ SaysTheLine(commands)' <=> SaysTheLine(cs)
  BY <1>1, <1>2
<1> QED BY <1>1, <1>2, <1>3 DEF GrammarOK, GrammarNext

\* A turn of the loop.
LEMMA TurnGrammar ==
  ASSUME ParserSafe, GrammarOK,
         NotAFileName \/ Argument \/ FileName \/ Redirect \/ Pipe \/ AndInPipeline \/ And
  PROVE  GrammarNext
<1>1. InLoop /\ phase = "parsing"
  BY LoopPlace DEF NotAFileName, Argument, FileName, Redirect, Pipe, AndInPipeline, And
<1>2. Report => error_start_index' # -1 /\ phase' = phase
  BY <1>1, LoopPlace, CallTypes DEF Report, ParserSafe
<1>3. Report \/ UNCHANGED <<error_start_index, phase>>
  BY DEF NotAFileName, Argument, FileName, Redirect, Pipe, AndInPipeline, And, Continue, Recurse,
         tokenizerVars
<1>4. CASE error_start_index = -1
  <2>1. ReadsOn(frames, token_index)
    BY <1>1, <1>4 DEF GrammarOK
  <2>2. CASE NotAFileName \/ Redirect \/ Pipe \/ And
    <3>1. ReportsOrReads
      BY <1>4, <2>1, <2>2, NotAFileNameReports, RedirectReads, PipeReads, AndReads
    <3> QED BY <1>1, <1>2, <1>4, <3>1 DEF ReportsOrReads, GrammarNext
  <2>3. CASE Argument \/ FileName \/ AndInPipeline
    <3>1. ReadsOn(frames', token_index')
      BY <1>4, <2>1, <2>3, ArgumentReads, FileNameReads, AndInPipelineReads
    <3>2. UNCHANGED <<error_start_index, phase>>
      BY <2>3 DEF Argument, FileName, AndInPipeline, Continue, tokenizerVars
    <3> QED BY <1>1, <1>4, <3>1, <3>2 DEF GrammarNext
  <2> QED BY <2>2, <2>3
<1>5. CASE error_start_index # -1
  BY <1>1, <1>2, <1>3, <1>5 DEF GrammarOK, GrammarNext
<1> QED BY <1>4, <1>5

\* A return.
LEMMA ReturnGrammar ==
  ASSUME ParserSafe, Begun, GrammarOK, ReturnPipe \/ ReturnNext \/ ReturnLine
  PROVE  GrammarNext
<1>1. phase = "parsing" /\ tokens # <<>>
  BY DEF ReturnPipe, ReturnNext, ReturnLine, Returns, ParserSafe, ParserInv, Begun
<1>2. CASE error_start_index = -1
  <2>1. ReadsOn(frames, token_index)
    BY <1>1, <1>2 DEF GrammarOK
  <2>2. CASE ReturnPipe \/ ReturnNext
    <3>1. error_start_index' = -1 /\ ReadsOn(frames', token_index')
      BY <1>2, <2>1, <2>2, ReturnPipeReads, ReturnNextReads
    <3>2. phase' = "parsing"
      BY <1>1, <2>2 DEF ReturnPipe, ReturnNext, ToCaller
    <3> QED BY <3>1, <3>2 DEF GrammarNext
  <2>3. CASE ReturnLine
    <3>1. error_start_index' = -1 /\ WellFormed /\ SaysTheLine(commands')
      BY <1>1, <1>2, <2>1, <2>3, ReturnLineReads
    <3>2. phase' = "parsed"
      BY <2>3 DEF ReturnLine
    <3> QED BY <3>1, <3>2 DEF GrammarNext
  <2> QED BY <2>2, <2>3
<1>3. CASE error_start_index # -1
  <2>1. error_start_index' # -1
    BY <1>3 DEF ReturnPipe, ReturnNext, ReturnLine, Returns
  <2> QED BY <1>1, <1>3, <2>1 DEF GrammarOK, GrammarNext
<1> QED BY <1>2, <1>3

GrammarSafe == TokensSafe /\ Begun /\ GrammarOK

LEMMA GrammarInit == Init => GrammarSafe
<1>1. Init => Begun /\ GrammarOK
  BY DEF Init, TokenizerInit, Begun, GrammarOK
<1> QED BY <1>1, TokensSafeInit DEF GrammarSafe

LEMMA GrammarStep == GrammarSafe /\ [Next]_vars => GrammarSafe'
<1> SUFFICES ASSUME TokensSafe, Begun, GrammarOK, [Next]_vars PROVE GrammarSafe'
  BY DEF GrammarSafe
<1>1. TokensSafe' /\ Begun'
  BY TokensSafeNext, BegunNext
<1>2. ParserSafe
  BY DEF TokensSafe
<1>3. CASE Tokenize
  <2>1. phase' \notin {"parsing", "parsed"}
    BY <1>3 DEF Tokenize, TakeSymbol, RefuseSymbol, TakeWord, RefuseWord, StartLoop, EndTokenize,
                StartsWord, InTokenize, Take, Refuse
  <2> QED BY <1>1, <2>1 DEF GrammarSafe, GrammarOK
<1>4. CASE ~Tokenize
  <2>1. UNCHANGED tokens
    BY <1>2, <1>4, TokensStay
  <2>2. CASE UNCHANGED vars
    <3>1. UNCHANGED <<error_start_index, phase, frames, token_index, commands>>
      BY <2>2 DEF vars, tokenizerVars, parserVars
    <3> QED BY <3>1, <2>1, <1>1, GrammarStays DEF GrammarOK, GrammarNext, GrammarSafe
  <2>3. CASE Parse
    <3>1. phase' = "parsing" /\ error_start_index' = -1
      BY <2>3 DEF Parse, Begun
    <3>2. GrammarNext
      BY <1>2, <2>3, <3>1, ParseReads DEF GrammarNext
    <3> QED BY <1>1, <2>1, <3>2, GrammarStays DEF GrammarSafe
  <2>4. CASE NotAFileName \/ Argument \/ FileName \/ Redirect \/ Pipe \/ AndInPipeline \/ And
    BY <1>1, <1>2, <2>1, <2>4, TurnGrammar, GrammarStays DEF GrammarSafe
  <2>5. CASE ReturnPipe \/ ReturnNext \/ ReturnLine
    BY <1>1, <1>2, <2>1, <2>5, ReturnGrammar, GrammarStays DEF GrammarSafe
  <2> QED BY <1>4, <2>2, <2>3, <2>4, <2>5 DEF Next, Step, Done
<1> QED BY <1>3, <1>4

(***************************************************************************)
(* Whatever the line: the parser reports an error exactly when its tokens  *)
(* are no commands, although the calls for the stages and the commands     *)
(* share one token_index and a "&&" is given back to them.                 *)
(***************************************************************************)
THEOREM OnlyMalformedIsRejected == Spec => []RejectsOnlyMalformed
<1>1. GrammarSafe => RejectsOnlyMalformed
  BY DEF GrammarSafe, GrammarOK, RejectsOnlyMalformed
<1> QED BY <1>1, GrammarInit, GrammarStep, PTL DEF Spec

(***************************************************************************)
(* Whatever the line: when it is accepted, its commands are the ones that  *)
(* "&&" separates, their stages the ones that "|" separates, and each      *)
(* stage holds its arguments in their order and the files of its streams.  *)
(***************************************************************************)
THEOREM WhatIsWrittenIsParsed == Spec => []ParsesAsWritten
<1>1. GrammarSafe => ParsesAsWritten
  BY DEF GrammarSafe, GrammarOK, SaysTheLine, ParsesAsWritten
<1> QED BY <1>1, GrammarInit, GrammarStep, PTL DEF Spec
==============================================================================
