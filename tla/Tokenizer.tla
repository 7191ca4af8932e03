------------------------------- MODULE Tokenizer -------------------------------
(***************************************************************************)
(* tokenize and the try_parse_* functions: from the characters of a line   *)
(* to its tokens.  One action is one turn of the loop of tokenize: blanks  *)
(* are skipped and one token is taken or refused.                          *)
(*                                                                         *)
(* index counts the characters passed, as in the code, so a position is    *)
(* one less than the character's place in the sequence source.             *)
(***************************************************************************)
EXTENDS Integers, Sequences, SequencesExt

CONSTANTS
  Lines,        (* lines to read: a source, and the tokens it was written from *)
  Whitespace,
  Unprintable   (* characters isprint(3) refuses, such as the bytes of UTF-8 *)

Nul       == "nul"
Backslash == "\\"
Quotes    == {"'", "\""}

Symbols   == {"*", "$?"}
Redirects == {">", ">>", "1>", "1>>", "2>", "2>>"}
TokenKinds == {"word", "|", "&&"} \cup Symbols \cup Redirects

Spelling ==
  [kind \in TokenKinds \ {"word"} |->
     CASE kind = "|"   -> <<"|">>           [] kind = "&&"  -> <<"&", "&">>
       [] kind = "*"   -> <<"*">>           [] kind = "$?"  -> <<"$", "?">>
       [] kind = ">"   -> <<">">>           [] kind = ">>"  -> <<">", ">">>
       [] kind = "1>"  -> <<"1", ">">>      [] kind = "1>>" -> <<"1", ">", ">">>
       [] kind = "2>"  -> <<"2", ">">>      [] kind = "2>>" -> <<"2", ">", ">">>]

NewToken(kind, text, p) == [kind |-> kind, text |-> text, token_index_start |-> p]

------------------------------------------------------------------------------
(* How tokens are written: what a line means, told without reading it.     *)

\* Only words have a text.
TokensOf(line) ==
  {t \in [kind : TokenKinds, text : Seq(ToSet(line)), token_index_start : 0 .. Len(line)] :
     t.kind # "word" => t.text = <<>>}

Quoted(text, quote) ==
  LET Escape(c) == IF c \in {Backslash, quote} THEN <<Backslash, c>> ELSE <<c>>
  IN <<quote>> \o FlattenSeq([k \in DOMAIN text |-> Escape(text[k])]) \o <<quote>>

\* A word that needs no quotes.
IsBare(text) ==
  /\ text # <<>>
  /\ \A k \in DOMAIN text : text[k] \notin Whitespace \cup {Backslash}
  /\ text[1] \notin Quotes \cup {"*", "|", "&", "$", ">"}
  /\ ~(Len(text) > 1 /\ text[1] \in {"1", "2"} /\ text[2] = ">")

Writings(kind, text) ==
  IF kind # "word" THEN {Spelling[kind]}
  ELSE {Quoted(text, quote) : quote \in Quotes} \cup {t \in {text} : IsBare(t)}

\* A blank must follow, but for what ends with its quote, and at the end of the line.
Ended(line, kind, written, stop) ==
  \/ written[1] \in Quotes
  \/ stop < Len(line) /\ line[stop + 1] \in Whitespace
  \/ stop = Len(line) /\ kind \notin {"|", "&&"}

\* These tokens stand in the line before end, each where it starts, and nothing else but blanks.
Written(line, ts, end) ==
  LET StartOf(k)  == IF k > Len(ts) THEN end ELSE ts[k].token_index_start
      Blank(p, q) == \A r \in p .. q - 1 : line[r + 1] \in Whitespace
  IN /\ Blank(0, StartOf(1))
     /\ \A k \in DOMAIN ts :
          \E written \in Writings(ts[k].kind, ts[k].text) :
            LET stop == StartOf(k) + Len(written)
            IN /\ stop <= StartOf(k + 1)
               /\ written = SubSeq(line, StartOf(k) + 1, stop)
               /\ Ended(line, ts[k].kind, written, stop)
               /\ Blank(stop, StartOf(k + 1))

(***************************************************************************)
(* The editor hands over a line of characters, no NUL among them, that is  *)
(* not all blanks; when it was written from tokens, they are printable.    *)
(***************************************************************************)
ASSUME TokenizerAssumption ==
  /\ Whitespace \cap (Unprintable \cup Quotes \cup {Backslash, Nul}) = {} /\ Nul \notin Unprintable
  /\ \A kind \in DOMAIN Spelling : Whitespace \cap ToSet(Spelling[kind]) = {}
  /\ \A l \in Lines :
       /\ l.source \in Seq(ToSet(l.source)) /\ Nul \notin ToSet(l.source)
       /\ \E k \in DOMAIN l.source : l.source[k] \notin Whitespace
       /\ l.meant # <<>> =>
            /\ l.meant \in Seq(TokensOf(l.source)) /\ ToSet(l.source) \cap Unprintable = {}
            /\ Written(l.source, l.meant, Len(l.source))

------------------------------------------------------------------------------

VARIABLES
  source,             (* of the Parse_Context *)
  index,
  error_start_index,  (* -1 when there is no error *)
  tokens,
  phase,              (* "tokenizing", then "tokenized", "refused" or "looping" *)
  meant               (* history: the tokens source was written from, if any *)

tokenizerVars == <<source, index, error_start_index, tokens, phase, meant>>

TokenizerInit ==
  /\ \E l \in Lines : source = l.source /\ meant = l.meant
  /\ index = 0 /\ error_start_index = -1
  /\ tokens = <<>>
  /\ phase = "tokenizing"

------------------------------------------------------------------------------

Length  == Len(source)
Char(p) == IF p < Length THEN source[p + 1] ELSE Nul

\* The first character from p on that satisfies P, or the end of the line.
FirstFrom(p, P(_)) ==
  CHOOSE q \in p .. Length : (q = Length \/ P(q)) /\ \A r \in p .. q - 1 : ~P(r)

skip_whitespace(p) == FirstFrom(p, LAMBDA q : Char(q) \notin Whitespace)

(***************************************************************************)
(* Symbols.  What starts like one is one, or an error: the longest spelling*)
(* counts, and it must be followed by a blank or, but for "|" and "&&", by *)
(* the end of the line.                                                    *)
(***************************************************************************)
StartsSymbol(p) ==
  \/ Char(p) \in {"*", "|", "&", "$", ">"}
  \/ Char(p) \in {"1", "2"} /\ Char(p + 1) = ">"

Spelled(p) == {kind \in DOMAIN Spelling :
                 \A k \in 1 .. Len(Spelling[kind]) : Char(p + k - 1) = Spelling[kind][k]}

SymbolAt_Shortest(p) ==
  CHOOSE kind \in Spelled(p) :
    \A other \in Spelled(p) : Len(Spelling[other]) >= Len(Spelling[kind])

SymbolAt(p) ==
  CHOOSE kind \in Spelled(p) :
    \A other \in Spelled(p) : Len(Spelling[other]) <= Len(Spelling[kind])

EndOf(p) == p + Len(Spelling[SymbolAt(p)])

Follows_Whitespace(kind) == Whitespace
Follows(kind) == IF kind \in {"|", "&&"} THEN Whitespace ELSE Whitespace \cup {Nul}

IsSymbol(p) == Spelled(p) # {} /\ Char(EndOf(p)) \in Follows(SymbolAt(p))

(***************************************************************************)
(* Words.  A quoted one ends with its quote and may hold blanks; "\" makes *)
(* the next character, a quote or a "\", part of it.  One that is not      *)
(* quoted ends before a blank or with the line.                            *)
(***************************************************************************)
IsQuoted(p) == Char(p) \in Quotes

\* escaped_quote, at character q of a word that starts at p.
Escaped(p, q) ==
  LET escaped[r \in p .. Length] ==
        r > p + 1 /\ Char(r - 1) = Backslash /\ ~escaped[r - 1]
  IN IsQuoted(p) /\ escaped[q]

BadEscape(p, q) == Char(q) \notin {Backslash, Char(p)} /\ Escaped(p, q)
Closes(p, q)    == Char(q) = Char(p) /\ ~Escaped(p, q)

\* Where the loop of try_parse_string is left, or never left.
StringEnd(p) ==
  IF IsQuoted(p)
  THEN FirstFrom(p + 1, LAMBDA q : BadEscape(p, q) \/ Closes(p, q) \/ Char(q) \in Unprintable)
  ELSE FirstFrom(p, LAMBDA q : Char(q) \in Whitespace \cup {Backslash} \cup Unprintable)

Loops(p) == LET e == StringEnd(p) IN Char(e) \in Unprintable /\ ~BadEscape(p, e)

IsWord(p) ==
  LET e == StringEnd(p)
  IN IF IsQuoted(p) THEN e < Length /\ Closes(p, e) ELSE Char(e) \in Whitespace \cup {Nul}

WordError_PastTheEnd(p) == StringEnd(p) + 1
WordError(p) ==
  LET e == StringEnd(p) IN IF IsQuoted(p) /\ e < Length THEN e - 1 ELSE e

\* The characters pushed to the buffer: all but the "\" that escapes.
IsPushed_All(p, q) == TRUE
IsPushed(p, q) == Char(q) = Backslash => Escaped(p, q)

WordText(p) ==
  LET first == IF IsQuoted(p) THEN p + 1 ELSE p
      \* The buffer, when the loop is at character q.
      buffer[q \in first .. StringEnd(p)] ==
        IF q = first THEN <<>>
        ELSE IF IsPushed(p, q - 1) THEN Append(buffer[q - 1], Char(q - 1)) ELSE buffer[q - 1]
  IN buffer[StringEnd(p)]

------------------------------------------------------------------------------

InTokenize == phase = "tokenizing" /\ index < Length
Start      == skip_whitespace(index)

Take(token, next) ==
  /\ tokens' = Append(tokens, token) /\ index' = next
  /\ UNCHANGED <<source, error_start_index, phase, meant>>

Refuse(p) ==
  /\ error_start_index' = p /\ phase' = "refused" /\ index' = Start
  /\ UNCHANGED <<source, tokens, meant>>

TakeSymbol ==
  /\ InTokenize /\ StartsSymbol(Start) /\ IsSymbol(Start)
  /\ Take(NewToken(SymbolAt(Start), <<>>, Start), EndOf(Start))

RefuseSymbol ==
  /\ InTokenize /\ StartsSymbol(Start) /\ ~IsSymbol(Start)
  /\ Refuse(IF Spelled(Start) = {} THEN Start + 1 ELSE EndOf(Start))

StartsWord == InTokenize /\ Start < Length /\ ~StartsSymbol(Start)

TakeWord ==
  /\ StartsWord /\ IsWord(Start)
  /\ Take(NewToken("word", WordText(Start), Start),
          IF IsQuoted(Start) THEN StringEnd(Start) + 1 ELSE StringEnd(Start))

RefuseWord == StartsWord /\ ~IsWord(Start) /\ ~Loops(Start) /\ Refuse(WordError(Start))

\* A character that is neither blank, quote, "\" nor printable is not passed.
StartLoop ==
  /\ StartsWord /\ Loops(Start)
  /\ phase' = "looping" /\ index' = Start
  /\ UNCHANGED <<source, error_start_index, tokens, meant>>

\* The rest of the line is blank, or there is none.
EndTokenize ==
  /\ phase = "tokenizing" /\ Start = Length
  /\ phase' = "tokenized" /\ index' = Start
  /\ UNCHANGED <<source, error_start_index, tokens, meant>>

Tokenize == TakeSymbol \/ RefuseSymbol \/ TakeWord \/ RefuseWord \/ StartLoop \/ EndTokenize

------------------------------------------------------------------------------
(* Properties. *)

(***************************************************************************)
(* A position is one of the line, or its end; a token is of a known kind   *)
(* and starts in the line.                                                 *)
(***************************************************************************)
PlacesOK ==
  /\ source \in Seq(ToSet(source))
  /\ index \in 0 .. Length /\ error_start_index \in -1 .. Length
  /\ phase \in {"tokenizing", "tokenized", "refused", "looping", "parsing", "parsed"}
  /\ tokens \in Seq(ToSet(tokens))
  /\ \A k \in 1 .. Len(tokens) :
       tokens[k].kind \in TokenKinds /\ tokens[k].token_index_start \in 0 .. Length

\* The text of a token is made of characters of the line.
TextsOK == \A k \in DOMAIN tokens : tokens[k].text \in Seq(ToSet(source))

(***************************************************************************)
(* Every character of a line that is not refused belongs to exactly one    *)
(* token or is a blank between tokens, and every token is what stands      *)
(* there: nothing is lost, doubled or merged although several functions    *)
(* look at the same characters in turn.                                    *)
(***************************************************************************)
TokensReadBack == phase # "refused" /\ phase # "looping" => Written(source, tokens, index)

(***************************************************************************)
(* A line written from tokens, with any quotes that fit, is never refused  *)
(* by the tokenizer and is read as those tokens, where they stand, and no  *)
(* others.                                                                 *)
(***************************************************************************)
ReadsWhatWasMeant ==
  meant # <<>> =>
    /\ phase \notin {"refused", "looping"}
    /\ Len(tokens) <= Len(meant) /\ (phase # "tokenizing" => Len(tokens) = Len(meant))
    /\ \A k \in DOMAIN tokens : tokens[k] = meant[k]

(***************************************************************************)
(* The branches of the loop cover every character, so that it goes on      *)
(* (the assertion at the end of try_parse_string).                         *)
(***************************************************************************)
AllCasesCovered == phase # "looping"
==============================================================================
