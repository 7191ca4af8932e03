---------------------------- MODULE MCCommandParser ----------------------------
(***************************************************************************)
(* Instances of CommandParser.tla for TLC: all short sequences of tokens   *)
(* and longer ones of the kinds that nest, words in all their writings,    *)
(* and all short sequences of the characters the tokenizer tells apart.    *)
(***************************************************************************)
EXTENDS CommandParser

MCWhitespace  == {" "}
MCUnprintable == {"high"}

Sequences(K, n) == UNION {[1 .. k -> K] : k \in 1 .. n}

Unmeant(Sources) ==
  {[source |-> s, meant |-> <<>>] : s \in {t \in Sources : \E k \in DOMAIN t : t[k] # " "}}

\* Tokens with a blank after each.
Letter == <<"a">>
WriteKind(kind) == (IF kind = "word" THEN Letter ELSE Spelling[kind]) \o <<" ">>
WriteKinds(kinds) ==
  LET written == [k \in DOMAIN kinds |-> WriteKind(kinds[k])]
  IN [source |-> FlattenSeq(written),
      meant |-> [k \in DOMAIN kinds |->
                   NewToken(kinds[k], IF kinds[k] = "word" THEN Letter ELSE <<>>,
                            Len(FlattenSeq(SubSeq(written, 1, k - 1))))]]

\* The last one without it, if it is not one that needs it.
Unpadded(line) == [line EXCEPT !.source = SubSeq(@, 1, Len(@) - 1)]
EndsLine(line) == line.meant[Len(line.meant)].kind \notin {"|", "&&"}

Kinds(K, n) == {WriteKinds(kinds) : kinds \in Sequences(K, n)}

\* Two words in every writing, and what stands before, between and after.
Texts == {<<>>} \cup Sequences({"a", "1", ">", " ", "'", "\"", Backslash, "*"}, 2)
Words ==
  {LET first == before \o written
   IN [source |-> first \o between \o other \o after,
       meant |-> <<NewToken("word", text, Len(before)),
                   NewToken("word", <<"'", "a">>, Len(first \o between))>>] :
     <<before, text, written, between, other, after>> \in
       UNION {UNION {{<<>>, <<" ">>} \X {text} \X {written}
                       \X (IF written[1] \in Quotes THEN {<<>>, <<" ">>} ELSE {<<" ">>})
                       \X Writings("word", <<"'", "a">>) \X {<<>>, <<" ">>} :
                     written \in Writings("word", text)} : text \in Texts}}

Raw ==
  Unmeant(Sequences({"a", " ", "|", "&", ">", "1", "$", "?", "*", "'", Backslash}, 3)
          \cup Sequences({"a", " ", "|", "&", ">", "2"}, 4)
          \cup Sequences({"a", " ", "'", Backslash}, 5))

\* Lines with a byte of a UTF-8 character.
MCHighLines == Unmeant(Sequences({"a", " ", "'", "|", "high"}, 3))

MCLines == {Unpadded(l) : l \in {k \in Kinds(TokenKinds, 2) : EndsLine(k)}}
             \cup Kinds(TokenKinds, 3) \cup Kinds({"word", "1>>", "2>", "*", "|", "&&"}, 4)
             \cup Kinds({"word", ">", "|", "&&"}, 6) \cup Words \cup Raw
             \cup MCHighLines
==============================================================================
