----------------------------- MODULE MCLineEditor -----------------------------
(***************************************************************************)
(* Instances of LineEditor.tla for TLC.                                    *)
(***************************************************************************)
EXTENDS LineEditor

MCByte       == {"a", " ", "0"}
MCWhitespace == {" "}
MCLetters    == {"a"}
MCGarbage    == {" ", "0"}
MCClean      == {"0"}

\* Two letters, one of which continues the line.
MCBackslash      == "\\"
MCHistoryLetters == {"a", MCBackslash}
MCHistoryByte    == MCHistoryLetters \cup {" ", "0"}
==============================================================================
