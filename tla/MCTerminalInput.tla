---------------------------- MODULE MCTerminalInput ----------------------------
(***************************************************************************)
(* Instance of TerminalInput.tla for TLC: a key of every kind, keys whose  *)
(* bytes look like the start or the end of an answer, and bursts of two.   *)
(***************************************************************************)
EXTENDS TerminalInput

MCCharacters == {"a", "R", "[", ";", "~", "O", "1", "2", "3", "A", "F"}

Up    == <<ESC, "[", "A">>
AltUp == <<ESC, "[", "1", ";", "3", "A">>
End   == <<ESC, "O", "F">>

MCBursts ==
  {<<key>> : key \in {<<"R">>, <<"[">>, Up, AltUp, <<ESC>>}}
    \cup {<<<<c>>>> : c \in {"tab", "ctrl_c", "ctrl_d", "ctrl_l"}}
    \cup {<<<<"a">>, <<c>>>> : c \in {"a", "enter", "ctrl_a", "backspace"}}
    \cup {<<<<"a">>, End>>, <<Up, <<"a">>>>}

MCRowDigit == <<"1", "2">>
==============================================================================
