------------------------------ MODULE MCShellLoop ------------------------------
(***************************************************************************)
(* Instance of ShellLoop.tla for TLC: a line for every way through a turn, *)
(* two directories, lists that start with one element.                     *)
(***************************************************************************)
EXTENDS ShellLoop

Word(text) == [text |-> <<text>>, symbol |-> FALSE]
Glob   == [text |-> <<"*">>, symbol |-> TRUE]
Query  == [text |-> <<"$?">>, symbol |-> TRUE]
Stage(args, files)    == [args |-> args, files |-> files]
\* Tab was pressed once in a line that is blank and twice in one that names a file.
Tabs(kind, commands) ==
  IF kind = "blank" THEN 1
  ELSE IF \E c \in DOMAIN commands : \E s \in DOMAIN commands[c] : commands[c][s].files = "two"
  THEN 2 ELSE 0
LineOf(kind, commands) ==
  [kind |-> kind, commands |-> commands, tabs |-> Tabs(kind, commands),
   errors |-> IF kind = "untokenized" THEN 1 ELSE 0]
\* One call of the parser fails, or one and its two callers.
Refused(commands, errors) == [LineOf("refused", commands) EXCEPT !.errors = errors]
Parsed(commands)       == LineOf("parsed", commands)
Plain(args)            == Stage(args, "none")
Run == Word("run")

MCLines ==
  {LineOf("blank", <<>>), LineOf("continued", <<>>),
   LineOf("untokenized", <<<<Stage(<<Run, Word("w")>>, "one")>>>>),
   Refused(<<<<Plain(<<Run>>), Stage(<<Run, Glob>>, "one")>>, <<Plain(<<Run>>)>>>>, 1),
   Refused(<<<<Plain(<<Run>>), Plain(<<Run>>), Plain(<<>>)>>>>, 3)}
  \cup {Parsed(<<<<Stage(<<Run>>, files)>>, <<Plain(<<Run, Query>>)>>>>) : files \in {"both", "two"}}
  \cup {Parsed(commands) : commands \in {
          <<<<Plain(<<Word("cd"), Word("sub")>>)>>, <<Plain(<<Run, Glob, Word("*"), Glob>>)>>>>,
          <<<<Plain(<<Word("cd"), Word("..")>>)>>>>,
          <<<<Plain(<<Word("cd")>>), Plain(<<Word("help")>>), Stage(<<Run, Glob, Query>>, "one")>>,
            <<Plain(<<Word("exit"), Word("w")>>)>>>>,
          <<<<Plain(<<Run, Glob, Query, Word("w")>>), Plain(<<Word("set"), Query>>)>>,
            <<Plain(<<Word("history"), Glob>>)>>>>,
          <<<<Plain(<<Glob>>)>>>>}}
  \cup {Parsed(<<<<Plain(<<Word("set")>> \o args)>>, <<Plain(<<Word("clear")>>)>>>>) :
          args \in {<<>>, <<Word("--help")>>, <<Word("colorful")>>, <<Word("no_sound"), Word("1")>>,
                    <<Word("colorful"), Word("w")>>, <<Word("input_mark")>>,
                    <<Word("input_mark"), Word("w")>>}}

Entry(name, type, hidden) == [name |-> <<name>>, type |-> type, hidden |-> hidden]

MCDirectories ==
  [top |-> {Entry("a", "DT_REG", FALSE), Entry("b", "DT_REG", FALSE), Entry("sub", "DT_DIR", FALSE),
            Entry("d", "DT_REG", TRUE)},
   sub |-> {Entry("b", "DT_LNK", FALSE), Entry("d", "DT_REG", TRUE)}]

MCChdir == (<<"top", <<"sub">>>> :> "sub") @@ (<<"sub", <<"..">>>> :> "top")

MCNames == <<<<"a">>, <<"b">>, <<"d">>, <<"sub">>>>

MCParts == STRING

MCStatuses == {0, -1, 10, 255}
==============================================================================
