------------------------------- MODULE ShellLoop -------------------------------
(***************************************************************************)
(* read_eval_shell_loop: what a turn of the loop does to the memory and to *)
(* the state of the shell.  A line is what the parser makes of it; the     *)
(* builtins run here, programs are only the status they return (Pipeline   *)
(* has their processes and descriptors).                                   *)
(*                                                                         *)
(* heap is the set of the live allocations, each named by what it is for   *)
(* and by the turn that made it.  Left out is what a function makes and    *)
(* frees before it returns, whatever happens: buffers, the sequence of     *)
(* tokens, lists but for the strings on them.                              *)
(***************************************************************************)
EXTENDS Lists, Sorting, FiniteSets, Functions

CONSTANTS
  Parts,        (* what words and names are made of *)
  Lines,        (* what may be typed, see LineType *)
  Directories,  (* what each directory holds, see EntryType *)
  Chdir,        (* what chdir(2) does: from a directory and a path, if it can *)
  Statuses,     (* what a program may return *)
  MaxHistory,   (* HISTORY_MAX_ELEMENTS *)
  MaxTurns      (* bound: turns of the loop *)

Digit == <<"0", "1", "2", "3", "4", "5", "6", "7", "8", "9">>

LineKinds == {"blank", "continued", "untokenized", "refused", "parsed"}

\* A symbol is "*" or "$?" without quotes.
Words     == {w \in [text : Seq(Parts), symbol : BOOLEAN] :
                w.symbol => w.text \in {<<"*">>, <<"$?">>}}
Redirections == {"none", "one", "both", "two"}
StageType == [args : Seq(Words), files : Redirections]
\* tabs: how often Tab is pressed while it is typed; errors: how often an error is
\* reported, for a call of the parser may go on when one it made has failed.
LineType  == [kind : LineKinds, commands : Seq(Seq(StageType)), tabs : Nat, errors : Nat]
EntryType == [name : Names, type : {"DT_REG", "DT_DIR", "DT_LNK"}, hidden : BOOLEAN]

(***************************************************************************)
(* The lines are what the parser can make of a line (CommandParser.tla): a *)
(* parsed one has a command, and every command a stage; a refused one has  *)
(* an error, and the tokenizer stops at its first one.                     *)
(***************************************************************************)
ASSUME ShellLoopAssumption ==
  /\ Lines \subseteq LineType
  /\ \A l \in Lines : l.kind = "parsed" =>
       l.commands # <<>> /\ \A c \in DOMAIN l.commands : l.commands[c] # <<>>
  /\ \A l \in Lines : /\ l.kind = "parsed" => l.errors = 0
                      /\ l.kind = "untokenized" => l.errors = 1
                      /\ l.kind = "refused" => l.errors > 0
  /\ \A d \in DOMAIN Directories : Directories[d] \subseteq EntryType /\ IsFiniteSet(Directories[d])
  /\ \A from \in DOMAIN Chdir : Chdir[from] \in DOMAIN Directories
  /\ {"-"} \cup ToSet(Digit) \subseteq Parts /\ Names \subseteq Seq(Parts)
  /\ Statuses \subseteq Int
  /\ {MaxHistory, MaxTurns} \subseteq Nat

Builtins == {"cd", "set", "help", "exit", "clear", "history"}

VARIABLES
  pc,
  line,                 (* the line of this turn *)
  error,                (* of its Parse_Context *)
  nodes,                (* the commands of the line, each a sequence of stages *)
  command, stage,       (* what is executed: current_command, a level of its pipe *)
  result,               (* of shell_execute_command *)
  last_status_code, exit_requested, colorful, soundful,
  input_mark,
  last_typed_commands,
  directory,
  heap,
  misused,              (* history: memory was used or freed that is not live *)
  turn

nodeVars    == <<line, error, nodes, command, stage>>
contextVars == <<last_status_code, exit_requested, colorful, soundful, input_mark>>
vars == <<pc, nodeVars, result, contextVars, last_typed_commands, directory,
          heap, misused, turn>>

\* Memory that is not allocated: NULL, constants and local variables.
Static == [static |-> TRUE]

\* The message for a file that cannot be opened: a constant too, but one no test tells
\* from an allocation before it is freed.
Literal == [literal |-> TRUE]

\* Before the first line.
NoLine == [kind |-> "blank", commands |-> <<>>, tabs |-> 0, errors |-> 0]

Init ==
  /\ pc = "prompt" /\ turn = 0
  /\ line = NoLine /\ error = Static
  /\ nodes = <<>> /\ command = 0 /\ stage = 0 /\ result = 0
  /\ last_status_code = 0 /\ exit_requested = FALSE /\ colorful \in BOOLEAN /\ soundful \in BOOLEAN
  /\ input_mark = Static
  /\ last_typed_commands = CreateList
  /\ directory \in DOMAIN Directories
  /\ heap = {} /\ misused = FALSE

------------------------------------------------------------------------------
(* Memory. *)

Block(for, at) == [turn |-> turn, line |-> line.kind, for |-> for, at |-> at]

\* Two of the calls of free(3) are given the same block.
Twice(freed) == \E i, j \in DOMAIN freed : i # j /\ freed[i] = freed[j] /\ freed[i] # Static

\* What a step allocates, uses and frees, every call of free(3) under a name.
Memory(allocated, used, freed) ==
  LET held == heap \cup allocated
      gone == ToSet(freed) \ {Static}
  IN /\ heap' = held \ gone
     /\ misused' = (misused \/ ~(used \ {Static} \subseteq held)
                            \/ ~(gone \subseteq held) \/ Twice(freed))

TheLine == Block("line", <<>>)

\* What a list has used of memory that is not its own, and is not live.
PastEnd(list) == IF list.overrun THEN {Block("past the end", <<>>)} ELSE {}

\* A word is copied; a symbol is one of two constants, told by its address.
Pointer(word, at) ==
  [text |-> word.text, block |-> IF word.symbol THEN Static ELSE Block("string", at)]

\* The node of stage s of command c; the first one of all is a local variable.
Node(c, s) ==
  LET args == line.commands[c][s].args
  IN [args  |-> [k \in DOMAIN args |-> Pointer(args[k], <<c, s, k>>)],
      array |-> Block("args", <<c, s>>),
      block |-> IF c = 1 /\ s = 1 THEN Static ELSE Block("node", <<c, s>>),
      files |-> line.commands[c][s].files]

Tree == [c \in DOMAIN line.commands |-> [s \in DOMAIN line.commands[c] |-> Node(c, s)]]

Stages(tree) == UNION {ToSet(tree[c]) : c \in DOMAIN tree}
ArgBlocks(node) == [k \in DOMAIN node.args |-> node.args[k].block]

\* ">" gives both streams one name, ">" twice is refused.
NamesOf(files) == CASE files = "none" -> {} [] files \in {"one", "both"} -> {1}
                    [] files = "two" -> {1, 2}

FileNames(c, s) == {Block("file_name", <<c, s, i>>) : i \in NamesOf(line.commands[c][s].files)}
AllFileNames == UNION {UNION {FileNames(c, s) : s \in DOMAIN line.commands[c]} :
                         c \in DOMAIN line.commands}

Strings(tree) == (UNION {ToSet(ArgBlocks(n)) : n \in Stages(tree)}) \cup AllFileNames
Structure(tree) == {n.array : n \in Stages(tree)} \cup {n.block : n \in Stages(tree)}

\* The message of an error, by how many errors are reported after it.
Error(later) == Block("error", <<later>>)
Errors       == {Error(later) : later \in 0 .. line.errors - 1}

------------------------------------------------------------------------------
(* Reading and parsing. *)

\* get_all_files_for_dir: a list of these names, in the order of readdir(3).
Listed(entries, include_hidden) ==
  {e.name : e \in {f \in entries : f.type \in {"DT_REG", "DT_DIR"} /\ (include_hidden \/ ~f.hidden)}}

\* Every Tab copies the names of all files; only the list is freed.
ListedBy(l) == (1 .. l.tabs) \X (1 .. Cardinality(Listed(Directories[directory], TRUE)))

ReadLine ==
  /\ pc = "prompt" /\ ~exit_requested /\ turn < MaxTurns
  /\ turn' = turn + 1
  /\ \E l \in Lines :
       /\ line' = l
       /\ heap' = heap \cup {[turn |-> turn', line |-> l.kind, for |-> "line", at |-> <<>>]}
                       \cup {[turn |-> turn', line |-> l.kind, for |-> "listed", at |-> p] :
                               p \in ListedBy(l)}
       /\ misused' = (misused \/ ~({input_mark} \ {Static} \subseteq heap))
  /\ pc' = "read"
  /\ UNCHANGED <<error, nodes, command, stage, result, contextVars,
                 last_typed_commands, directory>>

\* continue leaves the line where it is.
SkipLine ==
  /\ pc = "read" /\ line.kind \in {"blank", "continued"}
  /\ pc' = "prompt"
  /\ Memory({}, {TheLine}, <<>>)
  /\ UNCHANGED <<nodeVars, result, contextVars, last_typed_commands,
                 directory, turn>>

\* shell_parse_command.  When there is an error it returns an empty node and
\* forgets the others.  Every error is copied, the last one is kept.
Parse ==
  /\ pc = "read" /\ line.kind \in {"untokenized", "refused", "parsed"}
  /\ IF line.errors = 0
     THEN pc' = "substituting" /\ nodes' = Tree /\ error' = Static
     ELSE pc' = "reporting" /\ nodes' = <<>> /\ error' = Error(0)
  /\ Memory(((Strings(Tree) \cup IF line.kind = "untokenized" THEN {} ELSE Structure(Tree))
               \ {Static}) \cup Errors, {TheLine}, <<>>)
  /\ command' = 1 /\ stage' = 1
  /\ UNCHANGED <<line, result, contextVars, last_typed_commands, directory, turn>>

\* The line is shown with what was reported last, which is then freed.
ReportError ==
  /\ pc = "reporting" /\ pc' = "releasing"
  /\ Memory({}, {error}, <<error>>)
  /\ error' = Static
  /\ UNCHANGED <<line, nodes, command, stage, result, contextVars, last_typed_commands,
                 directory, turn>>

------------------------------------------------------------------------------
(* replace_static_symbols_with_query_info *)

\* The two loops of int_to_cstring: how many digits there are, what is left at cell i of n_chars.
Digits(size) ==
  LET chars[n \in 0 .. size] == IF n < 10 THEN 1 ELSE 1 + chars[n \div 10] IN chars[size]
Left(size, n_chars) ==
  LET left[i \in 1 .. n_chars] == IF i = n_chars THEN size ELSE left[i + 1] \div 10 IN left

int_to_cstring(number) ==
  LET size    == IF number < 0 THEN -number ELSE number
      n_chars == Digits(size) + IF number < 0 THEN 1 ELSE 0
      left    == Left(size, n_chars)
  IN [i \in 1 .. n_chars |-> IF i = 1 /\ number < 0 THEN "-" ELSE Digit[(left[i] % 10) + 1]]

GlobbedFrom(names) == quick_sort_list(names, 0, Len(names) - 1)

IsSymbol(arg, text) == arg.block = Static /\ arg.text = text

Values(args, k, texts) ==
  [i \in DOMAIN texts |-> [text |-> texts[i], block |-> Block("value", <<command, k, i>>)]]

\* One turn of its loop: orders has the names as read for every "*".
Replaced(args, k, list, orders) ==
  IF IsSymbol(args[k], <<"$?">>)
  THEN Push(list, Values(args, k, <<int_to_cstring(last_status_code)>>)[1])
  ELSE IF IsSymbol(args[k], <<"*">>)
  THEN PushAll(list, Values(args, k, GlobbedFrom(orders[k])))
  ELSE Push(list, args[k])

\* The list, when the loop is behind the last argument.
Substituted(args, orders) ==
  LET list[k \in 0 .. Len(args)] ==
        IF k = 0 THEN CreateList ELSE Replaced(args, k, list[k - 1], orders)
  IN list[Len(args)]

\* Only the first stage; the others keep their symbols.
Substitute ==
  /\ pc = "substituting"
  /\ LET args  == nodes[command][1].args
         stars == {k \in DOMAIN args : IsSymbol(args[k], <<"*">>)}
     IN \E orders \in [stars -> SetToSeqs(Listed(Directories[directory], FALSE))] :
          LET list  == Substituted(args, orders)
              array == Block("argv", <<command>>)
              old   == nodes[command][1].array
          IN /\ nodes' = [nodes EXCEPT ![command][1].args = list.data,
                                       ![command][1].array = array]
             /\ Memory(({array} \cup {v.block : v \in ToSet(list.data)}) \ {Static},
                       {old} \cup ToSet(ArgBlocks(nodes[command][1])) \cup PastEnd(list),
                       <<old>>)
  /\ pc' = "converting"
  /\ UNCHANGED <<line, error, command, stage, result, contextVars,
                 last_typed_commands, directory, turn>>

------------------------------------------------------------------------------
(* Executing. *)

Pipeline == nodes[command]

\* STATIC_PROCESS_PARAMETER: one for each "|", that of the first stage is local.
Params == [s \in 1 .. Len(Pipeline) |->
             IF s = 1 THEN Static ELSE Block("param", <<command, s>>)]

\* shell_convert_execute_command_into_process_parameter, with the files, any
\* of which may fail to open.
Convert ==
  /\ pc = "converting"
  /\ \/ pc' = "running"
     \/ (\E s \in DOMAIN Pipeline : Pipeline[s].files # "none") /\ pc' = "file_failed"
  /\ stage' = 1
  /\ Memory(ToSet(Params) \ {Static}, {}, <<>>)
  /\ UNCHANGED <<line, error, nodes, command, result, contextVars, last_typed_commands, directory,
                 turn>>

Freed_Arguments == Params \o ArgBlocks(Pipeline[1])
Freed           == Params

\* The end of a turn of the loop over the commands: release_process_parameters.
NextCommand(should_interrupt, used) ==
  /\ Memory({}, used, Freed)
  /\ IF should_interrupt \/ command = Len(nodes)
     THEN pc' = "releasing" /\ UNCHANGED command
     ELSE pc' = "substituting" /\ command' = command + 1
  /\ UNCHANGED <<line, nodes, stage, result, exit_requested, colorful, soundful, input_mark,
                 last_typed_commands, directory, turn>>

\* The line is shown again under an error, no copy this time; the status is the old one.
ReportFile ==
  /\ pc = "file_failed"
  /\ error' = Literal
  /\ NextCommand(TRUE, {TheLine, input_mark})
  /\ UNCHANGED last_status_code

Executed ==
  /\ pc = "executed"
  /\ last_status_code' = result
  /\ NextCommand(result # 0, {})
  /\ UNCHANGED error

Args        == Pipeline[stage].args
HasArg(k)   == k \in DOMAIN Args
Is(k, text) == HasArg(k) /\ Args[k].text = <<text>>

Uses(s) == ToSet(ArgBlocks(Pipeline[s])) \cup {Pipeline[s].array, Params[s]}

\* What the first stage returns is what the pipeline returns.
Returns(status) == result' = IF stage = 1 THEN status ELSE result

Call(name) == pc = "running" /\ Is(1, name)

\* A builtin is followed by the next stage of its pipe.
Builtin(status) ==
  /\ Returns(status)
  /\ IF stage < Len(Pipeline) THEN pc' = "running" /\ stage' = stage + 1
     ELSE pc' = "executed" /\ UNCHANGED stage
  /\ UNCHANGED <<line, error, nodes, command, last_status_code, last_typed_commands, turn>>

\* A builtin that allocates nothing.
PlainBuiltin(status) == Builtin(status) /\ Memory({}, Uses(stage), <<>>)

CanEnter == <<directory, Args[2].text>> \in DOMAIN Chdir

builtin_cd ==
  /\ Call("cd")
  /\ PlainBuiltin(IF HasArg(2) /\ ~CanEnter THEN 1 ELSE 0)
  /\ directory' = IF HasArg(2) /\ CanEnter THEN Chdir[<<directory, Args[2].text>>] ELSE directory
  /\ UNCHANGED <<exit_requested, colorful, soundful, input_mark>>

\* Without a value a flag is toggled.
Switched(flag, on, off) ==
  CASE ~HasArg(3) -> ~flag [] Is(3, on) -> TRUE [] Is(3, off) -> FALSE [] OTHER -> flag

SetFlag ==
  /\ Is(2, "colorful") \/ Is(2, "no_sound")
  /\ PlainBuiltin(IF ~HasArg(3) \/ Is(3, "0") \/ Is(3, "1") THEN 0 ELSE 1)
  /\ colorful' = IF Is(2, "colorful") THEN Switched(colorful, "1", "0") ELSE colorful
  /\ soundful' = IF Is(2, "no_sound") THEN Switched(soundful, "0", "1") ELSE soundful
  /\ UNCHANGED input_mark

SetsMark == Is(2, "input_mark") /\ HasArg(3)

SetMark_Borrowed ==
  /\ SetsMark /\ Builtin(0)
  /\ input_mark' = Args[3].block
  /\ Memory({}, Uses(stage), <<input_mark>>)
  /\ UNCHANGED <<colorful, soundful>>

\* The old mark is freed unless it is the constant one.
SetMark ==
  /\ SetsMark /\ Builtin(0)
  /\ input_mark' = Block("mark", <<command, stage>>)
  /\ Memory({input_mark'}, Uses(stage), <<input_mark>>)
  /\ UNCHANGED <<colorful, soundful>>

SetNothing ==
  /\ ~Is(2, "colorful") /\ ~Is(2, "no_sound") /\ ~SetsMark
  /\ PlainBuiltin(IF Is(2, "--help") \/ Is(2, "input_mark") THEN 0 ELSE 1)
  /\ UNCHANGED <<colorful, soundful, input_mark>>

builtin_set ==
  /\ Call("set")
  /\ SetFlag \/ SetMark \/ SetNothing
  /\ UNCHANGED <<exit_requested, directory>>

builtin_exit ==
  /\ Call("exit") /\ PlainBuiltin(0)
  /\ exit_requested' = TRUE
  /\ UNCHANGED <<colorful, soundful, input_mark, directory>>

shows == UNCHANGED <<exit_requested, colorful, soundful, input_mark, directory>>

\* builtin_help and builtin_clear.
builtin_help == (Call("help") \/ Call("clear")) /\ PlainBuiltin(0) /\ shows

builtin_history ==
  /\ Call("history") /\ Builtin(0)
  /\ Memory({}, Uses(stage) \cup ToSet(last_typed_commands.data), <<>>)
  /\ shows

\* launch_process takes the rest of the pipeline.
RunPrograms ==
  /\ pc = "running" /\ HasArg(1) /\ ~\E name \in Builtins : Is(1, name)
  /\ \E status \in Statuses : Returns(status)
  /\ pc' = "executed"
  /\ Memory({}, UNION {Uses(s) : s \in stage .. Len(Pipeline)}, <<>>)
  /\ UNCHANGED <<nodeVars, contextVars, last_typed_commands, directory, turn>>

\* assert(false): there is no word.
AbortWithoutWord ==
  /\ pc = "running" /\ Args = <<>>
  /\ pc' = "aborted"
  /\ UNCHANGED <<nodeVars, result, contextVars, last_typed_commands, directory, heap, misused,
                 turn>>

------------------------------------------------------------------------------
(* The end of a turn. *)

\* Of a node the words that are not symbols, the array, the node.
ReleasedOf(node) == ArgBlocks(node) \o <<node.array, node.block>>

\* release_execute_command_nodes: every stage of every command.
Released_WithoutPipes ==
  [p \in UNION {{c} \X {1} \X DOMAIN ReleasedOf(nodes[c][1]) : c \in DOMAIN nodes} |->
     ReleasedOf(nodes[p[1]][p[2]])[p[3]]]
Released ==
  [p \in UNION {UNION {{c} \X {s} \X DOMAIN ReleasedOf(nodes[c][s]) : s \in DOMAIN nodes[c]} :
                  c \in DOMAIN nodes} |->
     ReleasedOf(nodes[p[1]][p[2]])[p[3]]]

Release ==
  /\ pc = "releasing" /\ pc' = "remembering"
  /\ Memory({}, {}, Released)
  /\ nodes' = <<>>
  /\ UNCHANGED <<line, error, command, stage, result, contextVars, last_typed_commands, directory,
                 turn>>

TooMany_ByTwo(list) == Len(list.data) > MaxHistory + 1
TooMany(list) == Len(list.data) > MaxHistory

\* A copy of the line is added to the history, whose oldest line may have to go; the
\* Parse_Context ends with the turn.
Remember ==
  /\ pc = "remembering" /\ pc' = "prompt"
  /\ error' = Static
  /\ LET kept == Block("history", <<>>)
         list == Push(last_typed_commands, kept)
         drop == TooMany(list)
     IN /\ last_typed_commands' = IF drop THEN PopAt(list, 0) ELSE list
        /\ Memory({kept}, {TheLine} \cup PastEnd(list), <<TheLine>> \o IF drop THEN <<list.data[1]>> ELSE <<>>)
  /\ UNCHANGED <<line, nodes, command, stage, result, contextVars, directory, turn>>

Done ==
  /\ pc = "aborted" \/ (pc = "prompt" /\ (exit_requested \/ turn = MaxTurns))
  /\ UNCHANGED vars

Next ==
  \/ ReadLine \/ SkipLine \/ Parse \/ ReportError \/ Substitute \/ Convert \/ ReportFile
  \/ builtin_cd \/ builtin_set \/ builtin_exit \/ builtin_help \/ builtin_history
  \/ RunPrograms \/ AbortWithoutWord \/ Executed \/ Release \/ Remember
  \/ Done

Spec == Init /\ [][Next]_vars

------------------------------------------------------------------------------
(* Properties. *)

Executing == {"substituting", "converting", "file_failed", "running", "executed"}

Purposes == {"line", "listed", "error", "string", "file_name", "args", "node", "value", "argv",
             "param", "mark", "history"}

Blocks     == [turn : 0 .. MaxTurns, line : LineKinds, for : Purposes, at : Seq(Nat)]
MaybeBlock == Blocks \cup {Static}

ArgType  == [text : Seq(Parts), block : MaybeBlock]
NodeType == [args : Seq(ArgType), array : Blocks, block : MaybeBlock, files : Redirections]

(***************************************************************************)
(* The types; the loop is never beyond the commands and the stages there   *)
(* are, and the history is never longer than it may be.                    *)
(***************************************************************************)
TypeOK ==
  /\ pc \in {"prompt", "read", "reporting", "substituting", "converting", "file_failed",
             "running", "executed", "releasing", "remembering", "aborted"}
  /\ line \in Lines \cup {NoLine} /\ error \in MaybeBlock \cup {Literal}
  /\ nodes \in Seq(Seq(NodeType)) /\ {command, stage} \subseteq Nat
  /\ pc \in Executing => command \in DOMAIN nodes
  /\ pc \in {"file_failed", "running", "executed"} => stage \in DOMAIN nodes[command]
  /\ result \in Statuses \cup {0, 1} /\ last_status_code \in Statuses \cup {0, 1}
  /\ {exit_requested, colorful, soundful, misused} \subseteq BOOLEAN
  /\ last_typed_commands \in [size : Nat, data : Seq(Blocks), overrun : BOOLEAN]
  /\ Len(last_typed_commands.data) <= MaxHistory
  /\ input_mark \in MaybeBlock /\ heap \subseteq Blocks
  /\ directory \in DOMAIN Directories
  /\ turn \in 0 .. MaxTurns

Reachable ==
  (ToSet(last_typed_commands.data) \cup {input_mark, error}
     \cup (UNION {Uses(s) : s \in IF pc \in {"file_failed", "running", "executed"}
                                  THEN DOMAIN Pipeline ELSE {}})
     \cup (UNION {ToSet(ReleasedOf(n)) : n \in Stages(nodes)})) \ {Static, Literal}

(***************************************************************************)
(* What the shell can still reach is allocated; nothing is used after it   *)
(* was freed, freed twice, or written past its end, although nodes, lists  *)
(* and process parameters share strings, and symbols and some messages are *)
(* no allocations.                                                         *)
(***************************************************************************)
MemoryIsSound == ~misused /\ Reachable \subseteq heap

IsLeft(b) ==
  \/ b.for = "listed"
  \/ b.for = "error" /\ b.line = "refused" /\ b.at # <<0>>
  \/ b.for = "line" /\ b.line \in {"blank", "continued"}
  \/ b.for = "file_name" /\ b.line = "parsed"
  \/ b.for \in {"string", "file_name"} /\ b.line = "untokenized"
  \/ b.for \in {"string", "file_name", "args", "node"} /\ b.line = "refused"

(***************************************************************************)
(* At the prompt nothing is left of a line that ran but its place in the   *)
(* history, the names of the files it was redirected to and those a Tab    *)
(* listed.  Lines that did not run leave themselves behind, or their words *)
(* and nodes and every message but the last.                               *)
(***************************************************************************)
OnlyKnownLeaks == pc = "prompt" => \A b \in heap \ Reachable : IsLeft(b)

\* A word or a value among the arguments of stage s of command c of this line.
Belongs(b, c, s) ==
  /\ b.turn = turn /\ b.line = line.kind /\ b.at[1] = c
  /\ \/ b.for = "string" /\ b.at[2] = s
     \/ b.for = "value" /\ s = 1

\* The node a symbol of which may have been replaced.
IsReplaced(c, s) ==
  /\ s = 1
  /\ \/ c < command
     \/ c = command /\ pc # "substituting"

NodeInv(c, s) ==
  IF ~IsReplaced(c, s) THEN nodes[c][s] = Node(c, s)
  ELSE LET node == nodes[c][s]
       IN /\ node.block = Node(c, s).block
          /\ node.array = Block("argv", <<c>>)
          /\ \A b \in ToSet(ArgBlocks(node)) \ {Static} : Belongs(b, c, s)
          /\ ~Twice(ArgBlocks(node))

NodesInv ==
  /\ pc \in Executing => nodes # <<>> /\ line.kind = "parsed"
  /\ pc \in {"prompt", "read", "reporting", "remembering"} => nodes = <<>>
  /\ nodes # <<>> =>
       /\ DOMAIN nodes = DOMAIN line.commands
       /\ \A c \in DOMAIN nodes : /\ DOMAIN nodes[c] = DOMAIN line.commands[c]
                                  /\ \A s \in DOMAIN nodes[c] : NodeInv(c, s)

HistoryInv ==
  LET data == last_typed_commands.data
  IN /\ ~last_typed_commands.overrun /\ Len(data) <= last_typed_commands.size
     /\ \A i \in DOMAIN data :
          /\ data[i].for = "history"
          /\ \/ data[i].turn < turn
             \/ pc = "prompt" /\ data[i].turn = turn
     /\ \A i, j \in DOMAIN data : i < j => data[i].turn < data[j].turn

\* The mark was set before the command that is executed, or earlier in its pipe.
MarkInv ==
  input_mark # Static =>
    /\ input_mark.for = "mark" /\ input_mark.at \in Nat \X Nat /\ input_mark.turn <= turn
    /\ pc \in Executing \cup {"read"} =>
         \/ input_mark.turn < turn
         \/ pc # "read" /\ input_mark.at[1] < command
         \/ pc = "executed" /\ input_mark.at[1] = command
         \/ pc = "running" /\ input_mark.at[1] = command /\ input_mark.at[2] < stage

\* A message waits for its report, and is the last one; any other error is a constant.
ErrorInv ==
  IF pc = "reporting" THEN line.errors > 0 /\ error = Error(0)
  ELSE error \in {Static, Literal}

(***************************************************************************)
(* Who owns what between two steps: a line its turn, a node its array, its *)
(* words and the values that replaced its symbols, each once; a mark and   *)
(* the lines of the history are older than what is freed before them; an   *)
(* error is allocated only between the parser and its report.              *)
(* Nothing is allocated that is not reachable, left behind as listed, or   *)
(* the line of this turn.                                                  *)
(***************************************************************************)
MemoryInv ==
  /\ NodesInv /\ HistoryInv /\ MarkInv /\ ErrorInv
  /\ pc # "prompt" => TheLine \in heap
  /\ pc # "aborted" => \A b \in heap \ Reachable : \/ IsLeft(b)
                                                   \/ pc # "prompt" /\ b = TheLine

\* What the arguments of a command mean: told without the loops of the code.
Visible == {e.name : e \in {f \in Directories[directory] : f.type # "DT_LNK" /\ ~f.hidden}}

Sorted(names) == \A i, j \in DOMAIN names : i < j => Rank(names[i]) < Rank(names[j])

NumberOf(text) ==
  LET sign == IF text[1] = "-" THEN 1 ELSE 0
      value[k \in sign .. Len(text)] ==
        IF k = sign THEN 0 ELSE 10 * value[k - 1] + (CHOOSE d \in 0 .. 9 : Digit[d + 1] = text[k])
  IN IF text[1] = "-" THEN -value[Len(text)] ELSE value[Len(text)]

Means(word, texts) ==
  IF ~word.symbol THEN texts = <<word.text>>
  ELSE IF word.text = <<"*">> THEN ToSet(texts) = Visible /\ Sorted(texts)
  ELSE /\ Len(texts) = 1 /\ NumberOf(texts[1]) = last_status_code
       /\ Len(texts[1]) > 1 => texts[1][1] # "0"

\* Where the texts of every word start, when a "*" became n of them.
Starts(words, n) ==
  LET start[k \in 1 .. Len(words) + 1] ==
        IF k = 1 THEN 1
        ELSE start[k - 1] + (IF words[k - 1].symbol /\ words[k - 1].text = <<"*">> THEN n ELSE 1)
  IN start

(***************************************************************************)
(* When a command starts, every "*" among its arguments has become the     *)
(* visible files of the directory the commands before it went to, sorted,  *)
(* every "$?" the status they returned, and every other word, also a       *)
(* quoted "*", is itself; nothing is lost where the list of arguments has  *)
(* to grow.                                                                *)
(***************************************************************************)
SymbolsAreCurrent ==
  pc = "converting" =>
    LET words == line.commands[command][1].args
        texts == [k \in DOMAIN nodes[command][1].args |-> nodes[command][1].args[k].text]
        start == Starts(words, Cardinality(Visible))
    IN /\ Len(texts) = start[Len(words) + 1] - 1
       /\ \A k \in DOMAIN words : Means(words[k], SubSeq(texts, start[k], start[k + 1] - 1))
==============================================================================
