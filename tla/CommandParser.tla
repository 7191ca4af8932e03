----------------------------- MODULE CommandParser -----------------------------
(***************************************************************************)
(* shell_parse_command: the tokens of a line, and from them the commands   *)
(* joined by &&, each a pipeline of stages.                                *)
(* parse_execute_command_node_internal calls itself for what follows "|"   *)
(* and "&&" and shares one token_index with its callers; frames is the     *)
(* stack of the calls, and every action is one turn of the loop of the     *)
(* innermost call, or its return.                                          *)
(*                                                                         *)
(* An argument or a file name is the position of its token.  Whether a     *)
(* redirection appends is a property of the token before its file name.    *)
(***************************************************************************)
EXTENDS Tokenizer, FiniteSets

VARIABLES
  token_index,  (* of the Parse_Context: tokens already passed *)
  frames,       (* the calls, the innermost one last *)
  commands      (* what the outermost call returned *)

parserVars == <<token_index, frames, commands>>
vars == <<tokenizerVars, parserVars>>

\* The local variables of a call.
EmptyStage == [args |-> <<>>, stdout |-> 0, stderr |-> 0]

NewFrame(piping) ==
  [piping |-> piping,
   stage |-> EmptyStage,
   has_stdout |-> FALSE, has_stderr |-> FALSE,        \* has_*_redirect_token
   expect_stdout |-> FALSE, expect_stderr |-> FALSE,  \* *_redirect_expect_file_name
   pipe |-> <<>>, piped |-> FALSE,
   next |-> <<>>, next_found |-> FALSE,
   broken |-> FALSE]                                  \* the loop was left by break

Init ==
  /\ TokenizerInit
  /\ token_index = 0 /\ frames = <<>> /\ commands = <<>>

Depth == Len(frames)
Call  == frames[Depth]

InLoop == Depth > 0 /\ ~Call.broken /\ token_index < Len(tokens)

Kind(i)  == tokens[i].kind
Position == token_index + 1
Token    == Kind(Position)
HasMore  == Position < Len(tokens)
HasArgs_Unchecked == TRUE
HasArgs  == Call.stage.args # <<>>
ExpectsFileName == Call.expect_stdout \/ Call.expect_stderr

------------------------------------------------------------------------------

\* What the tokenizer accepted is parsed.
Parse ==
  /\ phase = "tokenized" /\ phase' = "parsing"
  /\ frames' = <<NewFrame(FALSE)>>
  /\ UNCHANGED <<source, index, error_start_index, tokens, meant, token_index, commands>>

\* One turn of the loop that changes the locals and goes on.
Continue(frame) ==
  /\ frames' = [frames EXCEPT ![Depth] = frame]
  /\ token_index' = token_index + 1
  /\ UNCHANGED <<tokenizerVars, commands>>

\* parse_context_report_error and break.
Report ==
  /\ error_start_index' = tokens[Position].token_index_start
  /\ frames' = [frames EXCEPT ![Depth].broken = TRUE]
  /\ UNCHANGED <<source, index, tokens, phase, meant, token_index, commands>>

NotAFileName == InLoop /\ ExpectsFileName /\ Token # "word" /\ Report

Argument ==
  /\ InLoop /\ ~ExpectsFileName
  /\ Token \in {"word"} \cup Symbols
  /\ Continue([Call EXCEPT !.stage.args = Append(@, Position)])

FileName ==
  /\ InLoop /\ ExpectsFileName /\ Token = "word"
  /\ Continue([Call EXCEPT
                !.stage.stdout = IF Call.expect_stdout THEN Position ELSE @,
                !.stage.stderr = IF Call.expect_stderr THEN Position ELSE @,
                !.expect_stdout = FALSE, !.expect_stderr = FALSE])

\* A redirection without a number is one of both streams.
ToStdout(t) == t \in {">", ">>", "1>", "1>>"}
ToStderr(t) == t \in {">", ">>", "2>", "2>>"}

Repeated(t) == (ToStdout(t) /\ Call.has_stdout) \/ (ToStderr(t) /\ Call.has_stderr)

Redirect ==
  /\ InLoop /\ ~ExpectsFileName /\ Token \in Redirects
  /\ IF Repeated(Token) \/ ~HasArgs \/ ~HasMore
     THEN Report
     ELSE Continue([Call EXCEPT
                     !.has_stdout = @ \/ ToStdout(Token), !.expect_stdout = ToStdout(Token),
                     !.has_stderr = @ \/ ToStderr(Token), !.expect_stderr = ToStderr(Token)])

\* The call for what follows a "|" or a "&&".
Recurse(piping) ==
  /\ frames' = Append(frames, NewFrame(piping))
  /\ token_index' = token_index + 1
  /\ UNCHANGED <<tokenizerVars, commands>>

PipeConflicts_PipesOnly == Call.piped
PipeConflicts == Call.piped \/ Call.has_stdout

Pipe ==
  /\ InLoop /\ ~ExpectsFileName /\ Token = "|"
  /\ IF PipeConflicts \/ ~HasArgs \/ ~HasMore THEN Report ELSE Recurse(TRUE)

\* Inside a pipeline "&&" belongs to the command the pipeline is part of, so
\* the token is given back: each caller passes one token when it goes on.
GivenBack_Not(i) == i
GivenBack(i)     == i - 1

\* Without its break the loop comes back to the same "&&".
AndInPipeline_Unbroken ==
  /\ InLoop /\ ~ExpectsFileName /\ Token = "&&" /\ Call.piping
  /\ token_index' = GivenBack(token_index) + 1
  /\ UNCHANGED <<tokenizerVars, frames, commands>>

AndInPipeline ==
  /\ InLoop /\ ~ExpectsFileName /\ Token = "&&" /\ Call.piping
  /\ token_index' = GivenBack(token_index)
  /\ frames' = [frames EXCEPT ![Depth].broken = TRUE]
  /\ UNCHANGED <<tokenizerVars, commands>>

And ==
  /\ InLoop /\ ~ExpectsFileName /\ Token = "&&" /\ ~Call.piping
  /\ IF Call.next_found \/ ~HasArgs \/ ~HasMore THEN Report ELSE Recurse(FALSE)

\* After the loop, the node is built: the stages from this one on, and the
\* commands from this one on.
StagesFrom(f)   == <<f.stage>> \o f.pipe
CommandsFrom(f) == <<StagesFrom(f)>> \o f.next

Returns ==
  /\ Depth > 0 /\ ~InLoop
  /\ error_start_index' = IF ExpectsFileName /\ error_start_index = -1 THEN Length
                          ELSE error_start_index
  /\ UNCHANGED <<source, index, tokens, meant>>

\* The caller, with what it does to its own locals.
ToCaller(outer) ==
  /\ frames' = [SubSeq(frames, 1, Depth - 1) EXCEPT ![Depth - 1] = outer]
  /\ UNCHANGED <<commands, phase>>

Caller == frames[Depth - 1]

\* The caller takes it as its pipe and goes on after it,
ReturnPipe ==
  /\ Returns /\ Depth > 1 /\ Call.piping
  /\ ToCaller([Caller EXCEPT !.pipe = StagesFrom(Call), !.piped = TRUE])
  /\ token_index' = token_index + 1

\* or as its next command and leaves its own loop.
ReturnNext ==
  /\ Returns /\ Depth > 1 /\ ~Call.piping
  /\ ToCaller([Caller EXCEPT !.next = CommandsFrom(Call), !.next_found = TRUE, !.broken = TRUE])
  /\ UNCHANGED token_index

ReturnLine ==
  /\ Returns /\ Depth = 1
  /\ commands' = CommandsFrom(Call) /\ frames' = <<>> /\ phase' = "parsed"
  /\ UNCHANGED token_index

\* After the line was parsed or refused, or in a loop that passes no character.
Done == phase \in {"parsed", "refused", "looping"} /\ UNCHANGED vars

Step == \/ Tokenize /\ UNCHANGED parserVars
        \/ Parse
        \/ NotAFileName \/ Argument \/ FileName \/ Redirect \/ Pipe \/ AndInPipeline \/ And
        \/ ReturnPipe \/ ReturnNext \/ ReturnLine

Next == Step \/ Done

\* The parser is a sequential procedure: it runs until it returns.
Spec == Init /\ [][Next]_vars /\ WF_vars(Step)

------------------------------------------------------------------------------
(* The lines that are commands, and what they say, told from the tokens    *)
(* alone.                                                                  *)

Positions == 1 .. Len(tokens)
Of(K)     == {i \in Positions : Kind(i) \in K}
IsFile(i) == i > 1 /\ Kind(i - 1) \in Redirects

Command(i) == 1 + Cardinality({j \in Of({"&&"}) : j < i})
StageOf(i) == 1 + Cardinality({j \in Of({"|"}) : j < i /\ Command(j) = Command(i)})

Together(i, j) == Command(i) = Command(j) /\ StageOf(i) = StageOf(j)

StartsStage(i) == i = 1 \/ Kind(i - 1) \in {"|", "&&"}

(***************************************************************************)
(* A redirection is followed by a word, a "|" and a "&&" by something, a   *)
(* stage starts with an argument, no stream is redirected twice, and what  *)
(* goes into a pipe does not go into a file.  A stage after a "|" may also *)
(* be empty when a "&&" follows.                                           *)
(***************************************************************************)
WellFormed ==
  /\ Kind(Len(tokens)) \notin Redirects \cup {"|", "&&"}
  /\ \A i \in Of(Redirects) : Kind(i + 1) = "word"
  /\ \A i \in Positions : StartsStage(i) =>
       \/ Kind(i) \in {"word"} \cup Symbols
       \/ Kind(i) = "&&" /\ i > 1 /\ Kind(i - 1) = "|"
  /\ \A i, j \in Of(Redirects) : i < j /\ Together(i, j) =>
       ~(ToStdout(Kind(i)) /\ ToStdout(Kind(j))) /\ ~(ToStderr(Kind(i)) /\ ToStderr(Kind(j)))
  /\ \A i \in Of(Redirects), j \in Of({"|"}) : i < j /\ Together(i, j) => ~ToStdout(Kind(i))

ArgsOf(c, s) == {i \in Of({"word"} \cup Symbols) : Command(i) = c /\ StageOf(i) = s /\ ~IsFile(i)}
FilesOf(c, s, To(_)) ==
  {i \in Of({"word"}) : Command(i) = c /\ StageOf(i) = s /\ IsFile(i) /\ To(Kind(i - 1))}

\* The stage holds the arguments in their order and the files of its streams.
Says(stage, c, s) ==
  /\ {stage.args[k] : k \in DOMAIN stage.args} = ArgsOf(c, s)
  /\ \A k \in 1 .. Len(stage.args) - 1 : stage.args[k] < stage.args[k + 1]
  /\ {stage.stdout} \ {0} = FilesOf(c, s, ToStdout)
  /\ {stage.stderr} \ {0} = FilesOf(c, s, ToStderr)

------------------------------------------------------------------------------
(* Properties. *)

StageType == [args : Seq(Nat), stdout : Nat, stderr : Nat]

FrameType ==
  [piping : BOOLEAN, stage : StageType, has_stdout : BOOLEAN, has_stderr : BOOLEAN,
   expect_stdout : BOOLEAN, expect_stderr : BOOLEAN, pipe : Seq(StageType), piped : BOOLEAN,
   next : Seq(Seq(StageType)), next_found : BOOLEAN, broken : BOOLEAN]

\* Every position a call has passed is counted once for itself and at most
\* once more for a call that returned to it.
CallsOK ==
  /\ token_index \in 0 .. 2 * Len(tokens)
  /\ frames \in Seq(FrameType)
  /\ commands \in Seq(Seq(StageType))

(***************************************************************************)
(* The types of all variables.                                             *)
(***************************************************************************)
TypeOK == PlacesOK /\ TextsOK /\ CallsOK

OnlyLastRedirects(stages) == \A s \in 1 .. Len(stages) - 1 : stages[s].stdout = 0

\* Of one call: what a stage and the node built from it rest on.
CallInv(f) ==
  /\ f.stage.stdout # 0 \/ f.expect_stdout => f.has_stdout
  /\ ~f.piped => f.pipe = <<>>
  /\ f.piping => f.next = <<>>
  /\ f.next_found => f.broken
  /\ error_start_index = -1 =>
       /\ f.piped => ~f.has_stdout
       /\ OnlyLastRedirects(f.pipe)
       /\ \A c \in 1 .. Len(f.next) : OnlyLastRedirects(f.next[c])

\* An outer call waits at the token that made it call.
Waits(outer, inner) ==
  /\ ~outer.broken /\ outer.stage.args # <<>>
  /\ ~inner.piping => ~outer.piping
  /\ error_start_index = -1 /\ inner.piping => ~outer.has_stdout /\ ~outer.piped

\* After a pipeline comes the end of the line or the "&&" that was given back.
AtAnd(i) == i < Len(tokens) /\ Kind(i + 1) = "&&"

CallPlace ==
  /\ Depth + token_index <= 2 * Len(tokens) + 1
  /\ Depth <= token_index + (IF Call.broken THEN 2 ELSE 1)
  /\ Call.piping /\ ~Call.broken => token_index >= 1
  /\ error_start_index = -1 =>
       /\ Call.piping /\ Call.broken => AtAnd(token_index + 1)
       /\ Call.piped /\ ~Call.broken => token_index >= Len(tokens) \/ AtAnd(token_index)

(***************************************************************************)
(* The calls fit together although they share token_index: a call that     *)
(* waits for a pipe has redirected nothing, one whose pipe has returned    *)
(* goes on at a "&&" or not at all, and no call goes back before its start.*)
(***************************************************************************)
ParserInv ==
  /\ Depth > 0 <=> phase = "parsing"
  /\ phase \notin {"parsing", "parsed"} => token_index = 0 /\ commands = <<>>
  /\ Depth > 0 => ~frames[1].piping /\ CallPlace
  /\ \A k \in 1 .. Depth : CallInv(frames[k])
  /\ \A k \in 1 .. Depth - 1 : Waits(frames[k], frames[k + 1])
  /\ phase = "parsed" /\ error_start_index = -1 =>
       \A c \in 1 .. Len(commands) : OnlyLastRedirects(commands[c])

(***************************************************************************)
(* An error is reported for the lines that are no commands and for no      *)
(* other, although the calls share one token_index, which a "&&" moves     *)
(* back through all the calls of a pipeline.                               *)
(***************************************************************************)
RejectsOnlyMalformed == phase = "parsed" => (error_start_index = -1 <=> WellFormed)

(***************************************************************************)
(* Every token of an accepted line ends up once, in the command, the stage *)
(* and the place it was written in.                                        *)
(***************************************************************************)
ParsesAsWritten ==
  phase = "parsed" /\ error_start_index = -1 =>
    /\ Len(commands) = Command(Len(tokens))
    /\ \A c \in 1 .. Len(commands) :
         /\ Len(commands[c]) = 1 + Cardinality({j \in Of({"|"}) : Command(j) = c})
         /\ \A s \in 1 .. Len(commands[c]) : Says(commands[c][s], c, s)

(***************************************************************************)
(* What the parser accepts meets what Pipeline.tla assumes of a line: only *)
(* the last stage of a pipeline has its output redirected.                 *)
(***************************************************************************)
OnlyLastStageRedirects ==
  phase = "parsed" /\ error_start_index = -1 =>
    \A c \in 1 .. Len(commands) : OnlyLastRedirects(commands[c])

(***************************************************************************)
(* A call whose pipe has returned meets no second "|", and one that has    *)
(* its next command meets nothing: the checks the code makes as a          *)
(* precaution find nothing that was not reported before.                   *)
(***************************************************************************)
PrecautionsFindNothing ==
  InLoop /\ error_start_index = -1 => ~Call.next_found /\ (Call.piped => Token = "&&")

(***************************************************************************)
(* A line of printable characters is parsed or refused, whatever it says:  *)
(* neither the loops over its characters nor the calls that give a token   *)
(* back run for ever.                                                      *)
(***************************************************************************)
Terminates ==
  (\A k \in DOMAIN source : source[k] \notin Unprintable) => <>(phase \in {"parsed", "refused"})
==============================================================================
