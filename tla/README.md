# A verification of the toy shell

The repository is an interactive shell in C for a POSIX terminal: it edits a
line in raw mode, parses it into commands joined by `&&` and pipelines joined
by `|`, and runs them with `fork`, `execvp`, `pipe` and `dup2`. This directory
holds TLA+ modules that model it, the TLC configurations that check them on
small instances, and proofs for every instance checked by TLAPS.

Paths are relative to the repository; most of the code is one translation unit
made of `src/src/*.c`.

## 1. The system

| component | code | state | operations | talks to |
|---|---|---|---|---|
| read-eval loop | `shell.c` `read_eval_shell_loop` | `last_typed_commands`, `last_status_code`, `exit_requested` | one turn per line | everything below |
| line editor | `shell.c` `shell_wait_command_input`, `handle_control_key_pressed` | `Buffer`, `cursor_position`, `next_typed_command_to_show` | one per key | buffer, history, terminal input |
| buffer | `buffer.c` | memory, `buffer_size`, `index` | push, push_at, pop_at, clear, push_all, view | realloc |
| terminal input | `shell.c` `wait_to_read_a_byte`, `try_process_escape_sequence`; `terminal.c` `get_cursor_position` | stdio's buffer, the kernel's queue | read a byte, decode a key, ask for the cursor | the terminal, which answers on the same stream |
| tokenizer | `parser.c` `tokenize`, `try_parse_*` | `Parse_Context.index` | one per kind of token | buffer |
| command parser | `parser.c` `parse_execute_command_node_internal` | `Parse_Context.token_index`, locals of each recursive call | one per kind of token | itself |
| argument substitution | `shell.c` `replace_static_symbols_with_query_info` | arguments of a node | `$?`, `*` | directory, sorting |
| pipeline execution | `shell.c` `shell_convert_…`, `shell_execute_command`; `process_manager.c` | `Process_Parameter` chain, descriptors | open, pipe, fork, dup2, exec, waitpid, close | kernel, children |
| terminal mode | `terminal.c` | `original_config` | `activate_raw_mode`, `deactivate_raw_mode` | kernel, children share the terminal |
| builtins | `shell_builtins.c` | settings, current directory, `exit_requested` | cd, set, help, exit, clear, history | run inside the shell |
| utilities | `utils.c`, `sorting.c`, `list.macro.h` | lists | push, pop_at, sort | |
| reports, debug log, arguments, tests | `shell_report_error`, `debug_log.c`, `command-line-arguments.c`, `src/tests` | none that matters | | |

What is hard here:

- **Concurrency.** The shell runs concurrently with the children of a pipeline,
  with the kernel's pipes between them, and with a user who presses ctrl-C or
  stops a child. `launch_process` nests one call per stage and waits for the
  last stage first.
- **Resources shared by copying.** `fork` copies every open pipe end. Whether
  a pipeline ends depends on who holds which end.
- **One terminal, two owners.** Children need it as the user left it and may
  leave it otherwise, the editor needs it raw, and one static `original_config`
  is overwritten at every hand-over.
- **Failures in the middle.** A file that cannot be opened, a `fork` or a
  `pipe` that fails, a program that cannot be executed, an assertion.
- **Stale memory.** Clearing the buffer clears an index; the word motions look
  at a cell before they compare its index with the size.
- **A recursion with shared state.** Nested parser calls share `token_index`;
  an `&&` inside a pipeline is given back to all callers at once.
- **A stream with two kinds of answers.** Keys and cursor reports arrive on the
  same input.

What makes each part correct: a pipeline's children are all reaped before the
prompt, descriptors do not leak, each stage talks to its neighbours, the
terminal has the mode its user needs, `&&` follows the statuses (pipeline
execution, terminal mode); the line is what the keys say and the screen shows
it, the history is the latest lines (line editor, buffer); the parser accepts
the well-formed lines, and what it builds is what was written (tokenizer,
parser); every byte typed becomes part of one key, in order, and every answer
of the terminal is the one to the latest question (terminal input); what the
loop allocates is freed once and in time, and every command sees the status
and the directory the ones before it left (read-eval loop, substitution).

## 2. The modules

| module | models |
|---|---|
| `FileTable` | the descriptor table of a process under open, pipe, close, dup2, fork: external, as the code uses it |
| `CommandChain` | abstract: a line is pipelines joined by `&&`, run one at a time, every process reaped before the next |
| `Pipeline` | a line from the parser to the next prompt, with its processes; implements `CommandChain` |
| `Buffer` | `buffer.c` as operators on a record |
| `Editing` | abstract: a line, a cursor, the lines entered before, key by key |
| `LineEditor` | the editor and the history, over `Buffer`; implements `Editing` |
| `Tokenizer` | from characters to tokens, a token at a time |
| `CommandParser` | extends `Tokenizer`: the recursive parser as a stack of calls |
| `TerminalInput` | bytes from the user and the terminal, read by `read` and by `getchar` |
| `Lists`, `Sorting` | `list.macro.h`, `sorting.c` as operators |
| `ShellLoop` | a turn of the read-eval loop: substitution, builtins, settings, history, memory |
| `MCPipeline`, `MCLineEditor`, `MCCommandParser`, `MCTerminalInput`, `MCShellLoop` | instances for TLC |
| `PipelineProofs` | theorems: types, children and terminal of `Pipeline`; it implements `CommandChain`; lemmas on `FileTable` |
| `DescriptorProofs` | theorems: descriptors and wiring of `Pipeline` |
| `Recursion` | lemmas: recursive functions, least elements, flattening, which the proofs of the loops use |
| `CommandParserProofs` | theorems: `Tokenizer`, `CommandParser` and the grammar |
| `LineEditorProofs` | theorems: `Buffer` and `LineEditor`; `LineEditor` implements `Editing` |
| `TerminalInputProofs` | theorems: `TerminalInput` |
| `SortingProofs`, `ShellLoopProofs` | theorems: the sort; memory, types and symbols of `ShellLoop` |

Definitions keep the names of the code where there is one. An operator
`X_SomeChange` next to an operator `X` is not part of the model: it is the way
a bug could change `X`, and shows that a property notices.

### Pipeline

One action is one step between two points at which another process can be
noticed: `OpenRedirects` per stage on the way down, `ConnectPipe` per stage on
the way up, `Fork`, `CloseWriteEnd`, `Wait`, `CloseFds` per level of
`launch_process`, `RestoreRawMode`, `CommandReturned`. `level` is the depth of
the recursion; the arguments of the calls are `process_parameter`, so no stack
is needed. `root` is the call whose `revert_raw_mode` is true.

A child is `forked` (a copy of the shell), `running` (it has done its `dup2`
calls and executed a program), `stopped`, `zombie` or `none`. Which program it
runs is abstracted to what its neighbours can notice: it writes a finite
output, writes for ever, copies its input, ends early, or cannot be executed.
Pipes hold `PipeCap` units; a write blocks on a full one and kills its writer
when nobody holds a read end; a read ends when nobody holds a write end. Which
ends are held is read off the tables, nothing else.

`DescriptorInv` says what every descriptor of the shell is for (a standard one,
or the output of a stage whose parameters are still to be closed, or the read
end of its pipe) and that the pipes link neighbours in the shell and in every
child. `leaky` and `pipe_failed` record that the shell took a path that leaves
descriptors open, or one on which `fd[]` was uninitialised; after the second
nothing can be said of the descriptors, and the properties of them say so.

The mode of the terminal is the shell's own `raw` one, or one from outside: the
`cooked` one it was found in, or `changed`, which stands for whatever a program
makes of it. A program of `ModeChangers` may set either while it runs
(`SetsMode`), whatever its descriptors are, and end or be killed without putting
the old one back. `left_mode` records what was last set, and `ModeByPlace` says
what the terminal and `original_config` have to do with it: `activate_raw_mode`
saves whatever it finds, so `original_config` is `left_mode` at the prompt, may
be an older mode while a pipeline runs, and is never `raw`.

Decisions a reader may question:

- The `dup2` calls of a child and its `execvp` are one step. Between them the
  child shares nothing it changes with anyone.
- The build defines `_DEFAULT_SOURCE`, so `signal` has BSD semantics and
  `waitpid` is restarted after a ctrl-C; a forked child that has not yet
  executed its program keeps the shell's empty handler and survives one.
- `waitpid` with `WUNTRACED` also reports a stop; `wait_child_process` loops.
- When `pipe` fails, `fd[]` is uninitialised: any descriptor, or none.
- A name that is a builtin runs as one when it is first in its pipeline or
  follows builtins only; behind a program it is looked for in `PATH`, and is
  modelled as not found.
- `args[0]` is `NULL` for a stage between `|` and `&&`, which the parser
  accepts, and for a first stage `*` in a directory with nothing to name.
- `clear` writes its escape codes to the terminal rather than to its output;
  as that is less output than `BuiltinOutput`, no property depends on it.
- Files are never full and never block.
- A program that has ended changes the mode no more: one that leaves a process
  of its own behind is not modelled. No program sets exactly the shell's raw
  mode, which would be a mode from outside as well.

### LineEditor

One action is one key, from the read that returns it to the next. The buffer
is a record with a memory that covers more than the allocation and starts with
arbitrary bytes, so reading the cell after the text, or after the allocation,
has a meaning. `drawn` and `column` are the line of the terminal: the editor
writes a character at the end of the line wherever the terminal's cursor is,
redraws in the middle, and places the cursor only if the terminal reports
where it is. After a pasted character nothing is placed.

`EvalLine` is what the loop does with a line: blank ones and ones that end in
`\` are dropped, all others are added to the history, also those the parser
refuses. The execution in between is `ShellLoop` and `Pipeline`.

Not modelled: characters of more than one byte, lines wider than the terminal,
rows. ctrl-D is the key; how bytes become keys is `TerminalInput`.

Two facts of the code are in `Editing` because they are visible: DELETE may do
nothing on the last character (it does when the line exactly fills its buffer,
the bound at `shell.c:360` is that of the allocation), and ctrl-C forgets the
line but not the place in the history.

### Tokenizer and CommandParser

An action of `Tokenizer` is one turn of the loop of `tokenize`: blanks are
skipped and one token is taken or refused, with the position an error is
reported at. A character is a member of a small set, one for each the code
tells apart; `Unprintable` are those `isprint` refuses. The loop of
`try_parse_string` is the place where it is left, or never left (`Loops`).
`Writings` says how a token is written, and `Written` where the tokens of a line
stand and what may follow each, without reading anything; the two properties
hold what was read against it, from both sides (`TokensReadBack`,
`ReadsWhatWasMeant`). What the module assumes of its `Lines`, and TLC evaluates,
is what `read_eval_shell_loop` hands over: no NUL among the characters and not
all of them blank; a line written from tokens is printable, since with other
characters `tokenize` may not return.

`frames` is the stack of calls of `parse_execute_command_node_internal`; an
action is a turn of the loop of the innermost call, or its return. Arguments
and files are positions of tokens. The grammar is stated a second time, from
the tokens alone (`WellFormed`, `Says`), without a parser. A stage after `|`
may be empty when `&&` follows: the parser accepts it, and `Pipeline` shows
where that leads.

A call returns to the one that made it for a `|` (`ReturnPipe`), for a `&&`
(`ReturnNext`), or to the reader of the line (`ReturnLine`). `ParserInv` says
what the calls on the stack know of each other: one that waits for its pipe has
redirected nothing, and one whose pipe returned without an error stands at a
`&&` or at the end. `PrecautionsFindNothing` follows: the checks the code makes
"as a precaution" are never the first to find something.
`OnlyLastStageRedirects` ties the parser to the pipeline: it is what `Pipeline`
assumes of its `Lines`, and a theorem.

### TerminalInput

`read` takes bytes from the kernel's queue (`tty`); `getchar` moves all of the
queue to its own buffer (`stream`), which `read` never sees, and remembers for
ever that it once found nothing (`eof`), because nothing calls `clearerr`.
What the user types and the terminal answers comes down one `wire`, byte by
byte. A read waits for a tenth of a second, so an empty queue may time out at
any moment, also while bytes are on their way: then they are late. A key is
its bytes and counts for what the loop does next: ask where the cursor is,
look ahead for a paste, leave the line, abort.

Most of what can go wrong here does go wrong in the code when the user types
while a question is open, sends an unknown sequence, or a byte is late; `causes`
records that. The properties say what holds as long as it is empty,
`Undisturbed`, which includes pastes and the last key of a paste, and type-ahead
is what it excludes. `TypingAheadOnlyLosesKeys` is about type-ahead: keys of one
byte other than `R` (`MayBeLost`), no more than fit in the buffer of an answer.
They may be lost, in front of an answer, which they make none, or behind it,
where `getchar` keeps them in `stream` until the next question; but the line
keeps its row, no assertion is reached and the input does not end. A typed key
that is more is `rash`. `ReportEnds` and `TypeOK` hold always. What the code does
otherwise, as the model shows when the antecedents are dropped:

- A typed `R` before an answer ends the question early. The rest of the answer
  is read as a key and runs into the assertion at `shell.c:414`,
  or stays in `stream`, is taken for the answer to the
  next question, and the cursor goes to an old row.
- An escape sequence typed while `stream` holds something typed ahead is
  completed with that, and aborts the shell.
- After one read of `getchar` that timed out, every escape sequence reads the
  end of the input and runs into the assertion at `shell.c:216`.
- An answer that comes later than the timeout is read as keys, its `ESC` first.
- `activate_raw_mode` and `deactivate_raw_mode` empty the queue but not
  `stream`: what was typed while a program starts is lost, what `getchar` had
  taken is not.
- An input that has ended is a timeout to `wait_to_read_a_byte`, which waits
  for ever, using the processor every tenth of a second or all the time.

`WireInv` is the state of the stream while `causes` is empty: bytes typed and
bytes answered are never on their way together. That
rests on three facts of the code: the digits of a row are those of a number, so
no two rows have the same, the buffer of an answer holds six bytes, and the
known sequences are prefix-free, so a sequence ends where its last byte says.

The comment at `terminal.c:30-33` knows that the input should be empty before
the question; nothing makes it so.

### ShellLoop, Lists, Sorting

A turn of `read_eval_shell_loop`. A line is the tree the parser makes of it or
the way it fails; programs are the status they return. `heap` is the set of
live allocations, each named by what it is for; `misused` records that a step
used or freed what was not live, freed it twice, or wrote past a list's end
(`Lists` keeps `overrun`). The words of a line are owned by the nodes and
borrowed by the process parameters; a symbol is one of two constants, told by
its address, and the first node is a local variable, so neither may be freed.
So is the message of an error, the constant `Literal` when a file could not be
opened and otherwise a copy: the parser allocates one for every error it
reports (`Errors`), also when a call goes on after the one it made has failed,
and only the last is in `context.error` when `ReportError` frees it.
`Memory` takes what a step frees as a sequence, one element for each call of
`free`: that two calls were given the same block (`Twice`) is part of the
model and not lost in a set. `MemoryInv` says who owns which block between two
steps. What the module assumes of its constants is what the parser guarantees
(a parsed line has a command and every command a stage), that a directory has
finitely many entries, and that names and numbers are made of `Parts`.

`Substitute` is the whole of `replace_static_symbols_with_query_info`: `$?`
through `int_to_cstring`, `*` through a directory in any order of `readdir`
and `quick_sort_list`, both loop by loop; the loops are recursive functions
(`Digits`, `Left`, `Substituted`, `partition`). `SymbolsAreCurrent` says the same
without loops: `Starts` is where the texts of each word begin, `Means` what
they are. It replaces the symbols of the first stage of a pipeline only:
in `a | b *` the second program is given a `*`.

`OnlyKnownLeaks` lists what stays allocated, as the code has it: blank lines
and lines ending in `\`; the words of a line the tokenizer refuses; words,
arrays and nodes of one the parser refuses, and every message but the last; the
file names of redirections; the names a Tab lists (`ListedBy`). The lists
themselves are freed where they are made, and a message the parser allocates
for a line without tokens (`shell.c:800`) is never made, since such lines are
skipped before.

## 3. The runs

| run | bounds | shows |
|---|---|---|
| `pipeline_safety` | 11 lines of up to 3 stages and 3 commands, two typed in a behaviour, one signal or stop, two programs that change the mode of the terminal, fork may fail | types and the two inductive invariants, reaping, terminal, descriptors, wiring, refinement of `CommandChain` |
| `pipeline_progress` | 5 lines in which every writer has a reader to the end | every line ends; no deadlock |
| `pipeline_exhausted` | 5 descriptors, 3 lines, a program that changes the mode, fork may fail | reaping and terminal survive a failed `pipe` |
| `pipeline_hang` | `produce \| quit` | *violated*: a line may never end |
| `pipeline_failed_exec` | `missing && quit` | *violated*: what follows a program that cannot be executed does not run |
| `pipeline_no_word` | `builtin \| && quit` | *violated*: the assertion is not reached |
| `editor_keys` | 4 characters, buffer growing by 1, arbitrary old bytes, reports may be lost | types and bounds; every key does what `Editing` says; the screen shows the line |
| `editor_history` | 2 characters, buffer growing by 2, history of 2, 3 lines entered | the history is the latest lines, arrows recall them |
| `parser_grammar` | lines written from all sequences of 3 tokens, of 4 and 6 of the kinds that nest, two words in all quotes around 2 characters, and all lines of 3 to 5 of the characters told apart | nothing is lost or merged, what was meant is read; accepts exactly the well-formed, builds what was written, returns; the inductive invariant of the calls |
| `tokenizer_loops` | lines of 3 characters | *violated*: every character has a branch |
| `terminal_input` | 2 bursts of 1 or 2 keys, 1 after something went wrong, 2 rows, a report of 8 bytes | keys once and in order, no abort, the cursor on its row, undisturbed, and the inductive invariant; typing ahead loses keys at most; every question ends |
| `shell_loop` | 3 turns, 19 lines of up to 2 commands and 3 stages, with up to 2 Tabs and 3 errors, 2 directories, lists growing by 1 from 1, history of 1 | the inductive invariant of the memory; memory, leaks, `$?` and `*` |

Why the bounds are enough. A pipeline of three stages has a first, a middle
and a last one, and two pipes, so an end can be held by a stage that neither
reads nor writes that pipe. A pipe of one unit is full after one write. Five
descriptors let one pipe be made and the next fail. A buffer that grows by
one cell is full after every character, one that grows by two is full and not
full in turn; four characters hold two words with two spaces between them; a
history of two drops its oldest line with the third. Six tokens of the nesting
kinds reach `&&` inside a pipeline inside a `&&`. Two characters inside quotes
are an escape and what it escapes. An answer is six bytes, so a report
of eight lets two keys be typed ahead, one in front of the answer and one behind
it, or both on one side, and any sequence makes it too long; two rows tell an
old answer from a new one; the second burst can arrive at every moment of the
first. A mark set in one turn is replaced in the second and shown in the third; a list that starts with one element grows with the second
and by two steps for the names of a directory; three names are sorted in every
order.

`pipeline_safety` and `pipeline_exhausted` have `CHECK_DEADLOCK FALSE`, because
the system really stops there: the first has pipelines whose reader ends before
its writer (see `pipeline_hang`), and with the arbitrary descriptors of the
second the shell may close its own input or a child may wait for itself. The
other passing runs check for deadlock; the end of a behaviour is an explicit
stuttering step.

**Fairness.** `Pipeline`'s `FairSpec` has weak fairness of the shell's steps
and of each child's: the kernel runs every process that can run. Nothing is
assumed of the user, of signals or of a stopped child. The parser is sequential
code, so weak fairness of its step says only that it is executed.
`TerminalInput` has weak fairness of the shell's steps together: `VMIN` is 0 and
`VTIME` 1, so a read returns within a tenth of a second with or without a byte.
Neither the user, the terminal nor the wire has to do anything. The other runs
need none.

**Divergences.** The four *violated* runs check what a comment or an assertion
of the code says. In short: the comment at `process_manager.c:163` takes closing
the write end for enough; the one at line 149 says the parent handles a failed
exec; `shell.c:836` asserts there is always a word; `parser.c:207` says the
branches cover every character, which `TODO.md:55` knows they do not. Three
more are facts of the models without a run of their own. The message of a failed
exec (`Pipeline!ErrorSink`) is written after the `dup2` calls, so it reaches the
file or the pipe and not the output of the parent, as `process_manager.c:110-111`
announces. `shell.c:414` asserts, of an escape sequence that stops the shell,
that it is unknown, when it may be an answer that a typed `R` cut short. And
`parser.c:625-626` believes that the recursive call has taken every `|`, but
after `a | |` it has failed, the caller goes on, and a third `|` is an error
that replaces the first, whose message is never freed: `ShellLoop` counts it
among the known leaks.

## 4. The proofs

Every theorem holds for every value of the constants that the named assumptions
of the modules allow, and the bounds of the runs (`MaxLines`, `MaxText`,
`MaxBursts`, ...) are constants as well.

| module | theorem | statement |
|---|---|---|
| `PipelineProofs` | `Invariance` | `Spec => []Inv` |
| | `TypeCorrect` | `Spec => []TypeOK` |
| | `NoChildIsLeftBehind` | `Spec => []NoChildLeftBehind` |
| | `TerminalIsOwned` | `Spec => []TerminalOwnership` |
| | `PipelineImplementsCommandChain` | `Spec => ImplementsCommandChain` |
| `DescriptorProofs` | `DescriptorInvariance` | `Spec => [](Inv /\ DescriptorInv)` |
| | `NoDescriptorIsLeaked` | `Spec => []NoDescriptorLeak` |
| | `WriteEndsAreUpstream` | `Spec => []OnlyEarlierStagesHoldWriteEnd` |
| | `NeighboursAreConnected` | `Spec => []PipesConnectNeighbours` |
| `CommandParserProofs` | `ParserInvariance` | `Spec => [](PlacesOK /\ CallsOK /\ ParserInv)` |
| | `TypeCorrect` | `Spec => []TypeOK` |
| | `TokensAreWhatStands` | `Spec => []TokensReadBack` |
| | `ReadsAsMeant` | `Spec => []ReadsWhatWasMeant` |
| | `RedirectsAreLast` | `Spec => []OnlyLastStageRedirects` |
| | `PrecautionsAreSpare` | `Spec => []PrecautionsFindNothing` |
| | `OnlyMalformedIsRejected` | `Spec => []RejectsOnlyMalformed` |
| | `WhatIsWrittenIsParsed` | `Spec => []ParsesAsWritten` |
| `LineEditorProofs` | `TypeCorrectness` | `Spec => []TypeOK` |
| | `ScreenIsTheLine` | `Spec => []ScreenShowsLine` |
| | `HistoryIsTheLatest` | `Spec => []HistoryIsLatest` |
| | `EditorImplementsEditing` | `Spec => ImplementsEditing` |
| `TerminalInputProofs` | `TypeCorrectness` | `Spec => []TypeOK` |
| | `WireInvariance` | `Spec => []WireInv` |
| | `KeysInOrder` | `Spec => []EveryKeyInOrder` |
| | `OnlyDisturbedAborts` | `Spec => []AbortsOnlyDisturbed` |
| | `RowIsKept` | `Spec => []StaysOnItsRow` |
| `SortingProofs` | `QuickSortSorts` | `quick_sort_list` orders any range of any list, exchanges its names among each other and leaves the rest |
| `ShellLoopProofs` | `NumberIsWritten` | what `int_to_cstring` writes reads as the number it was given, without leading zeros |
| | `TypeCorrect` | `Spec => []TypeOK` |
| | `MemoryOwned` | `Spec => []MemoryInv` |
| | `MemorySound` | `Spec => []MemoryIsSound` |
| | `LeaksAreKnown` | `Spec => []OnlyKnownLeaks` |
| | `SymbolsReplaced` | `Spec => []SymbolsAreCurrent` |

`PipelineProofs` begins with lemmas about the descriptor table: every operation
maps tables to tables, the lowest free descriptor is free, and closing or
installing changes one cell.

### Children and terminal

`NoChildLeftBehind` alone is not inductive: that the shell has no child when it
leaves `launch_process` needs to be known while it is still nested. `Inv` adds
*which* stages can have a child at each place: `ChildrenByLevel` says there are
none below `root`, none above `level` once the shell has forked its last stage
or comes back up, and none at `level` before the fork and after the wait. `Wait`
removes the one at `level` and `CloseFds` moves `level` down, so at `root`
nothing is left. `ForkFails` needs the same fact: no stage after it has been
forked. `ModeByPlace` gives the mode of the terminal at every place, because
"not the shell's while a child exists" cannot be carried through a step that
does not know that the hand-over has been made. That a program sets a mode only
while the terminal is handed over is `ChildrenByLevel` again.

### Descriptors

That nothing leaks at the prompt says nothing of the way there. `DescriptorInv`
names the owner of every descriptor at each place (`HeldForStages`), where the
parameters of a stage come from (`ParametersByPlace`), and for each pipe that
its read end is the input of one stage and its write end the output of the stage
before, held by nobody else (`Wire`). A child has a copy of the table of the
moment of its fork, so the same is said of it (`ChildWired`), with the write
ends from its own stage on only: the shell forks the first stage first and
closes the write end of each before it forks the next. `SameWires` ties
the copies: the pipe between two stages is the same in both, which is what
`PipesConnectNeighbours` needs. All of it is claimed only until a `pipe` has
failed, for then `fd[]` is arbitrary.

### Refinement of `CommandChain`

One lemma per step of `CommandChain` says which steps of the shell it stands
for, one that all others leave its variables alone. The one that has work to do
is the step that ends a pipeline: `Complete` requires that no process of it is
left, and `Start` that a process is started after those of all earlier stages.
Both are read off `ChildrenByLevel`. What the children do and what the kernel
does to them is a stutter.

### The tokenizer

That the tokens stand in the line (`TokensAreWhatStands`) grows by one token at a
time: the invariant is `TokensReadBack` itself with the types (`ParserSafe`,
`TextsOK`), because `Written` is about the part of the line before `index`. The
work is in one token. A loop of the code is left at the first place that
satisfies its condition, which is a least element. For a word in quotes the
proof follows the buffer through the loop (`Passed`): at each character what was
pushed, written again with its escapes, is what was passed. A character counts
as escaped or not by the ones before it, so what is escaped is carried along.

The other direction is not the same argument. `ReadSoFar` says that the tokens
read are the first of those meant, at their places, and that only blanks are
left before the next of them. The next one then starts at `Start`, and its
writing decides which branch is taken: a spelling followed by its end is the
longest that fits, a bare word starts like no symbol, and in quotes the escape
of the k-th character begins at `PlaceOf` k, where the buffer holds the k
characters before it, so the quote that closes is the first that is not escaped.

### The calls of the parser

`ParserInv` is about the stack of calls. A call that has met a `|` waits for the
stages after it; that it has not redirected its output is known when it makes
the call and must be remembered until that returns (`Waits`). That a returned
pipeline is followed by `&&` or nothing is what the token given back means for
all callers at once (`CallPlace`); it holds only while no error was found, since
a call that fails leaves wherever it is. The stack is bounded by the tokens
passed, each counted once for the call and once for the token given back.

### The grammar

`RejectsOnlyMalformed` and `ParsesAsWritten` speak of the end of the parser and
of all tokens at once. The first step makes them local: `WellFormed` is
`Fits(i)` for every token `i`, where `Fits` looks at the token and those before
it, and what a command says of the line is said of its first `n` tokens
(`SaysSoFar`, `CommandSays`). Then the stack of calls can be held against a
number of tokens: `Reads(fs, n, m)` says that the first `n` tokens fit, that the
first `m` calls are for commands and the others for stages of the last of these,
and that each holds what `n` tokens say of its stage. Of a call that waits only
what it has and that it awaits no file is said (`Outer`, `Waiting`); of the one
at work also which command and stage the next token belongs to (`AtPlace`), that
its flags are the redirections of its stage (`AtFiles`), and whether its stage
has begun (`AtArgs`).

`n` is not `token_index`. After a pipeline that is followed by `&&` the token is
given back, by every call for a stage in turn, so those calls have read one token
more than `token_index` says until the command's own call reads it again;
`Cursor` is the number that only grows, and the reason that one token read
several times is one separator. Each branch of the loop is then a lemma of its
own: it either reads the token at the cursor (`ReportsOrReads`) or reports it,
and what it reports is a token that does not fit; since tokens never change,
the line is then malformed for good. A return moves no token, but what the call
says moves from its frame to the one that waited, as a stage of its pipeline or
as the commands after its own. When the last call returns the cursor is at the
end, and `Reads` is `WellFormed` and `Says`. `Begun` is needed for the first
turn, which takes a token to be there: a line that is not all blanks and was
not refused has one.

### The editor

`LineTyped`, `Shown` and `HistoryTyped` are the parts of the invariant, each
preserved by itself given the ones before it. The lemmas under them are about
`Buffer`: the loops that move its cells compute what `InsertAt` and `RemoveAt`
say, growth leaves the text alone, the loops over words stop where
`Editing` says although they look at a cell before the line or after it.
The second half of the module, the refinement, has one lemma per key. That ctrl-D requests the exit on an
empty line only (`ExitKnown`) is needed because the loop decides on the flag and
`Editing` on the line.

### The terminal input

`EveryKeyInOrder` needs to know where the rest of what is due is: `WireInv` says
that between keys the bytes on their way are the rest of one burst, that in an
escape sequence they complete a known one, and that while a question is open
they are the answer to it and nothing else. The answer has to be one that is not
yet read to its end, or a later question could find an answer already in `got`.
That the bytes of a burst are again the bytes of a burst after one key was taken
is about flattening a sequence of keys; it is proved without induction, from the
least position at which the two would differ.

### The memory of a turn

`MemoryIsSound` is not inductive: that a block is live when a step uses or frees
it depends on who else has freed it, and words, arrays and nodes are shared. The
invariant names the owner of every block. `NodesInv` says each node is what the
parser made, or, once `Substitute` has been there, has the new array, words of
its own and values of its own, none twice; so the frees of `Release` are of
different blocks, although they walk over all stages of all commands.
`HistoryInv` and `MarkInv` say that lines of the history and the input mark are
older than the line, or the mark of an earlier command of it, so nothing that
the turn frees is theirs, and that no line is in the history twice. `ErrorInv` says that the error is an allocated message only between the parser
and its report, and then the last one. The last
part accounts for the whole heap: a block is reachable, or the line being read,
or one of the known leaks. It makes `OnlyKnownLeaks`, which speaks of the
prompt only, inductive. Each step then has the same shape: what it gained and
what it lost (`MemoryStep`), and what is reachable before and after. `misused`
stays false because what is used is reachable and what is freed is reachable
and not freed twice. That a list is never written past its end
(`HistoryInv`, `PastEnd`) is `PushFits` and `PushAllFits`.

### Numbers, names, symbols

These are facts about recursion, and the library's induction theorems cannot
be used here. Instead of an induction over lists there is one over a range of
integers, from the least place at which the claim would fail (`StepByStep` and
`LeastOf` of `Recursion`), applied to the loops of the code. `NumberIsWritten` follows what is
left of the number from its last digit to its first, and back. `QuickSortSorts`
follows `partition` position by position (what is compared is on the side of
the pivot it belongs to), and the recursion by the length of the range: both
ranges that `partition` leaves are shorter. `SymbolsReplaced` puts them
together: an argument is replaced by the texts its word means (`WordMeans`), the
list only grows at its end, and the texts of a word start where the list ended
before it. Two assumptions are the reason it holds: the names of a directory
are different, and every one has a rank.

### What is only model-checked

Liveness under fairness: `LineEnds`, `ReportEnds`, `Terminates`; and
`TypingAheadOnlyLosesKeys`. Every other invariant the passing runs check is
stated by a theorem, and so is the refinement of
`CommandChain` and of `Editing`. The proofs hold for the models; that the models
are the code is what the map and the comments of the modules are for.

## 5. Not modelled, and why

The wording of error reports (their memory is modelled), the debug log and the
command-line arguments have no state a property could be about; the two flags are the initial values of `colorful` and
`soundful`. The test runner is not part of the program. `>` opens without
`O_TRUNC`, so an older, longer file keeps its end: the content of files is not
modelled. Lines 994-998 of `shell.c` cannot be reached: a line that requests the
exit is empty and skipped before. `malloc` and `realloc` do not fail.
`enable_oflag_opost`, `disable_oflag_opost`, `buffer_pop`, the lists' `pop` and
`release_cstrings_from_tokens` are called by nothing but tests. Characters of
more than one byte, lines wider than the terminal, and the texts of messages are
left out.

## 6. Plan

1. A module that composes `ShellLoop` with `Pipeline`, so that the memory of a
   line is followed through a failed `fork`.
2. `history` writing more into a pipe than it holds before the reader exists
   (`shell.c:846`).
