------------------------------- MODULE Pipeline -------------------------------
(***************************************************************************)
(* One command line of the shell from the moment it is parsed to the next  *)
(* prompt: the chain of commands joined by &&, the pipelines they are made *)
(* of, and the processes and descriptors that run them.                    *)
(*                                                                         *)
(*   read_eval_shell_loop                              (src/shell.c)       *)
(*     shell_convert_execute_command_into_process_parameter                *)
(*     shell_execute_command                                               *)
(*       launch_process                      (src/process_manager.c)       *)
(*       activate_raw_mode, deactivate_raw_mode       (src/terminal.c)     *)
(*                                                                         *)
(* The shell is one process; it runs concurrently with the children it     *)
(* forks, with the kernel's pipes between them and with the user's ctrl-C. *)
(***************************************************************************)
EXTENDS Sequences, FileTable

CONSTANTS
  NoFile,         (* a command without a redirection *)
  BadFiles,       (* names open(2) refuses *)
  Lines,          (* the lines the user may type, parsed *)
  MaxStages,      (* bound: stages of a pipeline *)
  PipeCap,        (* what a pipe holds before its writer blocks *)
  BuiltinOutput,  (* what a builtin writes, in the same unit *)
  MaxOutput,      (* bound: what a "produce" process writes *)
  MaxLines,       (* bound: lines typed in a behaviour *)
  MaxSignals,     (* bound: ctrl-C typed in a behaviour *)
  MaxStops,       (* bound: children stopped in a behaviour *)
  ExitCodes,      (* what a program that ends by itself exits with *)
  ModeChangers,   (* programs that change the mode of the terminal (stty, vi) *)
  ForkMayFail     (* whether fork(2) may return -1 *)

(***************************************************************************)
(* What matters of the program a stage names:                              *)
(*   produce   writes a finite output and exits                            *)
(*   endless   writes for ever (yes)                                       *)
(*   filter    reads its input to the end, writing what it reads (cat)     *)
(*   quit      exits without reading its input to the end (head, true)     *)
(*   missing   cannot be executed                                          *)
(*   builtin   a name of builtin_cstring; exit is the builtin that ends    *)
(*             the loop                                                    *)
(*   empty     no word at all, args[0] is NULL: a stage between "|" and    *)
(*             "&&", or a first stage "*" where there is no file to name     *)
(***************************************************************************)
Builtins == {"builtin", "exit"}
Programs == {"produce", "endless", "filter", "quit", "missing", "empty"} \cup Builtins

Commands == [prog : Programs, out : Files \cup {NoFile}, err : Files \cup {NoFile}]

Levels == 1 .. MaxStages

(***************************************************************************)
(* The lines the parser can produce: at least one command and one stage,   *)
(* and only the last stage of a pipeline redirects its output (the parser  *)
(* refuses a "|" after a ">").                                             *)
(***************************************************************************)
ASSUME PipelineAssumption ==
  /\ MaxStages \in Nat \ {0}
  /\ PipeCap \in Nat \ {0}
  /\ {BuiltinOutput, MaxOutput, MaxLines, MaxSignals, MaxStops} \subseteq Nat
  /\ ExitCodes \subseteq Nat
  /\ ModeChangers \subseteq Programs
  /\ ForkMayFail \in BOOLEAN
  /\ BadFiles \subseteq Files /\ NoFile \notin Files
  /\ Lines \subseteq Seq(Seq(Commands))
  /\ \A l \in Lines :
       /\ Len(l) > 0
       /\ \A i \in 1 .. Len(l) :
            /\ Len(l[i]) \in Levels
            /\ \A k \in 1 .. Len(l[i]) - 1 : l[i][k].out = NoFile

VARIABLES
  pc,                (* where the shell is *)
  line,              (* the command line being executed *)
  current_command,   (* which command of it *)
  level,             (* which stage of that command *)
  process_parameter, (* Process_Parameter of every stage *)
  failed,            (* tried_opening_file_and_failed *)
  root,              (* stage of the launch_process that reverts raw mode *)
  result,            (* what shell_execute_command is about to return *)
  last_status_code,  (* what $? expands to *)
  exit_requested,
  fds,               (* the shell's descriptor table *)
  tty,               (* mode of the terminal *)
  original_config,   (* mode saved by activate_raw_mode *)
  left_mode,         (* history: the mode the terminal had before the shell, or
                        that a program has set since *)
  state,             (* of the child that runs each stage *)
  table,             (* its descriptor table *)
  todo,              (* units it has still to write *)
  status,            (* what waitpid(2) will report of it *)
  queue,             (* units in each pipe *)
  lines_read,        (* counts for MaxLines *)
  signals,           (* counts for MaxSignals and MaxStops *)
  leaky,             (* history: a path that leaves descriptors open was taken *)
  pipe_failed        (* history: a pipe(2) failed *)

lineVars  == <<line, current_command, lines_read>>
shellVars == <<process_parameter, failed, root, result, last_status_code, exit_requested>>
modeVars  == <<tty, original_config, left_mode>>
procVars  == <<state, table, todo, status>>
histVars  == <<leaky, pipe_failed>>
vars == <<pc, level, fds, queue, signals, lineVars, shellVars, modeVars, procVars, histVars>>

PCs == {"prompt", "open", "connect", "execute", "fork", "close_write", "wait",
        "close", "raw", "returned", "exited", "aborted"}

ChildStates == {"none", "forked", "running", "stopped", "zombie"}

\* The raw mode is the one activate_raw_mode makes. A program may set any other,
\* in which ctrl-C may still be a signal: one stands for all of them.
OutsideModes == {"cooked", "changed"}
Modes        == OutsideModes \cup {"raw"}

\* A descriptor or -1, which stands for every number that names no descriptor.
FdOrNone   == Fds \cup {-1}
Parameters == [fd_stdin : FdOrNone, fd_stdout : FdOrNone, fd_stderr : FdOrNone]

\* STATIC_PROCESS_PARAMETER
StaticParameter == [fd_stdin |-> STDIN, fd_stdout |-> STDOUT, fd_stderr |-> STDERR]

Stages   == Len(line[current_command])
Stage(k) == line[current_command][k]

\* pipe_through # NULL
HasPipe(k) == k < Stages

Alive(k) == state[k] \in {"forked", "running", "stopped"}

Init ==
  /\ pc = "prompt" /\ level = 0 /\ line = <<>> /\ current_command = 0
  /\ process_parameter = [k \in Levels |-> StaticParameter]
  /\ failed = FALSE /\ root = 0 /\ result = 0
  /\ last_status_code = 0 /\ exit_requested = FALSE
  /\ fds = BaseTable
  /\ original_config = "cooked" /\ tty = "raw" /\ left_mode = "cooked"
  /\ state = [k \in Levels |-> "none"]
  /\ table = [k \in Levels |-> NoTable]
  /\ todo = [k \in Levels |-> 0]
  /\ status = [k \in Levels |-> 0]
  /\ queue = [p \in PipeIds |-> 0]
  /\ lines_read = 0 /\ signals = 0
  /\ leaky = FALSE /\ pipe_failed = FALSE

------------------------------------------------------------------------------
(* The prompt. *)

\* The variables of one turn of the inner loop.
FreshCommand ==
  /\ process_parameter' = [k \in Levels |-> StaticParameter]
  /\ failed' = FALSE

StartCommand(l, i) ==
  /\ FreshCommand
  /\ line' = l /\ current_command' = i
  /\ pc' = "open" /\ level' = 1

EndLine ==
  /\ FreshCommand
  /\ line' = <<>> /\ current_command' = 0
  /\ pc' = "prompt" /\ level' = 0

\* shell_wait_command_input and shell_parse_command: the next line to execute.
ReadLine ==
  /\ pc = "prompt" /\ ~exit_requested /\ lines_read < MaxLines
  /\ fds[STDIN] = Terminal
  /\ \E l \in Lines : StartCommand(l, 1)
  /\ lines_read' = lines_read + 1
  /\ UNCHANGED <<root, result, last_status_code, exit_requested, fds, queue, signals,
                 modeVars, procVars, histVars>>

\* tcsetattr(STDERR_FILENO, ...) reaches the terminal only through descriptor 2.
SetMode(mode) == IF fds[STDERR] = Terminal THEN mode ELSE tty

\* deactivate_raw_mode
Deactivated_Skipped == tty
Deactivated         == SetMode(original_config)

\* The loop ends and main returns, which runs the atexit handler.
Exit ==
  /\ pc = "prompt" /\ exit_requested
  /\ pc' = "exited"
  /\ tty' = Deactivated
  /\ UNCHANGED <<level, fds, queue, signals, lineVars, shellVars, original_config,
                 left_mode, procVars, histVars>>

------------------------------------------------------------------------------
(* shell_convert_execute_command_into_process_parameter: on the way down the
   chain of stages it opens the redirections, on the way back it makes the
   pipes, so the last pipe of a pipeline is made first. *)

Opens(t, f)   == f \notin BadFiles /\ FreeFds(t) # {}
Refused(t, f) == f # NoFile /\ ~Opens(t, f)

Opened(t, f)         == IF f # NoFile /\ Opens(t, f) THEN Install(t, FileOf(f)) ELSE t
OpenedFd(t, f, deft) == IF f # NoFile /\ Opens(t, f) THEN LowestFree(t) ELSE deft

\* Both streams go to one file, which is then opened once.
OneFile(c) == c.err # NoFile /\ c.err = c.out

OpenRedirects ==
  /\ pc = "open"
  /\ LET c   == Stage(level)
         t   == Opened(fds, c.out)
         out == OpenedFd(fds, c.out, STDOUT)
     IN /\ fds' = IF OneFile(c) THEN t ELSE Opened(t, c.err)
        /\ process_parameter' = [process_parameter EXCEPT ![level] =
             [fd_stdin  |-> STDIN,
              fd_stdout |-> out,
              fd_stderr |-> IF OneFile(c) THEN out ELSE OpenedFd(t, c.err, STDERR)]]
        /\ failed' = (failed \/ Refused(fds, c.out) \/ (~OneFile(c) /\ Refused(t, c.err)))
  /\ \/ /\ HasPipe(level) /\ level' = level + 1 /\ pc' = "open"
     \/ /\ ~HasPipe(level) /\ level > 1 /\ level' = level - 1 /\ pc' = "connect"
     \/ /\ ~HasPipe(level) /\ level = 1 /\ level' = 1 /\ pc' = "execute"
  /\ UNCHANGED <<root, result, last_status_code, exit_requested, queue, signals,
                 lineVars, modeVars, procVars, histVars>>

\* The identity of a new pipe: one that no process has open.
InUse(p)   == \E t \in {fds} \cup {table[k] : k \in Levels} :
                Holds(t, ReadEnd(p)) \/ Holds(t, WriteEnd(p))
FreshPipes == {p \in PipeIds : ~InUse(p)}

Connect_Swapped(r, w) ==
  process_parameter' = [process_parameter EXCEPT ![level].fd_stdout = r,
                                                 ![level + 1].fd_stdin = w]

\* pipe_through->fd_stdin = fd[0] and fd_stdout = fd[1]
Connect(r, w) ==
  process_parameter' = [process_parameter EXCEPT ![level].fd_stdout = w,
                                                 ![level + 1].fd_stdin = r]

ClimbFrom_OneTooFar(k) ==
  IF k = 0 THEN level' = 1 /\ pc' = "execute" ELSE level' = k - 1 /\ pc' = "connect"

ClimbFrom(k) ==
  IF k = 1 THEN level' = 1 /\ pc' = "execute" ELSE level' = k - 1 /\ pc' = "connect"

ConnectPipe ==
  /\ pc = "connect"
  /\ Cardinality(FreeFds(fds)) >= 2
  /\ \E p \in FreshPipes :
       /\ \A q \in FreshPipes : p <= q
       /\ LET t == Install(fds, ReadEnd(p))
          IN /\ fds' = Install(t, WriteEnd(p))
             /\ Connect(LowestFree(fds), LowestFree(t))
       /\ queue' = [queue EXCEPT ![p] = 0]
  /\ ClimbFrom(level)
  /\ UNCHANGED <<failed, root, result, last_status_code, exit_requested, signals,
                 lineVars, modeVars, procVars, histVars>>

\* The result of pipe(2) is not looked at: when it fails, fd[] keeps whatever
\* the stack held, and those numbers become the descriptors of the stages.
PipeFails ==
  /\ pc = "connect"
  /\ Cardinality(FreeFds(fds)) < 2
  /\ \E r, w \in FdOrNone : Connect(r, w)
  /\ leaky' = TRUE /\ pipe_failed' = TRUE
  /\ ClimbFrom(level)
  /\ UNCHANGED <<fds, queue, failed, root, result, last_status_code, exit_requested,
                 signals, lineVars, modeVars, procVars>>

\* "O arquivo nao pode ser aberto": nothing runs, the rest of the line is
\* dropped, $? keeps its value and what was opened stays open.
ReportOpenError ==
  /\ pc = "execute" /\ failed
  /\ EndLine
  /\ leaky' = (leaky \/ \E k \in Levels : process_parameter[k] # StaticParameter)
  /\ UNCHANGED <<root, result, last_status_code, exit_requested, fds, queue, signals,
                 lines_read, modeVars, procVars, pipe_failed>>

------------------------------------------------------------------------------
(* shell_execute_command *)

At(k) == Stage(k).prog

\* abort(3): the assertion on args[0]. The atexit handler does not run.
AssertionFailure ==
  /\ pc = "execute" /\ ~failed /\ At(level) = "empty"
  /\ pc' = "aborted"
  /\ UNCHANGED <<level, fds, queue, signals, lineVars, shellVars, modeVars, procVars, histVars>>

Readers(p) == Holds(fds, ReadEnd(p)) \/ \E k \in Levels : Holds(table[k], ReadEnd(p))
Writers(p) == Holds(fds, WriteEnd(p)) \/ \E k \in Levels : Holds(table[k], WriteEnd(p))

\* n units fit in what is written to.
Fits(sink, n) == sink.kind = "write" => queue[sink.of] + n <= PipeCap
Emit(sink, n) == queue' = IF sink.kind = "write" THEN [queue EXCEPT ![sink.of] = @ + n] ELSE queue

BuiltinSink == LET fd == process_parameter[level].fd_stdout
               IN IF fd \in Fds THEN fds[fd] ELSE Closed

Broken(sink) == sink.kind = "write" /\ ~Readers(sink.of)

\* The value a launch_process or a builtin of stage k returns is the value of
\* the whole pipeline only for its first stage.
Returns(k, r) == result' = IF k = 1 THEN r ELSE result

(***************************************************************************)
(* A builtin runs in the shell itself.  Its write(2) calls return only once*)
(* all its output fits in the pipe: nobody reads that pipe yet.  A builtin *)
(* with a pipe closes its output and passes control to the next stage; no  *)
(* other descriptor of its own is closed.                                  *)
(***************************************************************************)
RunBuiltin ==
  /\ pc = "execute" /\ ~failed /\ At(level) \in Builtins
  /\ ~Broken(BuiltinSink)
  /\ Fits(BuiltinSink, BuiltinOutput)
  /\ Emit(BuiltinSink, BuiltinOutput)
  /\ exit_requested' = (exit_requested \/ At(level) = "exit")
  /\ \E r \in (IF At(level) = "exit" THEN {0} ELSE {0, 1}) : Returns(level, r)
  /\ \/ /\ HasPipe(level)
        /\ fds' = CloseFd(fds, process_parameter[level].fd_stdout)
        /\ level' = level + 1 /\ pc' = "execute"
     \/ /\ ~HasPipe(level)
        /\ fds' = fds
        /\ level' = level /\ pc' = "returned"
  /\ leaky' = (leaky \/ process_parameter[level].fd_stdin # STDIN
                     \/ process_parameter[level].fd_stderr # STDERR
                     \/ (~HasPipe(level) /\ process_parameter[level].fd_stdout # STDOUT))
  /\ UNCHANGED <<process_parameter, failed, root, last_status_code, signals, lineVars,
                 modeVars, procVars, pipe_failed>>

\* SIGPIPE in the shell itself. Its own read end keeps a pipe it made alive; a
\* number left by a failed pipe(2) may be the write end of another.
BuiltinBrokenPipe ==
  /\ pc = "execute" /\ ~failed /\ At(level) \in Builtins
  /\ Broken(BuiltinSink) /\ BuiltinOutput > 0
  /\ pc' = "aborted"
  /\ UNCHANGED <<level, fds, queue, signals, lineVars, shellVars, modeVars, procVars, histVars>>

\* launch_process(process_parameter, true): deactivate_raw_mode.
LaunchProcess ==
  /\ pc = "execute" /\ ~failed /\ At(level) \notin Builtins \cup {"empty"}
  /\ root' = level
  /\ tty' = Deactivated
  /\ pc' = "fork"
  /\ UNCHANGED <<level, fds, queue, signals, lineVars, process_parameter, failed, result,
                 last_status_code, exit_requested, original_config, left_mode, procVars,
                 histVars>>

------------------------------------------------------------------------------
(* launch_process *)

\* The child gets a copy of the whole table.
Fork ==
  /\ pc = "fork"
  /\ state' = [state EXCEPT ![level] = "forked"]
  /\ table' = [table EXCEPT ![level] = fds]
  /\ pc' = "close_write"
  /\ UNCHANGED <<level, fds, queue, signals, lineVars, shellVars, modeVars, todo, status, histVars>>

\* "Internal: Processo filho nao iniciou.": the stages after this one are never
\* launched, and only this stage's descriptors are closed.
ForkFails ==
  /\ pc = "fork" /\ ForkMayFail
  /\ Returns(level, -1)
  /\ pc' = "close"
  /\ leaky' = (leaky \/ HasPipe(level))
  /\ UNCHANGED <<level, fds, queue, signals, lineVars, process_parameter, failed, root,
                 last_status_code, exit_requested, modeVars, procVars, pipe_failed>>

ClosedBeforeNext_Never(t, prm) == t

\* The shell's copy of the write end goes before the reader is launched.
ClosedBeforeNext(t, prm) == CloseFd(t, prm.fd_stdout)

CloseWriteEnd ==
  /\ pc = "close_write"
  /\ \/ /\ HasPipe(level)
        /\ fds' = ClosedBeforeNext(fds, process_parameter[level])
        /\ level' = level + 1 /\ pc' = "fork"
     \/ /\ ~HasPipe(level)
        /\ fds' = fds
        /\ level' = level /\ pc' = "wait"
  /\ UNCHANGED <<queue, signals, lineVars, shellVars, modeVars, procVars, histVars>>

\* waitpid(2) reaps the child it reports only if the child has ended.
AfterReport(s) == IF s = "zombie" THEN "none" ELSE s

Ended_OrStopped(s) == s \in {"zombie", "stopped"}
Ended_NotLooped(s) == TRUE

\* wait_child_process: a stop is reported too (WUNTRACED) and waited past.
Ended(s) == s = "zombie"

Wait ==
  /\ pc = "wait" /\ Ended(state[level])
  /\ Returns(level, status[level])
  /\ state' = [state EXCEPT ![level] = AfterReport(@)]
  /\ status' = [status EXCEPT ![level] = 0]
  /\ pc' = "close"
  /\ UNCHANGED <<level, fds, queue, signals, lineVars, process_parameter, failed, root,
                 last_status_code, exit_requested, modeVars, table, todo, histVars>>

CloseUnless(t, fd, std) == IF fd # std THEN CloseFd(t, fd) ELSE t

ClosedAfter_KeepsStderr(t, prm) ==
  CloseUnless(CloseUnless(t, prm.fd_stdin, STDIN), prm.fd_stdout, STDOUT)

ClosedAfter(t, prm) ==
  CloseUnless(CloseUnless(CloseUnless(t, prm.fd_stdin, STDIN), prm.fd_stdout, STDOUT),
              prm.fd_stderr, STDERR)

Outermost_FirstStage(k) == k = 1

\* Only the launch_process that left raw mode goes back to it.
Outermost(k) == k = root

CloseFds ==
  /\ pc = "close"
  /\ fds' = ClosedAfter(fds, process_parameter[level])
  /\ IF Outermost(level)
     THEN level' = level /\ pc' = "raw"
     ELSE level' = level - 1 /\ pc' = "wait"
  /\ UNCHANGED <<queue, signals, lineVars, shellVars, modeVars, procVars, histVars>>

\* activate_raw_mode(false)
RestoreRawMode ==
  /\ pc = "raw"
  /\ original_config' = IF fds[STDIN] = Terminal THEN tty ELSE original_config
  /\ tty' = SetMode("raw")
  /\ pc' = "returned"
  /\ UNCHANGED <<level, fds, queue, signals, lineVars, shellVars, left_mode, procVars, histVars>>

NextCommand_Stuck(i) == i
NextCommand(i)       == i + 1

Continues_IgnoringStatus(r) == current_command < Len(line)

\* What follows "&&" runs only if the command before it returned 0.
Continues(r) == r = 0 /\ current_command < Len(line)

CommandReturned ==
  /\ pc = "returned"
  /\ last_status_code' = result
  /\ IF Continues(result)
     THEN StartCommand(line, NextCommand(current_command))
     ELSE EndLine
  /\ root' = 0 /\ result' = 0
  /\ UNCHANGED <<exit_requested, fds, queue, signals, lines_read, modeVars, procVars, histVars>>

------------------------------------------------------------------------------
(* The children. *)

Sink(k)   == table[k][STDOUT]
Source(k) == table[k][STDIN]

\* The dup2 calls between fork and exec.
Redirect(t, fd, std) == IF fd > -1 /\ fd # std THEN Dup2(t, fd, std) ELSE t

ChildTable(t, prm) ==
  Redirect(Redirect(Redirect(t, prm.fd_stdin, STDIN), prm.fd_stdout, STDOUT),
           prm.fd_stderr, STDERR)

Die(k, s) ==
  /\ state' = [state EXCEPT ![k] = "zombie"]
  /\ table' = [table EXCEPT ![k] = NoTable]
  /\ todo' = [todo EXCEPT ![k] = 0]
  /\ status' = [status EXCEPT ![k] = s]

childOnly == <<pc, level, lineVars, shellVars, modeVars, fds>>

Executable == {"produce", "endless", "filter", "quit"}

\* dup2 and an execvp that succeeds.
Exec(k) ==
  /\ state[k] = "forked" /\ At(k) \in Executable
  /\ state' = [state EXCEPT ![k] = "running"]
  /\ table' = [table EXCEPT ![k] = ChildTable(@, process_parameter[k])]
  /\ \E n \in (IF At(k) = "produce" THEN 0 .. MaxOutput ELSE {0}) : todo' = [todo EXCEPT ![k] = n]
  /\ UNCHANGED <<childOnly, status, queue, signals, histVars>>

\* _Exit(EXIT_SUCCESS) after the message; with no word to execute execvp and
\* strlen are given a null pointer, which the build may or may not survive.
FailedExecStatuses(prog) == IF prog = "empty" THEN {-1, 0} ELSE {0}

\* The message of a failed exec is written to descriptor 1 of the child, after
\* the dup2 calls.
ErrorSink(t, prm) == ChildTable(t, prm)[STDOUT]

\* dup2 and an execvp that fails; a builtin behind a pipe is looked for in PATH.
ExecFails(k) ==
  /\ state[k] = "forked" /\ At(k) \notin Executable
  /\ LET sink == ErrorSink(table[k], process_parameter[k])
     IN Fits(sink, 1) /\ Emit(sink, 1)
  /\ \E s \in FailedExecStatuses(At(k)) : Die(k, s)
  /\ UNCHANGED <<childOnly, signals, histVars>>

HasOutput(k) == At(k) = "endless" \/ todo[k] > 0

WriteUnit(k) ==
  /\ state[k] = "running" /\ HasOutput(k)
  /\ ~Broken(Sink(k)) /\ Fits(Sink(k), 1) /\ Emit(Sink(k), 1)
  /\ todo' = [todo EXCEPT ![k] = IF @ > 0 THEN @ - 1 ELSE 0]
  /\ UNCHANGED <<childOnly, state, table, status, signals, histVars>>

\* SIGPIPE
BrokenPipe(k) ==
  /\ state[k] = "running" /\ HasOutput(k) /\ Broken(Sink(k))
  /\ Die(k, -1)
  /\ UNCHANGED <<childOnly, queue, signals, histVars>>

ReadUnit(k) ==
  /\ state[k] = "running" /\ At(k) = "filter" /\ ~HasOutput(k)
  /\ Source(k).kind = "read" /\ queue[Source(k).of] > 0
  /\ queue' = [queue EXCEPT ![Source(k).of] = @ - 1]
  /\ todo' = [todo EXCEPT ![k] = 1]
  /\ UNCHANGED <<childOnly, state, table, status, signals, histVars>>

\* A pipe ends when it is empty and no process can write to it; the user ends
\* the input that comes from the terminal.
AtEnd(src) == src.kind = "read" => queue[src.of] = 0 /\ ~Writers(src.of)

Finish(k) ==
  /\ state[k] = "running"
  /\ \/ At(k) = "produce" /\ ~HasOutput(k)
     \/ At(k) = "filter" /\ ~HasOutput(k) /\ AtEnd(Source(k))
     \/ At(k) = "quit"
  /\ \E s \in ExitCodes : Die(k, s)
  /\ UNCHANGED <<childOnly, queue, signals, histVars>>

------------------------------------------------------------------------------
(* Signals, and the terminal. *)

\* ctrl-C while the terminal is not raw. The shell has a handler that does
\* nothing; a child has the same handler until it executes its program.
Interrupt ==
  /\ tty # "raw" /\ pc # "exited" /\ signals < MaxSignals
  /\ \A k \in Levels : state[k] # "stopped"
  /\ LET hit == {k \in Levels : state[k] = "running"}
     IN /\ hit # {}
        /\ state'  = [k \in Levels |-> IF k \in hit THEN "zombie" ELSE state[k]]
        /\ table'  = [k \in Levels |-> IF k \in hit THEN NoTable ELSE table[k]]
        /\ todo'   = [k \in Levels |-> IF k \in hit THEN 0 ELSE todo[k]]
        /\ status' = [k \in Levels |-> IF k \in hit THEN -1 ELSE status[k]]
  /\ signals' = signals + 1
  /\ UNCHANGED <<childOnly, queue, histVars>>

\* Someone stops one child (kill -STOP) and lets it go on.
Suspend(k) ==
  /\ state[k] = "running" /\ signals < MaxStops
  /\ state' = [state EXCEPT ![k] = "stopped"]
  /\ signals' = signals + 1
  /\ UNCHANGED <<childOnly, table, todo, status, queue, histVars>>

Resume(k) ==
  /\ state[k] = "stopped"
  /\ state' = [state EXCEPT ![k] = "running"]
  /\ UNCHANGED <<childOnly, table, todo, status, queue, signals, histVars>>

\* A program has the terminal to itself, whatever its descriptors are: it may
\* change the mode, and may end, or be killed, before it puts the old one back.
SetsMode(k) ==
  /\ state[k] = "running" /\ At(k) \in ModeChangers
  /\ \E mode \in OutsideModes : tty' = mode /\ left_mode' = mode
  /\ UNCHANGED <<pc, level, fds, queue, signals, lineVars, shellVars, original_config,
                 procVars, histVars>>

------------------------------------------------------------------------------
ShellStep ==
  \/ Exit \/ OpenRedirects \/ ConnectPipe \/ PipeFails \/ ReportOpenError
  \/ AssertionFailure \/ RunBuiltin \/ BuiltinBrokenPipe \/ LaunchProcess
  \/ Fork \/ ForkFails \/ CloseWriteEnd \/ Wait \/ CloseFds \/ RestoreRawMode
  \/ CommandReturned

ChildStep(k) == Exec(k) \/ ExecFails(k) \/ WriteUnit(k) \/ BrokenPipe(k) \/ ReadUnit(k) \/ Finish(k)

Environment ==
  \/ ReadLine \/ Interrupt
  \/ \E k \in Levels : Suspend(k) \/ Resume(k) \/ SetsMode(k)

\* The end of a behaviour: the shell is gone, or no more lines are typed.
Done ==
  /\ pc \in {"exited", "aborted"} \/ (pc = "prompt" /\ ~exit_requested /\ lines_read = MaxLines)
  /\ UNCHANGED vars

Next == ShellStep \/ (\E k \in Levels : ChildStep(k)) \/ Environment \/ Done

Spec == Init /\ [][Next]_vars

\* The kernel runs the shell and every child; the user need not type, and
\* signals need not come.
Fairness == WF_vars(ShellStep) /\ \A k \in Levels : WF_vars(ChildStep(k))

FairSpec == Spec /\ Fairness

------------------------------------------------------------------------------
(* Properties. *)

TypeOK ==
  /\ pc \in PCs
  /\ line \in Lines \cup {<<>>}
  /\ current_command \in Nat /\ level \in 0 .. MaxStages
  /\ line # <<>> => current_command \in 1 .. Len(line) /\ level \in 1 .. Stages
  /\ line = <<>> => pc \in {"prompt", "exited"}
  /\ process_parameter \in [Levels -> Parameters]
  /\ failed \in BOOLEAN
  /\ root \in 0 .. MaxStages
  /\ result \in Int /\ last_status_code \in Int
  /\ exit_requested \in BOOLEAN
  /\ fds \in Tables
  /\ tty \in Modes /\ original_config \in Modes /\ left_mode \in OutsideModes
  /\ state \in [Levels -> ChildStates]
  /\ table \in [Levels -> Tables]
  /\ todo \in [Levels -> Nat]
  /\ status \in [Levels -> Int]
  /\ queue \in [PipeIds -> 0 .. PipeCap]
  /\ lines_read \in 0 .. MaxLines /\ signals \in Nat
  /\ leaky \in BOOLEAN /\ pipe_failed \in BOOLEAN

(***************************************************************************)
(* Where the children are while launch_process nests: below the outermost  *)
(* call, and above the current one once it is about to fork or has waited, *)
(* there are none.                                                         *)
(***************************************************************************)
Launching == {"fork", "close_write", "wait", "close", "raw"}

ChildrenByLevel ==
  /\ pc \in Launching => root \in 1 .. level
  /\ \A k \in Levels :
       state[k] # "none" =>
         /\ pc \in Launching \ {"raw"}
         /\ k >= root
         /\ pc \in {"fork", "close"} => k < level
         /\ pc \in {"close_write", "wait"} => k <= level

(***************************************************************************)
(* The mode of the terminal at every place the shell can be.               *)
(***************************************************************************)
ModeByPlace ==
  fds[STDIN] = Terminal /\ fds[STDERR] = Terminal =>
    /\ original_config # "raw"
    /\ pc \in Launching \cup {"exited"} => tty = left_mode
    /\ pc \in PCs \ (Launching \cup {"exited"}) => tty = "raw" /\ original_config = left_mode

\* Inductive: it implies TypeOK and the two invariants that follow.
Inv == TypeOK /\ ChildrenByLevel /\ ModeByPlace

(***************************************************************************)
(* Outside launch_process the shell has no child: every process it forked  *)
(* for a pipeline has ended and was reaped by wait_child_process before    *)
(* launch_process returned, whatever order they ended in, were stopped or  *)
(* failed to be forked.                                                    *)
(***************************************************************************)
NoChildLeftBehind ==
  pc \notin {"fork", "close_write", "wait", "close"} => \A k \in Levels : state[k] = "none"

(***************************************************************************)
(* A child finds the terminal as the user or the last program left it, not *)
(* in the shell's raw mode; the shell has it raw whenever it edits a line  *)
(* or prepares a command, and gives it back as it was last left when it    *)
(* leaves its loop.  original_config never picks up the shell's own raw    *)
(* mode, although activate_raw_mode overwrites it after every command with *)
(* whatever mode it finds, and at the prompt it is never a stale one.      *)
(***************************************************************************)
TerminalOwnership ==
  fds[STDIN] = Terminal /\ fds[STDERR] = Terminal =>
    /\ original_config # "raw"
    /\ (\E k \in Levels : state[k] # "none") => tty = left_mode
    /\ pc \in {"prompt", "open", "connect", "execute"} => tty = "raw" /\ original_config = left_mode
    /\ pc = "exited" => tty = left_mode

------------------------------------------------------------------------------
(* What the descriptors are for, as long as no pipe(2) failed. *)

Standard == {STDIN, STDOUT, STDERR}

\* Nothing closes or replaces the standard descriptors of the shell.
StandardOpen == \A f \in Standard : fds[f] = Terminal

\* Where a stage may have its stream: in the standard descriptor, or in one of
\* its own.
Private(std) == {std} \cup (Fds \ Standard)

\* The pipe between stages k and k + 1 is made on the way back up.
Unpiped(k) == pc = "open" \/ (pc = "connect" /\ k <= level)

(***************************************************************************)
(* A parameter is a standard descriptor or one that was opened for its     *)
(* stage; what a later step of the conversion sets still has its default,  *)
(* so nothing that was opened is overwritten.                              *)
(***************************************************************************)
StageParameters(k) ==
  LET p == process_parameter[k] IN
    /\ p.fd_stdin  \in Private(STDIN)
    /\ p.fd_stdout \in Private(STDOUT)
    /\ ~failed => p.fd_stderr \in Private(STDERR)
    /\ pc = "prompt" \/ (pc = "open" /\ k >= level) => p = StaticParameter
    /\ pc \in {"open", "connect"} /\ k < Stages /\ Unpiped(k) =>
         p.fd_stdout = STDOUT /\ process_parameter[k + 1].fd_stdin = STDIN

ParametersByPlace ==
  /\ pc \in Launching => ~failed
  /\ pc = "connect" => HasPipe(level)
  /\ process_parameter[1].fd_stdin = STDIN
  /\ \A k \in Levels : StageParameters(k)

Owned(k) == {process_parameter[k].fd_stdin, process_parameter[k].fd_stdout,
             process_parameter[k].fd_stderr}

\* The shell has not closed the descriptors of stage k yet.
StillHeld(k) ==
  \/ pc = "open" /\ k < level
  \/ pc = "connect" /\ k <= Stages
  \/ pc = "execute" /\ k \in level .. Stages
  \/ pc \in {"fork", "close_write"} /\ k \in root .. Stages
  \/ pc \in {"wait", "close"} /\ k \in root .. level

\* Every other descriptor the shell has open will still be closed.
HeldForStages ==
  ~leaky /\ pc # "aborted" =>
    \A f \in Fds \ Standard :
      fds[f] # Closed => \E k \in Levels : StillHeld(k) /\ f \in Owned(k)

\* What stage k reads, in a copy of the shell's table.
ReadsFrom(t, k) == t[process_parameter[k].fd_stdin]

\* The write end of the pipe stage k + 1 reads.
WriteEndAfter(t, k) == WriteEnd(ReadsFrom(t, k + 1).of)

(***************************************************************************)
(* In the shell: every stage but the first reads a pipe of its own; its    *)
(* write end is what the stage before it writes, nothing else refers to    *)
(* it, and it is closed when that stage has been launched.                 *)
(***************************************************************************)
Wire(k) ==
  /\ ReadsFrom(fds, k + 1).kind = "read"
  /\ k >= level => fds[process_parameter[k].fd_stdout] = WriteEndAfter(fds, k)
  /\ \A f \in Fds : fds[f] = WriteEndAfter(fds, k) => k >= level /\ f = process_parameter[k].fd_stdout
  /\ \A i \in 1 .. Stages - 1 :
       ~Unpiped(i) /\ ReadsFrom(fds, i + 1) = ReadsFrom(fds, k + 1) => i = k

ShellWired ==
  pc \in {"connect", "execute", "fork", "close_write"} =>
    /\ fds[process_parameter[Stages].fd_stdout].kind \notin {"closed", "write"}
    /\ \A k \in 1 .. Stages - 1 : ~Unpiped(k) => Wire(k)

(***************************************************************************)
(* In a child: it was forked with every read end of the pipeline and the   *)
(* write ends from its own on, and its dup2 calls keep them.               *)
(***************************************************************************)
ChildWired(j) ==
  LET t == table[j] IN
    /\ \A k \in 1 .. Stages - 1 :
         /\ ReadsFrom(t, k + 1).kind = "read"
         /\ Holds(t, WriteEndAfter(t, k)) \/ Holds(fds, WriteEndAfter(t, k)) => k >= j
         /\ \A i \in 1 .. Stages - 1 : ReadsFrom(t, i + 1) = ReadsFrom(t, k + 1) => i = k
    /\ IF HasPipe(j) THEN t[process_parameter[j].fd_stdout] = WriteEndAfter(t, j)
                     ELSE t[process_parameter[j].fd_stdout].kind \notin {"closed", "write"}
    /\ t[STDIN] = IF state[j] = "forked" \/ j = 1 THEN Terminal ELSE ReadsFrom(t, j)
    /\ state[j] # "forked" => t[STDOUT] = t[process_parameter[j].fd_stdout]

\* The same pipes in all of them.
SameWires(t, u) == \A k \in 1 .. Stages - 1 : ReadsFrom(t, k + 1) = ReadsFrom(u, k + 1)

ChildrenWired ==
  \A j \in Levels : Alive(j) =>
    /\ ChildWired(j)
    /\ pc \in {"fork", "close_write"} => SameWires(table[j], fds)
    /\ \A i \in Levels : Alive(i) => SameWires(table[j], table[i])

\* Inductive together with Inv: it implies the three invariants that follow.
DescriptorInv ==
  /\ pipe_failed => leaky
  /\ \A k \in Levels : ~Alive(k) => table[k] = NoTable
  /\ ~pipe_failed => /\ StandardOpen /\ ParametersByPlace /\ HeldForStages
                     /\ ShellWired /\ ChildrenWired

(***************************************************************************)
(* At the prompt the shell holds its three standard descriptors and no     *)
(* other, unless it took one of the paths that leave descriptors open.  In *)
(* particular no path closes a descriptor twice in a way that hits another *)
(* one, although launch_process closes fd_stdout up to three times.        *)
(***************************************************************************)
NoDescriptorLeak == pc = "prompt" /\ ~leaky => fds = BaseTable

(***************************************************************************)
(* The pipe a process reads can be written only by earlier stages: neither *)
(* the shell, nor the process itself, nor a later stage holds its write    *)
(* end, so the end of the earlier stages is the end of the input.  Only a  *)
(* pipe(2) that failed can break it.                                       *)
(***************************************************************************)
OnlyEarlierStagesHoldWriteEnd ==
  ~pipe_failed => \A k \in Levels :
    Source(k).kind = "read" =>
      LET w == WriteEnd(Source(k).of)
      IN ~Holds(fds, w) /\ \A j \in k .. MaxStages : ~Holds(table[j], w)

(***************************************************************************)
(* The pipe that a running stage writes is the one the next stage reads,   *)
(* and the last stage writes to no pipe, unless a pipe(2) failed.          *)
(***************************************************************************)
PipesConnectNeighbours ==
  ~pipe_failed => \A j, k \in Levels :
    state[j] = "running" /\ state[k] = "running" =>
      /\ (Sink(j).kind = "write" /\ Source(k) = ReadEnd(Sink(j).of)) <=> k = j + 1
      /\ ~HasPipe(j) => Sink(j).kind # "write"

\* The detailed shell implements the promise it makes of a command line.
Phase ==
  CASE pc = "prompt"                            -> "idle"
    [] pc \in {"open", "connect", "execute"}    -> "ready"
    [] pc \in {"exited", "aborted"}             -> "stopped"
    [] OTHER                                    -> "running"

Chain == INSTANCE CommandChain
           WITH phase <- Phase, position <- current_command,
                live <- {k \in Levels : state[k] # "none"}

(***************************************************************************)
(* Every step of the shell and of its children is a step of CommandChain.  *)
(***************************************************************************)
ImplementsCommandChain == Chain!Spec

(***************************************************************************)
(* Every line comes to its end: the shell always gets back to the prompt,  *)
(* closing its copy of the write end being all a pipeline needs to finish. *)
(***************************************************************************)
LineEnds == (line # <<>>) ~> (line = <<>>)

(***************************************************************************)
(* The parent handles the error of a program that could not be executed:   *)
(* what follows it after && does not run.                                  *)
(***************************************************************************)
FailedExecIsHandled ==
  [][pc = "returned" /\ pc' = "open" => line[current_command][1].prog # "missing"]_vars

(***************************************************************************)
(* The assertion in shell_execute_command is never reached.                *)
(***************************************************************************)
ArgsAreNeverEmpty == ~(pc = "execute" /\ ~failed /\ At(level) = "empty")
==============================================================================
