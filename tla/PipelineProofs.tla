---------------------------- MODULE PipelineProofs ----------------------------
(***************************************************************************)
(* Theorems about Pipeline.tla, for every value of its constants: any      *)
(* command lines, any number of stages and descriptors, pipes of any size. *)
(***************************************************************************)
EXTENDS Pipeline, FiniteSetTheorems, WellFoundedInduction, TLAPS

------------------------------------------------------------------------------
(* What the operations on a descriptor table return, for every size of it. *)

\* A set of natural numbers that is not empty has a least element.
LEMMA MinOfNaturals ==
  ASSUME NEW S \in SUBSET Nat, S # {}
  PROVE  Min(S) \in S /\ \A y \in S : Min(S) <= y
<1> DEFINE Less == {ss \in Nat \X Nat : ss[1] < ss[2]}
<1>1. IsWellFoundedOn(Less, Nat)
  BY NatLessThanWellFounded DEF OpToRel
<1>2. PICK x \in S : \A y \in S : <<y, x>> \notin Less
  <2> HIDE DEF Less
  <2> QED BY <1>1, WFMin
<1>3. \A a, b \in Nat : a < b => <<a, b>> \in Less
  OBVIOUS
<1>4. ASSUME NEW y \in S PROVE x <= y
  <2> HIDE DEF Less
  <2>1. x \in Nat /\ y \in Nat
    OBVIOUS
  <2>2. ~(y < x)
    BY <1>2, <1>3, <2>1, Zenon
  <2> QED BY <2>1, <2>2
<1> QED BY <1>4 DEF Min

\* The lowest free descriptor of a table that is not full is a free descriptor.
LEMMA LowestFreeIsFree ==
  ASSUME NEW t \in Tables, FreeFds(t) # {}
  PROVE  LowestFree(t) \in Fds /\ t[LowestFree(t)] = Closed
<1>1. FreeFds(t) \in SUBSET Nat
  BY FileTableAssumption DEF FreeFds, Fds
<1>2. LowestFree(t) \in FreeFds(t)
  BY <1>1, MinOfNaturals DEF LowestFree
<1> QED BY <1>2 DEF FreeFds

\* A table that is not full stays a table when a descriptor is installed, and
\* its other descriptors do not change.
LEMMA InstallTable ==
  ASSUME NEW t \in Tables, NEW d \in Descriptions, FreeFds(t) # {}
  PROVE  /\ Install(t, d) \in Tables
         /\ \A f \in Fds : Install(t, d)[f] \in {t[f], d}
BY LowestFreeIsFree DEF Install, Tables

\* Closing a descriptor gives a table in which it and no other is closed.
LEMMA CloseFdTable ==
  ASSUME NEW t \in Tables, NEW fd
  PROVE  /\ CloseFd(t, fd) \in Tables
         /\ \A f \in Fds : CloseFd(t, fd)[f] \in {t[f], Closed}
         /\ \A f \in Fds : f # fd => CloseFd(t, fd)[f] = t[f]
BY DEF CloseFd, IsOpen, Tables, Descriptions

\* Duplicating a descriptor gives a table.
LEMMA Dup2Table ==
  ASSUME NEW t \in Tables, NEW from, NEW to \in Fds
  PROVE  Dup2(t, from, to) \in Tables
BY DEF Dup2, IsOpen, Tables

\* The three standard descriptors are descriptors.
LEMMA StandardFds == {STDIN, STDOUT, STDERR} \subseteq Fds
BY FileTableAssumption DEF STDIN, STDOUT, STDERR, Fds

\* The table a shell starts with, and that of no process, are tables.
LEMMA BaseTables == BaseTable \in Tables /\ NoTable \in Tables
BY DEF BaseTable, NoTable, Tables, Descriptions

------------------------------------------------------------------------------
(* Types, children and the mode of the terminal. *)

\* A stage of a line is a command, and its number a level.
LEMMA StageShape ==
  ASSUME NEW l \in Lines, NEW i \in 1 .. Len(l), NEW k \in 1 .. Len(l[i])
  PROVE  l[i][k] \in Commands
<1>1. l \in Seq(Seq(Commands))
  BY PipelineAssumption
<1> QED BY <1>1

\* A line has at least one stage in every command, and no more than MaxStages.
LEMMA StagesShape ==
  ASSUME NEW l \in Lines
  PROVE  /\ l # <<>> /\ Len(l) \in Nat /\ 1 \in 1 .. Len(l)
         /\ \A i \in 1 .. Len(l) : Len(l[i]) \in 1 .. MaxStages
<1>1. l \in Seq(Seq(Commands)) /\ Len(l) > 0
  BY PipelineAssumption
<1>2. \A i \in 1 .. Len(l) : Len(l[i]) \in 1 .. MaxStages
  BY PipelineAssumption DEF Levels
<1> QED BY <1>1, <1>2

\* While a line is executed, the current stage is a command of it.
LEMMA CurrentStage ==
  ASSUME TypeOK, line # <<>>
  PROVE  /\ line \in Lines /\ current_command \in 1 .. Len(line)
         /\ Len(line) \in Nat /\ Stages \in 1 .. MaxStages
         /\ level \in 1 .. Stages /\ level \in Levels
         /\ Stage(level) \in Commands
<1>1. line \in Lines /\ current_command \in 1 .. Len(line) /\ level \in 1 .. Stages
  BY DEF TypeOK
<1>2. Stages \in 1 .. MaxStages /\ Len(line) \in Nat
  BY <1>1, StagesShape DEF Stages
<1>3. level \in Levels
  BY <1>1, <1>2, PipelineAssumption DEF Levels
<1>4. Stage(level) \in Commands
  BY <1>1, StageShape DEF Stage, Stages
<1> QED BY <1>1, <1>2, <1>3, <1>4

\* Opening a redirection gives a table and a descriptor.
LEMMA OpenedType ==
  ASSUME NEW t \in Tables, NEW f \in Files \cup {NoFile}, NEW deft \in Fds
  PROVE  Opened(t, f) \in Tables /\ OpenedFd(t, f, deft) \in Fds
<1>1. CASE f # NoFile /\ Opens(t, f)
  <2>1. FileOf(f) \in Descriptions /\ FreeFds(t) # {}
    BY <1>1 DEF Descriptions, Opens
  <2> QED BY <1>1, <2>1, InstallTable, LowestFreeIsFree DEF Opened, OpenedFd
<1>2. CASE ~(f # NoFile /\ Opens(t, f))
  BY <1>2 DEF Opened, OpenedFd
<1> QED BY <1>1, <1>2

\* The parameters a command starts with.
LEMMA StaticType == StaticParameter \in Parameters
BY StandardFds DEF StaticParameter, Parameters, FdOrNone

\* The initial state is well typed: an empty line, the standard table.
LEMMA InitTypeOK == Init => TypeOK
<1> SUFFICES ASSUME Init PROVE TypeOK
  OBVIOUS
<1>2. MaxStages \in Nat /\ MaxLines \in Nat /\ PipeCap \in Nat
  BY PipelineAssumption
<1>3. line \in Lines \cup {<<>>} /\ (line = <<>> => pc \in {"prompt", "exited"})
  BY DEF Init
<1>4. /\ queue \in [PipeIds -> 0 .. PipeCap] /\ lines_read \in 0 .. MaxLines
      /\ level \in 0 .. MaxStages /\ root \in 0 .. MaxStages
  BY <1>2 DEF Init
<1>5. fds \in Tables /\ table \in [Levels -> Tables]
  BY BaseTables DEF Init
<1>6. /\ process_parameter \in [Levels -> Parameters]
      /\ state \in [Levels -> ChildStates]
      /\ todo \in [Levels -> Nat] /\ status \in [Levels -> Int]
  BY StaticType DEF Init, ChildStates
<1>7. /\ pc \in PCs /\ current_command \in Nat /\ line = <<>>
      /\ result \in Int /\ last_status_code \in Int /\ signals \in Nat
      /\ tty \in Modes /\ original_config \in Modes /\ left_mode \in OutsideModes
  BY DEF Init, PCs, Modes, OutsideModes
<1>8. /\ failed \in BOOLEAN /\ exit_requested \in BOOLEAN
      /\ leaky \in BOOLEAN /\ pipe_failed \in BOOLEAN
  BY Zenon DEF Init
<1> QED BY <1>3, <1>4, <1>5, <1>6, <1>7, <1>8 DEF TypeOK

\* A mode set by tcsetattr is a mode.
LEMMA SetModeType ==
  ASSUME TypeOK, NEW m \in Modes
  PROVE  SetMode(m) \in Modes
BY DEF TypeOK, SetMode

\* main returning keeps the types.
LEMMA ExitType ==
  ASSUME TypeOK, Exit
  PROVE  TypeOK'
<1>1. tty' \in Modes
  BY SetModeType DEF Exit, Deactivated, TypeOK
<1> QED BY <1>1 DEF Exit, TypeOK, PCs, lineVars, shellVars, procVars, histVars, Stages

\* A line that is read is one of Lines and starts at its first command.
LEMMA ReadLineType ==
  ASSUME TypeOK, ReadLine
  PROVE  TypeOK'
<1>1. PICK l \in Lines : StartCommand(l, 1)
  BY DEF ReadLine
<1>2. line' = l /\ current_command' = 1 /\ level' = 1 /\ pc' = "open"
  BY <1>1 DEF StartCommand
<1>3. process_parameter' \in [Levels -> Parameters] /\ failed' \in BOOLEAN
  BY <1>1, StaticType, Zenon DEF StartCommand, FreshCommand
<1>4. /\ level' \in 0 .. MaxStages /\ line' # <<>> /\ current_command' \in 1 .. Len(line')
      /\ level' \in 1 .. Stages'
  BY <1>2, StagesShape, PipelineAssumption DEF Stages
<1>5. lines_read' \in 0 .. MaxLines
  BY PipelineAssumption DEF ReadLine, TypeOK
<1> QED BY <1>2, <1>3, <1>4, <1>5 DEF ReadLine, TypeOK, PCs, modeVars, procVars, histVars

\* Opening the redirections of a stage keeps the types, even if open(2) fails.
LEMMA OpenRedirectsType ==
  ASSUME TypeOK, OpenRedirects
  PROVE  TypeOK'
<1>1. line # <<>> /\ level \in Levels /\ Stages \in 1 .. MaxStages /\ level \in 1 .. Stages
  BY CurrentStage DEF OpenRedirects, TypeOK
<1> DEFINE c   == Stage(level)
           t   == Opened(fds, c.out)
           out == OpenedFd(fds, c.out, STDOUT)
<1>2. c \in Commands
  BY <1>1, CurrentStage
<1>3. c.out \in Files \cup {NoFile} /\ c.err \in Files \cup {NoFile}
  BY <1>2 DEF Commands
<1>4. t \in Tables /\ out \in Fds
  BY <1>3, OpenedType, StandardFds DEF TypeOK
<1>5. Opened(t, c.err) \in Tables /\ OpenedFd(t, c.err, STDERR) \in Fds
  BY <1>3, <1>4, OpenedType, StandardFds
<1>6. fds' \in Tables
  BY <1>4, <1>5 DEF OpenRedirects
<1>7. process_parameter' \in [Levels -> Parameters]
  <2>1. [fd_stdin  |-> STDIN, fd_stdout |-> out,
         fd_stderr |-> IF OneFile(c) THEN out ELSE OpenedFd(t, c.err, STDERR)] \in Parameters
    BY <1>4, <1>5, StandardFds DEF Parameters, FdOrNone
  <2> HIDE DEF c, t, out
  <2>2. process_parameter' = [process_parameter EXCEPT ![level] =
          [fd_stdin  |-> STDIN, fd_stdout |-> out,
           fd_stderr |-> IF OneFile(c) THEN out ELSE OpenedFd(t, c.err, STDERR)]]
    BY DEF OpenRedirects, c, t, out
  <2> QED BY <2>1, <2>2, <1>1 DEF TypeOK
<1>8. failed' \in BOOLEAN
  BY Zenon DEF OpenRedirects
<1>9. /\ line' = line /\ current_command' = current_command /\ Stages' = Stages
      /\ level' \in 1 .. Stages /\ pc' \in {"open", "connect", "execute"}
  BY <1>1 DEF OpenRedirects, lineVars, HasPipe, Stages
<1>10. UNCHANGED <<root, result, last_status_code, exit_requested, queue, signals,
                   lines_read, modeVars, procVars, histVars>>
  BY DEF OpenRedirects, lineVars
<1>11. level' \in 0 .. MaxStages
  BY <1>1, <1>9, PipelineAssumption
<1> HIDE DEF c, t, out
<1> QED BY <1>1, <1>11, <1>6, <1>7, <1>8, <1>9, <1>10
        DEF TypeOK, PCs, modeVars, procVars, histVars

\* Parameters stay parameters when a pipe is wired into two of them.
LEMMA ConnectType ==
  ASSUME TypeOK, NEW r \in FdOrNone, NEW w \in FdOrNone, Connect(r, w)
  PROVE  process_parameter' \in [Levels -> Parameters]
<1> DEFINE q == [process_parameter EXCEPT ![level] = [@ EXCEPT !.fd_stdout = w]]
<1>1. q \in [Levels -> Parameters]
  BY DEF TypeOK, Parameters
<1>2. process_parameter' = [q EXCEPT ![level + 1] = [@ EXCEPT !.fd_stdin = r]]
  BY DEF Connect
<1> HIDE DEF q
<1> QED BY <1>1, <1>2 DEF Parameters

\* On its way back to the first stage the conversion visits stages of the line.
LEMMA ClimbType ==
  ASSUME TypeOK, line # <<>>, ClimbFrom(level)
  PROVE  /\ level' \in 1 .. Stages /\ level' \in 0 .. MaxStages
         /\ pc' \in {"connect", "execute"}
BY CurrentStage, PipelineAssumption DEF ClimbFrom

\* A table with two free descriptors has one, and has one more after it is used.
LEMMA TwoFree ==
  ASSUME NEW t \in Tables, NEW d \in Descriptions, d # Closed, Cardinality(FreeFds(t)) >= 2
  PROVE  FreeFds(t) # {} /\ FreeFds(Install(t, d)) # {}
<1>1. IsFiniteSet(FreeFds(t))
  <2>1. IsFiniteSet(Fds)
    BY FS_Interval, FileTableAssumption DEF Fds
  <2> QED BY <2>1, FS_Subset DEF FreeFds
<1>2. FreeFds(t) # {}
  BY FS_EmptySet
<1>3. LowestFree(t) \in Fds
  BY <1>2, LowestFreeIsFree
<1>4. FreeFds(Install(t, d)) = FreeFds(t) \ {LowestFree(t)}
  BY <1>3 DEF Install, FreeFds, Tables
<1>5. FreeFds(t) # {LowestFree(t)}
  <2>1. Cardinality({LowestFree(t)}) = 1
    BY FS_Singleton, Zenon
  <2>2. FreeFds(t) = {LowestFree(t)} => Cardinality(FreeFds(t)) = 1
    BY <2>1, Zenon
  <2> QED BY <2>2
<1> QED BY <1>2, <1>4, <1>5

\* Wiring two stages with a pipe keeps the types.
LEMMA ConnectPipeType ==
  ASSUME TypeOK, ConnectPipe
  PROVE  TypeOK'
<1>1. line # <<>>
  BY DEF ConnectPipe, TypeOK
<1>2. PICK p \in FreshPipes :
        LET t == Install(fds, ReadEnd(p))
        IN /\ fds' = Install(t, WriteEnd(p))
           /\ Connect(LowestFree(fds), LowestFree(t))
           /\ queue' = [queue EXCEPT ![p] = 0]
  BY DEF ConnectPipe
<1> DEFINE t == Install(fds, ReadEnd(p))
<1>3. p \in PipeIds /\ ReadEnd(p) \in Descriptions /\ WriteEnd(p) \in Descriptions
  BY DEF FreshPipes, Descriptions
<1>4. ReadEnd(p) # Closed
  BY DEF ReadEnd, Closed
<1>5. FreeFds(fds) # {} /\ FreeFds(t) # {} /\ fds \in Tables
  BY <1>3, <1>4, TwoFree DEF ConnectPipe, TypeOK
<1>6. t \in Tables
  BY <1>3, <1>5, InstallTable
<1>7. fds' \in Tables
  BY <1>2, <1>3, <1>5, <1>6, InstallTable
<1>8. process_parameter' \in [Levels -> Parameters]
  <2>1. LowestFree(fds) \in FdOrNone /\ LowestFree(t) \in FdOrNone
    BY <1>5, <1>6, LowestFreeIsFree DEF FdOrNone
  <2> QED BY <1>2, <2>1, ConnectType
<1>9. queue' \in [PipeIds -> 0 .. PipeCap]
  <2>1. queue' = [queue EXCEPT ![p] = 0] /\ 0 \in 0 .. PipeCap
    BY <1>2, PipelineAssumption
  <2> QED BY <2>1 DEF TypeOK
<1>10. level' \in 1 .. Stages /\ level' \in 0 .. MaxStages /\ pc' \in {"connect", "execute"}
  BY <1>1, ClimbType DEF ConnectPipe
<1>11. UNCHANGED <<failed, root, result, last_status_code, exit_requested, signals,
                   line, current_command, lines_read, modeVars, procVars, histVars>>
  BY DEF ConnectPipe, lineVars
<1>12. Stages' = Stages
  BY <1>11 DEF Stages
<1> HIDE DEF t
<1> QED BY <1>1, <1>7, <1>8, <1>9, <1>10, <1>11, <1>12
        DEF TypeOK, PCs, modeVars, procVars, histVars

\* Whatever fd[] held when pipe(2) failed, the parameters stay parameters.
LEMMA PipeFailsType ==
  ASSUME TypeOK, PipeFails
  PROVE  TypeOK'
<1>1. line # <<>>
  BY DEF PipeFails, TypeOK
<1>2. process_parameter' \in [Levels -> Parameters]
  BY ConnectType DEF PipeFails
<1>3. level' \in 1 .. Stages /\ level' \in 0 .. MaxStages /\ pc' \in {"connect", "execute"}
  BY <1>1, ClimbType DEF PipeFails
<1>4. /\ UNCHANGED <<fds, queue, failed, root, result, last_status_code, exit_requested,
                      signals, line, current_command, lines_read, modeVars, procVars>>
      /\ leaky' = TRUE /\ pipe_failed' = TRUE
  BY DEF PipeFails, lineVars
<1>5. Stages' = Stages
  BY <1>4 DEF Stages
<1> QED BY <1>1, <1>2, <1>3, <1>4, <1>5 DEF TypeOK, PCs, modeVars, procVars

\* Ending the line forgets the command.
LEMMA EndLineType ==
  ASSUME EndLine
  PROVE  /\ line' = <<>> /\ current_command' = 0 /\ pc' = "prompt" /\ level' = 0
         /\ process_parameter' \in [Levels -> Parameters]
         /\ failed' \in BOOLEAN
<1>1. line' = <<>> /\ current_command' = 0 /\ pc' = "prompt" /\ level' = 0
  BY DEF EndLine
<1>2. process_parameter' \in [Levels -> Parameters] /\ failed' \in BOOLEAN
  BY StaticType, Zenon DEF EndLine, FreshCommand
<1> QED BY <1>1, <1>2

\* Giving up on a line whose files cannot be opened keeps the types.
LEMMA ReportOpenErrorType ==
  ASSUME TypeOK, ReportOpenError
  PROVE  TypeOK'
<1>1. leaky' \in BOOLEAN
  BY Zenon DEF ReportOpenError
<1>2. EndLine /\ MaxStages \in Nat
  BY PipelineAssumption DEF ReportOpenError
<1>3. UNCHANGED <<root, result, last_status_code, exit_requested, fds, queue, signals,
                  lines_read, modeVars, procVars, pipe_failed>>
  BY DEF ReportOpenError
<1> QED BY <1>1, <1>2, <1>3, EndLineType DEF TypeOK, PCs, modeVars, procVars

\* The abort of the assertion keeps the types.
LEMMA AssertionFailureType ==
  ASSUME TypeOK, AssertionFailure
  PROVE  TypeOK'
BY DEF AssertionFailure, TypeOK, PCs, lineVars, shellVars, modeVars, procVars, histVars, Stages

\* The death of the shell by SIGPIPE keeps the types.
LEMMA BuiltinBrokenPipeType ==
  ASSUME TypeOK, BuiltinBrokenPipe
  PROVE  TypeOK'
BY DEF BuiltinBrokenPipe, TypeOK, PCs, lineVars, shellVars, modeVars, procVars, histVars, Stages

\* A unit is written only where there is room for it.
LEMMA EmitType ==
  ASSUME TypeOK, NEW sink \in Descriptions, NEW n \in Nat, Fits(sink, n), Emit(sink, n)
  PROVE  queue' \in [PipeIds -> 0 .. PipeCap]
<1>1. CASE sink.kind = "write"
  <2>1. sink.of \in PipeIds
    BY <1>1 DEF Descriptions, Closed, Terminal, FileOf, ReadEnd, WriteEnd
  <2>2. queue[sink.of] + n \in 0 .. PipeCap
    <3>1. queue[sink.of] \in 0 .. PipeCap
      BY <2>1 DEF TypeOK
    <3>2. queue[sink.of] + n <= PipeCap
      BY <1>1 DEF Fits
    <3>3. PipeCap \in Nat
      BY PipelineAssumption
    <3> QED BY <3>1, <3>2, <3>3
  <2> QED BY <1>1, <2>1, <2>2 DEF Emit, TypeOK
<1>2. CASE sink.kind # "write"
  BY <1>2 DEF Emit, TypeOK
<1> QED BY <1>1, <1>2

\* A builtin, which writes to a pipe and may pass control on, keeps the types.
LEMMA RunBuiltinType ==
  ASSUME TypeOK, RunBuiltin
  PROVE  TypeOK'
<1>1. /\ line # <<>> /\ level \in 1 .. Stages /\ level \in Levels
      /\ Stages \in 1 .. MaxStages /\ MaxStages \in Nat
  BY CurrentStage, PipelineAssumption DEF RunBuiltin, TypeOK
<1>2. BuiltinSink \in Descriptions
  BY <1>1 DEF BuiltinSink, TypeOK, Tables, Descriptions
<1>3. queue' \in [PipeIds -> 0 .. PipeCap]
  BY <1>2, EmitType, PipelineAssumption DEF RunBuiltin
<1>4. exit_requested' \in BOOLEAN /\ leaky' \in BOOLEAN
  BY Zenon DEF RunBuiltin
<1>5. result' \in Int
  BY DEF RunBuiltin, Returns, TypeOK
<1>6. /\ fds' \in Tables /\ pc' \in {"execute", "returned"}
      /\ level' \in 1 .. Stages /\ level' \in 0 .. MaxStages
  BY <1>1, CloseFdTable DEF RunBuiltin, HasPipe, TypeOK
<1>7. UNCHANGED <<process_parameter, failed, root, last_status_code, signals,
                  line, current_command, lines_read, modeVars, procVars, pipe_failed>>
  BY DEF RunBuiltin, lineVars
<1>8. Stages' = Stages
  BY <1>7 DEF Stages
<1> QED BY <1>1, <1>3, <1>4, <1>5, <1>6, <1>7, <1>8 DEF TypeOK, PCs, modeVars, procVars

\* Leaving raw mode keeps the types.
LEMMA LaunchProcessType ==
  ASSUME TypeOK, LaunchProcess
  PROVE  TypeOK'
<1>1. tty' \in Modes
  BY SetModeType DEF LaunchProcess, Deactivated, TypeOK
<1> QED BY <1>1 DEF LaunchProcess, TypeOK, PCs, lineVars, procVars, histVars, Stages

\* fork gives the child a table.
LEMMA ForkType ==
  ASSUME TypeOK, Fork
  PROVE  TypeOK'
<1>1. state' \in [Levels -> ChildStates] /\ table' \in [Levels -> Tables]
  BY DEF Fork, TypeOK, ChildStates
<1> QED BY <1>1 DEF Fork, TypeOK, PCs, lineVars, shellVars, modeVars, histVars, Stages

\* A fork that fails keeps the types.
LEMMA ForkFailsType ==
  ASSUME TypeOK, ForkFails
  PROVE  TypeOK'
<1>1. leaky' \in BOOLEAN
  BY Zenon DEF ForkFails
<1>2. result' \in Int
  BY DEF ForkFails, Returns, TypeOK
<1>3. /\ UNCHANGED <<level, fds, queue, signals, line, current_command, lines_read,
                      process_parameter, failed, root, last_status_code, exit_requested,
                      modeVars, procVars, pipe_failed>>
      /\ pc' = "close" /\ pc = "fork"
  BY DEF ForkFails, lineVars
<1> QED BY <1>1, <1>2, <1>3 DEF TypeOK, PCs, modeVars, procVars, Stages

\* Closing the write end before the next stage is launched keeps the types.
LEMMA CloseWriteEndType ==
  ASSUME TypeOK, CloseWriteEnd
  PROVE  TypeOK'
<1>1. /\ line # <<>> /\ level \in 1 .. Stages /\ level \in Levels
      /\ Stages \in 1 .. MaxStages /\ MaxStages \in Nat
  BY CurrentStage, PipelineAssumption DEF CloseWriteEnd, TypeOK
<1>2. /\ fds' \in Tables /\ pc' \in {"fork", "wait"}
      /\ level' \in 1 .. Stages /\ level' \in 0 .. MaxStages
  BY <1>1, CloseFdTable DEF CloseWriteEnd, ClosedBeforeNext, HasPipe, TypeOK
<1>3. Stages' = Stages
  BY DEF CloseWriteEnd, lineVars, Stages
<1> QED BY <1>1, <1>2, <1>3
        DEF CloseWriteEnd, TypeOK, PCs, lineVars, shellVars, modeVars, procVars, histVars

\* Reaping a child keeps the types.
LEMMA WaitType ==
  ASSUME TypeOK, Wait
  PROVE  TypeOK'
<1>1. level \in Levels
  BY CurrentStage DEF Wait, TypeOK
<1>2. result' \in Int /\ state' \in [Levels -> ChildStates] /\ status' \in [Levels -> Int]
  BY <1>1 DEF Wait, Returns, AfterReport, TypeOK, ChildStates
<1> QED BY <1>2 DEF Wait, TypeOK, PCs, lineVars, modeVars, histVars, Stages

\* Closing the descriptors of a stage leaves a table.
LEMMA ClosedAfterTable ==
  ASSUME NEW t \in Tables, NEW prm
  PROVE  /\ ClosedAfter(t, prm) \in Tables
         /\ \A f \in Fds : ClosedAfter(t, prm)[f] \in {t[f], Closed}
<1> DEFINE t1 == CloseUnless(t, prm.fd_stdin, STDIN)
           t2 == CloseUnless(t1, prm.fd_stdout, STDOUT)
           t3 == CloseUnless(t2, prm.fd_stderr, STDERR)
<1>1. t1 \in Tables /\ \A f \in Fds : t1[f] \in {t[f], Closed}
  BY CloseFdTable DEF CloseUnless
<1>2. t2 \in Tables /\ \A f \in Fds : t2[f] \in {t1[f], Closed}
  <2> HIDE DEF t1
  <2> QED BY <1>1, CloseFdTable DEF CloseUnless
<1>3. t3 \in Tables /\ \A f \in Fds : t3[f] \in {t2[f], Closed}
  <2> HIDE DEF t2
  <2> QED BY <1>2, CloseFdTable DEF CloseUnless
<1>4. ClosedAfter(t, prm) = t3
  BY DEF ClosedAfter
<1> HIDE DEF t1, t2, t3
<1> QED BY <1>1, <1>2, <1>3, <1>4

\* The closes at the end of launch_process keep the types.
LEMMA CloseFdsType ==
  ASSUME TypeOK, ChildrenByLevel, CloseFds
  PROVE  TypeOK'
<1>1. /\ line # <<>> /\ level \in 1 .. Stages
      /\ Stages \in 1 .. MaxStages /\ MaxStages \in Nat
  BY CurrentStage, PipelineAssumption DEF CloseFds, TypeOK
<1>2. root \in 1 .. level
  BY DEF CloseFds, ChildrenByLevel, Launching
<1>3. /\ level' \in 1 .. Stages /\ level' \in 0 .. MaxStages /\ pc' \in {"raw", "wait"}
  BY <1>1, <1>2 DEF CloseFds, Outermost
<1>4. fds' \in Tables
  BY ClosedAfterTable DEF CloseFds, TypeOK
<1>5. Stages' = Stages
  BY DEF CloseFds, lineVars, Stages
<1> QED BY <1>1, <1>3, <1>4, <1>5
        DEF CloseFds, TypeOK, PCs, lineVars, shellVars, modeVars, procVars, histVars

\* activate_raw_mode keeps the types.
LEMMA RestoreRawModeType ==
  ASSUME TypeOK, RestoreRawMode
  PROVE  TypeOK'
<1>1. tty' \in Modes /\ original_config' \in Modes
  BY SetModeType DEF RestoreRawMode, TypeOK, Modes
<1> QED BY <1>1 DEF RestoreRawMode, TypeOK, PCs, lineVars, shellVars, procVars, histVars, Stages

\* The decision what to run next keeps the types.
LEMMA CommandReturnedType ==
  ASSUME TypeOK, CommandReturned
  PROVE  TypeOK'
<1>1. /\ line # <<>> /\ line \in Lines /\ current_command \in 1 .. Len(line)
      /\ Len(line) \in Nat /\ MaxStages \in Nat
  BY CurrentStage, PipelineAssumption DEF CommandReturned, TypeOK
<1>2. /\ last_status_code' \in Int /\ root' = 0 /\ result' = 0
      /\ UNCHANGED <<exit_requested, fds, queue, signals, lines_read, modeVars,
                      procVars, histVars>>
  BY DEF CommandReturned, TypeOK
<1>3. CASE Continues(result)
  <2>1. StartCommand(line, current_command + 1)
    BY <1>3 DEF CommandReturned, NextCommand
  <2>2. /\ line' = line /\ current_command' = current_command + 1
        /\ level' = 1 /\ pc' = "open"
    BY <2>1 DEF StartCommand
  <2>3. process_parameter' \in [Levels -> Parameters] /\ failed' \in BOOLEAN
    BY <2>1, StaticType, Zenon DEF StartCommand, FreshCommand
  <2>4. current_command + 1 \in 1 .. Len(line)
    BY <1>1, <1>3 DEF Continues
  <2>5. Stages' \in 1 .. MaxStages
    BY <1>1, <2>2, <2>4, StagesShape DEF Stages
  <2>6. level' \in 1 .. Stages' /\ level' \in 0 .. MaxStages
    BY <1>1, <2>2, <2>5
  <2> QED BY <1>1, <1>2, <2>2, <2>3, <2>4, <2>6 DEF TypeOK, PCs, modeVars, procVars, histVars
<1>4. CASE ~Continues(result)
  <2>1. EndLine
    BY <1>4 DEF CommandReturned
  <2> QED BY <1>1, <1>2, <2>1, EndLineType DEF TypeOK, PCs, modeVars, procVars, histVars
<1> QED BY <1>3, <1>4

(***************************************************************************)
(* The children change nothing of the shell's.                             *)
(***************************************************************************)
LEMMA ChildFrameType ==
  ASSUME TypeOK, UNCHANGED childOnly,
         state' \in [Levels -> ChildStates], table' \in [Levels -> Tables],
         todo' \in [Levels -> Nat], status' \in [Levels -> Int],
         queue' \in [PipeIds -> 0 .. PipeCap], signals' \in Nat,
         UNCHANGED histVars
  PROVE  TypeOK'
BY DEF TypeOK, childOnly, lineVars, shellVars, modeVars, histVars, Stages

\* A child that dies leaves the tables of processes well formed.
LEMMA DieType ==
  ASSUME TypeOK, NEW k \in Levels, NEW s \in Int, Die(k, s)
  PROVE  /\ state' \in [Levels -> ChildStates] /\ table' \in [Levels -> Tables]
         /\ todo' \in [Levels -> Nat] /\ status' \in [Levels -> Int]
BY BaseTables DEF Die, TypeOK, ChildStates

\* The dup2 calls of a child give a table.
LEMMA ChildTableType ==
  ASSUME NEW t \in Tables, NEW prm
  PROVE  ChildTable(t, prm) \in Tables
<1> DEFINE t1 == Redirect(t, prm.fd_stdin, STDIN)
           t2 == Redirect(t1, prm.fd_stdout, STDOUT)
           t3 == Redirect(t2, prm.fd_stderr, STDERR)
<1>1. t1 \in Tables
  BY Dup2Table, StandardFds DEF Redirect
<1>2. t2 \in Tables
  <2> HIDE DEF t1
  <2> QED BY <1>1, Dup2Table, StandardFds DEF Redirect
<1>3. t3 \in Tables
  <2> HIDE DEF t2
  <2> QED BY <1>2, Dup2Table, StandardFds DEF Redirect
<1>4. ChildTable(t, prm) = t3
  BY DEF ChildTable
<1> HIDE DEF t1, t2, t3
<1> QED BY <1>3, <1>4

\* A standard descriptor of a table refers to one of the descriptions.
LEMMA SinkType ==
  ASSUME NEW t \in Tables
  PROVE  /\ t[STDIN] \in Descriptions /\ t[STDOUT] \in Descriptions
         /\ t[STDOUT].kind \in {"closed", "tty", "file", "read", "write"}
         /\ t[STDIN].kind = "read" => t[STDIN].of \in PipeIds
<1>1. t[STDIN] \in Descriptions /\ t[STDOUT] \in Descriptions
  BY StandardFds DEF Tables
<1>2. \A d \in Descriptions :
        /\ d.kind \in {"closed", "tty", "file", "read", "write"}
        /\ d.kind = "read" => d.of \in PipeIds
  BY DEF Descriptions, Closed, Terminal, FileOf, ReadEnd, WriteEnd
<1> QED BY <1>1, <1>2

\* A child that executes its program keeps the types.
LEMMA ExecType ==
  ASSUME TypeOK, NEW k \in Levels, Exec(k)
  PROVE  TypeOK'
<1>1. state' \in [Levels -> ChildStates]
  BY DEF Exec, TypeOK, ChildStates
<1>2. table' \in [Levels -> Tables]
  BY ChildTableType DEF Exec, TypeOK
<1>3. todo' \in [Levels -> Nat]
  <2>1. PICK n \in (IF At(k) = "produce" THEN 0 .. MaxOutput ELSE {0}) :
          todo' = [todo EXCEPT ![k] = n]
    BY DEF Exec
  <2>2. n \in Nat
    BY PipelineAssumption
  <2> QED BY <2>1, <2>2 DEF TypeOK
<1>4. UNCHANGED <<childOnly, status, queue, signals, histVars>>
  BY DEF Exec, histVars
<1> QED BY <1>1, <1>2, <1>3, <1>4, ChildFrameType DEF TypeOK

\* A child that cannot execute its program keeps the types.
LEMMA ExecFailsType ==
  ASSUME TypeOK, NEW k \in Levels, ExecFails(k)
  PROVE  TypeOK'
<1> DEFINE sink == ErrorSink(table[k], process_parameter[k])
<1>1. ChildTable(table[k], process_parameter[k]) \in Tables
  BY ChildTableType DEF TypeOK
<1>2. sink \in Descriptions /\ sink.kind \in {"closed", "tty", "file", "read", "write"}
  BY <1>1, SinkType DEF ErrorSink
<1>3. Fits(sink, 1) /\ Emit(sink, 1)
  BY DEF ExecFails
<1>4. UNCHANGED <<childOnly, signals, histVars>>
  BY DEF ExecFails, histVars
<1>5. PICK s \in {-1, 0} : Die(k, s)
  BY DEF ExecFails, FailedExecStatuses
<1> HIDE DEF sink
<1>6. queue' \in [PipeIds -> 0 .. PipeCap]
  BY <1>2, <1>3, EmitType
<1>7. /\ state' \in [Levels -> ChildStates] /\ table' \in [Levels -> Tables]
      /\ todo' \in [Levels -> Nat] /\ status' \in [Levels -> Int]
  <2>1. s \in Int
    OBVIOUS
  <2> QED BY <1>5, <2>1, DieType
<1>8. signals' \in Nat
  BY <1>4 DEF TypeOK
<1> QED BY <1>4, <1>6, <1>7, <1>8, ChildFrameType

\* A write by a child keeps the types: its pipe is never overfull.
LEMMA WriteUnitType ==
  ASSUME TypeOK, NEW k \in Levels, WriteUnit(k)
  PROVE  TypeOK'
<1>1. Sink(k) \in Descriptions
  BY SinkType DEF Sink, TypeOK
<1>2. queue' \in [PipeIds -> 0 .. PipeCap]
  BY <1>1, EmitType DEF WriteUnit
<1>3. todo' \in [Levels -> Nat]
  BY DEF WriteUnit, TypeOK
<1>4. UNCHANGED <<childOnly, state, table, status, signals, histVars>>
  BY DEF WriteUnit, histVars
<1> QED BY <1>2, <1>3, <1>4, ChildFrameType DEF TypeOK

\* The death of a child by SIGPIPE keeps the types.
LEMMA BrokenPipeType ==
  ASSUME TypeOK, NEW k \in Levels, BrokenPipe(k)
  PROVE  TypeOK'
<1>1. Die(k, -1) /\ UNCHANGED <<childOnly, queue, signals, histVars>>
  BY DEF BrokenPipe, histVars
<1>2. /\ state' \in [Levels -> ChildStates] /\ table' \in [Levels -> Tables]
      /\ todo' \in [Levels -> Nat] /\ status' \in [Levels -> Int]
  <2>1. -1 \in Int
    OBVIOUS
  <2> QED BY <1>1, <2>1, DieType
<1>3. /\ queue' \in [PipeIds -> 0 .. PipeCap] /\ signals' \in Nat
  BY <1>1 DEF TypeOK
<1> QED BY <1>1, <1>2, <1>3, ChildFrameType

\* A read by a child keeps the types: its pipe never holds less than nothing.
LEMMA ReadUnitType ==
  ASSUME TypeOK, NEW k \in Levels, ReadUnit(k)
  PROVE  TypeOK'
<1>1. Source(k).of \in PipeIds
  BY SinkType DEF ReadUnit, Source, TypeOK
<1>2. queue' \in [PipeIds -> 0 .. PipeCap] /\ todo' \in [Levels -> Nat]
  <2> DEFINE p == Source(k).of
  <2>1. p \in PipeIds /\ queue[p] > 0 /\ queue \in [PipeIds -> 0 .. PipeCap]
    BY <1>1 DEF ReadUnit, TypeOK
  <2>2. queue[p] - 1 \in 0 .. PipeCap
    BY <2>1, PipelineAssumption
  <2>3. queue' = [queue EXCEPT ![p] = queue[p] - 1] /\ todo' = [todo EXCEPT ![k] = 1]
    BY DEF ReadUnit
  <2> HIDE DEF p
  <2> QED BY <2>1, <2>2, <2>3 DEF TypeOK
<1>3. UNCHANGED <<childOnly, state, table, status, signals, histVars>>
  BY DEF ReadUnit, histVars
<1> QED BY <1>2, <1>3, ChildFrameType DEF TypeOK

\* A child that ends keeps the types.
LEMMA FinishType ==
  ASSUME TypeOK, NEW k \in Levels, Finish(k)
  PROVE  TypeOK'
<1>1. PICK s \in ExitCodes : Die(k, s)
  BY DEF Finish
<1>2. s \in Int
  BY PipelineAssumption
<1>3. UNCHANGED <<childOnly, queue, signals, histVars>>
  BY DEF Finish, histVars
<1> QED BY <1>1, <1>2, <1>3, DieType, ChildFrameType DEF TypeOK

\* So every step of a child keeps the types.
LEMMA ChildStepType ==
  ASSUME TypeOK, NEW k \in Levels, ChildStep(k)
  PROVE  TypeOK'
BY ExecType, ExecFailsType, WriteUnitType, BrokenPipeType, ReadUnitType, FinishType DEF ChildStep

\* ctrl-C, a stop, a continue and a new mode of the terminal keep the types.
LEMMA SignalType ==
  ASSUME TypeOK, Interrupt \/ \E k \in Levels : Suspend(k) \/ Resume(k) \/ SetsMode(k)
  PROVE  TypeOK'
<1>1. CASE Interrupt
  <2>1. /\ state' \in [Levels -> ChildStates] /\ table' \in [Levels -> Tables]
        /\ todo' \in [Levels -> Nat] /\ status' \in [Levels -> Int] /\ signals' \in Nat
    BY <1>1, BaseTables DEF Interrupt, TypeOK, ChildStates
  <2>2. UNCHANGED <<childOnly, queue, histVars>>
    BY <1>1 DEF Interrupt, histVars
  <2> QED BY <2>1, <2>2, ChildFrameType DEF TypeOK
<1>2. ASSUME NEW k \in Levels, Suspend(k) \/ Resume(k)
      PROVE  TypeOK'
  <2>1. signals' \in Nat /\ \E s \in ChildStates : state' = [state EXCEPT ![k] = s]
    BY <1>2 DEF Suspend, Resume, TypeOK, ChildStates
  <2>2. UNCHANGED <<childOnly, table, todo, status, queue, histVars>>
    BY <1>2 DEF Suspend, Resume, histVars
  <2>3. state' \in [Levels -> ChildStates]
    BY <2>1 DEF TypeOK
  <2> QED BY <2>1, <2>2, <2>3, ChildFrameType DEF TypeOK
<1>3. ASSUME NEW k \in Levels, SetsMode(k)
      PROVE  TypeOK'
  <2>1. tty' \in Modes /\ left_mode' \in OutsideModes
    BY <1>3 DEF SetsMode, Modes
  <2> QED BY <1>3, <2>1 DEF SetsMode, TypeOK, lineVars, shellVars, procVars, histVars, Stages
<1> QED BY <1>1, <1>2, <1>3

\* A step that changes nothing keeps the types.
LEMMA StutterType ==
  ASSUME TypeOK, UNCHANGED vars
  PROVE  TypeOK'
BY DEF TypeOK, vars, lineVars, shellVars, modeVars, procVars, histVars, Stages

\* Every step keeps the types.
LEMMA NextTypeOK ==
  ASSUME TypeOK, ChildrenByLevel, [Next]_vars
  PROVE  TypeOK'
<1>1. CASE ShellStep
  BY <1>1, ExitType, OpenRedirectsType, ConnectPipeType, PipeFailsType, ReportOpenErrorType,
     AssertionFailureType, RunBuiltinType, BuiltinBrokenPipeType, LaunchProcessType, ForkType,
     ForkFailsType, CloseWriteEndType, WaitType, CloseFdsType, RestoreRawModeType,
     CommandReturnedType DEF ShellStep
<1>2. CASE \E k \in Levels : ChildStep(k)
  BY <1>2, ChildStepType
<1>3. CASE Environment
  BY <1>3, ReadLineType, SignalType DEF Environment
<1>4. CASE Done \/ UNCHANGED vars
  BY <1>4, StutterType DEF Done
<1> QED BY <1>1, <1>2, <1>3, <1>4 DEF Next

------------------------------------------------------------------------------
(* Where the children are. *)

\* Outside launch_process there is no child, and no step but the launch of a
\* pipeline enters it.
LEMMA OutsideSteps ==
  ASSUME TypeOK, ChildrenByLevel,
         pc \notin Launching, pc' \notin Launching, state' = state
  PROVE  ChildrenByLevel'
BY DEF ChildrenByLevel, Launching

\* The steps the shell takes outside launch_process leave no child behind.
LEMMA OutsideShell ==
  ASSUME \/ ReadLine \/ Exit \/ OpenRedirects \/ ConnectPipe \/ PipeFails \/ ReportOpenError
         \/ AssertionFailure \/ RunBuiltin \/ BuiltinBrokenPipe \/ CommandReturned
  PROVE  pc \notin Launching /\ pc' \notin Launching /\ state' = state
<1>1. CASE ReadLine
  BY <1>1 DEF ReadLine, StartCommand, Launching, procVars
<1>2. CASE Exit \/ AssertionFailure \/ BuiltinBrokenPipe \/ RunBuiltin \/ OpenRedirects
  BY <1>2 DEF Exit, AssertionFailure, BuiltinBrokenPipe, RunBuiltin, OpenRedirects, Launching, procVars
<1>3. CASE ConnectPipe \/ PipeFails
  BY <1>3 DEF ConnectPipe, PipeFails, ClimbFrom, Launching, procVars
<1>4. CASE ReportOpenError
  BY <1>4 DEF ReportOpenError, EndLine, Launching, procVars
<1>5. CASE CommandReturned
  BY <1>5 DEF CommandReturned, StartCommand, EndLine, Launching, procVars
<1> QED BY <1>1, <1>2, <1>3, <1>4, <1>5

\* On its way down launch_process creates a child for the current stage only.
LEMMA LaunchSteps ==
  ASSUME TypeOK, ChildrenByLevel, LaunchProcess \/ Fork \/ ForkFails \/ CloseWriteEnd
  PROVE  ChildrenByLevel'
<1>1. level \in Levels /\ level \in 1 .. Stages /\ Stages \in Nat
  <2>1. line # <<>>
    BY DEF LaunchProcess, Fork, ForkFails, CloseWriteEnd, TypeOK
  <2> QED BY <2>1, CurrentStage, PipelineAssumption
<1>2. Levels \subseteq Int /\ level \in Int /\ root \in Int
  BY <1>1, PipelineAssumption DEF Levels, TypeOK
<1>3. CASE LaunchProcess
  BY <1>1, <1>2, <1>3 DEF LaunchProcess, ChildrenByLevel, Launching, procVars
<1>4. CASE Fork
  <2>1. /\ pc = "fork" /\ pc' = "close_write" /\ level' = level /\ root' = root
        /\ state' = [state EXCEPT ![level] = "forked"] /\ state \in [Levels -> ChildStates]
    BY <1>4 DEF Fork, shellVars, TypeOK
  <2> QED BY <1>1, <1>2, <2>1 DEF ChildrenByLevel, Launching
<1>5. CASE ForkFails
  BY <1>2, <1>5 DEF ForkFails, ChildrenByLevel, Launching, procVars
<1>6. CASE CloseWriteEnd
  BY <1>1, <1>2, <1>6 DEF CloseWriteEnd, ChildrenByLevel, Launching, procVars, shellVars
<1> QED BY <1>3, <1>4, <1>5, <1>6

\* On its way back launch_process reaps the child of the stage it leaves.
LEMMA ReapSteps ==
  ASSUME TypeOK, ChildrenByLevel, Wait \/ CloseFds \/ RestoreRawMode
  PROVE  ChildrenByLevel'
<1>1. level \in Levels /\ level \in 1 .. Stages /\ Stages \in Nat
  <2>1. line # <<>>
    BY DEF Wait, CloseFds, RestoreRawMode, TypeOK
  <2> QED BY <2>1, CurrentStage, PipelineAssumption
<1>2. Levels \subseteq Int /\ level \in Int /\ root \in Int
  BY <1>1, PipelineAssumption DEF Levels, TypeOK
<1>3. CASE Wait
  <2>1. /\ pc = "wait" /\ pc' = "close" /\ level' = level /\ root' = root
        /\ state' = [state EXCEPT ![level] = "none"] /\ state \in [Levels -> ChildStates]
    BY <1>3 DEF Wait, Ended, AfterReport, TypeOK
  <2> QED BY <1>1, <1>2, <2>1 DEF ChildrenByLevel, Launching
<1>4. CASE CloseFds
  <2>1. /\ pc = "close" /\ root' = root /\ state' = state /\ root \in 1 .. level
        /\ \/ level = root /\ level' = level /\ pc' = "raw"
           \/ level # root /\ level' = level - 1 /\ pc' = "wait"
    BY <1>4 DEF CloseFds, Outermost, procVars, shellVars, ChildrenByLevel, Launching
  <2> QED BY <1>1, <1>2, <2>1 DEF ChildrenByLevel, Launching
<1>5. CASE RestoreRawMode
  BY <1>5 DEF RestoreRawMode, ChildrenByLevel, Launching, procVars
<1> QED BY <1>3, <1>4, <1>5

\* A child neither appears nor disappears by what children and signals do, and
\* these leave the place, the stage and the saved mode of the shell alone. Only a
\* program that sets the mode of the terminal changes it.
LEMMA ChildrenFrame ==
  ASSUME TypeOK,
         \/ \E k \in Levels : ChildStep(k) \/ Suspend(k) \/ Resume(k) \/ SetsMode(k)
         \/ Interrupt
  PROVE  /\ UNCHANGED <<pc, level, root, fds, original_config, line, current_command,
                        last_status_code>>
         /\ \/ UNCHANGED <<tty, left_mode>>
            \/ tty' = left_mode' /\ \E k \in Levels : state[k] # "none"
         /\ \A j \in Levels : state'[j] # "none" <=> state[j] # "none"
<1>1. /\ UNCHANGED <<pc, level, fds, lineVars, shellVars, original_config>>
      /\ \/ UNCHANGED <<tty, left_mode>>
         \/ tty' = left_mode' /\ \E k \in Levels : state[k] # "none"
  BY DEF ChildStep, Exec, ExecFails, WriteUnit, BrokenPipe, ReadUnit, Finish, Suspend, Resume,
         SetsMode, Interrupt, childOnly, modeVars
<1>2. ASSUME NEW k \in Levels, ChildStep(k) \/ Suspend(k) \/ Resume(k) \/ SetsMode(k)
      PROVE  /\ state[k] # "none"
             /\ state' = state \/ \E s \in ChildStates \ {"none"} : state' = [state EXCEPT ![k] = s]
  BY <1>2 DEF ChildStep, Exec, ExecFails, WriteUnit, BrokenPipe, ReadUnit, Finish, Suspend,
              Resume, SetsMode, Die, ChildStates, procVars
<1>3. CASE \E k \in Levels : ChildStep(k) \/ Suspend(k) \/ Resume(k) \/ SetsMode(k)
  <2>1. \A j \in Levels : state'[j] # "none" <=> state[j] # "none"
    BY <1>2, <1>3 DEF TypeOK
  <2> QED BY <1>1, <2>1 DEF shellVars, lineVars
<1>4. CASE Interrupt
  BY <1>1, <1>4 DEF Interrupt, shellVars, lineVars
<1> QED BY <1>3, <1>4

\* The shell starts without children.
LEMMA InitChildrenByLevel == Init => ChildrenByLevel
BY DEF Init, ChildrenByLevel, Launching

\* Every step keeps the children where launch_process expects them.
LEMMA NextChildrenByLevel ==
  ASSUME TypeOK, ChildrenByLevel, [Next]_vars
  PROVE  ChildrenByLevel'
<1>1. CASE ShellStep \/ ReadLine
  BY <1>1, OutsideShell, OutsideSteps, LaunchSteps, ReapSteps DEF ShellStep
<1>2. CASE (\E k \in Levels : ChildStep(k) \/ Suspend(k) \/ Resume(k) \/ SetsMode(k)) \/ Interrupt
  BY <1>2, ChildrenFrame DEF ChildrenByLevel
<1>3. CASE Done \/ UNCHANGED vars
  BY <1>3 DEF Done, vars, procVars, shellVars, ChildrenByLevel
<1> QED BY <1>1, <1>2, <1>3 DEF Next, Environment

------------------------------------------------------------------------------
(* Who owns the terminal. *)

\* Opening a redirection brings no descriptor to the terminal.
LEMMA OpenedNotTerminal ==
  ASSUME NEW t \in Tables, NEW f \in Files \cup {NoFile}, NEW g \in Fds
  PROVE  Opened(t, f)[g] = Terminal => t[g] = Terminal
<1>1. FileOf(f) # Terminal
  BY DEF FileOf, Terminal
<1>2. CASE f # NoFile /\ Opens(t, f)
  <2>1. FileOf(f) \in Descriptions /\ FreeFds(t) # {}
    BY <1>2 DEF Descriptions, Opens
  <2> QED BY <1>1, <1>2, <2>1, InstallTable DEF Opened
<1>3. CASE ~(f # NoFile /\ Opens(t, f))
  BY <1>3 DEF Opened
<1> QED BY <1>2, <1>3

\* No step opens the terminal again.
LEMMA TerminalNeverReopened ==
  ASSUME TypeOK, ShellStep \/ ReadLine, NEW g \in Fds, fds'[g] = Terminal
  PROVE  fds[g] = Terminal
<1>1. CASE OpenRedirects
  <2>1. Stage(level) \in Commands
    BY <1>1, CurrentStage DEF OpenRedirects, TypeOK
  <2> DEFINE c == Stage(level)
             t == Opened(fds, c.out)
  <2>2. c.out \in Files \cup {NoFile} /\ c.err \in Files \cup {NoFile}
    BY <2>1 DEF Commands
  <2>3. t \in Tables
    BY <2>2, OpenedType, StandardFds DEF TypeOK
  <2>4. fds' = t \/ fds' = Opened(t, c.err)
    BY <1>1 DEF OpenRedirects
  <2>5. t[g] = Terminal
    BY <2>2, <2>3, <2>4, OpenedNotTerminal
  <2> QED BY <2>2, <2>5, OpenedNotTerminal DEF TypeOK
<1>2. CASE ConnectPipe
  <2>1. PICK p \in FreshPipes : fds' = Install(Install(fds, ReadEnd(p)), WriteEnd(p))
    BY <1>2 DEF ConnectPipe
  <2> DEFINE t == Install(fds, ReadEnd(p))
  <2>2. /\ p \in PipeIds /\ ReadEnd(p) \in Descriptions /\ WriteEnd(p) \in Descriptions
        /\ ReadEnd(p) # Closed /\ ReadEnd(p) # Terminal /\ WriteEnd(p) # Terminal
    BY DEF FreshPipes, Descriptions, ReadEnd, WriteEnd, Closed, Terminal
  <2>3. FreeFds(fds) # {} /\ FreeFds(t) # {} /\ fds \in Tables
    BY <1>2, <2>2, TwoFree DEF ConnectPipe, TypeOK
  <2>4. t \in Tables /\ t[g] \in {fds[g], ReadEnd(p)}
    BY <2>2, <2>3, InstallTable
  <2>5. fds'[g] \in {t[g], WriteEnd(p)}
    BY <2>1, <2>2, <2>3, <2>4, InstallTable
  <2> QED BY <2>2, <2>4, <2>5
<1>3. CASE RunBuiltin \/ CloseWriteEnd \/ CloseFds
  <2>1. fds'[g] \in {fds[g], Closed}
    BY <1>3, CloseFdTable, ClosedAfterTable
       DEF RunBuiltin, CloseWriteEnd, CloseFds, ClosedBeforeNext, TypeOK
  <2> QED BY <2>1 DEF Closed, Terminal
<1>4. CASE \/ ReadLine \/ Exit \/ PipeFails \/ ReportOpenError \/ AssertionFailure
           \/ BuiltinBrokenPipe \/ LaunchProcess \/ Fork \/ ForkFails \/ Wait
           \/ RestoreRawMode \/ CommandReturned
  BY <1>4 DEF ReadLine, Exit, PipeFails, ReportOpenError, AssertionFailure, BuiltinBrokenPipe,
              LaunchProcess, Fork, ForkFails, Wait, RestoreRawMode, CommandReturned
<1> QED BY <1>1, <1>2, <1>3, <1>4 DEF ShellStep

\* The loop starts in raw mode with the mode it found saved.
LEMMA InitModeByPlace == Init => ModeByPlace
BY DEF Init, ModeByPlace, Launching

\* Most steps of the shell leave the modes alone and stay on one side of the
\* change of mode.
LEMMA ModeKept ==
  ASSUME \/ ReadLine \/ OpenRedirects \/ ConnectPipe \/ PipeFails \/ ReportOpenError
         \/ AssertionFailure \/ RunBuiltin \/ BuiltinBrokenPipe \/ CommandReturned
         \/ Fork \/ ForkFails \/ CloseWriteEnd \/ Wait \/ CloseFds
  PROVE  /\ UNCHANGED modeVars
         /\ pc \in Launching <=> pc' \in Launching
         /\ pc' # "exited"
         /\ pc # "exited"
<1>1. CASE ReadLine \/ OpenRedirects \/ RunBuiltin
  BY <1>1 DEF ReadLine, StartCommand, OpenRedirects, RunBuiltin, Launching
<1>2. CASE ConnectPipe \/ PipeFails
  BY <1>2 DEF ConnectPipe, PipeFails, ClimbFrom, Launching
<1>3. CASE ReportOpenError \/ AssertionFailure \/ BuiltinBrokenPipe
  BY <1>3 DEF ReportOpenError, EndLine, AssertionFailure, BuiltinBrokenPipe, Launching
<1>4. CASE CommandReturned
  BY <1>4 DEF CommandReturned, StartCommand, EndLine, Launching
<1>5. CASE Fork \/ ForkFails \/ CloseWriteEnd \/ Wait \/ CloseFds
  BY <1>5 DEF Fork, ForkFails, CloseWriteEnd, Wait, CloseFds, Launching
<1> QED BY <1>1, <1>2, <1>3, <1>4, <1>5

\* Every step keeps the mode of the terminal tied to the place of the shell.
LEMMA NextModeByPlace ==
  ASSUME TypeOK, TypeOK', ChildrenByLevel, ModeByPlace, [Next]_vars
  PROVE  ModeByPlace'
<1>1. CASE ShellStep \/ ReadLine
  <2> SUFFICES ASSUME fds'[STDIN] = Terminal, fds'[STDERR] = Terminal
               PROVE  /\ original_config' # "raw"
                      /\ pc' \in Launching \cup {"exited"} => tty' = left_mode'
                      /\ pc' \in PCs \ (Launching \cup {"exited"}) =>
                           tty' = "raw" /\ original_config' = left_mode'
    BY DEF ModeByPlace
  <2>1. /\ fds[STDIN] = Terminal /\ fds[STDERR] = Terminal
        /\ original_config # "raw" /\ left_mode # "raw"
        /\ pc \in Launching \cup {"exited"} => tty = left_mode
        /\ pc \in PCs \ (Launching \cup {"exited"}) => tty = "raw" /\ original_config = left_mode
    BY <1>1, TerminalNeverReopened, StandardFds DEF ModeByPlace, TypeOK, OutsideModes
  <2>2. CASE Exit \/ LaunchProcess
    BY <2>1, <2>2 DEF Exit, LaunchProcess, Deactivated, SetMode, Launching, PCs
  <2>3. CASE RestoreRawMode
    BY <2>1, <2>3 DEF RestoreRawMode, SetMode, Launching
  <2>4. CASE ~(Exit \/ LaunchProcess \/ RestoreRawMode)
    <3>1. /\ UNCHANGED modeVars /\ (pc \in Launching <=> pc' \in Launching)
          /\ pc' # "exited" /\ pc # "exited"
      BY <1>1, <2>4, ModeKept DEF ShellStep
    <3>2. UNCHANGED <<tty, original_config, left_mode>> /\ pc \in PCs
      BY <3>1 DEF modeVars, TypeOK
    <3> QED BY <2>1, <3>1, <3>2
  <2> QED BY <2>2, <2>3, <2>4
<1>2. CASE (\E k \in Levels : ChildStep(k) \/ Suspend(k) \/ Resume(k) \/ SetsMode(k)) \/ Interrupt
  BY <1>2, ChildrenFrame DEF ModeByPlace, ChildrenByLevel
<1>3. CASE Done \/ UNCHANGED vars
  BY <1>3 DEF Done, vars, modeVars, ModeByPlace
<1> QED BY <1>1, <1>2, <1>3 DEF Next, Environment

------------------------------------------------------------------------------
(* The theorems. *)

(***************************************************************************)
(* Inv holds in every state of every behaviour.                            *)
(***************************************************************************)
THEOREM Invariance == Spec => []Inv
<1>1. Init => Inv
  BY InitTypeOK, InitChildrenByLevel, InitModeByPlace DEF Inv
<1>2. Inv /\ [Next]_vars => Inv'
  BY NextTypeOK, NextChildrenByLevel, NextModeByPlace DEF Inv
<1> QED BY <1>1, <1>2, PTL DEF Spec

(***************************************************************************)
(* The variables keep their types; in particular the shell always executes *)
(* a stage of the line it was given, and no pipe ever holds more than its  *)
(* capacity (read_eval_shell_loop, launch_process).                        *)
(***************************************************************************)
THEOREM TypeCorrect == Spec => []TypeOK
<1>1. Inv => TypeOK
  BY DEF Inv
<1> QED BY <1>1, Invariance, PTL

(***************************************************************************)
(* launch_process returns to the shell only when every process of the      *)
(* pipeline is reaped, however the children ended, were stopped or failed  *)
(* to be forked, and even when the descriptors of the shell ran out.       *)
(***************************************************************************)
THEOREM NoChildIsLeftBehind == Spec => []NoChildLeftBehind
<1>1. Inv => NoChildLeftBehind
  BY DEF Inv, ChildrenByLevel, NoChildLeftBehind, Launching
<1> QED BY <1>1, Invariance, PTL

(***************************************************************************)
(* deactivate_raw_mode and activate_raw_mode are nested so that children   *)
(* find the mode the user or the last program left, the shell edits in raw *)
(* mode, and original_config never holds that raw mode, whatever modes the *)
(* programs leave behind.                                                  *)
(***************************************************************************)
THEOREM TerminalIsOwned == Spec => []TerminalOwnership
<1>1. Inv => TerminalOwnership
  BY DEF Inv, ChildrenByLevel, ModeByPlace, TerminalOwnership, Launching, PCs
<1> QED BY <1>1, Invariance, PTL

------------------------------------------------------------------------------
(* Pipeline.tla implements CommandChain.tla: one lemma for each step of      *)
(* CommandChain, which says which steps of the shell it stands for, and one  *)
(* for the steps that a reader of CommandChain does not see.                 *)

\* The phase a place of the shell belongs to, before and after a step.
LEMMA PhaseOfPlace ==
  /\ pc = "prompt" => Phase = "idle"
  /\ pc \in {"open", "connect", "execute"} => Phase = "ready"
  /\ pc \in Launching \cup {"returned"} => Phase = "running"
  /\ pc \in {"exited", "aborted"} => Phase = "stopped"
  /\ pc' = "prompt" => Phase' = "idle"
  /\ pc' \in {"open", "connect", "execute"} => Phase' = "ready"
  /\ pc' \in Launching \cup {"returned"} => Phase' = "running"
  /\ pc' \in {"exited", "aborted"} => Phase' = "stopped"
BY DEF Phase, Launching

\* A line that is read is submitted.
LEMMA ReadLineSubmits ==
  ASSUME ReadLine
  PROVE  Chain!Submit
<1>1. PICK l \in Lines : StartCommand(l, 1)
  BY DEF ReadLine
<1>2. line' = l /\ current_command' = 1 /\ pc' = "open" /\ pc = "prompt"
  BY <1>1 DEF StartCommand, ReadLine
<1>3. last_status_code' = last_status_code /\ state' = state
  BY DEF ReadLine, procVars
<1>4. Phase = "idle" /\ Phase' = "ready"
  BY <1>2, PhaseOfPlace
<1> QED BY <1>2, <1>3, <1>4 DEF Chain!Submit

\* A line whose files cannot be opened is refused.
LEMMA ReportOpenErrorRefuses ==
  ASSUME ReportOpenError
  PROVE  Chain!Refuse
<1>1. line' = <<>> /\ current_command' = 0 /\ pc' = "prompt" /\ pc = "execute"
  BY DEF ReportOpenError, EndLine
<1>2. last_status_code' = last_status_code /\ state' = state
  BY DEF ReportOpenError, procVars
<1>3. Phase = "ready" /\ Phase' = "idle"
  BY <1>1, PhaseOfPlace
<1> QED BY <1>1, <1>2, <1>3 DEF Chain!Refuse, Chain!Drop

\* The shell stops by exit, by its assertion or by SIGPIPE.
LEMMA EndsStop ==
  ASSUME Exit \/ AssertionFailure \/ BuiltinBrokenPipe
  PROVE  Chain!Stop
<1>1. pc \in {"prompt", "execute"} /\ pc' \in {"exited", "aborted"}
  BY DEF Exit, AssertionFailure, BuiltinBrokenPipe
<1>2. UNCHANGED <<line, current_command, last_status_code, state>>
  BY DEF Exit, AssertionFailure, BuiltinBrokenPipe, lineVars, shellVars, procVars
<1>3. Phase \in {"idle", "ready"} /\ Phase' = "stopped"
  BY <1>1, PhaseOfPlace
<1> QED BY <1>2, <1>3 DEF Chain!Stop

\* A pipeline is launched when the shell leaves raw mode for its processes, or
\* when its last stage is a builtin.
LEMMA LaunchesLaunch ==
  ASSUME LaunchProcess \/ (RunBuiltin /\ ~HasPipe(level))
  PROVE  Chain!Launch
<1>1. pc = "execute" /\ pc' \in {"fork", "returned"}
  BY DEF LaunchProcess, RunBuiltin
<1>2. UNCHANGED <<line, current_command, last_status_code, state>>
  BY DEF LaunchProcess, RunBuiltin, lineVars, procVars
<1>3. Phase = "ready" /\ Phase' = "running"
  BY <1>1, PhaseOfPlace DEF Launching
<1> QED BY <1>2, <1>3 DEF Chain!Launch

\* A fork starts the process of a stage after all those that live.
LEMMA ForkStarts ==
  ASSUME Inv, Fork
  PROVE  Chain!Run
<1>1. level \in Levels /\ level \in 1 .. Len(line[current_command])
  <2>1. line # <<>>
    BY DEF Fork, Inv, TypeOK
  <2> QED BY <2>1, CurrentStage DEF Inv, Stages
<1>2. UNCHANGED <<line, current_command, last_status_code>>
  BY DEF Fork, lineVars, shellVars
<1>3. pc = "fork" /\ Phase = "running" /\ Phase' = "running"
  BY PhaseOfPlace DEF Fork, Launching
<1>4. \A j \in {k \in Levels : state[k] # "none"} : j < level
  BY <1>3 DEF Inv, ChildrenByLevel
<1>5. {k \in Levels : state'[k] # "none"} = {k \in Levels : state[k] # "none"} \cup {level}
  <2>1. state' = [state EXCEPT ![level] = "forked"] /\ state \in [Levels -> ChildStates]
    BY DEF Fork, Inv, TypeOK
  <2> QED BY <1>1, <2>1
<1>6. Chain!Start(level)
  BY <1>2, <1>3, <1>4, <1>5 DEF Chain!Start
<1> QED BY <1>1, <1>3, <1>6 DEF Chain!Run, Chain!Start

\* What waitpid returns for a stage reaps its process.
LEMMA WaitReaps ==
  ASSUME Inv, Wait
  PROVE  Chain!Run
<1>1. level \in Levels /\ level \in 1 .. Len(line[current_command])
  <2>1. line # <<>>
    BY DEF Wait, Inv, TypeOK
  <2> QED BY <2>1, CurrentStage DEF Inv, Stages
<1>2. UNCHANGED <<line, current_command, last_status_code>>
  BY DEF Wait, lineVars
<1>3. Phase = "running" /\ Phase' = "running"
  BY PhaseOfPlace DEF Wait, Launching
<1>4. state[level] = "zombie" /\ state' = [state EXCEPT ![level] = "none"]
  BY DEF Wait, Ended, AfterReport
<1>5. {k \in Levels : state'[k] # "none"} = {k \in Levels : state[k] # "none"} \ {level}
  BY <1>1, <1>4 DEF Inv, TypeOK
<1>6. Chain!Reap(level)
  BY <1>1, <1>2, <1>3, <1>4, <1>5 DEF Chain!Reap
<1> QED BY <1>1, <1>3, <1>6 DEF Chain!Run, Chain!Reap

\* When shell_execute_command has returned, the pipeline is complete: nothing
\* of it lives, and its status decides what is next.
LEMMA CommandReturnedCompletes ==
  ASSUME Inv, CommandReturned
  PROVE  Chain!Complete
<1>1. pc = "returned" /\ Phase = "running"
  BY PhaseOfPlace DEF CommandReturned
<1>2. \A k \in Levels : state[k] = "none"
  BY <1>1 DEF Inv, ChildrenByLevel, Launching
<1>3. last_status_code' = result /\ result \in Int /\ state' = state
  BY DEF CommandReturned, Inv, TypeOK, procVars
<1>4. CASE Continues(result)
  <2>1. /\ line' = line /\ current_command' = current_command + 1 /\ pc' = "open"
        /\ result = 0 /\ current_command < Len(line)
    BY <1>4 DEF CommandReturned, Continues, NextCommand, StartCommand
  <2>2. Phase' = "ready"
    BY <2>1, PhaseOfPlace
  <2> QED BY <1>1, <1>2, <1>3, <2>1, <2>2 DEF Chain!Complete
<1>5. CASE ~Continues(result)
  <2>1. line' = <<>> /\ current_command' = 0 /\ pc' = "prompt"
    BY <1>5 DEF CommandReturned, EndLine
  <2>2. Phase' = "idle"
    BY <2>1, PhaseOfPlace
  <2>3. ~(result = 0 /\ current_command < Len(line))
    BY <1>5 DEF Continues
  <2> QED BY <1>1, <1>2, <1>3, <2>1, <2>2, <2>3 DEF Chain!Complete, Chain!Drop
<1> QED BY <1>4, <1>5

\* A step that keeps the phase, the command, the status and which stages have
\* a process changes nothing.
LEMMA Unseen ==
  ASSUME Phase' = Phase, UNCHANGED <<line, current_command, last_status_code>>,
         \A k \in Levels : state'[k] # "none" <=> state[k] # "none"
  PROVE  UNCHANGED Chain!vars
<1>1. {k \in Levels : state'[k] # "none"} = {k \in Levels : state[k] # "none"}
  OBVIOUS
<1> QED BY <1>1 DEF Chain!vars

\* Preparing a command, passing from a builtin to the next stage, and all of
\* launch_process but fork and wait.
LEMMA ShellUnseen ==
  ASSUME \/ OpenRedirects \/ ConnectPipe \/ PipeFails \/ (RunBuiltin /\ HasPipe(level))
         \/ ForkFails \/ CloseWriteEnd \/ CloseFds \/ RestoreRawMode
  PROVE  UNCHANGED Chain!vars
<1>1. UNCHANGED <<line, current_command, last_status_code, state>>
  BY DEF OpenRedirects, ConnectPipe, PipeFails, RunBuiltin, ForkFails, CloseWriteEnd, CloseFds,
         RestoreRawMode, lineVars, shellVars, procVars
<1>2. CASE OpenRedirects \/ ConnectPipe \/ PipeFails \/ (RunBuiltin /\ HasPipe(level))
  <2>1. pc \in {"open", "connect", "execute"} /\ pc' \in {"open", "connect", "execute"}
    BY <1>2 DEF OpenRedirects, ConnectPipe, PipeFails, ClimbFrom, RunBuiltin
  <2>2. Phase' = Phase
    BY <2>1, PhaseOfPlace
  <2> QED BY <1>1, <2>2, Unseen
<1>3. CASE ForkFails \/ CloseWriteEnd \/ CloseFds \/ RestoreRawMode
  <2>1. pc \in Launching \cup {"returned"} /\ pc' \in Launching \cup {"returned"}
    BY <1>3 DEF ForkFails, CloseWriteEnd, CloseFds, RestoreRawMode, Launching
  <2>2. Phase' = Phase
    BY <2>1, PhaseOfPlace
  <2> QED BY <1>1, <2>2, Unseen
<1> QED BY <1>2, <1>3

\* What the children do, and what is done to them.
LEMMA ChildrenUnseen ==
  ASSUME TypeOK,
         \/ \E k \in Levels : ChildStep(k) \/ Suspend(k) \/ Resume(k) \/ SetsMode(k)
         \/ Interrupt
  PROVE  UNCHANGED Chain!vars
<1>1. pc' = pc
  BY ChildrenFrame
<1>2. Phase' = Phase
  BY <1>1 DEF Phase
<1> QED BY <1>2, ChildrenFrame, Unseen

\* Every step is a step of CommandChain, or changes nothing of it.
LEMMA NextImplements ==
  ASSUME Inv, [Next]_vars
  PROVE  [Chain!Next]_(Chain!vars)
<1>1. CASE ReadLine \/ ReportOpenError \/ Exit \/ AssertionFailure \/ BuiltinBrokenPipe
  BY <1>1, ReadLineSubmits, ReportOpenErrorRefuses, EndsStop DEF Chain!Next
<1>2. CASE LaunchProcess \/ Fork \/ Wait \/ CommandReturned
  BY <1>2, LaunchesLaunch, ForkStarts, WaitReaps, CommandReturnedCompletes DEF Chain!Next
<1>3. CASE RunBuiltin
  BY <1>3, LaunchesLaunch, ShellUnseen DEF Chain!Next
<1>4. CASE \/ OpenRedirects \/ ConnectPipe \/ PipeFails
           \/ ForkFails \/ CloseWriteEnd \/ CloseFds \/ RestoreRawMode
  BY <1>4, ShellUnseen
<1>5. CASE (\E k \in Levels : ChildStep(k) \/ Suspend(k) \/ Resume(k) \/ SetsMode(k)) \/ Interrupt
  BY <1>5, ChildrenUnseen DEF Inv
<1>6. CASE Done \/ UNCHANGED vars
  <2>1. UNCHANGED <<pc, line, current_command, last_status_code, state>>
    BY <1>6 DEF Done, vars, lineVars, shellVars, procVars
  <2>2. Phase' = Phase
    BY <2>1 DEF Phase
  <2> QED BY <2>1, <2>2, Unseen
<1> QED BY <1>1, <1>2, <1>3, <1>4, <1>5, <1>6 DEF Next, ShellStep, Environment

\* The shell starts idle, without a line and without processes.
LEMMA InitImplements == Init => Chain!Init
<1> SUFFICES ASSUME Init PROVE Chain!Init
  OBVIOUS
<1>1. Phase = "idle"
  BY PhaseOfPlace DEF Init
<1>2. {k \in Levels : state[k] # "none"} = {}
  BY DEF Init
<1> QED BY <1>1, <1>2 DEF Init, Chain!Init

(***************************************************************************)
(* Every behaviour of the shell, its children, its user and the kernel is  *)
(* one of CommandChain: pipelines run one at a time and in order, each     *)
(* only after status 0 of the one before, and each is reaped completely.   *)
(***************************************************************************)
THEOREM PipelineImplementsCommandChain == Spec => ImplementsCommandChain
<1> QED BY InitImplements, NextImplements, Invariance, PTL
        DEF Spec, ImplementsCommandChain, Chain!Spec
==============================================================================
