--------------------------- MODULE DescriptorProofs ---------------------------
(***************************************************************************)
(* What the descriptors of the shell and of its children are for, for      *)
(* every value of the constants: no descriptor is left open, a process     *)
(* reads a pipe only earlier stages can write, and neighbours share a pipe.*)
(***************************************************************************)
EXTENDS PipelineProofs

------------------------------------------------------------------------------
(* Descriptions and tables. *)

\* A descriptor whose kind is known is known.
LEMMA Ends ==
  ASSUME NEW d \in Descriptions
  PROVE  /\ d.kind = "read"  => d = ReadEnd(d.of) /\ d.of \in PipeIds
         /\ d.kind = "write" => d = WriteEnd(d.of) /\ d.of \in PipeIds
BY DEF Descriptions, Closed, Terminal, FileOf, ReadEnd, WriteEnd

\* Two read ends are the same exactly when their write ends are.
LEMMA SamePipe ==
  ASSUME NEW d \in Descriptions, NEW e \in Descriptions, d.kind = "read", e.kind = "read"
  PROVE  d = e <=> WriteEnd(d.of) = WriteEnd(e.of)
BY Ends DEF WriteEnd

\* The kinds are different descriptions.
LEMMA Kinds ==
  ASSUME NEW p, NEW f
  PROVE  /\ ReadEnd(p).kind = "read" /\ WriteEnd(p).kind = "write"
         /\ Closed.kind = "closed" /\ Terminal.kind = "tty" /\ FileOf(f).kind = "file"
         /\ ReadEnd(p).of = p /\ WriteEnd(p).of = p
BY DEF Closed, Terminal, FileOf, ReadEnd, WriteEnd

\* The descriptor the kernel gives out is new, and not a standard one when
\* these are open.
LEMMA NewDescriptor ==
  ASSUME NEW t \in Tables, FreeFds(t) # {}, \A f \in Standard : t[f] = Terminal,
         NEW d \in Descriptions
  PROVE  /\ LowestFree(t) \in Fds \ Standard
         /\ t[LowestFree(t)] = Closed
         /\ Install(t, d)[LowestFree(t)] = d
         /\ \A f \in Fds : f # LowestFree(t) => Install(t, d)[f] = t[f]
         /\ \A f \in Standard : Install(t, d)[f] = Terminal
<1>1. LowestFree(t) \in Fds /\ t[LowestFree(t)] = Closed
  BY LowestFreeIsFree
<1>2. LowestFree(t) \notin Standard
  BY <1>1 DEF Closed, Terminal
<1>3. /\ Install(t, d)[LowestFree(t)] = d
      /\ \A f \in Fds : f # LowestFree(t) => Install(t, d)[f] = t[f]
  BY <1>1 DEF Install, Tables
<1> QED BY <1>1, <1>2, <1>3, StandardFds DEF Standard

\* A redirection changes at most one closed descriptor, to the file, and that
\* is the descriptor it returns; it returns its default if it opens nothing.
LEMMA OpenedEffect ==
  ASSUME NEW t \in Tables, \A f \in Standard : t[f] = Terminal,
         NEW f \in Files \cup {NoFile}, NEW deft \in Standard
  PROVE  /\ OpenedFd(t, f, deft) \in Private(deft)
         /\ f = NoFile => OpenedFd(t, f, deft) = deft
         /\ Opened(t, f)[OpenedFd(t, f, deft)].kind \in {"tty", "file"}
         /\ \A g \in Standard : Opened(t, f)[g] = Terminal
         /\ \A g \in Fds : Opened(t, f)[g] # t[g] =>
              /\ g = OpenedFd(t, f, deft) /\ g \notin Standard
              /\ t[g] = Closed /\ Opened(t, f)[g] = FileOf(f)
<1>1. CASE f # NoFile /\ Opens(t, f)
  <2>1. FileOf(f) \in Descriptions /\ FreeFds(t) # {}
    BY <1>1 DEF Descriptions, Opens
  <2>2. Opened(t, f) = Install(t, FileOf(f)) /\ OpenedFd(t, f, deft) = LowestFree(t)
    BY <1>1 DEF Opened, OpenedFd
  <2> QED BY <1>1, <2>1, <2>2, NewDescriptor, Kinds DEF Private
<1>2. CASE ~(f # NoFile /\ Opens(t, f))
  BY <1>2, Kinds DEF Opened, OpenedFd, Private
<1> QED BY <1>1, <1>2

\* A descriptor that is closed unless it is a standard one: no other changes.
LEMMA CloseUnlessEffect ==
  ASSUME NEW t \in Tables, NEW std \in Standard, NEW fd \in Private(std)
  PROVE  /\ CloseUnless(t, fd, std) \in Tables
         /\ fd # std => CloseUnless(t, fd, std)[fd] = Closed
         /\ \A f \in Fds : f # fd \/ fd = std => CloseUnless(t, fd, std)[f] = t[f]
<1>1. CASE fd = std
  BY <1>1 DEF CloseUnless
<1>2. CASE fd # std
  <2>1. CloseUnless(t, fd, std) = CloseFd(t, fd) /\ fd \in Fds
    BY <1>2 DEF CloseUnless, Private
  <2>2. CloseFd(t, fd)[fd] = Closed
    BY <2>1 DEF CloseFd, IsOpen, Tables
  <2> QED BY <1>2, <2>1, <2>2, CloseFdTable
<1> QED BY <1>1, <1>2

\* The descriptors of a stage are its own or standard ones.
OwnDescriptors(prm) ==
  /\ prm.fd_stdin  \in Private(STDIN)
  /\ prm.fd_stdout \in Private(STDOUT)
  /\ prm.fd_stderr \in Private(STDERR)

\* Closing the descriptors of a stage closes its own, and no other.
LEMMA ClosedAfterEffect ==
  ASSUME NEW t \in Tables, NEW prm, OwnDescriptors(prm)
  PROVE  /\ ClosedAfter(t, prm) \in Tables
         /\ \A f \in Fds : ClosedAfter(t, prm)[f] =
              IF f \notin Standard /\ f \in {prm.fd_stdin, prm.fd_stdout, prm.fd_stderr}
              THEN Closed ELSE t[f]
<1> DEFINE t1 == CloseUnless(t, prm.fd_stdin, STDIN)
           t2 == CloseUnless(t1, prm.fd_stdout, STDOUT)
           t3 == CloseUnless(t2, prm.fd_stderr, STDERR)
<1>1. /\ STDIN \in Standard /\ STDOUT \in Standard /\ STDERR \in Standard
      /\ prm.fd_stdin \in Private(STDIN)
      /\ prm.fd_stdout \in Private(STDOUT)
      /\ prm.fd_stderr \in Private(STDERR)
  BY DEF Standard, OwnDescriptors
<1>2. /\ t1 \in Tables
      /\ prm.fd_stdin # STDIN => t1[prm.fd_stdin] = Closed
      /\ \A f \in Fds : f # prm.fd_stdin \/ prm.fd_stdin = STDIN => t1[f] = t[f]
  BY <1>1, CloseUnlessEffect
<1>3. ClosedAfter(t, prm) = t3
  BY DEF ClosedAfter
<1> HIDE DEF t1
<1>4. /\ t2 \in Tables
      /\ prm.fd_stdout # STDOUT => t2[prm.fd_stdout] = Closed
      /\ \A f \in Fds : f # prm.fd_stdout \/ prm.fd_stdout = STDOUT => t2[f] = t1[f]
  BY <1>1, <1>2, CloseUnlessEffect
<1> HIDE DEF t2
<1>5. /\ t3 \in Tables
      /\ prm.fd_stderr # STDERR => t3[prm.fd_stderr] = Closed
      /\ \A f \in Fds : f # prm.fd_stderr \/ prm.fd_stderr = STDERR => t3[f] = t2[f]
  BY <1>1, <1>4, CloseUnlessEffect
<1> HIDE DEF t3
<1> QED BY <1>1, <1>2, <1>3, <1>4, <1>5 DEF Private, Standard

------------------------------------------------------------------------------
(* What the steps leave alone. *)

\* Children and signals change nothing of the shell but the mode of its terminal.
LEMMA ChildrenOnly ==
  ASSUME \/ \E k \in Levels : ChildStep(k) \/ Suspend(k) \/ Resume(k) \/ SetsMode(k)
         \/ Interrupt
  PROVE  UNCHANGED <<pc, level, fds, lineVars, shellVars>> /\ UNCHANGED histVars
BY DEF ChildStep, Exec, ExecFails, WriteUnit, BrokenPipe, ReadUnit, Finish, Suspend, Resume,
       SetsMode, Interrupt, childOnly

\* A conversion, a builtin or a launch works on a line.
LEMMA Busy ==
  ASSUME TypeOK, pc \notin {"prompt", "exited"}
  PROVE  /\ line \in Lines /\ line # <<>> /\ current_command \in 1 .. Len(line)
         /\ level \in 1 .. Stages /\ Stages \in 1 .. MaxStages
         /\ level \in Levels /\ level \in Int /\ Stages \in Int /\ MaxStages \in Int
         /\ 1 .. Stages \subseteq Levels /\ Levels \subseteq Int
         /\ \A k \in 1 .. Stages - 1 : k \in Levels /\ k + 1 \in Levels /\ k + 1 \in 1 .. Stages
<1>1. line \in Lines /\ line # <<>> /\ Stages \in 1 .. MaxStages /\ level \in 1 .. Stages
      /\ current_command \in 1 .. Len(line)
  BY CurrentStage DEF TypeOK
<1> QED BY <1>1, PipelineAssumption DEF Levels

\* There is a first stage.
LEMMA FirstLevel == 1 \in Levels
BY PipelineAssumption DEF Levels

\* The parameters a command starts with name the standard descriptors.
LEMMA StaticPrivate ==
  /\ StaticParameter.fd_stdin = STDIN /\ StaticParameter.fd_stdout = STDOUT
  /\ StaticParameter.fd_stderr = STDERR
  /\ STDIN \in Private(STDIN) /\ STDOUT \in Private(STDOUT) /\ STDERR \in Private(STDERR)
BY DEF StaticParameter, Private

------------------------------------------------------------------------------
(* The descriptors the parameters of the stages name. *)

\* A command starts, and a line ends, with the parameters of no stage.
LEMMA FreshParameters ==
  ASSUME TypeOK', FreshCommand, pc' \notin Launching, pc' # "connect"
  PROVE  ParametersByPlace'
<1>1. /\ \A k \in Levels : process_parameter'[k] = StaticParameter
      /\ failed' = FALSE
  BY DEF FreshCommand
<1>2. \A k \in Levels : StageParameters(k)'
  <2> TAKE k \in Levels
  <2>1. ASSUME pc' \in {"open", "connect"}, k < Stages' PROVE k + 1 \in Levels
    <3>1. Stages' \in 1 .. MaxStages
      BY <2>1, StagesShape DEF TypeOK, Stages
    <3> QED BY <2>1, <3>1, PipelineAssumption DEF Levels
  <2> QED BY <1>1, <2>1, StaticPrivate DEF StageParameters
<1> QED BY <1>1, <1>2, FirstLevel, StaticPrivate DEF ParametersByPlace

\* What neither changes a parameter nor converts a command keeps them in place.
LEMMA SameParameters ==
  ASSUME ParametersByPlace, UNCHANGED <<process_parameter, failed>>,
         pc' \notin {"prompt", "open", "connect"},
         pc' \in Launching => pc \in Launching \/ ~failed
  PROVE  ParametersByPlace'
<1>1. \A k \in Levels : StageParameters(k)'
  BY DEF ParametersByPlace, StageParameters
<1> QED BY <1>1 DEF ParametersByPlace

\* The shell's steps that keep the parameters of its stages.
LEMMA KeepsParameters ==
  ASSUME ParametersByPlace,
         \/ Exit \/ AssertionFailure \/ RunBuiltin \/ BuiltinBrokenPipe \/ LaunchProcess
         \/ Fork \/ ForkFails \/ CloseWriteEnd \/ Wait \/ CloseFds \/ RestoreRawMode
  PROVE  ParametersByPlace'
<1>1. UNCHANGED <<process_parameter, failed>>
  BY DEF Exit, AssertionFailure, RunBuiltin, BuiltinBrokenPipe, LaunchProcess, Fork, ForkFails,
         CloseWriteEnd, Wait, CloseFds, RestoreRawMode, shellVars
<1>2. pc' \notin {"prompt", "open", "connect"}
  BY DEF Exit, AssertionFailure, RunBuiltin, BuiltinBrokenPipe, LaunchProcess, Fork, ForkFails,
         CloseWriteEnd, Wait, CloseFds, RestoreRawMode
<1>3. pc' \in Launching => pc \in Launching \/ ~failed
  BY DEF Exit, AssertionFailure, RunBuiltin, BuiltinBrokenPipe, LaunchProcess, Fork, ForkFails,
         CloseWriteEnd, Wait, CloseFds, RestoreRawMode, Launching
<1> QED BY <1>1, <1>2, <1>3, SameParameters

\* A redirection gives a stage descriptors of its own, and only the last stage
\* has its output redirected.
LEMMA OpenRedirectsParameters ==
  ASSUME TypeOK, StandardOpen, ParametersByPlace, OpenRedirects
  PROVE  ParametersByPlace'
<1> DEFINE c   == Stage(level)
           t   == Opened(fds, c.out)
           out == OpenedFd(fds, c.out, STDOUT)
           err == IF OneFile(c) THEN out ELSE OpenedFd(t, c.err, STDERR)
<1>1. /\ pc = "open" /\ level \in Levels /\ level \in 1 .. Stages /\ Stages \in 1 .. MaxStages
      /\ 1 .. Stages \subseteq Levels /\ Levels \subseteq Int /\ Stages \in Int /\ level \in Int
  BY Busy DEF OpenRedirects
<1>2. c.out \in Files \cup {NoFile} /\ c.err \in Files \cup {NoFile}
  BY CurrentStage DEF OpenRedirects, TypeOK, Commands
<1>3. STDOUT \in Standard /\ STDERR \in Standard /\ fds \in Tables
  BY DEF Standard, TypeOK
<1>4. out \in Private(STDOUT) /\ (c.out = NoFile => out = STDOUT)
      /\ t \in Tables /\ \A g \in Standard : t[g] = Terminal
  BY <1>2, <1>3, OpenedEffect, OpenedType, StandardFds DEF StandardOpen, Standard
<1>5. failed' = (failed \/ Refused(fds, c.out) \/ (~OneFile(c) /\ Refused(t, c.err)))
  BY DEF OpenRedirects
<1>6. ~failed' => err \in Private(STDERR)
  <2>1. CASE ~OneFile(c)
    <3> HIDE DEF t
    <3> QED BY <1>2, <1>3, <1>4, <2>1, OpenedEffect
  <2>2. CASE OneFile(c)
    <3>1. ~failed' => out = LowestFree(fds) /\ FreeFds(fds) # {}
      BY <1>5, <2>2 DEF OneFile, Refused, OpenedFd, Opens
    <3>2. ~failed' => out \in Fds \ Standard
      BY <1>3, <3>1, LowestFreeIsFree DEF StandardOpen, Closed, Terminal
    <3> QED BY <2>2, <3>2 DEF Private
  <2> QED BY <2>1, <2>2
<1>7. process_parameter' = [process_parameter EXCEPT ![level] =
        [fd_stdin |-> STDIN, fd_stdout |-> out, fd_stderr |-> err]]
  BY DEF OpenRedirects
<1>8. level < Stages => c.out = NoFile
  BY <1>1, Busy, PipelineAssumption DEF Stage, Stages
<1> HIDE DEF c, t, out, err
<1>9. /\ process_parameter'[level] = [fd_stdin |-> STDIN, fd_stdout |-> out, fd_stderr |-> err]
      /\ \A k \in Levels : k # level => process_parameter'[k] = process_parameter[k]
  BY <1>1, <1>7 DEF TypeOK
<1>10. failed => failed'
  BY <1>5
<1>11. UNCHANGED <<line, current_command>> /\ Stages' = Stages
  BY DEF OpenRedirects, lineVars, Stages
<1>12. \/ HasPipe(level) /\ level' = level + 1 /\ pc' = "open"
       \/ ~HasPipe(level) /\ level > 1 /\ level' = level - 1 /\ pc' = "connect"
       \/ ~HasPipe(level) /\ level = 1 /\ level' = 1 /\ pc' = "execute"
  BY DEF OpenRedirects
<1>13. \A k \in Levels : StageParameters(k)
  BY DEF ParametersByPlace
<1>14. \A k \in Levels : StageParameters(k)'
  <2> TAKE k \in Levels
  <2>1. CASE k = level
    <3>1. k < Stages => k + 1 \in Levels /\ k + 1 # level /\ process_parameter[k + 1] = StaticParameter
      BY <1>1, <1>13, <2>1 DEF StageParameters
    <3>2. k < Stages => process_parameter'[k + 1].fd_stdin = STDIN /\ out = STDOUT
      BY <1>4, <1>8, <1>9, <2>1, <3>1, StaticPrivate
    <3> QED BY <1>1, <1>4, <1>6, <1>9, <1>11, <1>12, <2>1, <3>2, StaticPrivate DEF StageParameters
  <2>2. CASE k # level
    <3>1. StageParameters(k) /\ process_parameter'[k] = process_parameter[k]
      BY <1>9, <1>13, <2>2
    <3>2. ASSUME k < Stages
          PROVE  process_parameter[k].fd_stdout = STDOUT /\ process_parameter'[k + 1].fd_stdin = STDIN
      <4>1. process_parameter[k].fd_stdout = STDOUT /\ process_parameter[k + 1].fd_stdin = STDIN
        BY <1>1, <3>1, <3>2 DEF StageParameters, Unpiped
      <4>2. k + 1 \in Levels
        BY <1>1, <3>2 DEF Levels
      <4> QED BY <1>9, <4>1, <4>2
    <3>3. pc' = "open" /\ k >= level' => process_parameter[k] = StaticParameter
      BY <1>1, <1>12, <3>1 DEF StageParameters
    <3>4. pc' # "prompt"
      BY <1>12
    <3> QED BY <1>10, <1>11, <3>1, <3>2, <3>3, <3>4 DEF StageParameters
  <2> QED BY <2>1, <2>2
<1>15. process_parameter'[1].fd_stdin = STDIN
  BY <1>9, FirstLevel DEF ParametersByPlace
<1>16. pc' \notin Launching /\ (pc' = "connect" => HasPipe(level)')
  BY <1>1, <1>11, <1>12 DEF Launching, HasPipe
<1> QED BY <1>14, <1>15, <1>16 DEF ParametersByPlace

\* What a pipe(2) that succeeds does: two new descriptors, which become the
\* output of one stage and the input of the next.
NewPipe(p, r, w) ==
  /\ ~InUse(p) /\ r # w
  /\ fds[r] = Closed /\ fds[w] = Closed
  /\ fds'[r] = ReadEnd(p) /\ fds'[w] = WriteEnd(p)
  /\ \A f \in Fds \ {r, w} : fds'[f] = fds[f]
  /\ \A k \in Levels :
       /\ process_parameter'[k].fd_stdin =
            IF k = level + 1 THEN r ELSE process_parameter[k].fd_stdin
       /\ process_parameter'[k].fd_stdout =
            IF k = level THEN w ELSE process_parameter[k].fd_stdout
       /\ process_parameter'[k].fd_stderr = process_parameter[k].fd_stderr

LEMMA ConnectPipeEffect ==
  ASSUME TypeOK, StandardOpen, ParametersByPlace, ConnectPipe
  PROVE  \E p \in PipeIds, r, w \in Fds \ Standard : NewPipe(p, r, w)
<1>1. PICK p \in FreshPipes :
        LET t == Install(fds, ReadEnd(p))
        IN /\ fds' = Install(t, WriteEnd(p))
           /\ Connect(LowestFree(fds), LowestFree(t))
  BY DEF ConnectPipe
<1> DEFINE t == Install(fds, ReadEnd(p))
           r == LowestFree(fds)
           w == LowestFree(t)
<1>2. /\ p \in PipeIds /\ ReadEnd(p) \in Descriptions /\ WriteEnd(p) \in Descriptions
      /\ ReadEnd(p) # Closed /\ ~InUse(p)
  BY DEF FreshPipes, Descriptions, ReadEnd, Closed
<1>3. FreeFds(fds) # {} /\ FreeFds(t) # {} /\ fds \in Tables
  BY <1>2, TwoFree DEF ConnectPipe, TypeOK
<1>4. t \in Tables
  BY <1>2, <1>3, InstallTable
<1>5. /\ r \in Fds \ Standard /\ fds[r] = Closed /\ t[r] = ReadEnd(p)
      /\ \A f \in Fds : f # r => t[f] = fds[f]
      /\ \A f \in Standard : t[f] = Terminal
  BY <1>2, <1>3, NewDescriptor DEF StandardOpen
<1>6. /\ w \in Fds \ Standard /\ t[w] = Closed /\ fds'[w] = WriteEnd(p)
      /\ \A f \in Fds : f # w => fds'[f] = t[f]
  <2> HIDE DEF t
  <2>1. fds' = Install(t, WriteEnd(p))
    BY <1>1 DEF t
  <2> QED BY <1>2, <1>3, <1>4, <1>5, <2>1, NewDescriptor
<1>7. Connect(r, w)
  BY <1>1
<1> HIDE DEF t, r, w
<1>8. r # w
  BY <1>2, <1>5, <1>6
<1>9. level \in Levels /\ level + 1 \in Levels /\ level + 1 # level
  <2>1. pc = "connect" /\ HasPipe(level)
    BY DEF ConnectPipe, ParametersByPlace
  <2>2. level \in 1 .. Stages - 1 /\ level \in Int
    BY <2>1, Busy DEF HasPipe
  <2> QED BY <2>1, <2>2, Busy
<1>10. /\ process_parameter'[level] = [process_parameter[level] EXCEPT !.fd_stdout = w]
       /\ process_parameter'[level + 1] = [process_parameter[level + 1] EXCEPT !.fd_stdin = r]
       /\ \A k \in Levels \ {level, level + 1} : process_parameter'[k] = process_parameter[k]
  BY <1>7, <1>9 DEF Connect, TypeOK
<1>11. \A k \in Levels : process_parameter[k] \in Parameters
  BY DEF TypeOK
<1>12. \A k \in Levels :
         /\ process_parameter'[k].fd_stdin =
              IF k = level + 1 THEN r ELSE process_parameter[k].fd_stdin
         /\ process_parameter'[k].fd_stdout =
              IF k = level THEN w ELSE process_parameter[k].fd_stdout
         /\ process_parameter'[k].fd_stderr = process_parameter[k].fd_stderr
  BY <1>9, <1>10, <1>11 DEF Parameters
<1>13. NewPipe(p, r, w)
  BY <1>2, <1>5, <1>6, <1>8, <1>12 DEF NewPipe
<1> QED BY <1>2, <1>5, <1>6, <1>13

\* Making a pipe keeps the parameters in place.
LEMMA ConnectPipeParameters ==
  ASSUME TypeOK, StandardOpen, ParametersByPlace, ConnectPipe
  PROVE  ParametersByPlace'
<1>1. PICK p \in PipeIds, r, w \in Fds \ Standard : NewPipe(p, r, w)
  BY ConnectPipeEffect
<1>2. /\ pc = "connect" /\ level \in 1 .. Stages - 1 /\ level \in Levels /\ level + 1 \in Levels
      /\ Stages \in Int /\ level \in Int /\ Levels \subseteq Int
      /\ \A k \in 1 .. Stages - 1 : k \in Levels /\ k + 1 \in Levels
  <2>1. pc = "connect" /\ HasPipe(level)
    BY DEF ConnectPipe, ParametersByPlace
  <2> QED BY <2>1, Busy DEF HasPipe
<1>4. /\ UNCHANGED <<failed, line, current_command>> /\ Stages' = Stages
      /\ \/ level = 1 /\ level' = 1 /\ pc' = "execute"
         \/ level > 1 /\ level' = level - 1 /\ pc' = "connect"
  BY <1>2 DEF ConnectPipe, lineVars, Stages, ClimbFrom
<1>5. \A k \in Levels :
        /\ process_parameter'[k].fd_stdin =
             IF k = level + 1 THEN r ELSE process_parameter[k].fd_stdin
        /\ process_parameter'[k].fd_stdout =
             IF k = level THEN w ELSE process_parameter[k].fd_stdout
        /\ process_parameter'[k].fd_stderr = process_parameter[k].fd_stderr
  BY <1>1 DEF NewPipe
<1>6. \A k \in Levels : StageParameters(k)'
  <2> TAKE k \in Levels
  <2>1. StageParameters(k)
    BY DEF ParametersByPlace
  <2>2. ASSUME pc' = "connect", k < Stages, k <= level'
        PROVE  process_parameter'[k].fd_stdout = STDOUT /\ process_parameter'[k + 1].fd_stdin = STDIN
    <3>1. k \in 1 .. Stages - 1 /\ k + 1 \in Levels /\ k < level
      BY <1>2, <1>4, <2>2 DEF Levels
    <3>2. process_parameter[k].fd_stdout = STDOUT /\ process_parameter[k + 1].fd_stdin = STDIN
      BY <1>2, <2>1, <3>1 DEF StageParameters, Unpiped
    <3> QED BY <1>2, <1>5, <3>1, <3>2
  <2>3. /\ process_parameter'[k].fd_stdin \in Private(STDIN)
        /\ process_parameter'[k].fd_stdout \in Private(STDOUT)
    BY <1>5, <2>1 DEF StageParameters, Private
  <2> QED BY <1>4, <1>5, <2>1, <2>2, <2>3 DEF StageParameters, Unpiped
<1>7. process_parameter'[1].fd_stdin = STDIN
  <2>1. 1 # level + 1
    BY <1>2
  <2> QED BY <1>5, <2>1, FirstLevel DEF ParametersByPlace
<1>8. pc' \notin Launching /\ (pc' = "connect" => HasPipe(level)')
  BY <1>2, <1>4 DEF Launching, HasPipe
<1> QED BY <1>6, <1>7, <1>8 DEF ParametersByPlace

\* Every step keeps the parameters in place.
LEMMA NextParameters ==
  ASSUME TypeOK, TypeOK', StandardOpen, ParametersByPlace, ~pipe_failed', [Next]_vars
  PROVE  ParametersByPlace'
<1>1. CASE ReadLine \/ ReportOpenError \/ CommandReturned
  <2>1. FreshCommand /\ pc' \notin Launching /\ pc' # "connect"
    BY <1>1 DEF ReadLine, ReportOpenError, CommandReturned, StartCommand, EndLine, Launching
  <2> QED BY <2>1, FreshParameters
<1>2. CASE OpenRedirects \/ ConnectPipe
  BY <1>2, OpenRedirectsParameters, ConnectPipeParameters
<1>3. CASE PipeFails
  BY <1>3 DEF PipeFails
<1>4. CASE \/ Exit \/ AssertionFailure \/ RunBuiltin \/ BuiltinBrokenPipe \/ LaunchProcess
           \/ Fork \/ ForkFails \/ CloseWriteEnd \/ Wait \/ CloseFds \/ RestoreRawMode
  BY <1>4, KeepsParameters
<1>5. CASE \/ (\E k \in Levels : ChildStep(k) \/ Suspend(k) \/ Resume(k) \/ SetsMode(k)) \/ Interrupt
           \/ Done \/ UNCHANGED vars
  <2>1. UNCHANGED <<pc, level, fds, lineVars, shellVars>>
    BY <1>5, ChildrenOnly DEF Done, vars
  <2>2. UNCHANGED <<pc, level, line, current_command, process_parameter, failed>>
    BY <2>1 DEF lineVars, shellVars
  <2> QED BY <2>2 DEF ParametersByPlace, StageParameters, HasPipe, Stages, Unpiped
<1> QED BY <1>1, <1>2, <1>3, <1>4, <1>5 DEF Next, ShellStep, Environment

------------------------------------------------------------------------------
(* The standard descriptors of the shell. *)

\* The parameters of the current stage, in a state that is in order.
LEMMA OwnParameters ==
  ASSUME TypeOK, ParametersByPlace, pc \notin {"prompt", "exited"}, ~failed
  PROVE  OwnDescriptors(process_parameter[level])
<1>1. StageParameters(level)
  BY Busy DEF ParametersByPlace
<1> QED BY <1>1 DEF StageParameters, OwnDescriptors

\* What the shell closes before it goes on to the next stage is the write end
\* of the pipe that stage reads.
LEMMA WriteEndCloses ==
  ASSUME TypeOK, StandardOpen, ParametersByPlace, ShellWired,
         pc \in {"execute", "close_write"}, HasPipe(level)
  PROVE  LET fd == process_parameter[level].fd_stdout
         IN /\ fd \in Fds \ Standard /\ fds[fd] = WriteEndAfter(fds, level)
            /\ CloseFd(fds, fd)[fd] = Closed
            /\ \A f \in Fds : f # fd => CloseFd(fds, fd)[f] = fds[f]
<1> DEFINE fd == process_parameter[level].fd_stdout
<1>1. level \in 1 .. Stages - 1 /\ level \in Levels /\ ~Unpiped(level) /\ level >= level
  BY Busy DEF HasPipe, Unpiped
<1>2. fds[fd] = WriteEndAfter(fds, level)
  BY <1>1 DEF ShellWired, Wire
<1>3. fd \in Private(STDOUT)
  BY <1>1 DEF ParametersByPlace, StageParameters
<1>4. fd \in Fds \ Standard
  <2>1. fd \notin Standard
    BY <1>2 DEF StandardOpen, WriteEndAfter, WriteEnd, Terminal
  <2> QED BY <1>3, <2>1 DEF Private, Standard
<1>5. CloseFd(fds, fd)[fd] = Closed
  BY <1>4 DEF CloseFd, IsOpen, TypeOK, Tables
<1>6. \A f \in Fds : f # fd => CloseFd(fds, fd)[f] = fds[f]
  BY CloseFdTable DEF TypeOK
<1> QED BY <1>2, <1>4, <1>5, <1>6

\* What opening the redirections of a stage does to the table of the shell.
LEMMA OpenRedirectsEffect ==
  ASSUME TypeOK, StandardOpen, OpenRedirects
  PROVE  /\ \A g \in Standard : fds'[g] = Terminal
         /\ \A g \in Fds : fds'[g] # fds[g] =>
              /\ fds[g] = Closed
              /\ \/ g = process_parameter'[level].fd_stdout
                 \/ g = process_parameter'[level].fd_stderr
         /\ fds'[process_parameter'[level].fd_stdout].kind \notin {"closed", "write"}
         /\ \A k \in Levels \ {level} : process_parameter'[k] = process_parameter[k]
<1> DEFINE c   == Stage(level)
           t   == Opened(fds, c.out)
           u   == Opened(t, c.err)
           out == OpenedFd(fds, c.out, STDOUT)
           e   == OpenedFd(t, c.err, STDERR)
           err == IF OneFile(c) THEN out ELSE e
<1>1. c.out \in Files \cup {NoFile} /\ c.err \in Files \cup {NoFile} /\ level \in Levels
  BY CurrentStage DEF OpenRedirects, TypeOK, Commands
<1>2. STDOUT \in Standard /\ STDERR \in Standard /\ fds \in Tables
  BY DEF Standard, TypeOK
<1>3. /\ \A g \in Standard : t[g] = Terminal
      /\ \A g \in Fds : t[g] # fds[g] => g = out /\ fds[g] = Closed
      /\ t[out].kind \in {"tty", "file"} /\ t \in Tables /\ out \in Fds
  BY <1>1, <1>2, OpenedEffect, OpenedType, StandardFds DEF StandardOpen, Standard
<1>4. /\ fds' = IF OneFile(c) THEN t ELSE u
      /\ process_parameter' = [process_parameter EXCEPT ![level] =
           [fd_stdin |-> STDIN, fd_stdout |-> out, fd_stderr |-> err]]
  BY DEF OpenRedirects
<1> HIDE DEF t
<1>5. /\ \A g \in Standard : u[g] = Terminal
      /\ \A g \in Fds : u[g] # t[g] => g = e /\ t[g] = Closed
  BY <1>1, <1>2, <1>3, OpenedEffect
<1> HIDE DEF c, u, out, e
<1>6. u[out].kind \in {"tty", "file"}
  BY <1>3, <1>5, Kinds
<1>7. process_parameter'[level].fd_stdout = out /\ process_parameter'[level].fd_stderr = err
  BY <1>1, <1>4 DEF TypeOK
<1>8. \A k \in Levels \ {level} : process_parameter'[k] = process_parameter[k]
  BY <1>1, <1>4 DEF TypeOK
<1>9. CASE OneFile(c)
  BY <1>3, <1>4, <1>7, <1>8, <1>9
<1>10. CASE ~OneFile(c)
  BY <1>3, <1>4, <1>5, <1>6, <1>7, <1>8, <1>10
<1> QED BY <1>9, <1>10

\* What the closes at the end of launch_process do.
LEMMA CloseFdsEffect ==
  ASSUME TypeOK, ParametersByPlace, CloseFds
  PROVE  \A f \in Fds :
           fds'[f] = IF f \in Owned(level) \ Standard THEN Closed ELSE fds[f]
<1>1. OwnDescriptors(process_parameter[level])
  BY OwnParameters DEF CloseFds, ParametersByPlace, Launching
<1>2. fds' = ClosedAfter(fds, process_parameter[level])
  BY DEF CloseFds
<1> QED BY <1>1, <1>2, ClosedAfterEffect DEF Owned, TypeOK

\* The steps of the shell that leave its descriptor table alone.
LEMMA TableKept ==
  ASSUME \/ ReadLine \/ Exit \/ ReportOpenError \/ AssertionFailure \/ BuiltinBrokenPipe
         \/ LaunchProcess \/ Fork \/ ForkFails \/ Wait \/ RestoreRawMode \/ CommandReturned
         \/ (RunBuiltin /\ ~HasPipe(level)) \/ (CloseWriteEnd /\ ~HasPipe(level))
  PROVE  fds' = fds
BY DEF ReadLine, Exit, ReportOpenError, AssertionFailure, BuiltinBrokenPipe, LaunchProcess, Fork,
       ForkFails, Wait, RestoreRawMode, CommandReturned, RunBuiltin, CloseWriteEnd

\* No step closes or replaces a standard descriptor.
LEMMA NextStandardOpen ==
  ASSUME TypeOK, StandardOpen, ParametersByPlace, ShellWired, ~pipe_failed', [Next]_vars
  PROVE  StandardOpen'
<1>1. CASE OpenRedirects
  BY <1>1, OpenRedirectsEffect DEF StandardOpen
<1>2. CASE ConnectPipe
  BY <1>2, ConnectPipeEffect, StandardFds DEF NewPipe, StandardOpen, Standard
<1>3. CASE (RunBuiltin \/ CloseWriteEnd) /\ HasPipe(level)
  <2>1. pc \in {"execute", "close_write"} /\ fds' = CloseFd(fds, process_parameter[level].fd_stdout)
    BY <1>3 DEF RunBuiltin, CloseWriteEnd, ClosedBeforeNext
  <2> QED BY <1>3, <2>1, WriteEndCloses, StandardFds DEF StandardOpen, Standard
<1>4. CASE CloseFds
  BY <1>4, CloseFdsEffect, StandardFds DEF StandardOpen, Standard
<1>5. CASE PipeFails
  BY <1>5 DEF PipeFails
<1>6. CASE \/ ReadLine \/ Exit \/ ReportOpenError \/ AssertionFailure \/ BuiltinBrokenPipe
           \/ LaunchProcess \/ Fork \/ ForkFails \/ Wait \/ RestoreRawMode \/ CommandReturned
           \/ (RunBuiltin /\ ~HasPipe(level)) \/ (CloseWriteEnd /\ ~HasPipe(level))
  BY <1>6, TableKept DEF StandardOpen
<1>7. CASE \/ (\E k \in Levels : ChildStep(k) \/ Suspend(k) \/ Resume(k) \/ SetsMode(k)) \/ Interrupt
           \/ Done \/ UNCHANGED vars
  BY <1>7, ChildrenOnly DEF Done, vars, StandardOpen
<1> QED BY <1>1, <1>2, <1>3, <1>4, <1>5, <1>6, <1>7 DEF Next, ShellStep, Environment

------------------------------------------------------------------------------
(* Every descriptor that is open will be closed. *)

\* Outside the conversion and the launch of a command nothing is held.
LEMMA NothingHeld ==
  ASSUME pc \in {"prompt", "returned", "raw", "exited"}, NEW k
  PROVE  ~StillHeld(k)
BY DEF StillHeld

\* Steps that open, close and rename nothing hold what they held.
LEMMA SameHeld ==
  ASSUME HeldForStages, UNCHANGED <<fds, process_parameter>>, leaky => leaky',
         pc # "aborted", \A k \in Levels : StillHeld(k) => StillHeld(k)'
  PROVE  HeldForStages'
<1> SUFFICES ASSUME ~leaky', NEW f \in Fds \ Standard, fds'[f] # Closed
             PROVE  \E k \in Levels : StillHeld(k)' /\ f \in Owned(k)'
  BY DEF HeldForStages
<1>1. PICK k \in Levels : StillHeld(k) /\ f \in Owned(k)
  BY DEF HeldForStages
<1>2. Owned(k)' = Owned(k)
  BY DEF Owned
<1> QED BY <1>1, <1>2

\* When a line is given up because a file cannot be opened, nothing is open
\* unless that is what left it open.
LEMMA ReportOpenErrorHeld ==
  ASSUME HeldForStages, ReportOpenError
  PROVE  HeldForStages'
<1> SUFFICES ASSUME ~leaky', NEW f \in Fds \ Standard, fds'[f] # Closed PROVE FALSE
  BY DEF HeldForStages
<1>1. ~leaky /\ \A k \in Levels : process_parameter[k] = StaticParameter
  BY DEF ReportOpenError
<1>2. pc # "aborted" /\ fds' = fds
  BY DEF ReportOpenError
<1>3. PICK k \in Levels : f \in Owned(k)
  BY <1>1, <1>2 DEF HeldForStages
<1>4. Owned(k) \subseteq Standard
  BY <1>1, StaticPrivate DEF Owned, Standard
<1> QED BY <1>3, <1>4

\* The steps of a launch that neither open nor close anything.
LEMMA LaunchHeld ==
  ASSUME TypeOK, HeldForStages,
         LaunchProcess \/ Fork \/ ForkFails \/ Wait \/ (CloseWriteEnd /\ ~HasPipe(level))
  PROVE  HeldForStages'
<1>1. UNCHANGED <<fds, process_parameter, level, line, current_command>>
  BY DEF LaunchProcess, Fork, ForkFails, Wait, CloseWriteEnd, shellVars, lineVars
<1>2. Stages' = Stages
  BY <1>1 DEF Stages
<1>3. pc \notin {"prompt", "exited", "aborted"}
  BY DEF LaunchProcess, Fork, ForkFails, Wait, CloseWriteEnd
<1>4. level \in 1 .. Stages /\ level \in Int /\ Stages \in Int /\ Levels \subseteq Int
  BY <1>3, Busy
<1>5. CASE LaunchProcess
  <2>1. pc = "execute" /\ pc' = "fork" /\ root' = level /\ leaky' = leaky
    BY <1>5 DEF LaunchProcess, histVars
  <2> QED BY <1>1, <1>2, <1>3, <2>1, SameHeld DEF StillHeld
<1>6. CASE Fork \/ Wait \/ (CloseWriteEnd /\ ~HasPipe(level))
  <2>1. root' = root /\ leaky' = leaky
    BY <1>6 DEF Fork, Wait, CloseWriteEnd, histVars, shellVars
  <2>2. \/ pc = "fork" /\ pc' = "close_write"
        \/ pc = "wait" /\ pc' = "close"
        \/ pc = "close_write" /\ pc' = "wait" /\ level = Stages
    BY <1>4, <1>6 DEF Fork, Wait, CloseWriteEnd, HasPipe
  <2> QED BY <1>1, <1>2, <1>3, <2>1, <2>2, SameHeld DEF StillHeld
<1>7. CASE ForkFails
  <2>1. pc = "fork" /\ pc' = "close" /\ root' = root
    BY <1>7 DEF ForkFails
  <2>2. leaky' = (leaky \/ HasPipe(level))
    BY <1>7 DEF ForkFails
  <2>3. CASE leaky'
    BY <2>3 DEF HeldForStages
  <2>4. CASE ~leaky'
    <3>1. ~leaky /\ ~HasPipe(level)
      BY <2>2, <2>4
    <3>2. level = Stages
      BY <1>4, <3>1 DEF HasPipe
    <3> QED BY <1>1, <1>2, <1>3, <2>1, <3>1, <3>2, SameHeld DEF StillHeld
  <2> QED BY <2>3, <2>4
<1> QED BY <1>5, <1>6, <1>7

\* The steps that begin or end a line or a command.
LEMMA KeepsHeld ==
  ASSUME HeldForStages,
         \/ ReadLine \/ Exit \/ AssertionFailure \/ BuiltinBrokenPipe \/ CommandReturned
         \/ RestoreRawMode
  PROVE  HeldForStages'
<1>1. CASE ReadLine \/ Exit \/ CommandReturned \/ RestoreRawMode
  <2>1. /\ pc \in {"prompt", "returned", "raw", "exited"} /\ fds' = fds
        /\ leaky' = leaky /\ pc # "aborted"
    BY <1>1 DEF ReadLine, Exit, CommandReturned, RestoreRawMode, histVars
  <2> QED BY <2>1, NothingHeld DEF HeldForStages
<1>2. CASE AssertionFailure \/ BuiltinBrokenPipe
  BY <1>2 DEF AssertionFailure, BuiltinBrokenPipe, HeldForStages
<1> QED BY <1>1, <1>2

\* What a redirection opens is held for its stage.
LEMMA OpenRedirectsHeld ==
  ASSUME TypeOK, StandardOpen, HeldForStages, OpenRedirects
  PROVE  HeldForStages'
<1>1. /\ pc = "open" /\ level \in Levels /\ level \in 1 .. Stages /\ level \in Int
      /\ Stages \in Int /\ Levels \subseteq Int
  BY Busy DEF OpenRedirects
<1>2. leaky' = leaky /\ Stages' = Stages
  BY DEF OpenRedirects, histVars, lineVars, Stages
<1>3. \/ HasPipe(level) /\ level' = level + 1 /\ pc' = "open"
      \/ ~HasPipe(level) /\ level > 1 /\ level' = level - 1 /\ pc' = "connect"
      \/ ~HasPipe(level) /\ level = 1 /\ level' = 1 /\ pc' = "execute"
  BY DEF OpenRedirects
<1> SUFFICES ASSUME ~leaky, NEW f \in Fds \ Standard, fds'[f] # Closed
             PROVE  \E k \in Levels : StillHeld(k)' /\ f \in Owned(k)'
  BY <1>2 DEF HeldForStages
<1>4. \A k \in Levels : k <= level => StillHeld(k)'
  BY <1>1, <1>2, <1>3 DEF StillHeld, HasPipe, Levels
<1>5. CASE fds'[f] # fds[f]
  <2>1. PICK k \in Levels : k = level
    BY <1>1
  <2>2. f = process_parameter'[k].fd_stdout \/ f = process_parameter'[k].fd_stderr
    BY <1>5, <2>1, OpenRedirectsEffect
  <2>3. f \in Owned(k)'
    BY <2>2 DEF Owned
  <2> QED BY <1>1, <1>4, <2>1, <2>3
<1>6. CASE fds'[f] = fds[f]
  <2>1. PICK k \in Levels : StillHeld(k) /\ f \in Owned(k)
    BY <1>1, <1>6 DEF HeldForStages
  <2>2. k < level
    BY <1>1, <2>1 DEF StillHeld
  <2>3. process_parameter'[k] = process_parameter[k]
    BY <1>1, <2>2, OpenRedirectsEffect
  <2>4. f \in Owned(k)'
    BY <2>1, <2>3 DEF Owned
  <2> QED BY <1>1, <1>4, <2>2, <2>4
<1> QED BY <1>5, <1>6

\* The two ends of a new pipe are held for the stages it joins, and nothing
\* that was held is forgotten.
LEMMA ConnectPipeHeld ==
  ASSUME TypeOK, StandardOpen, ParametersByPlace, HeldForStages, ConnectPipe
  PROVE  HeldForStages'
<1>1. PICK p \in PipeIds, r, w \in Fds \ Standard : NewPipe(p, r, w)
  BY ConnectPipeEffect
<1>2. /\ pc = "connect" /\ level \in 1 .. Stages - 1 /\ level \in Levels /\ level + 1 \in Levels
      /\ Stages \in Int /\ level \in Int /\ Levels \subseteq Int /\ level + 1 \in 1 .. Stages
  <2>1. pc = "connect" /\ HasPipe(level)
    BY DEF ConnectPipe, ParametersByPlace
  <2> QED BY <2>1, Busy DEF HasPipe
<1>3. /\ leaky' = leaky /\ Stages' = Stages
      /\ \/ level = 1 /\ level' = 1 /\ pc' = "execute"
         \/ level > 1 /\ level' = level - 1 /\ pc' = "connect"
  BY <1>2 DEF ConnectPipe, lineVars, histVars, Stages, ClimbFrom
<1> SUFFICES ASSUME ~leaky, NEW f \in Fds \ Standard, fds'[f] # Closed
             PROVE  \E k \in Levels : StillHeld(k)' /\ f \in Owned(k)'
  BY <1>3 DEF HeldForStages
<1>4. \A k \in Levels : /\ StillHeld(k) => k <= Stages
                        /\ k <= Stages => StillHeld(k)'
  BY <1>2, <1>3, PipelineAssumption DEF StillHeld, Levels
<1>5. CASE f = r
  <2>1. PICK k \in Levels : k = level + 1
    BY <1>2
  <2>2. f \in Owned(k)'
    BY <1>1, <1>5, <2>1 DEF NewPipe, Owned
  <2> QED BY <1>2, <1>4, <2>1, <2>2
<1>6. CASE f = w
  <2>1. PICK k \in Levels : k = level
    BY <1>2
  <2>2. f \in Owned(k)'
    BY <1>1, <1>6, <2>1 DEF NewPipe, Owned
  <2> QED BY <1>2, <1>4, <2>1, <2>2
<1>7. CASE f \notin {r, w}
  <2>1. fds[f] # Closed
    BY <1>1, <1>7 DEF NewPipe
  <2>2. PICK k \in Levels : StillHeld(k) /\ f \in Owned(k)
    BY <1>2, <2>1 DEF HeldForStages
  <2>3. process_parameter[level].fd_stdout = STDOUT /\ process_parameter[level + 1].fd_stdin = STDIN
    BY <1>2 DEF ParametersByPlace, StageParameters, Unpiped
  <2>4. f # STDOUT /\ f # STDIN
    BY DEF Standard
  <2>5. f \in Owned(k)'
    BY <1>1, <2>2, <2>3, <2>4 DEF NewPipe, Owned
  <2> QED BY <1>4, <2>2, <2>5
<1> QED BY <1>5, <1>6, <1>7

\* The shell closes the write end of a pipe and goes on to the stage that
\* reads it.
LEMMA WriteEndHeld ==
  ASSUME TypeOK, StandardOpen, ParametersByPlace, ShellWired, HeldForStages,
         (RunBuiltin \/ CloseWriteEnd) /\ HasPipe(level)
  PROVE  HeldForStages'
<1>1. /\ pc \in {"execute", "close_write"} /\ HasPipe(level) /\ level' = level + 1
      /\ fds' = CloseFd(fds, process_parameter[level].fd_stdout)
      /\ UNCHANGED <<process_parameter, root, line, current_command>> /\ Stages' = Stages
      /\ pc' = IF pc = "execute" THEN "execute" ELSE "fork"
  BY DEF RunBuiltin, CloseWriteEnd, ClosedBeforeNext, lineVars, shellVars, Stages
<1>2. level \in Levels /\ level \in Int /\ Stages \in Int /\ Levels \subseteq Int
  BY <1>1, Busy
<1>3. ~leaky' => ~leaky
  BY DEF RunBuiltin, CloseWriteEnd, histVars
<1> SUFFICES ASSUME ~leaky', NEW f \in Fds \ Standard, fds'[f] # Closed
             PROVE  \E k \in Levels : StillHeld(k)' /\ f \in Owned(k)'
  BY DEF HeldForStages
<1>4. f # process_parameter[level].fd_stdout /\ fds[f] # Closed
  BY <1>1, WriteEndCloses
<1>5. PICK k \in Levels : StillHeld(k) /\ f \in Owned(k)
  BY <1>1, <1>3, <1>4 DEF HeldForStages
<1>6. f \in Owned(k)'
  BY <1>1, <1>5 DEF Owned
<1>7. StillHeld(k)'
  <2>1. CASE CloseWriteEnd
    BY <1>1, <1>5, <2>1 DEF StillHeld, CloseWriteEnd
  <2>2. CASE RunBuiltin
    <3>1. pc = "execute" /\ leaky' = (leaky \/ process_parameter[level].fd_stdin # STDIN
                     \/ process_parameter[level].fd_stderr # STDERR
                     \/ (~HasPipe(level) /\ process_parameter[level].fd_stdout # STDOUT))
      BY <2>2 DEF RunBuiltin
    <3>2. process_parameter[level].fd_stdin = STDIN /\ process_parameter[level].fd_stderr = STDERR
      BY <3>1
    <3>3. f \notin Owned(level)
      BY <1>4, <3>2 DEF Owned, Standard
    <3>4. k # level
      BY <1>5, <3>3
    <3> QED BY <1>1, <1>2, <1>5, <3>1, <3>4 DEF StillHeld
  <2> QED BY <2>1, <2>2
<1> QED BY <1>6, <1>7

\* A last builtin leaves nothing open unless it leaves its own.
LEMMA LastBuiltinHeld ==
  ASSUME TypeOK, HeldForStages, RunBuiltin, ~HasPipe(level)
  PROVE  HeldForStages'
<1>1. /\ pc = "execute" /\ fds' = fds /\ level \in Int /\ Stages \in Int /\ Levels \subseteq Int
      /\ level = Stages
  <2>1. pc = "execute" /\ fds' = fds
    BY DEF RunBuiltin
  <2> QED BY <2>1, Busy DEF HasPipe
<1>2. leaky' = (leaky \/ process_parameter[level].fd_stdin # STDIN
                      \/ process_parameter[level].fd_stderr # STDERR
                      \/ (~HasPipe(level) /\ process_parameter[level].fd_stdout # STDOUT))
  BY DEF RunBuiltin
<1> SUFFICES ASSUME ~leaky', NEW f \in Fds \ Standard, fds'[f] # Closed
             PROVE  FALSE
  BY DEF HeldForStages
<1>3. /\ ~leaky /\ process_parameter[level].fd_stdin = STDIN
      /\ process_parameter[level].fd_stderr = STDERR /\ process_parameter[level].fd_stdout = STDOUT
  BY <1>2
<1>4. PICK k \in Levels : StillHeld(k) /\ f \in Owned(k)
  BY <1>1, <1>3 DEF HeldForStages
<1>5. k = level
  BY <1>1, <1>4 DEF StillHeld
<1> QED BY <1>3, <1>4, <1>5 DEF Owned, Standard

\* launch_process closes what it holds for the stage it leaves.
LEMMA CloseFdsHeld ==
  ASSUME TypeOK, ParametersByPlace, ChildrenByLevel, HeldForStages, CloseFds
  PROVE  HeldForStages'
<1>1. /\ pc = "close" /\ leaky' = leaky /\ UNCHANGED <<process_parameter, root>>
      /\ root \in 1 .. level /\ level \in Int /\ root \in Int /\ Levels \subseteq Int
  <2>1. pc = "close" /\ leaky' = leaky /\ UNCHANGED <<process_parameter, root>>
    BY DEF CloseFds, histVars, shellVars
  <2> QED BY <2>1, Busy DEF ChildrenByLevel, Launching, TypeOK
<1>2. \/ level = root /\ pc' = "raw" /\ level' = level
      \/ level # root /\ pc' = "wait" /\ level' = level - 1
  BY DEF CloseFds, Outermost
<1> SUFFICES ASSUME ~leaky, NEW f \in Fds \ Standard, fds'[f] # Closed
             PROVE  \E k \in Levels : StillHeld(k)' /\ f \in Owned(k)'
  BY <1>1 DEF HeldForStages
<1>3. f \notin Owned(level) /\ fds[f] # Closed
  BY CloseFdsEffect
<1>4. PICK k \in Levels : StillHeld(k) /\ f \in Owned(k)
  BY <1>1, <1>3 DEF HeldForStages
<1>5. k \in root .. level /\ k # level
  BY <1>1, <1>3, <1>4 DEF StillHeld
<1>6. f \in Owned(k)'
  BY <1>1, <1>4 DEF Owned
<1>7. StillHeld(k)'
  BY <1>1, <1>2, <1>5 DEF StillHeld
<1> QED BY <1>6, <1>7

\* Every step holds what is open.
LEMMA NextHeld ==
  ASSUME TypeOK, ChildrenByLevel, StandardOpen, ParametersByPlace, ShellWired, HeldForStages,
         ~pipe_failed', [Next]_vars
  PROVE  HeldForStages'
<1>1. CASE \/ ReadLine \/ Exit \/ AssertionFailure \/ BuiltinBrokenPipe \/ CommandReturned
           \/ RestoreRawMode
  BY <1>1, KeepsHeld
<1>2. CASE LaunchProcess \/ Fork \/ ForkFails \/ Wait \/ (CloseWriteEnd /\ ~HasPipe(level))
  BY <1>2, LaunchHeld
<1>3. CASE OpenRedirects \/ ConnectPipe \/ ReportOpenError
  BY <1>3, OpenRedirectsHeld, ConnectPipeHeld, ReportOpenErrorHeld
<1>4. CASE (RunBuiltin \/ CloseWriteEnd) /\ HasPipe(level)
  BY <1>4, WriteEndHeld
<1>5. CASE RunBuiltin /\ ~HasPipe(level)
  BY <1>5, LastBuiltinHeld
<1>6. CASE CloseFds
  BY <1>6, CloseFdsHeld
<1>7. CASE PipeFails
  BY <1>7 DEF PipeFails
<1>8. CASE \/ (\E k \in Levels : ChildStep(k) \/ Suspend(k) \/ Resume(k) \/ SetsMode(k)) \/ Interrupt
           \/ Done \/ UNCHANGED vars
  <2>1. UNCHANGED <<pc, level, fds, lineVars, shellVars>> /\ UNCHANGED histVars
    BY <1>8, ChildrenOnly DEF Done, vars
  <2>2. UNCHANGED <<pc, level, line, current_command, process_parameter, root, leaky, fds>>
    BY <2>1 DEF lineVars, shellVars, histVars
  <2> QED BY <2>2 DEF HeldForStages, StillHeld, Owned, Stages
<1> QED BY <1>1, <1>2, <1>3, <1>4, <1>5, <1>6, <1>7, <1>8 DEF Next, ShellStep, Environment

------------------------------------------------------------------------------
(* The pipes in the shell. *)

Wiring == {"connect", "execute", "fork", "close_write"}

\* Input and output of a stage are descriptors.
LEMMA StreamFds ==
  ASSUME ParametersByPlace, NEW k \in Levels
  PROVE  process_parameter[k].fd_stdin \in Fds /\ process_parameter[k].fd_stdout \in Fds
BY StandardFds DEF ParametersByPlace, StageParameters, Private

\* Every stage reads an open pipe, so its description is known.
LEMMA ReadsPipe ==
  ASSUME NEW t \in Tables, ParametersByPlace, NEW k \in Levels, ReadsFrom(t, k).kind = "read"
  PROVE  /\ ReadsFrom(t, k) = ReadEnd(ReadsFrom(t, k).of) /\ ReadsFrom(t, k).of \in PipeIds
         /\ ReadsFrom(t, k) \in Descriptions
         /\ ReadsFrom(t, k) # Closed
BY StreamFds, Ends, Kinds DEF ReadsFrom, Tables

\* Steps that neither open, close nor rename anything keep the wires.
LEMMA SameWired ==
  ASSUME ShellWired, UNCHANGED <<fds, process_parameter, line, current_command, level>>,
         pc' \in Wiring => pc' = pc \/ (pc \in Wiring \ {"connect"} /\ pc' # "connect")
  PROVE  ShellWired'
<1>1. Stages' = Stages
  BY DEF Stages
<1>2. ASSUME pc' \in Wiring, NEW k PROVE Unpiped(k)' <=> Unpiped(k)
  BY <1>2 DEF Wiring, Unpiped
<1> QED BY <1>1, <1>2 DEF ShellWired, Wire, ReadsFrom, WriteEndAfter, Wiring

\* No wire is in use while a command is not converted, or already reaped.
LEMMA KeepsWired ==
  ASSUME ShellWired,
         \/ ReadLine \/ Exit \/ ReportOpenError \/ AssertionFailure \/ BuiltinBrokenPipe
         \/ LaunchProcess \/ Fork \/ ForkFails \/ Wait \/ CloseFds \/ RestoreRawMode
         \/ CommandReturned
         \/ (RunBuiltin /\ ~HasPipe(level)) \/ (CloseWriteEnd /\ ~HasPipe(level))
  PROVE  ShellWired'
<1>1. CASE LaunchProcess \/ Fork
  <2>1. /\ UNCHANGED <<fds, process_parameter, line, current_command, level>>
        /\ pc \in Wiring \ {"connect"} /\ pc' # "connect"
    BY <1>1 DEF LaunchProcess, Fork, shellVars, lineVars, Wiring
  <2> QED BY <2>1, SameWired
<1>2. CASE \/ ReadLine \/ Exit \/ ReportOpenError \/ AssertionFailure \/ BuiltinBrokenPipe
           \/ ForkFails \/ Wait \/ CloseFds \/ RestoreRawMode \/ CommandReturned
           \/ (RunBuiltin /\ ~HasPipe(level)) \/ (CloseWriteEnd /\ ~HasPipe(level))
  <2>1. pc' \notin Wiring
    BY <1>2 DEF ReadLine, Exit, ReportOpenError, AssertionFailure, BuiltinBrokenPipe, ForkFails,
                Wait, CloseFds, RestoreRawMode, CommandReturned, RunBuiltin, CloseWriteEnd,
                StartCommand, EndLine, Wiring
  <2> QED BY <2>1 DEF ShellWired, Wiring
<1> QED BY <1>1, <1>2

\* When the last stage is converted no pipe is made yet.
LEMMA OpenRedirectsWired ==
  ASSUME TypeOK, StandardOpen, OpenRedirects
  PROVE  ShellWired'
<1>1. /\ level \in 1 .. Stages /\ level \in Levels /\ level \in Int /\ Stages \in Int
  BY Busy DEF OpenRedirects
<1>2. \/ pc' = "open"
      \/ level = Stages /\ level' = level - 1 /\ pc' = "connect"
      \/ level = Stages /\ level = 1 /\ pc' = "execute"
  BY <1>1 DEF OpenRedirects, HasPipe
<1>3. Stages' = Stages
  BY DEF OpenRedirects, lineVars, Stages
<1>4. CASE pc' = "open"
  BY <1>4 DEF ShellWired
<1>5. CASE pc' # "open"
  <2>1. level = Stages /\ \A k \in 1 .. Stages - 1 : Unpiped(k)'
    BY <1>1, <1>2, <1>5 DEF Unpiped
  <2>2. fds'[process_parameter'[Stages'].fd_stdout].kind \notin {"closed", "write"}
    BY <1>3, <2>1, OpenRedirectsEffect
  <2> QED BY <1>3, <2>1, <2>2 DEF ShellWired
<1> QED BY <1>4, <1>5

\* A new pipe is a wire between its two stages, and does not touch the others.
LEMMA ConnectPipeWired ==
  ASSUME TypeOK, StandardOpen, ParametersByPlace, ShellWired, ConnectPipe
  PROVE  ShellWired'
<1>1. PICK p \in PipeIds, r, w \in Fds \ Standard : NewPipe(p, r, w)
  BY ConnectPipeEffect
<1>2. /\ pc = "connect" /\ level \in 1 .. Stages - 1 /\ level \in Levels
      /\ Stages \in Int /\ level \in Int /\ Levels \subseteq Int /\ Stages \in Levels
      /\ \A k \in 1 .. Stages - 1 : k \in Levels /\ k + 1 \in Levels
  <2>1. pc = "connect" /\ HasPipe(level)
    BY DEF ConnectPipe, ParametersByPlace
  <2> QED BY <2>1, Busy DEF HasPipe
<1>3. /\ Stages' = Stages /\ UNCHANGED <<line, current_command>>
      /\ \/ level = 1 /\ level' = 1 /\ pc' = "execute"
         \/ level > 1 /\ level' = level - 1 /\ pc' = "connect"
  BY <1>2 DEF ConnectPipe, lineVars, Stages, ClimbFrom
<1>4. \A k \in 1 .. Stages - 1 : /\ ~Unpiped(k)' <=> k >= level
                                 /\ ~Unpiped(k) <=> k > level
                                 /\ k >= level => k >= level'
  BY <1>2, <1>3 DEF Unpiped
<1>5. \A f \in Fds : fds[f] # ReadEnd(p) /\ fds[f] # WriteEnd(p)
  BY <1>1 DEF NewPipe, InUse, Holds
<1>6. \A f \in Fds : fds[f] # Closed => fds'[f] = fds[f]
  BY <1>1 DEF NewPipe
<1>7. \A f \in Fds : /\ f # r /\ fds'[f] = ReadEnd(p) => FALSE
                     /\ f # w /\ fds'[f] = WriteEnd(p) => FALSE
  BY <1>1, <1>5, Kinds DEF NewPipe
<1>8. \A k \in 1 .. Stages - 1 : k > level =>
        /\ Wire(k)
        /\ ReadsFrom(fds, k + 1)' = ReadsFrom(fds, k + 1)
        /\ WriteEndAfter(fds, k)' = WriteEndAfter(fds, k)
        /\ process_parameter'[k].fd_stdout = process_parameter[k].fd_stdout
        /\ ReadsFrom(fds, k + 1) # ReadEnd(p)
        /\ WriteEndAfter(fds, k) # WriteEnd(p)
  <2> SUFFICES ASSUME NEW k \in 1 .. Stages - 1, k > level
               PROVE  /\ Wire(k)
                      /\ ReadsFrom(fds, k + 1)' = ReadsFrom(fds, k + 1)
                      /\ WriteEndAfter(fds, k)' = WriteEndAfter(fds, k)
                      /\ process_parameter'[k].fd_stdout = process_parameter[k].fd_stdout
                      /\ ReadsFrom(fds, k + 1) # ReadEnd(p)
                      /\ WriteEndAfter(fds, k) # WriteEnd(p)
    OBVIOUS
  <2>1. Wire(k)
    BY <1>2, <1>4 DEF ShellWired
  <2>2. k + 1 \in Levels /\ k \in Levels /\ k # level /\ k + 1 # level + 1
    BY <1>2
  <2>3. /\ process_parameter'[k + 1].fd_stdin = process_parameter[k + 1].fd_stdin
        /\ process_parameter'[k].fd_stdout = process_parameter[k].fd_stdout
    BY <1>1, <2>2 DEF NewPipe
  <2>4. process_parameter[k + 1].fd_stdin \in Fds /\ process_parameter[k].fd_stdout \in Fds
    BY <2>2, StreamFds
  <2>5. ReadsFrom(fds, k + 1) # Closed
    BY <2>1, <2>2, ReadsPipe DEF Wire, TypeOK
  <2>6. ReadsFrom(fds, k + 1)' = ReadsFrom(fds, k + 1)
    BY <1>6, <2>3, <2>4, <2>5 DEF ReadsFrom
  <2>7. WriteEndAfter(fds, k)' = WriteEndAfter(fds, k)
    BY <2>6 DEF WriteEndAfter
  <2>8. ReadsFrom(fds, k + 1) # ReadEnd(p)
    BY <1>5, <2>4 DEF ReadsFrom
  <2>9. WriteEndAfter(fds, k) # WriteEnd(p)
    <3>1. fds[process_parameter[k].fd_stdout] = WriteEndAfter(fds, k)
      BY <1>2, <2>1 DEF Wire
    <3> QED BY <1>5, <2>4, <3>1
  <2> QED BY <2>1, <2>3, <2>6, <2>7, <2>8, <2>9
<1>9. PICK m \in 1 .. Stages - 1 : m = level
  BY <1>2
<1>10. /\ ReadsFrom(fds, m + 1)' = ReadEnd(p) /\ WriteEndAfter(fds, m)' = WriteEnd(p)
       /\ process_parameter'[m].fd_stdout = w
  <2>1. process_parameter'[m + 1].fd_stdin = r /\ process_parameter'[m].fd_stdout = w
    BY <1>1, <1>2, <1>9 DEF NewPipe
  <2>2. ReadsFrom(fds, m + 1)' = ReadEnd(p)
    BY <1>1, <2>1 DEF NewPipe, ReadsFrom
  <2> QED BY <2>1, <2>2, Kinds DEF WriteEndAfter
<1>11. \A k \in 1 .. Stages - 1 : k >= m =>
         /\ ReadsFrom(fds, k + 1)'.kind = "read"
         /\ fds'[process_parameter'[k].fd_stdout] = WriteEndAfter(fds, k)'
         /\ \A f \in Fds : fds'[f] = WriteEndAfter(fds, k)' => f = process_parameter'[k].fd_stdout
         /\ \A i \in 1 .. Stages - 1 :
              i >= m /\ ReadsFrom(fds, i + 1)' = ReadsFrom(fds, k + 1)' => i = k
  <2> SUFFICES ASSUME NEW k \in 1 .. Stages - 1, k >= m
               PROVE  /\ ReadsFrom(fds, k + 1)'.kind = "read"
                      /\ fds'[process_parameter'[k].fd_stdout] = WriteEndAfter(fds, k)'
                      /\ \A f \in Fds : fds'[f] = WriteEndAfter(fds, k)' =>
                           f = process_parameter'[k].fd_stdout
                      /\ \A i \in 1 .. Stages - 1 :
                           i >= m /\ ReadsFrom(fds, i + 1)' = ReadsFrom(fds, k + 1)' => i = k
    OBVIOUS
  <2>1. CASE k = m
    <3>1. fds'[w] = WriteEnd(p)
      BY <1>1 DEF NewPipe
    <3>2. \A i \in 1 .. Stages - 1 :
            i >= m /\ ReadsFrom(fds, i + 1)' = ReadEnd(p) => i = m
      BY <1>2, <1>8, <1>9
    <3> QED BY <1>7, <1>10, <2>1, <3>1, <3>2, Kinds
  <2>2. CASE k # m
    <3>1. k > level /\ k \in Levels /\ k >= level
      BY <1>2, <1>9, <2>2
    <3>2. /\ Wire(k)
          /\ ReadsFrom(fds, k + 1)' = ReadsFrom(fds, k + 1)
          /\ WriteEndAfter(fds, k)' = WriteEndAfter(fds, k)
          /\ process_parameter'[k].fd_stdout = process_parameter[k].fd_stdout
          /\ ReadsFrom(fds, k + 1) # ReadEnd(p) /\ WriteEndAfter(fds, k) # WriteEnd(p)
      BY <1>8, <3>1
    <3>3. fds[process_parameter[k].fd_stdout] = WriteEndAfter(fds, k)
      BY <3>1, <3>2 DEF Wire
    <3>4. WriteEndAfter(fds, k).kind = "write"
      BY Kinds DEF WriteEndAfter
    <3>5. process_parameter[k].fd_stdout \in Fds
      BY <3>1, StreamFds
    <3>6. fds'[process_parameter[k].fd_stdout] = WriteEndAfter(fds, k)
      BY <1>6, <3>3, <3>4, <3>5, Kinds
    <3>7. \A f \in Fds : fds'[f] = WriteEndAfter(fds, k) => f = process_parameter[k].fd_stdout
      <4> TAKE f \in Fds
      <4>1. fds'[r] # WriteEndAfter(fds, k) /\ fds'[w] # WriteEndAfter(fds, k)
        BY <1>1, <3>2, <3>4, Kinds DEF NewPipe
      <4>2. f \notin {r, w} => fds'[f] = fds[f]
        BY <1>1 DEF NewPipe
      <4> QED BY <3>2, <4>1, <4>2 DEF Wire
    <3>8. \A i \in 1 .. Stages - 1 :
            i >= m /\ ReadsFrom(fds, i + 1)' = ReadsFrom(fds, k + 1) => i = k
      <4> SUFFICES ASSUME NEW i \in 1 .. Stages - 1, i >= m,
                          ReadsFrom(fds, i + 1)' = ReadsFrom(fds, k + 1)
                   PROVE  i = k
        OBVIOUS
      <4>1. i # m
        BY <1>10, <3>2
      <4>2. i > level
        BY <1>2, <1>9, <4>1
      <4>3. ReadsFrom(fds, i + 1) = ReadsFrom(fds, k + 1) /\ ~Unpiped(i)
        BY <1>4, <1>8, <4>2
      <4> QED BY <3>2, <4>3 DEF Wire
    <3>9. ReadsFrom(fds, k + 1).kind = "read"
      BY <3>2 DEF Wire
    <3> QED BY <3>2, <3>6, <3>7, <3>8, <3>9
  <2> QED BY <2>1, <2>2
<1>12. \A k \in 1 .. Stages - 1 : ~Unpiped(k)' => Wire(k)'
  <2> SUFFICES ASSUME NEW k \in 1 .. Stages - 1, ~Unpiped(k)' PROVE Wire(k)'
    OBVIOUS
  <2>1. k >= m /\ k >= level'
    BY <1>4, <1>9
  <2>2. \A i \in 1 .. Stages - 1 : ~Unpiped(i)' => i >= m
    BY <1>4, <1>9
  <2> QED BY <1>3, <1>11, <2>1, <2>2 DEF Wire
<1>13. fds'[process_parameter'[Stages].fd_stdout].kind \notin {"closed", "write"}
  <2>1. Stages # level /\ process_parameter'[Stages].fd_stdout = process_parameter[Stages].fd_stdout
    BY <1>1, <1>2 DEF NewPipe
  <2>2. fds[process_parameter[Stages].fd_stdout].kind \notin {"closed", "write"}
    BY <1>2 DEF ShellWired
  <2>3. process_parameter[Stages].fd_stdout \in Fds
    BY <1>2, StreamFds
  <2> QED BY <1>6, <2>1, <2>2, <2>3, Kinds
<1> QED BY <1>3, <1>12, <1>13 DEF ShellWired

\* Closing the write end of a pipe when its writer is on its way leaves the
\* wires to the stages that are still to be launched.
LEMMA WriteEndWired ==
  ASSUME TypeOK, StandardOpen, ParametersByPlace, ShellWired,
         (RunBuiltin \/ CloseWriteEnd) /\ HasPipe(level)
  PROVE  ShellWired'
<1>1. /\ pc \in {"execute", "close_write"} /\ HasPipe(level) /\ level' = level + 1
      /\ fds' = CloseFd(fds, process_parameter[level].fd_stdout)
      /\ UNCHANGED <<process_parameter, line, current_command>> /\ Stages' = Stages
      /\ pc' \in {"execute", "fork"}
  BY DEF RunBuiltin, CloseWriteEnd, ClosedBeforeNext, lineVars, shellVars, Stages
<1>2. /\ level \in Int /\ Stages \in Int /\ level \in 1 .. Stages - 1 /\ Stages \in Levels
      /\ \A k \in 1 .. Stages - 1 : k \in Levels /\ k + 1 \in Levels
  BY <1>1, Busy DEF HasPipe
<1> DEFINE fd == process_parameter[level].fd_stdout
<1>3. /\ fd \in Fds /\ fds[fd] = WriteEndAfter(fds, level) /\ fds'[fd] = Closed
      /\ \A f \in Fds : f # fd => fds'[f] = fds[f]
  BY <1>1, WriteEndCloses
<1>4. fds[fd].kind = "write"
  BY <1>3, Kinds DEF WriteEndAfter
<1> HIDE DEF fd
<1>5. \A f \in Fds : fds[f].kind # "write" => fds'[f] = fds[f]
  BY <1>3, <1>4
<1>6. \A k \in 1 .. Stages - 1 : Wire(k) /\ ~Unpiped(k) /\ ~Unpiped(k)'
  BY <1>1 DEF ShellWired, Unpiped
<1>7. \A k \in 1 .. Stages - 1 : /\ ReadsFrom(fds, k + 1)' = ReadsFrom(fds, k + 1)
                                 /\ WriteEndAfter(fds, k)' = WriteEndAfter(fds, k)
  <2> TAKE k \in 1 .. Stages - 1
  <2>1. process_parameter[k + 1].fd_stdin \in Fds
    BY <1>2, StreamFds
  <2>2. ReadsFrom(fds, k + 1).kind = "read"
    BY <1>6 DEF Wire
  <2>3. ReadsFrom(fds, k + 1)' = ReadsFrom(fds, k + 1)
    BY <1>1, <1>5, <2>1, <2>2 DEF ReadsFrom
  <2> QED BY <2>3 DEF WriteEndAfter
<1>8. \A k \in 1 .. Stages - 1 : WriteEndAfter(fds, k) = WriteEndAfter(fds, level) => k = level
  <2> SUFFICES ASSUME NEW k \in 1 .. Stages - 1,
                      WriteEndAfter(fds, k) = WriteEndAfter(fds, level)
               PROVE  k = level
    OBVIOUS
  <2>1. ReadsFrom(fds, k + 1).kind = "read" /\ ReadsFrom(fds, level + 1).kind = "read"
    BY <1>2, <1>6 DEF Wire
  <2>2. ReadsFrom(fds, k + 1) \in Descriptions /\ ReadsFrom(fds, level + 1) \in Descriptions
    BY <1>2, <2>1, ReadsPipe DEF TypeOK
  <2>3. ReadsFrom(fds, k + 1) = ReadsFrom(fds, level + 1)
    BY <2>1, <2>2, SamePipe DEF WriteEndAfter
  <2> QED BY <1>2, <1>6, <2>3 DEF Wire
<1>9. \A k \in 1 .. Stages - 1 : Wire(k)'
  <2> TAKE k \in 1 .. Stages - 1
  <2>1. Wire(k)
    BY <1>6
  <2>2. ReadsFrom(fds, k + 1)'.kind = "read"
    BY <1>7, <2>1 DEF Wire
  <2>3. k >= level' => fds'[process_parameter'[k].fd_stdout] = WriteEndAfter(fds, k)'
    <3> SUFFICES ASSUME k >= level + 1
                 PROVE  fds'[process_parameter[k].fd_stdout] = WriteEndAfter(fds, k)
      BY <1>1, <1>7
    <3>1. k >= level /\ k # level
      BY <1>2
    <3>2. fds[process_parameter[k].fd_stdout] = WriteEndAfter(fds, k)
      BY <2>1, <3>1 DEF Wire
    <3>3. process_parameter[k].fd_stdout # fd
      BY <1>3, <1>8, <3>1, <3>2
    <3>4. process_parameter[k].fd_stdout \in Fds
      BY <1>2, StreamFds
    <3> QED BY <1>3, <3>2, <3>3, <3>4
  <2>4. \A f \in Fds : fds'[f] = WriteEndAfter(fds, k)' =>
          k >= level' /\ f = process_parameter'[k].fd_stdout
    <3> SUFFICES ASSUME NEW f \in Fds, fds'[f] = WriteEndAfter(fds, k)
                 PROVE  k >= level + 1 /\ f = process_parameter[k].fd_stdout
      BY <1>1, <1>7
    <3>1. f # fd
      BY <1>3, Kinds DEF WriteEndAfter
    <3>2. k >= level /\ f = process_parameter[k].fd_stdout
      BY <1>3, <2>1, <3>1 DEF Wire
    <3>3. k # level
      BY <3>1, <3>2 DEF fd
    <3> QED BY <1>2, <3>2, <3>3
  <2>5. \A i \in 1 .. Stages - 1 : ReadsFrom(fds, i + 1)' = ReadsFrom(fds, k + 1)' => i = k
    BY <1>6, <1>7, <2>1 DEF Wire
  <2> QED BY <1>1, <2>2, <2>3, <2>4, <2>5 DEF Wire
<1>10. fds'[process_parameter'[Stages].fd_stdout].kind \notin {"closed", "write"}
  <2>1. fds[process_parameter[Stages].fd_stdout].kind \notin {"closed", "write"}
    BY <1>1 DEF ShellWired
  <2> QED BY <1>1, <1>2, <1>5, <2>1, StreamFds
<1> QED BY <1>1, <1>9, <1>10 DEF ShellWired

\* Every step keeps the wires of the shell.
LEMMA NextWired ==
  ASSUME TypeOK, StandardOpen, ParametersByPlace, ShellWired, ~pipe_failed', [Next]_vars
  PROVE  ShellWired'
<1>1. CASE \/ ReadLine \/ Exit \/ ReportOpenError \/ AssertionFailure \/ BuiltinBrokenPipe
           \/ LaunchProcess \/ Fork \/ ForkFails \/ Wait \/ CloseFds \/ RestoreRawMode
           \/ CommandReturned
           \/ (RunBuiltin /\ ~HasPipe(level)) \/ (CloseWriteEnd /\ ~HasPipe(level))
  BY <1>1, KeepsWired
<1>2. CASE OpenRedirects \/ ConnectPipe
  BY <1>2, OpenRedirectsWired, ConnectPipeWired
<1>3. CASE (RunBuiltin \/ CloseWriteEnd) /\ HasPipe(level)
  BY <1>3, WriteEndWired
<1>4. CASE PipeFails
  BY <1>4 DEF PipeFails
<1>5. CASE \/ (\E k \in Levels : ChildStep(k) \/ Suspend(k) \/ Resume(k) \/ SetsMode(k)) \/ Interrupt
           \/ Done \/ UNCHANGED vars
  <2>1. UNCHANGED <<pc, level, fds, lineVars, shellVars>>
    BY <1>5, ChildrenOnly DEF Done, vars
  <2>2. UNCHANGED <<fds, process_parameter, line, current_command, level, pc>>
    BY <2>1 DEF lineVars, shellVars
  <2> QED BY <2>2, SameWired
<1> QED BY <1>1, <1>2, <1>3, <1>4, <1>5 DEF Next, ShellStep, Environment

------------------------------------------------------------------------------
(* The pipes in the children. *)

\* A stream is moved to its standard descriptor if it is open, and nothing else
\* changes.
LEMMA RedirectEffect ==
  ASSUME NEW t \in Tables, NEW std \in Standard, NEW fd \in Private(std)
  PROVE  /\ Redirect(t, fd, std) \in Tables
         /\ t[fd] # Closed => Redirect(t, fd, std)[std] = t[fd]
         /\ Redirect(t, fd, std)[std] \in {t[fd], t[std]}
         /\ \A f \in Fds : f # std => Redirect(t, fd, std)[f] = t[f]
<1>1. fd \in Fds /\ std \in Fds /\ fd > -1
  BY StandardFds, FileTableAssumption DEF Private, Standard, Fds
<1>2. Redirect(t, fd, std) = IF fd # std /\ t[fd] # Closed THEN [t EXCEPT ![std] = t[fd]] ELSE t
  BY <1>1 DEF Redirect, Dup2, IsOpen
<1> QED BY <1>1, <1>2 DEF Tables

\* What the dup2 calls between fork and exec do.
LEMMA ChildTableEffect ==
  ASSUME NEW t \in Tables, NEW prm, OwnDescriptors(prm)
  PROVE  /\ \A f \in Fds \ Standard : ChildTable(t, prm)[f] = t[f]
         /\ t[prm.fd_stdin] # Closed => ChildTable(t, prm)[STDIN] = t[prm.fd_stdin]
         /\ t[prm.fd_stdout] # Closed => ChildTable(t, prm)[STDOUT] = t[prm.fd_stdout]
         /\ \A d : Holds(ChildTable(t, prm), d) => Holds(t, d)
<1> DEFINE t1 == Redirect(t, prm.fd_stdin, STDIN)
           t2 == Redirect(t1, prm.fd_stdout, STDOUT)
           t3 == Redirect(t2, prm.fd_stderr, STDERR)
<1>1. /\ STDIN \in Standard /\ STDOUT \in Standard /\ STDERR \in Standard /\ Standard \subseteq Fds
      /\ prm.fd_stdin \in Private(STDIN) /\ prm.fd_stdout \in Private(STDOUT)
      /\ prm.fd_stderr \in Private(STDERR)
      /\ prm.fd_stdin \in Fds /\ prm.fd_stdout \in Fds /\ prm.fd_stderr \in Fds
  BY StandardFds DEF Standard, OwnDescriptors, Private
<1>2. /\ t1 \in Tables
      /\ t[prm.fd_stdin] # Closed => t1[STDIN] = t[prm.fd_stdin]
      /\ t1[STDIN] \in {t[prm.fd_stdin], t[STDIN]}
      /\ \A f \in Fds : f # STDIN => t1[f] = t[f]
  BY <1>1, RedirectEffect
<1>3. ChildTable(t, prm) = t3
  BY DEF ChildTable
<1> HIDE DEF t1
<1>4. /\ t2 \in Tables
      /\ t1[prm.fd_stdout] # Closed => t2[STDOUT] = t1[prm.fd_stdout]
      /\ t2[STDOUT] \in {t1[prm.fd_stdout], t1[STDOUT]}
      /\ \A f \in Fds : f # STDOUT => t2[f] = t1[f]
  BY <1>1, <1>2, RedirectEffect
<1> HIDE DEF t2
<1>5. /\ t3[STDERR] \in {t2[prm.fd_stderr], t2[STDERR]}
      /\ \A f \in Fds : f # STDERR => t3[f] = t2[f]
  BY <1>1, <1>4, RedirectEffect
<1> HIDE DEF t3
<1>6. t1[prm.fd_stdout] = t[prm.fd_stdout]
  BY <1>1, <1>2 DEF Private, Standard, STDIN, STDOUT
<1>7. \A f \in Fds : t1[f] = t[f] \/ t1[f] = t[prm.fd_stdin]
  BY <1>2
<1>8. \A f \in Fds : t2[f] = t1[f] \/ t2[f] = t1[prm.fd_stdout]
  BY <1>4
<1>9. \A f \in Fds : t3[f] = t2[f] \/ t3[f] = t2[prm.fd_stderr]
  BY <1>5
<1>10. \A f \in Fds : \E g \in Fds : t3[f] = t[g]
  <2> TAKE f \in Fds
  <2>1. PICK g \in Fds : t3[f] = t2[g]
    BY <1>1, <1>9
  <2>2. PICK h \in Fds : t2[g] = t1[h]
    BY <1>1, <1>8
  <2>3. PICK i \in Fds : t1[h] = t[i]
    BY <1>1, <1>7
  <2> QED BY <2>1, <2>2, <2>3
<1>11. \A f \in Fds \ Standard : t3[f] = t[f]
  BY <1>1, <1>2, <1>4, <1>5
<1>12. t3[STDIN] = t1[STDIN] /\ t3[STDOUT] = t2[STDOUT]
  BY <1>1, <1>4, <1>5 DEF STDIN, STDOUT, STDERR
<1>13. \A d : Holds(t3, d) => Holds(t, d)
  BY <1>10 DEF Holds
<1> QED BY <1>2, <1>3, <1>4, <1>6, <1>11, <1>12, <1>13

\* Where a child can be.
LEMMA ChildPlace ==
  ASSUME TypeOK, ChildrenByLevel, NEW j \in Levels, state[j] # "none"
  PROVE  /\ pc \in Launching \ {"raw"} /\ pc \notin {"prompt", "exited"}
         /\ j \in 1 .. Stages /\ j <= level
<1>1. pc \in Launching \ {"raw"} /\ pc \notin {"prompt", "exited"}
  BY DEF ChildrenByLevel, Launching
<1>2. level \in 1 .. Stages /\ level \in Int /\ Stages \in Int /\ j \in Int /\ j >= 1
  BY <1>1, Busy, PipelineAssumption DEF Levels
<1> QED BY <1>1, <1>2 DEF ChildrenByLevel, Launching

\* A child is wired as long as its table, its parameters and whether it has
\* called dup2 stay, whatever the shell closes.
LEMMA SameChildWired ==
  ASSUME NEW j \in Levels, ChildWired(j), table'[j] = table[j],
         state'[j] = "forked" <=> state[j] = "forked",
         UNCHANGED <<process_parameter, line, current_command>>,
         \A f \in Fds : fds'[f] \in {fds[f], Closed}
  PROVE  ChildWired(j)'
<1>1. Stages' = Stages
  BY DEF Stages
<1>2. \A k \in 1 .. Stages - 1 : /\ ReadsFrom(table[j], k + 1)' = ReadsFrom(table[j], k + 1)
                                 /\ WriteEndAfter(table[j], k)' = WriteEndAfter(table[j], k)
                                 /\ WriteEndAfter(table[j], k) # Closed
  BY Kinds DEF ReadsFrom, WriteEndAfter
<1>5. \A k \in 1 .. Stages - 1 :
        Holds(table[j], WriteEndAfter(table[j], k))' \/ Holds(fds, WriteEndAfter(table[j], k))'
        => k >= j
  <2> SUFFICES ASSUME NEW k \in 1 .. Stages - 1,
                      \/ Holds(table[j], WriteEndAfter(table[j], k))'
                      \/ Holds(fds, WriteEndAfter(table[j], k))'
               PROVE  k >= j
    OBVIOUS
  <2>1. Holds(table[j], WriteEndAfter(table[j], k)) \/ Holds(fds, WriteEndAfter(table[j], k))
    BY <1>2 DEF Holds
  <2> QED BY <2>1 DEF ChildWired
<1> QED BY <1>1, <1>2, <1>5 DEF ChildWired, ReadsFrom, WriteEndAfter, HasPipe

\* All children stay wired, and to the same pipes, when some of them die and
\* the shell closes what it will not give to another child.
LEMMA ChildrenKept ==
  ASSUME ChildrenWired, UNCHANGED <<process_parameter, line, current_command>>,
         \A j \in Levels : Alive(j)' =>
           Alive(j) /\ table'[j] = table[j] /\ (state'[j] = "forked" <=> state[j] = "forked"),
         \A f \in Fds : fds'[f] \in {fds[f], Closed},
         pc' \in {"fork", "close_write"} =>
           /\ pc \in {"fork", "close_write"}
           /\ \A k \in 1 .. Stages - 1 : ReadsFrom(fds, k + 1)' = ReadsFrom(fds, k + 1)
  PROVE  ChildrenWired'
<1>1. Stages' = Stages
  BY DEF Stages
<1> SUFFICES ASSUME NEW j \in Levels, Alive(j)'
             PROVE  /\ ChildWired(j)'
                    /\ pc' \in {"fork", "close_write"} => SameWires(table[j], fds)'
                    /\ \A i \in Levels : Alive(i)' => SameWires(table[j], table[i])'
  BY DEF ChildrenWired
<1>2. Alive(j) /\ ChildWired(j) /\ table'[j] = table[j] /\ (state'[j] = "forked" <=> state[j] = "forked")
  BY DEF ChildrenWired
<1>3. ChildWired(j)'
  BY <1>2, SameChildWired
<1>4. ASSUME pc' \in {"fork", "close_write"} PROVE SameWires(table[j], fds)'
  <2>1. SameWires(table[j], fds)
    BY <1>2, <1>4 DEF ChildrenWired
  <2> QED BY <1>1, <1>2, <1>4, <2>1 DEF SameWires, ReadsFrom
<1>5. ASSUME NEW i \in Levels, Alive(i)' PROVE SameWires(table[j], table[i])'
  <2>1. Alive(i) /\ table'[i] = table[i]
    BY <1>5
  <2>2. SameWires(table[j], table[i])
    BY <1>2, <2>1 DEF ChildrenWired
  <2> QED BY <1>1, <1>2, <2>1, <2>2 DEF SameWires, ReadsFrom
<1> QED BY <1>3, <1>4, <1>5

\* Where the shell has no child there is nothing to wire.
LEMMA NoChildren ==
  ASSUME ChildrenByLevel, pc \notin Launching \ {"raw"}, state' = state
  PROVE  ChildrenWired'
BY DEF ChildrenByLevel, ChildrenWired, Alive

\* A child starts with the wires of the shell.
LEMMA ForkWired ==
  ASSUME TypeOK, StandardOpen, ShellWired, ChildrenWired, Fork
  PROVE  ChildrenWired'
<1>1. /\ pc = "fork" /\ pc' = "close_write"
      /\ UNCHANGED <<fds, level, process_parameter, line, current_command>>
      /\ state' = [state EXCEPT ![level] = "forked"]
      /\ table' = [table EXCEPT ![level] = fds]
  BY DEF Fork, shellVars, lineVars
<1>2. Stages' = Stages /\ level \in Levels /\ level \in 1 .. Stages /\ level \in Int /\ Stages \in Int
  BY <1>1, Busy DEF Stages
<1>3. PICK m \in Levels : m = level
  BY <1>2
<1>4. /\ state'[m] = "forked" /\ table'[m] = fds
      /\ \A j \in Levels : j # m => state'[j] = state[j] /\ table'[j] = table[j]
  BY <1>1, <1>3 DEF TypeOK
<1>5. ChildWired(m)'
  <2>1. \A k \in 1 .. Stages - 1 : /\ ReadsFrom(table[m], k + 1)' = ReadsFrom(fds, k + 1)
                                   /\ WriteEndAfter(table[m], k)' = WriteEndAfter(fds, k)
    BY <1>1, <1>4 DEF ReadsFrom, WriteEndAfter
  <2>2. \A k \in 1 .. Stages - 1 : Wire(k) /\ ~Unpiped(k)
    BY <1>1 DEF ShellWired, Unpiped
  <2>3. ASSUME NEW k \in 1 .. Stages - 1
        PROVE  /\ ReadsFrom(table[m], k + 1)'.kind = "read"
               /\ Holds(table[m], WriteEndAfter(table[m], k))'
                  \/ Holds(fds, WriteEndAfter(table[m], k))' => k >= m
               /\ \A i \in 1 .. Stages - 1 :
                    ReadsFrom(table[m], i + 1)' = ReadsFrom(table[m], k + 1)' => i = k
    <3>1. Wire(k)
      BY <2>2
    <3>2. Holds(fds, WriteEndAfter(fds, k)) => k >= m
      BY <1>3, <3>1 DEF Wire, Holds
    <3>3. /\ Holds(table[m], WriteEndAfter(table[m], k))' <=> Holds(fds, WriteEndAfter(fds, k))
          /\ Holds(fds, WriteEndAfter(table[m], k))' <=> Holds(fds, WriteEndAfter(fds, k))
      BY <1>1, <1>4, <2>1 DEF Holds
    <3> QED BY <2>1, <2>2, <3>1, <3>2, <3>3 DEF Wire
  <2>4. fds[STDIN] = Terminal
    BY DEF StandardOpen, Standard
  <2>5. IF m < Stages THEN fds[process_parameter[m].fd_stdout] = WriteEndAfter(fds, m)
                      ELSE fds[process_parameter[m].fd_stdout].kind \notin {"closed", "write"}
    <3>1. CASE m < Stages
      <4>1. m \in 1 .. Stages - 1
        BY <1>2, <1>3, <3>1
      <4> QED BY <1>2, <1>3, <2>2, <3>1, <4>1 DEF Wire
    <3>2. CASE ~(m < Stages)
      <4>1. m = Stages
        BY <1>2, <1>3, <3>2
      <4> QED BY <1>1, <3>2, <4>1 DEF ShellWired
    <3> QED BY <3>1, <3>2
  <2>6. m < Stages => WriteEndAfter(table[m], m)' = WriteEndAfter(fds, m)
    BY <1>2, <1>3, <2>1
  <2> QED BY <1>1, <1>2, <1>4, <2>3, <2>4, <2>5, <2>6 DEF ChildWired, HasPipe
<1>6. \A j \in Levels : j # m /\ Alive(j)' =>
        Alive(j) /\ ChildWired(j)' /\ SameWires(table[j], fds)
  <2> SUFFICES ASSUME NEW j \in Levels, j # m, Alive(j)'
               PROVE  Alive(j) /\ ChildWired(j)' /\ SameWires(table[j], fds)
    OBVIOUS
  <2>1. Alive(j) /\ state'[j] = state[j] /\ table'[j] = table[j]
    BY <1>4 DEF Alive
  <2>2. ChildWired(j) /\ SameWires(table[j], fds)
    BY <1>1, <2>1 DEF ChildrenWired
  <2> QED BY <1>1, <2>1, <2>2, SameChildWired
<1>7. \A j \in Levels : Alive(j)' => SameWires(table[j], fds)'
  BY <1>1, <1>2, <1>4, <1>6 DEF SameWires, ReadsFrom
<1>8. \A j, i \in Levels : Alive(j)' /\ Alive(i)' => SameWires(table[j], table[i])'
  BY <1>7 DEF SameWires
<1>9. \A j \in Levels : Alive(j)' => ChildWired(j)'
  BY <1>5, <1>6
<1> QED BY <1>7, <1>8, <1>9 DEF ChildrenWired

\* The dup2 calls of a child connect its streams and keep its wires.
LEMMA ExecWired ==
  ASSUME TypeOK, ChildrenByLevel, ParametersByPlace, ChildrenWired, NEW j \in Levels, Exec(j)
  PROVE  ChildrenWired'
<1>1. /\ state[j] = "forked" /\ state' = [state EXCEPT ![j] = "running"]
      /\ table' = [table EXCEPT ![j] = ChildTable(table[j], process_parameter[j])]
      /\ UNCHANGED <<pc, level, fds, process_parameter, line, current_command>>
  BY DEF Exec, childOnly, shellVars, lineVars
<1>2. /\ pc \in Launching /\ pc \notin {"prompt", "exited"} /\ j \in 1 .. Stages /\ Stages' = Stages
      /\ j \in Int /\ Stages \in Int
  BY <1>1, ChildPlace, PipelineAssumption DEF Stages, Levels
<1>3. \A k \in 1 .. Stages - 1 : k \in Levels /\ k + 1 \in Levels
  BY <1>2, Busy
<1> DEFINE t == table[j]
           u == ChildTable(t, process_parameter[j])
<1>4. t \in Tables /\ Alive(j) /\ ChildWired(j) /\ t[STDIN] = Terminal
  BY <1>1 DEF TypeOK, Alive, ChildrenWired, ChildWired
<1>5. OwnDescriptors(process_parameter[j])
  BY <1>2 DEF ParametersByPlace, StageParameters, OwnDescriptors
<1>6. /\ \A f \in Fds \ Standard : u[f] = t[f]
      /\ t[process_parameter[j].fd_stdin] # Closed => u[STDIN] = t[process_parameter[j].fd_stdin]
      /\ t[process_parameter[j].fd_stdout] # Closed => u[STDOUT] = t[process_parameter[j].fd_stdout]
      /\ \A d : Holds(u, d) => Holds(t, d)
  BY <1>4, <1>5, ChildTableEffect
<1>7. /\ state'[j] = "running" /\ table'[j] = u
      /\ \A i \in Levels : i # j => state'[i] = state[i] /\ table'[i] = table[i]
  BY <1>1 DEF TypeOK
<1> HIDE DEF u
<1>8. \A k \in 1 .. Stages - 1 : ReadsFrom(u, k + 1) = ReadsFrom(t, k + 1)
  <2> TAKE k \in 1 .. Stages - 1
  <2>1. process_parameter[k + 1].fd_stdin \in Private(STDIN)
    BY <1>3 DEF ParametersByPlace, StageParameters
  <2>2. ReadsFrom(t, k + 1).kind = "read"
    BY <1>4 DEF ChildWired
  <2>3. process_parameter[k + 1].fd_stdin # STDIN
    BY <1>4, <2>2, Kinds DEF ReadsFrom
  <2>4. process_parameter[k + 1].fd_stdin \in Fds \ Standard
    BY <2>1, <2>3 DEF Private
  <2> QED BY <1>6, <2>4 DEF ReadsFrom
<1>9. t[process_parameter[j].fd_stdout] # Closed
  BY <1>4, Kinds DEF ChildWired, WriteEndAfter
<1>10. /\ u[STDOUT] = t[process_parameter[j].fd_stdout]
       /\ u[process_parameter[j].fd_stdout] = t[process_parameter[j].fd_stdout]
  <2>1. u[STDOUT] = t[process_parameter[j].fd_stdout]
    BY <1>6, <1>9
  <2>2. process_parameter[j].fd_stdout = STDOUT \/ process_parameter[j].fd_stdout \in Fds \ Standard
    BY <1>5 DEF OwnDescriptors, Private
  <2> QED BY <1>6, <2>1, <2>2
<1>11. u[STDIN] = IF j = 1 THEN Terminal ELSE ReadsFrom(t, j)
  <2>1. CASE j = 1
    <3>1. process_parameter[j].fd_stdin = STDIN
      BY <2>1 DEF ParametersByPlace
    <3> QED BY <1>4, <1>6, <2>1, <3>1 DEF Closed, Terminal
  <2>2. CASE j # 1
    <3>1. PICK k \in 1 .. Stages - 1 : j = k + 1
      <4>1. j - 1 \in 1 .. Stages - 1 /\ j = (j - 1) + 1
        BY <1>2, <2>2
      <4> QED BY <4>1
    <3>2. ReadsFrom(t, j).kind = "read"
      BY <1>4, <3>1 DEF ChildWired
    <3>3. ReadsFrom(t, j) # Closed
      BY <3>2, Kinds
    <3> QED BY <1>6, <2>2, <3>3 DEF ReadsFrom
  <2> QED BY <2>1, <2>2
<1>12. ChildWired(j)'
  <2>1. \A k \in 1 .. Stages - 1 : /\ ReadsFrom(table[j], k + 1)' = ReadsFrom(t, k + 1)
                                   /\ WriteEndAfter(table[j], k)' = WriteEndAfter(t, k)
    BY <1>1, <1>7, <1>8 DEF ReadsFrom, WriteEndAfter
  <2>2. \A k \in 1 .. Stages - 1 :
          /\ Holds(table[j], WriteEndAfter(table[j], k))' => Holds(t, WriteEndAfter(t, k))
          /\ Holds(fds, WriteEndAfter(table[j], k))' => Holds(fds, WriteEndAfter(t, k))
    <3> TAKE k \in 1 .. Stages - 1
    <3>1. Holds(table[j], WriteEndAfter(table[j], k))' => Holds(u, WriteEndAfter(t, k))
      BY <1>7, <2>1 DEF Holds
    <3>2. Holds(fds, WriteEndAfter(table[j], k))' => Holds(fds, WriteEndAfter(t, k))
      BY <1>1, <2>1 DEF Holds
    <3> QED BY <1>6, <3>1, <3>2
  <2>3. IF j < Stages THEN u[process_parameter[j].fd_stdout] = WriteEndAfter(t, j)
                      ELSE u[process_parameter[j].fd_stdout].kind \notin {"closed", "write"}
    BY <1>4, <1>10 DEF ChildWired, HasPipe
  <2>4. j < Stages => WriteEndAfter(table[j], j)' = WriteEndAfter(t, j)
    BY <1>2, <2>1
  <2>5. j # 1 => ReadsFrom(table[j], j)' = ReadsFrom(t, j)
    <3>1. j # 1 => j - 1 \in 1 .. Stages - 1 /\ j = (j - 1) + 1
      BY <1>2
    <3> QED BY <2>1, <3>1
  <2>6. \A k \in 1 .. Stages - 1 :
          /\ ReadsFrom(t, k + 1).kind = "read"
          /\ Holds(t, WriteEndAfter(t, k)) \/ Holds(fds, WriteEndAfter(t, k)) => k >= j
          /\ \A i \in 1 .. Stages - 1 : ReadsFrom(t, i + 1) = ReadsFrom(t, k + 1) => i = k
    BY <1>4 DEF ChildWired
  <2> QED BY <1>1, <1>2, <1>7, <1>10, <1>11, <2>1, <2>2, <2>3, <2>4, <2>5, <2>6
          DEF ChildWired, HasPipe
<1>13. \A i \in Levels : Alive(i)' => Alive(i) /\ ChildWired(i)'
  <2> SUFFICES ASSUME NEW i \in Levels, i # j, Alive(i)' PROVE Alive(i) /\ ChildWired(i)'
    BY <1>4, <1>12
  <2>1. Alive(i) /\ state'[i] = state[i] /\ table'[i] = table[i]
    BY <1>7 DEF Alive
  <2>2. ChildWired(i)
    BY <2>1 DEF ChildrenWired
  <2> QED BY <1>1, <2>1, <2>2, SameChildWired
<1>14. \A k \in 1 .. Stages - 1 :
         /\ ReadsFrom(fds, k + 1)' = ReadsFrom(fds, k + 1)
         /\ \A i \in Levels : ReadsFrom(table[i], k + 1)' = ReadsFrom(table[i], k + 1)
  BY <1>1, <1>7, <1>8 DEF ReadsFrom
<1>15. \A i \in Levels : Alive(i)' /\ pc' \in {"fork", "close_write"} => SameWires(table[i], fds)'
  BY <1>1, <1>2, <1>13, <1>14 DEF ChildrenWired, SameWires
<1>16. \A i, k \in Levels : Alive(i)' /\ Alive(k)' => SameWires(table[i], table[k])'
  BY <1>2, <1>13, <1>14 DEF ChildrenWired, SameWires
<1> QED BY <1>13, <1>15, <1>16 DEF ChildrenWired

\* What children and signals do other than execute a program: a child dies, and
\* the others go on as they were.
LEMMA ChildrenLive ==
  ASSUME TypeOK,
         \/ \E k \in Levels : \/ ExecFails(k) \/ WriteUnit(k) \/ BrokenPipe(k) \/ ReadUnit(k)
                              \/ Finish(k) \/ Suspend(k) \/ Resume(k) \/ SetsMode(k)
         \/ Interrupt
  PROVE  \A j \in Levels :
           Alive(j)' => Alive(j) /\ table'[j] = table[j] /\ (state'[j] = "forked" <=> state[j] = "forked")
<1>1. ASSUME NEW k \in Levels, ExecFails(k) \/ BrokenPipe(k) \/ Finish(k)
      PROVE  \A j \in Levels : Alive(j)' =>
               Alive(j) /\ table'[j] = table[j] /\ (state'[j] = "forked" <=> state[j] = "forked")
  <2>1. /\ state' = [state EXCEPT ![k] = "zombie"]
        /\ table' = [table EXCEPT ![k] = NoTable]
    BY <1>1 DEF ExecFails, BrokenPipe, Finish, Die
  <2> QED BY <2>1 DEF TypeOK, Alive
<1>2. ASSUME NEW k \in Levels, WriteUnit(k) \/ ReadUnit(k)
      PROVE  UNCHANGED <<state, table>>
  BY <1>2 DEF WriteUnit, ReadUnit
<1>3. ASSUME NEW k \in Levels, Suspend(k) \/ Resume(k) \/ SetsMode(k)
      PROVE  \A j \in Levels : Alive(j)' =>
               Alive(j) /\ table'[j] = table[j] /\ (state'[j] = "forked" <=> state[j] = "forked")
  BY <1>3 DEF Suspend, Resume, SetsMode, TypeOK, Alive, procVars
<1>4. CASE Interrupt
  BY <1>4 DEF Interrupt, TypeOK, Alive
<1> QED BY <1>1, <1>2, <1>3, <1>4 DEF Alive

\* The shell reaps a child, or closes what the later stages do not need.
LEMMA ReapWired ==
  ASSUME TypeOK, StandardOpen, ParametersByPlace, ShellWired, ChildrenWired,
         ForkFails \/ CloseWriteEnd \/ Wait \/ CloseFds
  PROVE  ChildrenWired'
<1>1. UNCHANGED <<process_parameter, line, current_command, table>>
  BY DEF ForkFails, CloseWriteEnd, Wait, CloseFds, shellVars, lineVars, procVars
<1>2. \A j \in Levels : Alive(j)' =>
        Alive(j) /\ table'[j] = table[j] /\ (state'[j] = "forked" <=> state[j] = "forked")
  <2>1. CASE ForkFails \/ CloseWriteEnd \/ CloseFds
    BY <1>1, <2>1 DEF ForkFails, CloseWriteEnd, CloseFds, procVars, Alive
  <2>2. CASE Wait
    <3>1. state[level] = "zombie" /\ state' = [state EXCEPT ![level] = "none"]
      BY <2>2 DEF Wait, Ended, AfterReport
    <3> QED BY <1>1, <3>1 DEF TypeOK, Alive
  <2> QED BY <2>1, <2>2
<1>3. CASE CloseWriteEnd /\ HasPipe(level)
  <2>1. /\ pc = "close_write" /\ level \in 1 .. Stages
        /\ fds' = CloseFd(fds, process_parameter[level].fd_stdout)
    BY <1>3, Busy DEF CloseWriteEnd, ClosedBeforeNext
  <2>2. \A f \in Fds : fds'[f] \in {fds[f], Closed}
    BY <2>1, CloseFdTable DEF TypeOK
  <2>3. \A k \in 1 .. Stages - 1 : ReadsFrom(fds, k + 1)' = ReadsFrom(fds, k + 1)
    <3> TAKE k \in 1 .. Stages - 1
    <3>1. ReadsFrom(fds, k + 1).kind = "read" /\ k + 1 \in Levels
      BY <2>1, Busy DEF ShellWired, Wire, Unpiped
    <3>2. fds[process_parameter[level].fd_stdout].kind = "write"
      BY <1>3, <2>1, WriteEndCloses, Kinds DEF WriteEndAfter
    <3>3. process_parameter[k + 1].fd_stdin # process_parameter[level].fd_stdout
      BY <3>1, <3>2 DEF ReadsFrom
    <3>4. process_parameter[k + 1].fd_stdin \in Fds
      BY <3>1, StreamFds
    <3> QED BY <1>1, <1>3, <2>1, <3>3, <3>4, WriteEndCloses DEF ReadsFrom
  <2> QED BY <1>1, <1>2, <2>1, <2>2, <2>3, ChildrenKept
<1>4. CASE ForkFails \/ Wait \/ (CloseWriteEnd /\ ~HasPipe(level))
  <2>1. fds' = fds /\ pc' \notin {"fork", "close_write"}
    BY <1>4 DEF ForkFails, Wait, CloseWriteEnd
  <2> QED BY <1>1, <1>2, <2>1, ChildrenKept
<1>5. CASE CloseFds
  <2>1. pc' \notin {"fork", "close_write"}
    BY <1>5 DEF CloseFds
  <2>2. \A f \in Fds : fds'[f] \in {fds[f], Closed}
    BY <1>5, CloseFdsEffect
  <2> QED BY <1>1, <1>2, <2>1, <2>2, ChildrenKept
<1> QED BY <1>3, <1>4, <1>5

\* Every step keeps the wires of the children.
LEMMA NextChildrenWired ==
  ASSUME TypeOK, ChildrenByLevel, StandardOpen, ParametersByPlace, ShellWired, ChildrenWired,
         ~pipe_failed', [Next]_vars
  PROVE  ChildrenWired'
<1>1. CASE \/ ReadLine \/ Exit \/ OpenRedirects \/ ConnectPipe \/ PipeFails \/ ReportOpenError
           \/ AssertionFailure \/ RunBuiltin \/ BuiltinBrokenPipe \/ CommandReturned
  <2>1. pc \notin Launching /\ state' = state
    BY <1>1, OutsideShell
  <2> QED BY <2>1, NoChildren
<1>2. CASE LaunchProcess \/ RestoreRawMode
  <2>1. pc \notin Launching \ {"raw"} /\ state' = state
    BY <1>2 DEF LaunchProcess, RestoreRawMode, Launching, procVars
  <2> QED BY <2>1, NoChildren
<1>3. CASE Fork
  BY <1>3, ForkWired
<1>4. CASE ForkFails \/ CloseWriteEnd \/ Wait \/ CloseFds
  BY <1>4, ReapWired
<1>5. CASE \E k \in Levels : Exec(k)
  BY <1>5, ExecWired
<1>6. CASE \/ \E k \in Levels : \/ ExecFails(k) \/ WriteUnit(k) \/ BrokenPipe(k) \/ ReadUnit(k)
                                \/ Finish(k) \/ Suspend(k) \/ Resume(k) \/ SetsMode(k)
           \/ Interrupt
  <2>1. UNCHANGED <<pc, level, fds, lineVars, shellVars>>
    BY <1>6, ChildrenOnly DEF ChildStep
  <2>2. UNCHANGED <<pc, fds, process_parameter, line, current_command>>
    BY <2>1 DEF lineVars, shellVars
  <2>3. \A j \in Levels : Alive(j)' =>
          Alive(j) /\ table'[j] = table[j] /\ (state'[j] = "forked" <=> state[j] = "forked")
    BY <1>6, ChildrenLive
  <2> QED BY <2>2, <2>3, ChildrenKept DEF ReadsFrom
<1>7. CASE Done \/ UNCHANGED vars
  <2>1. UNCHANGED <<pc, fds, process_parameter, line, current_command, state, table>>
    BY <1>7 DEF Done, vars, lineVars, shellVars, procVars
  <2> QED BY <2>1, ChildrenKept DEF ReadsFrom, Alive
<1> QED BY <1>1, <1>2, <1>3, <1>4, <1>5, <1>6, <1>7 DEF Next, ShellStep, ChildStep, Environment

------------------------------------------------------------------------------
(* The theorems. *)

\* The shell starts with the standard descriptors, nothing else, and no child.
LEMMA InitDescriptorInv == Init => DescriptorInv
<1> SUFFICES ASSUME Init PROVE DescriptorInv
  OBVIOUS
<1>1. pipe_failed = FALSE /\ \A k \in Levels : table[k] = NoTable /\ ~Alive(k)
  BY DEF Init, Alive
<1>2. StandardOpen /\ \A f \in Fds \ Standard : fds[f] = Closed
  BY StandardFds DEF Init, StandardOpen, Standard, BaseTable
<1>3. /\ pc = "prompt" /\ \A k \in Levels : process_parameter[k] = StaticParameter
  BY DEF Init
<1>4. ParametersByPlace
  <2>1. \A k \in Levels : StageParameters(k)
    BY <1>3, StaticPrivate DEF StageParameters
  <2> QED BY <1>3, <2>1, FirstLevel, StaticPrivate DEF ParametersByPlace, Launching
<1>5. HeldForStages /\ ShellWired /\ ChildrenWired
  BY <1>1, <1>2, <1>3 DEF HeldForStages, ShellWired, ChildrenWired
<1> QED BY <1>1, <1>2, <1>4, <1>5 DEF DescriptorInv

\* A process that has ended holds no descriptor.
LEMMA NextNoTable ==
  ASSUME TypeOK, \A k \in Levels : ~Alive(k) => table[k] = NoTable, [Next]_vars
  PROVE  \A k \in Levels : ~Alive(k)' => table'[k] = NoTable
<1>1. CASE Fork
  <2>1. state' = [state EXCEPT ![level] = "forked"] /\ table' = [table EXCEPT ![level] = fds]
    BY <1>1 DEF Fork
  <2> QED BY <2>1 DEF TypeOK, Alive
<1>2. CASE Wait
  <2>1. state' = [state EXCEPT ![level] = "none"] /\ table' = table /\ state[level] = "zombie"
    BY <1>2 DEF Wait, Ended, AfterReport
  <2> QED BY <2>1 DEF TypeOK, Alive
<1>3. ASSUME ShellStep \/ ReadLine, ~Fork, ~Wait
      PROVE  UNCHANGED <<state, table>>
  BY <1>3 DEF ShellStep, ReadLine, Exit, OpenRedirects, ConnectPipe, PipeFails, ReportOpenError,
     AssertionFailure, RunBuiltin, BuiltinBrokenPipe, LaunchProcess, ForkFails, CloseWriteEnd,
     CloseFds, RestoreRawMode, CommandReturned, procVars
<1>4. ASSUME NEW k \in Levels, ExecFails(k) \/ BrokenPipe(k) \/ Finish(k)
      PROVE  \A j \in Levels : ~Alive(j)' => table'[j] = NoTable
  <2>1. /\ state' = [state EXCEPT ![k] = "zombie"]
        /\ table' = [table EXCEPT ![k] = NoTable]
    BY <1>4 DEF ExecFails, BrokenPipe, Finish, Die
  <2> QED BY <2>1 DEF TypeOK, Alive
<1>5. ASSUME NEW k \in Levels, Exec(k)
      PROVE  \A j \in Levels : ~Alive(j)' => table'[j] = NoTable
  <2>1. /\ state' = [state EXCEPT ![k] = "running"]
        /\ \A j \in Levels : j # k => table'[j] = table[j]
    BY <1>5 DEF Exec, TypeOK
  <2> QED BY <2>1 DEF TypeOK, Alive
<1>6. ASSUME NEW k \in Levels, WriteUnit(k) \/ ReadUnit(k) \/ Suspend(k) \/ Resume(k) \/ SetsMode(k)
      PROVE  \A j \in Levels : ~Alive(j)' => table'[j] = NoTable
  BY <1>6 DEF WriteUnit, ReadUnit, Suspend, Resume, SetsMode, TypeOK, Alive, procVars
<1>7. CASE Interrupt
  BY <1>7 DEF Interrupt, TypeOK, Alive
<1>8. CASE Done \/ UNCHANGED vars
  BY <1>8 DEF Done, vars, procVars, Alive
<1>9. CASE ShellStep \/ ReadLine
  BY <1>1, <1>2, <1>3, <1>9 DEF Alive
<1> QED BY <1>4, <1>5, <1>6, <1>7, <1>8, <1>9 DEF Next, ChildStep, Environment

\* The histories: a pipe(2) that failed is one of the paths that leave
\* descriptors open, and neither is forgotten.
LEMMA NextHistory ==
  ASSUME TypeOK, pipe_failed => leaky, [Next]_vars
  PROVE  (pipe_failed => pipe_failed') /\ (pipe_failed' => leaky')
<1>1. CASE ReportOpenError \/ RunBuiltin \/ ForkFails
  <2>1. pipe_failed' = pipe_failed
    BY <1>1 DEF ReportOpenError, RunBuiltin, ForkFails
  <2>2. leaky => leaky'
    BY <1>1, Zenon DEF ReportOpenError, RunBuiltin, ForkFails
  <2> QED BY <2>1, <2>2
<1>2. CASE PipeFails
  BY <1>2 DEF PipeFails
<1>3. CASE \/ ReadLine \/ Exit \/ OpenRedirects \/ ConnectPipe \/ AssertionFailure
           \/ BuiltinBrokenPipe \/ LaunchProcess \/ Fork \/ CloseWriteEnd \/ Wait \/ CloseFds
           \/ RestoreRawMode \/ CommandReturned
  <2>1. UNCHANGED histVars
    BY <1>3 DEF ReadLine, Exit, OpenRedirects, ConnectPipe, AssertionFailure, BuiltinBrokenPipe,
                LaunchProcess, Fork, CloseWriteEnd, Wait, CloseFds, RestoreRawMode, CommandReturned
  <2> QED BY <2>1 DEF histVars
<1>4. CASE \/ (\E k \in Levels : ChildStep(k) \/ Suspend(k) \/ Resume(k) \/ SetsMode(k)) \/ Interrupt
           \/ Done \/ UNCHANGED vars
  <2>1. UNCHANGED histVars
    BY <1>4, ChildrenOnly DEF Done, vars
  <2> QED BY <2>1 DEF histVars
<1> QED BY <1>1, <1>2, <1>3, <1>4 DEF Next, ShellStep, Environment

(***************************************************************************)
(* As long as no pipe(2) fails, the standard descriptors stay open, each   *)
(* other descriptor of the shell belongs to a stage that will close it, and*)
(* the stages are wired with pipes of their own, in the shell and in every *)
(* child (shell_convert_execute_command_into_process_parameter,            *)
(* launch_process).                                                        *)
(***************************************************************************)
THEOREM DescriptorInvariance == Spec => [](Inv /\ DescriptorInv)
<1>1. Init => DescriptorInv
  BY InitDescriptorInv
<1>2. Inv /\ Inv' /\ DescriptorInv /\ [Next]_vars => DescriptorInv'
  <2> SUFFICES ASSUME Inv, Inv', DescriptorInv, [Next]_vars PROVE DescriptorInv'
    OBVIOUS
  <2>1. TypeOK /\ TypeOK' /\ ChildrenByLevel
    BY DEF Inv
  <2>2. (pipe_failed => pipe_failed') /\ (pipe_failed' => leaky')
    BY <2>1, NextHistory DEF DescriptorInv
  <2>3. \A k \in Levels : ~Alive(k)' => table'[k] = NoTable
    BY <2>1, NextNoTable DEF DescriptorInv
  <2>4. ASSUME ~pipe_failed'
        PROVE  /\ StandardOpen' /\ ParametersByPlace' /\ HeldForStages'
               /\ ShellWired' /\ ChildrenWired'
    <3>1. StandardOpen /\ ParametersByPlace /\ HeldForStages /\ ShellWired /\ ChildrenWired
      BY <2>2, <2>4 DEF DescriptorInv
    <3> QED BY <2>1, <2>4, <3>1, NextStandardOpen, NextParameters, NextHeld, NextWired,
               NextChildrenWired
  <2> QED BY <2>2, <2>3, <2>4 DEF DescriptorInv
<1> QED BY <1>1, <1>2, Invariance, PTL DEF Spec

(***************************************************************************)
(* The shell comes back to the prompt with its three standard descriptors  *)
(* and no other, whatever was piped, redirected, chained or interrupted,   *)
(* unless it took one of the paths that leave descriptors open.            *)
(***************************************************************************)
THEOREM NoDescriptorIsLeaked == Spec => []NoDescriptorLeak
<1>1. Inv /\ DescriptorInv => NoDescriptorLeak
  <2> SUFFICES ASSUME TypeOK, DescriptorInv, pc = "prompt", ~leaky PROVE fds = BaseTable
    BY DEF Inv, NoDescriptorLeak
  <2>1. StandardOpen /\ HeldForStages
    BY DEF DescriptorInv
  <2>2. \A f \in Fds \ Standard : fds[f] = Closed
    BY <2>1, NothingHeld DEF HeldForStages
  <2>3. \A f \in Fds : fds[f] = IF f \in {STDIN, STDOUT, STDERR} THEN Terminal ELSE Closed
    BY <2>1, <2>2 DEF StandardOpen, Standard
  <2> QED BY <2>3 DEF BaseTable, TypeOK, Tables
<1> QED BY <1>1, DescriptorInvariance, PTL

\* A process that reads a pipe is a stage after the first that has moved the
\* pipe to its standard input.
LEMMA SourceIsPipe ==
  ASSUME TypeOK, ChildrenByLevel, DescriptorInv, ~pipe_failed,
         NEW k \in Levels, Source(k).kind = "read"
  PROVE  /\ Alive(k) /\ k \in 1 .. Stages /\ k - 1 \in 1 .. Stages - 1 /\ k = (k - 1) + 1
         /\ Source(k) = ReadsFrom(table[k], k)
<1>1. Alive(k)
  <2>1. NoTable[STDIN] = Closed
    BY StandardFds DEF NoTable
  <2> QED BY <2>1, Kinds DEF DescriptorInv, Source
<1>2. k \in 1 .. Stages /\ Stages \in Int /\ k \in Int
  <2>1. state[k] # "none"
    BY <1>1 DEF Alive
  <2>2. k \in 1 .. Stages /\ pc \notin {"prompt", "exited"}
    BY <2>1, ChildPlace
  <2> QED BY <2>2, Busy
<1>3. /\ k # 1 /\ Source(k) = ReadsFrom(table[k], k)
  BY <1>1, Kinds DEF DescriptorInv, ChildrenWired, ChildWired, Source
<1> QED BY <1>1, <1>2, <1>3

(***************************************************************************)
(* Neither the shell, nor the process itself, nor a later stage can write  *)
(* to the pipe a process reads: the input ends when the earlier stages end.*)
(***************************************************************************)
THEOREM WriteEndsAreUpstream == Spec => []OnlyEarlierStagesHoldWriteEnd
<1>1. Inv /\ DescriptorInv => OnlyEarlierStagesHoldWriteEnd
  <2> SUFFICES ASSUME Inv, DescriptorInv, ~pipe_failed, NEW k \in Levels, Source(k).kind = "read"
               PROVE  LET w == WriteEnd(Source(k).of)
                      IN ~Holds(fds, w) /\ \A j \in k .. MaxStages : ~Holds(table[j], w)
    BY DEF OnlyEarlierStagesHoldWriteEnd
  <2> DEFINE w == WriteEnd(Source(k).of)
  <2>1. /\ Alive(k) /\ k \in Int /\ k - 1 \in 1 .. Stages - 1 /\ k = (k - 1) + 1
        /\ Source(k) = ReadsFrom(table[k], k)
    BY SourceIsPipe, PipelineAssumption DEF Inv, Levels
  <2>2. PICK i \in 1 .. Stages - 1 : k = i + 1 /\ i \in Int
    BY <2>1
  <2>3. w = WriteEndAfter(table[k], i)
    BY <2>1, <2>2 DEF WriteEndAfter
  <2>4. ChildrenWired
    BY DEF DescriptorInv
  <2>5. ~Holds(fds, w)
    <3>1. Holds(fds, WriteEndAfter(table[k], i)) => i >= k
      BY <2>1, <2>4 DEF ChildrenWired, ChildWired
    <3> QED BY <2>2, <2>3, <3>1
  <2>6. ASSUME NEW j \in k .. MaxStages PROVE ~Holds(table[j], w)
    <3>1. j \in Levels /\ j \in Int
      BY <2>1, PipelineAssumption DEF Levels
    <3>2. CASE Alive(j)
      <4>1. SameWires(table[j], table[k]) /\ ChildWired(j)
        BY <2>1, <2>4, <3>1, <3>2 DEF ChildrenWired
      <4>2. w = WriteEndAfter(table[j], i)
        BY <2>2, <2>3, <4>1 DEF SameWires, WriteEndAfter
      <4>3. Holds(table[j], WriteEndAfter(table[j], i)) => i >= j
        BY <4>1 DEF ChildWired
      <4> QED BY <2>1, <2>2, <3>1, <4>2, <4>3
    <3>3. CASE ~Alive(j)
      <4>1. table[j] = NoTable
        BY <3>1, <3>3 DEF DescriptorInv
      <4> QED BY <4>1, Kinds DEF Holds, NoTable
    <3> QED BY <3>2, <3>3
  <2> QED BY <2>5, <2>6
<1> QED BY <1>1, DescriptorInvariance, PTL

(***************************************************************************)
(* The pipe a running stage writes is read by the next stage and by no     *)
(* other, and the last stage writes to no pipe.                            *)
(***************************************************************************)
THEOREM NeighboursAreConnected == Spec => []PipesConnectNeighbours
<1>1. Inv /\ DescriptorInv => PipesConnectNeighbours
  <2> SUFFICES ASSUME Inv, DescriptorInv, ~pipe_failed, NEW j \in Levels, NEW k \in Levels,
                      state[j] = "running", state[k] = "running"
               PROVE  /\ (Sink(j).kind = "write" /\ Source(k) = ReadEnd(Sink(j).of)) <=> k = j + 1
                      /\ ~HasPipe(j) => Sink(j).kind # "write"
    BY DEF PipesConnectNeighbours
  <2>1. /\ Alive(j) /\ Alive(k) /\ ChildWired(j) /\ ChildWired(k) /\ SameWires(table[j], table[k])
        /\ ParametersByPlace /\ table[j] \in Tables /\ table[k] \in Tables
    BY DEF Alive, DescriptorInv, ChildrenWired, Inv, TypeOK
  <2>2. /\ j \in 1 .. Stages /\ k \in 1 .. Stages /\ j \in Int /\ k \in Int /\ Stages \in Int
        /\ \A i \in 1 .. Stages - 1 : i \in Levels /\ i + 1 \in Levels
    <3>1. j \in 1 .. Stages /\ k \in 1 .. Stages /\ pc \notin {"prompt", "exited"}
      BY ChildPlace DEF Inv
    <3> QED BY <3>1, Busy DEF Inv
  <2>3. Source(k) = IF k = 1 THEN Terminal ELSE ReadsFrom(table[j], k)
    <3>1. Source(k) = IF k = 1 THEN Terminal ELSE ReadsFrom(table[k], k)
      BY <2>1 DEF ChildWired, Source
    <3>2. k # 1 => k - 1 \in 1 .. Stages - 1 /\ k = (k - 1) + 1
      BY <2>2
    <3> QED BY <2>1, <3>1, <3>2 DEF SameWires
  <2>4. CASE HasPipe(j)
    <3>1. j \in 1 .. Stages - 1
      BY <2>2, <2>4 DEF HasPipe
    <3>2. Sink(j) = WriteEnd(ReadsFrom(table[j], j + 1).of)
      BY <2>1, <2>4 DEF ChildWired, Sink, WriteEndAfter
    <3>3. ReadsFrom(table[j], j + 1) = ReadEnd(ReadsFrom(table[j], j + 1).of)
      BY <2>1, <2>2, <3>1, ReadsPipe DEF ChildWired
    <3>4. Sink(j).kind = "write" /\ ReadEnd(Sink(j).of) = ReadsFrom(table[j], j + 1)
      BY <3>2, <3>3, Kinds
    <3>5. Source(k) = ReadsFrom(table[j], j + 1) <=> k = j + 1
      <4>1. CASE k = 1
        <5>1. ReadsFrom(table[j], j + 1).kind = "read"
          BY <2>1, <3>1 DEF ChildWired
        <5> QED BY <2>2, <2>3, <4>1, <5>1, Kinds
      <4>2. CASE k # 1
        <5>1. PICK i \in 1 .. Stages - 1 : k = i + 1 /\ i \in Int
          <6>1. k - 1 \in 1 .. Stages - 1 /\ k = (k - 1) + 1 /\ k - 1 \in Int
            BY <2>2, <4>2
          <6> QED BY <6>1
        <5>2. Source(k) = ReadsFrom(table[j], i + 1)
          BY <2>3, <4>2, <5>1
        <5>3. ReadsFrom(table[j], i + 1) = ReadsFrom(table[j], j + 1) => i = j
          BY <2>1, <3>1 DEF ChildWired
        <5> QED BY <2>2, <5>1, <5>2, <5>3
      <4> QED BY <4>1, <4>2
    <3> QED BY <2>4, <3>4, <3>5
  <2>5. CASE ~HasPipe(j)
    <3>1. Sink(j).kind # "write"
      BY <2>1, <2>5 DEF ChildWired, Sink
    <3>2. k # j + 1
      BY <2>2, <2>5 DEF HasPipe
    <3> QED BY <3>1, <3>2
  <2> QED BY <2>4, <2>5
<1> QED BY <1>1, DescriptorInvariance, PTL
==============================================================================
