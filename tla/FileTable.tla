------------------------------ MODULE FileTable ------------------------------
(***************************************************************************)
(* The descriptor table the kernel keeps for a process, as shell.c and     *)
(* process_manager.c use it through open, pipe, dup2, close and fork.  The *)
(* shell relies on two facts of the kernel: a new descriptor always takes  *)
(* the lowest free number, and a child starts with a copy of its parent's  *)
(* table, in which every pipe end the parent had open is open too (no call *)
(* of the shell sets O_CLOEXEC).                                           *)
(***************************************************************************)
EXTENDS Integers, Functions, FiniteSetsExt

CONSTANTS
  MaxFd,    (* RLIMIT_NOFILE: descriptors are numbered 0 .. MaxFd - 1 *)
  Files     (* names a redirection may give *)

ASSUME FileTableAssumption == MaxFd \in Nat /\ MaxFd >= 3

Fds     == 0 .. MaxFd - 1
STDIN   == 0
STDOUT  == 1
STDERR  == 2

\* A pipe has two ends, so a table never holds more pipes than descriptors.
PipeIds == 1 .. MaxFd

Closed      == [kind |-> "closed", of |-> 0]
Terminal    == [kind |-> "tty",    of |-> 0]
FileOf(f)   == [kind |-> "file",   of |-> f]
ReadEnd(p)  == [kind |-> "read",   of |-> p]
WriteEnd(p) == [kind |-> "write",  of |-> p]

Descriptions ==
  {Closed, Terminal} \cup {FileOf(f) : f \in Files}
    \cup {ReadEnd(p) : p \in PipeIds} \cup {WriteEnd(p) : p \in PipeIds}

Tables == [Fds -> Descriptions]

\* The table of a process that does not run (any more).
NoTable == [f \in Fds |-> Closed]

\* The table the shell is started with: its three standard descriptors are the
\* terminal.
BaseTable == [f \in Fds |-> IF f \in {STDIN, STDOUT, STDERR} THEN Terminal ELSE Closed]

FreeFds(t)    == {f \in Fds : t[f] = Closed}
LowestFree(t) == Min(FreeFds(t))
IsOpen(t, fd) == fd \in Fds /\ t[fd] # Closed
Holds(t, d)   == \E f \in Fds : t[f] = d

\* open(2) on a table with a free descriptor.
Install(t, d) == [t EXCEPT ![LowestFree(t)] = d]

\* close(2); EBADF, which no caller looks at, leaves the table alone.
CloseFd(t, fd) == IF IsOpen(t, fd) THEN [t EXCEPT ![fd] = Closed] ELSE t

\* dup2(2); EBADF, which no caller looks at, leaves the table alone.
Dup2(t, from, to) == IF IsOpen(t, from) THEN [t EXCEPT ![to] = t[from]] ELSE t
==============================================================================
