----------------------------- MODULE CommandChain -----------------------------
(***************************************************************************)
(* What the shell promises of a command line, whatever descriptors and     *)
(* system calls it takes: the pipelines joined by && run one at a time and *)
(* in order, the next one only when the one before it ended with status 0; *)
(* the processes of a pipeline are started in the order of its stages and  *)
(* every one of them has been reaped before the next pipeline or the next  *)
(* prompt; a pipeline whose files cannot be opened starts no process and   *)
(* leaves the status alone.                                                *)
(*                                                                         *)
(* Pipeline.tla implements this specification.                             *)
(***************************************************************************)
EXTENDS Integers, Sequences

CONSTANT Lines   (* sequences of pipelines, each a sequence of stages *)

VARIABLES
  phase,             (* "idle", "ready", "running" or "stopped" *)
  line,              (* the line being executed *)
  position,          (* the pipeline of it that runs *)
  live,              (* its processes that are not yet reaped *)
  last_status_code   (* status of the last pipeline that ran *)

vars == <<phase, line, position, live, last_status_code>>

Init ==
  /\ phase = "idle" /\ line = <<>> /\ position = 0
  /\ live = {} /\ last_status_code = 0

\* The user enters a line.
Submit ==
  /\ phase = "idle"
  /\ \E l \in Lines : line' = l
  /\ position' = 1
  /\ phase' = "ready"
  /\ UNCHANGED <<live, last_status_code>>

Drop == line' = <<>> /\ position' = 0 /\ phase' = "idle"

\* A file of the pipeline cannot be opened.
Refuse ==
  /\ phase = "ready"
  /\ Drop
  /\ UNCHANGED <<live, last_status_code>>

\* The shell ends, at the prompt (exit) or because of the pipeline it was given.
Stop ==
  /\ phase \in {"idle", "ready"}
  /\ phase' = "stopped"
  /\ UNCHANGED <<line, position, live, last_status_code>>

Launch ==
  /\ phase = "ready"
  /\ phase' = "running"
  /\ UNCHANGED <<line, position, live, last_status_code>>

Start(k) ==
  /\ \A j \in live : j < k
  /\ live' = live \cup {k}
  /\ UNCHANGED <<phase, line, position, last_status_code>>

Reap(k) ==
  /\ k \in live
  /\ live' = live \ {k}
  /\ UNCHANGED <<phase, line, position, last_status_code>>

Complete ==
  /\ phase = "running" /\ live = {}
  /\ last_status_code' \in Int
  /\ IF last_status_code' = 0 /\ position < Len(line)
     THEN position' = position + 1 /\ phase' = "ready" /\ UNCHANGED line
     ELSE Drop
  /\ UNCHANGED live

Run ==
  /\ phase = "running"
  /\ \E k \in 1 .. Len(line[position]) : Start(k) \/ Reap(k)

Next == Submit \/ Refuse \/ Stop \/ Launch \/ Run \/ Complete

Spec == Init /\ [][Next]_vars
==============================================================================
