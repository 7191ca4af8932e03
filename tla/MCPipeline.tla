------------------------------ MODULE MCPipeline ------------------------------
(***************************************************************************)
(* Instances of Pipeline.tla for TLC: the command lines each run executes. *)
(***************************************************************************)
EXTENDS Pipeline

\* A stage without a redirection, with its output or its errors redirected.
Run(p)     == [prog |-> p, out |-> NoFile, err |-> NoFile]
To(p, f)   == [prog |-> p, out |-> f, err |-> NoFile]
Err(p, f)  == [prog |-> p, out |-> NoFile, err |-> f]
Both(p, f) == [prog |-> p, out |-> f, err |-> f]

Pipe2(p, q)    == <<Run(p), Run(q)>>
Pipe3(p, q, r) == <<Run(p), Run(q), Run(r)>>

MCFiles    == {"f", "bad"}
MCBadFiles == {"bad"}

\* Chains, redirections, builtins, refused files and pipelines of two and three
\* stages, in which every kind of program ends.
MCLines == {
  <<  <<Both("produce", "f")>>,  <<Run("quit")>>  >>,
  <<  <<To("filter", "bad")>>,  <<Run("quit")>>  >>,
  <<  <<Err("produce", "bad"), To("filter", "f")>>  >>,
  <<  <<Err("produce", "f"), To("filter", "f")>>,  <<Run("exit")>>  >>,
  <<  Pipe2("builtin", "filter"),  <<Err("builtin", "f")>>  >>,
  <<  Pipe3("produce", "filter", "quit")  >>,
  <<  Pipe3("produce", "missing", "filter")  >>,
  <<  Pipe2("produce", "builtin"),  <<Run("missing")>>, <<Run("builtin")>>  >>,
  <<  Pipe3("builtin", "exit", "filter") >>,
  <<  Pipe2("quit", "empty"),  <<Run("quit")>>  >>,
  <<  <<Run("empty")>>  >> }

\* Lines in which every stage that writes has a reader that reads to the end:
\* these must always come to their end.
MCTameLines == {
  <<  Pipe3("produce", "filter", "filter"), <<Run("produce")>>  >>,
  <<  <<Err("missing", "f"), To("filter", "f")>>, <<Run("quit")>>  >>,
  <<  Pipe3("builtin", "filter", "filter") >>,
  <<  <<Run("filter"), Both("filter", "f")>>, <<To("quit", "bad")>> >>,
  <<  Pipe2("quit", "empty"),  <<Run("exit")>>  >> }

\* Pipelines for a table with two free descriptors.
MCLeakyLines == {
  <<  <<Run("quit"), To("quit", "bad")>>  >>,
  <<  Pipe2("endless", "quit")  >>,
  <<  Pipe2("builtin", "quit")  >> }

MCMissingFirst == { <<  <<Run("missing")>>, <<Run("quit")>>  >>,
                    <<  <<To("missing", "f")>>  >> ,
                    <<  Pipe2("missing", "filter"), <<Run("quit")>>  >> }

MCEarlyQuitter == { <<  Pipe2("produce", "quit")  >> }
MCNoWord       == { <<  Pipe2("builtin", "empty"), <<Run("quit")>>  >> }
==============================================================================
