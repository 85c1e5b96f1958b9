------------------------------ MODULE MCShell ------------------------------
EXTENDS Shell

Run(program) == [program |-> program, background |-> FALSE]
Bg(program)  == [program |-> program, background |-> TRUE]

MCSessions == {
  <<<<Run("cat"), Run("filter"), Run("filter")>>>>,
  <<<<Run("cat"), Run("head"), Run("filter")>>>>,
  <<<<Run("cat"), Run("ls")>>, <<Run("ls"), Run("empty")>>>>,
  <<<<Run("missing"), Bg("missing"), Run("filter")>>, <<Run("missing")>>>>,
  <<<<Bg("cat"), Bg("filter")>>, <<Run("cat")>>>>,
  <<<<Bg("missing")>>, <<Run("ls")>>, <<Bg("missing")>>>>,
  <<<<Bg("missing")>>, <<Run("cat"), Run("head")>>>> }

MCMakefile == <<"all", "clean", "kernel">>
=============================================================================
