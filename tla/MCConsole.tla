----------------------------- MODULE MCConsole -----------------------------
(***************************************************************************)
(* Three text rows of two cells, room to print twice as many, and the      *)
(* shapes of run the conversions write: none (an empty %s), a %p with its  *)
(* leading NUL, and one that fills a row.                                  *)
(***************************************************************************)
EXTENDS Console

MCChars == {0, 1}
MCRuns  == { <<>>, <<0, 1>>, <<1, 1>> }
=============================================================================
