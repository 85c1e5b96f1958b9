------------------------------ MODULE HostRead ------------------------------
(***************************************************************************)
(* What the host answers to read(fd, buf, n).  A source is its kind and    *)
(* the characters it will ever give, of which the first at are taken.      *)
(*                                                                         *)
(* A file gives what is asked for while it lasts; a pipe any part of that, *)
(* as its writer left it; a terminal what is asked for of one line, none   *)
(* for an end-of-file key ("eot"), and nobody returns from it without.     *)
(***************************************************************************)
EXTENDS Naturals, FiniteSetsExt, SequencesExt

CONSTANT Inputs   \* set of [kind, chars]

ASSUME InputsAssumption ==
  \A source \in Inputs :
    /\ source.kind \in {"file", "pipe", "terminal"}
    /\ source.kind # "terminal" => \A i \in DOMAIN source.chars : source.chars[i] # "eot"
    /\ source.kind = "terminal" =>
         /\ source.chars = <<>> \/ Last(source.chars) \in {"nl", "eot"}
         /\ \A i \in DOMAIN source.chars :
              source.chars[i] = "eot" => i = 1 \/ source.chars[i - 1] \in {"nl", "eot"}

Rest(source, at) == SubSeq(source.chars, at + 1, Len(source.chars))

\* How far the line goes that begins or continues here.
LineEnd(chars) == Min({i \in DOMAIN chars : chars[i] \in {"nl", "eot"}})

\* The sets of characters a read may return; "eot" makes it return none.
read(source, at, n) ==
  LET rest == Rest(source, at)
      part(k) == SubSeq(rest, 1, k)
      all     == Min({n, Len(rest)})
  IN  CASE source.kind = "file"  -> {part(all)}
        [] source.kind = "pipe"  -> {part(k) : k \in (IF rest = <<>> THEN {0} ELSE 1..all)}
        [] source.kind = "terminal" ->
             IF rest = <<>> THEN {} ELSE {part(Min({n, LineEnd(rest)}))}

\* What of it is in the buffer.
Got(chars) == IF chars = <<"eot">> THEN <<>> ELSE chars
=============================================================================
