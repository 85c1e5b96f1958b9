------------------------------ MODULE ReadLine ------------------------------
(***************************************************************************)
(* A program that calls readline for one line after the other and keeps    *)
(* them.  readline reads chunks of MAX_BUF_SIZE characters into a buffer   *)
(* that it replaces by a larger one when it is full, both from the heap    *)
(* of module Heap, whose headers the characters overwrite.                 *)
(*                                                                         *)
(* readline puts no terminator behind the line; what follows it in the     *)
(* buffer is not modelled.                                                 *)
(***************************************************************************)
EXTENDS Heap, HostRead

CONSTANT MaxCalls   \* bound: calls of readline

ASSUME ReadLineAssumption == \A source \in Inputs : source.chars \in Seq(STRING)

MAX_BUF_SIZE == 4

VARIABLES
  source,    \* what is read
  at,        \* characters taken
  heap,      \* ROOT and the blocks
  data,      \* the buffer, of the call that is under way
  text,      \* the characters in it
  returned,  \* what the calls returned
  pc         \* "idle", "read" or "dead"

readlineVars == <<source, at, heap, data, text, returned, pc>>

Call ==
  /\ pc = "idle" /\ Len(returned) < MaxCalls
  /\ heap' = malloc(heap).heap /\ data' = malloc(heap).ptr
  /\ text' = <<>> /\ pc' = "read"
  /\ UNCHANGED <<source, at, returned>>

\* A mutant: the old buffer is kept.
enlarged_leak(full, n) ==
  LET new == malloc(full)
  IN  [heap |-> Written(new.heap, new.ptr, n), data |-> new.ptr, fault |-> FALSE]

\* The n characters of a full buffer go to a new one; the old one is given to free, which
\* walks the list and may not survive that.
enlarged(full, n) ==
  LET new   == malloc(full)
      freed == free(Written(new.heap, new.ptr, n), data)
  IN  [heap |-> freed.heap, data |-> new.ptr, fault |-> freed.fault]

\* A mutant: a chunk that ends in a newline is not looked at.
last_chunk_short(chars) == Len(chars) < MAX_BUF_SIZE

\* A chunk ends the line if it is short or its last character is a newline.
last_chunk(chars) == Len(chars) < MAX_BUF_SIZE \/ Last(chars) = "nl"

readline ==
  /\ pc = "read"
  /\ \E taken \in read(source, at, MAX_BUF_SIZE) :
       LET chars  == Got(taken)
           n      == Len(text) + Len(chars)
           filled == Written(heap, data, n)
       IN  /\ at' = at + Len(taken)
           /\ text' = text \o chars
           /\ IF last_chunk(chars)
              THEN /\ pc' = "idle" /\ heap' = filled
                   /\ returned' = Append(returned, text') /\ UNCHANGED data
              ELSE LET more == enlarged(filled, n)
                   IN  /\ pc' = IF more.fault THEN "dead" ELSE "read"
                       /\ heap' = more.heap /\ data' = more.data
                       /\ UNCHANGED returned
  /\ UNCHANGED source

\* The program may have taken a block before.
Init ==
  /\ source \in Inputs
  /\ LET empty == [ROOT |-> NULL, blocks |-> <<>>]
     IN  heap \in {empty, malloc(empty).heap}
  /\ at = 0 /\ data = NULL /\ text = <<>> /\ returned = <<>> /\ pc = "idle"

Next == Call \/ readline

Spec == Init /\ [][Next]_readlineVars

-----------------------------------------------------------------------------
\* Where the lines of a text end, and the line that ends at a place.
Ends(chars) == {i \in DOMAIN chars : chars[i] \in {"nl", "eot"}}
EndsBefore(chars, i) == {e \in Ends(chars) : e < i}
LineTo(chars, last) ==
  Got(SubSeq(chars, Max({0} \cup EndsBefore(chars, last)) + 1, last))

\* From a terminal, readline returns the lines that were typed, one by one: a chunk never
\* reaches into the next line, as it does in a file or a pipe, where a newline is looked
\* for only where a chunk ends.
TerminalLines ==
  source.kind = "terminal" =>
    \A k \in DOMAIN returned :
      \E last \in Ends(source.chars) :
        /\ Cardinality(EndsBefore(source.chars, last)) = k - 1
        /\ returned[k] = LineTo(source.chars, last)

\* A program dies in readline of a line of more than twenty characters, whose fifth chunk
\* fills a header up to its next; and of a line of more than four once a line of more
\* than sixteen has been read, since that next is handed on to all later buffers.
DiesOfLongLines ==
  LET Spoilt(k) == \E j \in 1..k - 1 : Len(returned[j]) > 16
  IN  /\ \A k \in DOMAIN returned : Len(returned[k]) <= (IF Spoilt(k) THEN 4 ELSE 20)
      /\ pc = "dead" => Len(text) = IF Spoilt(Len(returned) + 1) THEN 4 ELSE 20
=============================================================================
