----------------------------- MODULE LineSource -----------------------------
(***************************************************************************)
(* What fgets promises its caller: the input in order, a piece per call,   *)
(* each piece up to a newline, or as much as there is room for.  A piece   *)
(* that the end of the input cuts short, or a byte that is taken for it,   *)
(* is dropped, and the call returns NULL, here no characters.              *)
(***************************************************************************)
EXTENDS Naturals, Sequences

CONSTANTS
  Room,    \* characters a piece may have
  Enders   \* the end of the input, and what is taken for it

VARIABLES
  input,   \* everything there is to read
  rest,    \* what no call has returned or dropped
  last     \* what the last call returned

Unbroken(piece) == \A i \in DOMAIN piece : piece[i] \notin Enders \cup {"nl"}
Front(piece)    == SubSeq(piece, 1, Len(piece) - 1)

IsLine(piece) ==
  /\ piece # <<>> /\ Unbroken(Front(piece))
  /\ piece[Len(piece)] = "nl" \/ (Len(piece) = Room /\ Unbroken(piece))

IsCut(piece, left) ==
  \/ piece # <<>> /\ Unbroken(Front(piece)) /\ piece[Len(piece)] \in Enders
  \/ left = <<>> /\ Unbroken(piece) /\ Len(piece) < Room

Deliver ==
  \E n \in 0..Len(rest) :
    LET piece == SubSeq(rest, 1, n)
        left  == SubSeq(rest, n + 1, Len(rest))
    IN  /\ Len(piece) <= Room
        /\ rest' = left /\ UNCHANGED input
        /\ \/ IsLine(piece) /\ last' = piece
           \/ IsCut(piece, left) /\ last' = <<>>

Open == rest' = input /\ UNCHANGED <<input, last>>

Init == rest = input /\ last = <<"none">>
Next == Deliver \/ Open
Spec == Init /\ [][Next]_<<input, rest, last>>
=============================================================================
