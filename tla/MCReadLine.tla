----------------------------- MODULE MCReadLine -----------------------------
EXTENDS ReadLine

\* A line of n characters and its newline.
TypedLine(n) == [i \in 1..n + 1 |-> IF i <= n THEN "a" ELSE "nl"]

Lengths == {0, 2, 3, 4, 7, 11, 14, 15, 16, 19, 20, 23}
Session == {TypedLine(n) \o TypedLine(k) \o TypedLine(l) : n, k \in Lengths, l \in {0, 4, 19}}

MCInputs ==
  {[kind |-> "terminal", chars |-> t] :
     t \in Session \cup {TypedLine(3) \o <<"eot">> \o TypedLine(2)}} \cup
  {[kind |-> k, chars |-> TypedLine(2) \o TypedLine(n)] : k \in {"pipe", "file"}, n \in {0, 3, 5}}
=============================================================================
