------------------------- MODULE MCKeyboardSession -------------------------
(***************************************************************************)
(* Both shift keys, both control keys, a letter and a grey key, whose      *)
(* second byte is that of a digit of the number pad.                       *)
(***************************************************************************)
EXTENDS KeyboardSession

MCKeys == {"lshift", "rshift", "lctrl", "rctrl", "a", "up"}

MCMakeCode ==
  [k \in MCKeys |->
     CASE k = "lshift" -> <<42>>
       [] k = "rshift" -> <<54>>
       [] k = "lctrl"  -> <<29>>
       [] k = "rctrl"  -> <<224, 29>>
       [] k = "a"      -> <<30>>
       [] k = "up"     -> <<224, 72>>]

\* A blank and a lower case letter.
MCLeftOver == {32, 98}
=============================================================================
