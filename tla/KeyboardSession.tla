--------------------------- MODULE KeyboardSession ---------------------------
(***************************************************************************)
(* A user at the keyboard: keys go down, repeat and come up, each sending  *)
(* its bytes of scan code set 1, and the handler of Keyboard gets them one *)
(* interrupt at a time, in order (Kernel shows that it gets each once).    *)
(* The user may be ahead of the handler by a few bytes, so the handler's   *)
(* idea of the modifiers lags behind the keys that are really down.        *)
(***************************************************************************)
EXTENDS Keyboard, FiniteSets

CONSTANTS
  Keys,        \* the keys of the keyboard
  MakeCode,    \* for each the bytes it sends when it goes down
  WireLength   \* bound: bytes on the way to the handler

ASSUME SessionAssumption ==
  /\ \A k \in Keys : MakeCode[k] \in { <<c>> : c \in 1..88 } \cup
                                     { <<Extended, c>> : c \in 1..88 }
  /\ WireLength \in Nat /\ WireLength > 1

VARIABLES
  held,      \* the keys that are down
  wire,      \* the bytes that are on their way
  extended,  \* history: a prefix byte was handled after the last control release
  last       \* history: the mapped key handled last, and ctrlKey at that time

sessionVars == <<kbdVars, held, wire, extended, last>>

NoKey == [code |-> 0, ctrl |-> 0]

BreakCode(k) ==
  LET make == MakeCode[k]
  IN  [make EXCEPT ![Len(make)] = @ + Release]

Send(bytes) ==
  /\ Len(wire) + Len(bytes) <= WireLength
  /\ wire' = wire \o bytes
  /\ UNCHANGED <<kbdVars, extended, last>>

Press(k) == /\ k \notin held
            /\ held' = held \cup {k}
            /\ Send(MakeCode[k])

Repeat(k) == k \in held /\ UNCHANGED held /\ Send(MakeCode[k])

LetGo(k) == /\ k \in held
            /\ held' = held \ {k}
            /\ Send(BreakCode(k))

\* One keyboard interrupt.
Interrupt ==
  /\ wire # <<>>
  /\ LET key == Head(wire) IN
       /\ handle_key(key)
       /\ extended' = (key = Extended \/ (extended /\ key # Control + Release))
       /\ last' = IF Mapped(key) THEN [code |-> key, ctrl |-> ctrlKey] ELSE last
  /\ wire' = Tail(wire)
  /\ UNCHANGED held

SessionInit ==
  /\ KbdInit
  /\ held = {} /\ wire = <<>> /\ extended = FALSE /\ last = NoKey

SessionNext ==
  \/ \E k \in Keys : Press(k) \/ Repeat(k) \/ LetGo(k)
  \/ Interrupt

SessionSpec == SessionInit /\ [][SessionNext]_sessionVars

-----------------------------------------------------------------------------
KeyDown(code) == \E k \in held : MakeCode[k][Len(MakeCode[k])] = code

\* Shift never sticks: when the handler has caught up and neither shift key is
\* down, letters are lower case, in whatever order the two keys went down, came
\* up and repeated.
ShiftNeverSticks ==
  (wire = <<>> /\ ~KeyDown(LeftShift) /\ ~KeyDown(RightShift)) => uppercase = 0

\* The handler takes every prefix byte for a control key.  Those apart, control
\* is on only while a control key is down.
ControlHeldOrExtended ==
  (wire = <<>> /\ ctrlKey = 1) => (KeyDown(Control) \/ extended)

\* What the status row shows is the last mapped key, up to its case, and a caret
\* stands before it only if that key came with control.
ShownIsLastKey ==
  last # NoKey =>
    /\ Upper(keyCell) = Upper(map[last.code])
    /\ caretCell = Caret => last.ctrl = 1
=============================================================================
