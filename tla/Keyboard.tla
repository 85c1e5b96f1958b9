------------------------------ MODULE Keyboard ------------------------------
(***************************************************************************)
(* The keyboard handler of sys/ps2Controller.c: the two modifier flags and *)
(* the two cells of the status row it shows the last key in.  Characters   *)
(* are their codes; 0 is the NUL that an unmapped key or a cleared cell    *)
(* holds.                                                                  *)
(***************************************************************************)
EXTENDS Naturals, Sequences

CONSTANT LeftOver  \* characters the boot loader may have left in the two cells

ASSUME KeyboardAssumption == LeftOver \subseteq Nat

VARIABLES
  uppercase,   \* 1 while a shift key is thought to be down
  ctrlKey,     \* 1 while a control key is thought to be down
  keyCell,     \* the cell behind KEYPRESS_ADDRESS
  caretCell    \* the cell behind CTRL_KEYPRESS_ADDRESS

kbdVars == <<uppercase, ctrlKey, keyCell, caretCell>>

Caret == 94

\* Scan codes, set 1.
LeftShift  == 42     \* 0x2A
RightShift == 54     \* 0x36
Control    == 29     \* 0x1D
Extended   == 224    \* 0xE0, the prefix of the grey keys and of right control
Release    == 128    \* the bit a break code adds to its make code

\* The 89 entries of map[], by scan code from 0.
codes ==
  << 0, 0, 49, 50, 51, 52, 53, 54, 55, 56, 57, 48, 45, 61, 8, 9, 113,
     119, 101, 114, 116, 121, 117, 105, 48, 112, 91, 93, 13, 0, 97, 115, 100,
     102, 103, 104, 106, 107, 108, 59, 39, 0, 0, 92, 122, 120, 99, 118, 98,
     110, 109, 44, 46, 47, 0, 42, 0, 32, 0, 112, 113, 114, 115, 116, 117, 118,
     119, 120, 121, 0, 0, 55, 56, 57, 45, 52, 53, 54, 43, 49, 50, 51, 48, 46,
     0, 0, 0, 122, 123 >>

map[key \in 0..88] == codes[key + 1]

IsLower(c) == c \in 97..122
Upper(c)   == IF IsLower(c) THEN c - 32 ELSE c

Mapped(key) == key <= 88 /\ map[key] # 0

\* A mutant: a stale caret stays.
show_key_stale(key) ==
  LET shown == IF Mapped(key) THEN map[key] ELSE keyCell IN
  /\ caretCell' = IF ctrlKey = 1 /\ Mapped(key) THEN Caret ELSE caretCell
  /\ keyCell' = IF uppercase = 1 THEN Upper(shown) ELSE shown
  /\ UNCHANGED <<uppercase, ctrlKey>>

\* The default case: a stale caret goes, a mapped key is shown, and a lower case
\* letter on the screen is raised while shift is down, whoever put it there.
show_key(key) ==
  LET shown == IF Mapped(key) THEN map[key] ELSE keyCell IN
  /\ caretCell' = CASE ctrlKey = 0 -> 0
                    [] ctrlKey = 1 /\ Mapped(key) -> Caret
                    [] ctrlKey = 1 /\ ~Mapped(key) -> caretCell
  /\ keyCell' = IF uppercase = 1 THEN Upper(shown) ELSE shown
  /\ UNCHANGED <<uppercase, ctrlKey>>

set_uppercase(value) ==
  uppercase' = value /\ UNCHANGED <<ctrlKey, keyCell, caretCell>>

set_ctrlKey(value) ==
  ctrlKey' = value /\ UNCHANGED <<uppercase, keyCell, caretCell>>

\* Two mutants: the right shift key's release is not looked for; control's is
\* taken for a second press.
handle_key_one_release(key) ==
  CASE key \in {LeftShift, RightShift} -> set_uppercase(1)
    [] key = LeftShift + Release -> set_uppercase(0)
    [] key \in {Control, Extended} -> set_ctrlKey(1)
    [] key = Control + Release -> set_ctrlKey(0)
    [] OTHER -> show_key(key)

handle_key_control_on(key) ==
  CASE key \in {LeftShift, RightShift} -> set_uppercase(1)
    [] key \in {LeftShift + Release, RightShift + Release} -> set_uppercase(0)
    [] key \in {Control, Extended, Control + Release} -> set_ctrlKey(1)
    [] OTHER -> show_key(key)

\* helper_keyboard_handler after it has read key and up to its end of interrupt.
handle_key(key) ==
  CASE key \in {LeftShift, RightShift} -> set_uppercase(1)
    [] key \in {LeftShift + Release, RightShift + Release} -> set_uppercase(0)
    [] key \in {Control, Extended} -> set_ctrlKey(1)
    [] key = Control + Release -> set_ctrlKey(0)
    [] OTHER -> show_key(key)

KbdInit ==
  /\ uppercase = 0
  /\ ctrlKey = 0
  /\ keyCell \in LeftOver
  /\ caretCell \in LeftOver

KbdTypeOK ==
  /\ uppercase \in {0, 1}
  /\ ctrlKey \in {0, 1}
  /\ keyCell \in Nat
  /\ caretCell \in Nat
=============================================================================
