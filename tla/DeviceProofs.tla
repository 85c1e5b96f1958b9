---------------------------- MODULE DeviceProofs ----------------------------
(***************************************************************************)
(* The two ends of the terminal, the keyboard and the console, for every   *)
(* keyboard, every user and every printing; the numbers on the screen, for *)
(* every width of an int and of an address; and the table of the PCI scan, *)
(* for every machine and every size of table.                              *)
(***************************************************************************)
EXTENDS KeyboardSession, Console, Pci, Numerals,
        SequenceTheorems, WellFoundedInduction, TLAPS

-----------------------------------------------------------------------------
(* Keyboard: what is on the wire.                                          *)

\* The byte that tells a key from the others, and the bytes of which one tells that a key
\* of a group came up.
Code(k) == MakeCode[k][Len(MakeCode[k])]
Ups(downs) == {d + Release : d \in downs}

Down(downs, h)    == \E k \in h : Code(k) \in downs
Silent(w, downs)  == \A i \in DOMAIN w : w[i] \notin downs \cup Ups(downs)

\* If the handler will think that a key of the group is down once it has got what is on
\* the wire, one is.
Honest(w, h, flag, downs) ==
  /\ flag /\ Silent(w, downs) => Down(downs, h)
  /\ \A i \in DOMAIN w :
       w[i] \in downs /\ (\A j \in DOMAIN w : j > i => w[j] \notin downs \cup Ups(downs)) =>
         Down(downs, h)

LEMMA Codes ==
  ASSUME NEW k \in Keys
  PROVE  /\ Code(k) \in 1..88
         /\ MakeCode[k] \in {<<Code(k)>>, <<Extended, Code(k)>>}
         /\ BreakCode(k) \in {<<Code(k) + Release>>, <<Extended, Code(k) + Release>>}
<1>1. PICK c \in 1..88 : MakeCode[k] \in {<<c>>, <<Extended, c>>}
  BY SessionAssumption
<1>2. CASE MakeCode[k] = <<c>>
  <2>1. Len(MakeCode[k]) = 1 /\ MakeCode[k][1] = c
    BY <1>2
  <2> QED
    BY <1>2, <2>1 DEF Code, BreakCode
<1>3. CASE MakeCode[k] = <<Extended, c>>
  <2>1. Len(MakeCode[k]) = 2 /\ MakeCode[k][2] = c
    BY <1>3
  <2> QED
    BY <1>3, <2>1 DEF Code, BreakCode
<1> QED
  BY <1>1, <1>2, <1>3

LEMMA Bytes ==
  ASSUME NEW x \in Nat, NEW s, s = <<x>> \/ s = <<Extended, x>>
  PROVE  /\ s \in Seq(Nat) /\ Len(s) \in Nat \ {0} /\ DOMAIN s = 1..Len(s)
         /\ s[Len(s)] = x /\ \A i \in DOMAIN s : s[i] \in {x, Extended}
<1>1. CASE s = <<x>>
  BY <1>1
<1>2. CASE s = <<Extended, x>>
  BY <1>2 DEF Extended
<1> QED
  BY <1>1, <1>2

\* A code, the byte of its release and the prefix are told apart.
LEMMA Numbers ==
  ASSUME NEW downs \in SUBSET (1..88), NEW c \in 1..88
  PROVE  /\ c \notin Ups(downs) /\ c \in Nat
         /\ c + Release \notin downs /\ c + Release \in Nat
         /\ Extended \notin downs /\ Extended \notin Ups(downs)
         /\ c + Release \in Ups(downs) <=> c \in downs
<1>1. \A d \in downs : d \in 1..88
  OBVIOUS
<1>2. c \notin Ups(downs) /\ Extended \notin Ups(downs)
  BY <1>1 DEF Ups, Release, Extended
<1>3. c + Release \notin downs /\ Extended \notin downs /\ c + Release \in Nat
  BY <1>1 DEF Release, Extended
<1>4. ASSUME c + Release \in Ups(downs) PROVE c \in downs
  <2>1. PICK d \in downs : c + Release = d + Release
    BY <1>4 DEF Ups
  <2>2. c = d
    BY <1>1, <2>1 DEF Release
  <2> QED
    BY <2>2
<1>5. c \in downs => c + Release \in Ups(downs)
  BY DEF Ups
<1> QED
  BY <1>2, <1>3, <1>4, <1>5

\* Bytes behind those that are on the wire.
LEMMA Behind ==
  ASSUME NEW w \in Seq(Nat), NEW s \in Seq(Nat)
  PROVE  /\ w \o s \in Seq(Nat) /\ DOMAIN (w \o s) = 1..(Len(w) + Len(s))
         /\ DOMAIN w = 1..Len(w) /\ DOMAIN s = 1..Len(s) /\ Len(w) \in Nat /\ Len(s) \in Nat
         /\ \A i \in DOMAIN w : i \in DOMAIN (w \o s) /\ (w \o s)[i] = w[i]
         /\ \A i \in DOMAIN s : /\ Len(w) + i \in DOMAIN (w \o s)
                                /\ (w \o s)[Len(w) + i] = s[i]
         /\ \A i \in DOMAIN (w \o s) :
              i \in DOMAIN w \/ (i - Len(w) \in DOMAIN s /\ (w \o s)[i] = s[i - Len(w)])
<1>1. /\ w \o s \in Seq(Nat) /\ Len(w \o s) = Len(w) + Len(s)
      /\ \A i \in 1..Len(w) + Len(s) :
           (w \o s)[i] = IF i <= Len(w) THEN w[i] ELSE s[i - Len(w)]
  BY ConcatProperties
<1>2. /\ Len(w) \in Nat /\ Len(s) \in Nat /\ DOMAIN w = 1..Len(w) /\ DOMAIN s = 1..Len(s)
      /\ DOMAIN (w \o s) = 1..(Len(w) + Len(s))
  BY <1>1, LenProperties
<1> QED
  BY <1>1, <1>2

\* Bytes that are not of the group change nothing for it.
LEMMA Unrelated ==
  ASSUME NEW w \in Seq(Nat), NEW s \in Seq(Nat), NEW h, NEW i, NEW flag, NEW downs,
         \A j \in DOMAIN s : s[j] \notin downs \cup Ups(downs),
         Honest(w, h, flag, downs), Down(downs, h) => Down(downs, i)
  PROVE  Honest(w \o s, i, flag, downs)
<1> DEFINE v == w \o s
<1>1. Silent(v, downs) => Silent(w, downs)
  BY Behind DEF Silent
<1>2. ASSUME NEW n \in DOMAIN v, v[n] \in downs,
             \A j \in DOMAIN v : j > n => v[j] \notin downs \cup Ups(downs)
      PROVE  Down(downs, i)
  <2>1. n \in DOMAIN w /\ w[n] = v[n]
    BY <1>2, Behind
  <2>2. \A j \in DOMAIN w : j > n => w[j] \notin downs \cup Ups(downs)
    BY <1>2, Behind
  <2> QED
    BY <1>2, <2>1, <2>2 DEF Honest
<1> HIDE DEF v
<1> QED
  BY <1>1, <1>2 DEF Honest, v

\* A key goes down or repeats.
LEMMA MakeHonest ==
  ASSUME NEW w \in Seq(Nat), NEW h, NEW flag, NEW downs \in SUBSET (1..88), NEW k \in Keys,
         Honest(w, h, flag, downs)
  PROVE  Honest(w \o MakeCode[k], h \cup {k}, flag, downs)
<1>1. PICK c \in 1..88 : c = Code(k) /\ (MakeCode[k] = <<c>> \/ MakeCode[k] = <<Extended, c>>)
  BY Codes
<1>2. /\ MakeCode[k] \in Seq(Nat)
      /\ \A j \in DOMAIN MakeCode[k] : MakeCode[k][j] \in {c, Extended}
  <2>1. c \in Nat
    OBVIOUS
  <2> QED
    BY <1>1, <2>1, Bytes
<1>3. CASE Code(k) \in downs
  BY <1>3 DEF Honest, Down
<1>4. CASE Code(k) \notin downs
  <2>1. c \notin downs \cup Ups(downs) /\ Extended \notin downs \cup Ups(downs)
    <3>1. c \notin Ups(downs) /\ Extended \notin downs /\ Extended \notin Ups(downs)
      BY Numbers
    <3> QED
      BY <1>1, <1>4, <3>1
  <2>2. Down(downs, h) => Down(downs, h \cup {k})
    BY DEF Down
  <2> QED
    BY <1>2, <2>1, <2>2, Unrelated
<1> QED
  BY <1>3, <1>4

\* A key comes up.
LEMMA BreakHonest ==
  ASSUME NEW w \in Seq(Nat), NEW h, NEW flag, NEW downs \in SUBSET (1..88), NEW k \in Keys,
         Honest(w, h, flag, downs)
  PROVE  Honest(w \o BreakCode(k), h \ {k}, flag, downs)
<1> DEFINE s == BreakCode(k)
           v == w \o s
<1>1. PICK c \in 1..88 : c = Code(k) /\ (s = <<c + Release>> \/ s = <<Extended, c + Release>>)
  BY Codes
<1> DEFINE up == c + Release
<1>3. /\ up \notin downs /\ Extended \notin downs \cup Ups(downs) /\ up \in Nat
      /\ up \in Ups(downs) <=> Code(k) \in downs
  BY <1>1, Numbers
<1>2. /\ s \in Seq(Nat) /\ Len(s) \in Nat \ {0} /\ DOMAIN s = 1..Len(s) /\ s[Len(s)] = up
      /\ \A j \in DOMAIN s : s[j] \in {up, Extended}
  <2>1. s = <<up>> \/ s = <<Extended, up>>
    BY <1>1
  <2> HIDE DEF s, up
  <2> QED
    BY <1>3, <2>1, Bytes
<1> HIDE DEF s, up
<1>4. CASE Code(k) \in downs
  <2> DEFINE end == Len(w) + Len(s)
  <2>1. end \in DOMAIN v /\ v[end] = up /\ \A j \in DOMAIN v : j <= end
    BY <1>2, Behind
  <2>2. up \in Ups(downs) /\ up \notin downs
    BY <1>3, <1>4
  <2> HIDE DEF v
  <2>3. ~Silent(v, downs)
    BY <2>1, <2>2 DEF Silent
  <2>4. ASSUME NEW n \in DOMAIN v, v[n] \in downs PROVE end > n
    <3>1. DOMAIN v = 1..(Len(w) + Len(s)) /\ Len(w) \in Nat /\ Len(s) \in Nat
      BY <1>2, Behind DEF v
    <3> QED
      BY <2>1, <2>2, <2>4, <3>1
  <2> HIDE DEF end
  <2> QED
    BY <2>1, <2>2, <2>3, <2>4 DEF Honest, s, v
<1>5. CASE Code(k) \notin downs
  <2>1. Down(downs, h) => Down(downs, h \ {k})
    BY <1>5 DEF Down
  <2> QED
    BY <1>2, <1>3, <1>5, <2>1, Unrelated DEF s
<1> QED
  BY <1>4, <1>5

\* The handler gets a byte.
LEMMA HandledHonest ==
  ASSUME NEW w \in Seq(Nat), w # <<>>, NEW h, NEW flag, NEW next, NEW downs,
         Honest(w, h, flag, downs),
         next => flag \/ Head(w) \in downs,
         next => Head(w) \notin Ups(downs)
  PROVE  Honest(Tail(w), h, next, downs) /\ Tail(w) \in Seq(Nat)
<1> DEFINE t == Tail(w)
<1>1. /\ t \in Seq(Nat) /\ Len(t) = Len(w) - 1 /\ Len(w) \in Nat \ {0}
      /\ \A i \in 1..Len(t) : t[i] = w[i + 1]
      /\ DOMAIN t = 1..Len(t) /\ DOMAIN w = 1..Len(w) /\ Head(w) = w[1]
  BY HeadTailProperties, LenProperties, EmptySeq
<1> HIDE DEF t
<1>2. /\ \A i \in DOMAIN t : i + 1 \in DOMAIN w /\ t[i] = w[i + 1]
      /\ \A i \in DOMAIN w : i = 1 \/ (i > 1 /\ i - 1 \in DOMAIN t /\ t[i - 1] = w[i])
      /\ 1 \in DOMAIN w
  <2>1. ASSUME NEW i \in DOMAIN t PROVE i + 1 \in DOMAIN w /\ t[i] = w[i + 1]
    BY <1>1
  <2>2. ASSUME NEW i \in DOMAIN w, i # 1
        PROVE  i > 1 /\ i - 1 \in DOMAIN t /\ t[i - 1] = w[i]
    <3>1. i > 1 /\ i - 1 \in 1..Len(t) /\ (i - 1) + 1 = i
      BY <1>1, <2>2
    <3>2. t[i - 1] = w[(i - 1) + 1]
      BY <1>1, <3>1
    <3> QED
      BY <1>1, <3>1, <3>2
  <2>3. 1 \in DOMAIN w
    BY <1>1
  <2> QED
    BY <2>1, <2>2, <2>3
<1>3. ASSUME next, Silent(t, downs) PROVE Down(downs, h)
  <2>1. \A j \in DOMAIN w : j > 1 => w[j] \notin downs \cup Ups(downs)
    BY <1>2, <1>3 DEF Silent
  <2>2. CASE Head(w) \in downs
    BY <1>1, <1>2, <2>1, <2>2 DEF Honest
  <2>3. CASE Head(w) \notin downs
    <3>1. w[1] \notin downs \cup Ups(downs) /\ flag
      BY <1>1, <1>3, <2>3
    <3>2. Silent(w, downs)
      BY <1>2, <2>1, <3>1 DEF Silent
    <3> QED
      BY <3>1, <3>2 DEF Honest
  <2> QED
    BY <2>2, <2>3
<1>4. ASSUME NEW i \in DOMAIN t, t[i] \in downs,
             \A j \in DOMAIN t : j > i => t[j] \notin downs \cup Ups(downs)
      PROVE  Down(downs, h)
  <2>1. \A j \in DOMAIN w : j > i + 1 => w[j] \notin downs \cup Ups(downs)
    <3> SUFFICES ASSUME NEW j \in DOMAIN w, j > i + 1 PROVE w[j] \notin downs \cup Ups(downs)
      OBVIOUS
    <3>1. i \in Nat \ {0} /\ j \in Nat
      <4>1. i \in 1..Len(t) /\ j \in 1..Len(w)
        BY <1>1
      <4> QED
        BY <4>1
    <3>2. j # 1 /\ j - 1 > i
      BY <3>1
    <3>3. j - 1 \in DOMAIN t /\ t[j - 1] = w[j]
      BY <1>2, <3>2
    <3> QED
      BY <1>4, <3>2, <3>3
  <2>2. i + 1 \in DOMAIN w /\ w[i + 1] \in downs
    BY <1>2, <1>4
  <2> QED
    BY <2>1, <2>2 DEF Honest
<1> QED
  BY <1>1, <1>3, <1>4 DEF Honest, t

-----------------------------------------------------------------------------
(* Keyboard: the session.                                                  *)

Shifts   == {LeftShift, RightShift}
Controls == {Control}

\* What holds between the keys, the wire and the handler's flags: each flag, and each byte
\* that is going to set it, has a key behind it.
SessionInv ==
  /\ uppercase \in {0, 1} /\ ctrlKey \in {0, 1}
  /\ wire \in Seq(Nat)
  /\ extended \in BOOLEAN
  /\ Honest(wire, held, uppercase = 1, Shifts)
  /\ Honest(wire, held, ctrlKey = 1 /\ ~extended, Controls)
  /\ ShownIsLastKey

LEMMA Groups == Shifts \in SUBSET (1..88) /\ Controls \in SUBSET (1..88)
BY DEF Shifts, Controls, LeftShift, RightShift, Control

LEMMA GroupUps ==
  /\ \A key : key \in Ups(Shifts) <=> key \in {LeftShift + Release, RightShift + Release}
  /\ \A key : key \in Ups(Controls) <=> key = Control + Release
BY DEF Ups, Shifts, Controls

LEMMA Upper2 == \A c : Upper(Upper(c)) = Upper(c)
<1> TAKE c
<1>1. CASE IsLower(c)
  <2>1. PICK d \in 97..122 : d = c
    BY <1>1 DEF IsLower
  <2>2. d - 32 \notin 97..122
    OBVIOUS
  <2> QED
    BY <2>1, <2>2 DEF Upper, IsLower
<1>2. CASE ~IsLower(c)
  BY <1>2 DEF Upper
<1> QED
  BY <1>1, <1>2

\* The modifiers and their releases have no character.
LEMMA Unmapped ==
  ASSUME NEW key, key \in {LeftShift, RightShift, LeftShift + Release, RightShift + Release,
                           Control, Extended, Control + Release}
  PROVE  ~Mapped(key)
<1>1. map[42] = 0 /\ map[54] = 0 /\ map[29] = 0
  BY DEF map, codes
<1>2. CASE key \in {LeftShift, RightShift, Control}
  BY <1>1, <1>2 DEF Mapped, LeftShift, RightShift, Control
<1>3. CASE key \in {LeftShift + Release, RightShift + Release, Extended, Control + Release}
  BY <1>3 DEF Mapped, LeftShift, RightShift, Control, Release, Extended
<1> QED
  BY <1>2, <1>3

LEMMA SessionInitially == SessionInit => SessionInv
<1> SUFFICES ASSUME SessionInit PROVE SessionInv
  OBVIOUS
<1>1. wire \in Seq(Nat) /\ DOMAIN wire = {}
  BY EmptySeq DEF SessionInit
<1>2. uppercase = 0 /\ ctrlKey = 0 /\ extended = FALSE /\ last = NoKey
  BY DEF SessionInit, KbdInit
<1>3. \A downs : Honest(wire, held, uppercase = 1, downs)
  BY <1>1, <1>2 DEF Honest
<1>4. \A downs : Honest(wire, held, ctrlKey = 1 /\ ~extended, downs)
  BY <1>1, <1>2 DEF Honest
<1> QED
  BY <1>1, <1>2, <1>3, <1>4 DEF SessionInv, ShownIsLastKey

\* Keys only add to the wire.
LEMMA KeysKeep ==
  ASSUME SessionInv, NEW k \in Keys, Press(k) \/ Repeat(k) \/ LetGo(k)
  PROVE  SessionInv'
<1>1. UNCHANGED <<kbdVars, extended, last>>
  BY DEF Press, Repeat, LetGo, Send
<1>2. \/ wire' = wire \o MakeCode[k] /\ held' = held \cup {k}
      \/ wire' = wire \o BreakCode(k) /\ held' = held \ {k}
  BY DEF Press, Repeat, LetGo, Send
<1>3. PICK c \in 1..88 : /\ MakeCode[k] = <<c>> \/ MakeCode[k] = <<Extended, c>>
                         /\ \/ BreakCode(k) = <<c + Release>>
                            \/ BreakCode(k) = <<Extended, c + Release>>
  BY Codes
<1>4. wire' \in Seq(Nat)
  <2>1. c \in Nat /\ c + Release \in Nat
    BY DEF Release
  <2>2. MakeCode[k] \in Seq(Nat) /\ BreakCode(k) \in Seq(Nat)
    BY <1>3, <2>1, Bytes
  <2>3. wire \in Seq(Nat)
    BY DEF SessionInv
  <2>4. wire \o MakeCode[k] \in Seq(Nat) /\ wire \o BreakCode(k) \in Seq(Nat)
    BY <2>2, <2>3, Behind
  <2> QED
    BY <1>2, <2>4
<1>5. /\ Honest(wire', held', uppercase = 1, Shifts)
      /\ Honest(wire', held', ctrlKey = 1 /\ ~extended, Controls)
  <2>1. /\ wire \in Seq(Nat) /\ Honest(wire, held, uppercase = 1, Shifts)
        /\ Honest(wire, held, ctrlKey = 1 /\ ~extended, Controls)
    BY DEF SessionInv
  <2>2. CASE wire' = wire \o MakeCode[k] /\ held' = held \cup {k}
    BY <2>1, <2>2, Groups, MakeHonest
  <2>3. CASE wire' = wire \o BreakCode(k) /\ held' = held \ {k}
    BY <2>1, <2>3, Groups, BreakHonest
  <2> QED
    BY <1>2, <2>2, <2>3
<1>6. ShownIsLastKey'
  BY <1>1 DEF SessionInv, ShownIsLastKey, kbdVars
<1> QED
  BY <1>1, <1>4, <1>5, <1>6 DEF SessionInv, kbdVars

\* What an interrupt does to the flags, and to the cells.
LEMMA HandledFlags ==
  ASSUME SessionInv, NEW key, handle_key(key)
  PROVE  /\ uppercase' \in {0, 1} /\ ctrlKey' \in {0, 1}
         /\ uppercase' = 1 => uppercase = 1 \/ key \in Shifts
         /\ uppercase' = 1 => key \notin Ups(Shifts)
         /\ ctrlKey' = 1 => ctrlKey = 1 \/ key \in Controls \/ key = Extended
         /\ ctrlKey' = 1 => key \notin Ups(Controls)
<1>1. uppercase \in {0, 1} /\ ctrlKey \in {0, 1}
  BY DEF SessionInv
<1>2. /\ LeftShift = 42 /\ RightShift = 54 /\ Control = 29 /\ Extended = 224
      /\ LeftShift + Release = 170 /\ RightShift + Release = 182 /\ Control + Release = 157
  BY DEF LeftShift, RightShift, Control, Extended, Release
<1>3. CASE key \in {LeftShift, RightShift}
  BY <1>1, <1>2, <1>3, GroupUps DEF handle_key, set_uppercase, Shifts
<1>4. CASE key \in {LeftShift + Release, RightShift + Release}
  BY <1>1, <1>2, <1>4, GroupUps DEF handle_key, set_uppercase, Shifts
<1>5. CASE key \in {Control, Extended}
  BY <1>1, <1>2, <1>5, GroupUps DEF handle_key, set_ctrlKey, Controls
<1>6. CASE key = Control + Release
  BY <1>1, <1>2, <1>6, GroupUps DEF handle_key, set_ctrlKey, Controls
<1>7. CASE key \notin {LeftShift, RightShift, LeftShift + Release, RightShift + Release,
                       Control, Extended, Control + Release}
  <2>1. UNCHANGED <<uppercase, ctrlKey>>
    BY <1>7 DEF handle_key, show_key
  <2> QED
    BY <1>1, <1>7, <2>1, GroupUps
<1> QED
  BY <1>3, <1>4, <1>5, <1>6, <1>7

LEMMA HandledCells ==
  ASSUME SessionInv, NEW key, handle_key(key),
         last' = IF Mapped(key) THEN [code |-> key, ctrl |-> ctrlKey] ELSE last
  PROVE  ShownIsLastKey'
<1> DEFINE Modifiers == {LeftShift, RightShift, LeftShift + Release, RightShift + Release,
                         Control, Extended, Control + Release}
<1>1. CASE key \in Modifiers
  <2>1. UNCHANGED <<keyCell, caretCell>>
    <3>1. CASE key \in {LeftShift, RightShift}
      BY <3>1 DEF handle_key, set_uppercase, LeftShift, RightShift, Control, Extended, Release
    <3>2. CASE key \in {LeftShift + Release, RightShift + Release}
      BY <3>2 DEF handle_key, set_uppercase, LeftShift, RightShift, Control, Extended, Release
    <3>3. CASE key \in {Control, Extended, Control + Release}
      BY <3>3 DEF handle_key, set_ctrlKey, LeftShift, RightShift, Control, Extended, Release
    <3> QED
      BY <1>1, <3>1, <3>2, <3>3
  <2>2. ~Mapped(key)
    BY <1>1, Unmapped
  <2> QED
    BY <2>1, <2>2 DEF SessionInv, ShownIsLastKey
<1>2. CASE key \notin Modifiers
  <2>1. show_key(key)
    BY <1>2 DEF handle_key
  <2> HIDE DEF Modifiers
  <2>2. ctrlKey \in {0, 1} /\ ShownIsLastKey
    BY DEF SessionInv
  <2>3. CASE Mapped(key)
    <3>1. last'.code = key /\ last'.ctrl = ctrlKey
      BY <2>3
    <3>2. keyCell' = map[key] \/ keyCell' = Upper(map[key])
      BY <2>1, <2>3 DEF show_key
    <3>3. Upper(keyCell') = Upper(map[last'.code])
      BY <3>1, <3>2, Upper2
    <3>4. ASSUME caretCell' = Caret PROVE last'.ctrl = 1
      BY <2>1, <2>2, <3>1, <3>4 DEF show_key, Caret
    <3> QED
      BY <3>3, <3>4 DEF ShownIsLastKey
  <2>4. CASE ~Mapped(key)
    <3>1. keyCell' = keyCell \/ keyCell' = Upper(keyCell)
      BY <2>1, <2>4 DEF show_key
    <3>2. Upper(keyCell') = Upper(keyCell)
      BY <3>1, Upper2
    <3>3. caretCell' = Caret => caretCell = Caret
      BY <2>1, <2>2, <2>4 DEF show_key, Caret
    <3> QED
      BY <2>2, <2>4, <3>2, <3>3 DEF ShownIsLastKey
  <2> QED
    BY <2>3, <2>4
<1> QED
  BY <1>1, <1>2

LEMMA InterruptKeeps ==
  ASSUME SessionInv, Interrupt
  PROVE  SessionInv'
<1> DEFINE key == Head(wire)
           extendedNext == key = Extended \/ (extended /\ key # Control + Release)
<1>1. /\ wire # <<>> /\ wire' = Tail(wire) /\ held' = held
      /\ handle_key(key) /\ extended' = extendedNext
      /\ last' = IF Mapped(key) THEN [code |-> key, ctrl |-> ctrlKey] ELSE last
  BY DEF Interrupt
<1>2. /\ wire \in Seq(Nat) /\ extended \in BOOLEAN
      /\ Honest(wire, held, uppercase = 1, Shifts)
      /\ Honest(wire, held, ctrlKey = 1 /\ ~extended, Controls)
  BY DEF SessionInv
<1> HIDE DEF key
<1>3. /\ uppercase' \in {0, 1} /\ ctrlKey' \in {0, 1}
      /\ uppercase' = 1 => uppercase = 1 \/ key \in Shifts
      /\ uppercase' = 1 => key \notin Ups(Shifts)
      /\ ctrlKey' = 1 => ctrlKey = 1 \/ key \in Controls \/ key = Extended
      /\ ctrlKey' = 1 => key \notin Ups(Controls)
  BY <1>1, HandledFlags
<1>4. extended' \in BOOLEAN
  BY <1>1
<1>5. ASSUME ctrlKey' = 1, ~extended'
      PROVE  (ctrlKey = 1 /\ ~extended) \/ key \in Controls
  BY <1>1, <1>3, <1>5, GroupUps
<1>6. Honest(Tail(wire), held, uppercase' = 1, Shifts) /\ Tail(wire) \in Seq(Nat)
  BY <1>1, <1>2, <1>3, HandledHonest DEF key
<1>7. Honest(Tail(wire), held, ctrlKey' = 1 /\ ~extended', Controls)
  BY <1>1, <1>2, <1>3, <1>5, HandledHonest DEF key
<1>8. ShownIsLastKey'
  BY <1>1, HandledCells
<1> HIDE DEF extendedNext
<1> QED
  BY <1>1, <1>3, <1>4, <1>6, <1>7, <1>8 DEF SessionInv

LEMMA SessionStutters ==
  ASSUME SessionInv, UNCHANGED sessionVars
  PROVE  SessionInv'
BY DEF SessionInv, sessionVars, kbdVars, ShownIsLastKey

\* The two flags of the keyboard handler and the bytes that are on the way to it stay in
\* step with the keys that are down, for every keyboard and every way to play on it.
THEOREM SessionInvariance == SessionSpec => []SessionInv
<1>1. SessionInv /\ [SessionNext]_sessionVars => SessionInv'
  BY KeysKeep, InterruptKeeps, SessionStutters DEF SessionNext
<1> QED
  BY <1>1, SessionInitially, PTL DEF SessionSpec

\* helper_keyboard_handler never leaves letters upper case once both shift keys are up.
THEOREM ShiftNeverSticksAlways == SessionSpec => []ShiftNeverSticks
<1>1. SessionInv => ShiftNeverSticks
  <2> SUFFICES ASSUME SessionInv, wire = <<>>, ~KeyDown(LeftShift), ~KeyDown(RightShift)
               PROVE  uppercase = 0
    BY DEF ShiftNeverSticks
  <2>1. uppercase \in {0, 1} /\ Honest(wire, held, uppercase = 1, Shifts)
    BY DEF SessionInv
  <2>2. ASSUME uppercase = 1 PROVE FALSE
    <3>1. PICK k \in held : Code(k) \in Shifts
      BY <2>1, <2>2, EmptySeq DEF Honest, Silent, Down
    <3> QED
      BY <3>1 DEF KeyDown, Code, Shifts
  <2> QED
    BY <2>1, <2>2
<1> QED
  BY <1>1, SessionInvariance, PTL

\* It takes control for held only while it is, or after a prefix byte.
THEOREM ControlHeldOrExtendedAlways == SessionSpec => []ControlHeldOrExtended
<1>1. SessionInv => ControlHeldOrExtended
  <2> SUFFICES ASSUME SessionInv, wire = <<>>, ctrlKey = 1, ~extended
               PROVE  KeyDown(Control)
    BY DEF ControlHeldOrExtended
  <2>1. Honest(wire, held, ctrlKey = 1 /\ ~extended, Controls)
    BY DEF SessionInv
  <2>2. PICK k \in held : Code(k) \in Controls
    BY <2>1, EmptySeq DEF Honest, Silent, Down
  <2> QED
    BY <2>2 DEF KeyDown, Code, Controls
<1> QED
  BY <1>1, SessionInvariance, PTL

\* The status row shows the last key that has a character, with a caret only if control
\* came with it.
THEOREM ShownIsLastKeyAlways == SessionSpec => []ShownIsLastKey
<1>1. SessionInv => ShownIsLastKey
  BY DEF SessionInv
<1> QED
  BY <1>1, SessionInvariance, PTL

-----------------------------------------------------------------------------
(* Console: rows and cells.                                                *)

LEMMA QuotientRemainder ==
  ASSUME NEW a \in Nat, NEW b \in Nat, b > 0
  PROVE  /\ a \div b \in Nat /\ a % b \in 0..(b - 1)
         /\ a = (a \div b) * b + (a % b)
OBVIOUS

LEMMA Cancel ==
  ASSUME NEW b \in Nat, b > 0, NEW q \in Nat, NEW p \in Nat, NEW r \in 0..(b - 1),
         p * b <= q * b + r
  PROVE  p <= q
<1> SUFFICES ASSUME p > q PROVE FALSE
  OBVIOUS
<1>1. PICK d \in Nat : p = q + 1 + d
  <2>1. p - q - 1 \in Nat /\ p = q + 1 + (p - q - 1)
    OBVIOUS
  <2> QED
    BY <2>1
<1>2. p * b = q * b + b + d * b /\ d * b \in Nat /\ q * b \in Nat
  BY <1>1
<1>3. r < b
  OBVIOUS
<1> DEFINE pb == p * b
           qb == q * b
           db == d * b
<1>4. pb <= qb + r /\ pb = qb + b + db /\ db \in Nat /\ qb \in Nat
  BY <1>2
<1> HIDE DEF pb, qb, db
<1> QED
  BY <1>3, <1>4

\* A number has one quotient and one remainder.
LEMMA Unique ==
  ASSUME NEW b \in Nat, b > 0, NEW q \in Nat, NEW r \in 0..(b - 1), NEW a \in Nat,
         a = q * b + r
  PROVE  a \div b = q /\ a % b = r
<1>1. PICK p \in Nat : p = a \div b
  BY QuotientRemainder
<1>2. PICK s \in 0..(b - 1) : s = a % b
  BY QuotientRemainder
<1>3. a = p * b + s
  BY <1>1, <1>2, QuotientRemainder
<1>4. p * b \in Nat /\ q * b \in Nat
  OBVIOUS
<1>5. p * b <= q * b + r /\ q * b <= p * b + s
  BY <1>3, <1>4
<1>6. p = q
  BY <1>5, Cancel
<1>7. s = r
  <2>1. p * b = q * b
    BY <1>6
  <2> QED
    BY <1>3, <1>4, <2>1
<1> QED
  BY <1>1, <1>2, <1>6, <1>7

\* The text is made of whole rows, one of them before the last.
LEMMA Sizes ==
  /\ Columns \in Nat /\ Columns > 0 /\ MAX_SCREEN_HEIGHT \in Nat /\ MAX_SCREEN_HEIGHT > 1
  /\ TextCells \in Nat /\ TextCells = MAX_SCREEN_HEIGHT * Columns
  /\ TextCells - Columns = (MAX_SCREEN_HEIGHT - 1) * Columns
  /\ TextCells >= 2 * Columns
<1>1. /\ Columns \in Nat /\ Columns > 0 /\ MAX_SCREEN_HEIGHT \in Nat /\ MAX_SCREEN_HEIGHT > 1
  BY ConsoleAssumption
<1>2. PICK d \in Nat : MAX_SCREEN_HEIGHT = 2 + d
  <2>1. MAX_SCREEN_HEIGHT - 2 \in Nat /\ MAX_SCREEN_HEIGHT = 2 + (MAX_SCREEN_HEIGHT - 2)
    BY <1>1
  <2> QED
    BY <2>1
<1>3. /\ MAX_SCREEN_HEIGHT * Columns = 2 * Columns + d * Columns
      /\ Columns * MAX_SCREEN_HEIGHT = MAX_SCREEN_HEIGHT * Columns
      /\ (MAX_SCREEN_HEIGHT - 1) * Columns = Columns + d * Columns
      /\ d * Columns \in Nat
  BY <1>1, <1>2
<1> QED
  BY <1>1, <1>3 DEF TextCells

\* An address on the text rows, or right behind them, is in the row its quotient says.
LEMMA AddressRow ==
  ASSUME NEW at \in Nat
  PROVE  /\ at \div Columns \in Nat /\ at % Columns \in 0..(Columns - 1)
         /\ at = (at \div Columns) * Columns + (at % Columns)
         /\ at < TextCells => at \div Columns <= MAX_SCREEN_HEIGHT - 1
         /\ at < TextCells + Columns => at \div Columns <= MAX_SCREEN_HEIGHT
         /\ at >= TextCells - Columns => at \div Columns >= MAX_SCREEN_HEIGHT - 1
<1>1. PICK q \in Nat : q = at \div Columns
  BY Sizes, QuotientRemainder
<1>2. PICK r \in 0..(Columns - 1) : r = at % Columns
  BY Sizes, QuotientRemainder
<1>3. at = q * Columns + r /\ q * Columns \in Nat
  BY <1>1, <1>2, Sizes, QuotientRemainder
<1>4. ASSUME at < TextCells PROVE q <= MAX_SCREEN_HEIGHT - 1
  <2>1. TextCells - Columns \in Nat /\ MAX_SCREEN_HEIGHT - 1 \in Nat
    BY Sizes
  <2>2. Columns - 1 \in 0..(Columns - 1)
    BY Sizes
  <2>3. q * Columns <= (MAX_SCREEN_HEIGHT - 1) * Columns + (Columns - 1)
    BY <1>2, <1>3, <1>4, <2>1, Sizes
  <2> QED
    BY <2>1, <2>2, <2>3, Sizes, Cancel
<1>5. ASSUME at < TextCells + Columns PROVE q <= MAX_SCREEN_HEIGHT
  <2>1. Columns - 1 \in 0..(Columns - 1)
    BY Sizes
  <2>2. q * Columns <= MAX_SCREEN_HEIGHT * Columns + (Columns - 1)
    BY <1>2, <1>3, <1>5, Sizes
  <2> QED
    BY <2>1, <2>2, Sizes, Cancel
<1>6. ASSUME at >= TextCells - Columns PROVE q >= MAX_SCREEN_HEIGHT - 1
  <2>1. MAX_SCREEN_HEIGHT - 1 \in Nat
    BY Sizes
  <2>2. (MAX_SCREEN_HEIGHT - 1) * Columns <= q * Columns + r
    BY <1>3, <1>6, Sizes
  <2>3. MAX_SCREEN_HEIGHT - 1 <= q
    BY <2>1, <2>2, Sizes, Cancel
  <2> QED
    BY <2>1, <2>3
<1> QED
  BY <1>1, <1>2, <1>3, <1>4, <1>5, <1>6

\* And the other way round.
LEMMA RowAddress ==
  ASSUME NEW h \in Nat, NEW w \in 0..(Columns - 1)
  PROVE  /\ h * Columns \in Nat /\ h * Columns + w \in Nat
         /\ (h * Columns + w) \div Columns = h /\ (h * Columns + w) % Columns = w
<1>1. Columns \in Nat /\ Columns > 0
  BY Sizes
<1>2. h * Columns \in Nat /\ h * Columns + w \in Nat
  BY <1>1
<1> QED
  BY <1>1, <1>2, Unique

-----------------------------------------------------------------------------
(* Console: the screen is a window on the paper.                           *)

TextRow == 0..(TextCells - 1)

\* The text rows show the paper from row t on, and below them it is blank.
Window(s, p, t) ==
  /\ t + MAX_SCREEN_HEIGHT <= MaxRows + 1
  /\ \A c \in TextRow : s[c] = p[t * Columns + c]
  /\ \A c \in PaperCells : c >= t * Columns + TextCells => p[c] = NUL

\* Address at of the screen is place pos of the paper, and the window has not moved early.
Shown(s, p, t, at, pos) ==
  /\ Window(s, p, t)
  /\ at \in 0..TextCells /\ pos = t * Columns + at
  /\ t > 0 => at >= TextCells - Columns

ScreenOK(s) == DOMAIN s = Cells
PaperOK(p)  == DOMAIN p = PaperCells

ConsoleTypes ==
  /\ ScreenOK(screen) /\ PaperOK(paper)
  /\ current_height \in 0..MAX_SCREEN_HEIGHT
  /\ current_width \in 0..(Columns - 1)
  /\ position \in PaperCells
  /\ spilled \in BOOLEAN

Cursor == current_height * Columns + current_width

ConsoleInv ==
  /\ ConsoleTypes
  /\ ~spilled => \E t \in Nat : Shown(screen, paper, t, Cursor, position)

LEMMA Paper ==
  /\ MaxRows \in Nat /\ MaxRows > MAX_SCREEN_HEIGHT
  /\ PaperCells = 0..(MaxRows * Columns + Columns - 1)
  /\ MaxRows * Columns \in Nat
  /\ \A x \in PaperCells : x \in Nat
<1>1. MaxRows \in Nat /\ MaxRows > MAX_SCREEN_HEIGHT
  BY ConsoleAssumption
<1>2. Columns * (MaxRows + 1) = MaxRows * Columns + Columns /\ MaxRows * Columns \in Nat
  BY <1>1, Sizes
<1>3. PaperCells = 0..(MaxRows * Columns + Columns - 1)
  <2>1. Columns * (MaxRows + 1) - 1 = MaxRows * Columns + Columns - 1
    BY <1>2, Sizes
  <2> QED
    BY <2>1, Zenon DEF PaperCells
<1> QED
  BY <1>1, <1>2, <1>3

\* A place of the paper lies in one of its rows.
LEMMA PaperRow ==
  ASSUME NEW q \in Nat, q * Columns \in PaperCells
  PROVE  q <= MaxRows
<1>1. Columns \in Nat /\ Columns > 0 /\ Columns - 1 \in 0..(Columns - 1)
  BY Sizes
<1>2. q * Columns <= MaxRows * Columns + (Columns - 1)
  BY <1>1, Paper
<1> QED
  BY <1>1, <1>2, Paper, Cancel

LEMMA ScrolledOK ==
  ASSUME NEW s
  PROVE  /\ ScreenOK(Scrolled(s))
         /\ \A c \in StatusRow : Scrolled(s)[c] = s[c]
         /\ \A c \in TextRow : c >= TextCells - Columns => Scrolled(s)[c] = NUL
         /\ \A c \in TextRow : c < TextCells - Columns => Scrolled(s)[c] = s[c + Columns]
<1>1. Columns \in Nat /\ Columns > 0 /\ TextCells \in Nat /\ TextCells >= 2 * Columns
  BY Sizes
<1>2. /\ \A c \in StatusRow : c \in Cells
      /\ \A c \in TextRow : c \in Cells /\ c \notin StatusRow
      /\ \A c \in TextRow : c + Columns \in StatusRow <=> c >= TextCells - Columns
  BY <1>1 DEF StatusRow, Cells, TextRow
<1>3. ScreenOK(Scrolled(s))
  BY DEF Scrolled, ScreenOK
<1>4. ASSUME NEW c \in Cells
      PROVE  Scrolled(s)[c] = IF c \in StatusRow THEN s[c]
                              ELSE IF c + Columns \in StatusRow THEN NUL ELSE s[c + Columns]
  BY DEF Scrolled
<1>5. ASSUME NEW c \in TextRow PROVE c >= TextCells - Columns \/ c < TextCells - Columns
  BY <1>1 DEF TextRow
<1>6. \A c \in TextRow : c < TextCells - Columns => ~(c >= TextCells - Columns)
  BY <1>1 DEF TextRow
<1> QED
  BY <1>2, <1>3, <1>4, <1>5, <1>6

\* Scrolling moves the window by one row.
LEMMA ScrollMoves ==
  ASSUME NEW s, NEW p, NEW t \in Nat, Window(s, p, t), t + MAX_SCREEN_HEIGHT <= MaxRows
  PROVE  Window(Scrolled(s), p, t + 1)
<1> DEFINE tc == t * Columns
           uc == (t + 1) * Columns
<1>1. uc = tc + Columns /\ tc \in Nat /\ Columns \in Nat /\ Columns > 0
  BY Sizes
<1>2. /\ \A c \in TextRow : s[c] = p[tc + c]
      /\ \A c \in PaperCells : c >= tc + TextCells => p[c] = NUL
  BY DEF Window
<1>3. TextCells \in Nat /\ TextCells >= 2 * Columns
  BY Sizes
<1>4. uc + TextCells <= MaxRows * Columns + Columns
  <2>1. PICK d \in Nat : MaxRows = t + MAX_SCREEN_HEIGHT + d
    <3>1. /\ MaxRows - (t + MAX_SCREEN_HEIGHT) \in Nat
          /\ MaxRows = t + MAX_SCREEN_HEIGHT + (MaxRows - (t + MAX_SCREEN_HEIGHT))
      BY Paper, Sizes
    <3> QED
      BY <3>1
  <2>2. MaxRows * Columns = tc + MAX_SCREEN_HEIGHT * Columns + d * Columns
    BY <2>1, Sizes
  <2>3. d * Columns \in Nat
    BY Sizes
  <2> HIDE DEF tc, uc
  <2> QED
    BY <1>1, <2>2, <2>3, Sizes
<1> HIDE DEF tc, uc
<1>5. ASSUME NEW c \in TextRow PROVE Scrolled(s)[c] = p[uc + c]
  <2>1. CASE c < TextCells - Columns
    <3>1. c + Columns \in TextRow /\ tc + (c + Columns) = uc + c
      BY <1>1, <1>3, <2>1 DEF TextRow
    <3>2. s[c + Columns] = p[uc + c]
      BY <1>2, <3>1
    <3> QED
      BY <2>1, <3>2, ScrolledOK
  <2>2. CASE c >= TextCells - Columns
    <3>1. uc + c \in PaperCells /\ uc + c >= tc + TextCells
      BY <1>1, <1>3, <1>4, <2>2, Paper DEF TextRow
    <3>2. p[uc + c] = NUL
      BY <1>2, <3>1
    <3> QED
      BY <2>2, <3>2, ScrolledOK
  <2>3. c \in Nat
    BY DEF TextRow
  <2> QED
    BY <1>1, <1>3, <2>1, <2>2, <2>3
<1>6. ASSUME NEW c \in PaperCells, c >= uc + TextCells PROVE p[c] = NUL
  <2>1. c >= tc + TextCells
    BY <1>1, <1>3, <1>6, Paper
  <2> QED
    BY <1>2, <2>1
<1>7. (t + 1) + MAX_SCREEN_HEIGHT <= MaxRows + 1
  BY Sizes, Paper
<1> QED
  BY <1>5, <1>6, <1>7 DEF Window, uc

\* Where the cursor is, after the scroll it may need, is on the text rows, and shows the
\* same place of the paper.
LEMMA CursorAddress ==
  ASSUME NEW s, ScreenOK(s), NEW h \in Nat, NEW w \in 0..(Columns - 1),
         h <= MAX_SCREEN_HEIGHT
  PROVE  LET here == getCurrentAddress(s, h, w)
         IN  /\ ScreenOK(here.cells) /\ here.at \in 0..(TextCells - 1)
             /\ \A c \in StatusRow : here.cells[c] = s[c]
             /\ h = MAX_SCREEN_HEIGHT => here.cells = Scrolled(s)
                                         /\ here.at = TextCells - Columns
             /\ h # MAX_SCREEN_HEIGHT => here.cells = s /\ here.at = h * Columns + w
<1>1. /\ Columns \in Nat /\ Columns > 0 /\ TextCells \in Nat /\ TextCells >= 2 * Columns
      /\ MAX_SCREEN_HEIGHT \in Nat
      /\ TextCells - Columns = (MAX_SCREEN_HEIGHT - 1) * Columns
  BY Sizes
<1>2. CASE h = MAX_SCREEN_HEIGHT
  <2>1. getCurrentAddress(s, h, w) =
          [cells |-> Scrolled(s), at |-> (MAX_SCREEN_HEIGHT - 1) * Columns]
    BY <1>1, <1>2 DEF getCurrentAddress
  <2>2. TextCells - Columns \in 0..(TextCells - 1)
    BY <1>1
  <2> QED
    BY <1>1, <1>2, <2>1, <2>2, ScrolledOK
<1>3. CASE h # MAX_SCREEN_HEIGHT
  <2>1. getCurrentAddress(s, h, w) = [cells |-> s, at |-> h * Columns + w]
    BY <1>1, <1>3 DEF getCurrentAddress
  <2>2. h * Columns + w \in Nat /\ (h * Columns + w) \div Columns = h
    BY RowAddress
  <2>3. h * Columns + w < TextCells
    <3>1. PICK d \in Nat : MAX_SCREEN_HEIGHT = h + 1 + d
      <4>1. MAX_SCREEN_HEIGHT - h - 1 \in Nat
            /\ MAX_SCREEN_HEIGHT = h + 1 + (MAX_SCREEN_HEIGHT - h - 1)
        BY <1>1, <1>3
      <4> QED
        BY <4>1
    <3>2. MAX_SCREEN_HEIGHT * Columns = h * Columns + Columns + d * Columns
          /\ d * Columns \in Nat /\ h * Columns \in Nat
      BY <1>1, <3>1
    <3> QED
      BY <1>1, <3>2, Sizes
  <2>4. h * Columns + w \in 0..(TextCells - 1)
    BY <1>1, <2>2, <2>3
  <2> QED
    BY <1>3, <2>1, <2>4
<1> QED
  BY <1>2, <1>3

LEMMA CursorShown ==
  ASSUME NEW s, NEW p, NEW t \in Nat, NEW h \in Nat, NEW w \in 0..(Columns - 1),
         NEW pos \in PaperCells, ScreenOK(s), h <= MAX_SCREEN_HEIGHT,
         Shown(s, p, t, h * Columns + w, pos)
  PROVE  LET here == getCurrentAddress(s, h, w)
         IN  \E u \in Nat : Shown(here.cells, p, u, here.at, pos)
<1> DEFINE here == getCurrentAddress(s, h, w)
<1>1. CASE h # MAX_SCREEN_HEIGHT
  <2>1. here.cells = s /\ here.at = h * Columns + w
    BY <1>1, CursorAddress
  <2> HIDE DEF here
  <2>2. Shown(here.cells, p, t, here.at, pos)
    BY <2>1
  <2> QED
    BY <2>2 DEF here
<1>2. CASE h = MAX_SCREEN_HEIGHT
  <2>1. here.cells = Scrolled(s) /\ here.at = TextCells - Columns
    BY <1>2, CursorAddress
  <2> HIDE DEF here
  <2>2. Window(s, p, t) /\ h * Columns + w <= TextCells /\ pos = t * Columns + (h * Columns + w)
    BY Sizes DEF Shown
  <2>3. w = 0
    BY <1>2, <2>2, Sizes
  <2>4. pos = t * Columns + TextCells
    BY <1>2, <2>2, <2>3, Sizes
  <2>5. (t + MAX_SCREEN_HEIGHT) * Columns = t * Columns + TextCells
    BY Sizes
  <2>6. t + MAX_SCREEN_HEIGHT <= MaxRows
    BY <2>4, <2>5, Sizes, PaperRow
  <2>7. Window(here.cells, p, t + 1)
    BY <2>1, <2>2, <2>6, ScrollMoves
  <2>8. pos = (t + 1) * Columns + here.at
    <3>1. (t + 1) * Columns = t * Columns + Columns /\ t * Columns \in Nat
      BY Sizes
    <3> QED
      BY <2>1, <2>4, <3>1, Sizes
  <2>9. here.at \in 0..TextCells /\ here.at >= TextCells - Columns
    BY <2>1, Sizes
  <2>10. Shown(here.cells, p, t + 1, here.at, pos) /\ t + 1 \in Nat
    BY <2>7, <2>8, <2>9 DEF Shown
  <2> QED
    BY <2>10 DEF here
<1> QED
  BY <1>1, <1>2

\* d is s with run written from at on, where it has those cells.
Written(d, s, at, run) ==
  /\ DOMAIN d = DOMAIN s
  /\ \A c \in DOMAIN s : c \notin at..(at + Len(run) - 1) => d[c] = s[c]
  /\ \A c \in DOMAIN s : c \in at..(at + Len(run) - 1) => d[c] = run[c - at + 1]

\* Writing the same characters at the cursor and at its place on the paper.
LEMMA OverwrittenOK ==
  ASSUME NEW s, NEW at \in Nat, NEW run, Len(run) \in Nat
  PROVE  /\ DOMAIN Overwritten(s, at, run) = DOMAIN s
         /\ \A c \in DOMAIN s : c \notin at..(at + Len(run) - 1) =>
              Overwritten(s, at, run)[c] = s[c]
         /\ \A c \in DOMAIN s : c \in at..(at + Len(run) - 1) =>
              Overwritten(s, at, run)[c] = run[c - at + 1]
BY DEF Overwritten

LEMMA OverwrittenWrites ==
  ASSUME NEW s, NEW at \in Nat, NEW run, Len(run) \in Nat
  PROVE  Written(Overwritten(s, at, run), s, at, run)
BY DEF Overwritten, Written

LEMMA RunShown ==
  ASSUME NEW s, NEW p, NEW t \in Nat, NEW at \in Nat, NEW pos \in PaperCells, NEW run,
         ScreenOK(s), PaperOK(p), Shown(s, p, t, at, pos),
         Len(run) \in Nat, at + Len(run) <= TextCells, pos + Len(run) \in PaperCells
  PROVE  Shown(Overwritten(s, at, run), Overwritten(p, pos, run), t,
               at + Len(run), pos + Len(run))
<1> DEFINE tc == t * Columns
           n  == Len(run)
           s2 == Overwritten(s, at, run)
           p2 == Overwritten(p, pos, run)
<1>1. /\ tc \in Nat /\ Columns \in Nat /\ Columns > 0 /\ TextCells \in Nat
      /\ n \in Nat /\ pos \in Nat /\ MaxRows \in Nat /\ MAX_SCREEN_HEIGHT \in Nat
  BY Sizes, Paper
<1>2. /\ t + MAX_SCREEN_HEIGHT <= MaxRows + 1
      /\ \A c \in TextRow : s[c] = p[tc + c]
      /\ \A c \in PaperCells : c >= tc + TextCells => p[c] = NUL
      /\ at \in 0..TextCells /\ pos = tc + at /\ (t > 0 => at >= TextCells - Columns)
  BY DEF Shown, Window
<1>3. tc + TextCells <= MaxRows * Columns + Columns
  <2>1. PICK d \in Nat : MaxRows + 1 = t + MAX_SCREEN_HEIGHT + d
    <3>1. /\ MaxRows + 1 - (t + MAX_SCREEN_HEIGHT) \in Nat
          /\ MaxRows + 1 = t + MAX_SCREEN_HEIGHT + (MaxRows + 1 - (t + MAX_SCREEN_HEIGHT))
      BY <1>1, <1>2
    <3> QED
      BY <3>1
  <2>2. /\ (MaxRows + 1) * Columns = tc + MAX_SCREEN_HEIGHT * Columns + d * Columns
        /\ (MaxRows + 1) * Columns = MaxRows * Columns + Columns
        /\ d * Columns \in Nat
    BY <1>1, <2>1
  <2> HIDE DEF tc
  <2> QED
    BY <1>1, <2>2, Sizes
<1>4. /\ DOMAIN s2 = Cells /\ DOMAIN p2 = PaperCells
      /\ \A c \in Cells : c \notin at..(at + n - 1) => s2[c] = s[c]
      /\ \A c \in Cells : c \in at..(at + n - 1) => s2[c] = run[c - at + 1]
      /\ \A c \in PaperCells : c \notin pos..(pos + n - 1) => p2[c] = p[c]
      /\ \A c \in PaperCells : c \in pos..(pos + n - 1) => p2[c] = run[c - pos + 1]
  <2>1. /\ DOMAIN s2 = DOMAIN s
        /\ \A c \in DOMAIN s : c \notin at..(at + n - 1) => s2[c] = s[c]
        /\ \A c \in DOMAIN s : c \in at..(at + n - 1) => s2[c] = run[c - at + 1]
    <3>1. at \in Nat /\ Len(run) \in Nat
      BY <1>1
    <3>2. Written(Overwritten(s, at, run), s, at, run)
      BY <3>1, OverwrittenWrites
    <3> QED
      BY <3>2 DEF Written
  <2>2. /\ DOMAIN p2 = DOMAIN p
        /\ \A c \in DOMAIN p : c \notin pos..(pos + n - 1) => p2[c] = p[c]
        /\ \A c \in DOMAIN p : c \in pos..(pos + n - 1) => p2[c] = run[c - pos + 1]
    <3>1. pos \in Nat /\ Len(run) \in Nat
      BY <1>1
    <3>2. Written(Overwritten(p, pos, run), p, pos, run)
      BY <3>1, OverwrittenWrites
    <3> QED
      BY <3>2 DEF Written
  <2> HIDE DEF n, s2, p2
  <2> QED
    BY <2>1, <2>2 DEF ScreenOK, PaperOK
<1> HIDE DEF tc, n, s2, p2
<1>5. ASSUME NEW c \in TextRow PROVE s2[c] = p2[tc + c]
  <2>1. c \in Cells /\ c \in Nat /\ tc + c \in PaperCells
    BY <1>1, <1>3, Paper DEF TextRow, Cells
  <2>2. s[c] = p[tc + c]
    BY <1>2
  <2>3. CASE c \in at..(at + n - 1)
    <3>1. PICK e : e = tc + c
      OBVIOUS
    <3>2. e \in pos..(pos + n - 1) /\ e - pos + 1 = c - at + 1 /\ e \in PaperCells
      BY <1>1, <1>2, <2>1, <2>3, <3>1
    <3>3. s2[c] = run[c - at + 1]
      BY <1>4, <2>1, <2>3
    <3>4. p2[e] = run[e - pos + 1]
      BY <1>4, <3>2
    <3> QED
      BY <3>1, <3>2, <3>3, <3>4
  <2>4. CASE c \notin at..(at + n - 1)
    <3>1. PICK e : e = tc + c
      OBVIOUS
    <3>2. /\ tc \in Nat /\ at \in Nat /\ pos \in Nat /\ n \in Nat /\ c \in Nat
          /\ pos = tc + at
      BY <1>1, <1>2, <2>1
    <3>3. c < at \/ c > at + n - 1
      BY <2>4, <3>2
    <3>4. e < pos \/ e > pos + n - 1
      BY <3>1, <3>2, <3>3
    <3>5. e \in PaperCells /\ e \notin pos..(pos + n - 1)
      BY <2>1, <3>1, <3>2, <3>4
    <3>6. p2[e] = p[e]
      BY <1>4, <3>5
    <3>7. s2[c] = s[c]
      BY <1>4, <2>1, <2>4
    <3> QED
      BY <2>2, <3>1, <3>6, <3>7
  <2> QED
    BY <2>3, <2>4
<1>6. ASSUME NEW c \in PaperCells, c >= tc + TextCells PROVE p2[c] = NUL
  <2>1. at + n <= TextCells /\ c \in Nat
    BY Paper DEF n
  <2>2. c \notin pos..(pos + n - 1)
    <3>1. PICK a, k, cells : a = at /\ k = n /\ cells = TextCells
      OBVIOUS
    <3>2. /\ tc \in Nat /\ a \in Nat /\ k \in Nat /\ cells \in Nat
          /\ pos = tc + a /\ pos + n - 1 = tc + a + k - 1
      BY <1>1, <1>2, <3>1, Paper
    <3>3. c >= tc + cells /\ a + k <= cells
      BY <1>6, <2>1, <3>1
    <3>4. c \notin pos..(tc + a + k - 1)
      BY <2>1, <3>2, <3>3
    <3> QED
      BY <3>2, <3>4
  <2> QED
    BY <1>2, <1>4, <1>6, <2>2
<1>7. Window(s2, p2, t)
  BY <1>2, <1>5, <1>6 DEF Window, tc
<1>8. /\ at + n \in 0..TextCells /\ pos + n = tc + (at + n)
      /\ t > 0 => at + n >= TextCells - Columns
  <2>1. at + n <= TextCells
    BY DEF n
  <2> QED
    BY <1>1, <1>2, <2>1
<1> QED
  BY <1>7, <1>8 DEF Shown, tc, n, s2, p2

-----------------------------------------------------------------------------
(* Console: the steps of kprintf.                                          *)

LEMMA HereOK ==
  ASSUME ConsoleInv
  PROVE  /\ ScreenOK(Here.cells) /\ Here.at \in 0..(TextCells - 1)
         /\ \A c \in StatusRow : Here.cells[c] = screen[c]
         /\ current_height = MAX_SCREEN_HEIGHT =>
              Here.cells = Scrolled(screen) /\ Here.at = TextCells - Columns
         /\ ~spilled => \E u \in Nat : Shown(Here.cells, paper, u, Here.at, position)
<1>1. /\ ScreenOK(screen) /\ current_height \in Nat /\ current_height <= MAX_SCREEN_HEIGHT
      /\ current_width \in 0..(Columns - 1) /\ position \in PaperCells
  BY Sizes DEF ConsoleInv, ConsoleTypes
<1>2. ~spilled => \E t \in Nat : Shown(screen, paper, t,
                    current_height * Columns + current_width, position)
  BY DEF ConsoleInv, Cursor
<1>3. ~spilled => \E u \in Nat : Shown(Here.cells, paper, u, Here.at, position)
  BY <1>1, <1>2, CursorShown DEF Here
<1> QED
  BY <1>1, <1>3, CursorAddress DEF Here

\* The cursor variables hold the address that the step ends at.
LEMMA CursorSet ==
  ASSUME NEW at \in Nat, at < TextCells + Columns, UpdateHeightWidth(at)
  PROVE  /\ current_height' \in 0..MAX_SCREEN_HEIGHT /\ current_width' \in 0..(Columns - 1)
         /\ Cursor' = at
         /\ at >= TextCells - Columns => current_height' >= MAX_SCREEN_HEIGHT - 1
<1>1. current_height' = at \div Columns /\ current_width' = at % Columns
  BY DEF UpdateHeightWidth
<1>2. Cursor' = current_height' * Columns + current_width'
  BY DEF Cursor
<1> QED
  BY <1>1, <1>2, Sizes, AddressRow

LEMMA RunLength ==
  ASSUME NEW run, run \in Runs \/ \E c \in Chars : run = <<c>>
  PROVE  Len(run) \in Nat /\ Len(run) <= Columns
<1>1. CASE run \in Runs
  BY <1>1, ConsoleAssumption, LenProperties
<1>2. CASE \E c \in Chars : run = <<c>>
  BY <1>2, Sizes
<1> QED
  BY <1>1, <1>2

LEMMA RunKeeps ==
  ASSUME ConsoleInv, NEW run, Len(run) \in Nat, Len(run) <= Columns, WriteRun(run)
  PROVE  /\ ConsoleInv'
         /\ ~spilled' => \A c \in StatusRow : screen'[c] = screen[c]
<1> DEFINE cells == Here.cells
           at == Here.at
           n == Len(run)
<1>1. /\ position + n \in PaperCells
      /\ screen' = Overwritten(cells, at, run) /\ UpdateHeightWidth(at + n)
      /\ paper' = Overwritten(paper, position, run) /\ position' = position + n
      /\ spilled' = (spilled \/ at + n > TextCells)
  BY DEF WriteRun
<1>2. /\ ScreenOK(cells) /\ at \in 0..(TextCells - 1)
      /\ \A c \in StatusRow : cells[c] = screen[c]
      /\ ~spilled => \E u \in Nat : Shown(cells, paper, u, at, position)
  BY HereOK
<1>3. PaperOK(paper) /\ position \in PaperCells /\ spilled \in BOOLEAN
  BY DEF ConsoleInv, ConsoleTypes
<1> HIDE DEF cells, at
<1>4. at \in Nat /\ at + n \in Nat /\ at + n < TextCells + Columns /\ at < TextCells
  BY <1>2, Sizes
<1>5. /\ current_height' \in 0..MAX_SCREEN_HEIGHT /\ current_width' \in 0..(Columns - 1)
      /\ Cursor' = at + n
  BY <1>1, <1>4, CursorSet
<1>6. ScreenOK(screen') /\ PaperOK(paper')
  <2>1. DOMAIN Overwritten(cells, at, run) = DOMAIN cells
    BY <1>4, OverwrittenOK
  <2>2. position \in Nat
    BY <1>3, Paper
  <2>3. DOMAIN Overwritten(paper, position, run) = DOMAIN paper
    BY <2>2, OverwrittenOK
  <2> QED
    BY <1>1, <1>2, <1>3, <2>1, <2>3 DEF ScreenOK, PaperOK
<1>7. ASSUME ~spilled' PROVE \E t \in Nat : Shown(screen', paper', t, Cursor', position')
  <2>1. ~spilled /\ at + n <= TextCells
    <3>1. ~spilled /\ ~(at + n > TextCells)
      BY <1>1, <1>7
    <3> QED
      BY <1>4, <3>1, Sizes
  <2>2. PICK u \in Nat : Shown(cells, paper, u, at, position)
    BY <1>2, <2>1
  <2>3. Shown(screen', paper', u, at + n, position + n)
    BY <1>1, <1>2, <1>3, <1>4, <2>1, <2>2, RunShown
  <2> QED
    BY <1>1, <1>5, <2>3
<1>8. ASSUME ~spilled', NEW c \in StatusRow PROVE screen'[c] = screen[c]
  <2>1. at + n <= TextCells
    <3>1. ~(at + n > TextCells)
      BY <1>1, <1>8
    <3> QED
      BY <1>4, <3>1, Sizes
  <2>2. c \in Cells /\ c \notin at..(at + n - 1)
    BY <1>4, <2>1, Sizes DEF StatusRow, Cells
  <2>3. \A d \in DOMAIN cells : d \notin at..(at + n - 1) =>
            Overwritten(cells, at, run)[d] = cells[d]
    BY <1>4, OverwrittenOK
  <2>4. c \in DOMAIN cells
    BY <1>2, <2>2 DEF ScreenOK
  <2>5. Overwritten(cells, at, run)[c] = cells[c]
    BY <2>2, <2>3, <2>4
  <2>6. screen'[c] = cells[c]
    BY <1>1, <2>5
  <2> QED
    BY <1>2, <2>6
<1>9. position' \in PaperCells /\ spilled' \in BOOLEAN
  BY <1>1
<1>10. ConsoleTypes'
  BY <1>5, <1>6, <1>9 DEF ConsoleTypes, ScreenOK, PaperOK, Cells, PaperCells
<1> QED
  BY <1>7, <1>8, <1>10 DEF ConsoleInv, Shown, Window

\* The cursor at the start of the next row is at its place on the paper.
LEMMA NextRowShown ==
  ASSUME NEW s, NEW p, NEW u \in Nat, NEW at \in 0..(TextCells - 1), NEW pos \in PaperCells,
         Shown(s, p, u, at, pos)
  PROVE  Shown(s, p, u, (at \div Columns + 1) * Columns + 0, (pos \div Columns + 1) * Columns)
<1>1. /\ Columns \in Nat /\ Columns > 0 /\ TextCells \in Nat /\ at \in Nat /\ pos \in Nat
      /\ at < TextCells
  BY Sizes, Paper
<1>2. PICK q \in Nat : q = at \div Columns
  BY <1>1, QuotientRemainder
<1>3. PICK r \in 0..(Columns - 1) : r = at % Columns
  BY <1>1, QuotientRemainder
<1>4. /\ at = q * Columns + r /\ q * Columns \in Nat /\ u * Columns \in Nat
      /\ q <= MAX_SCREEN_HEIGHT - 1
  BY <1>1, <1>2, <1>3, AddressRow
<1>5. Window(s, p, u) /\ pos = u * Columns + at /\ (u > 0 => at >= TextCells - Columns)
  BY DEF Shown
<1>6. pos \div Columns = u + q
  <2>1. (u + q) * Columns = u * Columns + q * Columns
    BY <1>1
  <2>2. pos = (u + q) * Columns + r /\ u + q \in Nat
    BY <1>1, <1>3, <1>4, <1>5, <2>1
  <2> QED
    BY <1>1, <2>2, Unique
<1> DEFINE row == (q + 1) * Columns
<1>7. /\ row = q * Columns + Columns /\ row \in Nat
      /\ (u + q + 1) * Columns = u * Columns + row
  BY <1>1, <1>4
<1>8. row <= TextCells
  <2>1. PICK d \in Nat : MAX_SCREEN_HEIGHT = q + 1 + d
    <3>1. MAX_SCREEN_HEIGHT - q - 1 \in Nat
          /\ MAX_SCREEN_HEIGHT = q + 1 + (MAX_SCREEN_HEIGHT - q - 1)
      BY <1>4, Sizes
    <3> QED
      BY <3>1
  <2>2. MAX_SCREEN_HEIGHT * Columns = row + d * Columns /\ d * Columns \in Nat
    BY <1>1, <2>1
  <2> QED
    BY <1>7, <2>2, Sizes
<1>9. u > 0 => row >= TextCells - Columns
  BY <1>1, <1>3, <1>4, <1>5, <1>7
<1> HIDE DEF row
<1>10. Shown(s, p, u, row, u * Columns + row)
  BY <1>1, <1>5, <1>7, <1>8, <1>9 DEF Shown
<1>11. (at \div Columns + 1) * Columns + 0 = row
  BY <1>2, <1>7 DEF row
<1>12. (pos \div Columns + 1) * Columns = u * Columns + row
  BY <1>6, <1>7
<1> QED
  BY <1>10, <1>11, <1>12

LEMMA NewLineKeeps ==
  ASSUME ConsoleInv, HandleNewLine
  PROVE  /\ ConsoleInv'
         /\ \A c \in StatusRow : screen'[c] = screen[c]
<1> DEFINE cells  == Here.cells
           at     == Here.at
           row    == at \div Columns + 1
           below  == (position \div Columns + 1) * Columns
           scroll == getCurrentAddress(cells, row, 0)
<1>1. /\ below \in PaperCells /\ screen' = scroll.cells /\ UpdateHeightWidth(scroll.at)
      /\ position' = below /\ paper' = paper /\ spilled' = spilled
  BY DEF HandleNewLine
<1>2. /\ ScreenOK(cells) /\ at \in 0..(TextCells - 1)
      /\ \A c \in StatusRow : cells[c] = screen[c]
      /\ ~spilled => \E u \in Nat : Shown(cells, paper, u, at, position)
  BY HereOK
<1>3. PaperOK(paper) /\ position \in PaperCells /\ spilled \in BOOLEAN
  BY DEF ConsoleInv, ConsoleTypes
<1> HIDE DEF cells, at
<1>4. row \in Nat /\ row <= MAX_SCREEN_HEIGHT /\ 0 \in 0..(Columns - 1)
  BY <1>2, Sizes, AddressRow
<1>5. /\ ScreenOK(scroll.cells) /\ scroll.at \in 0..(TextCells - 1)
      /\ \A c \in StatusRow : scroll.cells[c] = cells[c]
  <2> HIDE DEF row
  <2> QED
    BY <1>2, <1>4, CursorAddress
<1>6. ASSUME ~spilled
      PROVE  \E t \in Nat : Shown(scroll.cells, paper, t, scroll.at, below)
  <2>1. PICK u \in Nat : Shown(cells, paper, u, at, position)
    BY <1>2, <1>6
  <2>2. Shown(cells, paper, u, row * Columns + 0, below)
    BY <1>2, <1>3, <2>1, NextRowShown
  <2> HIDE DEF row, below
  <2> QED
    BY <1>1, <1>2, <1>4, <2>2, CursorShown
<1> HIDE DEF scroll, row, below
<1>7. scroll.at \in Nat /\ scroll.at < TextCells + Columns
  BY <1>5, Sizes
<1>8. /\ current_height' \in 0..MAX_SCREEN_HEIGHT /\ current_width' \in 0..(Columns - 1)
      /\ Cursor' = scroll.at
  BY <1>1, <1>7, CursorSet
<1>9. ConsoleTypes'
  BY <1>1, <1>3, <1>5, <1>8 DEF ConsoleTypes, ScreenOK, PaperOK, Cells, PaperCells
<1>10. ~spilled' => \E t \in Nat : Shown(screen', paper', t, Cursor', position')
  BY <1>1, <1>6, <1>8
<1> QED
  BY <1>1, <1>2, <1>5, <1>9, <1>10 DEF ConsoleInv, Shown, Window

LEMMA PieceKeeps ==
  ASSUME ConsoleInv, kprintf_piece
  PROVE  /\ ConsoleInv'
         /\ ~spilled' => \A c \in StatusRow : screen'[c] = screen[c]
<1>1. CASE \E c \in Chars : WriteRun(<<c>>)
  <2>1. PICK c \in Chars : WriteRun(<<c>>)
    BY <1>1
  <2>2. PICK run : run = <<c>>
    OBVIOUS
  <2> QED
    BY <2>1, <2>2, RunLength, RunKeeps
<1>2. CASE \E r \in Runs : WriteRun(r)
  BY <1>2, RunLength, RunKeeps
<1>3. CASE HandleNewLine
  BY <1>3, NewLineKeeps
<1> QED
  BY <1>1, <1>2, <1>3 DEF kprintf_piece

LEMMA ConsoleInitially == ConsoleInit => ConsoleInv
<1> SUFFICES ASSUME ConsoleInit PROVE ConsoleInv
  OBVIOUS
<1>1. /\ screen = [c \in Cells |-> Loader] /\ current_height = 0 /\ current_width = 0
      /\ paper = [c \in PaperCells |-> IF c < TextCells THEN Loader ELSE NUL]
      /\ position = 0 /\ spilled = FALSE
  BY DEF ConsoleInit
<1>2. Columns \in Nat /\ Columns > 0 /\ TextCells \in Nat /\ MAX_SCREEN_HEIGHT \in Nat
      /\ TextCells >= 2 * Columns
  BY Sizes
<1>3. TextCells <= MaxRows * Columns + Columns
  <2>1. PICK d \in Nat : MaxRows = MAX_SCREEN_HEIGHT + d
    <3>1. MaxRows - MAX_SCREEN_HEIGHT \in Nat
          /\ MaxRows = MAX_SCREEN_HEIGHT + (MaxRows - MAX_SCREEN_HEIGHT)
      BY <1>2, Paper
    <3> QED
      BY <3>1
  <2>2. MaxRows * Columns = MAX_SCREEN_HEIGHT * Columns + d * Columns /\ d * Columns \in Nat
    BY <1>2, <2>1
  <2> QED
    BY <1>2, <2>2, Sizes
<1>4. ConsoleTypes
  <2>1. DOMAIN screen = Cells /\ DOMAIN paper = PaperCells
    BY <1>1
  <2>2. 0 \in 0..MAX_SCREEN_HEIGHT /\ 0 \in 0..(Columns - 1) /\ 0 \in PaperCells
    BY <1>2, Paper
  <2> QED
    BY <1>1, <2>1, <2>2 DEF ConsoleTypes, ScreenOK, PaperOK
<1>5. Cursor = 0 /\ 0 * Columns = 0
  BY <1>1, <1>2 DEF Cursor
<1>6. \A c \in TextRow : /\ c \in Cells /\ c < TextCells /\ c \in Nat
                         /\ c \in PaperCells /\ 0 * Columns + c = c
  BY <1>2, <1>3, Paper DEF TextRow, Cells
<1>7. \A c \in TextRow : screen[c] = Loader /\ paper[c] = Loader
  BY <1>1, <1>6
<1>8. \A c \in PaperCells : c >= 0 * Columns + TextCells => paper[c] = NUL
  <2> SUFFICES ASSUME NEW c \in PaperCells, c >= 0 * Columns + TextCells PROVE paper[c] = NUL
    OBVIOUS
  <2>1. ~(c < TextCells)
    BY <1>2, <1>5, Paper
  <2> QED
    BY <1>1, <2>1
<1>9. Window(screen, paper, 0)
  BY <1>2, <1>6, <1>7, <1>8, Paper DEF Window
<1>10. Shown(screen, paper, 0, Cursor, position)
  BY <1>1, <1>2, <1>5, <1>9 DEF Shown
<1> QED
  BY <1>4, <1>10 DEF ConsoleInv

LEMMA ConsoleStutters ==
  ASSUME ConsoleInv, UNCHANGED consoleVars
  PROVE  ConsoleInv'
BY DEF ConsoleInv, consoleVars, ConsoleTypes, ScreenOK, PaperOK, Cells, PaperCells,
       Shown, Window, Cursor

\* kprintf's cursor, the screen and the paper stay in step, whatever is printed.
THEOREM ConsoleInvariance == ConsoleSpec => []ConsoleInv
<1>1. ConsoleInv /\ [kprintf_piece]_consoleVars => ConsoleInv'
  BY PieceKeeps, ConsoleStutters
<1> QED
  BY <1>1, ConsoleInitially, PTL DEF ConsoleSpec

LEMMA InvScreen == ConsoleInv => ScreenShowsPaper
<1> SUFFICES ASSUME ConsoleInv, ~spilled PROVE
       /\ current_width = position % Columns
       /\ \A c \in Cells \ StatusRow : screen[c] = paper[TopRow * Columns + c]
       /\ TopRow > 0 => current_height >= MAX_SCREEN_HEIGHT - 1
  BY DEF ScreenShowsPaper
<1>1. /\ current_height \in Nat /\ current_width \in 0..(Columns - 1)
      /\ Columns \in Nat /\ Columns > 0 /\ MAX_SCREEN_HEIGHT \in Nat /\ TextCells \in Nat
  BY Sizes DEF ConsoleInv, ConsoleTypes
<1>2. PICK t \in Nat : Shown(screen, paper, t, Cursor, position)
  BY DEF ConsoleInv
<1>3. /\ Window(screen, paper, t) /\ position = t * Columns + Cursor
      /\ t > 0 => Cursor >= TextCells - Columns
  BY <1>2 DEF Shown
<1>4. /\ Cursor \in Nat /\ Cursor \div Columns = current_height
  BY <1>1, RowAddress DEF Cursor
<1>5. position \div Columns = t + current_height /\ position % Columns = current_width
  <2>1. (t + current_height) * Columns = t * Columns + current_height * Columns
        /\ t * Columns \in Nat /\ current_height * Columns \in Nat
    BY <1>1
  <2>2. position = (t + current_height) * Columns + current_width
    BY <1>1, <1>3, <2>1 DEF Cursor
  <2>3. t + current_height \in Nat /\ position \in Nat
    BY <1>1, <1>3, <1>4, <2>1
  <2> QED
    BY <1>1, <2>2, <2>3, Unique
<1>6. TopRow = t
  BY <1>1, <1>5 DEF TopRow
<1>7. \A c \in Cells \ StatusRow : c \in TextRow
  BY <1>1 DEF Cells, StatusRow, TextRow
<1>8. \A c \in TextRow : screen[c] = paper[t * Columns + c]
  BY <1>3 DEF Window
<1>9. t > 0 => current_height >= MAX_SCREEN_HEIGHT - 1
  BY <1>3, <1>4, AddressRow
<1> QED
  BY <1>5, <1>6, <1>7, <1>8, <1>9

\* What kprintf has printed is on the screen, unmoved and whole, unless a run crossed the
\* end of the last row.
THEOREM ScreenShowsPaperAlways == ConsoleSpec => []ScreenShowsPaper
BY ConsoleInvariance, InvScreen, PTL

\* Printing leaves the row of the clock and the keyboard alone.
THEOREM StatusRowKeptAlways == ConsoleSpec => StatusRowKept
<1>1. ConsoleInv /\ [kprintf_piece]_consoleVars =>
        [~spilled' => \A c \in StatusRow : screen'[c] = screen[c]]_consoleVars
  BY PieceKeeps
<1> QED
  BY <1>1, ConsoleInvariance, PTL DEF ConsoleSpec, StatusRowKept

\* Where the cursor is when n characters have been written from the start of the last
\* text row on.
LEMMA CursorBack ==
  ASSUME NEW n \in Nat, n <= Columns, UpdateHeightWidth((TextCells - Columns) + n)
  PROVE  \/ current_height' = MAX_SCREEN_HEIGHT - 1
         \/ current_height' = MAX_SCREEN_HEIGHT /\ current_width' = 0 /\ n = Columns
<1>1. /\ Columns \in Nat /\ Columns > 0 /\ MAX_SCREEN_HEIGHT \in Nat
      /\ MAX_SCREEN_HEIGHT - 1 \in Nat /\ TextCells \in Nat
      /\ TextCells = MAX_SCREEN_HEIGHT * Columns
      /\ TextCells - Columns = (MAX_SCREEN_HEIGHT - 1) * Columns
      /\ TextCells >= 2 * Columns
  BY Sizes
<1>2. PICK at \in Nat : at = (TextCells - Columns) + n
  BY <1>1
<1>3. current_height' = at \div Columns /\ current_width' = at % Columns
  BY <1>2 DEF UpdateHeightWidth
<1>4. CASE n < Columns
  <2>1. PICK q \in Nat : q = MAX_SCREEN_HEIGHT - 1
    BY <1>1
  <2>2. n \in 0..(Columns - 1) /\ at = q * Columns + n
    BY <1>1, <1>2, <1>4, <2>1
  <2>3. at \div Columns = q
    BY <1>1, <2>2, Unique
  <2> QED
    BY <1>3, <2>1, <2>3
<1>5. CASE n = Columns
  <2>1. at = TextCells
    BY <1>1, <1>2, <1>5
  <2>2. at = MAX_SCREEN_HEIGHT * Columns + 0 /\ 0 \in 0..(Columns - 1)
    BY <1>1, <2>1
  <2>3. at \div Columns = MAX_SCREEN_HEIGHT /\ at % Columns = 0
    BY <1>1, <2>2, Unique
  <2> QED
    BY <1>3, <1>5, <2>3
<1> QED
  BY <1>1, <1>4, <1>5

\* What one piece does once a run has left the cursor on the status row.
LEMMA PieceComesBack ==
  ASSUME ConsoleInv, kprintf_piece, current_height = MAX_SCREEN_HEIGHT
  PROVE  /\ \/ current_height' = MAX_SCREEN_HEIGHT - 1
            \/ /\ current_height' = MAX_SCREEN_HEIGHT /\ current_width' = 0
               /\ position' = position + Columns
         /\ \A c \in StatusRow : screen'[c] = screen[c]
         /\ \A c \in 0..(TextCells - 2 * Columns - 1) :
              screen'[c] \in {screen[c + Columns], screen[c + 2 * Columns]}
<1> DEFINE UpperRows == 0..(TextCells - 2 * Columns - 1)
<1>1. /\ Columns \in Nat /\ Columns > 0 /\ TextCells \in Nat /\ TextCells >= 2 * Columns
      /\ MAX_SCREEN_HEIGHT \in Nat /\ MAX_SCREEN_HEIGHT > 1
  BY Sizes
<1>2. /\ Here.cells = Scrolled(screen) /\ Here.at = TextCells - Columns
      /\ ScreenOK(Here.cells) /\ Here.at \in 0..(TextCells - 1)
  BY HereOK
<1>3. \A c \in UpperRows :
        /\ c \in Nat /\ c \in Cells /\ c \in TextRow /\ c < TextCells - Columns
        /\ c + Columns \in TextRow /\ c + Columns < TextCells - Columns
        /\ (c + Columns) + Columns = c + 2 * Columns
  BY <1>1 DEF TextRow, Cells
<1>4. \A c \in UpperRows : Scrolled(screen)[c] = screen[c + Columns]
  BY <1>3, ScrolledOK
<1> HIDE DEF UpperRows
<1>5. ASSUME NEW run, Len(run) \in Nat, Len(run) <= Columns, WriteRun(run)
      PROVE  /\ \/ current_height' = MAX_SCREEN_HEIGHT - 1
                \/ /\ current_height' = MAX_SCREEN_HEIGHT /\ current_width' = 0
                   /\ position' = position + Columns
             /\ \A c \in StatusRow : screen'[c] = screen[c]
             /\ \A c \in UpperRows : screen'[c] = screen[c + Columns]
  <2>1. /\ screen' = Overwritten(Scrolled(screen), TextCells - Columns, run)
        /\ UpdateHeightWidth((TextCells - Columns) + Len(run))
        /\ position' = position + Len(run)
    BY <1>2, <1>5 DEF WriteRun
  <2>2. PICK at \in Nat : at = TextCells - Columns
    BY <1>1
  <2>3. \/ current_height' = MAX_SCREEN_HEIGHT - 1
        \/ /\ current_height' = MAX_SCREEN_HEIGHT /\ current_width' = 0
           /\ position' = position + Columns
    <3>1. \/ current_height' = MAX_SCREEN_HEIGHT - 1
          \/ /\ current_height' = MAX_SCREEN_HEIGHT /\ current_width' = 0
             /\ Len(run) = Columns
      BY <1>5, <2>1, CursorBack
    <3> QED
      BY <2>1, <3>1
  <2>5. ASSUME NEW c \in StatusRow PROVE screen'[c] = screen[c]
    <3>1. c \in Cells /\ c \notin at..(at + Len(run) - 1)
      BY <1>1, <1>5, <2>2 DEF StatusRow, Cells
    <3>2. DOMAIN Scrolled(screen) = Cells
      BY ScrolledOK DEF ScreenOK
    <3>3. screen'[c] = Scrolled(screen)[c]
      BY <1>5, <2>1, <2>2, <3>1, <3>2, OverwrittenOK
    <3> QED
      BY <3>3, ScrolledOK
  <2>4. ASSUME NEW c \in UpperRows PROVE screen'[c] = screen[c + Columns]
    <3>1. c \in Cells /\ c \notin at..(at + Len(run) - 1)
      BY <1>1, <1>3, <1>5, <2>2
    <3>2. DOMAIN Scrolled(screen) = Cells
      BY ScrolledOK DEF ScreenOK
    <3>3. screen'[c] = Scrolled(screen)[c]
      BY <1>5, <2>1, <2>2, <3>1, <3>2, OverwrittenOK
    <3> QED
      BY <1>4, <3>3
  <2> QED
    BY <2>3, <2>4, <2>5
<1>6. ASSUME HandleNewLine
      PROVE  /\ current_height' = MAX_SCREEN_HEIGHT - 1
             /\ \A c \in StatusRow : screen'[c] = screen[c]
             /\ \A c \in UpperRows : screen'[c] = screen[c + 2 * Columns]
  <2> DEFINE row    == Here.at \div Columns + 1
             scroll == getCurrentAddress(Here.cells, row, 0)
  <2>1. screen' = scroll.cells /\ UpdateHeightWidth(scroll.at)
    BY <1>6 DEF HandleNewLine
  <2>2. row = MAX_SCREEN_HEIGHT
    <3>1. /\ Here.at \div Columns \in Nat
          /\ Here.at \div Columns <= MAX_SCREEN_HEIGHT - 1
          /\ Here.at \div Columns >= MAX_SCREEN_HEIGHT - 1
      BY <1>1, <1>2, AddressRow
    <3> QED
      BY <1>1, <3>1
  <2>3. 0 \in 0..(Columns - 1)
    BY <1>1
  <2> HIDE DEF row
  <2>4. scroll.cells = Scrolled(Scrolled(screen)) /\ scroll.at = TextCells - Columns
    BY <1>1, <1>2, <2>2, <2>3, CursorAddress
  <2> HIDE DEF scroll
  <2>5. current_height' = MAX_SCREEN_HEIGHT - 1
    <3>1. PICK n \in Nat : n = 0
      OBVIOUS
    <3>2. n <= Columns /\ n # Columns /\ (TextCells - Columns) + n = TextCells - Columns
      BY <1>1, <3>1
    <3>3. UpdateHeightWidth((TextCells - Columns) + n)
      BY <2>1, <2>4, <3>2
    <3> QED
      BY <3>2, <3>3, CursorBack
  <2>7. ASSUME NEW c \in StatusRow PROVE screen'[c] = screen[c]
    BY <2>1, <2>4, ScrolledOK
  <2>6. ASSUME NEW c \in UpperRows PROVE screen'[c] = screen[c + 2 * Columns]
    <3>1. screen'[c] = Scrolled(screen)[c + Columns]
      BY <1>3, <2>1, <2>4, ScrolledOK
    <3>2. Scrolled(screen)[c + Columns] = screen[(c + Columns) + Columns]
      BY <1>3, ScrolledOK
    <3> QED
      BY <1>3, <3>1, <3>2
  <2> QED
    BY <2>5, <2>6, <2>7
<1>7. CASE \E c \in Chars : WriteRun(<<c>>)
  <2>1. PICK c \in Chars : WriteRun(<<c>>)
    BY <1>7
  <2>2. PICK run : run = <<c>>
    OBVIOUS
  <2> QED
    BY <1>5, <2>1, <2>2, RunLength DEF UpperRows
<1>8. CASE \E r \in Runs : WriteRun(r)
  BY <1>5, <1>8, RunLength DEF UpperRows
<1>9. CASE HandleNewLine
  BY <1>6, <1>9 DEF UpperRows
<1> QED
  BY <1>7, <1>8, <1>9 DEF kprintf_piece

\* A cursor on the status row writes nothing there: the next piece puts it back on the last
\* text row, or a whole row of characters to the start of the status row, and the rows above
\* have only moved.
THEOREM CursorComesBackAlways == ConsoleSpec => CursorComesBack
<1>1. ConsoleInv /\ [kprintf_piece]_consoleVars =>
        [current_height = MAX_SCREEN_HEIGHT =>
           /\ \/ current_height' = MAX_SCREEN_HEIGHT - 1
              \/ /\ current_height' = MAX_SCREEN_HEIGHT /\ current_width' = 0
                 /\ position' = position + Columns
           /\ \A c \in StatusRow : screen'[c] = screen[c]
           /\ \A c \in 0..(TextCells - 2 * Columns - 1) :
                screen'[c] \in {screen[c + Columns], screen[c + 2 * Columns]}]_consoleVars
  BY PieceComesBack
<1> QED
  BY <1>1, ConsoleInvariance, PTL DEF ConsoleSpec, CursorComesBack


-----------------------------------------------------------------------------
(* PCI: the configuration mechanism.                                          *)

BusNumbers  == 0..255
SlotNumbers == 0..31
Registers   == {4 * r : r \in 0..15}

\* The three parts of an address come out of it again.
LEMMA Addressed ==
  ASSUME NEW b \in BusNumbers, NEW s \in SlotNumbers, NEW offset \in Registers, NEW address,
         address = ConfigAddress(b, s, 0, offset)
  PROVE  /\ address \div 65536 = b /\ (address \div 2048) % 32 = s
         /\ (address \div 256) % 8 = 0 /\ address % 256 = offset
<1>1. /\ offset \in 0..63 /\ offset % 4 = 0
      /\ b \in 0..255 /\ s \in 0..31
  BY DEF Registers, BusNumbers, SlotNumbers
<1>2. PICK a \in Nat : a = b * 65536 + s * 2048 + offset
  BY <1>1
<1>3. address = a
  BY <1>1, <1>2 DEF ConfigAddress
<1>4. a \div 65536 = b
  BY <1>1, <1>2
<1>5. (a \div 2048) % 32 = s
  <2>1. a \div 2048 = b * 32 + s
    <3>1. PICK q \in Nat : q = b * 32 + s
      BY <1>1
    <3>2. a = 2048 * q + offset
      BY <1>1, <1>2, <3>1
    <3>3. a \div 2048 = q
      BY <1>1, <3>2
    <3> QED
      BY <3>1, <3>3
  <2> QED
    BY <1>1, <2>1
<1>6. (a \div 256) % 8 = 0
  <2>1. PICK q \in Nat : q = b * 32 + s
    BY <1>1
  <2>2. a = 256 * (8 * q) + offset
    BY <1>1, <1>2, <2>1
  <2>3. a \div 256 = 8 * q
    BY <1>1, <2>1, <2>2
  <2> QED
    BY <2>1, <2>3
<1>7. a % 256 = offset
  <2>1. a = 256 * (b * 256 + s * 8) + offset
    BY <1>1, <1>2
  <2> QED
    BY <1>1, <2>1
<1> QED
  BY <1>3, <1>4, <1>5, <1>6, <1>7

LEMMA Word ==
  ASSUME NEW b \in BusNumbers, NEW s \in SlotNumbers, NEW offset \in Registers, NEW k \in 0..3
  PROVE  pciConfigReadWord(b, s, offset)[k] =
           IF <<b, s>> \in present THEN HeaderByte(<<b, s>>, offset + k) ELSE NoDevice
<1>0. PICK address : address = ConfigAddress(b, s, 0, offset)
  OBVIOUS
<1>1. /\ address \div 65536 = b /\ (address \div 2048) % 32 = s
      /\ (address \div 256) % 8 = 0 /\ address % 256 = offset
  BY <1>0, Addressed
<1>2. ConfigData(address)[k] =
        IF <<b, s>> \in present THEN HeaderByte(<<b, s>>, offset + k) ELSE NoDevice
  BY <1>1 DEF ConfigData
<1> QED
  BY <1>0, <1>2 DEF pciConfigReadWord

\* Every field lies in one of the sixteen registers.
LEMMA LayoutRegisters ==
  ASSUME NEW f \in Fields
  PROVE  /\ Layout[f][1] \in Registers
         /\ Layout[f][2] \in 0..3 /\ Layout[f][3] \in 1..4
         /\ Layout[f][2] + Layout[f][3] <= 4
<1>1. f \in {"vendorId", "deviceId", "command", "status", "revisionId", "progIf",
             "subClass", "classCode", "cacheLineSize", "latencyTimer", "headerType",
             "bist", "bar0", "bar1", "bar2", "bar3", "bar4", "bar5", "cardBusCISPtr",
             "subsystemVendorId", "subsystemId", "expansionBaseROMAddr",
             "capabilitiesPtr", "reserved0", "reserved1", "interruptLine",
             "interruptPin", "minGrant", "maxLatency"}
  BY DEF Fields, Layout
<1> QED
  BY <1>1 DEF Layout, Registers

\* The fields cover the header.
LEMMA LayoutCovers ==
  ASSUME NEW offset \in 0..63
  PROVE  \E f \in Fields :
           offset \in (Layout[f][1] + Layout[f][2])..(Layout[f][1] + Layout[f][2] + Layout[f][3] - 1)
BY DEF Fields, Layout

-----------------------------------------------------------------------------
(* The slots in the order of the scan.                                     *)

Device == (0..(Buses - 1)) \X (0..(Slots - 1))

Visited == bus * Slots + deviceId

LEMMA Bounds ==
  /\ MAX_PCI_DEVICES \in Nat /\ Buses \in Nat /\ Buses > 0 /\ Slots \in Nat /\ Slots > 0
  /\ \A b \in 0..(Buses - 1) : b \in BusNumbers
  /\ \A s \in 0..(Slots - 1) : s \in SlotNumbers
BY PciAssumption DEF BusNumbers, SlotNumbers

LEMMA Devices ==
  ASSUME present \in Machines
  PROVE  \A d \in present : /\ d \in Device /\ d[1] \in 0..(Buses - 1)
                            /\ d[2] \in 0..(Slots - 1) /\ d = <<d[1], d[2]>>
                            /\ HeaderByte(d, 0) # NoDevice
<1>1. \A d \in present : d \in Device
  BY PciAssumption DEF Device
<1>2. \A d \in present : <<d, 0>> # NoDevice
  BY PciAssumption
<1> QED
  BY <1>1, <1>2 DEF Device, HeaderByte

\* Slots of a later bus come later.
LEMMA RowsApart ==
  ASSUME NEW b \in Nat, NEW c \in Nat, b < c, NEW s \in 0..(Slots - 1)
  PROVE  /\ b * Slots \in Nat /\ c * Slots \in Nat
         /\ b * Slots + s < c * Slots
<1>1. PICK d \in Nat : c = b + 1 + d
  <2>1. c - b - 1 \in Nat /\ c = b + 1 + (c - b - 1)
    OBVIOUS
  <2> QED
    BY <2>1
<1>2. c * Slots = b * Slots + Slots + d * Slots /\ d * Slots \in Nat /\ b * Slots \in Nat
  BY <1>1, Bounds
<1> QED
  BY <1>2, Bounds

\* Two slots at the same place are the same.
LEMMA PlaceInjective ==
  ASSUME NEW b \in Nat, NEW c \in Nat, NEW s \in 0..(Slots - 1), NEW t \in 0..(Slots - 1),
         b * Slots + s = c * Slots + t
  PROVE  b = c /\ s = t
<1>1. ~(b < c)
  <2> SUFFICES ASSUME b < c PROVE FALSE
    OBVIOUS
  <2>1. b * Slots + s < c * Slots /\ c * Slots \in Nat /\ b * Slots \in Nat
    BY RowsApart
  <2> QED
    BY <2>1, Bounds
<1>2. ~(c < b)
  <2> SUFFICES ASSUME c < b PROVE FALSE
    OBVIOUS
  <2>1. c * Slots + t < b * Slots /\ c * Slots \in Nat /\ b * Slots \in Nat
    BY RowsApart
  <2> QED
    BY <2>1, Bounds
<1>3. b = c
  BY <1>1, <1>2
<1>4. b * Slots \in Nat /\ b * Slots = c * Slots
  BY <1>3, Bounds
<1>5. s = t
  BY <1>4, Bounds
<1> QED
  BY <1>3, <1>5

-----------------------------------------------------------------------------
(* Entries.                                                                *)

\* The header of a device, field by field.
HeaderOf(d) ==
  [f \in Fields |->
     [k \in 1..Layout[f][3] |-> HeaderByte(d, Layout[f][1] + Layout[f][2] + k - 1)]]

\* pciCheckVendor finds a device exactly where there is one, and its entry is its header.
LEMMA CheckedVendor ==
  ASSUME present \in Machines, NEW b \in 0..(Buses - 1), NEW s \in 0..(Slots - 1)
  PROVE  /\ pciConfigReadWord(b, s, 0)[0] # NoDevice <=> <<b, s>> \in present
         /\ <<b, s>> \in present => EntryFor(b, s) = HeaderOf(<<b, s>>)
<1>1. b \in BusNumbers /\ s \in SlotNumbers
  BY Bounds
<1>2. 0 \in Registers /\ 0 \in 0..3 /\ 0 + 0 = 0
  BY DEF Registers
<1>3. pciConfigReadWord(b, s, 0)[0] =
        IF <<b, s>> \in present THEN HeaderByte(<<b, s>>, 0 + 0) ELSE NoDevice
  BY <1>1, <1>2, Word
<1>4. ASSUME <<b, s>> \in present PROVE EntryFor(b, s) = HeaderOf(<<b, s>>)
  <2>1. ASSUME NEW f \in Fields, NEW k \in 1..Layout[f][3]
        PROVE  pciConfigReadWord(b, s, Layout[f][1])[Layout[f][2] + k - 1] =
                 HeaderByte(<<b, s>>, Layout[f][1] + Layout[f][2] + k - 1)
    <3>1. PICK o \in Registers : o = Layout[f][1]
      BY LayoutRegisters
    <3>2. PICK from \in 0..3 : from = Layout[f][2]
      BY LayoutRegisters
    <3>3. PICK n \in 1..4 : n = Layout[f][3] /\ from + n <= 4
      BY <3>2, LayoutRegisters
    <3>4. PICK i : i = from + k - 1
      OBVIOUS
    <3>5. i \in 0..3
      BY <2>1, <3>3, <3>4
    <3>6. pciConfigReadWord(b, s, o)[i] = HeaderByte(<<b, s>>, o + i)
      BY <1>1, <1>4, <3>5, Word
    <3>7. o + i = o + from + k - 1
      BY <2>1, <3>3, <3>4 DEF Registers
    <3> QED
      BY <3>1, <3>2, <3>4, <3>6, <3>7
  <2> QED
    BY <2>1, Zenon DEF EntryFor, HeaderOf
<1>5. <<b, s>> \in present => HeaderByte(<<b, s>>, 0) # NoDevice
  BY Devices
<1> QED
  BY <1>2, <1>3, <1>4, <1>5

LEMMA HeaderOwner ==
  ASSUME NEW d
  PROVE  HeaderOf(d).vendorId[1][1] = d
<1>1. "vendorId" \in Fields
  BY DEF Fields, Layout
<1>2. Layout["vendorId"] = <<0, 0, 2>>
  BY DEF Layout
<1>3. HeaderOf(d)["vendorId"] = [k \in 1..2 |-> HeaderByte(d, 0 + 0 + k - 1)]
  BY <1>1, <1>2 DEF HeaderOf
<1> QED
  BY <1>3 DEF HeaderByte

-----------------------------------------------------------------------------
(* The scan.                                                               *)

PciTypes ==
  /\ present \in Machines
  /\ bus \in 0..Buses /\ deviceId \in 0..(Slots - 1)
  /\ bus = Buses => deviceId = 0
  /\ devCount \in 0..MAX_PCI_DEVICES
  /\ DOMAIN devInfo = 0..(MAX_PCI_DEVICES - 1)
  /\ faulted \in BOOLEAN

Entries == 0..(devCount - 1)

\* Each entry is the header of a device of a slot that has been visited; they are in order.
Filled ==
  /\ \A i \in Entries : /\ Owner(i) \in present
                        /\ devInfo[i] = HeaderOf(Owner(i))
                        /\ Place(Owner(i)) < Visited
  /\ \A i \in 1..(devCount - 1) : Place(Owner(i - 1)) < Place(Owner(i))

\* And as long as the table has held them, each such device has an entry.
NoneMissed ==
  ~faulted => \A d \in present : Place(d) < Visited => \E i \in Entries : Owner(i) = d

PciInv == PciTypes /\ Filled /\ NoneMissed

LEMMA PciInitially == PciInit => PciInv
<1> SUFFICES ASSUME PciInit PROVE PciInv
  OBVIOUS
<1>1. /\ present \in Machines /\ bus = 0 /\ deviceId = 0 /\ devCount = 0 /\ faulted = FALSE
      /\ DOMAIN devInfo = 0..(MAX_PCI_DEVICES - 1)
  BY DEF PciInit
<1>2. PciTypes
  <2>1. 0 \in 0..Buses /\ 0 \in 0..(Slots - 1) /\ 0 \in 0..MAX_PCI_DEVICES
    BY Bounds
  <2> QED
    BY <1>1, <2>1 DEF PciTypes
<1>3. Entries = {} /\ 1..(devCount - 1) = {}
  BY <1>1 DEF Entries
<1>4. Visited = 0
  BY <1>1, Bounds DEF Visited
<1>5. \A d \in present : ~(Place(d) < Visited)
  <2> SUFFICES ASSUME NEW d \in present PROVE ~(Place(d) < Visited)
    OBVIOUS
  <2>1. d[1] \in Nat /\ d[2] \in Nat
    BY <1>1, Devices, Bounds
  <2>2. d[1] * Slots \in Nat
    BY <2>1, Bounds
  <2> QED
    BY <1>4, <2>1, <2>2 DEF Place
<1> QED
  BY <1>2, <1>3, <1>5 DEF PciInv, Filled, NoneMissed

\* One step of the two loops goes on to the next slot.
LEMMA NextSlot ==
  ASSUME PciTypes, scan
  PROVE  /\ bus' \in 0..Buses /\ deviceId' \in 0..(Slots - 1)
         /\ bus' = Buses => deviceId' = 0
         /\ Visited \in Nat /\ Visited' = Visited + 1
<1>1. /\ bus \in Nat /\ bus < Buses /\ deviceId \in 0..(Slots - 1)
      /\ deviceId' = (deviceId + 1) % Slots
      /\ bus' = IF deviceId + 1 = Slots THEN bus + 1 ELSE bus
  BY Bounds DEF PciTypes, scan
<1>2. Visited = bus * Slots + deviceId /\ Visited' = bus' * Slots + deviceId'
  BY DEF Visited
<1>3. bus * Slots \in Nat /\ (bus + 1) * Slots = bus * Slots + Slots
  BY <1>1, Bounds
<1>4. CASE deviceId + 1 = Slots
  <2>1. deviceId' = 0
    BY <1>1, <1>4, Bounds
  <2> QED
    BY <1>1, <1>2, <1>3, <1>4, <2>1, Bounds
<1>5. CASE deviceId + 1 # Slots
  <2>1. deviceId' = deviceId + 1
    BY <1>1, <1>5, Bounds
  <2> QED
    BY <1>1, <1>2, <1>3, <1>5, <2>1, Bounds
<1> QED
  BY <1>4, <1>5

LEMMA VisitedNow ==
  ASSUME PciTypes, bus < Buses
  PROVE  \A d \in present :
           /\ Place(d) \in Nat
           /\ Place(d) < Visited + 1 <=> Place(d) < Visited \/ d = <<bus, deviceId>>
           /\ d = <<bus, deviceId>> => Place(d) = Visited
<1>1. present \in Machines /\ bus \in Nat /\ deviceId \in 0..(Slots - 1)
  BY Bounds DEF PciTypes
<1> SUFFICES ASSUME NEW d \in present
             PROVE  /\ Place(d) \in Nat
                    /\ Place(d) < Visited + 1 <=> Place(d) < Visited \/ d = <<bus, deviceId>>
                    /\ d = <<bus, deviceId>> => Place(d) = Visited
  OBVIOUS
<1>2. PICK b \in 0..(Buses - 1), s \in 0..(Slots - 1) : d = <<b, s>>
  BY <1>1, Devices
<1>3. Place(d) = b * Slots + s /\ Visited = bus * Slots + deviceId /\ b \in Nat
  BY <1>2, Bounds DEF Place, Visited
<1>4. b * Slots \in Nat /\ bus * Slots \in Nat
  BY <1>1, <1>3, Bounds
<1>5. Place(d) = Visited => d = <<bus, deviceId>>
  BY <1>1, <1>2, <1>3, PlaceInjective
<1>6. d = <<bus, deviceId>> => Place(d) = Visited
  BY <1>3 DEF Place
<1>7. Place(d) \in Nat /\ Visited \in Nat
  BY <1>1, <1>3, <1>4, Bounds
<1> QED
  BY <1>5, <1>6, <1>7

LEMMA ScanKeeps ==
  ASSUME PciInv, scan
  PROVE  PciInv'
<1> DEFINE d == <<bus, deviceId>>
<1>1. /\ PciTypes /\ Filled /\ NoneMissed
      /\ ~faulted /\ bus < Buses /\ pciCheckVendor(bus, deviceId) /\ present' = present
  BY DEF PciInv, scan
<1>2. /\ present \in Machines /\ bus \in 0..(Buses - 1) /\ deviceId \in 0..(Slots - 1)
      /\ devCount \in 0..MAX_PCI_DEVICES /\ DOMAIN devInfo = 0..(MAX_PCI_DEVICES - 1)
  BY <1>1, Bounds DEF PciTypes
<1>3. /\ bus' \in 0..Buses /\ deviceId' \in 0..(Slots - 1) /\ (bus' = Buses => deviceId' = 0)
      /\ Visited \in Nat /\ Visited' = Visited + 1
  BY <1>1, NextSlot DEF PciInv
<1>4. \A e \in present :
        /\ Place(e) \in Nat
        /\ Place(e) < Visited + 1 <=> Place(e) < Visited \/ e = d
        /\ e = d => Place(e) = Visited
  BY <1>1, VisitedNow
<1>5. /\ pciConfigReadWord(bus, deviceId, 0)[0] # NoDevice <=> d \in present
      /\ d \in present => EntryFor(bus, deviceId) = HeaderOf(d)
  BY <1>2, CheckedVendor
<1>6. \A i \in Entries : /\ Owner(i) \in present /\ devInfo[i] = HeaderOf(Owner(i))
                         /\ Place(Owner(i)) < Visited
  BY <1>1 DEF Filled
<1>7. \A i \in 1..(devCount - 1) : Place(Owner(i - 1)) < Place(Owner(i))
  BY <1>1 DEF Filled
<1>8. \A e \in present : Place(e) < Visited => \E i \in Entries : Owner(i) = e
  BY <1>1 DEF NoneMissed
<1> HIDE DEF d
<1>9. CASE d \notin present \/ devCount = MAX_PCI_DEVICES
  <2>1. /\ devInfo' = devInfo /\ devCount' = devCount
        /\ faulted' = (d \in present /\ devCount >= MAX_PCI_DEVICES)
    BY <1>1, <1>2, <1>5, <1>9, Bounds DEF pciCheckVendor
  <2>2. PciTypes'
    BY <1>1, <1>2, <1>3, <2>1 DEF PciTypes
  <2>3. Entries' = Entries /\ \A i : Owner(i)' = Owner(i)
    BY <2>1 DEF Entries, Owner
  <2>4. Filled'
    <3>1. ASSUME NEW i \in Entries
          PROVE  /\ Owner(i) \in present' /\ devInfo'[i] = HeaderOf(Owner(i))
                 /\ Place(Owner(i)) < Visited'
      BY <1>1, <1>3, <1>4, <1>6, <2>1
    <3> QED
      BY <1>7, <2>1, <2>3, <3>1 DEF Filled, Owner, Entries
  <2>5. NoneMissed'
    <3> SUFFICES ASSUME ~faulted', NEW e \in present, Place(e) < Visited + 1
                 PROVE  \E i \in Entries : Owner(i) = e
      BY <1>1, <1>3, <2>3 DEF NoneMissed
    <3>1. d \notin present
      <4>1. ~(d \in present /\ devCount >= MAX_PCI_DEVICES)
        BY <2>1
      <4>2. MAX_PCI_DEVICES >= MAX_PCI_DEVICES
        BY Bounds
      <4> QED
        BY <1>9, <4>1, <4>2
    <3> QED
      BY <1>4, <1>8, <3>1
  <2> QED
    BY <2>2, <2>4, <2>5 DEF PciInv
<1>10. CASE d \in present /\ devCount # MAX_PCI_DEVICES
  <2>1. devCount < MAX_PCI_DEVICES /\ devCount \in Nat /\ devCount \in DOMAIN devInfo
    BY <1>2, <1>10, Bounds
  <2>2. /\ devInfo' = [devInfo EXCEPT ![devCount] = HeaderOf(d)]
        /\ devCount' = devCount + 1 /\ faulted' = FALSE
    <3>1. ~(devCount >= MAX_PCI_DEVICES)
      BY <2>1, Bounds
    <3>2. pciConfigReadWord(bus, deviceId, 0)[0] # NoDevice /\ EntryFor(bus, deviceId) = HeaderOf(d)
      BY <1>5, <1>10
    <3>3. faulted' = (pciConfigReadWord(bus, deviceId, 0)[0] # NoDevice
                      /\ devCount >= MAX_PCI_DEVICES)
      BY <1>1 DEF pciCheckVendor
    <3>4. /\ devInfo' = [devInfo EXCEPT ![devCount] = EntryFor(bus, deviceId)]
          /\ devCount' = devCount + 1
      BY <1>1, <2>1, <3>2 DEF pciCheckVendor
    <3> QED
      BY <3>1, <3>2, <3>3, <3>4
  <2>3. PciTypes'
    <3>1. devCount + 1 \in 0..MAX_PCI_DEVICES
      BY <2>1, Bounds
    <3>2. DOMAIN devInfo' = 0..(MAX_PCI_DEVICES - 1)
      BY <1>2, <2>2
    <3> QED
      BY <1>1, <1>2, <1>3, <2>2, <3>1, <3>2 DEF PciTypes
  <2>4. /\ \A i \in Entries : i \in Nat /\ i < devCount /\ i \in DOMAIN devInfo /\ i # devCount
        /\ \A i \in Entries' : i \in Entries \/ i = devCount
        /\ \A i \in Entries : i \in Entries'
        /\ devCount \in Entries'
    BY <1>2, <2>1, <2>2, Bounds DEF Entries
  <2>5. /\ \A i \in Entries : devInfo'[i] = devInfo[i]
        /\ devInfo'[devCount] = HeaderOf(d)
    BY <2>1, <2>2, <2>4
  <2>6. /\ \A i \in Entries : Owner(i)' = Owner(i)
        /\ devInfo'[devCount].vendorId[1][1] = d
    <3>1. \A i \in Entries : Owner(i)' = devInfo'[i].vendorId[1][1]
      BY DEF Owner
    <3>2. \A i \in Entries : Owner(i) = devInfo[i].vendorId[1][1]
      BY DEF Owner
    <3> QED
      BY <2>5, <3>1, <3>2, HeaderOwner
  <2>7. Filled'
    <3>1. \A i \in Entries' :
            /\ devInfo'[i].vendorId[1][1] \in present
            /\ devInfo'[i] = HeaderOf(devInfo'[i].vendorId[1][1])
            /\ Place(devInfo'[i].vendorId[1][1]) < Visited'
      <4> SUFFICES ASSUME NEW i \in Entries'
                   PROVE  /\ devInfo'[i].vendorId[1][1] \in present
                          /\ devInfo'[i] = HeaderOf(devInfo'[i].vendorId[1][1])
                          /\ Place(devInfo'[i].vendorId[1][1]) < Visited'
        OBVIOUS
      <4>1. CASE i \in Entries
        <5>1. devInfo'[i].vendorId[1][1] = Owner(i)
          BY <2>5, <4>1 DEF Owner
        <5> QED
          BY <1>3, <1>4, <1>6, <2>5, <4>1, <5>1
      <4>2. CASE i = devCount
        <5>1. devInfo'[i].vendorId[1][1] = d
          BY <2>5, <4>2, HeaderOwner
        <5> QED
          BY <1>3, <1>4, <1>10, <2>5, <4>2, <5>1
      <4> QED
        BY <2>4, <4>1, <4>2
    <3>2. \A i \in 1..(devCount' - 1) :
            Place(devInfo'[i - 1].vendorId[1][1]) < Place(devInfo'[i].vendorId[1][1])
      <4> SUFFICES ASSUME NEW i \in 1..(devCount' - 1)
                   PROVE  Place(devInfo'[i - 1].vendorId[1][1]) <
                            Place(devInfo'[i].vendorId[1][1])
        OBVIOUS
      <4>1. i - 1 \in Entries /\ ((i \in Entries /\ i \in 1..(devCount - 1)) \/ i = devCount)
        BY <2>1, <2>2 DEF Entries
      <4>2. devInfo'[i - 1].vendorId[1][1] = Owner(i - 1)
        BY <2>5, <4>1 DEF Owner
      <4>3. CASE i \in Entries /\ i \in 1..(devCount - 1)
        <5>1. devInfo'[i].vendorId[1][1] = Owner(i)
          BY <2>5, <4>3 DEF Owner
        <5> QED
          BY <1>7, <4>2, <4>3, <5>1
      <4>4. CASE i = devCount
        <5>1. devInfo'[i].vendorId[1][1] = d /\ Place(d) = Visited
          BY <1>4, <1>10, <2>5, <4>4, HeaderOwner
        <5> QED
          BY <1>6, <4>1, <4>2, <5>1
      <4> QED
        BY <4>1, <4>3, <4>4
    <3> QED
      BY <1>1, <3>1, <3>2 DEF Filled, Owner, Place
  <2>8. NoneMissed'
    <3> SUFFICES ASSUME NEW e \in present, Place(e) < Visited + 1
                 PROVE  \E i \in Entries' : devInfo'[i].vendorId[1][1] = e
      BY <1>1, <1>3 DEF NoneMissed, Place, Owner
    <3>1. CASE e = d
      BY <2>4, <2>6, <3>1
    <3>2. CASE e # d
      <4>1. PICK i \in Entries : Owner(i) = e
        BY <1>4, <1>8, <3>2
      <4> QED
        BY <2>4, <2>5, <4>1 DEF Owner
    <3> QED
      BY <3>1, <3>2
  <2> QED
    BY <2>3, <2>7, <2>8 DEF PciInv
<1> QED
  BY <1>9, <1>10

LEMMA PciStutters ==
  ASSUME PciInv, UNCHANGED pciVars
  PROVE  PciInv'
<1>1. /\ present' = present /\ bus' = bus /\ deviceId' = deviceId /\ devInfo' = devInfo
      /\ devCount' = devCount /\ faulted' = faulted
  BY DEF pciVars
<1>2. PciTypes'
  BY <1>1 DEF PciInv, PciTypes
<1>3. Filled'
  BY <1>1 DEF PciInv, Filled, Owner, Place, Visited, Entries
<1>4. NoneMissed'
  BY <1>1 DEF PciInv, NoneMissed, Owner, Place, Visited, Entries
<1> QED
  BY <1>2, <1>3, <1>4 DEF PciInv

\* init_pci_devInfo's table grows with the scan, entry by device, until it is full.
THEOREM PciInvariance == PciSpec => []PciInv
<1>1. PciInv /\ [PciNext]_pciVars => PciInv'
  BY ScanKeeps, PciStutters DEF PciNext, rest
<1> QED
  BY <1>1, PciInitially, PTL DEF PciSpec

\* The unchecked stores of pciCheckVendor leave exactly the visited devices in the table,
\* each once and in order, as long as it holds them.
THEOREM TableIsScanAlways == PciSpec => []TableIsScan
<1>1. PciInv => TableIsScan
  <2> SUFFICES ASSUME PciInv, ~faulted
               PROVE  /\ {Owner(i) : i \in 0..(devCount - 1)} = {d \in present : Place(d) < Visited}
                      /\ \A i \in 1..(devCount - 1) : Place(Owner(i - 1)) < Place(Owner(i))
    BY DEF TableIsScan, Visited
  <2>1. Filled /\ NoneMissed
    BY DEF PciInv
  <2>2. \A i \in Entries : Owner(i) \in present /\ Place(Owner(i)) < Visited
    BY <2>1 DEF Filled
  <2>3. \A d \in present : Place(d) < Visited => \E i \in Entries : Owner(i) = d
    BY <2>1 DEF NoneMissed
  <2> QED
    BY <2>1, <2>2, <2>3 DEF Filled, Entries
<1> QED
  BY <1>1, PciInvariance, PTL

\* Its shifts and masks keep every byte of every header, at all times and not only at the
\* end.
THEOREM HeaderKeptAlways == PciSpec => []HeaderKept
<1>1. PciInv => HeaderKept
  <2> SUFFICES ASSUME PciInv, NEW i \in 0..(devCount - 1), NEW offset \in 0..63
               PROVE  \E f \in Fields :
                        LET at == Layout[f][1] + Layout[f][2] IN
                        /\ offset \in at..(at + Layout[f][3] - 1)
                        /\ devInfo[i][f][offset - at + 1] = HeaderByte(Owner(i), offset)
    BY DEF HeaderKept
  <2>1. devInfo[i] = HeaderOf(Owner(i))
    BY DEF PciInv, Filled, Entries
  <2>2. PICK f \in Fields :
          offset \in (Layout[f][1] + Layout[f][2])..(Layout[f][1] + Layout[f][2] + Layout[f][3] - 1)
    BY LayoutCovers
  <2>3. PICK o \in Nat : o = Layout[f][1]
    BY LayoutRegisters DEF Registers
  <2>4. PICK from \in 0..3 : from = Layout[f][2]
    BY LayoutRegisters
  <2>5. PICK n \in 1..4 : n = Layout[f][3]
    BY LayoutRegisters
  <2>6. PICK k : k = offset - (o + from) + 1
    OBVIOUS
  <2>7. k \in 1..n /\ o + from + k - 1 = offset
    <3>1. offset \in (o + from)..(o + from + n - 1)
      BY <2>2, <2>3, <2>4, <2>5
    <3> QED
      BY <2>6, <3>1
  <2>8. devInfo[i][f][k] = HeaderByte(Owner(i), o + from + k - 1)
    BY <2>1, <2>3, <2>4, <2>5, <2>7 DEF HeaderOf
  <2> QED
    BY <2>2, <2>3, <2>4, <2>6, <2>7, <2>8
<1> QED
  BY <1>1, PciInvariance, PTL

-----------------------------------------------------------------------------
(* Numerals: arithmetic.                                                   *)

LEMMA SmallestNumber ==
  ASSUME NEW S \in SUBSET Nat, S # {}
  PROVE  Min(S) \in S /\ \A n \in S : Min(S) <= n
<1>1. PICK n \in S : \A m \in S : <<m, n>> \notin OpToRel(<, Nat)
  BY NatLessThanWellFounded, WFMin
<1>2. \A m \in S : ~(m < n)
  BY <1>1 DEF OpToRel
<1>3. \A m \in S : n <= m
  BY <1>2
<1> QED
  BY <1>3 DEF Min

Bases == {10, 16}

\* One digit is taken off a number.
LEMMA DigitOff ==
  ASSUME NEW base \in Bases, NEW n \in Nat
  PROVE  /\ base \in Nat
         /\ n \div base \in Nat /\ n % base \in 0..base - 1 /\ n % base \in Nat
         /\ n = (n \div base) * base + (n % base)
         /\ n # 0 => n \div base \in 0..n - 1
<1>1. base = 10 \/ base = 16
  BY DEF Bases
<1>2. /\ base \in Nat /\ n \div base \in Nat
      /\ n % base \in 0..base - 1 /\ n % base \in Nat
  BY <1>1
<1>3. n = (n \div base) * base + (n % base)
  <2>1. n = (n \div 10) * 10 + (n % 10)
    OBVIOUS
  <2>2. n = (n \div 16) * 16 + (n % 16)
    OBVIOUS
  <2> QED
    BY <1>1, <2>1, <2>2
<1>4. n # 0 => n \div base \in 0..n - 1
  <2>1. n # 0 => n \div 10 \in 0..n - 1
    OBVIOUS
  <2>2. n # 0 => n \div 16 \in 0..n - 1
    OBVIOUS
  <2> QED
    BY <1>1, <2>1, <2>2
<1> QED
  BY <1>2, <1>3, <1>4

LEMMA QuotientGrows ==
  ASSUME NEW base \in Bases, NEW n \in Nat, NEW m \in Nat, m <= n
  PROVE  m \div base <= n \div base
<1>1. CASE base = 10
  BY <1>1
<1>2. CASE base = 16
  BY <1>2
<1> QED
  BY <1>1, <1>2 DEF Bases

-----------------------------------------------------------------------------
(* Numerals: the loop that takes digits off.                               *)

\* The function that Taken is the last value of.
TakesOff(ch, num, base) ==
  ch = [n \in 0..num |-> IF n = 0 THEN <<>> ELSE <<n % base>> \o ch[n \div base]]

LEMMA TakesOffSteps ==
  ASSUME NEW base \in Bases, NEW num \in Nat, NEW ch
  PROVE  TakesOff(ch, num, base) <=>
           /\ ch = [n \in 0..num |-> ch[n]]
           /\ ch[0] = <<>>
           /\ \A n \in 1..num : ch[n] = <<n % base>> \o ch[n \div base]
<1>1. ASSUME TakesOff(ch, num, base)
      PROVE  /\ ch = [n \in 0..num |-> ch[n]]
             /\ ch[0] = <<>>
             /\ \A n \in 1..num : ch[n] = <<n % base>> \o ch[n \div base]
  <2>1. \A n \in 0..num : ch[n] = IF n = 0 THEN <<>> ELSE <<n % base>> \o ch[n \div base]
    BY <1>1, Zenon DEF TakesOff
  <2>2. ch = [n \in 0..num |-> ch[n]]
    BY <1>1, Zenon DEF TakesOff
  <2>3. 0 \in 0..num /\ \A n \in 1..num : n \in 0..num /\ n # 0
    OBVIOUS
  <2> QED
    BY <2>1, <2>2, <2>3
<1>2. ASSUME ch = [n \in 0..num |-> ch[n]], ch[0] = <<>>,
             \A n \in 1..num : ch[n] = <<n % base>> \o ch[n \div base]
      PROVE  TakesOff(ch, num, base)
  <2>1. \A n \in 0..num : ch[n] = IF n = 0 THEN <<>> ELSE <<n % base>> \o ch[n \div base]
    <3>1. \A n \in 0..num : n = 0 \/ n \in 1..num
      OBVIOUS
    <3> QED
      BY <1>2, <3>1
  <2>2. [n \in 0..num |-> ch[n]]
          = [n \in 0..num |-> IF n = 0 THEN <<>> ELSE <<n % base>> \o ch[n \div base]]
    BY <2>1, Zenon
  <2> QED
    BY <1>2, <2>2, Zenon DEF TakesOff
<1> QED
  BY <1>1, <1>2

\* There is one, for every number.
LEMMA TakesOffExists ==
  ASSUME NEW base \in Bases, NEW num \in Nat
  PROVE  \E ch : TakesOff(ch, num, base)
<1> DEFINE S == {n \in Nat : ~\E ch : TakesOff(ch, n, base)}
<1>1. S = {}
  <2> SUFFICES ASSUME S # {} PROVE FALSE
    OBVIOUS
  <2>1. PICK m \in S : \A n \in S : m <= n
    <3>1. S \in SUBSET Nat
      OBVIOUS
    <3> HIDE DEF S
    <3> QED
      BY <3>1, SmallestNumber
  <2>2. m \in Nat /\ ~\E ch : TakesOff(ch, m, base)
    OBVIOUS
  <2>3. CASE m = 0
    <3> DEFINE ch == [n \in 0..m |-> <<>>]
    <3>1. ch = [n \in 0..m |-> ch[n]] /\ ch[0] = <<>> /\ \A n \in 1..m : FALSE
      BY <2>3
    <3> HIDE DEF ch
    <3>2. TakesOff(ch, m, base)
      BY <2>2, <3>1, TakesOffSteps
    <3> QED
      BY <2>2, <3>2
  <2>4. CASE m # 0
    <3>1. m - 1 \in Nat /\ m - 1 \notin S
      BY <2>1, <2>2, <2>4
    <3>2. PICK old : TakesOff(old, m - 1, base)
      BY <3>1
    <3>3. old[0] = <<>> /\ \A n \in 1..m - 1 : old[n] = <<n % base>> \o old[n \div base]
      BY <3>1, <3>2, TakesOffSteps
    <3> DEFINE ch == [n \in 0..m |-> IF n = m THEN <<n % base>> \o old[n \div base] ELSE old[n]]
    <3>4. \A n \in 0..m - 1 : ch[n] = old[n]
      BY <2>2
    <3>5. ch[m] = <<m % base>> \o old[m \div base]
      BY <2>2
    <3>6. ch = [n \in 0..m |-> ch[n]]
      OBVIOUS
    <3> HIDE DEF ch
    <3>7. \A n \in 1..m : ch[n] = <<n % base>> \o ch[n \div base]
      <4> TAKE n \in 1..m
      <4>1. n \div base \in 0..n - 1
        <5>1. n \in Nat /\ n # 0
          BY <2>2
        <5> QED
          BY <5>1, DigitOff
      <4>2. ch[n \div base] = old[n \div base]
        BY <2>2, <3>4, <4>1
      <4>3. CASE n = m
        BY <3>5, <4>2, <4>3
      <4>4. CASE n # m
        <5>1. n \in 1..m - 1 /\ n \in 0..m - 1
          BY <2>2, <4>4
        <5> QED
          BY <3>3, <3>4, <4>2, <5>1
      <4> QED
        BY <4>3, <4>4
    <3>8. ch[0] = <<>>
      BY <2>2, <2>4, <3>3, <3>4
    <3>9. TakesOff(ch, m, base)
      BY <2>2, <3>6, <3>7, <3>8, TakesOffSteps
    <3> QED
      BY <2>2, <3>9
  <2> QED
    BY <2>3, <2>4
<1> QED
  BY <1>1

\* They agree.
LEMMA TakesOffAgrees ==
  ASSUME NEW base \in Bases, NEW m \in Nat, NEW n \in Nat, NEW ch, NEW f,
         TakesOff(ch, m, base), TakesOff(f, n, base), NEW i \in 0..m, i \in 0..n
  PROVE  ch[i] = f[i]
<1> DEFINE S == {j \in 0..i : ch[j] # f[j]}
<1>1. S = {}
  <2> SUFFICES ASSUME S # {} PROVE FALSE
    OBVIOUS
  <2>1. PICK j \in S : \A k \in S : j <= k
    <3>1. S \in SUBSET Nat
      OBVIOUS
    <3> HIDE DEF S
    <3> QED
      BY <3>1, SmallestNumber
  <2>2. j \in 0..i /\ ch[j] # f[j]
    OBVIOUS
  <2>3. /\ ch[0] = <<>> /\ \A k \in 1..m : ch[k] = <<k % base>> \o ch[k \div base]
        /\ f[0] = <<>> /\ \A k \in 1..n : f[k] = <<k % base>> \o f[k \div base]
    BY TakesOffSteps
  <2>4. j # 0 /\ j \in 1..m /\ j \in 1..n
    BY <2>2, <2>3
  <2>5. j \div base \in 0..j - 1
    BY <2>4, DigitOff
  <2>6. j \div base \in 0..i /\ ~(j <= j \div base)
    BY <2>2, <2>4, <2>5
  <2>7. ch[j \div base] = f[j \div base]
    BY <2>1, <2>6
  <2> QED
    BY <2>2, <2>3, <2>4, <2>7
<1> QED
  BY <1>1

LEMMA TakenSteps ==
  ASSUME NEW base \in Bases
  PROVE  /\ Taken(0, base) = <<>>
         /\ \A n \in Nat \ {0} : Taken(n, base) = <<n % base>> \o Taken(n \div base, base)
<1>1. ASSUME NEW n \in Nat
      PROVE  \E ch : TakesOff(ch, n, base) /\ Taken(n, base) = ch[n]
  <2>1. Taken(n, base) = (CHOOSE ch : TakesOff(ch, n, base))[n]
    BY DEF Taken, TakesOff
  <2>2. TakesOff(CHOOSE ch : TakesOff(ch, n, base), n, base)
    BY TakesOffExists, Zenon
  <2> QED
    BY <2>1, <2>2, Zenon
<1>2. Taken(0, base) = <<>>
  <2>1. PICK ch : TakesOff(ch, 0, base) /\ Taken(0, base) = ch[0]
    BY <1>1
  <2> QED
    BY <2>1, TakesOffSteps
<1>3. ASSUME NEW n \in Nat \ {0}
      PROVE  Taken(n, base) = <<n % base>> \o Taken(n \div base, base)
  <2>1. n \in 1..n /\ n \div base \in 0..n /\ n \div base \in Nat
        /\ n \div base \in 0..n \div base
    BY DigitOff
  <2>2. PICK ch : TakesOff(ch, n, base) /\ Taken(n, base) = ch[n]
    BY <1>1
  <2>3. PICK f : TakesOff(f, n \div base, base)
                 /\ Taken(n \div base, base) = f[n \div base]
    BY <1>1, <2>1
  <2>4. ch[n] = <<n % base>> \o ch[n \div base]
    BY <2>1, <2>2, TakesOffSteps
  <2>5. ch[n \div base] = f[n \div base]
    BY <2>1, <2>2, <2>3, TakesOffAgrees
  <2> QED
    BY <2>2, <2>3, <2>4, <2>5
<1> QED
  BY <1>2, <1>3

-----------------------------------------------------------------------------
(* Numerals: what digits add up to.                                        *)

\* A digit is put behind a number.
Shifted(n, base, digit) == n * base + digit

\* The function that ValueOf is the last value of, for the first m digits.
AddsUp(v, m, digits, base) ==
  v = [k \in 0..m |-> IF k = 0 THEN 0 ELSE Shifted(v[k - 1], base, digits[k])]

LEMMA AddsUpSteps ==
  ASSUME NEW base, NEW m \in Nat, NEW digits, NEW v, AddsUp(v, m, digits, base)
  PROVE  /\ v[0] = 0
         /\ \A k \in 1..m : v[k] = Shifted(v[k - 1], base, digits[k])
<1>1. \A k \in 0..m : v[k] = IF k = 0 THEN 0 ELSE Shifted(v[k - 1], base, digits[k])
  BY Zenon DEF AddsUp
<1>2. 0 \in 0..m /\ \A k \in 1..m : k \in 0..m /\ k # 0
  OBVIOUS
<1> QED
  BY <1>1, <1>2, Zenon

LEMMA AddsUpIf ==
  ASSUME NEW base, NEW m \in Nat, NEW digits, NEW v,
         v = [k \in 0..m |-> v[k]], v[0] = 0,
         \A k \in 1..m : v[k] = Shifted(v[k - 1], base, digits[k])
  PROVE  AddsUp(v, m, digits, base)
<1>1. \A k \in 0..m : v[k] = IF k = 0 THEN 0 ELSE Shifted(v[k - 1], base, digits[k])
  <2>1. \A k \in 0..m : k = 0 \/ k \in 1..m
    OBVIOUS
  <2> QED
    BY <2>1, Zenon
<1>2. [k \in 0..m |-> v[k]]
        = [k \in 0..m |-> IF k = 0 THEN 0 ELSE Shifted(v[k - 1], base, digits[k])]
  BY <1>1, Zenon
<1> QED
  BY <1>2, Zenon DEF AddsUp

LEMMA AddsUpExists ==
  ASSUME NEW base, NEW m \in Nat, NEW digits
  PROVE  \E v : AddsUp(v, m, digits, base)
<1> DEFINE S == {n \in Nat : ~\E v : AddsUp(v, n, digits, base)}
<1>1. S = {}
  <2> SUFFICES ASSUME S # {} PROVE FALSE
    OBVIOUS
  <2>1. PICK n \in S : \A k \in S : n <= k
    <3>1. S \in SUBSET Nat
      OBVIOUS
    <3> HIDE DEF S
    <3> QED
      BY <3>1, SmallestNumber
  <2>2. n \in Nat /\ ~\E v : AddsUp(v, n, digits, base)
    OBVIOUS
  <2>3. CASE n = 0
    <3> DEFINE v == [k \in 0..n |-> 0]
    <3>1. v = [k \in 0..n |-> v[k]] /\ v[0] = 0 /\ \A k \in 1..n : FALSE
      BY <2>3
    <3> HIDE DEF v
    <3>2. AddsUp(v, n, digits, base)
      BY <2>2, <3>1, AddsUpIf
    <3> QED
      BY <2>2, <3>2
  <2>4. CASE n # 0
    <3>1. n - 1 \in Nat /\ n - 1 \notin S
      BY <2>1, <2>2, <2>4
    <3>2. PICK old : AddsUp(old, n - 1, digits, base)
      BY <3>1
    <3>3. old[0] = 0 /\ \A k \in 1..n - 1 : old[k] = Shifted(old[k - 1], base, digits[k])
      BY <3>1, <3>2, AddsUpSteps
    <3> DEFINE v == [k \in 0..n |-> IF k = n THEN Shifted(old[k - 1], base, digits[k]) ELSE old[k]]
    <3>4. \A k \in 0..n - 1 : v[k] = old[k]
      BY <2>2
    <3>5. v[n] = Shifted(old[n - 1], base, digits[n])
      BY <2>2
    <3>6. v = [k \in 0..n |-> v[k]]
      OBVIOUS
    <3> HIDE DEF v
    <3>7. ASSUME NEW k \in 1..n
          PROVE  v[k] = Shifted(v[k - 1], base, digits[k])
      <4>1. k - 1 \in 0..n - 1
        BY <2>2
      <4>2. v[k - 1] = old[k - 1]
        BY <3>4, <4>1
      <4>3. CASE k = n
        BY <3>5, <4>2, <4>3
      <4>4. CASE k # n
        <5>1. k \in 1..n - 1 /\ k \in 0..n - 1
          BY <2>2, <4>4
        <5> QED
          BY <3>3, <3>4, <4>2, <5>1
      <4> QED
        BY <4>3, <4>4
    <3>8. v[0] = 0
      BY <2>2, <2>4, <3>3, <3>4
    <3>9. AddsUp(v, n, digits, base)
      BY <2>2, <3>6, <3>7, <3>8, AddsUpIf
    <3> QED
      BY <2>2, <3>9
  <2> QED
    BY <2>3, <2>4
<1> QED
  BY <1>1

\* As far as the digits are the same, so is what they add up to.
LEMMA AddsUpAgrees ==
  ASSUME NEW base, NEW m \in Nat, NEW n \in Nat, NEW d, NEW e, NEW v, NEW w,
         AddsUp(v, m, d, base), AddsUp(w, n, e, base),
         NEW i \in 0..m, i \in 0..n, \A k \in 1..i : d[k] = e[k]
  PROVE  v[i] = w[i]
<1> DEFINE S == {j \in 0..i : v[j] # w[j]}
<1>1. S = {}
  <2> SUFFICES ASSUME S # {} PROVE FALSE
    OBVIOUS
  <2>1. PICK j \in S : \A k \in S : j <= k
    <3>1. S \in SUBSET Nat
      OBVIOUS
    <3> HIDE DEF S
    <3> QED
      BY <3>1, SmallestNumber
  <2>2. j \in 0..i /\ v[j] # w[j]
    OBVIOUS
  <2>3. /\ v[0] = 0 /\ \A k \in 1..m : v[k] = Shifted(v[k - 1], base, d[k])
        /\ w[0] = 0 /\ \A k \in 1..n : w[k] = Shifted(w[k - 1], base, e[k])
    BY AddsUpSteps
  <2>4. j # 0 /\ j \in 1..m /\ j \in 1..n /\ j \in 1..i
    BY <2>2, <2>3
  <2>5. j - 1 \in 0..i /\ ~(j <= j - 1)
    BY <2>2, <2>4
  <2>6. v[j - 1] = w[j - 1] /\ d[j] = e[j]
    BY <2>1, <2>4, <2>5
  <2>7. v[j] = Shifted(v[j - 1], base, d[j]) /\ w[j] = Shifted(w[j - 1], base, e[j])
    BY <2>3, <2>4
  <2> QED
    BY <2>2, <2>6, <2>7, Zenon
<1> QED
  BY <1>1

\* A digit more.
LEMMA ValueOfSteps ==
  ASSUME NEW base
  PROVE  /\ ValueOf(<<>>, base) = 0
         /\ \A d \in Seq(Nat), c \in Nat :
              ValueOf(Append(d, c), base) = ValueOf(d, base) * base + c
<1>1. ASSUME NEW d \in Seq(Nat)
      PROVE  \E v : AddsUp(v, Len(d), d, base) /\ ValueOf(d, base) = v[Len(d)]
  <2>1. Len(d) \in Nat
    BY LenProperties
  <2>2. ValueOf(d, base) = (CHOOSE v : AddsUp(v, Len(d), d, base))[Len(d)]
    BY Zenon DEF ValueOf, AddsUp, Shifted
  <2>3. AddsUp(CHOOSE v : AddsUp(v, Len(d), d, base), Len(d), d, base)
    BY <2>1, AddsUpExists, Zenon
  <2> QED
    BY <2>2, <2>3, Zenon
<1>2. ValueOf(<<>>, base) = 0
  <2>1. <<>> \in Seq(Nat) /\ Len(<<>>) = 0
    OBVIOUS
  <2>2. PICK v : AddsUp(v, 0, <<>>, base) /\ ValueOf(<<>>, base) = v[0]
    BY <1>1, <2>1
  <2> QED
    BY <2>2, AddsUpSteps
<1>3. ASSUME NEW d \in Seq(Nat), NEW c \in Nat
      PROVE  ValueOf(Append(d, c), base) = ValueOf(d, base) * base + c
  <2>1. PICK n, more : n = Len(d) /\ more = Append(d, c)
    OBVIOUS
  <2>2. /\ n \in Nat /\ more \in Seq(Nat) /\ Len(more) = n + 1
        /\ \A k \in 1..n : more[k] = d[k]
        /\ more[n + 1] = c
    BY <2>1, AppendProperties, LenProperties
  <2>3. PICK v : AddsUp(v, n, d, base) /\ ValueOf(d, base) = v[n]
    BY <1>1, <2>1
  <2>4. PICK w : AddsUp(w, n + 1, more, base) /\ ValueOf(more, base) = w[n + 1]
    BY <1>1, <2>2
  <2>5. n \in 0..n /\ n \in 0..n + 1 /\ n + 1 \in 1..n + 1 /\ n + 1 \in Nat /\ (n + 1) - 1 = n
    BY <2>2
  <2>6. w[n + 1] = Shifted(w[n], base, more[n + 1])
    <3>1. \A k \in 1..n + 1 : w[k] = Shifted(w[k - 1], base, more[k])
      BY <2>4, <2>5, AddsUpSteps
    <3> QED
      BY <2>5, <3>1
  <2>7. v[n] = w[n]
    <3>1. \A k \in 1..n : d[k] = more[k]
      BY <2>2
    <3> QED
      BY <2>2, <2>3, <2>4, <2>5, <3>1, AddsUpAgrees
  <2> QED
    BY <2>1, <2>2, <2>3, <2>4, <2>6, <2>7, Zenon DEF Shifted
<1> QED
  BY <1>2, <1>3

-----------------------------------------------------------------------------
(* Numerals: the digits of a number.                                       *)

LEMMA ReverseSteps ==
  ASSUME NEW s \in Seq(Nat), NEW c \in Nat
  PROVE  /\ Reverse(s) \in Seq(Nat) /\ Len(Reverse(s)) = Len(s)
         /\ <<c>> \o s \in Seq(Nat)
         /\ Reverse(<<c>> \o s) = Append(Reverse(s), c)
<1>1. PICK n : n = Len(s)
  OBVIOUS
<1>2. n \in Nat /\ \A i \in 1..n : s[i] \in Nat
  BY <1>1, LenProperties, ElementOfSeq
<1>3. PICK back : back = Reverse(s)
  OBVIOUS
<1>4. back \in Seq(Nat) /\ Len(back) = n /\ \A i \in 1..n : back[i] = s[(n - i) + 1]
  <2>1. back = [i \in 1..n |-> s[(n - i) + 1]]
    BY <1>1, <1>3 DEF Reverse
  <2>2. \A i \in 1..n : s[(n - i) + 1] \in Nat
    BY <1>2
  <2> QED
    BY <1>2, <2>1, <2>2
<1>5. PICK longer : longer = <<c>> \o s
  OBVIOUS
<1>6. /\ longer \in Seq(Nat) /\ Len(longer) = n + 1 /\ longer[1] = c
      /\ \A i \in 1..n : longer[i + 1] = s[i]
  <2>1. <<c>> \in Seq(Nat) /\ Len(<<c>>) = 1 /\ <<c>>[1] = c
    OBVIOUS
  <2>2. /\ longer \in Seq(Nat) /\ Len(longer) = Len(<<c>>) + Len(s)
        /\ \A i \in 1..Len(<<c>>) + Len(s) :
             longer[i] = IF i <= Len(<<c>>) THEN <<c>>[i] ELSE s[i - Len(<<c>>)]
    BY <1>5, <2>1, ConcatProperties
  <2>3. Len(longer) = 1 + n
        /\ \A i \in 1..1 + n : longer[i] = IF i <= 1 THEN <<c>>[i] ELSE s[i - 1]
    BY <1>1, <2>1, <2>2
  <2>4. \A i \in 1..n : longer[i + 1] = s[i]
    <3> TAKE i \in 1..n
    <3>1. i + 1 \in 1..1 + n /\ ~(i + 1 <= 1) /\ (i + 1) - 1 = i
      BY <1>2
    <3> QED
      BY <2>3, <3>1
  <2> QED
    BY <1>2, <2>1, <2>2, <2>3, <2>4
<1>7. PICK reversed : reversed = Reverse(longer)
  OBVIOUS
<1>8. /\ reversed \in Seq(Nat) /\ Len(reversed) = n + 1
      /\ \A i \in 1..n + 1 : reversed[i] = longer[(n + 1 - i) + 1]
  <2>1. reversed = [i \in 1..n + 1 |-> longer[((n + 1) - i) + 1]]
    BY <1>6, <1>7 DEF Reverse
  <2>2. \A i \in 1..n + 1 : longer[((n + 1) - i) + 1] \in Nat
    <3> TAKE i \in 1..n + 1
    <3>1. ((n + 1) - i) + 1 \in 1..n + 1
      BY <1>2
    <3> QED
      BY <1>6, <3>1, ElementOfSeq
  <2> QED
    BY <1>2, <2>1, <2>2
<1>9. PICK more : more = Append(back, c)
  OBVIOUS
<1>10. /\ more \in Seq(Nat) /\ Len(more) = n + 1
       /\ \A i \in 1..n : more[i] = back[i]
       /\ more[n + 1] = c
  BY <1>4, <1>9, AppendProperties
<1>11. \A i \in 1..n + 1 : reversed[i] = more[i]
  <2> TAKE i \in 1..n + 1
  <2>1. CASE i = n + 1
    <3>1. (n + 1 - i) + 1 = 1
      BY <1>2, <2>1
    <3> QED
      BY <1>6, <1>8, <1>10, <2>1, <3>1
  <2>2. CASE i # n + 1
    <3>1. i \in 1..n /\ (n - i) + 1 \in 1..n /\ (n + 1 - i) + 1 = ((n - i) + 1) + 1
      BY <1>2, <2>2
    <3>2. longer[((n - i) + 1) + 1] = s[(n - i) + 1]
      BY <1>6, <3>1
    <3>3. reversed[i] = s[(n - i) + 1] /\ more[i] = s[(n - i) + 1]
      BY <1>4, <1>8, <1>10, <3>1, <3>2
    <3> QED
      BY <3>3
  <2> QED
    BY <2>1, <2>2
<1>12. reversed = more
  BY <1>8, <1>10, <1>11, SeqEqual
<1> QED
  BY <1>1, <1>3, <1>4, <1>5, <1>6, <1>7, <1>9, <1>12

Digits(n, base) == Reverse(Taken(n, base))

\* The digits of a number are its last one behind those of the rest.
LEMMA DigitsSteps ==
  ASSUME NEW base \in Bases
  PROVE  /\ Taken(0, base) = <<>> /\ Digits(0, base) = <<>>
         /\ \A n \in Nat \ {0} :
              Taken(n \div base, base) \in Seq(Nat) =>
                /\ Taken(n, base) \in Seq(Nat)
                /\ Digits(n \div base, base) \in Seq(Nat)
                /\ Digits(n, base) = Append(Digits(n \div base, base), n % base)
<1>1. Taken(0, base) = <<>> /\ Digits(0, base) = <<>>
  <2>1. <<>> \in Seq(Nat) /\ Len(<<>>) = 0
    OBVIOUS
  <2>2. Len(Reverse(<<>>)) = 0 /\ Reverse(<<>>) \in Seq(Nat)
    BY <2>1, ReverseSteps
  <2>3. Reverse(<<>>) = <<>>
    BY <2>2, EmptySeq
  <2> QED
    BY <2>3, TakenSteps DEF Digits
<1>2. ASSUME NEW n \in Nat \ {0}, Taken(n \div base, base) \in Seq(Nat)
      PROVE  /\ Taken(n, base) \in Seq(Nat)
             /\ Digits(n \div base, base) \in Seq(Nat)
             /\ Digits(n, base) = Append(Digits(n \div base, base), n % base)
  <2>1. PICK s, c : s = Taken(n \div base, base) /\ c = n % base
    OBVIOUS
  <2>2. c \in Nat /\ s \in Seq(Nat)
    BY <1>2, <2>1, DigitOff
  <2>3. Taken(n, base) = <<c>> \o s
    BY <2>1, TakenSteps
  <2> QED
    BY <2>1, <2>2, <2>3, ReverseSteps DEF Digits
<1> QED
  BY <1>1, <1>2

\* They are digits, add up to the number, and none is superfluous.
Numeral(n, base) ==
  /\ Taken(n, base) \in Seq(Nat)
  /\ Digits(n, base) \in Seq(Nat)
  /\ \A i \in 1..Len(Digits(n, base)) : Digits(n, base)[i] \in 0..base - 1
  /\ ValueOf(Digits(n, base), base) = n
  /\ n # 0 => Len(Digits(n, base)) > 0 /\ Digits(n, base)[1] # 0

LEMMA DigitsAreNumeral ==
  ASSUME NEW base \in Bases, NEW n \in Nat
  PROVE  Numeral(n, base)
<1> DEFINE S == {m \in Nat : ~Numeral(m, base)}
<1>1. S = {}
  <2> SUFFICES ASSUME S # {} PROVE FALSE
    OBVIOUS
  <2>1. PICK m \in S : \A k \in S : m <= k
    <3>1. S \in SUBSET Nat
      OBVIOUS
    <3> HIDE DEF S
    <3> QED
      BY <3>1, SmallestNumber
  <2>2. m \in Nat /\ ~Numeral(m, base)
    OBVIOUS
  <2>3. CASE m = 0
    <3>1. <<>> \in Seq(Nat) /\ Len(<<>>) = 0
      OBVIOUS
    <3>2. /\ Taken(0, base) = <<>> /\ Digits(0, base) = <<>>
          /\ ValueOf(<<>>, base) = 0
      BY DigitsSteps, ValueOfSteps
    <3>3. PICK e : e = <<>>
      OBVIOUS
    <3>4. e \in Seq(Nat) /\ Len(e) = 0 /\ \A i \in 1..Len(e) : FALSE
      BY <3>1, <3>3
    <3>5. Taken(0, base) = e /\ Digits(0, base) = e /\ ValueOf(e, base) = 0
      BY <3>2, <3>3
    <3>6. Numeral(0, base)
      BY <3>4, <3>5, Zenon DEF Numeral
    <3> QED
      BY <2>2, <2>3, <3>6
  <2>4. CASE m # 0
    <3>1. PICK q, c : q = m \div base /\ c = m % base
      OBVIOUS
    <3>2. /\ q \in Nat /\ q < m /\ c \in Nat /\ c \in 0..base - 1 /\ m = q * base + c
          /\ base \in Nat
      BY <2>2, <2>4, <3>1, DigitOff
    <3>3. Numeral(q, base)
      <4>1. q \notin S
        BY <2>1, <2>2, <3>2
      <4> QED
        BY <3>2, <4>1
    <3>4. PICK d, e : d = Digits(q, base) /\ e = Digits(m, base)
      OBVIOUS
    <3>5. /\ d \in Seq(Nat) /\ \A i \in 1..Len(d) : d[i] \in 0..base - 1
          /\ ValueOf(d, base) = q
          /\ q # 0 => Len(d) > 0 /\ d[1] # 0
      BY <3>3, <3>4 DEF Numeral
    <3>6. Taken(m, base) \in Seq(Nat) /\ e = Append(d, c)
      <4>1. m \in Nat \ {0} /\ Taken(m \div base, base) \in Seq(Nat)
        BY <2>2, <2>4, <3>1, <3>3 DEF Numeral
      <4> QED
        BY <3>1, <3>4, <4>1, DigitsSteps
    <3>7. /\ e \in Seq(Nat) /\ Len(e) = Len(d) + 1 /\ Len(d) \in Nat
          /\ \A i \in 1..Len(d) : e[i] = d[i]
          /\ e[Len(d) + 1] = c
      BY <3>2, <3>5, <3>6, AppendProperties, LenProperties
    <3>8. \A i \in 1..Len(e) : e[i] \in 0..base - 1
      <4> TAKE i \in 1..Len(e)
      <4>1. i \in 1..Len(d) \/ i = Len(d) + 1
        BY <3>7
      <4> QED
        BY <3>2, <3>5, <3>7, <4>1
    <3>9. ValueOf(e, base) = m
      <4>1. ValueOf(e, base) = ValueOf(d, base) * base + c
        BY <3>2, <3>5, <3>6, ValueOfSteps
      <4> QED
        BY <3>2, <3>5, <4>1
    <3>10. Len(e) > 0 /\ e[1] # 0
      <4>1. CASE q = 0
        <5>1. Digits(0, base) = <<>> /\ Len(<<>>) = 0
          BY DigitsSteps
        <5>2. Len(d) = 0
          BY <3>4, <4>1, <5>1
        <5>3. c # 0
          BY <2>4, <3>2, <4>1
        <5> QED
          BY <3>7, <5>2, <5>3
      <4>2. CASE q # 0
        <5>1. 1 \in 1..Len(d)
          BY <3>5, <3>7, <4>2
        <5> QED
          BY <3>5, <3>7, <4>2, <5>1
      <4> QED
        BY <4>1, <4>2
    <3>11. Numeral(m, base)
      BY <3>4, <3>6, <3>7, <3>8, <3>9, <3>10 DEF Numeral
    <3> QED
      BY <2>2, <3>11
  <2> QED
    BY <2>3, <2>4
<1> QED
  BY <1>1

\* A larger number has no fewer.
LEMMA DigitsGrow ==
  ASSUME NEW base \in Bases, NEW n \in Nat, NEW m \in Nat, m <= n
  PROVE  Len(Digits(m, base)) <= Len(Digits(n, base))
<1> DEFINE L(k) == Len(Digits(k, base))
           S    == {k \in Nat : \E j \in 0..k : ~(L(j) <= L(k))}
<1>1. /\ \A k \in Nat : L(k) \in Nat
      /\ L(0) = 0
      /\ \A k \in Nat \ {0} : L(k) = L(k \div base) + 1
  <2>1. ASSUME NEW k \in Nat
        PROVE  L(k) \in Nat
    BY DigitsAreNumeral, LenProperties DEF Numeral
  <2>2. L(0) = 0
    BY DigitsSteps
  <2>3. ASSUME NEW k \in Nat \ {0}
        PROVE  L(k) = L(k \div base) + 1
    <3>1. k \div base \in Nat /\ k % base \in Nat
      BY DigitOff
    <3>2. Taken(k \div base, base) \in Seq(Nat)
      BY <3>1, DigitsAreNumeral DEF Numeral
    <3>3. /\ Digits(k \div base, base) \in Seq(Nat)
          /\ Digits(k, base) = Append(Digits(k \div base, base), k % base)
      BY <3>2, DigitsSteps
    <3> QED
      BY <3>1, <3>3, AppendProperties
  <2> QED
    BY <2>1, <2>2, <2>3
<1> HIDE DEF L
<1>2. S = {}
  <2> SUFFICES ASSUME S # {} PROVE FALSE
    OBVIOUS
  <2>1. PICK k \in S : \A j \in S : k <= j
    <3>1. S \in SUBSET Nat
      OBVIOUS
    <3> HIDE DEF S
    <3> QED
      BY <3>1, SmallestNumber
  <2>2. PICK j \in 0..k : ~(L(j) <= L(k))
    OBVIOUS
  <2>3. k \in Nat /\ j \in Nat /\ j <= k
    BY <2>2
  <2>4. j # 0 /\ k # 0
    BY <1>1, <2>2, <2>3
  <2>5. PICK p, q : p = j \div base /\ q = k \div base
    OBVIOUS
  <2>6. p \in Nat /\ q \in Nat /\ p <= q /\ q < k
    BY <2>3, <2>4, <2>5, DigitOff, QuotientGrows
  <2>7. L(j) = L(p) + 1 /\ L(k) = L(q) + 1 /\ L(p) \in Nat /\ L(q) \in Nat
    BY <1>1, <2>3, <2>4, <2>5, <2>6
  <2>8. ~(L(p) <= L(q))
    BY <2>2, <2>7
  <2>9. q \in S
    BY <2>6, <2>8
  <2> QED
    BY <2>1, <2>3, <2>6, <2>9
<1> QED
  BY <1>2 DEF L

LEMMA PositiveNumeral ==
  ASSUME NEW base \in Bases, NEW n \in Nat \ {0}
  PROVE  IsNumeral(Digits(n, base), n, base)
<1>1. PICK d : d = Digits(n, base)
  OBVIOUS
<1>2. /\ d \in Seq(Nat) /\ \A i \in 1..Len(d) : d[i] \in 0..base - 1
      /\ ValueOf(d, base) = n /\ Len(d) > 0 /\ d[1] # 0
  BY <1>1, DigitsAreNumeral DEF Numeral
<1>3. DOMAIN d = 1..Len(d) /\ d # <<>>
  BY <1>2, LenProperties
<1> QED
  BY <1>1, <1>2, <1>3 DEF IsNumeral

LEMMA ZeroNumeral ==
  ASSUME NEW base \in Bases
  PROVE  IsNumeral(<<0>>, 0, base)
<1>1. <<>> \in Seq(Nat) /\ base \in Nat
  BY DEF Bases
<1>2. Append(<<>>, 0) = <<0>>
  OBVIOUS
<1>3. ValueOf(<<0>>, base) = 0 * base + 0
  <2>1. ValueOf(Append(<<>>, 0), base) = ValueOf(<<>>, base) * base + 0
    BY <1>1, ValueOfSteps
  <2>2. ValueOf(<<>>, base) = 0
    BY ValueOfSteps
  <2> QED
    BY <1>2, <2>1, <2>2, Zenon
<1>4. ValueOf(<<0>>, base) = 0
  BY <1>1, <1>3
<1>5. DOMAIN <<0>> = {1} /\ <<0>>[1] = 0 /\ Len(<<0>>) = 1 /\ <<0>> # <<>>
  OBVIOUS
<1>6. 0 \in 0..base - 1
  BY DEF Bases
<1> QED
  BY <1>4, <1>5, <1>6 DEF IsNumeral

\* A character before the digits.
LEMMA Prefixed ==
  ASSUME NEW c \in Int, NEW d \in Seq(Nat)
  PROVE  LET run == <<c>> \o d
         IN  run[1] = c /\ Tail(run) = d /\ Len(run) = Len(d) + 1
<1>1. PICK n, run : n = Len(d) /\ run = <<c>> \o d
  OBVIOUS
<1>2. n \in Nat /\ d \in Seq(Int)
  BY <1>1, LenProperties
<1>3. /\ run \in Seq(Int) /\ Len(run) = 1 + n
      /\ \A i \in 1..1 + n : run[i] = IF i <= 1 THEN <<c>>[i] ELSE d[i - 1]
  <2>1. <<c>> \in Seq(Int) /\ Len(<<c>>) = 1
    OBVIOUS
  <2>2. /\ run \in Seq(Int) /\ Len(run) = Len(<<c>>) + Len(d)
        /\ \A i \in 1..Len(<<c>>) + Len(d) :
             run[i] = IF i <= Len(<<c>>) THEN <<c>>[i] ELSE d[i - Len(<<c>>)]
    BY <1>1, <1>2, <2>1, ConcatProperties
  <2> QED
    BY <1>1, <2>1, <2>2
<1>4. run[1] = c
  BY <1>2, <1>3
<1>5. Tail(run) = d
  <2>1. run # <<>>
    BY <1>2, <1>3
  <2>2. /\ Tail(run) \in Seq(Int) /\ Len(Tail(run)) = Len(run) - 1
        /\ \A i \in 1..Len(run) - 1 : Tail(run)[i] = run[i + 1]
    BY <1>3, <2>1, HeadTailProperties
  <2>3. PICK tail : tail = Tail(run)
    OBVIOUS
  <2>4. tail \in Seq(Int) /\ Len(tail) = n /\ \A i \in 1..n : tail[i] = run[i + 1]
    BY <1>2, <1>3, <2>2, <2>3
  <2>5. \A i \in 1..n : tail[i] = d[i]
    <3> TAKE i \in 1..n
    <3>1. i + 1 \in 1..1 + n /\ ~(i + 1 <= 1) /\ (i + 1) - 1 = i
      BY <1>2
    <3> QED
      BY <1>3, <2>4, <3>1
  <2> QED
    BY <1>1, <1>2, <2>3, <2>4, <2>5, SeqEqual
<1> QED
  BY <1>1, <1>2, <1>3, <1>4, <1>5

\* What kprintf writes.
LEMMA PrintsReadably ==
  ASSUME kprintf
  PROVE  PrintedReads'
<1>1. PICK a \in Arguments :
        printed' = [conversion |-> a.conversion, value |-> a.value,
                    run |-> CASE a.conversion = "%d" -> HandleSignedInt(a.value)
                              [] a.conversion = "%x" -> HandleUnsignedInt(a.value)
                              [] a.conversion = "%p" -> HandleAddress(a.value)]
  BY DEF kprintf
<1>2. PICK v, run : v = a.value /\ run = printed'.run
  OBVIOUS
<1>3. printed'.conversion = a.conversion /\ printed'.value = v
  BY <1>1, <1>2
<1>4. 10 \in Bases /\ 16 \in Bases
  BY DEF Bases
<1>5. PICK lowest : lowest = -(IntSize \div 2)
  OBVIOUS
<1>6. lowest \in Int /\ lowest <= 0
  BY <1>5, NumeralsAssumption
<1>7. \/ a.conversion = "%d" /\ v \in Int /\ v >= lowest
      \/ a.conversion \in {"%x", "%p"} /\ v \in Nat
  BY <1>2, <1>5, NumeralsAssumption DEF Arguments
<1>8. CASE a.conversion = "%x" /\ v \in Nat
  <2>1. run = HandleUnsignedInt(v)
    BY <1>1, <1>2, <1>8
  <2>2. run = IF v = 0 THEN <<0>> ELSE Digits(v, 10)
    BY <2>1 DEF HandleUnsignedInt, Digits
  <2>3. IsNumeral(run, v, 10)
    BY <1>4, <1>8, <2>2, PositiveNumeral, ZeroNumeral
  <2> QED
    BY <1>2, <1>3, <1>8, <2>3 DEF PrintedReads
<1>9. CASE a.conversion = "%p" /\ v \in Nat
  <2>1. run = HandleAddress(v)
    BY <1>1, <1>2, <1>9
  <2>2. run = IF v = 0 THEN <<0>> ELSE <<Nul>> \o Digits(v, 16)
    BY <2>1 DEF HandleAddress, Digits
  <2>3. v # 0 => run[1] = Nul /\ IsNumeral(Tail(run), v, 16)
    <3> SUFFICES ASSUME v # 0 PROVE run[1] = Nul /\ IsNumeral(Tail(run), v, 16)
      OBVIOUS
    <3>1. v \in Nat \ {0} /\ Nul \in Int
      BY <1>9 DEF Nul
    <3>2. Digits(v, 16) \in Seq(Nat) /\ IsNumeral(Digits(v, 16), v, 16)
      BY <1>4, <3>1, DigitsAreNumeral, PositiveNumeral DEF Numeral
    <3> QED
      BY <2>2, <3>1, <3>2, Prefixed
  <2> QED
    BY <1>2, <1>3, <1>9, <2>2, <2>3 DEF PrintedReads
<1>10. CASE a.conversion = "%d" /\ v \in Int /\ v >= lowest
  <2>1. run = HandleSignedInt(v)
    BY <1>1, <1>2, <1>10
  <2>2. CASE v >= 0
    <3>1. run = IF v = 0 THEN <<0>> ELSE Digits(v, 10)
      BY <1>10, <2>1, <2>2 DEF HandleSignedInt, Digits
    <3>2. IsNumeral(run, v, 10)
      <4>1. v = 0 \/ v \in Nat \ {0}
        BY <1>10, <2>2
      <4> QED
        BY <1>4, <3>1, <4>1, PositiveNumeral, ZeroNumeral
    <3> QED
      BY <1>2, <1>3, <1>10, <2>2, <3>2 DEF PrintedReads
  <2>3. CASE ~(v >= 0)
    <3>1. run = <<Minus>> \o Digits(IF v = lowest THEN 0 ELSE -v, 10)
      <4>1. v # 0 /\ ~(v > 0)
        BY <1>10, <2>3
      <4> QED
        BY <1>5, <2>1, <4>1, Zenon DEF HandleSignedInt, Digits
    <3>2. Minus \in Int
      BY DEF Minus
    <3>3. CASE v = lowest
      <4>1. run = <<Minus>> \o Digits(0, 10) /\ Digits(0, 10) = <<>>
        BY <1>4, <3>1, <3>3, DigitsSteps
      <4>2. <<>> \in Seq(Nat) /\ Len(<<>>) = 0
        OBVIOUS
      <4>3. run[1] = Minus /\ Len(run) = 1
        BY <3>2, <4>1, <4>2, Prefixed
      <4> QED
        BY <1>2, <1>3, <1>5, <1>10, <2>3, <3>3, <4>3 DEF PrintedReads
    <3>4. CASE v # lowest
      <4>1. PICK n : n = -v
        OBVIOUS
      <4>2. n \in Nat \ {0} /\ run = <<Minus>> \o Digits(n, 10)
        BY <1>10, <2>3, <3>1, <3>4, <4>1
      <4>3. Digits(n, 10) \in Seq(Nat) /\ IsNumeral(Digits(n, 10), n, 10)
        BY <1>4, <4>2, DigitsAreNumeral, PositiveNumeral DEF Numeral
      <4>4. run[1] = Minus /\ IsNumeral(Tail(run), n, 10)
        BY <3>2, <4>2, <4>3, Prefixed
      <4> QED
        BY <1>2, <1>3, <1>5, <1>10, <2>3, <3>4, <4>1, <4>4 DEF PrintedReads
    <3> QED
      BY <3>3, <3>4
  <2> QED
    BY <2>2, <2>3
<1> QED
  BY <1>7, <1>8, <1>9, <1>10

-----------------------------------------------------------------------------
(* Numerals: the clock.                                                    *)

\* What the clock writes: its digits and an "s".
LEMMA ClockShown ==
  ASSUME NEW t \in Nat
  PROVE  LET run == printTime(t)
             d   == Digits(t, 10)
         IN  /\ run \in Seq(Int) /\ Len(run) = Len(d) + 1 /\ Len(d) \in Nat
             /\ \A i \in 1..Len(d) : run[i] = d[i] /\ d[i] \in Nat
             /\ run[Len(d) + 1] = Second
<1>1. PICK d, n : d = Digits(t, 10) /\ n = Len(d)
  OBVIOUS
<1>2. 10 \in Bases
  BY DEF Bases
<1>3. d \in Seq(Nat) /\ n \in Nat /\ \A i \in 1..n : d[i] \in Nat
  BY <1>1, <1>2, DigitsAreNumeral, LenProperties, ElementOfSeq DEF Numeral
<1>4. d \in Seq(Int)
  BY <1>3
<1>5. Second \in Int
  BY DEF Second
<1>6. PICK c : c = Second
  OBVIOUS
<1>7. Append(d, c) = d \o <<c>>
  BY <1>4, <1>5, <1>6, AppendIsConcat
<1>8. printTime(t) = Append(d, c)
  BY <1>1, <1>6, <1>7 DEF printTime, Digits
<1>9. /\ Append(d, c) \in Seq(Int) /\ Len(Append(d, c)) = n + 1
      /\ \A i \in 1..n : Append(d, c)[i] = d[i]
      /\ Append(d, c)[n + 1] = c
  BY <1>1, <1>4, <1>5, <1>6, AppendProperties
<1> QED
  BY <1>1, <1>3, <1>6, <1>8, <1>9

\* Writing over cells leaves those behind.
LEMMA OverSteps ==
  ASSUME NEW cells \in Seq(Int), NEW run \in Seq(Int)
  PROVE  LET new == Over(cells, run)
         IN  /\ new \in Seq(Int)
             /\ Len(new) = IF Len(run) <= Len(cells) THEN Len(cells) ELSE Len(run)
             /\ \A i \in 1..Len(run) : new[i] = run[i]
<1>1. PICK m, n, left : m = Len(run) /\ n = Len(cells) /\ left = SubSeq(cells, m + 1, n)
  OBVIOUS
<1>2. m \in Nat /\ n \in Nat
  BY <1>1, LenProperties
<1>3. left \in Seq(Int) /\ Len(left) = IF m + 1 <= n THEN n - (m + 1) + 1 ELSE 0
  <2>1. \A i \in m + 1..n : cells[i] \in Int
    BY <1>1, <1>2, ElementOfSeq
  <2>2. m + 1 \in Int /\ n \in Int
    BY <1>2
  <2> QED
    BY <1>1, <2>1, <2>2, SubSeqProperties
<1>4. Len(left) \in Nat /\ m + Len(left) = IF m <= n THEN n ELSE m
  BY <1>2, <1>3
<1>5. PICK new : new = Over(cells, run)
  OBVIOUS
<1>6. new = run \o left
  BY <1>1, <1>5 DEF Over
<1>7. /\ new \in Seq(Int) /\ Len(new) = m + Len(left)
      /\ \A i \in 1..m + Len(left) : new[i] = IF i <= m THEN run[i] ELSE left[i - m]
  <2>1. /\ new \in Seq(Int) /\ Len(new) = Len(run) + Len(left)
        /\ \A i \in 1..Len(run) + Len(left) :
             new[i] = IF i <= Len(run) THEN run[i] ELSE left[i - Len(run)]
    BY <1>3, <1>6, ConcatProperties
  <2> QED
    BY <1>1, <2>1
<1>8. \A i \in 1..m : new[i] = run[i]
  BY <1>2, <1>4, <1>7
<1> QED
  BY <1>1, <1>4, <1>5, <1>7, <1>8

\* The row begins with what was written last; behind it is nothing until the number wraps,
\* from when on the row keeps the length that the highest number gave it.
NumeralsInv ==
  /\ clock \in 0..IntSize - 1 /\ wrapped \in BOOLEAN
  /\ timeRow \in Seq(Int)
  /\ \A i \in 1..Len(printTime(clock)) : timeRow[i] = printTime(clock)[i]
  /\ Len(timeRow) = IF wrapped THEN Len(printTime(IntSize - 1)) ELSE Len(printTime(clock))
  /\ PrintedReads

LEMMA NumeralsInitially == NumeralsInit => NumeralsInv
<1> SUFFICES ASSUME NumeralsInit PROVE NumeralsInv
  OBVIOUS
<1>1. clock = 0 /\ wrapped = FALSE /\ timeRow = printTime(0) /\ printed = None
  BY DEF NumeralsInit
<1>2. PrintedReads
  <2>1. printed.conversion = "none"
    BY <1>1 DEF None
  <2> QED
    BY <2>1 DEF PrintedReads
<1>3. printTime(0) \in Seq(Int) /\ 0 \in 0..IntSize - 1
  BY ClockShown, NumeralsAssumption
<1> QED
  BY <1>1, <1>2, <1>3 DEF NumeralsInv

LEMMA StepKeeps ==
  ASSUME NumeralsInv, Step
  PROVE  NumeralsInv'
<1>1. /\ clock' = (clock + 1) % IntSize
      /\ wrapped' = (wrapped \/ clock' = 0)
      /\ timeRow' = Over(timeRow, printTime(clock'))
      /\ printed' = None
  BY DEF Step
<1>2. PICK top : top = IntSize - 1
  OBVIOUS
<1>3. top \in Nat /\ IntSize = top + 1 /\ clock \in 0..top /\ clock \in Nat
  BY <1>2, NumeralsAssumption DEF NumeralsInv
<1>4. clock' = IF clock = top THEN 0 ELSE clock + 1
  <2>1. CASE clock = top
    BY <1>1, <1>3, <2>1
  <2>2. CASE clock # top
    <3>1. clock + 1 \in 0..top
      BY <1>3, <2>2
    <3> QED
      BY <1>1, <1>3, <2>2, <3>1
  <2> QED
    BY <2>1, <2>2
<1>5. clock' \in 0..top /\ clock' \in Nat
  BY <1>3, <1>4
<1>6. PICK old, new, longest :
        /\ old = printTime(clock) /\ new = printTime(clock') /\ longest = printTime(top)
  OBVIOUS
<1>7. /\ old \in Seq(Int) /\ Len(old) \in Nat
      /\ new \in Seq(Int) /\ Len(new) \in Nat
      /\ longest \in Seq(Int) /\ Len(longest) \in Nat
  BY <1>3, <1>5, <1>6, ClockShown, LenProperties
<1>8. /\ Len(new) <= Len(longest)
      /\ clock <= clock' => Len(old) <= Len(new)
  <2>1. 10 \in Bases
    BY DEF Bases
  <2>2. PICK a, b, c : a = Len(Digits(clock, 10)) /\ b = Len(Digits(clock', 10))
                       /\ c = Len(Digits(top, 10))
    OBVIOUS
  <2>3. /\ a \in Nat /\ b \in Nat /\ c \in Nat
        /\ Len(old) = a + 1 /\ Len(new) = b + 1 /\ Len(longest) = c + 1
    BY <1>3, <1>5, <1>6, <2>2, ClockShown
  <2>4. b <= c /\ (clock <= clock' => a <= b)
    <3>1. clock' <= top
      BY <1>3, <1>5
    <3> QED
      BY <1>3, <1>5, <2>1, <2>2, <3>1, DigitsGrow
  <2> QED
    BY <2>3, <2>4
<1>9. /\ timeRow \in Seq(Int) /\ Len(timeRow) = IF wrapped THEN Len(longest) ELSE Len(old)
      /\ wrapped \in BOOLEAN
  BY <1>2, <1>6 DEF NumeralsInv
<1>10. /\ timeRow' \in Seq(Int)
       /\ Len(timeRow') = IF Len(new) <= Len(timeRow) THEN Len(timeRow) ELSE Len(new)
       /\ \A i \in 1..Len(new) : timeRow'[i] = new[i]
  BY <1>1, <1>6, <1>7, <1>9, OverSteps
<1>11. Len(timeRow') = IF wrapped' THEN Len(longest) ELSE Len(new)
  <2>1. CASE wrapped
    BY <1>1, <1>7, <1>8, <1>9, <1>10, <2>1
  <2>2. CASE ~wrapped /\ clock = top
    <3>1. Len(timeRow) = Len(longest) /\ wrapped'
      BY <1>1, <1>4, <1>6, <1>9, <2>2
    <3> QED
      BY <1>7, <1>8, <1>10, <3>1
  <2>3. CASE ~wrapped /\ clock # top
    <3>1. clock' = clock + 1 /\ clock' # 0 /\ clock <= clock'
      BY <1>3, <1>4, <2>3
    <3>2. Len(timeRow) = Len(old) /\ ~wrapped' /\ Len(old) <= Len(new)
      BY <1>1, <1>8, <1>9, <2>3, <3>1
    <3> QED
      BY <1>7, <1>10, <3>2
  <2> QED
    BY <2>1, <2>2, <2>3
<1>12. PrintedReads'
  <2>1. printed'.conversion = "none"
    BY <1>1 DEF None
  <2> QED
    BY <2>1 DEF PrintedReads
<1>13. wrapped' \in BOOLEAN
  BY <1>1
<1>14. clock' \in 0..IntSize - 1
  BY <1>2, <1>5
<1> QED
  BY <1>2, <1>6, <1>10, <1>11, <1>12, <1>13, <1>14 DEF NumeralsInv

LEMMA NumeralsStep ==
  ASSUME NumeralsInv, [NumeralsNext]_numeralVars
  PROVE  NumeralsInv'
<1>1. CASE kprintf
  <2>1. UNCHANGED <<clock, wrapped, timeRow>>
    BY <1>1 DEF kprintf
  <2>2. PrintedReads'
    BY <1>1, PrintsReadably
  <2> QED
    BY <2>1, <2>2 DEF NumeralsInv
<1>2. CASE Step
  BY <1>2, StepKeeps
<1>3. CASE UNCHANGED numeralVars
  BY <1>3 DEF NumeralsInv, PrintedReads, numeralVars
<1> QED
  BY <1>1, <1>2, <1>3 DEF NumeralsNext

LEMMA RowReads ==
  ASSUME NumeralsInv
  PROVE  ClockReads
<1>1. PICK run, d, n : run = printTime(clock) /\ d = Digits(clock, 10) /\ n = Len(d)
  OBVIOUS
<1>2. PICK top : top = IntSize - 1
  OBVIOUS
<1>3. clock \in Nat /\ top \in Nat /\ clock <= top
  BY <1>2, NumeralsAssumption DEF NumeralsInv
<1>4. 10 \in Bases
  BY DEF Bases
<1>5. /\ Len(run) = n + 1 /\ n \in Nat
      /\ \A i \in 1..n : run[i] = d[i] /\ d[i] \in Nat
      /\ run[n + 1] = Second
      /\ d \in Seq(Nat)
  BY <1>1, <1>3, <1>4, ClockShown, DigitsAreNumeral DEF Numeral
<1>6. /\ timeRow \in Seq(Int) /\ \A i \in 1..n + 1 : timeRow[i] = run[i]
      /\ Len(timeRow) = IF wrapped THEN Len(printTime(top)) ELSE n + 1
      /\ wrapped \in BOOLEAN
  BY <1>1, <1>2, <1>5 DEF NumeralsInv
<1>7. Len(timeRow) \in Nat /\ n + 1 <= Len(timeRow) /\ DOMAIN timeRow = 1..Len(timeRow)
  <2>1. PICK c : c = Len(Digits(top, 10))
    OBVIOUS
  <2>2. c \in Nat /\ Len(printTime(top)) = c + 1
    BY <1>3, <2>1, ClockShown
  <2>3. n <= c
    BY <1>1, <1>3, <1>4, <2>1, DigitsGrow
  <2>4. DOMAIN timeRow = 1..Len(timeRow)
    BY <1>6, LenProperties
  <2> QED
    BY <1>5, <1>6, <2>2, <2>3, <2>4
<1>8. \A i \in 1..n : timeRow[i] = d[i] /\ timeRow[i] # Second
  BY <1>5, <1>6 DEF Second
<1>9. timeRow[n + 1] = Second
  BY <1>5, <1>6
<1> DEFINE S == {i \in DOMAIN timeRow : timeRow[i] = Second}
<1>10. PICK s : s = Min(S)
  OBVIOUS
<1>11. s = n + 1
  <2>1. n + 1 \in S
    BY <1>5, <1>7, <1>9
  <2>2. \A i \in S : i \in Nat /\ n + 1 <= i
    <3> TAKE i \in S
    <3>1. i \in 1..Len(timeRow) /\ timeRow[i] = Second
      BY <1>7
    <3>2. i \notin 1..n
      BY <1>8, <3>1
    <3> QED
      BY <1>5, <3>1, <3>2
  <2> HIDE DEF S
  <2>3. S \in SUBSET Nat /\ S # {}
    BY <2>1, <2>2
  <2>4. s \in S /\ s <= n + 1
    BY <1>10, <2>1, <2>3, SmallestNumber
  <2> QED
    BY <1>5, <2>2, <2>4
<1>12. SubSeq(timeRow, 1, n) = d
  <2>1. PICK digits : digits = SubSeq(timeRow, 1, n)
    OBVIOUS
  <2>2. \A i \in 1..n : timeRow[i] \in Int
    BY <1>5, <1>8
  <2>3. /\ digits \in Seq(Int) /\ Len(digits) = IF 1 <= n THEN n - 1 + 1 ELSE 0
        /\ \A i \in 1..n - 1 + 1 : digits[i] = timeRow[1 + i - 1]
    BY <1>5, <2>1, <2>2, SubSeqProperties
  <2>4. n - 1 + 1 = n /\ (~(1 <= n) => n = 0) /\ \A i \in 1..n : 1 + i - 1 = i
    BY <1>5
  <2>5. digits \in Seq(Int) /\ Len(digits) = n /\ \A i \in 1..n : digits[i] = d[i]
    BY <1>8, <2>3, <2>4
  <2>6. d \in Seq(Int) /\ Len(d) = n
    BY <1>1, <1>5
  <2> QED
    BY <2>1, <2>5, <2>6, SeqEqual
<1>13. IF clock = 0 THEN s = 1 ELSE IsNumeral(SubSeq(timeRow, 1, s - 1), clock, 10)
  <2>1. s - 1 = n
    BY <1>5, <1>11
  <2>2. CASE clock = 0
    <3>1. d = <<>>
      BY <1>1, <1>4, <2>2, DigitsSteps
    <3>2. n = 0
      BY <1>1, <3>1
    <3> QED
      BY <1>11, <2>2, <3>2
  <2>3. CASE clock # 0
    <3>1. IsNumeral(d, clock, 10)
      BY <1>1, <1>3, <1>4, <2>3, PositiveNumeral
    <3> QED
      BY <1>12, <2>1, <2>3, <3>1
  <2> QED
    BY <2>2, <2>3
<1>14. s = Len(timeRow) \/ wrapped
  BY <1>6, <1>11
<1>15. wrapped => Len(timeRow) = Len(printTime(IntSize - 1))
  BY <1>2, <1>6
<1> QED
  BY <1>10, <1>13, <1>14, <1>15, Zenon DEF ClockReads, S

\* The clock's row and what is printed, for every width of an int and of an address.
THEOREM NumeralsInvariance == NumeralsSpec => []NumeralsInv
<1> QED
  BY NumeralsInitially, NumeralsStep, PTL DEF NumeralsSpec

\* What kprintf prints for %d, %x and %p is a numeral of its argument, but for the lowest
\* int, of which it prints the sign alone, and the cell that %p wastes.
THEOREM PrintedReadsAlways == NumeralsSpec => []PrintedReads
<1>1. NumeralsInv => PrintedReads
  BY DEF NumeralsInv
<1> QED
  BY <1>1, NumeralsInvariance, PTL

\* The status row reads as the clock's number of seconds; only when the number has
\* wrapped is there something behind the "s".
THEOREM ClockReadsAlways == NumeralsSpec => []ClockReads
<1> QED
  BY RowReads, NumeralsInvariance, PTL
=============================================================================
