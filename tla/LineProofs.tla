----------------------------- MODULE LineProofs -----------------------------
(***************************************************************************)
(* fgets keeps the promise of LineSource, and the shell and executeFile    *)
(* execute the lines they should, for every input, every size of the       *)
(* buffers and every way the host hands the characters out.                *)
(***************************************************************************)
EXTENDS LineInput, SequenceTheorems, FiniteSetTheorems, WellFoundedInduction, TLAPS

Whole(piece) == \A i \in DOMAIN piece : piece[i] \notin EOF \cup {"nl"}

Begun == at - Len(buf)
Part(b, a) == SubSeq(source.chars, b + 1, a)

\* What fgets has in its buffer is what it took since the call began: characters that
\* neither end a line nor the input, and fewer than there is room for.
LineInv ==
  /\ source \in Inputs
  /\ at \in 0..Len(source.chars)
  /\ Begun \in 0..at /\ buf = Part(Begun, at) /\ at - Begun < Size - 1
  /\ Whole(buf)
  /\ pc = "reopen" => buf = <<>>

-----------------------------------------------------------------------------
(* Parts of a text.                                                        *)

LEMMA PartOf ==
  ASSUME NEW S, NEW s \in Seq(S), NEW b \in 0..Len(s), NEW a \in b..Len(s)
  PROVE  /\ SubSeq(s, b + 1, a) \in Seq(S) /\ Len(SubSeq(s, b + 1, a)) = a - b
         /\ \A i \in 1..(a - b) : SubSeq(s, b + 1, a)[i] = s[b + i]
<1>1. Len(s) \in Nat
  BY LenProperties
<1>2. \A i \in (b + 1)..a : s[i] \in S
  BY <1>1, ElementOfSeq
<1> QED
  BY <1>1, <1>2, SubSeqProperties

LEMMA PartOfPart ==
  ASSUME NEW S, NEW s \in Seq(S), NEW b \in 0..Len(s), NEW a \in b..Len(s)
  PROVE  LET rest == SubSeq(s, b + 1, Len(s))
         IN  /\ SubSeq(rest, 1, a - b) = SubSeq(s, b + 1, a)
             /\ SubSeq(rest, (a - b) + 1, Len(rest)) = SubSeq(s, a + 1, Len(s))
<1> DEFINE rest == SubSeq(s, b + 1, Len(s))
<1>1. Len(s) \in Nat /\ a \in Nat /\ b \in Nat /\ Len(s) \in b..Len(s) /\ Len(s) \in a..Len(s)
      /\ a \in 0..Len(s)
  BY LenProperties
<1>2. /\ rest \in Seq(S) /\ Len(rest) = Len(s) - b
      /\ \A i \in 1..(Len(s) - b) : rest[i] = s[b + i]
  BY <1>1, PartOf
<1> HIDE DEF rest
<1>3. /\ SubSeq(s, b + 1, a) \in Seq(S) /\ Len(SubSeq(s, b + 1, a)) = a - b
      /\ \A i \in 1..(a - b) : SubSeq(s, b + 1, a)[i] = s[b + i]
  BY PartOf
<1>4. /\ SubSeq(s, a + 1, Len(s)) \in Seq(S) /\ Len(SubSeq(s, a + 1, Len(s))) = Len(s) - a
      /\ \A i \in 1..(Len(s) - a) : SubSeq(s, a + 1, Len(s))[i] = s[a + i]
  BY <1>1, PartOf
<1>5. SubSeq(rest, 1, a - b) = SubSeq(s, b + 1, a)
  <2>1. 0 \in 0..Len(rest) /\ a - b \in 0..Len(rest)
    BY <1>1, <1>2
  <2>2. /\ SubSeq(rest, 0 + 1, a - b) \in Seq(S) /\ Len(SubSeq(rest, 0 + 1, a - b)) = a - b - 0
        /\ \A i \in 1..(a - b - 0) : SubSeq(rest, 0 + 1, a - b)[i] = rest[0 + i]
    BY <1>2, <2>1, PartOf
  <2>3. /\ SubSeq(rest, 1, a - b) \in Seq(S) /\ Len(SubSeq(rest, 1, a - b)) = a - b
        /\ \A i \in 1..(a - b) : SubSeq(rest, 1, a - b)[i] = s[b + i]
    BY <1>1, <1>2, <2>2
  <2> QED
    BY <1>3, <2>3, SeqEqual
<1>6. SubSeq(rest, (a - b) + 1, Len(rest)) = SubSeq(s, a + 1, Len(s))
  <2>1. a - b \in 0..Len(rest) /\ Len(rest) \in (a - b)..Len(rest)
    BY <1>1, <1>2
  <2>2. /\ SubSeq(rest, (a - b) + 1, Len(rest)) \in Seq(S)
        /\ Len(SubSeq(rest, (a - b) + 1, Len(rest))) = Len(rest) - (a - b)
        /\ \A i \in 1..(Len(rest) - (a - b)) :
             SubSeq(rest, (a - b) + 1, Len(rest))[i] = rest[(a - b) + i]
    BY <1>2, <2>1, PartOf
  <2>3. Len(rest) - (a - b) = Len(s) - a
    BY <1>1, <1>2
  <2>4. ASSUME NEW i \in 1..(Len(s) - a) PROVE rest[(a - b) + i] = s[a + i]
    <3>1. (a - b) + i \in 1..(Len(s) - b) /\ b + ((a - b) + i) = a + i
      BY <1>1
    <3> QED
      BY <1>2, <3>1
  <2>5. \A i \in 1..(Len(s) - a) :
          SubSeq(rest, (a - b) + 1, Len(rest))[i] = SubSeq(s, a + 1, Len(s))[i]
    BY <1>4, <2>2, <2>3, <2>4
  <2> HIDE DEF rest
  <2> QED
    BY <1>4, <2>2, <2>3, <2>5, SeqEqual
<1> QED
  BY <1>5, <1>6 DEF rest

\* One more character.
LEMMA PartGrows ==
  ASSUME NEW S, NEW s \in Seq(S), NEW b \in 0..Len(s), NEW a \in b..Len(s), a < Len(s)
  PROVE  /\ SubSeq(s, b + 1, a) \o <<s[a + 1]>> = SubSeq(s, b + 1, a + 1)
         /\ s[a + 1] \in S
<1>1. Len(s) \in Nat /\ a \in Nat /\ b \in Nat
  BY LenProperties
<1>2. b + 1 \in 1..Len(s) /\ a + 1 \in (b + 1)..Len(s) /\ a + 1 \in 1..Len(s)
  BY <1>1
<1>3. SubSeq(s, b + 1, a + 1) = SubSeq(s, b + 1, (a + 1) - 1) \o <<s[a + 1]>>
  BY <1>2, SubSeqRecursiveSecond
<1> QED
  BY <1>1, <1>2, <1>3, ElementOfSeq

-----------------------------------------------------------------------------
(* The host.                                                               *)

LEMMA LeastNumber ==
  ASSUME NEW S \in SUBSET Nat, S # {}
  PROVE  Min(S) \in S /\ \A n \in S : Min(S) <= n
<1>1. PICK n \in S : \A m \in S : <<m, n>> \notin OpToRel(<, Nat)
  BY NatLessThanWellFounded, WFMin
<1>2. \A m \in S : ~(m < n)
  BY <1>1 DEF OpToRel
<1>3. \A m \in S : n <= m
  BY <1>2
<1> QED
  BY <1>3 DEF Min

\* Asked for one character the host gives the next one, and none only at the end.
LEMMA OneRead ==
  ASSUME NEW s \in Inputs, NEW n \in 0..Len(s.chars), NEW c \in read(s, n, 1)
  PROVE  \/ n = Len(s.chars) /\ c = <<>>
         \/ n < Len(s.chars) /\ c = <<s.chars[n + 1]>>
<1> DEFINE rest == Rest(s, n)
<1>1. s.chars \in Seq(STRING) /\ Len(s.chars) \in Nat
  BY LineAssumption, LenProperties
<1>2. /\ rest \in Seq(STRING) /\ Len(rest) = Len(s.chars) - n
      /\ \A i \in 1..(Len(s.chars) - n) : rest[i] = s.chars[n + i]
  BY <1>1, PartOf DEF Rest
<1>3. s.kind \in {"file", "pipe", "terminal"}
  BY InputsAssumption
<1>4. CASE n = Len(s.chars)
  <2>1. rest = <<>> /\ Len(rest) = 0
    BY <1>1, <1>2, <1>4, EmptySeq
  <2>2. Min({1, 0}) = 0
    <3>1. {1, 0} \in SUBSET Nat /\ {1, 0} # {}
      OBVIOUS
    <3> QED
      BY <3>1, LeastNumber
  <2>3. SubSeq(<<>>, 1, 0) = <<>>
    BY SubSeqEmpty
  <2> HIDE DEF rest
  <2>4. CASE s.kind = "file"
    BY <1>4, <2>1, <2>2, <2>3, <2>4 DEF read, rest
  <2>5. CASE s.kind = "pipe"
    BY <1>4, <2>1, <2>2, <2>3, <2>5 DEF read, rest
  <2>6. CASE s.kind = "terminal"
    BY <1>4, <2>1, <2>2, <2>3, <2>6 DEF read, rest
  <2> QED
    BY <1>3, <2>4, <2>5, <2>6
<1>5. CASE n # Len(s.chars)
  <2>1. /\ n < Len(s.chars) /\ Len(rest) \in Nat \ {0} /\ rest # <<>>
        /\ rest[1] = s.chars[n + 1]
    BY <1>1, <1>2, <1>5
  <2>2. Min({1, Len(rest)}) = 1
    <3>1. {1, Len(rest)} \in SUBSET Nat /\ {1, Len(rest)} # {}
      BY <2>1
    <3> HIDE DEF rest
    <3> QED
      BY <2>1, <3>1, LeastNumber
  <2>3. SubSeq(rest, 1, 1) = <<s.chars[n + 1]>>
    <3> HIDE DEF rest
    <3>1. SubSeq(rest, 0 + 1, 0) \o <<rest[0 + 1]>> = SubSeq(rest, 0 + 1, 0 + 1)
      <4>1. 0 \in 0..Len(rest) /\ 0 < Len(rest)
        BY <2>1
      <4> QED
        BY <1>2, <4>1, PartGrows
    <3>2. SubSeq(rest, 1, 0) = <<>>
      BY SubSeqEmpty
    <3>3. <<>> \o <<rest[1]>> = <<rest[1]>>
      OBVIOUS
    <3>4. SubSeq(rest, 1, 1) = <<rest[1]>>
      <4>1. 0 + 1 = 1
        OBVIOUS
      <4>2. SubSeq(rest, 1, 0) \o <<rest[1]>> = SubSeq(rest, 1, 1)
        BY <3>1, <4>1, Zenon
      <4> QED
        BY <3>2, <3>3, <4>2, Zenon
    <3> QED
      BY <2>1, <3>4
  <2> HIDE DEF rest
  <2>4. CASE s.kind = "file"
    BY <2>1, <2>2, <2>3, <2>4 DEF read, rest
  <2>5. CASE s.kind = "pipe"
    <3>1. c \in {SubSeq(rest, 1, k) : k \in 1..1}
      BY <2>1, <2>2, <2>5 DEF read, rest
    <3> QED
      BY <2>1, <2>3, <3>1
  <2>6. CASE s.kind = "terminal"
    <3> DEFINE ends == {i \in DOMAIN rest : rest[i] \in {"nl", "eot"}}
    <3>1. Last(s.chars) \in {"nl", "eot"}
      BY <1>1, <2>1, <2>6, InputsAssumption
    <3>2. Len(rest) \in ends
      BY <1>1, <1>2, <2>1, <3>1, LenProperties DEF Last
    <3>3. ends \in SUBSET (Nat \ {0})
      BY <1>2, LenProperties
    <3>4. LineEnd(rest) \in Nat \ {0}
      BY <3>2, <3>3, LeastNumber DEF LineEnd
    <3>5. Min({1, LineEnd(rest)}) = 1
      <4>1. {1, LineEnd(rest)} \in SUBSET Nat /\ {1, LineEnd(rest)} # {}
        BY <3>4
      <4> QED
        BY <3>4, <4>1, LeastNumber
    <3> QED
      BY <2>1, <2>3, <2>6, <3>5 DEF read, rest
  <2> QED
    BY <1>3, <2>4, <2>5, <2>6
<1> QED
  BY <1>4, <1>5

-----------------------------------------------------------------------------
(* The invariant.                                                          *)

LEMMA SourceFacts ==
  ASSUME source \in Inputs
  PROVE  /\ source.chars \in Seq(STRING) /\ Len(source.chars) \in Nat
         /\ source.reader \in {"shell", "script"} /\ Size \in Nat \ {0, 1}
BY LineAssumption, LenProperties DEF Size

LEMMA InitLine == Init => LineInv
<1> SUFFICES ASSUME Init PROVE LineInv
  OBVIOUS
<1>1. source \in Inputs /\ at = 0 /\ buf = <<>> /\ pc # "reopen"
  BY DEF Init
<1>2. /\ source.chars \in Seq(STRING) /\ Len(source.chars) \in Nat
      /\ Size \in Nat \ {0, 1}
  BY <1>1, SourceFacts
<1>3. SubSeq(source.chars, 0 + 1, 0) = <<>>
  BY SubSeqEmpty
<1>4. Whole(<<>>)
  BY DEF Whole
<1>5. at - Len(buf) = 0
  <2>1. Len(<<>>) = 0
    OBVIOUS
  <2>2. 0 - 0 = 0
    OBVIOUS
  <2> QED
    BY <1>1, <2>1, <2>2, Zenon
<1> QED
  BY <1>1, <1>2, <1>3, <1>4, <1>5 DEF LineInv, Begun, Part

\* What a step of fgetc does to the buffer: a call that returns, and one that goes on.
LEMMA CallBegins ==
  ASSUME LineInv, NEW a \in 0..Len(source.chars), at' = a, buf' = <<>>, UNCHANGED source
  PROVE  LineInv'
<1>1. /\ source.chars \in Seq(STRING) /\ Len(source.chars) \in Nat
      /\ Size \in Nat \ {0, 1} /\ Size' = Size
  BY SourceFacts DEF LineInv, Size
<1>2. SubSeq(source.chars, a + 1, a) = <<>> /\ a \in 0..a /\ a - a < Size - 1
  BY <1>1, SubSeqEmpty
<1>3. Whole(<<>>)
  BY DEF Whole
<1>4. a - Len(<<>>) = a
  OBVIOUS
<1> QED
  BY <1>1, <1>2, <1>3, <1>4 DEF LineInv, Begun, Part

\* Where fgets is when it asks for a character.
LEMMA Asking ==
  ASSUME LineInv
  PROVE  /\ source \in Inputs /\ source.chars \in Seq(STRING) /\ Len(source.chars) \in Nat
         /\ Size \in Nat \ {0, 1} /\ at \in 0..Len(source.chars) /\ at \in Nat
         /\ Begun \in 0..at /\ Begun \in 0..Len(source.chars) /\ at \in Begun..Len(source.chars)
         /\ Begun \in Nat /\ buf = Part(Begun, at) /\ Len(buf) = at - Begun
         /\ Whole(buf) /\ Len(buf) < Size - 1
<1>1. source \in Inputs /\ at \in 0..Len(source.chars) /\ Begun \in 0..at
      /\ buf = Part(Begun, at) /\ at - Begun < Size - 1 /\ Whole(buf)
  BY DEF LineInv
<1>2. /\ source.chars \in Seq(STRING) /\ Len(source.chars) \in Nat
      /\ Size \in Nat \ {0, 1}
  BY <1>1, SourceFacts
<1>3. Begun \in 0..Len(source.chars) /\ at \in Begun..Len(source.chars)
  BY <1>1, <1>2
<1>4. Len(buf) = at - Begun
  BY <1>1, <1>2, <1>3, PartOf DEF Part
<1> QED
  BY <1>1, <1>2, <1>3, <1>4

\* The four outcomes of a round: the end, a byte that is taken for it, a piece, or another
\* character for the buffer.
AtEnd  ==
  at = Len(source.chars) /\ at' = at /\ buf' = <<>> /\ last' = <<>> /\ Take(<<>>)
Taken  == at < Len(source.chars) /\ at' = at + 1
Ended  ==
  Taken /\ source.chars[at + 1] \in EOF /\ buf' = <<>> /\ last' = <<>> /\ Take(<<>>)
Piece  ==
  /\ Taken /\ source.chars[at + 1] \notin EOF
  /\ source.chars[at + 1] = "nl" \/ Len(buf) + 1 = Size - 1
  /\ buf' = <<>> /\ last' = Part(Begun, at + 1) /\ Take(Part(Begun, at + 1))
Longer ==
  /\ Taken /\ source.chars[at + 1] \notin EOF \cup {"nl"} /\ Len(buf) + 1 # Size - 1
  /\ buf' = Part(Begun, at + 1) /\ UNCHANGED <<last, pc, executed>>

LEMMA Rounds ==
  ASSUME LineInv, fgetc
  PROVE  UNCHANGED source /\ (AtEnd \/ Ended \/ Piece \/ Longer)
<1>1. PICK c \in read(source, at, 1) : at' = at + Len(c) /\ fgets(c)
  BY DEF fgetc
<1>2. \/ at = Len(source.chars) /\ c = <<>>
      \/ at < Len(source.chars) /\ c = <<source.chars[at + 1]>>
  BY <1>1, Asking, OneRead
<1>3. UNCHANGED source
  BY DEF fgetc
<1>4. CASE at = Len(source.chars) /\ c = <<>>
  <2>1. at' = at
    BY <1>1, <1>4, Asking
  <2> QED
    BY <1>1, <1>3, <1>4, <2>1 DEF fgets, Return, NULL, AtEnd
<1>5. CASE at < Len(source.chars) /\ c = <<source.chars[at + 1]>>
  <2>1. Taken /\ c # <<>> /\ c[1] = source.chars[at + 1]
    BY <1>1, <1>5, Asking DEF Taken
  <2>2. buf \o c = Part(Begun, at + 1)
    <3>1. /\ source.chars \in Seq(STRING) /\ Begun \in 0..Len(source.chars)
          /\ at \in Begun..Len(source.chars) /\ buf = Part(Begun, at)
      BY Asking
    <3>2. SubSeq(source.chars, Begun + 1, at) \o <<source.chars[at + 1]>>
            = SubSeq(source.chars, Begun + 1, at + 1)
      BY <1>5, <3>1, PartGrows
    <3> QED
      BY <1>5, <3>1, <3>2 DEF Part
  <2>3. CASE c[1] \in EOF
    <3>1. Return(NULL)
      BY <1>1, <2>1, <2>3 DEF fgets
    <3> QED
      BY <1>3, <2>1, <2>3, <3>1 DEF Return, NULL, Ended
  <2>4. CASE c[1] \notin EOF /\ (c[1] = "nl" \/ Len(buf) + 1 = Size - 1)
    <3>1. Return(buf \o c)
      BY <1>1, <2>1, <2>4 DEF fgets
    <3> QED
      BY <1>3, <2>1, <2>2, <2>4, <3>1 DEF Return, Piece
  <2>5. CASE c[1] \notin EOF \cup {"nl"} /\ Len(buf) + 1 # Size - 1
    <3>1. buf' = buf \o c /\ UNCHANGED <<last, pc, executed>>
      BY <1>1, <2>1, <2>5 DEF fgets
    <3> QED
      BY <1>3, <2>1, <2>2, <2>5, <3>1 DEF Longer
  <2> QED
    BY <1>3, <2>3, <2>4, <2>5
<1> QED
  BY <1>2, <1>4, <1>5

\* The piece that a round completes.
LEMMA Grown ==
  ASSUME LineInv, at < Len(source.chars)
  PROVE  LET piece == Part(Begun, at + 1)
         IN  /\ piece \in Seq(STRING) /\ Len(piece) = Len(buf) + 1
             /\ \A i \in 1..Len(buf) : piece[i] = buf[i]
             /\ piece[Len(buf) + 1] = source.chars[at + 1]
<1> DEFINE piece == Part(Begun, at + 1)
<1>1. at + 1 \in Begun..Len(source.chars)
  BY Asking
<1>2. /\ piece \in Seq(STRING) /\ Len(piece) = (at + 1) - Begun
      /\ \A i \in 1..((at + 1) - Begun) : piece[i] = source.chars[Begun + i]
  BY <1>1, Asking, PartOf DEF Part
<1>3. \A i \in 1..(at - Begun) : buf[i] = source.chars[Begun + i]
  <2>1. /\ source.chars \in Seq(STRING) /\ Begun \in 0..Len(source.chars)
        /\ at \in Begun..Len(source.chars) /\ buf = Part(Begun, at)
    BY Asking
  <2>2. \A i \in 1..(at - Begun) : SubSeq(source.chars, Begun + 1, at)[i] = source.chars[Begun + i]
    BY <2>1, PartOf
  <2>3. SubSeq(source.chars, Begun + 1, at) = buf
    BY <2>1 DEF Part
  <2> QED
    BY <2>2, <2>3
<1> HIDE DEF piece
<1>4. (at + 1) - Begun = Len(buf) + 1 /\ Len(buf) = at - Begun /\ Len(buf) \in Nat
      /\ Begun + (Len(buf) + 1) = at + 1
  BY Asking
<1>5. \A i \in 1..Len(buf) : piece[i] = buf[i]
  BY <1>2, <1>3, <1>4
<1>6. piece[Len(buf) + 1] = source.chars[at + 1]
  <2>1. Len(buf) + 1 \in 1..((at + 1) - Begun)
    BY <1>4
  <2> QED
    BY <1>2, <1>4, <2>1
<1> QED
  BY <1>2, <1>4, <1>5, <1>6 DEF piece

LEMMA LongerInv ==
  ASSUME LineInv, Longer, pc # "reopen", UNCHANGED source
  PROVE  LineInv'
<1> DEFINE piece == Part(Begun, at + 1)
<1>1. /\ at < Len(source.chars) /\ at' = at + 1 /\ buf' = piece
      /\ source.chars[at + 1] \notin EOF \cup {"nl"} /\ Len(buf) + 1 # Size - 1 /\ pc' = pc
  BY DEF Longer, Taken
<1>2. /\ piece \in Seq(STRING) /\ Len(piece) = Len(buf) + 1
      /\ \A i \in 1..Len(buf) : piece[i] = buf[i]
      /\ piece[Len(buf) + 1] = source.chars[at + 1]
  BY <1>1, Grown
<1>3. Part(Begun, at + 1)' = SubSeq(source.chars, Begun' + 1, at' + 1)
  BY DEF Part
<1> HIDE DEF piece
<1>4. Begun' = Begun
  BY <1>1, <1>2, Asking DEF Begun
<1>5. buf' = Part(Begun, at)'
  BY <1>1, <1>4 DEF piece, Part
<1>6. DOMAIN buf = 1..Len(buf) /\ DOMAIN piece = 1..(Len(buf) + 1) /\ Len(buf) \in Nat
  <2>1. buf \in Seq(STRING)
    BY Asking, PartOf DEF Part
  <2> QED
    BY <1>2, <2>1, LenProperties
<1>7. Whole(piece)
  <2>1. \A i \in 1..Len(buf) : buf[i] \notin EOF \cup {"nl"}
    BY <1>6, Asking DEF Whole
  <2>2. \A i \in 1..(Len(buf) + 1) : i \in 1..Len(buf) \/ i = Len(buf) + 1
    BY <1>6
  <2> QED
    BY <1>1, <1>2, <1>6, <2>1, <2>2 DEF Whole
<1>8. /\ at' \in 0..Len(source.chars) /\ Begun \in 0..at' /\ at' - Begun < Size - 1
      /\ Size' = Size
  BY <1>1, Asking DEF Size
<1> QED
  BY <1>1, <1>4, <1>5, <1>7, <1>8, Asking DEF LineInv

LEMMA LineStep == LineInv /\ [Next]_inputVars => LineInv'
<1> SUFFICES ASSUME LineInv, [Next]_inputVars PROVE LineInv'
  OBVIOUS
<1>1. CASE fgetc
  <2>1. UNCHANGED source /\ (AtEnd \/ Ended \/ Piece \/ Longer) /\ pc # "reopen"
    BY <1>1, Rounds DEF fgetc
  <2>2. CASE AtEnd
    BY <2>1, <2>2, Asking, CallBegins DEF AtEnd
  <2>3. CASE Ended \/ Piece
    <3>1. at + 1 \in 0..Len(source.chars) /\ at' = at + 1 /\ buf' = <<>>
      BY <2>3, Asking DEF Ended, Piece, Taken
    <3> QED
      BY <2>1, <3>1, CallBegins
  <2>4. CASE Longer
    BY <2>1, <2>4, LongerInv
  <2> QED
    BY <2>1, <2>2, <2>3, <2>4
<1>2. CASE Reopen
  <2>1. 0 \in 0..Len(source.chars) /\ at' = 0 /\ buf' = <<>> /\ UNCHANGED source
    BY <1>2, Asking DEF Reopen, LineInv
  <2> QED
    BY <2>1, CallBegins
<1>3. CASE UNCHANGED inputVars
  BY <1>3 DEF inputVars, LineInv, Begun, Part, Size, Whole
<1> QED
  BY <1>1, <1>2, <1>3 DEF Next

THEOREM LineInvariance == Spec => []LineInv
BY InitLine, LineStep, PTL DEF Spec

-----------------------------------------------------------------------------
(* The promise.                                                            *)

LEMMA PromisedAtFirst ==
  Init => /\ source.reader = "shell"  => Promise(BUFFER_SIZE)!Init
          /\ source.reader = "script" => Promise(LINE_SIZE)!Init
<1> SUFFICES ASSUME Init PROVE Rest(source, at - Len(buf)) = source.chars /\ last = <<"none">>
  BY DEF Promise!Init
<1>1. source.chars \in Seq(STRING) /\ LineInv /\ at = 0 /\ buf = <<>> /\ last = <<"none">>
  BY SourceFacts, InitLine DEF Init
<1>2. at - Len(buf) = 0
  BY <1>1, Asking DEF Begun
<1>3. 0 + 1 = 1
  OBVIOUS
<1>4. SubSeq(source.chars, 1, Len(source.chars)) = source.chars
  BY <1>1, SubSeqFull
<1>5. Rest(source, 0) = source.chars
  BY <1>3, <1>4, Zenon DEF Rest
<1> QED
  BY <1>1, <1>2, <1>5, Zenon

\* The pieces and what is left, as fgets knows them.
LEMMA Left ==
  ASSUME LineInv, NEW a \in at..Len(source.chars), UNCHANGED source, at' = a, buf' = <<>>
  PROVE  LET rest == Rest(source, Begun)
             n    == a - Begun
         IN  /\ n \in 0..Len(rest)
             /\ SubSeq(rest, 1, n) = Part(Begun, a)
             /\ SubSeq(rest, n + 1, Len(rest)) = Rest(source, a)
             /\ Rest(source, Begun)' = Rest(source, a)
             /\ Len(Part(Begun, a)) = n
<1>1. a \in Begun..Len(source.chars) /\ a \in Nat
  BY Asking
<1>2. /\ SubSeq(Rest(source, Begun), 1, a - Begun) = Part(Begun, a)
      /\ SubSeq(Rest(source, Begun), (a - Begun) + 1, Len(Rest(source, Begun))) = Rest(source, a)
  BY <1>1, Asking, PartOfPart DEF Part, Rest
<1>3. Len(Rest(source, Begun)) = Len(source.chars) - Begun
  <2>1. Len(source.chars) \in Begun..Len(source.chars)
    BY Asking
  <2> QED
    BY <2>1, Asking, PartOf DEF Rest
<1>4. a - Begun \in 0..Len(Rest(source, Begun))
  BY <1>1, <1>3, Asking
<1>5. Len(Part(Begun, a)) = a - Begun
  BY <1>1, Asking, PartOf DEF Part
<1>6. Begun' = a
  <2>1. Len(<<>>) = 0 /\ a - 0 = a
    BY <1>1
  <2> QED
    BY <2>1, Zenon DEF Begun
<1>7. Rest(source, Begun)' = Rest(source, a)
  BY <1>6 DEF Rest
<1> QED
  BY <1>2, <1>4, <1>5, <1>7

\* What LineSource calls a line, and a piece that is cut.
Line(piece) ==
  /\ piece # <<>> /\ Whole(Front(piece))
  /\ piece[Len(piece)] = "nl" \/ (Len(piece) = Size - 1 /\ Whole(piece))
Cut(piece, left) ==
  \/ piece # <<>> /\ Whole(Front(piece)) /\ piece[Len(piece)] \in EOF
  \/ left = <<>> /\ Whole(piece) /\ Len(piece) < Size - 1

LEMMA Delivered ==
  ASSUME NEW size, size = Size, UNCHANGED source,
         NEW n \in 0..Len(Rest(source, Begun)), NEW piece, NEW left,
         piece = SubSeq(Rest(source, Begun), 1, n),
         left = SubSeq(Rest(source, Begun), n + 1, Len(Rest(source, Begun))),
         Len(piece) <= Size - 1, Rest(source, Begun)' = left,
         (Line(piece) /\ last' = piece) \/ (Cut(piece, left) /\ last' = <<>>)
  PROVE  Promise(size)!Next
BY DEF Promise!Next, Promise!Deliver, Promise!IsLine, Promise!IsCut, Promise!Unbroken,
       Promise!Front, Line, Cut, Whole, Front, Begun

\* A call that returns delivers.
LEMMA Returns ==
  ASSUME LineInv, AtEnd \/ Ended \/ Piece, UNCHANGED source, NEW size, size = Size
  PROVE  Promise(size)!Next
<1>1. CASE AtEnd
  <2> DEFINE n == at - Begun
             piece == Part(Begun, at)
             left == Rest(source, at)
  <2>1. at \in at..Len(source.chars) /\ at' = at /\ buf' = <<>> /\ last' = <<>>
    BY <1>1, Asking DEF AtEnd
  <2>2. /\ n \in 0..Len(Rest(source, Begun))
        /\ SubSeq(Rest(source, Begun), 1, n) = piece
        /\ SubSeq(Rest(source, Begun), n + 1, Len(Rest(source, Begun))) = left
        /\ Rest(source, Begun)' = left
    BY <2>1, Left
  <2>3. piece = buf /\ Len(piece) <= Size - 1 /\ Len(piece) < Size - 1 /\ Whole(piece)
    BY Asking
  <2>4. left = <<>>
    BY <1>1, Asking, SubSeqEmpty DEF AtEnd, Rest
  <2> HIDE DEF n, piece, left
  <2>5. Cut(piece, left)
    BY <2>3, <2>4 DEF Cut
  <2> QED
    BY <2>1, <2>2, <2>3, <2>5, Delivered
<1>2. CASE Ended \/ Piece
  <2> DEFINE a == at + 1
             n == a - Begun
             piece == Part(Begun, a)
             left == Rest(source, a)
  <2>1. a \in at..Len(source.chars) /\ at' = a /\ buf' = <<>> /\ at < Len(source.chars)
    BY <1>2, Asking DEF Ended, Piece, Taken
  <2>2. /\ n \in 0..Len(Rest(source, Begun))
        /\ SubSeq(Rest(source, Begun), 1, n) = piece
        /\ SubSeq(Rest(source, Begun), n + 1, Len(Rest(source, Begun))) = left
        /\ Rest(source, Begun)' = left
    BY <2>1, Left
  <2>3. /\ piece \in Seq(STRING) /\ Len(piece) = Len(buf) + 1
        /\ \A i \in 1..Len(buf) : piece[i] = buf[i]
        /\ piece[Len(buf) + 1] = source.chars[at + 1]
    BY <2>1, Grown
  <2> HIDE DEF a, n, piece, left
  <2>4. /\ Len(buf) \in Nat /\ Len(buf) < Size - 1 /\ buf \in Seq(STRING)
        /\ DOMAIN buf = 1..Len(buf) /\ Whole(buf) /\ Size \in Nat
    <3>1. buf \in Seq(STRING)
      BY Asking, PartOf DEF Part
    <3> QED
      BY <3>1, Asking, LenProperties
  <2>5. Front(piece) = buf
    <3>1. 0 \in 0..Len(piece) /\ Len(buf) \in 0..Len(piece)
      BY <2>3, <2>4
    <3>2. /\ SubSeq(piece, 0 + 1, Len(buf)) \in Seq(STRING)
          /\ Len(SubSeq(piece, 0 + 1, Len(buf))) = Len(buf) - 0
          /\ \A i \in 1..(Len(buf) - 0) : SubSeq(piece, 0 + 1, Len(buf))[i] = piece[0 + i]
      BY <2>3, <3>1, PartOf
    <3>3. SubSeq(piece, 0 + 1, Len(buf)) = buf
      BY <2>3, <2>4, <3>2, SeqEqual
    <3>4. Len(piece) - 1 = Len(buf) /\ 0 + 1 = 1
      BY <2>3, <2>4
    <3> QED
      BY <3>3, <3>4, Zenon DEF Front
  <2>6. piece # <<>> /\ Len(piece) <= Size - 1 /\ Whole(Front(piece))
        /\ piece[Len(piece)] = source.chars[at + 1]
    <3>1. piece # <<>>
      BY <2>3, <2>4, EmptySeq
    <3> QED
      BY <2>3, <2>4, <2>5, <3>1
  <2>7. CASE Ended
    <3>1. Cut(piece, left) /\ last' = <<>>
      BY <2>6, <2>7 DEF Cut, Ended
    <3> QED
      BY <2>2, <2>6, <3>1, Delivered
  <2>8. CASE Piece
    <3>1. /\ source.chars[at + 1] \notin EOF
          /\ source.chars[at + 1] = "nl" \/ Len(buf) + 1 = Size - 1
          /\ last' = piece
      BY <2>8 DEF Piece, piece, a
    <3>2. CASE source.chars[at + 1] = "nl"
      <4>1. Line(piece)
        BY <2>6, <3>2 DEF Line
      <4> QED
        BY <2>2, <2>6, <3>1, <4>1, Delivered
    <3>3. CASE source.chars[at + 1] # "nl"
      <4>1. Len(piece) = Size - 1
        BY <2>3, <3>1, <3>3
      <4>2. Whole(piece)
        <5>1. DOMAIN piece = 1..(Len(buf) + 1)
          BY <2>3, LenProperties
        <5>2. \A i \in 1..(Len(buf) + 1) : i \in 1..Len(buf) \/ i = Len(buf) + 1
          BY <2>4
        <5>3. \A i \in 1..Len(buf) : buf[i] \notin EOF \cup {"nl"}
          BY <2>4 DEF Whole
        <5> QED
          BY <2>3, <3>1, <3>3, <5>1, <5>2, <5>3 DEF Whole
      <4>3. Line(piece)
        BY <2>6, <4>1, <4>2 DEF Line
      <4> QED
        BY <2>2, <2>6, <3>1, <4>3, Delivered
    <3> QED
      BY <3>2, <3>3
  <2> QED
    BY <1>2, <2>7, <2>8
<1> QED
  BY <1>1, <1>2

\* What has been returned and what the caller can still get.
promised == <<Rest(source, at - Len(buf)), last>>

LEMMA Stutters ==
  ASSUME LineInv, Longer, UNCHANGED source
  PROVE  UNCHANGED promised
<1>1. Begun' = Begun
  <2>1. buf' = Part(Begun, at + 1) /\ at' = at + 1 /\ at < Len(source.chars)
    BY DEF Longer, Taken
  <2>2. Len(Part(Begun, at + 1)) = Len(buf) + 1
    BY <2>1, Grown
  <2> HIDE DEF Begun
  <2>3. (at + 1) - (Len(buf) + 1) = Begun
    BY Asking
  <2> QED
    BY <2>1, <2>2, <2>3 DEF Begun
<1>2. last' = last
  BY DEF Longer
<1> QED
  BY <1>1, <1>2 DEF promised, Begun, Rest

\* The file is opened a second time.
LEMMA Opens ==
  ASSUME LineInv, Reopen, NEW size
  PROVE  Promise(size)!Next
<1>1. /\ at' = 0 /\ buf' = buf /\ buf = <<>> /\ last' = last /\ source' = source
      /\ source.chars \in Seq(STRING)
  BY Asking DEF Reopen, LineInv
<1>2. at' - Len(buf') = 0
  <2>1. Len(<<>>) = 0 /\ 0 - 0 = 0
    OBVIOUS
  <2> QED
    BY <1>1, <2>1, Zenon
<1>3. SubSeq(source.chars, 1, Len(source.chars)) = source.chars /\ 0 + 1 = 1
  BY <1>1, SubSeqFull
<1>4. Rest(source, 0) = source.chars
  BY <1>3, Zenon DEF Rest
<1>5. Rest(source, at - Len(buf))' = source.chars
  BY <1>1, <1>2, <1>4, Zenon DEF Rest
<1> QED
  BY <1>1, <1>5 DEF Promise!Next, Promise!Open

LEMMA PromiseKept ==
  LineInv /\ [Next]_inputVars =>
    [IF source.reader = "shell" THEN Promise(BUFFER_SIZE)!Next
                                ELSE Promise(LINE_SIZE)!Next]_promised
<1> SUFFICES ASSUME LineInv, [Next]_inputVars
             PROVE  \/ IF source.reader = "shell" THEN Promise(BUFFER_SIZE)!Next
                                                  ELSE Promise(LINE_SIZE)!Next
                    \/ UNCHANGED promised
  OBVIOUS
<1>1. source.reader = "shell" => BUFFER_SIZE = Size
  BY DEF Size
<1>2. source.reader # "shell" => LINE_SIZE = Size
  BY DEF Size
<1>3. CASE fgetc
  <2>1. UNCHANGED source /\ (AtEnd \/ Ended \/ Piece \/ Longer)
    BY <1>3, Rounds
  <2>2. CASE Longer
    BY <2>1, <2>2, Stutters
  <2>3. CASE AtEnd \/ Ended \/ Piece
    BY <1>1, <1>2, <2>1, <2>3, Returns
  <2> QED
    BY <2>1, <2>2, <2>3
<1>4. CASE Reopen
  BY <1>4, Opens
<1>5. CASE UNCHANGED inputVars
  BY <1>5 DEF inputVars, promised, Rest
<1> QED
  BY <1>3, <1>4, <1>5 DEF Next

\* fgets implements LineSource, whatever is typed, piped or read from a file, however the
\* host hands it out, for the buffers of the shell and of executeFile: no call loses,
\* invents or joins characters, and what the end of the input cuts short is dropped.
THEOREM FgetsKeepsItsPromise == Spec => FgetsImplements
<1>1. Init => /\ source.reader = "shell"  => Promise(BUFFER_SIZE)!Init
              /\ source.reader = "script" => Promise(LINE_SIZE)!Init
  BY PromisedAtFirst
<1>2. Spec => [][IF source.reader = "shell" THEN Promise(BUFFER_SIZE)!Next
                                            ELSE Promise(LINE_SIZE)!Next]_promised
  BY LineInvariance, PromiseKept, PTL DEF Spec
<1> QED
  BY <1>1, <1>2, PTL DEF Spec, FgetsImplements, promised

-----------------------------------------------------------------------------
(* Where the pieces of a text end.                                         *)

LEMMA OneRemainder ==
  ASSUME NEW w \in Nat, w > 0, NEW q \in Nat, NEW r \in 0..(w - 1), NEW a, a = q * w + r
  PROVE  a % w = r
<1>1. PICK p, s : p = a \div w /\ s = a % w
  OBVIOUS
<1>2. a \in Nat
  OBVIOUS
<1>3. p \in Nat /\ s \in 0..(w - 1) /\ a = p * w + s
  BY <1>1, <1>2
<1>4. CASE p > q
  <2>1. p * w >= (q + 1) * w
    BY <1>3, <1>4
  <2>2. (q + 1) * w = q * w + w
    OBVIOUS
  <2> QED
    BY <1>3, <2>1, <2>2
<1>5. CASE p < q
  <2>1. q * w >= (p + 1) * w
    BY <1>3, <1>5
  <2>2. (p + 1) * w = p * w + w
    BY <1>3
  <2> QED
    BY <1>3, <2>1, <2>2
<1>6. CASE p = q
  BY <1>1, <1>3, <1>6
<1> QED
  BY <1>3, <1>4, <1>5, <1>6

\* Behind a multiple of w comes the next one w places on.
LEMMA NextMultiple ==
  ASSUME NEW w \in Nat, w > 0, NEW a \in Nat, a % w = 0, NEW d \in 1..w
  PROVE  (a + d) % w = 0 <=> d = w
<1>1. PICK q : q = a \div w
  OBVIOUS
<1>2. q \in Nat /\ a = q * w
  BY <1>1
<1>3. CASE d = w
  <2>1. a + d = (q + 1) * w + 0
    BY <1>2, <1>3
  <2>2. q + 1 \in Nat /\ 0 \in 0..(w - 1)
    BY <1>2
  <2> QED
    BY <1>3, <2>1, <2>2, OneRemainder
<1>4. CASE d # w
  <2>1. a + d = q * w + d /\ d \in 0..(w - 1) /\ d # 0
    BY <1>2, <1>4
  <2>2. (a + d) % w = d
    BY <1>2, <2>1, OneRemainder
  <2> QED
    BY <1>4, <2>1, <2>2
<1> QED
  BY <1>3, <1>4

LEMMA PlacesOfEnds ==
  ASSUME NEW chars \in Seq(STRING)
  PROVE  /\ Len(chars) \in Nat /\ DOMAIN chars = 1..Len(chars)
         /\ PieceEnds(chars) \in SUBSET (1..Len(chars))
         /\ \A e \in PieceEnds(chars) : e \in Nat
<1>1. Len(chars) \in Nat /\ DOMAIN chars = 1..Len(chars)
  BY LenProperties
<1>2. PieceEnds(chars) \in SUBSET (1..Len(chars))
  BY <1>1 DEF PieceEnds
<1> QED
  BY <1>1, <1>2

\* Place j is what the characters up to b are counted from: bufferfuls of them.
Counted(chars, j, b) ==
  /\ j \in 0..b /\ (j = 0 \/ chars[j] \in Breaks)
  /\ \A k \in j + 1..b : chars[k] \notin Breaks
  /\ (b - j) % (Size - 1) = 0

LEMMA CountsFromHere ==
  ASSUME NEW chars, NEW n \in Nat, n = 0 \/ chars[n] \in Breaks,
         Size - 1 \in Nat, Size - 1 > 0
  PROVE  Counted(chars, n, n)
<1>1. n \in 0..n /\ n - n = 0 /\ \A k \in n + 1..n : chars[k] \notin Breaks
  OBVIOUS
<1>2. 0 % (Size - 1) = 0
  <2> PICK w : w = Size - 1
    OBVIOUS
  <2>1. w \in Nat /\ w > 0 /\ 0 \in 0..(w - 1) /\ 0 = 0 * w + 0
    OBVIOUS
  <2> QED
    BY <2>1, OneRemainder
<1> QED
  BY <1>1, <1>2 DEF Counted

LEMMA CountedFromEnd ==
  ASSUME NEW chars \in Seq(STRING), NEW b \in 0..Len(chars), NEW j, Counted(chars, j, b),
         b # 0
  PROVE  b \in PieceEnds(chars)
<1>1. b \in DOMAIN chars /\ b \in Nat
  BY PlacesOfEnds
<1>2. /\ j \in 0..b /\ (j = 0 \/ chars[j] \in Breaks)
      /\ \A k \in j + 1..b : chars[k] \notin Breaks
      /\ (b - j) % (Size - 1) = 0
  BY DEF Counted
<1>3. CASE j = b
  BY <1>1, <1>2, <1>3 DEF PieceEnds
<1>4. CASE j # b
  <2>1. j \in 0..b - 1
    BY <1>1, <1>2, <1>4
  <2>2. \A k \in j + 1..b - 1 : chars[k] \notin Breaks
    BY <1>1, <1>2
  <2> QED
    BY <1>1, <1>2, <2>1, <2>2 DEF PieceEnds
<1> QED
  BY <1>3, <1>4

\* At an end the count goes on or begins anew.
LEMMA EndIsCounted ==
  ASSUME NEW chars \in Seq(STRING), Size - 1 \in Nat, Size - 1 > 0, NEW e \in PieceEnds(chars)
  PROVE  \E j : Counted(chars, j, e)
<1>1. e \in Nat /\ e \in 1..Len(chars)
  BY PlacesOfEnds
<1>2. CASE chars[e] \in Breaks
  <2>1. Counted(chars, e, e)
    BY <1>1, <1>2, CountsFromHere
  <2> QED
    BY <2>1
<1>3. CASE chars[e] \notin Breaks
  <2>1. PICK j \in 0..e - 1 :
          /\ j = 0 \/ chars[j] \in Breaks
          /\ \A k \in j + 1..e - 1 : chars[k] \notin Breaks
          /\ (e - j) % (Size - 1) = 0
    BY <1>3 DEF PieceEnds
  <2>2. j \in 0..e
    BY <1>1
  <2>3. \A k \in j + 1..e : chars[k] \notin Breaks
    <3> TAKE k \in j + 1..e
    <3>1. k = e \/ k \in j + 1..e - 1
      BY <1>1
    <3> QED
      BY <1>3, <2>1, <3>1
  <2> QED
    BY <2>1, <2>2, <2>3 DEF Counted
<1> QED
  BY <1>2, <1>3

\* The next end: a break, or where the buffer is full.
LEMMA NextEnd ==
  ASSUME NEW chars \in Seq(STRING), NEW b \in Nat, NEW a \in Nat, b <= a, a < Len(chars),
         NEW w, w = Size - 1, w \in Nat, w > 0, a - b < w,
         NEW j, Counted(chars, j, b),
         \A k \in b + 1..a : chars[k] \notin Breaks
  PROVE  a + 1 \in PieceEnds(chars) <=> chars[a + 1] \in Breaks \/ (a + 1) - b = w
<1>1. /\ j \in 0..b /\ (j = 0 \/ chars[j] \in Breaks)
      /\ \A k \in j + 1..b : chars[k] \notin Breaks
      /\ (b - j) % w = 0
  BY DEF Counted
<1>2. a + 1 \in DOMAIN chars
  BY PlacesOfEnds
<1>3. \A k \in j + 1..a : chars[k] \notin Breaks
  <2> TAKE k \in j + 1..a
  <2>1. k \in j + 1..b \/ k \in b + 1..a
    BY <1>1
  <2> QED
    BY <1>1, <2>1
<1>4. ((a + 1) - j) % w = 0 <=> (a + 1) - b = w
  <2>1. PICK n, d : n = b - j /\ d = (a + 1) - b
    OBVIOUS
  <2>2. n \in Nat /\ d \in 1..w /\ n % w = 0 /\ (a + 1) - j = n + d
    BY <1>1, <2>1
  <2>3. (n + d) % w = 0 <=> d = w
    BY <2>2, NextMultiple
  <2> QED
    BY <2>1, <2>2, <2>3
<1>5. CASE chars[a + 1] \in Breaks
  BY <1>2, <1>5 DEF PieceEnds
<1>6. CASE chars[a + 1] \notin Breaks
  <2>1. ASSUME (a + 1) - b = w
        PROVE  a + 1 \in PieceEnds(chars)
    <3>1. j \in 0..(a + 1) - 1 /\ \A k \in j + 1..(a + 1) - 1 : chars[k] \notin Breaks
      BY <1>1, <1>3
    <3>2. ((a + 1) - j) % (Size - 1) = 0
      <4>1. ((a + 1) - j) % w = 0
        BY <1>4, <2>1
      <4> QED
        BY <4>1, Zenon
    <3> QED
      BY <1>1, <1>2, <3>1, <3>2 DEF PieceEnds
  <2>2. ASSUME a + 1 \in PieceEnds(chars)
        PROVE  (a + 1) - b = w
    <3>1. PICK i \in 0..(a + 1) - 1 :
            /\ i = 0 \/ chars[i] \in Breaks
            /\ \A k \in i + 1..(a + 1) - 1 : chars[k] \notin Breaks
            /\ ((a + 1) - i) % (Size - 1) = 0
      BY <1>6, <2>2 DEF PieceEnds
    <3>2. ~(i < j)
      <4> SUFFICES ASSUME i < j PROVE FALSE
        OBVIOUS
      <4>1. j \in i + 1..(a + 1) - 1 /\ j # 0
        BY <1>1
      <4> QED
        BY <1>1, <3>1, <4>1
    <3>3. ~(i > j)
      <4> SUFFICES ASSUME i > j PROVE FALSE
        OBVIOUS
      <4>1. i \in j + 1..a /\ i # 0
        BY <1>1
      <4> QED
        BY <1>3, <3>1, <4>1
    <3>4. i = j
      BY <1>1, <3>2, <3>3
    <3> QED
      BY <1>4, <3>1, <3>4
  <2> QED
    BY <1>6, <2>1, <2>2
<1> QED
  BY <1>5, <1>6

\* The piece that goes from one end to the next.
LEMMA PieceFrom ==
  ASSUME NEW chars \in Seq(STRING), NEW b \in Nat, NEW e \in Nat, b < e,
         b = 0 \/ b \in PieceEnds(chars),
         \A i \in b + 1..e - 1 : i \notin PieceEnds(chars)
  PROVE  PieceTo(chars, e) = IF chars[e] \in EOF THEN NULL ELSE SubSeq(chars, b + 1, e)
<1> DEFINE S == {0} \cup {f \in PieceEnds(chars) : f < e}
<1>1. \A i \in PieceEnds(chars) : i \in Nat
  BY PlacesOfEnds
<1>2. b \in S
  OBVIOUS
<1>3. \A i \in S : i \in Nat /\ i <= b
  <2> TAKE i \in S
  <2>1. i = 0 \/ (i \in PieceEnds(chars) /\ i < e)
    OBVIOUS
  <2>2. i \in Nat /\ (i = 0 \/ (i < e /\ i \notin b + 1..e - 1))
    BY <1>1, <2>1
  <2> QED
    BY <2>2
<1> HIDE DEF S
<1>4. \E x \in S : \A y \in S : x >= y
  BY <1>2, <1>3
<1>5. Max(S) \in S /\ \A y \in S : Max(S) >= y
  <2>1. (CHOOSE x \in S : \A y \in S : x >= y) \in S
        /\ \A y \in S : (CHOOSE x \in S : \A y_1 \in S : x >= y_1) >= y
    BY <1>4, Zenon
  <2> QED
    BY <2>1 DEF Max
<1>6. PICK g : g = Max(S)
  OBVIOUS
<1>7. g = b
  <2>1. g \in Nat /\ g <= b /\ g >= b
    BY <1>2, <1>3, <1>5, <1>6
  <2> QED
    BY <2>1
<1>8. PieceTo(chars, e) = IF chars[e] \in EOF THEN NULL ELSE SubSeq(chars, g + 1, e)
  BY <1>6 DEF PieceTo, S
<1> QED
  BY <1>7, <1>8

LEMMA NoneOnTheWay ==
  ASSUME NEW S \in SUBSET Nat, NEW b \in Nat, NEW a \in Nat, b <= a,
         \A i \in b + 1..a : i \notin S
  PROVE  Till(S, a) = Till(S, b)
<1>1. \A i \in S : i <= a <=> i <= b
  <2> TAKE i \in S
  <2>1. i \in Nat /\ i \notin b + 1..a
    OBVIOUS
  <2> QED
    BY <2>1
<1> QED
  BY <1>1 DEF Till

LEMMA OneOnTheWay ==
  ASSUME NEW S \in SUBSET Nat, NEW b \in Nat, NEW e \in S, b < e,
         \A i \in b + 1..e - 1 : i \notin S
  PROVE  Till(S, e) = Till(S, b) \cup {e} /\ e \notin Till(S, b)
<1>1. \A i \in S : i <= e <=> i <= b \/ i = e
  <2> TAKE i \in S
  <2>1. i \in Nat /\ e \in Nat /\ i \notin b + 1..e - 1
    OBVIOUS
  <2> QED
    BY <2>1
<1>2. e \notin Till(S, b)
  BY DEF Till
<1> QED
  BY <1>1, <1>2 DEF Till

\* Of the places where something is up to e, when there is something at e as well.
LEMMA RanksKept ==
  ASSUME NEW T \in SUBSET Nat, IsFiniteSet(T), NEW e \in Nat, \A f \in T : f < e
  PROVE  /\ IsFiniteSet(T \cup {e}) /\ Cardinality(T) \in Nat
         /\ Cardinality(T \cup {e}) = Cardinality(T) + 1
         /\ Till(T \cup {e}, e) = T \cup {e}
         /\ \A f \in T : /\ Till(T \cup {e}, f) = Till(T, f)
                         /\ Cardinality(Till(T, f)) \in 1..Cardinality(T)
<1>1. e \notin T
  OBVIOUS
<1>2. /\ IsFiniteSet(T \cup {e}) /\ Cardinality(T) \in Nat
      /\ Cardinality(T \cup {e}) = Cardinality(T) + 1
  BY <1>1, FS_AddElement, FS_CardinalityType
<1>3. Till(T \cup {e}, e) = T \cup {e}
  <2>1. \A f \in T \cup {e} : f <= e
    OBVIOUS
  <2> QED
    BY <2>1 DEF Till
<1>4. ASSUME NEW f \in T
      PROVE  /\ Till(T \cup {e}, f) = Till(T, f)
             /\ Cardinality(Till(T, f)) \in 1..Cardinality(T)
  <2>1. f \in Nat /\ f < e
    OBVIOUS
  <2>2. Till(T \cup {e}, f) = Till(T, f)
    BY <2>1 DEF Till
  <2>3. f \in Till(T, f) /\ Till(T, f) \subseteq T
    BY <2>1 DEF Till
  <2>4. IsFiniteSet(Till(T, f)) /\ Cardinality(Till(T, f)) <= Cardinality(T)
    BY <2>3, FS_Subset
  <2>5. Cardinality(Till(T, f)) \in Nat
    BY <2>4, FS_CardinalityType
  <2>6. Cardinality(Till(T, f)) # 0
    BY <2>3, <2>4, FS_EmptySet
  <2> QED
    BY <1>2, <2>2, <2>4, <2>5, <2>6
<1> QED
  BY <1>2, <1>3, <1>4

LEMMA SameText ==
  ASSUME source' = source
  PROVE  /\ Size' = Size
         /\ PieceEnds(source.chars)' = PieceEnds(source.chars)
         /\ \A e : PieceTo(source.chars, e)' = PieceTo(source.chars, e)
<1>1. Size' = Size
  BY DEF Size
<1>2. PieceEnds(source.chars)' = PieceEnds(source.chars)
  BY <1>1 DEF PieceEnds
<1>3. ASSUME NEW e
      PROVE  PieceTo(source.chars, e)' = PieceTo(source.chars, e)
  BY <1>1 DEF PieceTo, PieceEnds
<1> QED
  BY <1>1, <1>2, <1>3

LEMMA ExecutesOne ==
  ASSUME NEW T \in SUBSET Nat, IsFiniteSet(T), NEW e \in Nat, \A f \in T : f < e,
         NEW line \in Seq(STRING), line = PieceTo(source.chars, e),
         executed \in Seq(Seq(STRING)), ExecutedAre(T),
         executed' = Append(executed, line), source' = source
  PROVE  ExecutedAre(T \cup {e})'
<1> DEFINE S == T \cup {e}
<1>1. /\ IsFiniteSet(S) /\ Cardinality(T) \in Nat
      /\ Cardinality(S) = Cardinality(T) + 1
      /\ Till(S, e) = S
      /\ \A f \in T : /\ Till(S, f) = Till(T, f)
                      /\ Cardinality(Till(T, f)) \in 1..Cardinality(T)
  BY RanksKept
<1>2. /\ Len(executed) = Cardinality(T)
      /\ \A f \in T : executed[Cardinality(Till(T, f))] = PieceTo(source.chars, f)
  BY DEF ExecutedAre
<1>3. /\ Len(executed') = Len(executed) + 1
      /\ \A k \in 1..Len(executed) : executed'[k] = executed[k]
      /\ executed'[Len(executed) + 1] = line
  BY AppendProperties
<1> HIDE DEF S
<1>4. Len(executed') = Cardinality(S)
  BY <1>1, <1>2, <1>3
<1>5. ASSUME NEW f \in S
      PROVE  executed'[Cardinality(Till(S, f))] = PieceTo(source.chars, f)
  <2>1. CASE f \in T
    <3>1. PICK k : k = Cardinality(Till(T, f))
      OBVIOUS
    <3>2. k \in 1..Len(executed) /\ Cardinality(Till(S, f)) = k
          /\ executed[k] = PieceTo(source.chars, f)
      BY <1>1, <1>2, <2>1, <3>1
    <3> QED
      BY <1>3, <3>2
  <2>2. CASE f = e
    <3>1. Cardinality(Till(S, f)) = Len(executed) + 1
      BY <1>1, <1>2, <2>2
    <3> QED
      BY <1>3, <2>2, <3>1
  <2> QED
    BY <2>1, <2>2 DEF S
<1>6. \A f : PieceTo(source.chars, f)' = PieceTo(source.chars, f)
  BY SameText
<1>7. \A f \in S : executed'[Cardinality(Till(S, f))] = PieceTo(source.chars, f)'
  BY <1>5, <1>6
<1> QED
  BY <1>4, <1>7 DEF ExecutedAre, S

LEMMA ExecutesNone ==
  ASSUME NEW T, ExecutedAre(T), UNCHANGED <<executed, source>>
  PROVE  ExecutedAre(T)'
<1>1. \A f : PieceTo(source.chars, f)' = PieceTo(source.chars, f)
  BY SameText
<1> QED
  BY <1>1 DEF ExecutedAre

-----------------------------------------------------------------------------
(* Which lines are executed.                                               *)

\* The call has begun behind an end, or at the end of all, and met none since.
Position ==
  /\ \/ \E j : Counted(source.chars, j, Begun)
     \/ Begun = at /\ at = Len(source.chars)
  /\ \A i \in Begun + 1..at : i \notin PieceEnds(source.chars)

LEMMA AnewPosition ==
  ASSUME NEW a \in Nat, at' = a, buf' = <<>>, source' = source,
         (\E j : Counted(source.chars, j, a)) \/ a = Len(source.chars)
  PROVE  Position' /\ Begun' = a
<1>1. Begun' = a
  <2>1. Len(<<>>) = 0 /\ a - 0 = a
    OBVIOUS
  <2> QED
    BY <2>1, Zenon DEF Begun
<1>2. \A i \in a + 1..a : i \notin PieceEnds(source.chars)
  OBVIOUS
<1>3. /\ PieceEnds(source.chars)' = PieceEnds(source.chars)
      /\ Size' = Size
  BY SameText
<1>4. \A i \in Begun' + 1..at' : i \notin PieceEnds(source.chars)'
  BY <1>1, <1>2, <1>3
<1>5. \/ \E j : Counted(source.chars, j, Begun)'
      \/ (Begun = at /\ at = Len(source.chars))'
  <2>1. CASE a = Len(source.chars)
    BY <1>1, <2>1
  <2>2. CASE \E j : Counted(source.chars, j, a)
    BY <1>1, <1>3, <2>2 DEF Counted
  <2> QED
    BY <2>1, <2>2
<1> QED
  BY <1>1, <1>4, <1>5 DEF Position

\* What a line is like that was not cut short.
Sound(line) ==
  /\ line \in Seq(STRING)
  /\ line # NULL => line[Len(line)] = "nl" \/ Len(line) = Size - 1

\* The three outcomes of a round, seen from the text.
TakesNothing ==
  /\ \A i \in PieceEnds(source.chars) : i <= Begun
  /\ Begun' = Len(source.chars) /\ Take(NULL)
TakesPiece(e) ==
  /\ Begun < e /\ \A i \in Begun + 1..e - 1 : i \notin PieceEnds(source.chars)
  /\ Begun' = e /\ Sound(PieceTo(source.chars, e)) /\ Take(PieceTo(source.chars, e))
GoesOn == Begun' = Begun /\ UNCHANGED <<pc, executed>>

LEMMA RoundOnText ==
  ASSUME LineInv, Position, fgetc
  PROVE  /\ source' = source /\ Position'
         /\ TakesNothing \/ (\E e \in PieceEnds(source.chars) : TakesPiece(e)) \/ GoesOn
<1> PICK chars, b, w : chars = source.chars /\ b = Begun /\ w = Size - 1
  OBVIOUS
<1>1. source' = source /\ (AtEnd \/ Ended \/ Piece \/ Longer)
  BY Rounds
<1>2. /\ chars \in Seq(STRING) /\ Len(chars) \in Nat
      /\ at \in 0..Len(chars) /\ at \in Nat /\ b \in 0..at /\ b \in Nat /\ b <= at
      /\ b \in 0..Len(chars)
      /\ buf = Part(b, at) /\ Len(buf) = at - b
      /\ Whole(buf) /\ Len(buf) < w /\ w \in Nat /\ w > 0
  BY Asking
<1>3. \A i \in b + 1..at : i \notin PieceEnds(chars)
  BY DEF Position
<1>4. \A e \in PieceEnds(chars) : e \in Nat /\ e \in 1..Len(chars)
  BY <1>2, PlacesOfEnds
<1>5. \A k \in b + 1..at : chars[k] \notin Breaks
  <2> TAKE k \in b + 1..at
  <2>1. PICK i : i = k - b
    OBVIOUS
  <2>2. i \in 1..(at - b) /\ b + i = k
    BY <1>2, <2>1
  <2>3. at \in b..Len(chars)
    BY <1>2
  <2>4. buf \in Seq(STRING) /\ \A n \in 1..(at - b) : SubSeq(chars, b + 1, at)[n] = chars[b + n]
    BY <1>2, <2>3, PartOf DEF Part
  <2>5. buf = SubSeq(chars, b + 1, at)
    BY <1>2 DEF Part
  <2>6. buf[i] = chars[k]
    BY <2>2, <2>4, <2>5
  <2>7. i \in DOMAIN buf
    BY <1>2, <2>2, <2>4, LenProperties
  <2> QED
    BY <1>2, <2>6, <2>7 DEF Whole, Breaks
<1>6. CASE AtEnd
  <2>1. at = Len(chars) /\ at' = at /\ buf' = <<>> /\ Take(<<>>)
    BY <1>6 DEF AtEnd
  <2>2. Position' /\ Begun' = at
    BY <1>1, <1>2, <2>1, AnewPosition
  <2>3. \A i \in PieceEnds(chars) : i <= b
    <3> TAKE i \in PieceEnds(chars)
    <3>1. i \in Nat /\ i <= at /\ i \notin b + 1..at
      BY <1>2, <1>3, <1>4, <2>1
    <3> QED
      BY <1>2, <3>1
  <2> QED
    BY <1>1, <2>1, <2>2, <2>3 DEF TakesNothing, NULL
\* Otherwise it has been counted.
<1>7. ASSUME at < Len(chars)
      PROVE  /\ \E j : Counted(chars, j, b)
             /\ at + 1 \in PieceEnds(chars) <=> chars[at + 1] \in Breaks \/ Len(buf) + 1 = w
             /\ b = 0 \/ b \in PieceEnds(chars)
  <2>1. \E j : Counted(chars, j, b)
    BY <1>2, <1>7 DEF Position
  <2>2. PICK j : Counted(chars, j, b)
    BY <2>1
  <2>3. at + 1 \in PieceEnds(chars) <=> chars[at + 1] \in Breaks \/ (at + 1) - b = w
    <3>1. at - b < w
      BY <1>2
    <3> QED
      BY <1>2, <1>5, <1>7, <2>2, <3>1, NextEnd
  <2>4. (at + 1) - b = Len(buf) + 1
    BY <1>2
  <2>5. b = 0 \/ b \in PieceEnds(chars)
    BY <1>2, <2>2, CountedFromEnd
  <2> QED
    BY <2>1, <2>3, <2>4, <2>5
<1>8. CASE Ended \/ Piece
  <2> PICK e : e = at + 1
    OBVIOUS
  <2>1. at < Len(chars) /\ at' = e /\ buf' = <<>> /\ (chars[e] \in Breaks \/ Len(buf) + 1 = w)
    BY <1>8 DEF Ended, Piece, Taken, Breaks
  <2>2. e \in PieceEnds(chars) /\ (b = 0 \/ b \in PieceEnds(chars))
    BY <1>7, <2>1
  <2>3. e \in Nat /\ b < e /\ e - 1 = at
    BY <1>2
  <2>4. \A i \in b + 1..e - 1 : i \notin PieceEnds(chars)
    BY <1>3, <2>3
  <2>5. \E j : Counted(chars, j, e)
    BY <1>2, <2>2, EndIsCounted
  <2>6. Position' /\ Begun' = e
    BY <1>1, <2>1, <2>3, <2>5, AnewPosition
  <2>7. PieceTo(chars, e) = IF chars[e] \in EOF THEN NULL ELSE SubSeq(chars, b + 1, e)
    <3>1. chars \in Seq(STRING) /\ b \in Nat
      BY <1>2
    <3> QED
      BY ONLY <2>2, <2>3, <2>4, <3>1, PieceFrom
  <2>8. CASE Ended
    <3>1. chars[e] \in EOF /\ Take(<<>>)
      BY <2>8 DEF Ended
    <3>2. PieceTo(chars, e) = <<>>
      BY <2>7, <3>1 DEF NULL
    <3>3. Sound(<<>>)
      BY EmptySeq DEF Sound, NULL
    <3> QED
      BY <1>1, <2>2, <2>3, <2>4, <2>6, <3>1, <3>2, <3>3 DEF TakesPiece
  <2>9. CASE Piece
    <3>1. /\ chars[e] \notin EOF /\ Take(Part(b, e))
          /\ chars[e] = "nl" \/ Len(buf) + 1 = w
      BY <2>9 DEF Piece
    <3>2. PieceTo(chars, e) = Part(b, e)
      BY <2>7, <3>1 DEF Part
    <3>3. /\ Part(b, e) \in Seq(STRING) /\ Len(Part(b, e)) = Len(buf) + 1
          /\ Part(b, e)[Len(buf) + 1] = chars[e]
      BY <2>1, Grown
    <3>4. Sound(Part(b, e))
      BY <3>1, <3>3 DEF Sound
    <3> QED
      BY <1>1, <2>2, <2>3, <2>4, <2>6, <3>1, <3>2, <3>4 DEF TakesPiece
  <2> QED
    BY <1>8, <2>8, <2>9
<1>9. CASE Longer
  <2>1. /\ at < Len(chars) /\ at' = at + 1 /\ buf' = Part(b, at + 1)
        /\ chars[at + 1] \notin EOF \cup {"nl"} /\ Len(buf) + 1 # w
        /\ UNCHANGED <<pc, executed>>
    BY <1>9 DEF Longer, Taken
  <2>2. Begun' = b
    <3>1. Len(buf') = Len(buf) + 1
      BY <2>1, Grown
    <3>2. at' - Len(buf') = b
      BY <1>2, <2>1, <3>1
    <3> QED
      BY <3>2 DEF Begun
  <2>3. at + 1 \notin PieceEnds(chars) /\ \E j : Counted(chars, j, b)
    BY <1>7, <2>1 DEF Breaks
  <2>4. \A i \in b + 1..at + 1 : i \notin PieceEnds(chars)
    <3> TAKE i \in b + 1..at + 1
    <3>1. i \in b + 1..at \/ i = at + 1
      BY <1>2
    <3> QED
      BY <1>3, <2>3, <3>1
  <2>5. PieceEnds(source.chars)' = PieceEnds(chars) /\ Size' = Size
    BY <1>1, SameText
  <2>6. \A i \in Begun' + 1..at' : i \notin PieceEnds(source.chars)'
    BY <2>1, <2>2, <2>4, <2>5
  <2>7. \E j : Counted(source.chars, j, Begun)'
    BY <1>1, <2>2, <2>3, <2>5 DEF Counted
  <2>8. Position'
    BY <2>6, <2>7 DEF Position
  <2> QED
    BY <1>1, <2>1, <2>2, <2>8 DEF GoesOn
<1> QED
  BY <1>1, <1>6, <1>8, <1>9

ExitTill(n) == \E e \in Till(PieceEnds(source.chars), n) : IsExit(PieceTo(source.chars, e))

ShellLines ==
  /\ pc \in {"prompt", "exited"}
  /\ ExecutedAre(Till(Typed(source.chars), Begun))
  /\ pc = "exited" <=> ExitTill(Begun)

\* A script is not over with this line.
GoesBehind(line) == ~Blank(line) /\ ~CutAway(line)

ScriptLines ==
  LET chars == source.chars
  IN  /\ pc \in {"header", "reopen", "again", "script", "done", "replaced", "crashed"}
      /\ pc \in {"header", "again"} => Begun = 0
      /\ pc \in {"reopen", "again", "script"} => OwnScript
      /\ pc \notin {"script", "done"} => executed = <<>>
      /\ pc = "script" =>
           /\ ExecutedAre(Till(Scripted(chars), Begun))
           /\ \E f \in PieceEnds(chars) : f <= Begun
           /\ \A f \in PieceEnds(chars) : f <= Begun => GoesBehind(PieceTo(chars, f))
      /\ pc = "done" => ExecutedAre(IF OwnScript THEN Scripted(chars) ELSE {})
      /\ pc = "crashed" =>
           \A e \in DOMAIN chars : FirstEnd(chars, e) => PieceTo(chars, e) = NULL

LinesInv ==
  /\ LineInv /\ Position /\ executed \in Seq(Seq(STRING))
  /\ source.reader = "shell"  => ShellLines
  /\ source.reader = "script" => ScriptLines

LEMMA SameCommands ==
  ASSUME source' = source
  PROVE  /\ Typed(source.chars)' = Typed(source.chars)
         /\ Scripted(source.chars)' = Scripted(source.chars)
         /\ OwnScript' <=> OwnScript
         /\ \A e : FirstEnd(source.chars, e)' <=> FirstEnd(source.chars, e)
<1> PICK chars : chars = source.chars
  OBVIOUS
<1>1. PieceEnds(source.chars)' = PieceEnds(chars)
  BY SameText
<1>2. \A e : PieceTo(source.chars, e)' = PieceTo(chars, e)
  BY SameText
<1>3. Typed(source.chars)' = Typed(source.chars)
  BY <1>1, <1>2 DEF Typed, Blank, NULL, IsExit
<1>4. Scripted(source.chars)' = Scripted(source.chars)
  BY <1>1, <1>2 DEF Scripted, Blank, CutAway, NULL
<1>5. \A e : FirstEnd(source.chars, e)' <=> FirstEnd(source.chars, e)
  BY <1>1 DEF FirstEnd
<1>6. OwnScript' <=> OwnScript
  BY <1>2, <1>5 DEF OwnScript
<1> QED
  BY <1>3, <1>4, <1>5, <1>6

\* Commands are among the ends, so there are finitely many and they are numbers.
LEMMA CommandsAreEnds ==
  ASSUME NEW chars \in Seq(STRING), NEW S, S = Typed(chars) \/ S = Scripted(chars)
  PROVE  /\ S \in SUBSET Nat /\ S \in SUBSET PieceEnds(chars)
         /\ \A n : Till(S, n) \in SUBSET Nat /\ IsFiniteSet(Till(S, n))
<1>1. S \in SUBSET PieceEnds(chars)
  BY DEF Typed, Scripted
<1>2. Len(chars) \in Nat /\ PieceEnds(chars) \in SUBSET (1..Len(chars))
  BY PlacesOfEnds
<1>3. S \in SUBSET (1..Len(chars)) /\ S \in SUBSET Nat
  BY <1>1, <1>2
<1>4. IsFiniteSet(1..Len(chars))
  BY <1>2, FS_Interval
<1>5. ASSUME NEW n
      PROVE  Till(S, n) \in SUBSET Nat /\ IsFiniteSet(Till(S, n))
  <2>1. Till(S, n) \in SUBSET (1..Len(chars))
    BY <1>3 DEF Till
  <2> QED
    BY <1>3, <1>4, <2>1, FS_Subset DEF Till
<1> QED
  BY <1>1, <1>3, <1>5

\* A line is executed, or passed over, and the commands up to here are those executed.
LEMMA CommandExecuted ==
  ASSUME source.chars \in Seq(STRING), source' = source,
         executed \in Seq(Seq(STRING)),
         NEW S, S = Typed(source.chars) \/ S = Scripted(source.chars),
         NEW b \in Nat, NEW e \in S, b < e,
         \A i \in b + 1..e - 1 : i \notin PieceEnds(source.chars),
         PieceTo(source.chars, e) \in Seq(STRING),
         executed' = Append(executed, PieceTo(source.chars, e)),
         ExecutedAre(Till(S, b))
  PROVE  ExecutedAre(Till(S, e))' /\ executed' \in Seq(Seq(STRING))
<1> PICK T : T = Till(S, b)
  OBVIOUS
<1> PICK line : line = PieceTo(source.chars, e)
  OBVIOUS
<1>1. /\ S \in SUBSET Nat /\ S \in SUBSET PieceEnds(source.chars)
      /\ T \in SUBSET Nat /\ IsFiniteSet(T)
  BY CommandsAreEnds
<1>2. Till(S, e) = T \cup {e}
  <2>1. \A i \in b + 1..e - 1 : i \notin S
    BY <1>1
  <2>2. S \in SUBSET Nat
    BY <1>1
  <2>3. e \in S /\ b \in Nat /\ b < e
    OBVIOUS
  <2>4. Till(S, e) = Till(S, b) \cup {e} /\ e \notin Till(S, b)
    BY ONLY <2>1, <2>2, <2>3, OneOnTheWay
  <2> QED
    BY <2>4
<1>3. \A f \in T : f < e
  BY <1>1 DEF Till
<1>4. e \in Nat /\ line \in Seq(STRING) /\ executed' = Append(executed, line)
  BY <1>1
<1>5. ExecutedAre(T)
  OBVIOUS
<1>6. ExecutedAre(T \cup {e})'
  BY <1>1, <1>3, <1>4, <1>5, ExecutesOne
<1>7. executed' \in Seq(Seq(STRING))
  BY <1>4, AppendProperties
<1> QED
  BY <1>2, <1>6, <1>7

LEMMA NoCommandPassed ==
  ASSUME source.chars \in Seq(STRING), source' = source, executed' = executed,
         NEW S, S = Typed(source.chars) \/ S = Scripted(source.chars),
         NEW b \in Nat, NEW e \in Nat, b <= e,
         \A i \in b + 1..e : i \notin S,
         ExecutedAre(Till(S, b))
  PROVE  ExecutedAre(Till(S, e))'
<1>1. S \in SUBSET Nat
  BY CommandsAreEnds
<1>2. Till(S, e) = Till(S, b)
  BY <1>1, NoneOnTheWay
<1> PICK T : T = Till(S, b)
  OBVIOUS
<1>3. ExecutedAre(T)
  OBVIOUS
<1>4. ExecutedAre(T)'
  BY <1>3, ExecutesNone
<1> QED
  BY <1>2, <1>4

\* The shell's loop, with what a round gave it.
LEMMA ShellRound ==
  ASSUME LinesInv, source.reader = "shell", fgetc
  PROVE  ShellLines' /\ executed' \in Seq(Seq(STRING))
<1> PICK chars, b, S : chars = source.chars /\ b = Begun /\ S = Typed(source.chars)
  OBVIOUS
<1>1. /\ LineInv /\ Position /\ ShellLines /\ executed \in Seq(Seq(STRING))
      /\ chars \in Seq(STRING) /\ Len(chars) \in Nat /\ b \in Nat /\ b <= Len(chars)
  <2>1. LineInv /\ Position /\ ShellLines /\ executed \in Seq(Seq(STRING))
    BY DEF LinesInv
  <2> QED
    BY <2>1, Asking
<1>2. /\ pc \in {"prompt", "exited"} /\ ExecutedAre(Till(S, b))
      /\ pc = "exited" <=> ExitTill(b)
  BY <1>1 DEF ShellLines
<1>3. pc = "prompt" /\ source' = source
  BY <1>2 DEF fgetc
<1>4. /\ S \in SUBSET Nat /\ S \in SUBSET PieceEnds(chars)
      /\ PieceEnds(chars) \in SUBSET (1..Len(chars))
      /\ \A e \in PieceEnds(chars) : e \in Nat
  <2>1. S = Typed(chars)
    OBVIOUS
  <2>2. S \in SUBSET Nat /\ S \in SUBSET PieceEnds(chars)
    BY <1>1, <2>1, CommandsAreEnds
  <2>3. /\ PieceEnds(chars) \in SUBSET (1..Len(chars))
        /\ \A e \in PieceEnds(chars) : e \in Nat
    BY <1>1, PlacesOfEnds
  <2> QED
    BY <2>2, <2>3
<1>5. ASSUME NEW n \in Nat, Begun' = n, ExecutedAre(Till(S, n))', pc' \in {"prompt", "exited"},
             pc' = "exited" <=> ExitTill(n)
      PROVE  ShellLines'
  <2>1. Typed(source.chars)' = S
    BY <1>3, SameCommands
  <2>2. ExecutedAre(Till(Typed(source.chars), Begun))'
    BY <1>5, <2>1 DEF ExecutedAre
  <2>3. /\ PieceEnds(source.chars)' = PieceEnds(source.chars)
        /\ \A e : PieceTo(source.chars, e)' = PieceTo(source.chars, e)
    BY <1>3, SameText
  <2>4. ExitTill(Begun)' <=> ExitTill(n)
    BY <1>5, <2>3 DEF ExitTill, IsExit
  <2> QED
    BY <1>5, <2>2, <2>4 DEF ShellLines
<1>6. ASSUME NEW line, Take(line)
      PROVE  shell_loop(line)
  BY <1>3, <1>6 DEF Take
<1>7. CASE TakesNothing
  <2>1. /\ \A i \in PieceEnds(chars) : i <= b
        /\ Begun' = Len(chars) /\ Take(NULL)
    BY <1>7 DEF TakesNothing
  <2>2. shell_loop(NULL)
    BY <1>6, <2>1
  <2>3. NULL # <<"exit", "nl">>
    BY DEF NULL
  <2>4. pc' = pc /\ executed' = executed
    BY <2>2, <2>3 DEF shell_loop, Blank
  <2>5. \A i \in b + 1..Len(chars) : i \notin PieceEnds(chars)
    BY <1>1, <1>4, <2>1
  <2>6. ExecutedAre(Till(S, Len(chars)))'
    <3>1. \A i \in b + 1..Len(chars) : i \notin S
      BY <1>4, <2>5
    <3> QED
      BY <1>1, <1>2, <1>3, <2>4, <3>1, NoCommandPassed
  <2>7. Till(PieceEnds(chars), Len(chars)) = Till(PieceEnds(chars), b)
    <3>1. PieceEnds(chars) \in SUBSET Nat
      BY <1>4
    <3> QED
      BY <1>1, <2>5, <3>1, NoneOnTheWay
  <2>8. ExitTill(Len(chars)) <=> ExitTill(b)
    BY <2>7 DEF ExitTill
  <2> QED
    BY <1>1, <1>2, <1>5, <2>1, <2>4, <2>6, <2>8
<1>8. CASE \E e \in PieceEnds(chars) : TakesPiece(e)
  <2>1. PICK e \in PieceEnds(chars) : TakesPiece(e)
    BY <1>8
  <2> PICK line : line = PieceTo(chars, e)
    OBVIOUS
  <2>2. /\ e \in Nat /\ b < e /\ \A i \in b + 1..e - 1 : i \notin PieceEnds(chars)
        /\ Begun' = e /\ line \in Seq(STRING) /\ Take(line)
    BY <1>4, <2>1 DEF TakesPiece, Sound
  <2>3. shell_loop(line)
    BY <1>6, <2>2
  <2>4. Till(PieceEnds(chars), e) = Till(PieceEnds(chars), b) \cup {e}
    <3>1. PieceEnds(chars) \in SUBSET Nat
      BY <1>4
    <3> QED
      BY <1>1, <2>2, <3>1, OneOnTheWay
  <2>5. ~ExitTill(b)
    BY <1>2, <1>3
  <2>6. ExitTill(e) <=> IsExit(line)
    BY <2>4, <2>5 DEF ExitTill
  <2>7. e \in S <=> ~Blank(line) /\ ~IsExit(line)
    <3>1. \A f \in PieceEnds(chars) : f <= e => f = e \/ ~IsExit(PieceTo(chars, f))
      BY <2>4, <2>5 DEF ExitTill, Till
    <3>2. e <= e
      BY <2>2
    <3> QED
      BY <3>1, <3>2 DEF Typed
  <2>8. CASE e \in S
    <3>1. pc' = pc /\ executed' = Append(executed, line)
      BY <2>3, <2>7, <2>8 DEF shell_loop, IsExit
    <3>2. ExecutedAre(Till(S, e))' /\ executed' \in Seq(Seq(STRING))
      BY <1>1, <1>2, <1>3, <2>2, <2>8, <3>1, CommandExecuted
    <3> QED
      BY <1>3, <1>5, <2>2, <2>6, <2>7, <2>8, <3>1, <3>2
  <2>9. CASE e \notin S
    <3>1. executed' = executed /\ pc' = IF IsExit(line) THEN "exited" ELSE pc
      BY <2>3, <2>7, <2>9 DEF shell_loop, IsExit
    <3>2. \A i \in b + 1..e : i \notin S
      <4> TAKE i \in b + 1..e
      <4>1. i = e \/ i \in b + 1..e - 1
        BY <1>1, <2>2
      <4> QED
        BY <1>4, <2>2, <2>9, <4>1
    <3>3. ExecutedAre(Till(S, e))'
      BY <1>1, <1>2, <1>3, <2>2, <3>1, <3>2, NoCommandPassed
    <3> QED
      BY <1>1, <1>3, <1>5, <2>2, <2>6, <3>1, <3>3
  <2> QED
    BY <2>8, <2>9
<1>9. CASE GoesOn
  <2>1. Begun' = b /\ pc' = pc /\ executed' = executed
    BY <1>9 DEF GoesOn
  <2>2. ExecutedAre(Till(S, b))'
    <3> PICK T : T = Till(S, b)
      OBVIOUS
    <3>1. ExecutedAre(T)'
      BY <1>2, <1>3, <2>1, ExecutesNone
    <3> QED
      BY <3>1
  <2> QED
    BY <1>1, <1>2, <1>5, <2>1, <2>2
<1> QED
  BY <1>1, <1>7, <1>8, <1>9, RoundOnText

\* A file, with what a round gave its reader.
LEMMA FileRead ==
  ASSUME LinesInv, source.reader = "script", fgetc
  PROVE  /\ ScriptLines /\ executed \in Seq(Seq(STRING)) /\ source' = source
         /\ pc \in {"header", "again", "script"} /\ Size > 3
         /\ source.chars \in Seq(STRING) /\ Begun \in Nat /\ Begun <= Len(source.chars)
         /\ \A e \in PieceEnds(source.chars) : e \in Nat /\ e \in 1..Len(source.chars)
         /\ TakesNothing \/ (\E e \in PieceEnds(source.chars) : TakesPiece(e)) \/ GoesOn
<1>1. LineInv /\ Position /\ ScriptLines /\ executed \in Seq(Seq(STRING))
  BY DEF LinesInv
<1>2. TakesNothing \/ (\E e \in PieceEnds(source.chars) : TakesPiece(e)) \/ GoesOn
  BY <1>1, RoundOnText
<1>3. /\ source.chars \in Seq(STRING) /\ Len(source.chars) \in Nat
      /\ Begun \in Nat /\ Begun <= Len(source.chars)
  BY <1>1, Asking
<1>4. \A e \in PieceEnds(source.chars) : e \in Nat /\ e \in 1..Len(source.chars)
  BY <1>3, PlacesOfEnds
<1>5. Size > 3
  <2>1. Size = LINE_SIZE
    BY DEF Size
  <2> QED
    BY <2>1, LineAssumption
<1>6. pc \in {"header", "again", "script"}
  BY <1>1 DEF fgetc, ScriptLines
<1>7. source' = source
  BY <1>1, RoundOnText
<1> QED
  BY <1>1, <1>2, <1>3, <1>4, <1>5, <1>6, <1>7

LEMMA FileWaits ==
  ASSUME ScriptLines, source' = source, GoesOn
  PROVE  ScriptLines'
<1> PICK S, T, b : S = Scripted(source.chars) /\ T = Till(S, b) /\ b = Begun
  OBVIOUS
<1>1. Begun' = b /\ pc' = pc /\ executed' = executed
  BY DEF GoesOn
<1>2. /\ Scripted(source.chars)' = S
      /\ OwnScript' <=> OwnScript
      /\ \A e : FirstEnd(source.chars, e)' <=> FirstEnd(source.chars, e)
  BY SameCommands
<1>3. /\ PieceEnds(source.chars)' = PieceEnds(source.chars)
      /\ \A e : PieceTo(source.chars, e)' = PieceTo(source.chars, e)
  BY SameText
<1>4. /\ pc \in {"header", "reopen", "again", "script", "done", "replaced", "crashed"}
      /\ pc \in {"header", "again"} => b = 0
      /\ pc \in {"reopen", "again", "script"} => OwnScript
      /\ pc \notin {"script", "done"} => executed = <<>>
  BY DEF ScriptLines
<1>5. ASSUME pc = "script"
      PROVE  /\ ExecutedAre(Till(Scripted(source.chars), Begun))'
             /\ \E f \in PieceEnds(source.chars) : f <= b
             /\ \A f \in PieceEnds(source.chars) : f <= b => GoesBehind(PieceTo(source.chars, f))
  <2>1. /\ ExecutedAre(T)
        /\ \E f \in PieceEnds(source.chars) : f <= b
        /\ \A f \in PieceEnds(source.chars) : f <= b => GoesBehind(PieceTo(source.chars, f))
    BY <1>5 DEF ScriptLines
  <2>2. ExecutedAre(T)'
    BY <1>1, <2>1, ExecutesNone
  <2>3. Till(Scripted(source.chars), Begun)' = T
    BY <1>1, <1>2 DEF Till
  <2> QED
    BY <2>1, <2>2, <2>3 DEF ExecutedAre
<1>6. ASSUME pc = "done"
      PROVE  ExecutedAre(IF OwnScript THEN Scripted(source.chars) ELSE {})'
  <2> PICK D : D = IF OwnScript THEN S ELSE {}
    OBVIOUS
  <2>1. ExecutedAre(D)
    BY <1>6 DEF ScriptLines
  <2>2. ExecutedAre(D)'
    BY <1>1, <2>1, ExecutesNone
  <2>3. (IF OwnScript THEN Scripted(source.chars) ELSE {})' = D
    BY <1>2
  <2> QED
    BY <2>2, <2>3 DEF ExecutedAre
<1>7. ASSUME pc = "crashed"
      PROVE  \A e \in DOMAIN source.chars :
               FirstEnd(source.chars, e)' => PieceTo(source.chars, e)' = NULL
  BY <1>2, <1>3, <1>7 DEF ScriptLines
<1>8. pc' = "script" =>
        /\ \E f \in PieceEnds(source.chars)' : f <= Begun'
        /\ \A f \in PieceEnds(source.chars)' :
             f <= Begun' => GoesBehind(PieceTo(source.chars, f)')
  BY <1>1, <1>3, <1>5
<1> QED
  BY <1>1, <1>2, <1>4, <1>5, <1>6, <1>7, <1>8 DEF ScriptLines, GoesBehind, Blank, CutAway, NULL

\* The first line there is.
LEMMA FirstPiece ==
  ASSUME LinesInv, source.reader = "script", fgetc, Begun = 0,
         NEW e \in PieceEnds(source.chars), TakesPiece(e)
  PROVE  /\ e \in DOMAIN source.chars /\ FirstEnd(source.chars, e)
         /\ \A f : FirstEnd(source.chars, f) => f = e
         /\ OwnScript <=> PieceTo(source.chars, e) = <<"#!sbush", "nl">>
<1>1. /\ source.chars \in Seq(STRING)
      /\ \A f \in PieceEnds(source.chars) : f \in Nat /\ f \in 1..Len(source.chars)
  BY FileRead
<1>2. \A i \in 0 + 1..e - 1 : i \notin PieceEnds(source.chars)
  BY DEF TakesPiece
<1>3. \A f \in PieceEnds(source.chars) : e <= f
  BY <1>1, <1>2
<1>4. FirstEnd(source.chars, e)
  BY <1>3 DEF FirstEnd
<1>5. ASSUME NEW f, FirstEnd(source.chars, f)
      PROVE  f = e
  <2>1. f \in PieceEnds(source.chars) /\ f <= e
    BY <1>5 DEF FirstEnd
  <2> QED
    BY <1>1, <1>3, <2>1
<1>6. e \in DOMAIN source.chars
  BY <1>1, LenProperties
<1> QED
  BY <1>4, <1>5, <1>6 DEF OwnScript

\* What executeFile takes for the header of a script of its own is its whole line.
LEMMA OwnHeader ==
  ASSUME NEW line, Sound(line), line # NULL, Size > 3, Size \in Nat
  PROVE  Front(line) = <<"#!sbush">> <=> line = <<"#!sbush", "nl">>
<1>1. /\ line \in Seq(STRING) /\ line # <<>>
      /\ line[Len(line)] = "nl" \/ Len(line) = Size - 1
  BY DEF Sound, NULL
<1>2. PICK n : n = Len(line)
  OBVIOUS
<1>3. n \in Nat \ {0}
  BY <1>1, <1>2, LenProperties, EmptySeq
<1>4. PICK k : k = n - 1
  OBVIOUS
<1>5. k \in Nat /\ k <= n /\ n = k + 1 /\ 0 \in 0..n /\ k \in 0..n
  BY <1>3, <1>4
<1>6. /\ SubSeq(line, 0 + 1, k) \in Seq(STRING) /\ Len(SubSeq(line, 0 + 1, k)) = k - 0
      /\ \A i \in 1..(k - 0) : SubSeq(line, 0 + 1, k)[i] = line[0 + i]
  <2>1. 0 \in 0..Len(line) /\ k \in 0..Len(line)
    BY <1>2, <1>5
  <2> QED
    BY <1>1, <2>1, PartOf
<1>7. Front(line) = SubSeq(line, 0 + 1, k)
  BY <1>2, <1>4 DEF Front
<1>8. /\ Front(line) \in Seq(STRING) /\ Len(Front(line)) = k
      /\ \A i \in 1..k : Front(line)[i] = line[i]
  BY <1>5, <1>6, <1>7
<1>9. ASSUME Front(line) = <<"#!sbush">>
      PROVE  line = <<"#!sbush", "nl">>
  <2>1. k = 1
    BY <1>8, <1>9
  <2>2. n = 2 /\ line[1] = "#!sbush"
    BY <1>5, <1>8, <1>9, <2>1
  <2>3. line[2] = "nl"
    BY <1>1, <1>2, <2>2
  <2> PICK x, y : x = line[1] /\ y = line[2]
    OBVIOUS
  <2>4. x \in STRING /\ y \in STRING
    <3>1. 1 \in 1..Len(line) /\ 2 \in 1..Len(line)
      BY <1>2, <2>2
    <3> QED
      BY <1>1, <3>1, ElementOfSeq
  <2>5. /\ <<x, y>> \in Seq(STRING) /\ Len(<<x, y>>) = 2
        /\ \A i \in 1..2 : <<x, y>>[i] = line[i]
    BY <2>4
  <2>6. line = <<x, y>>
    BY <1>1, <1>2, <2>2, <2>5, SeqEqual
  <2> QED
    BY <2>2, <2>3, <2>6
<1>10. ASSUME line = <<"#!sbush", "nl">>
       PROVE  Front(line) = <<"#!sbush">>
  <2>1. n = 2 /\ line[1] = "#!sbush"
    BY <1>2, <1>10
  <2>2. k = 1
    BY <1>5, <2>1
  <2> PICK x, f : x = line[1] /\ f = Front(line)
    OBVIOUS
  <2>3. f \in Seq(STRING) /\ Len(f) = 1 /\ f[1] = x
    BY <1>8, <2>2
  <2>4. x \in STRING
    <3>1. 1 \in 1..Len(line)
      BY <1>2, <2>1
    <3> QED
      BY <1>1, <3>1, ElementOfSeq
  <2>5. <<x>> \in Seq(STRING) /\ Len(<<x>>) = 1 /\ <<x>>[1] = x
    BY <2>4
  <2>6. f = <<x>>
    BY <2>3, <2>5, SeqEqual
  <2> QED
    BY <2>1, <2>6
<1> QED
  BY <1>9, <1>10

LEMMA HeaderRead ==
  ASSUME LinesInv, source.reader = "script", fgetc, pc = "header", ~GoesOn
  PROVE  ScriptLines' /\ executed' = <<>>
<1>1. ScriptLines /\ source' = source /\ Size > 3 /\ Begun = 0 /\ executed = <<>>
  <2>1. ScriptLines /\ source' = source /\ Size > 3
    BY FileRead
  <2> QED
    BY <2>1 DEF ScriptLines
<1>2. /\ OwnScript' <=> OwnScript
      /\ \A e : FirstEnd(source.chars, e)' <=> FirstEnd(source.chars, e)
  BY <1>1, SameCommands
<1>3. \A e : PieceTo(source.chars, e)' = PieceTo(source.chars, e)
  BY <1>1, SameText
<1>4. ASSUME NEW line, Take(line)
      PROVE  script_header(line)
  BY <1>4 DEF Take
<1>5. CASE TakesNothing
  <2>1. /\ \A i \in PieceEnds(source.chars) : i <= 0
        /\ Take(NULL)
    BY <1>1, <1>5 DEF TakesNothing
  <2>2. pc' = "crashed" /\ executed' = executed
    BY <1>4, <2>1 DEF script_header, NULL
  <2>3. \A e : ~FirstEnd(source.chars, e)
    <3>1. \A i \in PieceEnds(source.chars) : i \in Nat /\ i \in 1..Len(source.chars)
      BY FileRead
    <3> QED
      BY <2>1, <3>1 DEF FirstEnd
  <2>4. \A e \in DOMAIN source'.chars : FirstEnd(source.chars, e)' => PieceTo(source.chars, e)' = NULL
    BY <1>2, <2>3
  <2> QED
    BY <1>1, <2>2, <2>4 DEF ScriptLines, NULL
<1>6. CASE \E e \in PieceEnds(source.chars) : TakesPiece(e)
  <2>1. PICK e \in PieceEnds(source.chars) : TakesPiece(e)
    BY <1>6
  <2> PICK line : line = PieceTo(source.chars, e)
    OBVIOUS
  <2>2. Sound(line) /\ Take(line)
    BY <2>1 DEF TakesPiece
  <2>3. /\ \A f : FirstEnd(source.chars, f) => f = e
        /\ OwnScript <=> line = <<"#!sbush", "nl">>
    BY <1>1, <2>1, FirstPiece
  <2>4. script_header(line)
    BY <1>4, <2>2
  <2>5. executed' = <<>>
    BY <1>1, <2>4 DEF script_header
  <2>6. CASE line = NULL
    <3>1. pc' = "crashed"
      BY <2>4, <2>6 DEF script_header
    <3>2. \A f \in DOMAIN source'.chars :
            FirstEnd(source.chars, f)' => PieceTo(source.chars, f)' = NULL
      BY <1>2, <1>3, <2>3, <2>6
    <3> QED
      BY <2>5, <3>1, <3>2 DEF ScriptLines, NULL
  <2>7. CASE line # NULL
    <3>1. Front(line) = <<"#!sbush">> <=> OwnScript
      <4>1. Size \in Nat
        BY <1>1, LineAssumption DEF Size
      <4> QED
        BY <1>1, <2>2, <2>3, <2>7, <4>1, OwnHeader
    <3>2. CASE OwnScript
      <4>1. pc' = "reopen" /\ OwnScript'
        BY <1>2, <2>4, <2>7, <3>1, <3>2 DEF script_header
      <4> QED
        BY <2>5, <4>1 DEF ScriptLines
    <3>3. CASE ~OwnScript
      <4>1. pc' \in {"replaced", "done"} /\ ~OwnScript'
        BY <1>2, <2>4, <2>7, <3>1, <3>3 DEF script_header
      <4>2. ExecutedAre({})'
        BY <2>5, FS_EmptySet DEF ExecutedAre
      <4>3. (IF OwnScript THEN Scripted(source.chars) ELSE {})' = {}
        BY <4>1
      <4>4. ExecutedAre(IF OwnScript THEN Scripted(source.chars) ELSE {})'
        BY <4>2, <4>3 DEF ExecutedAre
      <4> QED
        BY <2>5, <4>1, <4>4 DEF ScriptLines
    <3> QED
      BY <3>2, <3>3
  <2> QED
    BY <2>5, <2>6, <2>7
<1> QED
  BY <1>5, <1>6, FileRead

LEMMA HeaderReadAgain ==
  ASSUME LinesInv, source.reader = "script", fgetc, pc = "again", ~GoesOn
  PROVE  ScriptLines' /\ executed' = <<>>
<1>1. /\ ScriptLines /\ source' = source /\ Begun = 0 /\ executed = <<>> /\ OwnScript
      /\ \A e \in PieceEnds(source.chars) : e \in Nat /\ e \in 1..Len(source.chars)
  <2>1. /\ ScriptLines /\ source' = source
        /\ \A e \in PieceEnds(source.chars) : e \in Nat /\ e \in 1..Len(source.chars)
    BY FileRead
  <2> QED
    BY <2>1 DEF ScriptLines
<1>2. /\ OwnScript'
      /\ Scripted(source.chars)' = Scripted(source.chars)
  BY <1>1, SameCommands
<1>3. /\ PieceEnds(source.chars)' = PieceEnds(source.chars)
      /\ \A e : PieceTo(source.chars, e)' = PieceTo(source.chars, e)
  BY <1>1, SameText
<1>4. ~TakesNothing
  <2> SUFFICES ASSUME TakesNothing PROVE FALSE
    OBVIOUS
  <2>1. PICK e : FirstEnd(source.chars, e)
    BY <1>1 DEF OwnScript
  <2>2. e \in PieceEnds(source.chars) /\ e <= 0
    BY <1>1, <2>1 DEF TakesNothing, FirstEnd
  <2> QED
    BY <1>1, <2>2
<1>5. PICK e \in PieceEnds(source.chars) : TakesPiece(e)
  BY <1>4, FileRead
<1> PICK line : line = PieceTo(source.chars, e)
  OBVIOUS
<1>6. /\ Take(line) /\ Begun' = e /\ e \in Nat
      /\ line = <<"#!sbush", "nl">>
      /\ FirstEnd(source.chars, e)
  <2>1. Take(line) /\ Begun' = e
    BY <1>5 DEF TakesPiece
  <2>2. FirstEnd(source.chars, e) /\ (OwnScript <=> line = <<"#!sbush", "nl">>)
    BY <1>1, <1>5, FirstPiece
  <2> QED
    BY <1>1, <2>1, <2>2
<1>7. ~Blank(line) /\ GoesBehind(line)
  BY <1>6 DEF Blank, CutAway, GoesBehind, NULL
<1>8. pc' = "script" /\ executed' = <<>>
  <2>1. script_again(line)
    BY <1>6 DEF Take
  <2> QED
    BY <1>1, <1>7, <2>1 DEF script_again
<1>9. \A f \in PieceEnds(source.chars) : f <= e => f = e
  BY <1>1, <1>6 DEF FirstEnd
<1>10. Till(Scripted(source.chars), e) = {}
  <2> SUFFICES ASSUME NEW i \in Till(Scripted(source.chars), e) PROVE FALSE
    OBVIOUS
  <2>1. i \in PieceEnds(source.chars) /\ i <= e /\ \E f \in PieceEnds(source.chars) : f < i
    BY DEF Till, Scripted
  <2>2. PICK f \in PieceEnds(source.chars) : f < i
    BY <2>1
  <2>3. i = e /\ e <= f
    BY <1>6, <1>9, <2>1 DEF FirstEnd
  <2> QED
    BY <1>1, <2>2, <2>3
<1>11. ExecutedAre(Till(Scripted(source.chars), Begun))'
  <2>1. Till(Scripted(source.chars), Begun)' = {}
    BY <1>2, <1>6, <1>10 DEF Till
  <2>2. ExecutedAre({})'
    BY <1>8, FS_EmptySet DEF ExecutedAre
  <2> QED
    BY <2>1, <2>2 DEF ExecutedAre
<1>12. /\ \E f \in PieceEnds(source.chars)' : f <= Begun'
       /\ \A f \in PieceEnds(source.chars)' :
            f <= Begun' => GoesBehind(PieceTo(source.chars, f)')
  <2>1. e <= e
    BY <1>6
  <2> QED
    BY <1>3, <1>5, <1>6, <1>7, <1>9, <2>1
<1> QED
  BY <1>2, <1>8, <1>11, <1>12 DEF ScriptLines, GoesBehind, Blank, CutAway, NULL

LEMMA ScriptRead ==
  ASSUME LinesInv, source.reader = "script", fgetc, pc = "script", ~GoesOn
  PROVE  ScriptLines' /\ executed' \in Seq(Seq(STRING))
<1> PICK chars, b, S : chars = source.chars /\ b = Begun /\ S = Scripted(source.chars)
  OBVIOUS
<1>1. /\ ScriptLines /\ source' = source /\ executed \in Seq(Seq(STRING))
      /\ chars \in Seq(STRING) /\ b \in Nat
      /\ \A e \in PieceEnds(chars) : e \in Nat
  BY FileRead
<1>2. /\ OwnScript /\ ExecutedAre(Till(S, b))
      /\ \E f \in PieceEnds(chars) : f <= b
      /\ \A f \in PieceEnds(chars) : f <= b => GoesBehind(PieceTo(chars, f))
  BY <1>1 DEF ScriptLines
<1>3. /\ OwnScript'
      /\ Scripted(source.chars)' = S
  BY <1>1, <1>2, SameCommands
<1>4. /\ PieceEnds(source.chars)' = PieceEnds(chars)
      /\ \A e : PieceTo(source.chars, e)' = PieceTo(chars, e)
  BY <1>1, SameText
<1>5. S \in SUBSET Nat /\ S \in SUBSET PieceEnds(chars)
  <2>1. S = Scripted(chars)
    OBVIOUS
  <2> QED
    BY <1>1, <2>1, CommandsAreEnds
<1>6. ASSUME NEW line, Take(line)
      PROVE  script_line(line)
  BY <1>6 DEF Take
\* It ends when there is no command behind what has been executed.
<1>7. ASSUME pc' = "done", NEW n \in Nat, ExecutedAre(Till(S, n))', \A i \in S : i <= n
      PROVE  ScriptLines'
  <2>1. Till(S, n) = S
    BY <1>7 DEF Till
  <2>2. ExecutedAre(S)'
    BY <1>7, <2>1 DEF ExecutedAre
  <2>3. (IF OwnScript THEN Scripted(source.chars) ELSE {})' = S
    BY <1>3
  <2>4. ExecutedAre(IF OwnScript THEN Scripted(source.chars) ELSE {})'
    BY <2>2, <2>3 DEF ExecutedAre
  <2> QED
    BY <1>7, <2>4 DEF ScriptLines
<1>8. ASSUME executed' = executed
      PROVE  ExecutedAre(Till(S, b))'
  BY <1>1, <1>2, <1>8, ExecutesNone DEF Till, ExecutedAre
<1>9. CASE TakesNothing
  <2>1. (\A i \in PieceEnds(chars) : i <= b) /\ Take(NULL)
    BY <1>9 DEF TakesNothing
  <2>2. pc' = "done" /\ executed' = executed
    BY <1>6, <2>1 DEF script_line, Blank
  <2> QED
    BY <1>1, <1>5, <1>7, <1>8, <2>1, <2>2
<1>10. CASE \E e \in PieceEnds(chars) : TakesPiece(e)
  <2>1. PICK e \in PieceEnds(chars) : TakesPiece(e)
    BY <1>10
  <2> PICK line : line = PieceTo(chars, e)
    OBVIOUS
  <2>2. /\ e \in Nat /\ b < e /\ \A i \in b + 1..e - 1 : i \notin PieceEnds(chars)
        /\ Begun' = e /\ line \in Seq(STRING) /\ Take(line)
    BY <1>1, <2>1 DEF TakesPiece, Sound
  <2>3. script_line(line)
    BY <1>6, <2>2
  <2>4. \A f \in PieceEnds(chars) : f <= e => f <= b \/ f = e
    <3> TAKE f \in PieceEnds(chars)
    <3>1. f \in Nat /\ f \notin b + 1..e - 1
      BY <1>1, <2>2
    <3> QED
      BY <1>1, <2>2, <3>1
  <2>5. CASE Blank(line)
    <3>1. pc' = "done" /\ executed' = executed
      BY <2>3, <2>5 DEF script_line
    <3>2. \A i \in S : i <= b
      <4> TAKE i \in S
      <4>1. i \in PieceEnds(chars) /\ i \in Nat
        BY <1>5
      <4>2. ~(e <= i)
        BY <2>1, <2>5 DEF Scripted
      <4> QED
        BY <2>2, <2>4, <4>1, <4>2
    <3> QED
      BY <1>1, <1>7, <1>8, <3>1, <3>2
  <2>6. ASSUME ~Blank(line)
        PROVE  /\ e \in S /\ ExecutedAre(Till(S, e))' /\ executed' \in Seq(Seq(STRING))
               /\ executed' = Append(executed, line)
    <3>1. executed' = Append(executed, line)
      BY <2>3, <2>6 DEF script_line
    <3>2. \A f \in PieceEnds(chars) : f <= e => ~Blank(PieceTo(chars, f))
      BY <1>2, <2>4, <2>6 DEF GoesBehind
    <3>3. \E f \in PieceEnds(chars) : f < e
      <4>1. PICK f \in PieceEnds(chars) : f <= b
        BY <1>2
      <4> QED
        BY <1>1, <2>2, <4>1
    <3>4. \A f \in PieceEnds(chars) : f < e => ~CutAway(PieceTo(chars, f))
      <4> TAKE f \in PieceEnds(chars)
      <4>1. f < e => f <= b
        BY <1>1, <2>2, <2>4
      <4> QED
        BY <1>2, <4>1 DEF GoesBehind
    <3>5. e \in S
      BY <2>1, <3>2, <3>3, <3>4 DEF Scripted
    <3>6. ExecutedAre(Till(S, e))' /\ executed' \in Seq(Seq(STRING))
      BY <1>1, <1>2, <2>2, <3>1, <3>5, CommandExecuted
    <3> QED
      BY <3>1, <3>5, <3>6
  \* Executed, and the last one: the bar at its front was cut away.
  <2>7. CASE ~Blank(line) /\ CutAway(line)
    <3>1. pc' = "done"
      BY <2>3, <2>7 DEF script_line
    <3>2. \A i \in S : i <= e
      <4> TAKE i \in S
      <4>1. i \in PieceEnds(chars) /\ i \in Nat
        BY <1>5
      <4>2. ~(e < i)
        BY <2>1, <2>7 DEF Scripted
      <4> QED
        BY <2>2, <4>1, <4>2
    <3> QED
      BY <1>7, <2>2, <2>6, <2>7, <3>1, <3>2
  <2>8. CASE ~Blank(line) /\ ~CutAway(line)
    <3>1. pc' = "script"
      BY <2>3, <2>8 DEF script_line
    <3>2. ExecutedAre(Till(Scripted(source.chars), Begun))'
      BY <1>3, <2>2, <2>6, <2>8 DEF ExecutedAre
    <3>3. \E f \in PieceEnds(source.chars)' : f <= Begun'
      <4>1. e <= e
        BY <2>2
      <4> QED
        BY <1>4, <2>1, <2>2, <4>1
    <3>4. \A f \in PieceEnds(source.chars)' :
            f <= Begun' => GoesBehind(PieceTo(source.chars, f)')
      <4>1. \A f \in PieceEnds(chars) : f <= e => GoesBehind(PieceTo(chars, f))
        BY <1>2, <2>4, <2>8 DEF GoesBehind
      <4> QED
        BY <1>4, <2>2, <4>1 DEF GoesBehind
    <3> QED
      BY <1>3, <2>6, <2>8, <3>1, <3>2, <3>3, <3>4
      DEF ScriptLines, GoesBehind, Blank, CutAway, NULL
  <2> QED
    BY <1>1, <2>5, <2>6, <2>7, <2>8
<1> QED
  BY <1>9, <1>10, FileRead

LEMMA LinesInitially == Init => LinesInv
<1> SUFFICES ASSUME Init PROVE LinesInv
  OBVIOUS
<1> PICK chars : chars = source.chars
  OBVIOUS
<1>1. /\ LineInv /\ at = 0 /\ buf = <<>> /\ executed = <<>>
      /\ pc = IF source.reader = "shell" THEN "prompt" ELSE "header"
  BY InitLine DEF Init
<1>2. /\ chars \in Seq(STRING) /\ Len(chars) \in Nat /\ Size - 1 \in Nat /\ Size - 1 > 0
      /\ Begun = 0
  <2>1. Begun = 0
    <3>1. Len(<<>>) = 0 /\ 0 - 0 = 0
      OBVIOUS
    <3> QED
      BY <1>1, <3>1, Zenon DEF Begun
  <2> QED
    BY <1>1, <2>1, Asking
<1>3. Position
  <2>1. Counted(chars, 0, 0)
    BY <1>2, CountsFromHere
  <2>2. \A i \in 0 + 1..0 : i \notin PieceEnds(chars)
    OBVIOUS
  <2> QED
    BY <1>1, <1>2, <2>1, <2>2 DEF Position
<1>4. ASSUME NEW S, S \in SUBSET PieceEnds(chars)
      PROVE  Till(S, 0) = {}
  <2>1. \A i \in S : ~(i <= 0)
    BY <1>2, <1>4, PlacesOfEnds
  <2> QED
    BY <2>1 DEF Till
<1>5. ShellLines \/ source.reader # "shell"
  <2>1. Till(Typed(chars), 0) = {}
    <3>1. Typed(chars) \in SUBSET PieceEnds(chars)
      BY DEF Typed
    <3> QED
      BY <1>4, <3>1
  <2>2. ExecutedAre({})
    BY <1>1, FS_EmptySet DEF ExecutedAre
  <2>3. Till(PieceEnds(chars), 0) = {}
    BY <1>4
  <2>4. ~ExitTill(0)
    BY <2>3 DEF ExitTill
  <2> QED
    BY <1>1, <1>2, <2>1, <2>2, <2>4 DEF ShellLines
<1>6. ScriptLines \/ source.reader = "shell"
  BY <1>1, <1>2 DEF ScriptLines
<1>7. executed \in Seq(Seq(STRING))
  BY <1>1, EmptySeq
<1> QED
  BY <1>1, <1>3, <1>5, <1>6, <1>7 DEF LinesInv

LEMMA LinesStep == LinesInv /\ [Next]_inputVars => LinesInv'
<1> SUFFICES ASSUME LinesInv, [Next]_inputVars PROVE LinesInv'
  OBVIOUS
<1>1. LineInv /\ Position /\ executed \in Seq(Seq(STRING)) /\ LineInv'
  BY LineStep DEF LinesInv
<1>2. source.reader \in {"shell", "script"}
  BY <1>1, SourceFacts DEF LineInv
<1>3. CASE fgetc
  <2>1. source' = source /\ Position'
    BY <1>1, <1>3, RoundOnText
  <2>2. CASE source.reader = "shell"
    <3>1. ShellLines' /\ executed' \in Seq(Seq(STRING))
      BY <1>3, <2>2, ShellRound
    <3> QED
      BY <1>1, <2>1, <2>2, <3>1 DEF LinesInv
  <2>3. CASE source.reader = "script"
    <3>1. pc \in {"header", "again", "script"} /\ ScriptLines
      BY <1>3, <2>3, FileRead
    <3>2. CASE GoesOn
      <4>1. ScriptLines' /\ executed' = executed
        BY <2>1, <3>1, <3>2, FileWaits DEF GoesOn
      <4> QED
        BY <1>1, <2>1, <2>3, <4>1 DEF LinesInv
    <3>3. CASE ~GoesOn
      <4>1. CASE pc \in {"header", "again"}
        <5>1. ScriptLines' /\ executed' = <<>>
          BY <1>3, <2>3, <3>3, <4>1, HeaderRead, HeaderReadAgain
        <5>2. executed' \in Seq(Seq(STRING))
          BY <5>1, EmptySeq
        <5> QED
          BY <1>1, <2>1, <2>3, <5>1, <5>2 DEF LinesInv
      <4>2. CASE pc = "script"
        <5>1. ScriptLines' /\ executed' \in Seq(Seq(STRING))
          BY <1>3, <2>3, <3>3, <4>2, ScriptRead
        <5> QED
          BY <1>1, <2>1, <2>3, <5>1 DEF LinesInv
      <4> QED
        BY <3>1, <4>1, <4>2
    <3> QED
      BY <3>2, <3>3
  <2> QED
    BY <1>2, <2>2, <2>3
<1>4. CASE Reopen
  <2>1. /\ pc = "reopen" /\ pc' = "again" /\ at' = 0 /\ buf' = <<>>
        /\ source' = source /\ executed' = executed
    BY <1>1, <1>4 DEF Reopen, LineInv
  <2>2. source.reader = "script" /\ ScriptLines
    BY <1>2, <2>1 DEF LinesInv, ShellLines
  <2>3. executed = <<>> /\ OwnScript
    BY <2>1, <2>2 DEF ScriptLines
  <2>4. OwnScript'
    BY <2>1, <2>3, SameCommands
  <2>5. \E j : Counted(source.chars, j, 0)
    <3>1. Size - 1 \in Nat /\ Size - 1 > 0
      BY <1>1, Asking
    <3> QED
      BY <3>1, CountsFromHere
  <2>6. Position' /\ Begun' = 0
    BY <2>1, <2>5, AnewPosition
  <2>7. ScriptLines'
    BY <2>1, <2>3, <2>4, <2>6 DEF ScriptLines
  <2> QED
    BY <1>1, <2>1, <2>2, <2>6, <2>7 DEF LinesInv
<1>5. CASE UNCHANGED inputVars
  <2>1. UNCHANGED <<source, at, buf, pc, executed>>
    BY <1>5 DEF inputVars
  <2>2. Begun' = Begun /\ GoesOn
    BY <2>1 DEF Begun, GoesOn
  <2>3. PieceEnds(source.chars)' = PieceEnds(source.chars) /\ Size' = Size
        /\ \A e : PieceTo(source.chars, e)' = PieceTo(source.chars, e)
    BY <2>1, SameText
  <2>4. Position'
    BY <1>1, <2>1, <2>2, <2>3 DEF Position, Counted
  <2>5. source.reader = "script" => ScriptLines'
    BY <2>1, <2>2, FileWaits DEF LinesInv
  <2>6. source.reader = "shell" => ShellLines'
    <3> SUFFICES ASSUME source.reader = "shell" PROVE ShellLines'
      OBVIOUS
    <3>1. ShellLines
      BY DEF LinesInv
    <3> PICK T : T = Till(Typed(source.chars), Begun)
      OBVIOUS
    <3>2. ExecutedAre(T)'
      BY <2>1, <3>1, ExecutesNone DEF ShellLines
    <3>3. Till(Typed(source.chars), Begun)' = T
      BY <2>1, <2>2, SameCommands DEF Till
    <3>4. ExecutedAre(Till(Typed(source.chars), Begun))'
      BY <3>2, <3>3 DEF ExecutedAre
    <3>5. ExitTill(Begun)' <=> ExitTill(Begun)
      BY <2>2, <2>3 DEF ExitTill, IsExit, Till
    <3> QED
      BY <2>1, <3>1, <3>4, <3>5 DEF ShellLines
  <2> QED
    BY <1>1, <2>1, <2>4, <2>5, <2>6 DEF LinesInv
<1> QED
  BY <1>3, <1>4, <1>5 DEF Next

\* The shell executes the lines it has read, but for empty ones, up to exit, and a script
\* of its own all of its lines up to an empty one, whatever is typed, piped or read from a
\* file, however the host hands it out.
THEOREM CommandsAreLinesAlways == Spec => []CommandsAreLines
<1>1. LinesInv => CommandsAreLines
  <2> SUFFICES ASSUME LinesInv PROVE CommandsAreLines
    OBVIOUS
  <2>1. source.reader \in {"shell", "script"}
    BY SourceFacts DEF LinesInv, LineInv
  <2>2. CASE source.reader = "shell"
    <3>1. /\ pc \in {"prompt", "exited"} /\ ExecutedAre(Till(Typed(source.chars), Begun))
          /\ pc = "exited" <=> ExitTill(Begun)
      BY <2>2 DEF LinesInv, ShellLines
    <3> QED
      BY <2>2, <3>1 DEF CommandsAreLines, ExitTill, Begun
  <2>3. CASE source.reader = "script"
    <3>1. ScriptLines
      BY <2>3 DEF LinesInv
    <3>2. ASSUME pc \notin {"script", "done"}
          PROVE  ExecutedAre({})
      BY <3>1, <3>2, FS_EmptySet DEF ScriptLines, ExecutedAre
    <3> QED
      BY <2>3, <3>1, <3>2 DEF CommandsAreLines, ScriptLines, Begun
  <2> QED
    BY <2>1, <2>2, <2>3
<1> QED
  BY LinesInitially, LinesStep, <1>1, PTL DEF Spec
=============================================================================
