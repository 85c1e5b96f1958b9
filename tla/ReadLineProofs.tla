--------------------------- MODULE ReadLineProofs ---------------------------
(***************************************************************************)
(* Which lines kill a program that reads them with readline, and which     *)
(* lines it gets from a terminal, for every input and every number of      *)
(* calls.                                                                  *)
(***************************************************************************)
EXTENDS ReadLine, HeapProofs, FiniteSetTheorems

-----------------------------------------------------------------------------
(* The newest block.                                                       *)

\* What is written to it replaces its addr, and its next from the seventeenth character on.
LEMMA WrittenTop ==
  ASSUME NEW h, HeapOK(h), h.ROOT # NULL, NEW n \in Nat
  PROVE  LET new == Written(h, Header(Newest(h)), n)
         IN  /\ HeapOK(new) /\ new.ROOT # NULL /\ Newest(new) = Newest(h)
             /\ n > 0 => new.blocks[Newest(new)].addr = Scrawled({"low", "high"})
             /\ n <= 16 => NextOf(new) = NextOf(h)
             /\ n > 16 => NextOf(new) # NULL
<1>1. Newest(h) \in Numbers(h)
  BY HeapFacts
<1> QED
  BY <1>1, WrittenHeap DEF SameBut, NextOf

-----------------------------------------------------------------------------
(* The host.                                                               *)

LEMMA Part ==
  ASSUME NEW S, NEW s \in Seq(S), NEW k \in 0..Len(s)
  PROVE  SubSeq(s, 1, k) \in Seq(S) /\ Len(SubSeq(s, 1, k)) = k
<1>1. Len(s) \in Nat
  BY LenProperties
<1>2. \A i \in 1..k : s[i] \in S
  BY <1>1, ElementOfSeq
<1> QED
  BY <1>1, <1>2, SubSeqProperties

\* A read gives no more than it is asked for.
LEMMA ReadPart ==
  ASSUME NEW s \in Inputs, NEW n \in 0..Len(s.chars),
         NEW taken \in read(s, n, MAX_BUF_SIZE)
  PROVE  /\ taken \in Seq(STRING) /\ Len(taken) \in 0..MAX_BUF_SIZE
         /\ n + Len(taken) \in 0..Len(s.chars)
<1> DEFINE rest == Rest(s, n)
<1>1. s.chars \in Seq(STRING) /\ Len(s.chars) \in Nat /\ n \in Nat
  BY ReadLineAssumption, LenProperties
<1>2. /\ rest \in Seq(STRING) /\ Len(rest) = Len(s.chars) - n
      /\ \A i \in 1..(Len(s.chars) - n) : rest[i] = s.chars[n + i]
  BY <1>1, SubSeqProperties DEF Rest
<1> HIDE DEF rest
<1>3. s.kind \in {"file", "pipe", "terminal"}
  BY InputsAssumption
<1>4. Len(rest) \in Nat
  BY <1>1, <1>2
<1>5. Min({MAX_BUF_SIZE, Len(rest)}) \in 0..4 /\ Min({MAX_BUF_SIZE, Len(rest)}) <= Len(rest)
  <2>1. {4, Len(rest)} \in SUBSET Nat /\ {4, Len(rest)} # {}
    BY <1>4
  <2> QED
    BY <1>4, <2>1, LeastNumber DEF MAX_BUF_SIZE
<1>6. \E k \in 0..Len(rest) : k <= 4 /\ taken = SubSeq(rest, 1, k)
  <2>1. CASE s.kind = "file"
    <3> DEFINE all == Min({MAX_BUF_SIZE, Len(rest)})
    <3>1. taken = SubSeq(rest, 1, all)
      BY <2>1 DEF read, rest
    <3>2. all \in 0..Len(rest) /\ all <= 4
      BY <1>4, <1>5
    <3> HIDE DEF all
    <3> QED
      BY <3>1, <3>2
  <2>2. CASE s.kind = "pipe"
    <3> DEFINE all == Min({MAX_BUF_SIZE, Len(rest)})
    <3>1. PICK k \in (IF rest = <<>> THEN {0} ELSE 1..all) : taken = SubSeq(rest, 1, k)
      BY <2>2 DEF read, rest
    <3>2. all \in 0..Len(rest) /\ all <= 4
      BY <1>4, <1>5
    <3> HIDE DEF all
    <3>3. k \in 0..Len(rest) /\ k <= 4
      BY <1>4, <3>1, <3>2
    <3> QED
      BY <3>1, <3>3
  <2>3. CASE s.kind = "terminal" /\ rest # <<>>
    <3> DEFINE ends == {i \in DOMAIN rest : rest[i] \in {"nl", "eot"}}
    <3>1. n < Len(s.chars) /\ Len(rest) \in 1..Len(rest) /\ s.chars # <<>>
      BY <1>1, <1>2, <1>4, <2>3, EmptySeq
    <3>2. Last(s.chars) \in {"nl", "eot"}
      BY <2>3, <3>1, InputsAssumption
    <3>3. Len(rest) \in ends
      BY <1>1, <1>2, <3>1, <3>2, LenProperties DEF Last
    <3>4. ends \in SUBSET (1..Len(rest)) /\ ends \in SUBSET Nat
      BY <1>2, <1>4, LenProperties
    <3>5. LineEnd(rest) \in 1..Len(rest)
      BY <3>3, <3>4, LeastNumber DEF LineEnd
    <3>6. Min({4, LineEnd(rest)}) \in 0..Len(rest) /\ Min({4, LineEnd(rest)}) <= 4
      <4>1. {4, LineEnd(rest)} \in SUBSET Nat /\ {4, LineEnd(rest)} # {}
        BY <1>4, <3>5
      <4> QED
        BY <1>4, <3>5, <4>1, LeastNumber
    <3> QED
      BY <2>3, <3>6 DEF read, rest, MAX_BUF_SIZE
  <2>4. CASE s.kind = "terminal" /\ rest = <<>>
    BY <2>4 DEF read, rest
  <2> QED
    BY <1>3, <2>1, <2>2, <2>3, <2>4
<1>7. PICK k \in 0..Len(rest) : k <= 4 /\ taken = SubSeq(rest, 1, k)
  BY <1>6
<1>8. taken \in Seq(STRING) /\ Len(taken) = k
  BY <1>2, <1>7, Part
<1> QED
  BY <1>1, <1>2, <1>7, <1>8 DEF MAX_BUF_SIZE

LEMMA GotPart ==
  ASSUME NEW taken \in Seq(STRING), Len(taken) \in 0..MAX_BUF_SIZE
  PROVE  Got(taken) \in Seq(STRING) /\ Len(Got(taken)) \in 0..4
<1>1. <<>> \in Seq(STRING) /\ Len(<<>>) = 0
  OBVIOUS
<1>2. Len(taken) \in 0..4
  BY DEF MAX_BUF_SIZE
<1>3. CASE Got(taken) = <<>>
  <2>1. 0 \in 0..4
    OBVIOUS
  <2> QED
    BY <1>1, <1>3, <2>1
<1>4. CASE Got(taken) = taken
  BY <1>2, <1>4
<1> QED
  BY <1>3, <1>4 DEF Got

-----------------------------------------------------------------------------
(* The program.                                                            *)

\* A line before the k-th has left its characters where all later buffers have their next.
Spoilt(lines, k) == \E j \in 1..k - 1 : Len(lines[j]) > 16
Spoils(lines)    == Spoilt(lines, Len(lines) + 1)

Fits(lines) == \A k \in DOMAIN lines : Len(lines[k]) <= (IF Spoilt(lines, k) THEN 4 ELSE 20)

\* The newest block is the buffer, unless it is the first one of all; its next tells
\* whether the next full buffer is the last.
ReadLineInv ==
  /\ source \in Inputs /\ at \in 0..Len(source.chars)
  /\ HeapOK(heap)
  /\ pc \in {"idle", "read", "dead"}
  /\ text \in Seq(STRING) /\ returned \in Seq(Seq(STRING))
  /\ heap.ROOT = NULL => returned = <<>> /\ pc = "idle"
  /\ heap.ROOT # NULL /\ pc # "dead" => (NextOf(heap) # NULL <=> Spoils(returned))
  /\ pc = "read" =>
       /\ Len(text) \in {0, 4, 8, 12, 16} /\ (Spoils(returned) => Len(text) = 0)
       /\ data = Header(Newest(heap)) \/ (data = Payload(1) /\ Len(text) = 0)
  /\ Fits(returned)
  /\ pc = "dead" => Len(text) = IF Spoils(returned) THEN 4 ELSE 20

LEMMA ReadLineInitially == Init => ReadLineInv
<1> SUFFICES ASSUME Init PROVE ReadLineInv
  OBVIOUS
<1> DEFINE empty == [ROOT |-> NULL, blocks |-> <<>>]
<1>1. HeapOK(empty) /\ empty.ROOT = NULL
  <2>1. <<>> \in Seq(Block)
    BY EmptySeq
  <2> QED
    BY <2>1 DEF HeapOK, Heaps
<1>2. ~Spoils(<<>>) /\ Fits(<<>>)
  BY DEF Spoils, Spoilt, Fits
<1> HIDE DEF empty
<1>3. HeapOK(malloc(empty).heap) /\ NextOf(malloc(empty).heap) = NULL
  BY <1>1, Mallocked
<1>4. /\ source \in Inputs /\ at = 0 /\ text = <<>> /\ returned = <<>> /\ pc = "idle"
      /\ heap \in {empty, malloc(empty).heap}
  BY DEF Init, empty
<1>5. source.chars \in Seq(STRING) /\ Len(source.chars) \in Nat
  BY <1>4, ReadLineAssumption, LenProperties
<1>6. at \in 0..Len(source.chars)
  BY <1>4, <1>5
<1>7. HeapOK(heap) /\ (heap.ROOT # NULL => NextOf(heap) = NULL)
  BY <1>1, <1>3, <1>4
<1>8. text \in Seq(STRING) /\ returned \in Seq(Seq(STRING))
  BY <1>4, EmptySeq
<1> QED
  BY <1>2, <1>4, <1>6, <1>7, <1>8 DEF ReadLineInv

\* One more line.
LEMMA Appended ==
  ASSUME NEW lines \in Seq(Seq(STRING)), NEW t \in Seq(STRING), Fits(lines),
         Len(t) <= (IF Spoils(lines) THEN 4 ELSE 20)
  PROVE  LET more == Append(lines, t)
         IN  /\ more \in Seq(Seq(STRING)) /\ Fits(more)
             /\ Spoils(more) <=> Spoils(lines) \/ Len(t) > 16
<1> DEFINE more == Append(lines, t)
           n    == Len(lines)
<1>1. n \in Nat /\ DOMAIN lines = 1..n
  BY LenProperties
<1>2. /\ more \in Seq(Seq(STRING)) /\ Len(more) = n + 1 /\ DOMAIN more = 1..(n + 1)
      /\ \A i \in 1..n : more[i] = lines[i]
      /\ more[n + 1] = t
  BY AppendProperties, LenProperties
<1> HIDE DEF more, n
<1>3. \A k \in 1..(n + 1) : Spoilt(more, k) <=> Spoilt(lines, k)
  <2> TAKE k \in 1..(n + 1)
  <2>1. \A j \in 1..(k - 1) : more[j] = lines[j]
    BY <1>1, <1>2
  <2> QED
    BY <2>1 DEF Spoilt
<1>4. Fits(more)
  <2> SUFFICES ASSUME NEW k \in 1..(n + 1)
               PROVE  Len(more[k]) <= (IF Spoilt(more, k) THEN 4 ELSE 20)
    BY <1>2 DEF Fits
  <2>1. CASE k = n + 1
    BY <1>2, <1>3, <2>1 DEF Spoils, n
  <2>2. CASE k # n + 1
    <3>1. k \in 1..n
      BY <1>1, <2>2
    <3> QED
      BY <1>1, <1>2, <1>3, <3>1 DEF Fits
  <2> QED
    BY <2>1, <2>2
<1>5. Spoils(more) <=> Spoils(lines) \/ Len(t) > 16
  <2>1. Spoils(more) <=> \E j \in 1..(n + 1) : Len(more[j]) > 16
    BY <1>1, <1>2 DEF Spoils, Spoilt
  <2>2. Spoils(lines) <=> \E j \in 1..n : Len(lines[j]) > 16
    BY <1>1 DEF Spoils, Spoilt, n
  <2> QED
    BY <1>1, <1>2, <2>1, <2>2
<1> QED
  BY <1>2, <1>4, <1>5 DEF more

LEMMA CallKeeps ==
  ASSUME ReadLineInv, Call
  PROVE  ReadLineInv'
<1> DEFINE new == malloc(heap)
<1>1. /\ pc = "idle" /\ heap' = new.heap /\ data' = new.ptr /\ text' = <<>> /\ pc' = "read"
      /\ source' = source /\ at' = at /\ returned' = returned
  BY DEF Call
<1>2. HeapOK(heap) /\ (heap.ROOT = NULL => returned = <<>>)
      /\ (heap.ROOT # NULL => (NextOf(heap) # NULL <=> Spoils(returned)))
  BY <1>1 DEF ReadLineInv
<1>3. /\ HeapOK(heap') /\ heap'.ROOT # NULL
      /\ heap.ROOT = NULL => data' = Payload(1) /\ NextOf(heap') = NULL
      /\ heap.ROOT # NULL => data' = Header(Newest(heap')) /\ NextOf(heap') = NextOf(heap)
  BY <1>1, <1>2, Mallocked
<1>4. ~Spoils(<<>>)
  BY DEF Spoils, Spoilt
<1>5. NextOf(heap') # NULL <=> Spoils(returned)
  BY <1>2, <1>3, <1>4
<1>6. text' \in Seq(STRING) /\ Len(text') = 0
  BY <1>1, EmptySeq
<1>7. data' = Header(Newest(heap')) \/ data' = Payload(1)
  BY <1>3
<1>8. /\ source \in Inputs /\ at \in 0..Len(source.chars)
      /\ returned \in Seq(Seq(STRING)) /\ Fits(returned)
  BY DEF ReadLineInv
<1> HIDE DEF new
<1> QED
  BY <1>1, <1>3, <1>5, <1>6, <1>7, <1>8 DEF ReadLineInv

\* What is in the buffer is written where malloc pointed.
LEMMA Filled ==
  ASSUME ReadLineInv, pc = "read", NEW n \in Nat, Len(text) = 0 => n <= 4
  PROVE  LET filled == Written(heap, data, n)
         IN  /\ HeapOK(filled) /\ filled.ROOT # NULL
             /\ NextOf(filled) # NULL <=> Spoils(returned) \/ n > 16
             /\ data \in {Header(Newest(filled)), Payload(1)}
<1>1. /\ HeapOK(heap) /\ heap.ROOT # NULL /\ (NextOf(heap) # NULL <=> Spoils(returned))
      /\ data = Header(Newest(heap)) \/ (data = Payload(1) /\ Len(text) = 0)
  BY DEF ReadLineInv
<1>2. CASE data = Header(Newest(heap))
  BY <1>1, <1>2, WrittenTop
<1>3. CASE data = Payload(1) /\ Len(text) = 0
  <2>1. Written(heap, data, n) = heap /\ ~(n > 16)
    BY <1>3, WrittenBehind
  <2> QED
    BY <1>1, <1>3, <2>1
<1> QED
  BY <1>1, <1>2, <1>3

\* The larger buffer inherits the next, and free dies of it.
LEMMA Enlarged ==
  ASSUME NEW full, HeapOK(full), full.ROOT # NULL, NEW n \in Nat \ {0},
         data \in {Header(Newest(full)), Payload(1)}
  PROVE  LET more == enlarged(full, n)
         IN  /\ HeapOK(more.heap) /\ more.heap.ROOT # NULL
             /\ more.data = Header(Newest(more.heap))
             /\ more.fault <=> NextOf(more.heap) # NULL
             /\ n <= 16 => NextOf(more.heap) = NextOf(full)
             /\ n > 16 => NextOf(more.heap) # NULL
<1> DEFINE new   == malloc(full)
           h     == Written(new.heap, new.ptr, n)
           freed == free(h, data)
<1>1. /\ HeapOK(new.heap) /\ new.heap.ROOT # NULL /\ new.ptr = Header(Newest(new.heap))
      /\ NextOf(new.heap) = NextOf(full)
  BY Mallocked
<1>2. /\ HeapOK(h) /\ h.ROOT # NULL /\ Newest(h) = Newest(new.heap)
      /\ h.blocks[Newest(h)].addr = Scrawled({"low", "high"})
      /\ n <= 16 => NextOf(h) = NextOf(new.heap)
      /\ n > 16 => NextOf(h) # NULL
  <2> HIDE DEF new
  <2> QED
    BY <1>1, WrittenTop
<1>3. enlarged(full, n) = [heap |-> freed.heap, data |-> new.ptr, fault |-> freed.fault]
  BY DEF enlarged
<1> HIDE DEF new, h
<1>4. freed.heap = h /\ (freed.fault <=> NextOf(h) # NULL)
  <2>1. h.blocks[Newest(h)].addr # data
    BY <1>2, Apart
  <2> QED
    BY <1>2, <2>1, FreeTop
<1> HIDE DEF freed
<1>5. /\ enlarged(full, n).heap = h /\ enlarged(full, n).data = new.ptr
      /\ enlarged(full, n).fault <=> NextOf(h) # NULL
  BY <1>3, <1>4
<1> QED
  BY <1>1, <1>2, <1>5

LEMMA ReadKeeps ==
  ASSUME ReadLineInv, readline
  PROVE  ReadLineInv'
<1>1. PICK taken \in read(source, at, MAX_BUF_SIZE) :
        LET chars  == Got(taken)
            n      == Len(text) + Len(chars)
            filled == Written(heap, data, n)
        IN  /\ at' = at + Len(taken)
            /\ text' = text \o chars
            /\ IF last_chunk(chars)
               THEN /\ pc' = "idle" /\ heap' = filled
                    /\ returned' = Append(returned, text') /\ UNCHANGED data
               ELSE LET more == enlarged(filled, n)
                    IN  /\ pc' = IF more.fault THEN "dead" ELSE "read"
                        /\ heap' = more.heap /\ data' = more.data
                        /\ UNCHANGED returned
  BY DEF readline
<1>2. pc = "read" /\ source' = source
  BY DEF readline
<1> DEFINE chars  == Got(taken)
           n      == Len(text) + Len(chars)
           filled == Written(heap, data, n)
           more   == enlarged(filled, n)
<1>3. /\ source \in Inputs /\ at \in 0..Len(source.chars) /\ text \in Seq(STRING)
      /\ returned \in Seq(Seq(STRING)) /\ Fits(returned)
      /\ Len(text) \in {0, 4, 8, 12, 16} /\ (Spoils(returned) => Len(text) = 0)
  BY <1>2 DEF ReadLineInv
<1>4. at' \in 0..Len(source'.chars) /\ chars \in Seq(STRING) /\ Len(chars) \in 0..4
  BY <1>1, <1>2, <1>3, ReadPart, GotPart
<1>5. text' \in Seq(STRING) /\ Len(text') = n
  BY <1>1, <1>3, <1>4, ConcatProperties
<1>6. PICK old, got : old = Len(text) /\ got = Len(chars)
  OBVIOUS
<1>7. old \in {0, 4, 8, 12, 16} /\ (Spoils(returned) => old = 0) /\ got \in 0..4 /\ n = old + got
  BY <1>6, <1>3, <1>4
<1> HIDE DEF n
<1>8. /\ HeapOK(filled) /\ filled.ROOT # NULL
      /\ NextOf(filled) # NULL <=> Spoils(returned) \/ n > 16
      /\ data \in {Header(Newest(filled)), Payload(1)}
  <2>1. n \in Nat /\ (old = 0 => n <= 4)
    BY <1>7
  <2>2. Len(text) = 0 => n <= 4
    BY <1>6, <2>1
  <2> QED
    BY <1>2, <2>1, <2>2, Filled
<1>9. n \in 0..20 /\ (Spoils(returned) => n <= 4)
  BY <1>7
<1> HIDE DEF filled
<1>10. CASE last_chunk(chars)
  <2>1. /\ pc' = "idle" /\ heap' = filled /\ returned' = Append(returned, text')
    BY <1>1, <1>10 DEF filled, n
  <2>2. /\ returned' \in Seq(Seq(STRING)) /\ Fits(returned')
        /\ Spoils(returned') <=> Spoils(returned) \/ n > 16
    <3>1. Len(text') <= (IF Spoils(returned) THEN 4 ELSE 20)
      BY <1>5, <1>9
    <3> QED
      BY <1>3, <1>5, <2>1, <3>1, Appended
  <2> QED
    BY <1>2, <1>3, <1>4, <1>5, <1>8, <2>1, <2>2 DEF ReadLineInv
<1>11. CASE ~last_chunk(chars)
  <2>1. /\ pc' = IF more.fault THEN "dead" ELSE "read"
        /\ heap' = more.heap /\ data' = more.data /\ returned' = returned
    BY <1>1, <1>11 DEF filled, n
  <2>2. got = 4
    <3>1. ~(Len(chars) < 4)
      BY <1>11 DEF last_chunk, MAX_BUF_SIZE
    <3> HIDE DEF chars
    <3> QED
      BY <1>6, <1>7, <3>1
  <2>3. n \in {4, 8, 12, 16, 20} /\ (Spoils(returned) => n = 4)
    BY <1>7, <2>2
  <2> HIDE DEF chars
  <2>4. /\ HeapOK(more.heap) /\ more.heap.ROOT # NULL
        /\ more.data = Header(Newest(more.heap))
        /\ more.fault <=> NextOf(more.heap) # NULL
        /\ n <= 16 => NextOf(more.heap) = NextOf(filled)
        /\ n > 16 => NextOf(more.heap) # NULL
    <3>1. n \in Nat \ {0}
      BY <2>3
    <3> QED
      BY <1>8, <3>1, Enlarged
  <2> HIDE DEF more
  <2>5. NextOf(heap') # NULL <=> Spoils(returned) \/ n > 16
    BY <1>8, <2>1, <2>3, <2>4
  <2>6. CASE Spoils(returned) \/ n > 16
    <3>1. pc' = "dead"
      BY <2>1, <2>4, <2>5, <2>6
    <3>2. n = IF Spoils(returned) THEN 4 ELSE 20
      BY <2>3, <2>6
    <3> QED
      BY <1>2, <1>3, <1>4, <1>5, <2>1, <2>4, <3>1, <3>2 DEF ReadLineInv
  <2>7. CASE ~(Spoils(returned) \/ n > 16)
    <3>1. pc' = "read" /\ NextOf(heap') = NULL
      BY <2>1, <2>4, <2>5, <2>7
    <3>2. n \in {0, 4, 8, 12, 16}
      BY <2>3, <2>7
    <3>3. ~Spoils(returned') /\ Fits(returned') /\ returned' \in Seq(Seq(STRING))
      BY <1>3, <2>1, <2>7
    <3>4. data' = Header(Newest(heap')) /\ HeapOK(heap') /\ heap'.ROOT # NULL
      BY <2>1, <2>4
    <3>5. Len(text') \in {0, 4, 8, 12, 16}
      BY <1>5, <3>2
    <3>6. pc' # "dead" /\ pc' \in {"idle", "read", "dead"}
      BY <3>1
    <3>7. source' \in Inputs /\ at' \in 0..Len(source'.chars) /\ text' \in Seq(STRING)
      BY <1>2, <1>3, <1>4, <1>5
    <3> QED
      BY <3>1, <3>3, <3>4, <3>5, <3>6, <3>7, Zenon DEF ReadLineInv
  <2> QED
    BY <2>6, <2>7
<1> QED
  BY <1>10, <1>11

LEMMA ReadLineStutters ==
  ASSUME ReadLineInv, UNCHANGED readlineVars
  PROVE  ReadLineInv'
BY DEF ReadLineInv, readlineVars

\* The heap under readline, whatever is read and however often it is called: nothing is
\* ever released, and one long line marks all later buffers.
THEOREM ReadLineInvariance == Spec => []ReadLineInv
<1>1. ReadLineInv /\ [Next]_readlineVars => ReadLineInv'
  BY CallKeeps, ReadKeeps, ReadLineStutters DEF Next
<1> QED
  BY <1>1, ReadLineInitially, PTL DEF Spec

\* readline kills its caller by a line of more than twenty characters, or of more than four
\* after one of more than sixteen, and by no other; for any number of calls, and from a
\* file and a pipe as well.
THEOREM DiesOfLongLinesAlways == Spec => []DiesOfLongLines
<1>1. ReadLineInv => DiesOfLongLines
  BY DEF ReadLineInv, Fits, Spoils, Spoilt, DiesOfLongLines
<1> QED
  BY <1>1, ReadLineInvariance, PTL

-----------------------------------------------------------------------------
(* The lines of a terminal.                                                *)

LEMMA EndPlaces ==
  ASSUME NEW chars \in Seq(STRING)
  PROVE  /\ Len(chars) \in Nat
         /\ Ends(chars) = {i \in 1..Len(chars) : chars[i] \in {"nl", "eot"}}
         /\ \A i : /\ EndsBefore(chars, i) \in SUBSET (1..Len(chars))
                   /\ IsFiniteSet(EndsBefore(chars, i))
                   /\ Cardinality(EndsBefore(chars, i)) \in Nat
<1>1. Len(chars) \in Nat /\ DOMAIN chars = 1..Len(chars)
  BY LenProperties
<1>2. Ends(chars) = {i \in 1..Len(chars) : chars[i] \in {"nl", "eot"}}
  BY <1>1 DEF Ends
<1>3. \A i : EndsBefore(chars, i) \in SUBSET (1..Len(chars))
  BY <1>2 DEF EndsBefore
<1>4. IsFiniteSet(1..Len(chars))
  BY <1>1, FS_Interval
<1>5. ASSUME NEW i
      PROVE  IsFiniteSet(EndsBefore(chars, i)) /\ Cardinality(EndsBefore(chars, i)) \in Nat
  BY <1>3, <1>4, FS_Subset, FS_CardinalityType
<1> QED
  BY <1>1, <1>2, <1>3, <1>5

\* Where no line ends, none is counted.
LEMMA NoEnd ==
  ASSUME NEW chars \in Seq(STRING), NEW a \in Nat, NEW b \in Nat, a <= b,
         \A i \in a + 1..b : i \notin Ends(chars)
  PROVE  EndsBefore(chars, b + 1) = EndsBefore(chars, a + 1)
<1>1. \A e \in Ends(chars) : e \in Nat
  BY EndPlaces
<1>2. \A e \in Ends(chars) : e < b + 1 <=> e < a + 1
  <2> TAKE e \in Ends(chars)
  <2>1. e \in Nat /\ e \notin a + 1..b
    BY <1>1
  <2> QED
    BY <2>1
<1> QED
  BY <1>2 DEF EndsBefore

\* An end is one more.
LEMMA OneEnd ==
  ASSUME NEW chars \in Seq(STRING), NEW e \in Ends(chars)
  PROVE  Cardinality(EndsBefore(chars, e + 1)) = Cardinality(EndsBefore(chars, e)) + 1
<1>1. e \in Nat /\ \A i \in Ends(chars) : i \in Nat
  BY EndPlaces
<1>2. EndsBefore(chars, e + 1) = EndsBefore(chars, e) \cup {e}
  <2>1. \A i \in Ends(chars) : i < e + 1 <=> i < e \/ i = e
    BY <1>1
  <2> QED
    BY <2>1 DEF EndsBefore
<1>3. e \notin EndsBefore(chars, e)
  BY <1>1 DEF EndsBefore
<1> QED
  BY <1>2, <1>3, EndPlaces, FS_AddElement

\* The line that starts behind an end and goes on to the next.
LEMMA LineFrom ==
  ASSUME NEW chars \in Seq(STRING), NEW start \in Nat, NEW last \in Nat, start < last,
         start = 0 \/ start \in Ends(chars),
         \A i \in start + 1..last - 1 : i \notin Ends(chars)
  PROVE  LineTo(chars, last) = Got(SubSeq(chars, start + 1, last))
<1> DEFINE S == {0} \cup EndsBefore(chars, last)
<1>1. \A e \in Ends(chars) : e \in Nat
  BY EndPlaces
<1>2. start \in S
  BY DEF EndsBefore
<1>3. \A e \in S : e \in Nat /\ e <= start
  <2> TAKE e \in S
  <2>1. e = 0 \/ (e \in Ends(chars) /\ e < last)
    BY DEF EndsBefore
  <2>2. e \in Nat /\ (e = 0 \/ (e < last /\ e \notin start + 1..last - 1))
    BY <1>1, <2>1
  <2> QED
    BY <2>2
<1> HIDE DEF S
<1>4. \E x \in S : \A y \in S : x >= y
  BY <1>2, <1>3
<1>5. Max(S) \in S /\ \A y \in S : Max(S) >= y
  <2>1. (CHOOSE x \in S : \A y \in S : x >= y) \in S
        /\ \A y \in S : (CHOOSE x \in S : \A y_1 \in S : x >= y_1) >= y
    BY <1>4, Zenon
  <2> QED
    BY <2>1 DEF Max
<1>6. PICK g : g = Max(S)
  OBVIOUS
<1>7. g = start
  <2>1. g \in Nat /\ g <= start /\ g >= start
    BY <1>2, <1>3, <1>5, <1>6
  <2> QED
    BY <2>1
<1> QED
  BY <1>6, <1>7 DEF LineTo, S

\* A chunk from a terminal ends with its line, if not before.
LEMMA TypedPart ==
  ASSUME NEW s \in Inputs, s.kind = "terminal", NEW n \in 0..Len(s.chars),
         NEW taken \in read(s, n, MAX_BUF_SIZE)
  PROVE  LET m == Len(taken)
         IN  /\ taken \in Seq(STRING) /\ m \in 1..4 /\ n + m <= Len(s.chars)
             /\ \A i \in 1..m : taken[i] = s.chars[n + i]
             /\ \A i \in n + 1..n + m - 1 : i \notin Ends(s.chars)
             /\ m < 4 => n + m \in Ends(s.chars)
<1> DEFINE rest  == Rest(s, n)
           ends  == {i \in DOMAIN rest : rest[i] \in {"nl", "eot"}}
<1>1. s.chars \in Seq(STRING) /\ Len(s.chars) \in Nat /\ n \in Nat /\ n <= Len(s.chars)
  BY ReadLineAssumption, LenProperties
<1>2. /\ rest \in Seq(STRING) /\ Len(rest) = Len(s.chars) - n
      /\ \A i \in 1..(Len(s.chars) - n) : rest[i] = s.chars[n + i]
  <2>1. \A i \in n + 1..Len(s.chars) : s.chars[i] \in STRING
    BY <1>1, ElementOfSeq
  <2> QED
    BY <1>1, <2>1, SubSeqProperties DEF Rest
<1>3. rest # <<>> /\ taken = SubSeq(rest, 1, Min({4, LineEnd(rest)}))
  BY DEF read, MAX_BUF_SIZE
<1> HIDE DEF rest
<1>4. DOMAIN rest = 1..Len(rest) /\ Len(rest) \in Nat \ {0}
  BY <1>2, <1>3, EmptySeq, LenProperties
<1>5. Len(rest) \in ends
  <2>1. s.chars # <<>> /\ Len(s.chars) \in Nat \ {0}
    BY <1>1, <1>2, <1>4, EmptySeq
  <2>2. s.chars[Len(s.chars)] \in {"nl", "eot"}
    BY <2>1, InputsAssumption DEF Last
  <2>3. rest[Len(rest)] = s.chars[n + Len(rest)] /\ n + Len(rest) = Len(s.chars)
    BY <1>1, <1>2, <1>4
  <2> QED
    BY <1>4, <2>2, <2>3
<1>6. PICK e : e = LineEnd(rest)
  OBVIOUS
<1>7. e \in ends /\ \A i \in ends : e <= i
  <2>1. ends \in SUBSET Nat /\ ends # {}
    BY <1>4, <1>5
  <2> QED
    BY <1>6, <2>1, LeastNumber DEF LineEnd
<1>8. e \in 1..Len(rest) /\ rest[e] \in {"nl", "eot"}
      /\ \A i \in 1..Len(rest) : i < e => rest[i] \notin {"nl", "eot"}
  <2>1. e \in 1..Len(rest) /\ rest[e] \in {"nl", "eot"}
    BY <1>4, <1>7
  <2>2. ASSUME NEW i \in 1..Len(rest), i < e, rest[i] \in {"nl", "eot"}
        PROVE  FALSE
    <3>1. i \in ends
      BY <1>4, <2>2
    <3> QED
      BY <1>7, <2>1, <2>2, <3>1
  <2> QED
    BY <2>1, <2>2
<1> HIDE DEF ends
<1>9. PICK m : m = Min({4, e})
  OBVIOUS
<1>10. m \in 1..4 /\ m <= e /\ (m < 4 => m = e)
  <2>1. {4, e} \in SUBSET Nat /\ {4, e} # {}
    BY <1>8
  <2>2. m \in {4, e} /\ m <= 4 /\ m <= e
    BY <1>9, <2>1, LeastNumber
  <2> QED
    BY <1>8, <2>2
<1>11. m \in 1..Len(rest)
  BY <1>4, <1>8, <1>10
<1>12. /\ taken \in Seq(STRING) /\ Len(taken) = m
       /\ \A i \in 1..m : taken[i] = rest[i]
  <2>1. \A i \in 1..m : rest[i] \in STRING
    BY <1>2, <1>4, <1>11, ElementOfSeq
  <2>2. taken = SubSeq(rest, 1, m) /\ m \in Int /\ 1 <= m
    BY <1>3, <1>6, <1>9, <1>10
  <2> QED
    BY <1>10, <2>1, <2>2, SubSeqProperties
<1>13. \A i \in 1..Len(rest) : /\ rest[i] = s.chars[n + i] /\ n + i \in 1..Len(s.chars)
  BY <1>1, <1>2
<1>14. \A i \in n + 1..n + m - 1 : i \notin Ends(s.chars)
  <2> TAKE i \in n + 1..n + m - 1
  <2>1. PICK j : j = i - n
    OBVIOUS
  <2>2. j \in 1..Len(rest) /\ j < e /\ n + j = i
    BY <1>1, <1>4, <1>8, <1>10, <1>11, <2>1
  <2>3. s.chars[i] \notin {"nl", "eot"}
    BY <1>8, <1>13, <2>2
  <2> QED
    BY <1>1, <2>3, EndPlaces
<1>15. m < 4 => n + m \in Ends(s.chars)
  BY <1>1, <1>8, <1>10, <1>13, EndPlaces
<1>16. n + m <= Len(s.chars)
  BY <1>11, <1>13
<1>17. \A i \in 1..m : taken[i] = s.chars[n + i]
  <2> TAKE i \in 1..m
  <2>1. i \in 1..Len(rest)
    BY <1>4, <1>11
  <2> QED
    BY <1>12, <1>13, <2>1
<1> QED
  BY <1>10, <1>12, <1>14, <1>15, <1>16, <1>17

\* Only the key itself is read as one.
LEMMA NoKey ==
  ASSUME NEW taken \in Seq(STRING), Len(taken) = 1
  PROVE  taken[1] = "eot" => taken = <<"eot">>
<1>1. taken[1] \in STRING
  BY ElementOfSeq
<1>2. PICK c : c = taken[1]
  OBVIOUS
<1>3. <<c>> \in Seq(STRING) /\ Len(<<c>>) = 1 /\ <<c>>[1] = c
  BY <1>1, <1>2
<1>4. taken = <<c>>
  BY <1>2, <1>3, SeqEqual
<1> QED
  BY <1>2, <1>4

\* The len characters of a text that lie behind place a.
IsStretch(part, chars, a, len) ==
  part \in Seq(STRING) /\ Len(part) = len /\ \A i \in 1..len : part[i] = chars[a + i]

LEMMA StretchOf ==
  ASSUME NEW chars, NEW a, NEW len, NEW end,
         chars \in Seq(STRING), a \in Nat, len \in Nat, end = a + len, end <= Len(chars)
  PROVE  IsStretch(SubSeq(chars, a + 1, end), chars, a, len)
<1>1. PICK part : part = SubSeq(chars, a + 1, end)
  OBVIOUS
<1>2. end \in Nat /\ Len(chars) \in Nat /\ a + 1 \in Int /\ end \in Int
  BY LenProperties
<1>3. \A i \in a + 1..end : chars[i] \in STRING
  BY <1>2, ElementOfSeq
<1>4. LET p == SubSeq(chars, a + 1, end)
      IN  /\ p \in Seq(STRING)
          /\ Len(p) = IF a + 1 <= end THEN end - (a + 1) + 1 ELSE 0
          /\ \A i \in 1..end - (a + 1) + 1 : p[i] = chars[(a + 1) + i - 1]
  BY <1>2, <1>3, SubSeqProperties
<1>5. /\ part \in Seq(STRING)
      /\ Len(part) = IF a + 1 <= end THEN end - (a + 1) + 1 ELSE 0
      /\ \A i \in 1..end - (a + 1) + 1 : part[i] = chars[(a + 1) + i - 1]
  BY <1>1, <1>4, Zenon
<1>6. /\ end - (a + 1) + 1 = len /\ (~(a + 1 <= end) => len = 0)
      /\ \A i \in 1..len : (a + 1) + i - 1 = a + i
  BY <1>2
<1>7. part \in Seq(STRING) /\ Len(part) = len
  BY <1>5, <1>6
<1>8. \A i \in 1..len : part[i] = chars[a + i]
  BY <1>5, <1>6
<1> QED
  BY <1>1, <1>7, <1>8 DEF IsStretch

\* A stretch and the one that follows it are one.
LEMMA StretchesMeet ==
  ASSUME NEW chars, NEW a, NEW k, NEW b, NEW m, NEW len, NEW old, NEW taken, NEW all,
         a \in Nat, k \in Nat, m \in Nat, b = a + k, len = k + m,
         IsStretch(old, chars, a, k), IsStretch(taken, chars, b, m),
         IsStretch(all, chars, a, len)
  PROVE  old \o taken = all
<1>1. /\ old \in Seq(STRING) /\ Len(old) = k /\ taken \in Seq(STRING) /\ Len(taken) = m
      /\ all \in Seq(STRING) /\ Len(all) = len
  BY DEF IsStretch
<1>2. PICK both : both = old \o taken
  OBVIOUS
<1>3. both \in Seq(STRING) /\ Len(both) = len
  BY <1>1, <1>2, ConcatProperties
<1>4. \A i \in 1..len : both[i] = IF i <= k THEN old[i] ELSE taken[i - k]
  <2>1. \A i \in 1..Len(old) + Len(taken) :
          (old \o taken)[i] = IF i <= Len(old) THEN old[i] ELSE taken[i - Len(old)]
    BY <1>1, ConcatProperties
  <2> QED
    BY <1>1, <1>2, <2>1
<1>5. ASSUME NEW i \in 1..len
      PROVE  both[i] = all[i]
  <2>1. all[i] = chars[a + i]
    BY <1>5 DEF IsStretch
  <2>2. CASE i <= k
    <3>1. i \in 1..k
      BY <1>5, <2>2
    <3>2. old[i] = chars[a + i]
      BY <3>1 DEF IsStretch
    <3> QED
      BY <1>4, <1>5, <2>1, <2>2, <3>2
  <2>3. CASE ~(i <= k)
    <3>1. PICK j : j = i - k
      OBVIOUS
    <3>2. j \in 1..m /\ b + j = a + i
      BY <1>5, <2>3, <3>1
    <3>3. taken[j] = chars[a + i]
      BY <3>2 DEF IsStretch
    <3> QED
      BY <1>4, <1>5, <2>1, <2>3, <3>1, <3>3
  <2> QED
    BY <2>2, <2>3
<1> QED
  BY <1>1, <1>2, <1>3, <1>5, SeqEqual

\* As many lines have been typed, up to here, as have been returned.
LinesDone(start) ==
  /\ start = 0 \/ start \in Ends(source.chars)
  /\ Cardinality(EndsBefore(source.chars, start + 1)) = Len(returned)

\* The buffer has what was typed of the next one.
Typing ==
  \E start \in 0..at :
    /\ LinesDone(start)
    /\ \A i \in start + 1..at : i \notin Ends(source.chars)
    /\ text = SubSeq(source.chars, start + 1, at)

TypedInv ==
  /\ ReadLineInv
  /\ TerminalLines
  /\ source.kind = "terminal" =>
       /\ pc = "idle" => LinesDone(at)
       /\ pc = "read" => Typing

LEMMA TypedInitially == Init => TypedInv
<1> SUFFICES ASSUME Init PROVE TypedInv
  OBVIOUS
<1>1. ReadLineInv
  BY ReadLineInitially
<1>2. at = 0 /\ returned = <<>> /\ pc = "idle" /\ source.chars \in Seq(STRING)
  BY <1>1, ReadLineAssumption DEF Init, ReadLineInv
<1>3. TerminalLines
  BY <1>2 DEF TerminalLines
<1>4. EndsBefore(source.chars, 0 + 1) = {}
  BY <1>2, EndPlaces DEF EndsBefore
<1>5. LinesDone(0)
  BY <1>2, <1>4, FS_EmptySet DEF LinesDone
<1> QED
  BY <1>1, <1>2, <1>3, <1>5 DEF TypedInv

LEMMA CallKeepsTyped ==
  ASSUME TypedInv, Call
  PROVE  TypedInv'
<1>1. ReadLineInv'
  BY CallKeeps DEF TypedInv
<1>2. /\ pc = "idle" /\ pc' = "read" /\ text' = <<>>
      /\ source' = source /\ at' = at /\ returned' = returned
  BY DEF Call
<1>3. TerminalLines'
  BY <1>2 DEF TypedInv, TerminalLines
<1>4. ASSUME source.kind = "terminal"
      PROVE  Typing'
  <2>1. LinesDone(at)'
    BY <1>2, <1>4 DEF TypedInv, LinesDone
  <2>2. at \in Nat /\ source.chars \in Seq(STRING)
    BY ReadLineAssumption, LenProperties DEF TypedInv, ReadLineInv
  <2>3. at \in 0..at /\ \A i \in at + 1..at : i \notin Ends(source.chars)
    BY <2>2
  <2>4. SubSeq(source.chars, at + 1, at) = <<>>
    BY <2>2, SubSeqEmpty
  <2> QED
    BY <1>2, <2>1, <2>3, <2>4 DEF Typing, LinesDone
<1> QED
  BY <1>1, <1>2, <1>3, <1>4 DEF TypedInv

\* What readline has of the line, with the chunk it reads: it goes on after the chunk only
\* if no line ends there, and what it returns is the line.
LEMMA ReadTyped ==
  ASSUME TypedInv, readline, source.kind = "terminal"
  PROVE  /\ source' = source
         /\ pc' = "read" => returned' = returned /\ Typing'
         /\ pc' = "dead" => returned' = returned
         /\ pc' = "idle" =>
              /\ at' \in Ends(source.chars)
              /\ Cardinality(EndsBefore(source.chars, at')) = Len(returned)
              /\ returned' = Append(returned, LineTo(source.chars, at'))
<1>1. PICK taken \in read(source, at, MAX_BUF_SIZE) :
        LET got == Got(taken)
        IN  /\ at' = at + Len(taken)
            /\ text' = text \o got
            /\ last_chunk(got) => pc' = "idle" /\ returned' = Append(returned, text')
            /\ ~last_chunk(got) => pc' \in {"read", "dead"} /\ returned' = returned
  BY DEF readline
<1>2. pc = "read" /\ source' = source
  BY DEF readline
<1>3. PICK chars : chars = source.chars
  OBVIOUS
<1>4. source \in Inputs /\ at \in 0..Len(chars) /\ at \in Nat /\ chars \in Seq(STRING)
  BY <1>3, ReadLineAssumption, LenProperties DEF TypedInv, ReadLineInv
<1>5. PICK start \in 0..at :
        /\ LinesDone(start)
        /\ \A i \in start + 1..at : i \notin Ends(chars)
        /\ text = SubSeq(chars, start + 1, at)
  BY <1>2, <1>3 DEF TypedInv, Typing
<1>6. PICK m : m = Len(taken)
  OBVIOUS
<1>7. /\ taken \in Seq(STRING) /\ m \in 1..4 /\ at + m <= Len(chars)
      /\ \A i \in 1..m : taken[i] = chars[at + i]
      /\ \A i \in at + 1..at + m - 1 : i \notin Ends(chars)
      /\ m < 4 => at + m \in Ends(chars)
  BY <1>3, <1>4, <1>6, TypedPart
<1>8. PICK end : end = at + m
  OBVIOUS
<1>9. /\ start \in Nat /\ start <= at /\ end \in Nat /\ start < end
      /\ end \in 1..Len(chars) /\ end <= Len(chars) /\ at < end /\ at' = end
  BY <1>1, <1>4, <1>6, <1>7, <1>8, EndPlaces
<1>10. \A i \in start + 1..end - 1 : i \notin Ends(chars)
  <2> TAKE i \in start + 1..end - 1
  <2>1. i \in start + 1..at \/ i \in at + 1..at + m - 1
    BY <1>4, <1>7, <1>8, <1>9
  <2> QED
    BY <1>5, <1>7, <2>1
<1>11. Cardinality(EndsBefore(chars, end)) = Len(returned)
  <2> PICK b : b = end - 1
    OBVIOUS
  <2>1. start \in Nat /\ b \in Nat /\ start <= b /\ end = b + 1
    BY <1>9
  <2>2. \A i \in start + 1..b : i \notin Ends(chars)
    BY <1>10
  <2>3. chars \in Seq(STRING)
    BY <1>4
  <2>4. EndsBefore(chars, b + 1) = EndsBefore(chars, start + 1)
    BY <2>1, <2>2, <2>3, NoEnd
  <2> QED
    BY <1>3, <1>5, <2>1, <2>4 DEF LinesDone
<1>12. LineTo(chars, end) = Got(SubSeq(chars, start + 1, end))
  <2>1. start = 0 \/ start \in Ends(chars)
    BY <1>3, <1>5 DEF LinesDone
  <2> QED
    BY <1>4, <1>9, <1>10, <2>1, LineFrom
<1>13. /\ SubSeq(chars, start + 1, at) \o taken = SubSeq(chars, start + 1, end)
       /\ SubSeq(chars, start + 1, end) \in Seq(STRING)
       /\ Len(SubSeq(chars, start + 1, end)) = end - start
       /\ SubSeq(chars, start + 1, end)[end - start] = chars[end]
  <2>1. PICK k : k = at - start
    OBVIOUS
  <2>2. PICK len : len = end - start
    OBVIOUS
  <2>3. /\ k \in Nat /\ m \in Nat /\ len \in Nat \ {0} /\ len = k + m
        /\ at = start + k /\ end = start + len /\ end \in Nat /\ end <= Len(chars)
    BY <1>4, <1>7, <1>8, <1>9, <2>1, <2>2
  <2>4. at <= Len(chars)
    BY <1>4, LenProperties
  <2>5. PICK old : old = SubSeq(chars, start + 1, at)
    OBVIOUS
  <2>6. PICK all : all = SubSeq(chars, start + 1, end)
    OBVIOUS
  <2>7. IsStretch(old, chars, start, k)
    BY <1>4, <1>9, <2>3, <2>4, <2>5, StretchOf
  <2>8. IsStretch(all, chars, start, len)
    BY <1>4, <1>9, <2>3, <2>6, StretchOf
  <2>9. IsStretch(taken, chars, at, m)
    BY <1>6, <1>7 DEF IsStretch
  <2>10. old \o taken = all
    BY <1>9, <2>3, <2>7, <2>8, <2>9, StretchesMeet
  <2>11. all \in Seq(STRING) /\ Len(all) = len
    BY <2>8 DEF IsStretch
  <2>12. all[len] = chars[end]
    BY <2>3, <2>8 DEF IsStretch
  <2> QED
    BY <2>2, <2>5, <2>6, <2>10, <2>11, <2>12
\* The end-of-file key ends no line but its own.
<1>14. chars[end] = "eot" => end = start + 1
  <2>1. SUFFICES ASSUME chars[end] = "eot", end # start + 1
                 PROVE  FALSE
    OBVIOUS
  <2>2. end = 1 \/ chars[end - 1] \in {"nl", "eot"}
    BY <1>3, <1>4, <1>9, <2>1, InputsAssumption, LenProperties
  <2>3. end # 1 /\ end - 1 \in start + 1..end - 1 /\ end - 1 \in 1..Len(chars)
    BY <1>4, <1>9, <2>1, EndPlaces
  <2>4. end - 1 \in Ends(chars)
    BY <1>4, <2>2, <2>3, EndPlaces
  <2> QED
    BY <1>10, <2>3, <2>4
<1>15. CASE chars[end] = "eot"
  <2>1. start = at /\ m = 1 /\ end = at + 1
    BY <1>4, <1>7, <1>8, <1>9, <1>14, <1>15
  <2>2. taken = <<"eot">>
    <3>1. Len(taken) = 1 /\ taken[1] = chars[end]
      BY <1>6, <1>7, <2>1
    <3> QED
      BY <1>7, <1>15, <3>1, NoKey
  <2>3. Got(taken) = <<>>
    BY <2>2 DEF Got
  <2>4. SubSeq(chars, start + 1, end) = <<"eot">>
    <3>1. SubSeq(chars, start + 1, at) \o taken = SubSeq(chars, start + 1, end)
      BY <1>13
    <3>2. SubSeq(chars, start + 1, at) = <<>>
      BY <1>4, <2>1, SubSeqEmpty
    <3> QED
      BY <1>7, <2>2, <3>1, <3>2, ConcatEmptySeq
  <2>5. text = <<>>
    BY <1>4, <1>5, <2>1, SubSeqEmpty
  <2>6. text' = <<>> /\ pc' = "idle" /\ returned' = Append(returned, text')
    <3>1. last_chunk(<<>>)
      BY DEF last_chunk, MAX_BUF_SIZE
    <3>2. <<>> \o <<>> = <<>>
      BY EmptySeq, ConcatEmptySeq
    <3> QED
      BY <1>1, <2>3, <2>5, <3>1, <3>2
  <2>7. LineTo(chars, end) = <<>>
    BY <1>12, <2>4 DEF Got
  <2>8. end \in Ends(chars)
    BY <1>4, <1>9, <1>15, EndPlaces
  <2> QED
    BY <1>2, <1>3, <1>9, <1>11, <2>6, <2>7, <2>8
<1>16. CASE chars[end] # "eot"
  <2>1. taken # <<"eot">>
    <3>1. SUFFICES ASSUME taken = <<"eot">> PROVE FALSE
      OBVIOUS
    <3>2. m = 1 /\ taken[1] = "eot"
      BY <1>6, <3>1
    <3> QED
      BY <1>7, <1>8, <1>16, <3>2
  <2>2. Got(taken) = taken
    BY <2>1 DEF Got
  <2> DEFINE line == SubSeq(chars, start + 1, end)
  <2>3. /\ text \o taken = line
        /\ line \in Seq(STRING) /\ Len(line) = end - start /\ line[end - start] = chars[end]
    BY <1>5, <1>13
  <2> HIDE DEF line
  <2>4. text' = line
    BY <1>1, <2>2, <2>3
  <2>5. LineTo(chars, end) = line
    <3>1. line # <<"eot">>
      <4>1. SUFFICES ASSUME line = <<"eot">> PROVE FALSE
        OBVIOUS
      <4>2. Len(line) = 1 /\ line[1] = "eot"
        BY <4>1
      <4> QED
        BY <1>16, <2>3, <4>2
    <3> QED
      BY <1>12, <3>1 DEF line, Got
  <2>6. last_chunk(taken) <=> end \in Ends(chars)
    <3>1. Last(taken) = chars[end]
      BY <1>6, <1>7, <1>8 DEF Last
    <3>2. last_chunk(taken) <=> m < 4 \/ chars[end] = "nl"
      BY <1>6, <3>1 DEF last_chunk, MAX_BUF_SIZE
    <3>3. end \in Ends(chars) <=> chars[end] = "nl"
      BY <1>4, <1>9, <1>16, EndPlaces
    <3> QED
      BY <1>7, <1>8, <3>2, <3>3
  <2>7. CASE end \in Ends(chars)
    <3>1. pc' = "idle" /\ returned' = Append(returned, line)
      BY <1>1, <2>2, <2>4, <2>6, <2>7
    <3> QED
      BY <1>2, <1>3, <1>9, <1>11, <2>5, <2>7, <3>1
  <2>8. CASE end \notin Ends(chars)
    <3>1. pc' \in {"read", "dead"} /\ returned' = returned
      BY <1>1, <2>2, <2>6, <2>8
    <3>2. \A i \in start + 1..end : i \notin Ends(chars)
      <4> TAKE i \in start + 1..end
      <4>1. i = end \/ i \in start + 1..end - 1
        BY <1>9
      <4> QED
        BY <1>10, <2>8, <4>1
    <3>3. LinesDone(start)' /\ start \in 0..end
      BY <1>2, <1>5, <1>9, <3>1 DEF LinesDone
    <3>4. Typing'
      BY <1>2, <1>3, <1>9, <2>4, <3>2, <3>3 DEF Typing, line
    <3> QED
      BY <1>2, <3>1, <3>4
  <2> QED
    BY <2>7, <2>8
<1> QED
  BY <1>15, <1>16

LEMMA ReadKeepsTyped ==
  ASSUME TypedInv, readline
  PROVE  TypedInv'
<1>1. ReadLineInv' /\ pc' \in {"idle", "read", "dead"}
  BY ReadKeeps DEF TypedInv, ReadLineInv
<1>2. source' = source
  BY DEF readline
<1>3. CASE source.kind # "terminal"
  BY <1>1, <1>2, <1>3 DEF TypedInv, TerminalLines
<1>4. CASE source.kind = "terminal" /\ pc' = "read"
  <2>1. returned' = returned /\ Typing'
    BY <1>4, ReadTyped
  <2> QED
    BY <1>1, <1>2, <1>4, <2>1 DEF TypedInv, TerminalLines
<1>5. CASE source.kind = "terminal" /\ pc' = "dead"
  <2>1. returned' = returned
    BY <1>5, ReadTyped
  <2> QED
    BY <1>1, <1>2, <1>5, <2>1 DEF TypedInv, TerminalLines
<1>6. CASE source.kind = "terminal" /\ pc' = "idle"
  <2>1. PICK chars, end, line : chars = source.chars /\ end = at' /\ line = LineTo(chars, end)
    OBVIOUS
  <2>2. /\ end \in Ends(chars)
        /\ Cardinality(EndsBefore(chars, end)) = Len(returned)
        /\ returned' = Append(returned, line)
    BY <1>6, <2>1, ReadTyped
  <2>3. chars \in Seq(STRING) /\ returned \in Seq(Seq(STRING)) /\ Len(returned) \in Nat
    BY <2>1, ReadLineAssumption, LenProperties DEF TypedInv, ReadLineInv
  <2>4. /\ DOMAIN returned = 1..Len(returned) /\ DOMAIN returned' = 1..Len(returned) + 1
        /\ Len(returned') = Len(returned) + 1
        /\ \A k \in 1..Len(returned) : returned'[k] = returned[k]
        /\ returned'[Len(returned) + 1] = line
    BY <2>2, <2>3
  <2>5. LinesDone(end)'
    <3>1. Cardinality(EndsBefore(chars, end + 1)) = Len(returned) + 1
      BY <2>2, <2>3, OneEnd
    <3> QED
      BY <1>2, <2>1, <2>2, <2>4, <3>1 DEF LinesDone
  <2>6. ASSUME NEW k \in 1..Len(returned) + 1
        PROVE  \E last \in Ends(chars) :
                 /\ Cardinality(EndsBefore(chars, last)) = k - 1
                 /\ returned'[k] = LineTo(chars, last)
    <3>1. CASE k \in 1..Len(returned)
      BY <1>6, <2>1, <2>4, <3>1 DEF TypedInv, TerminalLines
    <3>2. CASE k = Len(returned) + 1
      <4>1. Cardinality(EndsBefore(chars, end)) = k - 1
        BY <2>2, <2>3, <3>2
      <4>2. returned'[k] = LineTo(chars, end)
        BY <2>1, <2>4, <3>2
      <4> QED
        BY <2>2, <4>1, <4>2
    <3> QED
      BY <2>3, <3>1, <3>2
  <2>7. TerminalLines'
    BY <1>2, <2>1, <2>4, <2>6 DEF TerminalLines
  <2> QED
    BY <1>1, <1>6, <2>1, <2>5, <2>7 DEF TypedInv
<1> QED
  BY <1>1, <1>3, <1>4, <1>5, <1>6

LEMMA TypedStutters ==
  ASSUME TypedInv, UNCHANGED readlineVars
  PROVE  TypedInv'
<1>1. ReadLineInv'
  BY ReadLineStutters DEF TypedInv
<1> QED
  BY <1>1 DEF TypedInv, TerminalLines, Typing, LinesDone, readlineVars

\* From a terminal, the calls return the lines that were typed, each of them once and in
\* their order; whatever is typed, and however often readline is called.
THEOREM TerminalLinesAlways == Spec => []TerminalLines
<1>1. TypedInv /\ [Next]_readlineVars => TypedInv'
  BY CallKeepsTyped, ReadKeepsTyped, TypedStutters DEF Next
<1>2. TypedInv => TerminalLines
  BY DEF TypedInv
<1> QED
  BY <1>1, <1>2, TypedInitially, PTL DEF Spec
=============================================================================
