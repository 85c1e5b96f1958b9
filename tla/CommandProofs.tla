---------------------------- MODULE CommandProofs ----------------------------
(***************************************************************************)
(* The memory of the shell, for every session and every size of the table  *)
(* of the environment.                                                     *)
(***************************************************************************)
EXTENDS CommandMemory, HeapProofs

-----------------------------------------------------------------------------
(* A fold is a chain of steps.                                             *)

\* What holds of 0, and of each number if of the one before, holds up to n.
LEMMA UpTo ==
  ASSUME NEW n \in Nat, NEW good, 0 \in good, \A k \in 1..n : k - 1 \in good => k \in good
  PROVE  \A k \in 0..n : k \in good
<1> DEFINE bad == {k \in 0..n : k \notin good}
<1> SUFFICES ASSUME bad # {} PROVE FALSE
  OBVIOUS
<1>1. bad \in SUBSET Nat
  OBVIOUS
<1>2. PICK m \in bad : \A k \in bad : m <= k
  BY <1>1, LeastNumber
<1>3. m \in 1..n /\ m - 1 \in 0..n
  BY <1>2
<1>4. m - 1 \notin bad
  BY <1>2, <1>3
<1> QED
  BY <1>2, <1>3, <1>4

LEMMA GreatestNumber ==
  ASSUME NEW n \in Nat, NEW S \in SUBSET (1..n), S # {}
  PROVE  Max(S) \in S /\ \A k \in S : k <= Max(S)
<1> DEFINE above == {m \in 0..n : \A k \in S : k <= m}
<1>1. n \in above /\ above \in SUBSET Nat
  OBVIOUS
<1>2. PICK m \in above : \A k \in above : m <= k
  BY <1>1, LeastNumber
<1>3. m \in S
  <2> SUFFICES ASSUME m \notin S PROVE FALSE
    OBVIOUS
  <2>1. m \in 0..n /\ \A k \in S : k <= m /\ k # m /\ k \in 1..n
    BY <1>2
  <2>2. m # 0
    <3>1. PICK k \in S : TRUE
      OBVIOUS
    <3> QED
      BY <2>1, <3>1
  <2>3. m - 1 \in above
    BY <2>1, <2>2
  <2> QED
    BY <1>2, <2>1, <2>3
<1>4. \A k \in S : m >= k
  BY <1>2
<1> QED
  BY <1>3, <1>4 DEF Max

LEMMA Subsets ==
  ASSUME NEW n \in Nat
  PROVE  /\ 1..0 = {} /\ 1..n \in SUBSET (1..n) /\ {} \in SUBSET (1..n)
         /\ \A s \in SUBSET (1..n) :
              s # {} => Max(s) \in 1..n /\ s \ {Max(s)} \in SUBSET (1..n)
         /\ \A k \in 1..n : /\ 1..k \in SUBSET (1..n) /\ 1..k # {}
                           /\ Max(1..k) = k /\ (1..k) \ {Max(1..k)} = 1..(k - 1)
<1>1. \A s \in SUBSET (1..n) : s # {} => Max(s) \in 1..n /\ s \ {Max(s)} \in SUBSET (1..n)
  BY GreatestNumber
<1>2. ASSUME NEW k \in 1..n
      PROVE  /\ 1..k \in SUBSET (1..n) /\ 1..k # {}
             /\ Max(1..k) = k /\ (1..k) \ {Max(1..k)} = 1..(k - 1)
  <2>1. 1..k \in SUBSET (1..n) /\ k \in 1..k
    OBVIOUS
  <2>2. Max(1..k) \in 1..k /\ k <= Max(1..k)
    BY <2>1, GreatestNumber
  <2>3. Max(1..k) = k
    BY <2>2
  <2> QED
    BY <2>1, <2>3
<1>3. 1..0 = {}
  OBVIOUS
<1> QED
  BY <1>1, <1>2, <1>3

\* A step on the values of a set can be taken along the numbers of every subset of 1..n.
Along(g, I, n, base, F) ==
  /\ g \in [SUBSET (1..n) -> I]
  /\ \A s \in SUBSET (1..n) :
       g[s] = IF s = {} THEN base ELSE F[<<g[s \ {Max(s)}], Max(s)>>]

LEMMA Chained ==
  ASSUME NEW I, NEW n \in Nat, NEW base \in I, NEW F \in [I \X (1..n) -> I]
  PROVE  \E g : Along(g, I, n, base, F)
<1> DEFINE Runs(g, k) == \A s \in SUBSET (1..k) :
                           g[s] = IF s = {} THEN base ELSE F[<<g[s \ {Max(s)}], Max(s)>>]
           good == {k \in 0..n : \E g \in [SUBSET (1..k) -> I] : Runs(g, k)}
<1>1. 0 \in good
  <2> DEFINE g == [s \in SUBSET (1..0) |-> base]
  <2>1. 1..0 = {}
    OBVIOUS
  <2>2. g \in [SUBSET (1..0) -> I] /\ Runs(g, 0)
    BY <2>1
  <2> HIDE DEF g, Runs
  <2>3. 0 \in 0..n
    OBVIOUS
  <2> QED
    BY <2>2, <2>3
<1>2. ASSUME NEW k \in 1..n, k - 1 \in good PROVE k \in good
  <2>1. PICK f \in [SUBSET (1..(k - 1)) -> I] : Runs(f, k - 1)
    BY <1>2
  <2> DEFINE g == [s \in SUBSET (1..k) |->
                     IF k \in s THEN F[<<f[s \ {k}], k>>] ELSE f[s]]
  <2>2. ASSUME NEW s \in SUBSET (1..k)
        PROVE  /\ k \notin s => s \in SUBSET (1..(k - 1))
               /\ k \in s => s \ {k} \in SUBSET (1..(k - 1)) /\ Max(s) = k
    <3>1. k \notin s => s \in SUBSET (1..(k - 1))
      OBVIOUS
    <3>2. s \ {k} \in SUBSET (1..(k - 1))
      OBVIOUS
    <3>3. k \in s => Max(s) = k
      <4>1. s \in SUBSET (1..n)
        OBVIOUS
      <4>2. s # {} => Max(s) \in s /\ \A j \in s : j <= Max(s)
        BY <4>1, GreatestNumber
      <4>3. k \in s => Max(s) \in 1..k /\ k <= Max(s)
        BY <4>2
      <4> QED
        BY <4>3
    <3> QED
      BY <3>1, <3>2, <3>3
  <2>3. g \in [SUBSET (1..k) -> I]
    <3>1. ASSUME NEW s \in SUBSET (1..k) PROVE g[s] \in I
      <4>1. CASE k \in s
        <5>1. f[s \ {k}] \in I
          BY <2>1, <2>2, <4>1
        <5> QED
          BY <4>1, <5>1
      <4>2. CASE k \notin s
        BY <2>1, <2>2, <4>2
      <4> QED
        BY <4>1, <4>2
    <3> QED
      BY <3>1
  <2>4. Runs(g, k)
    <3> SUFFICES ASSUME NEW s \in SUBSET (1..k)
                 PROVE  g[s] = IF s = {} THEN base ELSE F[<<g[s \ {Max(s)}], Max(s)>>]
      OBVIOUS
    <3>1. CASE k \in s
      <4>1. Max(s) = k /\ s \ {k} \in SUBSET (1..(k - 1)) /\ s \ {k} \in SUBSET (1..k)
        BY <2>2, <3>1
      <4>2. g[s \ {k}] = f[s \ {k}]
        BY <4>1
      <4> QED
        BY <3>1, <4>1, <4>2
    <3>2. CASE k \notin s
      <4>1. s \in SUBSET (1..(k - 1)) /\ g[s] = f[s]
        BY <2>2, <3>2
      <4>2. s # {} => Max(s) \in s
        <5>1. s \in SUBSET (1..n)
          OBVIOUS
        <5> QED
          BY <5>1, GreatestNumber
      <4>3. g[s \ {Max(s)}] = f[s \ {Max(s)}]
        BY <3>2
      <4>4. f[s] = IF s = {} THEN base ELSE F[<<f[s \ {Max(s)}], Max(s)>>]
        BY <2>1, <4>1
      <4> QED
        BY <4>1, <4>3, <4>4
    <3> QED
      BY <3>1, <3>2
  <2> HIDE DEF g, Runs
  <2> QED
    BY <2>3, <2>4
<1>3. n \in good
  <2> HIDE DEF good
  <2> QED
    BY <1>1, <1>2, UpTo
<1> QED
  BY <1>3 DEF Along

\* The values that a fold takes, from the first to the last.
Steps(h, I, n, base, F, last) ==
  /\ h \in [0..n -> I] /\ h[0] = base /\ h[n] = last
  /\ \A k \in 1..n : h[k] = F[<<h[k - 1], k>>]

\* Of what a fold computes for every subset of 1..n, the prefixes are its steps.
LEMMA FoldSteps ==
  ASSUME NEW I, NEW n \in Nat, NEW base \in I, NEW F \in [I \X (1..n) -> I],
         NEW it, it[{}] = base,
         \A s \in SUBSET (1..n) :
           s # {} /\ it[s \ {Max(s)}] \in I => it[s] = F[<<it[s \ {Max(s)}], Max(s)>>]
  PROVE  \E h : Steps(h, I, n, base, F, it[1..n])
<1> DEFINE h == [k \in 0..n |-> it[1..k]]
           good == {k \in 0..n : h[k] \in I}
<1>1. h[0] = base
  <2>1. 1..0 = {} /\ 0 \in 0..n
    OBVIOUS
  <2>2. it[1..0] = base
    BY <2>1
  <2> QED
    BY <2>1, <2>2
<1>2. ASSUME NEW k \in 1..n, h[k - 1] \in I PROVE h[k] = F[<<h[k - 1], k>>]
  <2>1. h[k] = it[1..k] /\ h[k - 1] = it[1..(k - 1)]
    OBVIOUS
  <2>2. 1..k \in SUBSET (1..n) /\ 1..k # {} /\ Max(1..k) = k /\ (1..k) \ {k} = 1..(k - 1)
    BY Subsets
  <2> HIDE DEF h
  <2> QED
    BY <1>2, <2>1, <2>2
<1>3. 0 \in good
  BY <1>1
<1>4. ASSUME NEW k \in 1..n, k - 1 \in good PROVE k \in good
  <2>1. h[k - 1] \in I /\ k \in 0..n
    BY <1>4
  <2>2. h[k] = F[<<h[k - 1], k>>]
    BY <1>2, <2>1
  <2> HIDE DEF h
  <2> QED
    BY <2>1, <2>2
<1>5. \A k \in 0..n : k \in good
  <2> HIDE DEF good
  <2> QED
    BY <1>3, <1>4, UpTo
<1>6. h \in [0..n -> I] /\ h[n] = it[1..n]
  BY <1>5
<1>7. \A k \in 1..n : k - 1 \in 0..n
  OBVIOUS
<1>8. \A k \in 1..n : h[k] = F[<<h[k - 1], k>>]
  <2> HIDE DEF h
  <2> QED
    BY <1>2, <1>6, <1>7
<1> QED
  BY <1>1, <1>6, <1>8 DEF Steps

\* The length of a text is no less than that of each of its words.
LEMMA TextLengthBounds ==
  ASSUME NEW words \in Seq(Words), words # <<>>, NEW command, command.words = words
  PROVE  /\ TextLength(command) \in Nat
         /\ \A k \in 1..Len(words) : words[k].len <= TextLength(command)
<1> DEFINE n == Len(words)
           base == Len(words) - 1
           F == [p \in Nat \X (1..n) |-> p[1] + words[p[2]].len]
           D == 1..n
           Runs(f) == f = [s \in SUBSET D |->
                             IF s = {} THEN base
                             ELSE LET x == Max(s) IN f[s \ {x}] + words[x].len]
           it == CHOOSE f : Runs(f)
<1>1. n \in Nat \ {0} /\ D = DOMAIN words
  BY LenProperties, EmptySeq
<1>2. base \in Nat
  BY <1>1
<1>3. \A k \in 1..n : words[k].len \in Nat
  <2>1. \A k \in 1..n : words[k] \in Words
    BY ElementOfSeq
  <2> QED
    BY <2>1 DEF Words
<1>4. TextLength(command) = it[D]
  BY <1>1 DEF TextLength, FoldLeft, MapThenFoldSet
<1> HIDE DEF n, base
<1>5. F \in [Nat \X (1..n) -> Nat]
  BY <1>3
<1>6. PICK g : Along(g, Nat, n, base, F)
  <2> HIDE DEF F
  <2> QED
    BY <1>1, <1>2, <1>5, Chained
<1>7. Runs(g)
  <2>1. g \in [SUBSET D -> Nat]
    BY <1>6 DEF Along
  <2>2. \A s \in SUBSET D : s # {} => Max(s) \in D /\ s \ {Max(s)} \in SUBSET D
    BY <1>1, Subsets
  <2>3. \A s \in SUBSET D :
          g[s] = IF s = {} THEN base ELSE g[s \ {Max(s)}] + words[Max(s)].len
    BY <1>6, <2>1, <2>2 DEF Along
  <2> QED
    BY <2>1, <2>3
<1>8. Runs(it)
  BY <1>7
<1>9. \A s \in SUBSET D :
         it[s] = IF s = {} THEN base ELSE it[s \ {Max(s)}] + words[Max(s)].len
  <2> HIDE DEF it
  <2> QED
    BY <1>8
<1> HIDE DEF it, Runs
<1>10. it[{}] = base
  BY <1>9
<1>11. \A s \in SUBSET (1..n) :
          s # {} /\ it[s \ {Max(s)}] \in Nat => it[s] = F[<<it[s \ {Max(s)}], Max(s)>>]
  BY <1>1, <1>9, Subsets
<1>12. PICK h : Steps(h, Nat, n, base, F, it[1..n])
  <2> HIDE DEF F
  <2> QED
    BY <1>1, <1>2, <1>5, <1>10, <1>11, FoldSteps
<1>13. /\ h \in [0..n -> Nat] /\ h[n] = TextLength(command)
       /\ \A k \in 1..n : h[k] = h[k - 1] + words[k].len
  <2>1. h \in [0..n -> Nat] /\ h[n] = TextLength(command)
    BY <1>4, <1>12 DEF Steps
  <2>2. ASSUME NEW k \in 1..n PROVE h[k] = h[k - 1] + words[k].len
    <3>1. k - 1 \in 0..n
      BY <1>1
    <3> QED
      BY <1>12, <2>1, <3>1 DEF Steps
  <2> QED
    BY <2>1, <2>2
<1> DEFINE good == {k \in 0..n : \A j \in 1..k : words[j].len <= h[k]}
<1>14. 0 \in good
  BY <1>1
<1>15. ASSUME NEW k \in 1..n, k - 1 \in good PROVE k \in good
  <2>1. \A j \in 1..(k - 1) : words[j].len <= h[k - 1]
    BY <1>15
  <2>2. /\ h[k] = h[k - 1] + words[k].len
        /\ h[k - 1] \in Nat /\ h[k] \in Nat /\ words[k].len \in Nat
    BY <1>1, <1>3, <1>13
  <2>3. ASSUME NEW j \in 1..k PROVE words[j].len <= h[k]
    <3>1. CASE j = k
      BY <2>2, <3>1
    <3>2. CASE j # k
      <4>1. j \in 1..(k - 1) /\ words[j].len \in Nat
        BY <1>1, <1>3, <3>2
      <4>2. words[j].len <= h[k - 1]
        BY <2>1, <4>1
      <4> QED
        BY <2>2, <4>1, <4>2
    <3> QED
      BY <3>1, <3>2
  <2> QED
    BY <2>3
<1>16. n \in good
  <2> HIDE DEF good
  <2>1. n \in Nat /\ 0 \in good /\ \A k \in 1..n : k - 1 \in good => k \in good
    BY <1>1, <1>14, <1>15
  <2>2. \A k \in 0..n : k \in good
    BY <2>1, UpTo
  <2>3. n \in 0..n
    BY <2>1
  <2> QED
    BY <2>2, <2>3
<1> QED
  BY <1>1, <1>13, <1>16 DEF n

-----------------------------------------------------------------------------
(* Memories.                                                               *)

\* The words of the lines, and that of the environment.
AnyWord == Words \cup {envs}
Keys    == STRING \cup {envs.key}

Headers == {Header(b) : b \in Nat}
Text    == [word : AnyWord, cut : BOOLEAN, cleared : Nat]
Buffers == UNION {[S -> Text] : S \in SUBSET Nat}
Values  == {Inside(p, n) : p \in Headers, n \in Nat}
Entry   == [key : Keys, value : Values]

\* The list of blocks is not empty, and the environment points into them.
Memory ==
  {m \in [heap : Heaps, environ_vars : Seq(Entry), text : Buffers, fault : BOOLEAN] :
     /\ HeapOK(m.heap) /\ m.heap.ROOT # NULL
     /\ \A i \in DOMAIN m.environ_vars :
          \E b \in Numbers(m.heap), n \in Nat : m.environ_vars[i].value = Inside(Header(b), n)}

\* Blocks are added, and a buffer keeps its place.
Later(m, n) ==
  /\ Newest(m.heap) <= Newest(n.heap)
  /\ DOMAIN m.text \subseteq DOMAIN n.text

LEMMA AnyWords ==
  /\ Words \subseteq AnyWord /\ envs \in AnyWord
  /\ \A w \in AnyWord : /\ w.len \in Nat /\ w.at \in Nat /\ w.key \in Keys
                        /\ w.key # NoKey => w.at < w.len
<1>1. ASSUME NEW w \in Words
      PROVE  /\ w.len \in Nat /\ w.at \in Nat /\ w.key \in Keys
             /\ w.key # NoKey => w.at < w.len
  BY DEF Words, Keys
<1>2. envs.len \in Nat /\ envs.at \in Nat /\ envs.at < envs.len
  BY DEF envs
<1>3. envs.key \in Keys
  BY DEF Keys
<1> QED
  BY <1>1, <1>2, <1>3 DEF AnyWord

LEMMA LaterTwice ==
  ASSUME NEW m \in Memory, NEW n \in Memory, NEW o \in Memory, Later(m, n), Later(n, o)
  PROVE  Later(m, o)
<1>1. /\ HeapOK(m.heap) /\ HeapOK(n.heap) /\ HeapOK(o.heap)
  BY DEF Memory
<1>2. Newest(m.heap) \in Nat /\ Newest(n.heap) \in Nat /\ Newest(o.heap) \in Nat
  BY <1>1, HeapFacts
<1> QED
  BY <1>2 DEF Later

LEMMA MemoryFacts ==
  ASSUME NEW m \in Memory
  PROVE  /\ m \in [heap : Heaps, environ_vars : Seq(Entry), text : Buffers, fault : BOOLEAN]
         /\ HeapOK(m.heap) /\ m.heap.ROOT # NULL
         /\ Newest(m.heap) \in Nat /\ Newest(m.heap) \in Numbers(m.heap)
         /\ DOMAIN m.text \subseteq Nat /\ m.text \in [DOMAIN m.text -> Text]
<1>1. /\ m \in [heap : Heaps, environ_vars : Seq(Entry), text : Buffers, fault : BOOLEAN]
      /\ HeapOK(m.heap) /\ m.heap.ROOT # NULL
  BY DEF Memory
<1>2. Newest(m.heap) \in Nat /\ Newest(m.heap) \in Numbers(m.heap)
  BY <1>1, HeapFacts
<1>3. PICK S \in SUBSET Nat : m.text \in [S -> Text]
  BY <1>1 DEF Buffers
<1> QED
  BY <1>1, <1>2, <1>3

\* Another heap, with as many blocks or more.
LEMMA Reheaped ==
  ASSUME NEW m \in Memory, NEW h, HeapOK(h), h.ROOT # NULL, Newest(m.heap) <= Newest(h)
  PROVE  LET n == [m EXCEPT !.heap = h]
         IN  /\ n \in Memory /\ Later(m, n) /\ n.heap = h
             /\ n.environ_vars = m.environ_vars /\ n.text = m.text /\ n.fault = m.fault
<1> DEFINE n == [m EXCEPT !.heap = h]
<1>1. /\ m \in [heap : Heaps, environ_vars : Seq(Entry), text : Buffers, fault : BOOLEAN]
      /\ Newest(m.heap) \in Nat /\ Newest(h) \in Nat /\ h \in Heaps
  BY MemoryFacts, HeapFacts
<1>2. /\ n \in [heap : Heaps, environ_vars : Seq(Entry), text : Buffers, fault : BOOLEAN]
      /\ n.heap = h /\ n.environ_vars = m.environ_vars /\ n.text = m.text
      /\ n.fault = m.fault
  BY <1>1
<1>3. Numbers(m.heap) \subseteq Numbers(h)
  BY <1>1 DEF Numbers
<1> HIDE DEF n
<1>4. n \in Memory
  BY <1>2, <1>3 DEF Memory
<1> QED
  BY <1>2, <1>4 DEF Later, n

\* Other buffers.
LEMMA Retexted ==
  ASSUME NEW m \in Memory, NEW S \in SUBSET Nat, NEW text \in [S -> Text],
         DOMAIN m.text \subseteq S
  PROVE  LET n == [m EXCEPT !.text = text]
         IN  /\ n \in Memory /\ Later(m, n) /\ n.heap = m.heap
             /\ n.environ_vars = m.environ_vars /\ n.text = text /\ n.fault = m.fault
<1> DEFINE n == [m EXCEPT !.text = text]
<1>1. /\ m \in [heap : Heaps, environ_vars : Seq(Entry), text : Buffers, fault : BOOLEAN]
      /\ Newest(m.heap) \in Nat
  BY MemoryFacts
<1>2. text \in Buffers /\ DOMAIN text = S
  BY DEF Buffers
<1>3. /\ n \in [heap : Heaps, environ_vars : Seq(Entry), text : Buffers, fault : BOOLEAN]
      /\ n.heap = m.heap /\ n.environ_vars = m.environ_vars /\ n.text = text
      /\ n.fault = m.fault
  BY <1>1, <1>2
<1> HIDE DEF n
<1>4. n \in Memory
  BY <1>3 DEF Memory
<1> QED
  BY <1>1, <1>2, <1>3, <1>4 DEF Later, n

\* A fault.
LEMMA Faulted ==
  ASSUME NEW m \in Memory, NEW fault \in BOOLEAN
  PROVE  LET n == [m EXCEPT !.fault = fault]
         IN  /\ n \in Memory /\ Later(m, n) /\ n.heap = m.heap
             /\ n.environ_vars = m.environ_vars /\ n.text = m.text /\ n.fault = fault
<1> DEFINE n == [m EXCEPT !.fault = fault]
<1>1. /\ m \in [heap : Heaps, environ_vars : Seq(Entry), text : Buffers, fault : BOOLEAN]
      /\ Newest(m.heap) \in Nat
  BY MemoryFacts
<1>2. /\ n \in [heap : Heaps, environ_vars : Seq(Entry), text : Buffers, fault : BOOLEAN]
      /\ n.heap = m.heap /\ n.environ_vars = m.environ_vars /\ n.text = m.text
      /\ n.fault = fault
  BY <1>1
<1> HIDE DEF n
<1>3. n \in Memory
  BY <1>2 DEF Memory
<1> QED
  BY <1>1, <1>2, <1>3 DEF Later, n

\* A word is written to a buffer.
LEMMA PutWord ==
  ASSUME NEW m \in Memory, NEW b \in Numbers(m.heap), NEW word \in AnyWord
  PROVE  LET n == Put(m, Header(b), word)
         IN  /\ n \in Memory /\ Later(m, n) /\ SameBut(m.heap, n.heap, b)
             /\ n.environ_vars = m.environ_vars /\ n.fault = m.fault
             /\ DOMAIN n.text = DOMAIN m.text \cup {b} /\ n.text[b].word = word
             /\ \A c \in DOMAIN m.text : c # b => n.text[c] = m.text[c]
             /\ word.len <= 16 => n.heap.blocks[b].next = m.heap.blocks[b].next
             /\ word.len > 16 => n.heap.blocks[b].next # NULL
<1> DEFINE h == Written(m.heap, Header(b), word.len)
           o == [m EXCEPT !.heap = h]
           S == DOMAIN m.text \cup {b}
           new == [word |-> word, cut |-> FALSE, cleared |-> 0]
           text == [c \in S |-> IF c = b THEN new ELSE m.text[c]]
           n == [o EXCEPT !.text = text]
<1>1. word.len \in Nat /\ new \in Text
  BY AnyWords DEF Text
<1>2. HeapOK(m.heap) /\ m.heap.ROOT # NULL /\ Newest(m.heap) \in Nat
      /\ DOMAIN m.text \subseteq Nat /\ m.text \in [DOMAIN m.text -> Text]
      /\ m \in [heap : Heaps, environ_vars : Seq(Entry), text : Buffers, fault : BOOLEAN]
  BY MemoryFacts
<1>3. /\ HeapOK(h) /\ SameBut(m.heap, h, b)
      /\ word.len <= 16 => h.blocks[b].next = m.heap.blocks[b].next
      /\ word.len > 16 => h.blocks[b].next # NULL
  BY <1>1, <1>2, WrittenHeap
<1>4. Put(m, Header(b), word) = n
  <2>1. BlockOf(Header(b)) = b
    BY Apart
  <2> QED
    BY <1>2, <2>1 DEF Put
<1> HIDE DEF h
<1>5. h.ROOT # NULL /\ Newest(m.heap) <= Newest(h)
  BY <1>2, <1>3 DEF SameBut
<1>6. /\ o \in Memory /\ Later(m, o) /\ o.heap = h
      /\ o.environ_vars = m.environ_vars /\ o.text = m.text /\ o.fault = m.fault
  BY <1>3, <1>5, Reheaped
<1>7. S \in SUBSET Nat /\ text \in [S -> Text] /\ DOMAIN m.text \subseteq S
  <2>1. b \in Nat
    BY <1>2 DEF Numbers
  <2> HIDE DEF new
  <2> QED
    BY <1>1, <1>2, <2>1
<1>8. text[b].word = word /\ \A c \in DOMAIN m.text : c # b => text[c] = m.text[c]
  OBVIOUS
<1> HIDE DEF o, text, S
<1>9. /\ n \in Memory /\ Later(o, n) /\ n.heap = h
      /\ n.environ_vars = m.environ_vars /\ n.text = text /\ n.fault = m.fault
  BY <1>6, <1>7, Retexted
<1>10. DOMAIN n.text = S
  BY <1>7, <1>9
<1> HIDE DEF n
<1> QED
  BY <1>3, <1>4, <1>6, <1>8, <1>9, <1>10, LaterTwice DEF S

-----------------------------------------------------------------------------
(* Giving back.                                                            *)

Args == [self : Headers, trimmedInput : Headers, command : Headers, arguments : Seq(Headers)]

\* A record points to blocks that there are; its own and that of the command's name are older
\* than that of the trimmed input.
PointsInto(m, arg) ==
  /\ BlockOf(arg.self) \in 1..(Newest(m.heap) - 1)
  /\ BlockOf(arg.command) \in 1..(Newest(m.heap) - 1) /\ BlockOf(arg.command) \in DOMAIN m.text
  /\ BlockOf(arg.trimmedInput) \in Numbers(m.heap)
  /\ \A j \in DOMAIN arg.arguments : /\ BlockOf(arg.arguments[j]) \in Numbers(m.heap)
                                     /\ BlockOf(arg.arguments[j]) \in DOMAIN m.text

\* What giving back leaves: the newest block's next, and all the rest but texts and headers.
Quiet(m, n) ==
  /\ Newest(n.heap) = Newest(m.heap) /\ NextOf(n.heap) = NextOf(m.heap)
  /\ DOMAIN n.text = DOMAIN m.text /\ n.environ_vars = m.environ_vars

LEMMA Pointer ==
  ASSUME NEW p \in Headers
  PROVE  p = Header(BlockOf(p)) /\ BlockOf(p) \in Nat
BY Apart DEF Headers

LEMMA PointsLater ==
  ASSUME NEW m \in Memory, NEW n \in Memory, Later(m, n), NEW arg \in Args, PointsInto(m, arg)
  PROVE  PointsInto(n, arg)
<1>1. Newest(m.heap) \in Nat /\ Newest(n.heap) \in Nat
  BY MemoryFacts
<1>2. /\ Numbers(m.heap) \subseteq Numbers(n.heap)
      /\ 1..(Newest(m.heap) - 1) \subseteq 1..(Newest(n.heap) - 1)
      /\ DOMAIN m.text \subseteq DOMAIN n.text
  BY <1>1 DEF Later, Numbers
<1> QED
  BY <1>2 DEF PointsInto

LEMMA AllMapped ==
  ASSUME NEW m \in Memory, NEW b \in Numbers(m.heap)
  PROVE  Mapped(m.heap, Header(b))
<1>1. m.heap.blocks[b] \in Block
  BY MemoryFacts, HeapFacts
<1>2. BlockOf(Header(b)) = b
  BY Apart
<1> QED
  BY <1>1, <1>2 DEF Mapped, Block

LEMMA Strlen ==
  ASSUME NEW m \in Memory, NEW b \in DOMAIN m.text
  PROVE  strlen(m, Header(b)) \in Nat
<1>1. m.text[b] \in Text
  BY MemoryFacts
<1>2. BlockOf(Header(b)) = b
  BY Apart
<1> QED
  BY <1>1, <1>2, AnyWords DEF strlen, Text

\* Clearing an older block.
LEMMA Cleared ==
  ASSUME NEW m \in Memory, NEW b \in 1..(Newest(m.heap) - 1), b \in DOMAIN m.text, NEW k \in Nat
  PROVE  LET n == Clear(m, Header(b), k)
         IN  n \in Memory /\ Quiet(m, n) /\ n.fault = m.fault
<1> DEFINE h == Zeroed(m.heap, Header(b), k)
           o == [m EXCEPT !.heap = h]
           old == m.text[b]
           new == [old EXCEPT !.cleared = IF k > @ THEN k ELSE @]
           text == [m.text EXCEPT ![b] = new]
           n == [o EXCEPT !.text = text]
<1>1. /\ HeapOK(m.heap) /\ m.heap.ROOT # NULL /\ Newest(m.heap) \in Nat
      /\ DOMAIN m.text \subseteq Nat /\ m.text \in [DOMAIN m.text -> Text]
      /\ m \in [heap : Heaps, environ_vars : Seq(Entry), text : Buffers, fault : BOOLEAN]
      /\ Newest(m.heap) \in Numbers(m.heap)
  BY MemoryFacts
<1>2. b \in Numbers(m.heap) /\ b # Newest(m.heap) /\ BlockOf(Header(b)) = b
  BY <1>1, Apart DEF Numbers
<1>3. HeapOK(h) /\ SameBut(m.heap, h, b)
  BY <1>1, <1>2, ZeroedHeap
<1>4. Clear(m, Header(b), k) = IF m.fault THEN m ELSE n
  BY <1>1, <1>2, AllMapped DEF Clear, Guarded
<1> HIDE DEF h
<1>5. h.ROOT # NULL /\ Newest(h) = Newest(m.heap) /\ NextOf(h) = NextOf(m.heap)
  BY <1>1, <1>2, <1>3 DEF SameBut, NextOf
<1>6. /\ o \in Memory /\ o.heap = h
      /\ o.environ_vars = m.environ_vars /\ o.text = m.text /\ o.fault = m.fault
  BY <1>1, <1>3, <1>5, Reheaped
<1>7. new \in Text
  <2>1. old \in Text
    BY <1>1
  <2> HIDE DEF old
  <2> QED
    BY <2>1 DEF Text
<1>8. text \in [DOMAIN m.text -> Text]
  <2> HIDE DEF new
  <2> QED
    BY <1>1, <1>7
<1> HIDE DEF o, text
<1>9. /\ n \in Memory /\ n.heap = h
      /\ n.environ_vars = m.environ_vars /\ n.text = text /\ n.fault = m.fault
  <2>1. o \in Memory /\ DOMAIN o.text \subseteq DOMAIN m.text /\ DOMAIN m.text \in SUBSET Nat
    BY <1>1, <1>6 DEF Buffers
  <2>2. /\ n \in Memory /\ n.heap = o.heap
        /\ n.environ_vars = o.environ_vars /\ n.text = text /\ n.fault = o.fault
    BY <2>1, <1>8, Retexted
  <2> QED
    BY <1>6, <2>2
<1>10. DOMAIN n.text = DOMAIN m.text
  BY <1>8, <1>9
<1> HIDE DEF n
<1>11. Quiet(m, n)
  BY <1>5, <1>9, <1>10 DEF Quiet
<1>12. Quiet(m, m)
  BY DEF Quiet
<1> QED
  BY <1>4, <1>9, <1>11, <1>12

\* free releases no block: it faults if the newest block's next is text.
LEMMA Freed ==
  ASSUME NEW m \in Memory, NEW b
  PROVE  LET n == Free(m, Header(b))
         IN  /\ n \in Memory /\ Quiet(m, n)
             /\ n.fault <=> m.fault \/ NextOf(m.heap) # NULL
<1> DEFINE freed == free(m.heap, Header(b))
<1>1. /\ HeapOK(m.heap) /\ m.heap.ROOT # NULL
      /\ m \in [heap : Heaps, environ_vars : Seq(Entry), text : Buffers, fault : BOOLEAN]
  BY MemoryFacts
<1>2. CASE m.fault
  <2>1. Free(m, Header(b)) = m
    BY <1>2 DEF Free
  <2> QED
    BY <1>2, <2>1 DEF Quiet
<1>3. CASE ~m.fault
  <2>1. Free(m, Header(b)) = [m EXCEPT !.heap = freed.heap, !.fault = freed.fault]
    BY <1>3 DEF Free
  <2>2. freed.heap = m.heap /\ (freed.fault <=> NextOf(m.heap) # NULL)
    BY <1>1, FreeHeader
  <2>3. freed.fault \in BOOLEAN
    BY DEF free
  <2> HIDE DEF freed
  <2>4. [m EXCEPT !.heap = freed.heap, !.fault = freed.fault] = [m EXCEPT !.fault = freed.fault]
    BY <1>1, <2>2
  <2> DEFINE f == freed.fault
             o == [m EXCEPT !.fault = f]
  <2>5. f \in BOOLEAN /\ (f <=> NextOf(m.heap) # NULL)
    BY <2>2, <2>3
  <2> HIDE DEF f
  <2>6. /\ o \in Memory /\ Later(m, o) /\ o.heap = m.heap
        /\ o.environ_vars = m.environ_vars /\ o.text = m.text /\ o.fault = f
    BY <2>5, Faulted
  <2>7. Free(m, Header(b)) = o
    BY <2>1, <2>4 DEF f
  <2> HIDE DEF o
  <2>8. Quiet(m, o)
    BY <2>6 DEF Quiet
  <2>9. o.fault <=> NextOf(m.heap) # NULL
    BY <2>5, <2>6
  <2> QED
    BY <1>3, <2>6, <2>7, <2>8, <2>9
<1> QED
  BY <1>2, <1>3

\* What giving back a part of a line can lead to: a fault, if the newest block's next is text.
Spent(m) == {n \in Memory : /\ Quiet(m, n) /\ (m.fault => n.fault)
                            /\ n.fault => m.fault \/ NextOf(m.heap) # NULL}
Tried(m) == {n \in Memory : Quiet(m, n) /\ (n.fault <=> m.fault \/ NextOf(m.heap) # NULL)}

LEMMA SpentFacts ==
  ASSUME NEW m \in Memory
  PROVE  m \in Spent(m) /\ Tried(m) \subseteq Spent(m) /\ (m.fault => m \in Tried(m))
<1>1. Quiet(m, m)
  BY DEF Quiet
<1> QED
  BY <1>1 DEF Spent, Tried

LEMMA SpentTwice ==
  ASSUME NEW m \in Memory, NEW n \in Spent(m), NEW o \in Tried(n)
  PROVE  o \in Tried(m) /\ Later(m, n)
<1>1. /\ Quiet(m, n) /\ Quiet(n, o) /\ o \in Memory /\ n \in Memory
      /\ NextOf(n.heap) = NextOf(m.heap)
  BY DEF Spent, Tried, Quiet
<1>2. Quiet(m, o)
  BY <1>1 DEF Quiet
<1>3. o.fault <=> n.fault \/ NextOf(n.heap) # NULL
  BY DEF Tried
<1>4. (n.fault => m.fault \/ NextOf(m.heap) # NULL) /\ (m.fault => n.fault)
  BY DEF Spent
<1>5. Newest(m.heap) \in Nat
  BY MemoryFacts
<1> QED
  BY <1>1, <1>2, <1>3, <1>4, <1>5 DEF Tried, Later, Quiet

\* The command is cleared and a buffer given back.
LEMMA ClearedFreed ==
  ASSUME NEW m \in Memory, NEW b \in 1..(Newest(m.heap) - 1), b \in DOMAIN m.text,
         NEW c \in Numbers(m.heap), NEW k \in Nat
  PROVE  Guarded(m, Header(c), Free(Clear(m, Header(b), k), Header(c))) \in Tried(m)
<1> DEFINE clear == Clear(m, Header(b), k)
           freed == Free(clear, Header(c))
<1>1. clear \in Memory /\ Quiet(m, clear) /\ clear.fault = m.fault
  BY Cleared
<1> HIDE DEF clear
<1>2. clear \in Spent(m)
  BY <1>1 DEF Spent
<1>3. freed \in Memory /\ Quiet(clear, freed)
      /\ (freed.fault <=> clear.fault \/ NextOf(clear.heap) # NULL)
  BY <1>1, Freed
<1> HIDE DEF freed
<1>4. freed \in Tried(clear)
  BY <1>3 DEF Tried
<1>5. freed \in Tried(m)
  BY <1>2, <1>4, SpentTwice
<1>6. Guarded(m, Header(c), freed) = IF m.fault THEN m ELSE freed
  BY AllMapped DEF Guarded
<1> QED
  BY <1>5, <1>6, SpentFacts DEF freed, clear

LEMMA FreedArgument ==
  ASSUME NEW m \in Memory, NEW arg \in Args, PointsInto(m, arg), NEW o \in Spent(m),
         NEW k \in DOMAIN arg.arguments
  PROVE  free_argument(o, arg.command, arg.arguments[k]) \in Tried(m)
<1> DEFINE b == BlockOf(arg.command)
           c == BlockOf(arg.arguments[k])
<1>1. o \in Memory /\ Later(m, o)
  <2>1. o \in Memory
    BY DEF Spent
  <2>2. Newest(m.heap) = Newest(o.heap) /\ DOMAIN o.text = DOMAIN m.text
    BY DEF Spent, Quiet
  <2>3. Newest(m.heap) \in Nat
    BY MemoryFacts
  <2> QED
    BY <2>1, <2>2, <2>3 DEF Later
<1>2. PointsInto(o, arg)
  BY <1>1, PointsLater
<1>3. /\ b \in 1..(Newest(o.heap) - 1) /\ b \in DOMAIN o.text
      /\ c \in Numbers(o.heap) /\ c \in DOMAIN o.text
  BY <1>2 DEF PointsInto
<1>4. arg.command \in Headers /\ arg.arguments[k] \in Headers
  <2>1. arg.command \in Headers /\ arg.arguments \in Seq(Headers)
    BY DEF Args
  <2> QED
    BY <2>1, ElementOfSeq, LenProperties
<1>5. arg.command = Header(b) /\ arg.arguments[k] = Header(c)
  BY <1>4, Pointer
<1> HIDE DEF b, c
<1>6. strlen(o, Header(c)) \in Nat
  BY <1>1, <1>3, Strlen
<1>7. free_argument(o, Header(b), Header(c)) \in Tried(o)
  BY <1>1, <1>3, <1>6, ClearedFreed DEF free_argument
<1> QED
  BY <1>5, <1>7, SpentTwice

\* The memories between start and end, as the arguments are freed one after the other.
FreeRun(h, m, arg, start, end) ==
  LET n == Len(arg.arguments)
  IN  /\ h \in [0..n -> Tried(m)] /\ h[0] = start /\ h[n] = end
      /\ \A k \in 1..n : /\ h[k - 1] \in Tried(m)
                         /\ h[k] = free_argument(h[k - 1], arg.command, arg.arguments[k])

LEMMA FreedArguments ==
  ASSUME NEW m \in Memory, NEW arg \in Args, PointsInto(m, arg), NEW start \in Tried(m)
  PROVE  LET end == FoldLeft(LAMBDA n, a : free_argument(n, arg.command, a), start,
                             arg.arguments)
         IN  end \in Tried(m) /\ \E h : FreeRun(h, m, arg, start, end)
<1> DEFINE I == Tried(m)
           seq == arg.arguments
           n == Len(seq)
           F == [p \in I \X (1..n) |-> free_argument(p[1], arg.command, seq[p[2]])]
           D == 1..n
           Runs(f) == f = [s \in SUBSET D |->
                             IF s = {} THEN start
                             ELSE LET x == Max(s)
                                  IN  free_argument(f[s \ {x}], arg.command, seq[x])]
           it == CHOOSE f : Runs(f)
           end == FoldLeft(LAMBDA m1, a : free_argument(m1, arg.command, a), start, seq)
<1>1. n \in Nat /\ D = DOMAIN seq /\ seq \in Seq(Headers)
  BY LenProperties DEF Args
<1>2. \A o \in I, k \in 1..n : free_argument(o, arg.command, seq[k]) \in I
  BY <1>1, SpentFacts, FreedArgument
<1>3. end = it[D]
  BY <1>1 DEF FoldLeft, MapThenFoldSet
<1> HIDE DEF n, I, seq, end
<1>4. F \in [I \X (1..n) -> I]
  BY <1>2
<1>5. start \in I
  BY DEF I
<1>6. PICK g : Along(g, I, n, start, F)
  <2> HIDE DEF F
  <2> QED
    BY <1>1, <1>4, <1>5, Chained
<1>7. Runs(g)
  <2>1. g \in [SUBSET D -> I]
    BY <1>6 DEF Along
  <2>2. \A s \in SUBSET D : s # {} => Max(s) \in D /\ s \ {Max(s)} \in SUBSET D
    BY <1>1, Subsets
  <2>3. \A s \in SUBSET D :
          g[s] = IF s = {} THEN start
                 ELSE free_argument(g[s \ {Max(s)}], arg.command, seq[Max(s)])
    BY <1>6, <2>1, <2>2 DEF Along
  <2> QED
    BY <2>1, <2>3
<1>8. Runs(it)
  BY <1>7
<1>9. \A s \in SUBSET D :
         it[s] = IF s = {} THEN start
                 ELSE free_argument(it[s \ {Max(s)}], arg.command, seq[Max(s)])
  <2> HIDE DEF it
  <2> QED
    BY <1>8
<1> HIDE DEF it, Runs
<1>10. it[{}] = start
  BY <1>9
<1>11. \A s \in SUBSET (1..n) :
          s # {} /\ it[s \ {Max(s)}] \in I => it[s] = F[<<it[s \ {Max(s)}], Max(s)>>]
  BY <1>1, <1>9, Subsets
<1>12. PICK h : Steps(h, I, n, start, F, it[1..n])
  <2> HIDE DEF F
  <2> QED
    BY <1>1, <1>4, <1>5, <1>10, <1>11, FoldSteps
<1>13. \A k \in 1..n : h[k - 1] \in I /\ h[k] = free_argument(h[k - 1], arg.command, seq[k])
  <2>1. \A k \in 1..n : k - 1 \in 0..n
    BY <1>1
  <2> QED
    BY <1>12, <2>1 DEF Steps
<1>14. h \in [0..n -> I] /\ h[0] = start /\ h[n] = end
  BY <1>3, <1>12 DEF Steps
<1>15. FreeRun(h, m, arg, start, end)
  BY <1>13, <1>14 DEF FreeRun, I, n, seq
<1>16. end \in Tried(m)
  BY <1>1, <1>14 DEF I
<1> QED
  BY <1>15, <1>16 DEF end, seq

\* Each command of the line: the trimmed input is given back, then the command's name, which
\* is cleared before.
NameFreed(m, arg) ==
  LET input == Free(m, arg.trimmedInput)
  IN  Guarded(input, arg.command,
        Free(Clear(input, arg.command, strlen(input, arg.command)), arg.command))

LEMMA FreedCommand ==
  ASSUME NEW m \in Memory, NEW arg \in Args, PointsInto(m, arg), NEW o \in Spent(m)
  PROVE  /\ freeCommandArgument(o, arg) \in Tried(m)
         /\ \E h : FreeRun(h, m, arg, NameFreed(o, arg), freeCommandArgument(o, arg))
<1> DEFINE b == BlockOf(arg.command)
           c == BlockOf(arg.trimmedInput)
           input == Free(o, Header(c))
           k == strlen(input, Header(b))
           command == Guarded(input, Header(b), Free(Clear(input, Header(b), k), Header(b)))
<1>1. o \in Memory /\ Newest(m.heap) \in Nat
  BY MemoryFacts DEF Spent
<1>2. arg.command = Header(b) /\ arg.trimmedInput = Header(c)
  <2>1. arg.command \in Headers /\ arg.trimmedInput \in Headers
    BY DEF Args
  <2> QED
    BY <2>1, Pointer
<1>3. freeCommandArgument(o, arg) =
        FoldLeft(LAMBDA n, a : free_argument(n, arg.command, a), command, arg.arguments)
  BY <1>2 DEF freeCommandArgument
<1>4. NameFreed(o, arg) = command
  BY <1>2 DEF NameFreed
<1> HIDE DEF c
<1>5. input \in Tried(o)
  BY <1>1, Freed DEF Tried
<1> HIDE DEF input
<1>6. input \in Tried(m) /\ input \in Memory
  BY <1>1, <1>5, SpentTwice DEF Tried
<1>7. Later(m, input)
  <2>1. Newest(input.heap) = Newest(m.heap) /\ DOMAIN input.text = DOMAIN m.text
    BY <1>6 DEF Tried, Quiet
  <2> QED
    BY <1>1, <2>1 DEF Later
<1>8. PointsInto(input, arg)
  BY <1>6, <1>7, PointsLater
<1>9. /\ b \in 1..(Newest(input.heap) - 1) /\ b \in DOMAIN input.text
      /\ b \in Numbers(input.heap)
  <2>1. Newest(input.heap) \in Nat
    BY <1>6, MemoryFacts
  <2> QED
    BY <1>8, <2>1 DEF PointsInto, Numbers
<1> HIDE DEF b
<1>10. k \in Nat
  BY <1>6, <1>9, Strlen
<1> HIDE DEF k
<1>11. command \in Tried(input)
  BY <1>6, <1>9, <1>10, ClearedFreed
<1> HIDE DEF command
<1>12. input \in Spent(m)
  BY <1>6, SpentFacts
<1>13. command \in Tried(m)
  BY <1>11, <1>12, SpentTwice
<1> QED
  BY <1>3, <1>13, <1>4, FreedArguments

FreeLineRun(h, m, args, end) ==
  LET n == Len(args)
  IN  /\ h \in [0..n -> Spent(m)] /\ h[0] = m /\ h[n] = end
      /\ \A k \in 1..n : h[k - 1] \in Spent(m) /\ h[k] = freeCommandArgument(h[k - 1], args[k])

LEMMA FreedLine ==
  ASSUME NEW m \in Memory, NEW args \in Seq(Args), args # <<>>,
         \A i \in DOMAIN args : PointsInto(m, args[i])
  PROVE  LET end == FoldLeft(freeCommandArgument, m, args)
         IN  end \in Tried(m) /\ \E h : FreeLineRun(h, m, args, end)
<1> DEFINE I == Spent(m)
           n == Len(args)
           F == [p \in I \X (1..n) |-> freeCommandArgument(p[1], args[p[2]])]
           D == 1..n
           Runs(f) == f = [s \in SUBSET D |->
                             IF s = {} THEN m
                             ELSE LET x == Max(s) IN freeCommandArgument(f[s \ {x}], args[x])]
           it == CHOOSE f : Runs(f)
           end == FoldLeft(freeCommandArgument, m, args)
<1>1. n \in Nat \ {0} /\ D = DOMAIN args
  BY LenProperties, EmptySeq
<1>2. \A k \in 1..n : args[k] \in Args /\ PointsInto(m, args[k])
  BY <1>1, ElementOfSeq
<1>3. \A o \in I, k \in 1..n : freeCommandArgument(o, args[k]) \in Tried(m)
  BY <1>2, FreedCommand
<1>4. end = it[D]
  BY <1>1 DEF FoldLeft, MapThenFoldSet
<1> HIDE DEF n, end
<1>5. Tried(m) \subseteq I /\ m \in I
  BY SpentFacts
<1> HIDE DEF I
<1>6. F \in [I \X (1..n) -> I]
  BY <1>3, <1>5
<1>7. PICK g : Along(g, I, n, m, F)
  <2> HIDE DEF F
  <2> QED
    BY <1>1, <1>5, <1>6, Chained
<1>8. Runs(g)
  <2>1. g \in [SUBSET D -> I]
    BY <1>7 DEF Along
  <2>2. \A s \in SUBSET D : s # {} => Max(s) \in D /\ s \ {Max(s)} \in SUBSET D
    BY <1>1, Subsets
  <2>3. \A s \in SUBSET D :
          g[s] = IF s = {} THEN m ELSE freeCommandArgument(g[s \ {Max(s)}], args[Max(s)])
    BY <1>7, <2>1, <2>2 DEF Along
  <2> QED
    BY <2>1, <2>3
<1>9. Runs(it)
  BY <1>8
<1>10. \A s \in SUBSET D :
         it[s] = IF s = {} THEN m ELSE freeCommandArgument(it[s \ {Max(s)}], args[Max(s)])
  <2> HIDE DEF it
  <2> QED
    BY <1>9
<1> HIDE DEF it, Runs
<1>11. it[{}] = m
  BY <1>10
<1>12. \A s \in SUBSET (1..n) :
          s # {} /\ it[s \ {Max(s)}] \in I => it[s] = F[<<it[s \ {Max(s)}], Max(s)>>]
  BY <1>1, <1>10, Subsets
<1>13. PICK h : Steps(h, I, n, m, F, it[1..n])
  <2> HIDE DEF F
  <2> QED
    BY <1>1, <1>5, <1>6, <1>11, <1>12, FoldSteps
\* The last step gives back a command.
<1>14. \A k \in 1..n : h[k - 1] \in I /\ h[k] = freeCommandArgument(h[k - 1], args[k])
  <2>1. \A k \in 1..n : k - 1 \in 0..n
    BY <1>1
  <2> QED
    BY <1>13, <2>1 DEF Steps
<1>15. h \in [0..n -> I] /\ h[0] = m /\ h[n] = end
  BY <1>4, <1>13 DEF Steps
<1>16. FreeLineRun(h, m, args, end)
  BY <1>14, <1>15 DEF FreeLineRun, I, n
<1>17. n \in 1..n
  BY <1>1
<1>18. end \in Tried(m)
  BY <1>3, <1>14, <1>15, <1>17
<1> QED
  BY <1>16, <1>18 DEF end

-----------------------------------------------------------------------------
(* The environment.                                                        *)

LEMMA Entries ==
  ASSUME NEW m \in Memory
  PROVE  /\ m.environ_vars \in Seq(Entry)
         /\ DOMAIN m.environ_vars = 1..Len(m.environ_vars) /\ Len(m.environ_vars) \in Nat
         /\ \A i \in DOMAIN m.environ_vars : m.environ_vars[i] \in Entry
<1>1. m.environ_vars \in Seq(Entry)
  BY MemoryFacts
<1> QED
  BY <1>1, LenProperties, ElementOfSeq

\* Another table, whose values lie in blocks that there are.
LEMMA Retabled ==
  ASSUME NEW m \in Memory, NEW table \in Seq(Entry),
         \A i \in DOMAIN table :
           \E b \in Numbers(m.heap), n \in Nat : table[i].value = Inside(Header(b), n)
  PROVE  LET r == [m EXCEPT !.environ_vars = table]
         IN  /\ r \in Memory /\ Later(m, r) /\ r.heap = m.heap /\ r.text = m.text
             /\ r.fault = m.fault /\ r.environ_vars = table
<1> DEFINE r == [m EXCEPT !.environ_vars = table]
<1>1. /\ m \in [heap : Heaps, environ_vars : Seq(Entry), text : Buffers, fault : BOOLEAN]
      /\ Newest(m.heap) \in Nat /\ HeapOK(m.heap) /\ m.heap.ROOT # NULL
  BY MemoryFacts
<1>2. /\ r \in [heap : Heaps, environ_vars : Seq(Entry), text : Buffers, fault : BOOLEAN]
      /\ r.heap = m.heap /\ r.text = m.text /\ r.fault = m.fault /\ r.environ_vars = table
  BY <1>1
<1> HIDE DEF r
<1>3. r \in Memory
  BY <1>1, <1>2 DEF Memory
<1> QED
  BY <1>1, <1>2, <1>3 DEF Later, r

LEMMA AnyValue ==
  ASSUME NEW b \in Nat, NEW n \in Nat
  PROVE  Inside(Header(b), n) \in Values
<1>1. Header(b) \in Headers
  BY DEF Headers
<1> QED
  BY <1>1 DEF Values

LEMMA Revalued ==
  ASSUME NEW m \in Memory, NEW i \in DOMAIN m.environ_vars, NEW b \in Numbers(m.heap),
         NEW n \in Nat
  PROVE  LET r == [m EXCEPT !.environ_vars[i].value = Inside(Header(b), n)]
         IN  /\ r \in Memory /\ Later(m, r) /\ r.heap = m.heap /\ r.text = m.text
             /\ r.fault = m.fault
<1> DEFINE value == Inside(Header(b), n)
           old == m.environ_vars[i]
           entry == [old EXCEPT !.value = value]
           table == [m.environ_vars EXCEPT ![i] = entry]
<1>1. /\ m.environ_vars \in Seq(Entry) /\ i \in 1..Len(m.environ_vars)
      /\ DOMAIN m.environ_vars = 1..Len(m.environ_vars) /\ old \in Entry
      /\ m \in [heap : Heaps, environ_vars : Seq(Entry), text : Buffers, fault : BOOLEAN]
  BY Entries, MemoryFacts
<1>2. value \in Values
  <2>1. b \in Nat
    BY DEF Numbers
  <2> QED
    BY <2>1, AnyValue
<1> HIDE DEF value, old
<1>3. entry \in Entry /\ entry.value = value
  BY <1>1, <1>2 DEF Entry
<1> HIDE DEF entry
<1>4. /\ table \in Seq(Entry) /\ Len(table) = Len(m.environ_vars) /\ table[i] = entry
      /\ \A j \in 1..Len(m.environ_vars) : j # i => table[j] = m.environ_vars[j]
  BY <1>1, <1>3, ExceptSeq
<1>5. [m EXCEPT !.environ_vars[i].value = value] = [m EXCEPT !.environ_vars = table]
  BY <1>1 DEF entry, old
<1>6. DOMAIN table = 1..Len(m.environ_vars)
  BY <1>4, LenProperties
<1> HIDE DEF table, entry
<1>7. ASSUME NEW j \in DOMAIN table
      PROVE  \E c \in Numbers(m.heap), k \in Nat : table[j].value = Inside(Header(c), k)
  <2>1. CASE j = i
    BY <1>3, <1>4, <2>1 DEF value
  <2>2. CASE j # i
    <3>1. table[j] = m.environ_vars[j] /\ j \in DOMAIN m.environ_vars
      BY <1>1, <1>4, <1>6, <2>2
    <3> QED
      BY <3>1 DEF Memory
  <2> QED
    BY <2>1, <2>2
<1> DEFINE r == [m EXCEPT !.environ_vars = table]
<1>8. /\ r \in Memory /\ Later(m, r) /\ r.heap = m.heap /\ r.text = m.text
      /\ r.fault = m.fault
  BY <1>4, <1>7, Retabled
<1>9. [m EXCEPT !.environ_vars[i].value = Inside(Header(b), n)] = r
  BY <1>5 DEF value
<1> HIDE DEF r
<1> QED
  BY <1>8, <1>9

\* An entry takes two blocks.  A key that fits in front of the next leaves it as it was, and
\* another replaces a text by a text.
LEMMA AddedEntry ==
  ASSUME NEW m \in Memory, NEW key \in Keys, NEW length \in Nat,
         NextOf(m.heap) = NULL => length <= 16, NEW b \in Numbers(m.heap), NEW n \in Nat
  PROVE  LET r == add_entry(m, key, length, Inside(Header(b), n))
         IN  /\ r \in Memory /\ Later(m, r) /\ r.text = m.text /\ r.fault = m.fault
             /\ NextOf(r.heap) = NULL <=> NextOf(m.heap) = NULL
<1> DEFINE value == Inside(Header(b), n)
           pair == malloc(m.heap)
           copy == malloc(pair.heap)
           top  == Newest(m.heap) + 2
           zeroed == Zeroed(copy.heap, Header(top), length + 1)
           written == Written(zeroed, Header(top), length)
           h == Rewrite(written, top - 1, Header(top), written.blocks[top - 1].next)
           o == [m EXCEPT !.heap = h]
           table == Append(m.environ_vars, [key |-> key, value |-> value])
           r == [o EXCEPT !.environ_vars = table]
<1>1. /\ HeapOK(m.heap) /\ m.heap.ROOT # NULL /\ Newest(m.heap) \in Nat
      /\ m \in [heap : Heaps, environ_vars : Seq(Entry), text : Buffers, fault : BOOLEAN]
  BY MemoryFacts
<1>2. /\ HeapOK(pair.heap) /\ pair.heap.ROOT # NULL /\ Newest(pair.heap) = top - 1
      /\ pair.ptr = Header(top - 1) /\ NextOf(pair.heap) = NextOf(m.heap)
  BY <1>1, Mallocked
<1> HIDE DEF pair
<1>3. /\ HeapOK(copy.heap) /\ copy.heap.ROOT # NULL /\ Newest(copy.heap) = top
      /\ copy.ptr = Header(top) /\ NextOf(copy.heap) = NextOf(m.heap)
  BY <1>1, <1>2, Mallocked
<1> HIDE DEF copy
<1>4. top \in Numbers(copy.heap) /\ top - 1 \in Numbers(copy.heap) /\ top \in Nat
      /\ top - 1 # top
  BY <1>1, <1>3 DEF Numbers
<1>5. /\ HeapOK(zeroed) /\ SameBut(copy.heap, zeroed, top)
      /\ length + 1 < 20 => zeroed.blocks[top].next = copy.heap.blocks[top].next
  BY <1>3, <1>4, ZeroedHeap
<1> HIDE DEF zeroed
<1>6. zeroed.ROOT # NULL /\ Newest(zeroed) = top /\ top \in Numbers(zeroed)
  BY <1>3, <1>4, <1>5 DEF SameBut, Numbers
<1>7. /\ HeapOK(written) /\ SameBut(zeroed, written, top)
      /\ length <= 16 => written.blocks[top].next = zeroed.blocks[top].next
      /\ length > 16 => written.blocks[top].next # NULL
  BY <1>5, <1>6, WrittenHeap
<1> HIDE DEF written
<1>8. /\ written.ROOT # NULL /\ Newest(written) = top
      /\ top \in Numbers(written) /\ top - 1 \in Numbers(written)
  BY <1>3, <1>4, <1>6, <1>7 DEF SameBut, Numbers
<1>9. NextOf(written) = NULL <=> NextOf(m.heap) = NULL
  <2>1. CASE length <= 16
    <3>1. length + 1 < 20
      BY <2>1
    <3> QED
      BY <1>3, <1>5, <1>7, <1>8, <2>1, <3>1 DEF NextOf
  <2>2. CASE length > 16
    BY <1>7, <1>8, <2>2 DEF NextOf
  <2> QED
    BY <2>1, <2>2
<1>10. written.blocks[top - 1] \in Block /\ written \in Heaps
  BY <1>7, <1>8, HeapFacts
<1>11. Header(top) \in Address /\ written.blocks[top - 1].next \in Address
  BY <1>4, <1>10 DEF Block, Address
<1>12. HeapOK(h) /\ SameBut(written, h, top - 1)
  BY <1>4, <1>7, <1>8, <1>11, Rewritten
<1>13. [written EXCEPT !.blocks[top - 1].addr = Header(top)] = h
  BY <1>8, <1>10 DEF Rewrite, Block, Heaps
<1> HIDE DEF h
<1>14. h.ROOT # NULL /\ Newest(h) = top /\ NextOf(h) = NextOf(written)
  BY <1>4, <1>8, <1>12 DEF SameBut, NextOf
<1>15. Newest(m.heap) <= Newest(h)
  BY <1>1, <1>14
<1>16. /\ o \in Memory /\ Later(m, o) /\ o.heap = h
       /\ o.environ_vars = m.environ_vars /\ o.text = m.text /\ o.fault = m.fault
  BY <1>12, <1>14, <1>15, Reheaped
<1>17. add_entry(m, key, length, value) = r
  <2>1. Header(top - 1)[1] = "header" /\ Header(top - 1)[2] = top - 1
    BY Apart
  <2>2. written = Written(Zeroed(copy.heap, copy.ptr, length + 1), copy.ptr, length)
    BY <1>3 DEF written, zeroed
  <2>3. add_entry(m, key, length, value) =
          [m EXCEPT !.environ_vars = table, !.heap = h]
    BY <1>2, <1>3, <1>13, <2>1, <2>2 DEF add_entry, pair, copy
  <2> HIDE DEF table
  <2> QED
    BY <1>1, <2>3
<1>18. /\ m.environ_vars \in Seq(Entry)
       /\ DOMAIN m.environ_vars = 1..Len(m.environ_vars) /\ Len(m.environ_vars) \in Nat
  BY Entries
<1> DEFINE entry == [key |-> key, value |-> value]
<1>19. entry \in Entry /\ entry.value = value
  <2>1. b \in Nat
    BY DEF Numbers
  <2> QED
    BY <2>1, AnyValue DEF Entry
<1> HIDE DEF entry, value, top
<1>20. /\ table \in Seq(Entry) /\ DOMAIN table = 1..(Len(m.environ_vars) + 1)
       /\ \A i \in 1..Len(m.environ_vars) : table[i] = m.environ_vars[i]
       /\ table[Len(m.environ_vars) + 1] = entry
  BY <1>18, <1>19, AppendProperties, LenProperties DEF entry
<1> HIDE DEF o, table
<1>21. ASSUME NEW i \in DOMAIN table
       PROVE  \E c \in Numbers(o.heap), k \in Nat : table[i].value = Inside(Header(c), k)
  <2>1. Numbers(m.heap) \subseteq Numbers(o.heap)
    BY <1>1, <1>14, <1>15, <1>16 DEF Numbers, top
  <2>2. CASE i \in 1..Len(m.environ_vars)
    BY <1>18, <1>20, <2>1, <2>2 DEF Memory
  <2>3. CASE i = Len(m.environ_vars) + 1
    BY <1>19, <1>20, <2>1, <2>3 DEF value
  <2> QED
    BY <1>18, <1>20, <2>2, <2>3
<1>22. /\ r \in Memory /\ Later(o, r) /\ r.heap = h /\ r.text = m.text /\ r.fault = m.fault
  BY <1>16, <1>20, <1>21, Retabled
<1> HIDE DEF r
<1> QED
  BY <1>9, <1>14, <1>16, <1>17, <1>22, LaterTwice DEF value

LEMMA IndexFound ==
  ASSUME NEW m \in Memory, NEW key, IndexOf(m.environ_vars, key) # 0
  PROVE  IndexOf(m.environ_vars, key) \in DOMAIN m.environ_vars
<1> DEFINE places == {i \in DOMAIN m.environ_vars : m.environ_vars[i].key = key}
<1>1. DOMAIN m.environ_vars \in SUBSET Nat
  BY Entries
<1>2. places # {}
  BY DEF IndexOf
<1>3. \E i \in places : \A j \in places : i <= j
  BY <1>1, <1>2, LeastNumber
<1> QED
  BY <1>2, <1>3 DEF IndexOf

\* What assigning leaves: the words, and whether the newest block's next is text.
Assigns(m, r) ==
  /\ Later(m, r) /\ r.fault = m.fault
  /\ NextOf(r.heap) = NULL <=> NextOf(m.heap) = NULL
  /\ DOMAIN r.text = DOMAIN m.text
  /\ \A c \in DOMAIN m.text : r.text[c].word = m.text[c].word

LEMMA SetEntry ==
  ASSUME NEW m \in Memory, NEW key \in Keys, NEW length \in Nat,
         NextOf(m.heap) = NULL => length <= 16, NEW b \in Numbers(m.heap), NEW n \in Nat
  PROVE  LET r == setenv(m, key, length, Inside(Header(b), n))
         IN  r \in Memory /\ Assigns(m, r) /\ r.text = m.text
<1> DEFINE i == IndexOf(m.environ_vars, key)
           value == Inside(Header(b), n)
           changed == [m EXCEPT !.environ_vars[i].value = value]
           added == add_entry(m, key, length, value)
<1>1. Later(m, m)
  <2>1. Newest(m.heap) \in Nat
    BY MemoryFacts
  <2> QED
    BY <2>1 DEF Later
<1>2. CASE i # 0
  <2>1. i \in DOMAIN m.environ_vars
    BY <1>2, IndexFound
  <2>2. setenv(m, key, length, value) = changed
    BY <1>2 DEF setenv
  <2> HIDE DEF i
  <2>3. /\ changed \in Memory /\ Later(m, changed) /\ changed.heap = m.heap
        /\ changed.text = m.text /\ changed.fault = m.fault
    BY <2>1, Revalued
  <2> HIDE DEF changed
  <2> QED
    BY <2>2, <2>3 DEF Assigns
<1>3. CASE i = 0
  <2>1. setenv(m, key, length, value) \in {added, m}
    BY <1>3 DEF setenv
  <2>2. /\ added \in Memory /\ Later(m, added) /\ added.text = m.text
        /\ added.fault = m.fault /\ (NextOf(added.heap) = NULL <=> NextOf(m.heap) = NULL)
    BY AddedEntry
  <2> HIDE DEF added
  <2> QED
    BY <1>1, <2>1, <2>2 DEF Assigns
<1> QED
  BY <1>2, <1>3

\* The words of a buffer that is in use.
LEMMA WordOf ==
  ASSUME NEW m \in Memory, NEW b \in DOMAIN m.text
  PROVE  /\ m.text[b] \in Text /\ m.text[b].word \in AnyWord
         /\ m.text[b].word.len \in Nat /\ m.text[b].word.at \in Nat
<1>1. m.text[b] \in Text
  BY MemoryFacts
<1> QED
  BY <1>1, AnyWords DEF Text

LEMMA Assigned ==
  ASSUME NEW m \in Memory, NEW b \in Numbers(m.heap), b \in DOMAIN m.text,
         NextOf(m.heap) = NULL => m.text[b].word.len <= 16
  PROVE  LET r == assign(m, Header(b)) IN r \in Memory /\ Assigns(m, r)
<1> DEFINE old == m.text[b]
           word == old.word
           new == [old EXCEPT !.cut = TRUE]
           text == [m.text EXCEPT ![b] = new]
           o == [m EXCEPT !.text = text]
           r == setenv(o, word.key, word.at, Inside(Header(b), word.at + 1))
<1>1. /\ DOMAIN m.text \subseteq Nat /\ m.text \in [DOMAIN m.text -> Text]
      /\ m \in [heap : Heaps, environ_vars : Seq(Entry), text : Buffers, fault : BOOLEAN]
      /\ Newest(m.heap) \in Nat
  BY MemoryFacts
<1>2. old \in Text /\ word \in AnyWord
  BY WordOf
<1>3. CASE word.key = NoKey
  <2>1. assign(m, Header(b)) = m
    BY <1>3, Apart DEF assign
  <2> QED
    BY <1>1, <2>1 DEF Assigns, Later
<1>4. CASE word.key # NoKey
  <2>1. assign(m, Header(b)) = r
    <3>1. BlockOf(Header(b)) = b
      BY Apart
    <3>2. [m EXCEPT !.text[b].cut = TRUE] = o
      BY <1>1
    <3> QED
      BY <1>4, <3>1, <3>2 DEF assign
  <2>2. word.key \in Keys /\ word.at \in Nat /\ word.len \in Nat /\ word.at < word.len
    BY <1>2, <1>4, AnyWords
  <2>3. new \in Text /\ new.word = word
    <3> HIDE DEF old
    <3> QED
      BY <1>2 DEF Text
  <2> HIDE DEF old, new
  <2>4. text \in [DOMAIN m.text -> Text]
    BY <1>1, <2>3
  <2>5. \A c \in DOMAIN m.text : text[c].word = m.text[c].word
    BY <2>3 DEF old
  <2> HIDE DEF text
  <2>6. /\ o \in Memory /\ Later(m, o) /\ o.heap = m.heap
        /\ o.environ_vars = m.environ_vars /\ o.text = text /\ o.fault = m.fault
    BY <1>1, <2>4, Retexted
  <2> HIDE DEF o
  <2>7. NextOf(o.heap) = NULL => word.at <= 16
    BY <2>2, <2>6 DEF old
  <2> DEFINE key == word.key
             at == word.at
  <2>8. key \in Keys /\ at \in Nat /\ at + 1 \in Nat /\ (NextOf(o.heap) = NULL => at <= 16)
    BY <2>2, <2>7
  <2> HIDE DEF word, key, at
  <2>9. b \in Numbers(o.heap)
    BY <2>6
  <2>10. LET q == setenv(o, key, at, Inside(Header(b), at + 1))
         IN  q \in Memory /\ Assigns(o, q) /\ q.text = o.text
    BY <2>6, <2>8, <2>9, SetEntry
  <2>11. r \in Memory /\ Assigns(o, r) /\ r.text = text
    BY <2>6, <2>10 DEF key, at
  <2> HIDE DEF r
  <2>12. Later(m, r)
    BY <2>6, <2>11, LaterTwice DEF Assigns
  <2>13. DOMAIN r.text = DOMAIN m.text
    BY <2>4, <2>11
  <2> QED
    BY <2>1, <2>5, <2>6, <2>11, <2>12, <2>13 DEF Assigns
<1> QED
  BY <1>3, <1>4

\* The buffers of a command hold words that fit in front of a next, if the newest is null.
Short(m, arg) ==
  NextOf(m.heap) = NULL =>
    /\ m.text[BlockOf(arg.command)].word.len <= 16
    /\ \A j \in DOMAIN arg.arguments : m.text[BlockOf(arg.arguments[j])].word.len <= 16

Assigning(m) == {r \in Memory : Assigns(m, r)}

LEMMA AssigningTwice ==
  ASSUME NEW m \in Memory, NEW n \in Assigning(m), NEW o \in Memory, Assigns(n, o)
  PROVE  o \in Assigning(m)
<1>1. n \in Memory /\ Later(m, n) /\ Later(n, o)
  BY DEF Assigning, Assigns
<1>2. Later(m, o)
  BY <1>1, LaterTwice
<1> QED
  BY <1>2 DEF Assigning, Assigns

LEMMA AssignedArgument ==
  ASSUME NEW m \in Memory, NEW arg \in Args, PointsInto(m, arg), Short(m, arg),
         NEW o \in Assigning(m), NEW k \in DOMAIN arg.arguments
  PROVE  assign(o, arg.arguments[k]) \in Assigning(m)
<1> DEFINE c == BlockOf(arg.arguments[k])
<1>1. o \in Memory /\ Assigns(m, o) /\ Later(m, o)
  BY DEF Assigning, Assigns
<1>2. PointsInto(o, arg)
  BY <1>1, PointsLater
<1>3. c \in Numbers(o.heap) /\ c \in DOMAIN o.text /\ c \in DOMAIN m.text
  BY <1>2 DEF PointsInto
<1>4. arg.arguments[k] = Header(c)
  <2>1. arg.arguments \in Seq(Headers)
    BY DEF Args
  <2>2. arg.arguments[k] \in Headers
    BY <2>1, ElementOfSeq, LenProperties
  <2> QED
    BY <2>2, Pointer
<1>5. NextOf(o.heap) = NULL => o.text[c].word.len <= 16
  BY <1>1, <1>3 DEF Assigns, Short
<1> HIDE DEF c
<1>6. LET r == assign(o, Header(c)) IN r \in Memory /\ Assigns(o, r)
  BY <1>1, <1>3, <1>5, Assigned
<1> QED
  BY <1>4, <1>6, AssigningTwice

\* The memories between start and end, as the arguments are assigned one after the other.
ExportRun(h, m, arg, start, end) ==
  LET n == Len(arg.arguments)
  IN  /\ h \in [0..n -> Assigning(m)] /\ h[0] = start /\ h[n] = end
      /\ \A k \in 1..n : /\ h[k - 1] \in Assigning(m)
                         /\ h[k] = assign(h[k - 1], arg.arguments[k])

LEMMA Exported ==
  ASSUME NEW m \in Memory, NEW arg \in Args, PointsInto(m, arg), Short(m, arg),
         NEW start \in Assigning(m)
  PROVE  LET end == executeBuiltInExport(start, arg)
         IN  end \in Assigning(m) /\ \E h : ExportRun(h, m, arg, start, end)
<1> DEFINE I == Assigning(m)
           seq == arg.arguments
           n == Len(seq)
           F == [p \in I \X (1..n) |-> assign(p[1], seq[p[2]])]
           D == 1..n
           Runs(f) == f = [s \in SUBSET D |->
                             IF s = {} THEN start
                             ELSE LET x == Max(s) IN assign(f[s \ {x}], seq[x])]
           it == CHOOSE f : Runs(f)
           end == FoldLeft(assign, start, seq)
<1>1. n \in Nat /\ D = DOMAIN seq /\ seq \in Seq(Headers)
  BY LenProperties DEF Args
<1>2. \A o \in I, k \in 1..n : assign(o, seq[k]) \in I
  BY <1>1, AssignedArgument
<1>3. end = it[D]
  BY <1>1 DEF FoldLeft, MapThenFoldSet
<1>4. start \in I
  OBVIOUS
<1> HIDE DEF n, I, seq, end
<1>5. F \in [I \X (1..n) -> I]
  BY <1>2
<1>6. PICK g : Along(g, I, n, start, F)
  <2> HIDE DEF F
  <2> QED
    BY <1>1, <1>4, <1>5, Chained
<1>7. Runs(g)
  <2>1. g \in [SUBSET D -> I]
    BY <1>6 DEF Along
  <2>2. \A s \in SUBSET D : s # {} => Max(s) \in D /\ s \ {Max(s)} \in SUBSET D
    BY <1>1, Subsets
  <2>3. \A s \in SUBSET D :
          g[s] = IF s = {} THEN start ELSE assign(g[s \ {Max(s)}], seq[Max(s)])
    BY <1>6, <2>1, <2>2 DEF Along
  <2> QED
    BY <2>1, <2>3
<1>8. Runs(it)
  BY <1>7
<1>9. \A s \in SUBSET D :
         it[s] = IF s = {} THEN start ELSE assign(it[s \ {Max(s)}], seq[Max(s)])
  <2> HIDE DEF it
  <2> QED
    BY <1>8
<1> HIDE DEF it, Runs
<1>10. it[{}] = start
  BY <1>9
<1>11. \A s \in SUBSET (1..n) :
          s # {} /\ it[s \ {Max(s)}] \in I => it[s] = F[<<it[s \ {Max(s)}], Max(s)>>]
  BY <1>1, <1>9, Subsets
<1>12. PICK h : Steps(h, I, n, start, F, it[1..n])
  <2> HIDE DEF F
  <2> QED
    BY <1>1, <1>4, <1>5, <1>10, <1>11, FoldSteps
<1>13. \A k \in 1..n : h[k - 1] \in I /\ h[k] = assign(h[k - 1], seq[k])
  <2>1. \A k \in 1..n : k - 1 \in 0..n
    BY <1>1
  <2> QED
    BY <1>12, <2>1 DEF Steps
<1>14. h \in [0..n -> I] /\ h[0] = start /\ h[n] = end
  BY <1>3, <1>12 DEF Steps
<1>15. ExportRun(h, m, arg, start, end)
  BY <1>13, <1>14 DEF ExportRun, I, n, seq
<1>16. end \in Assigning(m)
  BY <1>1, <1>14 DEF I
<1> QED
  BY <1>15, <1>16 DEF end, seq, executeBuiltInExport

\* A file's last block is cleared, its next with it.
LEMMA FileExecuted ==
  ASSUME NEW m \in Memory
  PROVE  LET r == executeFile(m)
         IN  /\ r \in Memory /\ Later(m, r) /\ r.fault = m.fault /\ NextOf(r.heap) = NULL
<1> DEFINE stream == malloc(m.heap)
           written == Written(stream.heap, stream.ptr, 4)
           newLine == malloc(written)
           h == Zeroed(newLine.heap, newLine.ptr, 150)
           r == [m EXCEPT !.heap = h]
           top == Newest(m.heap) + 1
<1>1. HeapOK(m.heap) /\ m.heap.ROOT # NULL /\ Newest(m.heap) \in Nat
  BY MemoryFacts
<1>2. /\ HeapOK(stream.heap) /\ stream.heap.ROOT # NULL /\ Newest(stream.heap) = top
      /\ stream.ptr = Header(top)
  BY <1>1, Mallocked
<1>3. top \in Numbers(stream.heap)
  BY <1>1, <1>2 DEF Numbers
<1> HIDE DEF stream
<1>4. HeapOK(written) /\ SameBut(stream.heap, written, top)
  BY <1>2, <1>3, WrittenHeap
<1> HIDE DEF written
<1>5. written.ROOT # NULL /\ Newest(written) = top
  BY <1>2, <1>4 DEF SameBut
<1>6. /\ HeapOK(newLine.heap) /\ newLine.heap.ROOT # NULL /\ Newest(newLine.heap) = top + 1
      /\ newLine.ptr = Header(top + 1)
  BY <1>4, <1>5, Mallocked
<1>7. top + 1 \in Numbers(newLine.heap)
  BY <1>1, <1>6 DEF Numbers
<1> HIDE DEF newLine
<1>8. /\ HeapOK(h) /\ SameBut(newLine.heap, h, top + 1) /\ h.blocks[top + 1].next = NULL
  BY <1>6, <1>7, ZeroedHeap
<1> HIDE DEF h
<1>9. /\ h.ROOT # NULL /\ Newest(h) = top + 1 /\ NextOf(h) = NULL
      /\ Newest(m.heap) <= Newest(h)
  BY <1>1, <1>6, <1>8 DEF SameBut, NextOf
<1>10. /\ r \in Memory /\ Later(m, r) /\ r.heap = h /\ r.fault = m.fault
  BY <1>8, <1>9, Reheaped
<1>11. executeFile(m) = r
  BY DEF executeFile, h, newLine, written, stream
<1> HIDE DEF r
<1> QED
  BY <1>9, <1>10, <1>11

\* A single command: only a file changes whether the newest block's next is text.
LEMMA Executed ==
  ASSUME NEW m \in Memory, NEW arg \in Args, PointsInto(m, arg), Short(m, arg),
         NEW command \in Commands
  PROVE  LET r == execute(m, command, arg)
         IN  /\ r \in Memory /\ Later(m, r) /\ r.fault = m.fault
             /\ command.kind = "file" => NextOf(r.heap) = NULL
             /\ command.kind # "file" => (NextOf(r.heap) = NULL <=> NextOf(m.heap) = NULL)
<1>1. m \in Assigning(m)
  <2>1. Newest(m.heap) \in Nat
    BY MemoryFacts
  <2> QED
    BY <2>1 DEF Assigning, Assigns, Later
<1>2. CASE command.kind = "file"
  BY <1>2, FileExecuted DEF execute
<1>3. CASE command.kind = "plain"
  BY <1>1, <1>3 DEF execute, Assigning, Assigns
<1>4. CASE command.kind = "export"
  <2>1. executeBuiltInExport(m, arg) \in Assigning(m)
    BY <1>1, Exported
  <2> QED
    BY <1>4, <2>1 DEF execute, Assigning, Assigns
<1>5. CASE command.kind = "assign"
  <2> DEFINE b == BlockOf(arg.command)
             start == assign(m, Header(b))
  <2>1. arg.command = Header(b)
    <3>1. arg.command \in Headers
      BY DEF Args
    <3> QED
      BY <3>1, Pointer
  <2>2. b \in Numbers(m.heap) /\ b \in DOMAIN m.text
    <3>1. Newest(m.heap) \in Nat
      BY MemoryFacts
    <3> QED
      BY <3>1 DEF PointsInto, Numbers
  <2>3. NextOf(m.heap) = NULL => m.text[b].word.len <= 16
    BY DEF Short
  <2>4. start \in Memory /\ Assigns(m, start)
    <3> HIDE DEF b
    <3> QED
      BY <2>2, <2>3, Assigned
  <2>5. executeBuiltInWithoutExport(m, arg) = executeBuiltInExport(start, arg)
    BY <2>1 DEF executeBuiltInWithoutExport
  <2> HIDE DEF start
  <2>6. start \in Assigning(m)
    BY <2>4 DEF Assigning
  <2>7. executeBuiltInExport(start, arg) \in Assigning(m)
    BY <2>6, Exported
  <2> QED
    BY <1>5, <2>5, <2>7 DEF execute, Assigning, Assigns
<1> QED
  BY <1>2, <1>3, <1>4, <1>5 DEF Commands

-----------------------------------------------------------------------------
(* Parsing.                                                                *)

\* Three blocks are taken: for the record, the name and the trimmed input.  The first takes
\* over the next of the newest block, the last is cleared before the input is written to it.
LEMMA Trimmed ==
  ASSUME NEW m \in Memory, NEW command, TextLength(command) \in Nat
  PROVE  LET r == trim(m, command)
             N == Newest(m.heap)
         IN  /\ r.mem \in Memory /\ Later(m, r.mem) /\ r.mem.fault = m.fault
             /\ r.mem.text = m.text /\ r.mem.environ_vars = m.environ_vars
             /\ Newest(r.mem.heap) = N + 3
             /\ \A i \in Numbers(m.heap) : r.mem.heap.blocks[i] = m.heap.blocks[i]
             /\ r.mem.heap.blocks[N + 1].next = NextOf(m.heap)
             /\ NextOf(r.mem.heap) = NULL <=> TextLength(command) <= 16
             /\ r.arg = [self |-> Header(N + 1), trimmedInput |-> Header(N + 3),
                         command |-> Header(N + 2), arguments |-> <<>>]
             /\ r = [mem |-> r.mem, arg |-> r.arg]
<1> DEFINE N == Newest(m.heap)
           L == TextLength(command)
           arg == malloc(m.heap)
           name == malloc(arg.heap)
           named == Zeroed(name.heap, name.ptr, 20)
           trimmed == malloc(named)
           zeroed == Zeroed(trimmed.heap, trimmed.ptr, 500)
           written == Written(zeroed, trimmed.ptr, L)
           h == Stored(written, arg.ptr, trimmed.ptr, written.blocks[BlockOf(arg.ptr)].next)
           o == [m EXCEPT !.heap = h]
<1>1. HeapOK(m.heap) /\ m.heap.ROOT # NULL /\ N \in Nat
  BY MemoryFacts
<1>2. trim(m, command) =
        [mem |-> o, arg |-> [self |-> arg.ptr, trimmedInput |-> trimmed.ptr,
                             command |-> name.ptr, arguments |-> <<>>]]
  BY DEF trim
<1>3. /\ HeapOK(arg.heap) /\ arg.heap.ROOT # NULL /\ Newest(arg.heap) = N + 1
      /\ arg.ptr = Header(N + 1) /\ NextOf(arg.heap) = NextOf(m.heap)
      /\ \A i \in 1..N : arg.heap.blocks[i] = m.heap.blocks[i]
  BY <1>1, Mallocked DEF Numbers
<1> HIDE DEF arg
<1>4. /\ HeapOK(name.heap) /\ name.heap.ROOT # NULL /\ Newest(name.heap) = N + 2
      /\ name.ptr = Header(N + 2)
      /\ \A i \in 1..(N + 1) : name.heap.blocks[i] = arg.heap.blocks[i]
  BY <1>1, <1>3, Mallocked DEF Numbers
<1> HIDE DEF name
<1>5. /\ HeapOK(named) /\ named.ROOT # NULL /\ Newest(named) = N + 2
      /\ \A i \in 1..(N + 1) : named.blocks[i] = name.heap.blocks[i]
  <2>1. N + 2 \in Numbers(name.heap) /\ 20 \in Nat
    BY <1>1, <1>4 DEF Numbers
  <2>2. HeapOK(named) /\ SameBut(name.heap, named, N + 2)
    BY <1>4, <2>1, ZeroedHeap
  <2> HIDE DEF named
  <2>3. \A i \in 1..(N + 1) : i \in Numbers(name.heap) /\ i # N + 2
    BY <1>1, <1>4 DEF Numbers
  <2> QED
    BY <1>4, <2>2, <2>3 DEF SameBut
<1> HIDE DEF named
<1>6. /\ HeapOK(trimmed.heap) /\ trimmed.heap.ROOT # NULL /\ Newest(trimmed.heap) = N + 3
      /\ trimmed.ptr = Header(N + 3)
      /\ \A i \in 1..(N + 2) : trimmed.heap.blocks[i] = named.blocks[i]
  BY <1>1, <1>5, Mallocked DEF Numbers
<1> HIDE DEF trimmed
<1>7. /\ HeapOK(zeroed) /\ zeroed.ROOT # NULL /\ Newest(zeroed) = N + 3
      /\ zeroed.blocks[N + 3].next = NULL
      /\ \A i \in 1..(N + 2) : zeroed.blocks[i] = trimmed.heap.blocks[i]
  <2>1. N + 3 \in Numbers(trimmed.heap) /\ 500 \in Nat
    BY <1>1, <1>6 DEF Numbers
  <2>2. /\ HeapOK(zeroed) /\ SameBut(trimmed.heap, zeroed, N + 3)
        /\ zeroed.blocks[N + 3].next = NULL
    BY <1>6, <2>1, ZeroedHeap
  <2> HIDE DEF zeroed
  <2>3. \A i \in 1..(N + 2) : i \in Numbers(trimmed.heap) /\ i # N + 3
    BY <1>1, <1>6 DEF Numbers
  <2> QED
    BY <1>6, <2>2, <2>3 DEF SameBut
<1> HIDE DEF zeroed
<1>8. /\ HeapOK(written) /\ written.ROOT # NULL /\ Newest(written) = N + 3
      /\ written.blocks[N + 3].next = NULL <=> L <= 16
      /\ \A i \in 1..(N + 2) : written.blocks[i] = zeroed.blocks[i]
  <2>1. N + 3 \in Numbers(zeroed) /\ L \in Nat
    BY <1>1, <1>7 DEF Numbers
  <2> HIDE DEF L
  <2>2. /\ HeapOK(written) /\ SameBut(zeroed, written, N + 3)
        /\ L <= 16 => written.blocks[N + 3].next = zeroed.blocks[N + 3].next
        /\ L > 16 => written.blocks[N + 3].next # NULL
    BY <1>6, <1>7, <2>1, WrittenHeap
  <2> HIDE DEF written
  <2>3. \A i \in 1..(N + 2) : i \in Numbers(zeroed) /\ i # N + 3
    BY <1>1, <1>7 DEF Numbers
  <2> QED
    BY <1>7, <2>1, <2>2, <2>3 DEF SameBut
<1> HIDE DEF written, L
<1>9. /\ HeapOK(h) /\ SameBut(written, h, N + 1)
      /\ h.blocks[N + 1].next = written.blocks[N + 1].next
  <2>1. N + 1 \in Numbers(written) /\ N + 1 # Newest(written) /\ N + 3 \in Nat
    BY <1>1, <1>8 DEF Numbers
  <2>2. written.blocks[N + 1] \in Block
    BY <1>8, <2>1, HeapFacts
  <2>3. Header(N + 3) \in Address /\ written.blocks[N + 1].next \in Address
    BY <2>1, <2>2 DEF Address, Block
  <2>4. h = Stored(written, Header(N + 1), Header(N + 3), written.blocks[N + 1].next)
    BY <1>3, <1>6, Apart
  <2> HIDE DEF h
  <2> QED
    BY <1>8, <2>1, <2>3, <2>4, StoredHeap
<1> HIDE DEF h
<1>10. /\ h.ROOT # NULL /\ Newest(h) = N + 3 /\ Newest(m.heap) <= Newest(h)
       /\ NextOf(h) = NULL <=> L <= 16
  <2>1. N + 3 \in Numbers(written) /\ N + 3 # N + 1 /\ N <= N + 3
    BY <1>1, <1>8 DEF Numbers
  <2> QED
    BY <1>8, <1>9, <2>1 DEF SameBut, NextOf
<1>11. \A i \in Numbers(m.heap) : h.blocks[i] = m.heap.blocks[i]
  <2> TAKE i \in Numbers(m.heap)
  <2>1. i \in 1..N /\ i \in 1..(N + 1) /\ i \in 1..(N + 2) /\ i # N + 1
        /\ i \in Numbers(written)
    BY <1>1, <1>8 DEF Numbers
  <2> QED
    BY <1>3, <1>4, <1>5, <1>6, <1>7, <1>8, <1>9, <2>1 DEF SameBut
<1>12. h.blocks[N + 1].next = NextOf(m.heap)
  <2>1. N + 1 \in 1..(N + 1) /\ N + 1 \in 1..(N + 2)
    BY <1>1
  <2>2. arg.heap.blocks[N + 1].next = NextOf(m.heap)
    BY <1>3 DEF NextOf
  <2> QED
    BY <1>4, <1>5, <1>6, <1>7, <1>8, <1>9, <2>1, <2>2
<1>13. /\ o \in Memory /\ Later(m, o) /\ o.heap = h /\ o.fault = m.fault
       /\ o.text = m.text /\ o.environ_vars = m.environ_vars
  BY <1>9, <1>10, Reheaped
<1> HIDE DEF o
<1> QED
  BY <1>2, <1>3, <1>4, <1>6, <1>10, <1>11, <1>12, <1>13 DEF L

\* What parsing a command makes of a memory.
Parsed(m, command) ==
  {p \in [mem : Memory, arg : Args] :
     /\ PointsInto(p.mem, p.arg) /\ Later(m, p.mem) /\ p.mem.fault = m.fault
     /\ BlockOf(p.arg.self) > Newest(m.heap)
     /\ \A i \in Numbers(m.heap) : p.mem.heap.blocks[i] = m.heap.blocks[i]
     /\ p.arg.arguments = <<>> => p.mem.heap.blocks[BlockOf(p.arg.self)].next = NextOf(m.heap)
     /\ NextOf(p.mem.heap) = NULL <=> TextLength(command) <= 16
     /\ p.mem.text[BlockOf(p.arg.command)].word.len <= TextLength(command)
     /\ \A j \in DOMAIN p.arg.arguments :
          p.mem.text[BlockOf(p.arg.arguments[j])].word.len <= TextLength(command)}

\* The name is written to its buffer.
LEMMA Named ==
  ASSUME NEW m \in Memory, NEW command, TextLength(command) \in Nat, NEW word \in AnyWord,
         word.len <= TextLength(command)
  PROVE  LET trimmed == trim(m, command)
             p == [trimmed EXCEPT !.mem = Put(@, trimmed.arg.command, word)]
         IN  p \in Parsed(m, command) /\ p.arg.arguments = <<>>
<1> DEFINE r == trim(m, command)
           N == Newest(m.heap)
           o == r.mem
           arg == r.arg
           n == Put(o, Header(N + 2), word)
           p == [mem |-> n, arg |-> arg]
<1>1. /\ o \in Memory /\ Later(m, o) /\ o.fault = m.fault
      /\ Newest(o.heap) = N + 3
      /\ \A i \in Numbers(m.heap) : o.heap.blocks[i] = m.heap.blocks[i]
      /\ o.heap.blocks[N + 1].next = NextOf(m.heap)
      /\ NextOf(o.heap) = NULL <=> TextLength(command) <= 16
      /\ arg = [self |-> Header(N + 1), trimmedInput |-> Header(N + 3),
                command |-> Header(N + 2), arguments |-> <<>>]
      /\ r = [mem |-> o, arg |-> arg]
  BY Trimmed
<1> HIDE DEF r
<1>2. [r EXCEPT !.mem = Put(@, r.arg.command, word)] = p
  BY <1>1
<1> HIDE DEF o, arg
<1>3. N \in Nat /\ N + 2 \in Numbers(o.heap) /\ N + 1 \in Numbers(o.heap)
      /\ N + 3 \in Numbers(o.heap) /\ \A i \in Numbers(m.heap) : i \in Numbers(o.heap) /\ i <= N
  BY <1>1, MemoryFacts DEF Numbers
<1>4. /\ n \in Memory /\ Later(o, n) /\ SameBut(o.heap, n.heap, N + 2) /\ n.fault = o.fault
      /\ DOMAIN n.text = DOMAIN o.text \cup {N + 2} /\ n.text[N + 2].word = word
  BY <1>1, <1>3, PutWord
<1> HIDE DEF n
<1>5. /\ Newest(n.heap) = N + 3 /\ NextOf(n.heap) = NextOf(o.heap)
      /\ n.heap.blocks[N + 1] = o.heap.blocks[N + 1]
      /\ \A i \in Numbers(m.heap) : n.heap.blocks[i] = m.heap.blocks[i]
  <2>1. N + 3 # N + 2 /\ N + 1 # N + 2 /\ \A i \in Numbers(m.heap) : i # N + 2
    <3>1. \A i \in Numbers(m.heap) : i <= N /\ i \in Nat
      BY <1>3 DEF Numbers
    <3> QED
      BY <1>3, <3>1
  <2>2. NextOf(n.heap) = NextOf(o.heap) /\ Newest(n.heap) = N + 3
    BY <1>1, <1>3, <1>4, <2>1 DEF SameBut, NextOf
  <2>3. n.heap.blocks[N + 1] = o.heap.blocks[N + 1]
    BY <1>3, <1>4, <2>1 DEF SameBut
  <2>4. \A i \in Numbers(m.heap) : n.heap.blocks[i] = o.heap.blocks[i]
    BY <1>3, <1>4, <2>1 DEF SameBut
  <2> QED
    BY <1>1, <2>2, <2>3, <2>4
<1>6. /\ BlockOf(arg.self) = N + 1 /\ BlockOf(arg.command) = N + 2
      /\ BlockOf(arg.trimmedInput) = N + 3 /\ arg.arguments = <<>>
      /\ DOMAIN arg.arguments = {}
  <2>1. arg.arguments = <<>>
    BY <1>1
  <2>2. DOMAIN arg.arguments = {}
    BY <2>1
  <2> QED
    BY <1>1, <2>1, <2>2, Apart
<1>7. arg \in Args
  <2>1. Header(N + 1) \in Headers /\ Header(N + 2) \in Headers /\ Header(N + 3) \in Headers
    BY <1>3 DEF Headers
  <2> QED
    BY <1>1, <2>1 DEF Args
<1>8. PointsInto(n, arg)
  <2>1. N + 1 \in 1..(Newest(n.heap) - 1) /\ N + 2 \in 1..(Newest(n.heap) - 1)
        /\ N + 3 \in Numbers(n.heap)
    BY <1>3, <1>5 DEF Numbers
  <2> QED
    BY <1>4, <1>6, <2>1 DEF PointsInto
<1>9. Later(m, n)
  BY <1>1, <1>4, LaterTwice
<1>10. N + 1 > N
  BY <1>3
<1>11. p \in [mem : Memory, arg : Args] /\ p.mem = n /\ p.arg = arg
  BY <1>4, <1>7
<1> HIDE DEF p
<1>12. p \in Parsed(m, command)
  BY <1>1, <1>4, <1>5, <1>6, <1>8, <1>9, <1>10, <1>11 DEF Parsed
<1> QED
  BY <1>2, <1>6, <1>11, <1>12 DEF r

\* An argument takes a block, which takes over the next of the newest; the pointer to the
\* first argument is kept in the record.
LEMMA ParsedArgument ==
  ASSUME NEW m \in Memory, NEW command, TextLength(command) \in Nat,
         NEW p \in Parsed(m, command), NEW word \in AnyWord, word.len <= TextLength(command)
  PROVE  /\ parse_argument(p, word) \in Parsed(m, command)
         /\ parse_argument(p, word).arg.arguments # <<>>
<1> DEFINE L == TextLength(command)
           o == p.mem
           arg == p.arg
           top == Newest(o.heap) + 1
           new == malloc(o.heap)
           s == BlockOf(arg.self)
           h == IF arg.arguments = <<>>
                THEN Stored(new.heap, Header(s), arg.trimmedInput, Header(top)) ELSE new.heap
           q == [o EXCEPT !.heap = h]
           r == Put(q, Header(top), word)
           args == Append(arg.arguments, Header(top))
           filled == [arg EXCEPT !.arguments = args]
           e == [mem |-> r, arg |-> filled]
<1>1. /\ p \in [mem : Memory, arg : Args] /\ o \in Memory /\ arg \in Args
      /\ PointsInto(o, arg) /\ Later(m, o) /\ o.fault = m.fault
      /\ s > Newest(m.heap)
      /\ \A i \in Numbers(m.heap) : o.heap.blocks[i] = m.heap.blocks[i]
      /\ NextOf(o.heap) = NULL <=> L <= 16
      /\ o.text[BlockOf(arg.command)].word.len <= L
      /\ \A j \in DOMAIN arg.arguments : o.text[BlockOf(arg.arguments[j])].word.len <= L
  BY DEF Parsed
<1>2. /\ HeapOK(o.heap) /\ o.heap.ROOT # NULL /\ Newest(o.heap) \in Nat
      /\ Newest(m.heap) \in Nat /\ Newest(m.heap) <= Newest(o.heap)
      /\ DOMAIN o.text \subseteq Nat
  BY <1>1, MemoryFacts DEF Later
<1>3. /\ HeapOK(new.heap) /\ new.heap.ROOT # NULL /\ Newest(new.heap) = top
      /\ new.ptr = Header(top) /\ NextOf(new.heap) = NextOf(o.heap)
      /\ \A i \in Numbers(o.heap) : new.heap.blocks[i] = o.heap.blocks[i]
  BY <1>2, Mallocked
<1>4. /\ arg.self = Header(s) /\ arg.trimmedInput \in Headers /\ arg.self \in Headers
      /\ arg.arguments \in Seq(Headers)
  <2>1. arg.self \in Headers /\ arg.trimmedInput \in Headers /\ arg.arguments \in Seq(Headers)
    BY <1>1 DEF Args
  <2> QED
    BY <2>1, Pointer
<1>5. parse_argument(p, word) = e
  <2>1. p = [mem |-> o, arg |-> arg]
    BY <1>1
  <2>2. [o EXCEPT !.heap = IF arg.arguments = <<>>
                           THEN Stored(new.heap, arg.self, arg.trimmedInput, new.ptr)
                           ELSE new.heap] = q
    BY <1>3, <1>4
  <2> HIDE DEF q
  <2> QED
    BY <1>3, <2>2 DEF parse_argument
<1>6. s \in Numbers(new.heap) /\ s # top /\ s \in Numbers(o.heap)
      /\ top \in Numbers(new.heap) /\ top \in Nat
      /\ \A i \in Numbers(m.heap) : i \in Numbers(o.heap) /\ i \in Numbers(new.heap)
                                    /\ i # s /\ i # top
  <2>1. s \in 1..(Newest(o.heap) - 1)
    BY <1>1 DEF PointsInto
  <2> HIDE DEF s, new, o, arg
  <2>2. s \in Numbers(o.heap) /\ s \in Numbers(new.heap) /\ s # top
    BY <1>1, <1>2, <1>3, <2>1 DEF Numbers
  <2>3. top \in Numbers(new.heap) /\ top \in Nat
    BY <1>1, <1>2, <1>3 DEF Numbers
  <2>4. \A i \in Numbers(m.heap) : i \in Numbers(o.heap) /\ i \in Numbers(new.heap) /\ i # s /\ i # top
    BY <1>1, <1>2, <1>3, <2>1 DEF Numbers
  <2> QED
    BY <2>2, <2>3, <2>4
<1> HIDE DEF o, arg, new, s, L
<1>7. /\ HeapOK(h) /\ h.ROOT # NULL /\ Newest(h) = top /\ NextOf(h) = NextOf(o.heap)
      /\ \A i \in Numbers(m.heap) : h.blocks[i] = m.heap.blocks[i]
  <2>1. CASE arg.arguments # <<>>
    <3>1. h = new.heap
      BY <2>1
    <3> HIDE DEF h
    <3> QED
      BY <1>1, <1>3, <1>6, <3>1
  <2>2. CASE arg.arguments = <<>>
    <3>1. h = Stored(new.heap, Header(s), arg.trimmedInput, Header(top))
      BY <2>2
    <3> HIDE DEF h
    <3>2. arg.trimmedInput \in Address /\ Header(top) \in Address
      BY <1>4, <1>6 DEF Headers, Address
    <3>3. HeapOK(h) /\ SameBut(new.heap, h, s)
      BY <1>3, <1>6, <3>1, <3>2, StoredHeap
    <3> QED
      BY <1>1, <1>3, <1>6, <3>3 DEF SameBut, NextOf
  <2> QED
    BY <2>1, <2>2
<1> HIDE DEF h
<1>8. Newest(o.heap) <= Newest(h)
  BY <1>2, <1>7
<1>9. q \in Memory /\ Later(o, q) /\ q.heap = h /\ q.text = o.text /\ q.fault = o.fault
  BY <1>1, <1>7, <1>8, Reheaped
<1> HIDE DEF q
<1>10. top \in Numbers(q.heap) /\ word.len \in Nat
  BY <1>6, <1>7, <1>9, AnyWords DEF Numbers
<1>11. /\ r \in Memory /\ Later(q, r) /\ SameBut(h, r.heap, top) /\ r.fault = q.fault
       /\ DOMAIN r.text = DOMAIN o.text \cup {top} /\ r.text[top].word = word
       /\ \A c \in DOMAIN o.text : c # top => r.text[c] = o.text[c]
       /\ word.len <= 16 => r.heap.blocks[top].next = h.blocks[top].next
       /\ word.len > 16 => r.heap.blocks[top].next # NULL
  <2> HIDE DEF top
  <2> QED
    BY <1>9, <1>10, PutWord
<1> HIDE DEF r
<1>12. Newest(r.heap) = top /\ (NextOf(r.heap) = NULL <=> L <= 16)
  <2>1. Newest(r.heap) = top
    BY <1>7, <1>11 DEF SameBut
  <2>2. L \in Nat /\ word.len <= L
    BY DEF L
  <2>3. h.blocks[top].next = NULL <=> L <= 16
    BY <1>1, <1>7 DEF NextOf
  <2>4. r.heap.blocks[top].next = NULL <=> L <= 16
    BY <1>10, <1>11, <2>2, <2>3
  <2> QED
    BY <2>1, <2>4 DEF NextOf
<1>13. \A i \in Numbers(m.heap) : r.heap.blocks[i] = m.heap.blocks[i]
  <2> TAKE i \in Numbers(m.heap)
  <2>1. i \in Numbers(h)
    BY <1>3, <1>6, <1>7 DEF Numbers
  <2>2. r.heap.blocks[i] = h.blocks[i]
    BY <1>6, <1>11, <2>1 DEF SameBut
  <2> QED
    BY <1>7, <2>2
<1>14. Later(o, r) /\ Later(m, r) /\ r.fault = m.fault
  <2>1. Later(o, r)
    BY <1>1, <1>9, <1>11, LaterTwice
  <2>2. Later(m, r)
    BY <1>1, <1>11, <2>1, LaterTwice
  <2> QED
    BY <1>1, <1>9, <1>11, <2>1, <2>2
<1>15. /\ args \in Seq(Headers) /\ Len(arg.arguments) \in Nat
       /\ DOMAIN args = 1..(Len(arg.arguments) + 1)
       /\ DOMAIN arg.arguments = 1..Len(arg.arguments)
       /\ \A j \in 1..Len(arg.arguments) : args[j] = arg.arguments[j]
       /\ args[Len(arg.arguments) + 1] = Header(top)
  <2>1. Header(top) \in Headers
    BY <1>6 DEF Headers
  <2> QED
    BY <1>4, <2>1, AppendProperties, LenProperties
<1> HIDE DEF args
<1>16. args # <<>>
  <2>1. 1 \in DOMAIN args
    BY <1>15
  <2> QED
    BY <2>1
<1>17. /\ filled \in Args /\ filled.arguments = args /\ filled.self = arg.self
       /\ filled.command = arg.command /\ filled.trimmedInput = arg.trimmedInput
  BY <1>1, <1>15 DEF Args
<1> HIDE DEF filled
<1>18. PointsInto(r, arg)
  BY <1>1, <1>11, <1>14, PointsLater
<1>19. ASSUME NEW j \in DOMAIN args
       PROVE  /\ BlockOf(args[j]) \in Numbers(r.heap) /\ BlockOf(args[j]) \in DOMAIN r.text
              /\ r.text[BlockOf(args[j])].word.len <= L
  <2>1. CASE j \in 1..Len(arg.arguments)
    <3>1. args[j] = arg.arguments[j] /\ j \in DOMAIN arg.arguments
      BY <1>15, <2>1
    <3>2. BlockOf(args[j]) \in Numbers(o.heap) /\ BlockOf(args[j]) \in DOMAIN o.text
      BY <1>1, <3>1 DEF PointsInto
    <3>3. BlockOf(args[j]) # top
      BY <1>2, <3>2 DEF Numbers
    <3>4. r.text[BlockOf(args[j])] = o.text[BlockOf(args[j])]
      BY <1>11, <3>2, <3>3
    <3> QED
      BY <1>1, <1>18, <3>1, <3>4 DEF PointsInto
  <2>2. CASE j = Len(arg.arguments) + 1
    <3>1. BlockOf(args[j]) = top
      BY <1>15, <2>2, Apart
    <3>2. top \in Numbers(r.heap) /\ top \in DOMAIN r.text
      BY <1>6, <1>11, <1>12 DEF Numbers
    <3> QED
      BY <1>11, <3>1, <3>2 DEF L
  <2> QED
    BY <1>15, <2>1, <2>2
<1>20. PointsInto(r, filled)
  BY <1>17, <1>18, <1>19 DEF PointsInto
<1>21. r.text[BlockOf(arg.command)].word.len <= L
  <2>1. BlockOf(arg.command) \in DOMAIN o.text /\ BlockOf(arg.command) # top
    BY <1>1, <1>2 DEF PointsInto
  <2> QED
    BY <1>1, <1>11, <2>1
<1>22. e \in [mem : Memory, arg : Args] /\ e.mem = r /\ e.arg = filled
  BY <1>11, <1>17
<1> HIDE DEF e
<1>23. BlockOf(filled.self) > Newest(m.heap)
  BY <1>1, <1>17 DEF s
<1>24. e \in Parsed(m, command)
  BY <1>12, <1>13, <1>14, <1>16, <1>17, <1>19, <1>20, <1>21, <1>22, <1>23 DEF Parsed, L
<1> QED
  BY <1>5, <1>16, <1>17, <1>22, <1>24

\* The words behind the first.
LEMMA Behind ==
  ASSUME NEW words \in Seq(Words), words # <<>>
  PROVE  /\ Tail(words) \in Seq(Words) /\ Len(Tail(words)) = Len(words) - 1
         /\ \A k \in 1..Len(Tail(words)) : /\ k + 1 \in 1..Len(words)
                                          /\ Tail(words)[k] = words[k + 1]
<1>1. Len(words) \in Nat \ {0}
  BY LenProperties, EmptySeq
<1> QED
  BY <1>1, HeadTailProperties

\* What parsing the words behind the first one after the other makes of a memory.
ParseRun(h, m, command, end) ==
  LET words   == command.words
      n       == Len(words) - 1
      trimmed == trim(m, command)
  IN  /\ h \in [0..n -> Parsed(m, command)]
      /\ h[0] = [trimmed EXCEPT !.mem = Put(@, trimmed.arg.command, words[1])]
      /\ h[n] = end
      /\ \A k \in 1..n : /\ h[k - 1] \in Parsed(m, command)
                         /\ h[k] = parse_argument(h[k - 1], words[k + 1])

LEMMA ParsedInput ==
  ASSUME NEW m \in Memory, NEW command \in Commands
  PROVE  /\ TextLength(command) \in Nat
         /\ parseInput(m, command) \in Parsed(m, command)
         /\ \E h : ParseRun(h, m, command, parseInput(m, command))
         /\ parseInput(m, command).arg.arguments = <<>> <=> Len(command.words) = 1
<1> DEFINE words == command.words
           seq == Tail(words)
           I == Parsed(m, command)
           n == Len(seq)
           trimmed == trim(m, command)
           base == [trimmed EXCEPT !.mem = Put(@, trimmed.arg.command, words[1])]
           F == [p \in I \X (1..n) |-> parse_argument(p[1], seq[p[2]])]
           D == 1..n
           Runs(f) == f = [s \in SUBSET D |->
                             IF s = {} THEN base
                             ELSE LET x == Max(s) IN parse_argument(f[s \ {x}], seq[x])]
           it == CHOOSE f : Runs(f)
           end == FoldLeft(parse_argument, base, seq)
<1>1. words \in Seq(Words) /\ words # <<>> /\ Len(words) \in Nat \ {0}
  <2>1. words \in Seq(Words) /\ words # <<>>
    BY DEF Commands
  <2> HIDE DEF words
  <2> QED
    BY <2>1, LenProperties, EmptySeq
<1>2. /\ TextLength(command) \in Nat
      /\ \A k \in 1..Len(words) : words[k] \in Words /\ words[k].len <= TextLength(command)
  BY <1>1, TextLengthBounds, ElementOfSeq
<1>3. /\ seq \in Seq(Words) /\ n = Len(words) - 1 /\ n \in Nat /\ D = DOMAIN seq
      /\ \A k \in 1..n : /\ seq[k] \in Words /\ seq[k].len <= TextLength(command)
                         /\ seq[k] = words[k + 1]
  BY <1>1, <1>2, Behind, LenProperties
<1>4. base \in I /\ base.arg.arguments = <<>>
  <2>1. words[1] \in Words /\ words[1].len <= TextLength(command)
    BY <1>1, <1>2
  <2> HIDE DEF words
  <2> QED
    BY <1>2, <2>1, AnyWords, Named
<1>5. \A p \in I, k \in 1..n :
        parse_argument(p, seq[k]) \in I /\ parse_argument(p, seq[k]).arg.arguments # <<>>
  BY <1>2, <1>3, AnyWords, ParsedArgument
<1>6. end = it[D]
  BY <1>3 DEF FoldLeft, MapThenFoldSet
<1>7. parseInput(m, command) = end
  BY DEF parseInput
<1> HIDE DEF n, I, seq, end, base
<1>8. F \in [I \X (1..n) -> I]
  BY <1>5
<1>9. PICK g : Along(g, I, n, base, F)
  <2> HIDE DEF F
  <2> QED
    BY <1>3, <1>4, <1>8, Chained
<1>10. Runs(g)
  <2>1. g \in [SUBSET D -> I]
    BY <1>9 DEF Along
  <2>2. \A s \in SUBSET D : s # {} => Max(s) \in D /\ s \ {Max(s)} \in SUBSET D
    BY <1>3, Subsets
  <2>3. \A s \in SUBSET D :
          g[s] = IF s = {} THEN base ELSE parse_argument(g[s \ {Max(s)}], seq[Max(s)])
    BY <1>9, <2>1, <2>2 DEF Along
  <2> QED
    BY <2>1, <2>3
<1>11. Runs(it)
  BY <1>10
<1>12. \A s \in SUBSET D :
         it[s] = IF s = {} THEN base ELSE parse_argument(it[s \ {Max(s)}], seq[Max(s)])
  <2> HIDE DEF it
  <2> QED
    BY <1>11
<1> HIDE DEF it, Runs
<1>13. it[{}] = base
  BY <1>12
<1>14. \A s \in SUBSET (1..n) :
          s # {} /\ it[s \ {Max(s)}] \in I => it[s] = F[<<it[s \ {Max(s)}], Max(s)>>]
  BY <1>3, <1>12, Subsets
<1>15. PICK h : Steps(h, I, n, base, F, it[1..n])
  <2> HIDE DEF F
  <2> QED
    BY <1>3, <1>4, <1>8, <1>13, <1>14, FoldSteps
<1>16. it[D] \in I
  BY <1>3, <1>15 DEF Steps
<1>17. ASSUME n # 0 PROVE it[D].arg.arguments # <<>>
  <2> n \in Nat
    BY <1>3
  <2>1. n \in 1..n /\ n - 1 \in 0..n
    BY <1>17
  <2>2. h[n - 1] \in I /\ it[D] = F[<<h[n - 1], n>>]
    BY <1>15, <2>1 DEF Steps
  <2>3. it[D] = parse_argument(h[n - 1], seq[n])
    BY <2>1, <2>2
  <2> QED
    BY <1>5, <2>1, <2>2, <2>3
<1>18. ASSUME n = 0 PROVE it[D].arg.arguments = <<>>
  <2>1. D = {}
    BY <1>18
  <2> QED
    BY <1>4, <1>13, <2>1
<1>19. Len(words) = 1 <=> n = 0
  BY <1>1, <1>3
<1>20. \A k \in 1..n : h[k - 1] \in I /\ h[k] = parse_argument(h[k - 1], words[k + 1])
  <2>1. \A k \in 1..n : k - 1 \in 0..n
    BY <1>3
  <2> QED
    BY <1>3, <1>15, <2>1 DEF Steps
<1>21. h \in [0..n -> I] /\ h[0] = base /\ h[n] = end
  BY <1>6, <1>15 DEF Steps
<1>22. ParseRun(h, m, command, end)
  BY <1>3, <1>20, <1>21 DEF ParseRun, I, base
<1> QED
  BY <1>2, <1>6, <1>7, <1>16, <1>17, <1>18, <1>19, <1>22 DEF I

\* What parsing the first k commands of a line makes of a memory.
LinedUp(m, l, k, a) ==
  /\ a \in [mem : Memory, args : Seq(Args)] /\ Len(a.args) = k
  /\ a.mem.fault = m.fault
  /\ NextOf(a.mem.heap) = NULL <=> k = 0 \/ TextLength(l[k]) <= 16
  /\ k > 0 => Short(a.mem, a.args[k])
  /\ \A i \in 1..k :
       /\ PointsInto(a.mem, a.args[i])
       /\ a.args[i].arguments = <<>> <=> Len(l[i].words) = 1
       /\ a.args[i].arguments = <<>> =>
            (a.mem.heap.blocks[BlockOf(a.args[i].self)].next = NULL
               <=> i = 1 \/ TextLength(l[i - 1]) <= 16)

ParseNext(all, command) ==
  [mem |-> parseInput(all.mem, command).mem,
   args |-> Append(all.args, parseInput(all.mem, command).arg)]

LEMMA ParsedNext ==
  ASSUME NEW m \in Memory, NEW l, NEW k \in Nat, NEW o, LinedUp(m, l, k, o),
         l[k + 1] \in Commands
  PROVE  LinedUp(m, l, k + 1, ParseNext(o, l[k + 1]))
<1> DEFINE command == l[k + 1]
           p == parseInput(o.mem, command)
           args == Append(o.args, p.arg)
           a == [mem |-> p.mem, args |-> args]
           L == TextLength(command)
<1>1. ParseNext(o, command) = a
  BY DEF ParseNext
<1>2. /\ o \in [mem : Memory, args : Seq(Args)] /\ o.mem \in Memory
      /\ o.args \in Seq(Args) /\ Len(o.args) = k
      /\ o.mem.fault = m.fault
      /\ NextOf(o.mem.heap) = NULL <=> k = 0 \/ TextLength(l[k]) <= 16
  BY DEF LinedUp
<1>3. /\ L \in Nat /\ p \in Parsed(o.mem, command)
      /\ p.arg.arguments = <<>> <=> Len(command.words) = 1
  BY <1>2, ParsedInput
<1> HIDE DEF p, L
<1>4. /\ p \in [mem : Memory, arg : Args] /\ p.mem \in Memory /\ p.arg \in Args
      /\ PointsInto(p.mem, p.arg) /\ Later(o.mem, p.mem) /\ p.mem.fault = o.mem.fault
      /\ \A i \in Numbers(o.mem.heap) : p.mem.heap.blocks[i] = o.mem.heap.blocks[i]
      /\ p.arg.arguments = <<>> =>
           p.mem.heap.blocks[BlockOf(p.arg.self)].next = NextOf(o.mem.heap)
      /\ NextOf(p.mem.heap) = NULL <=> L <= 16
      /\ p.mem.text[BlockOf(p.arg.command)].word.len <= L
      /\ \A j \in DOMAIN p.arg.arguments :
           p.mem.text[BlockOf(p.arg.arguments[j])].word.len <= L
  BY <1>3 DEF Parsed, L
<1>5. /\ args \in Seq(Args) /\ Len(args) = k + 1
      /\ \A i \in 1..k : args[i] = o.args[i]
      /\ args[k + 1] = p.arg
  <2>1. PICK all, new : all = o.args /\ new = p.arg
    OBVIOUS
  <2>2. all \in Seq(Args) /\ Len(all) = k /\ new \in Args
    BY <1>2, <1>4, <2>1
  <2>3. /\ Append(all, new) \in Seq(Args) /\ Len(Append(all, new)) = k + 1
        /\ \A i \in 1..k : Append(all, new)[i] = all[i]
        /\ Append(all, new)[k + 1] = new
    BY <2>2, AppendProperties
  <2>4. args = Append(all, new)
    BY <2>1
  <2> HIDE DEF args
  <2> QED
    BY <2>1, <2>3, <2>4
<1> HIDE DEF args
<1>6. a \in [mem : Memory, args : Seq(Args)] /\ a.mem = p.mem /\ a.args = args
  BY <1>4, <1>5
<1> HIDE DEF a
<1>7. Short(a.mem, a.args[k + 1])
  <2> SUFFICES ASSUME NextOf(p.mem.heap) = NULL
               PROVE  /\ p.mem.text[BlockOf(p.arg.command)].word.len <= 16
                      /\ \A j \in DOMAIN p.arg.arguments :
                           p.mem.text[BlockOf(p.arg.arguments[j])].word.len <= 16
    BY <1>5, <1>6 DEF Short
  <2>1. L <= 16
    BY <1>4
  <2>2. ASSUME NEW len \in Nat, len <= L PROVE len <= 16
    BY <1>3, <2>1, <2>2
  <2>3. p.mem.text[BlockOf(p.arg.command)].word.len <= 16
    <3>1. p.mem.text[BlockOf(p.arg.command)].word.len \in Nat
      BY <1>4, WordOf DEF PointsInto
    <3> QED
      BY <1>4, <2>2, <3>1
  <2>4. ASSUME NEW j \in DOMAIN p.arg.arguments
        PROVE  p.mem.text[BlockOf(p.arg.arguments[j])].word.len <= 16
    <3>1. p.mem.text[BlockOf(p.arg.arguments[j])].word.len \in Nat
      BY <1>4, WordOf DEF PointsInto
    <3> QED
      BY <1>4, <2>2, <3>1
  <2> QED
    BY <2>3, <2>4
<1>8. ASSUME NEW i \in 1..(k + 1)
      PROVE  /\ PointsInto(a.mem, a.args[i])
             /\ a.args[i].arguments = <<>> <=> Len(l[i].words) = 1
             /\ a.args[i].arguments = <<>> =>
                  (a.mem.heap.blocks[BlockOf(a.args[i].self)].next = NULL
                     <=> i = 1 \/ TextLength(l[i - 1]) <= 16)
  <2>1. CASE i = k + 1
    <3>1. a.args[i] = p.arg /\ i - 1 = k /\ (i = 1 <=> k = 0)
      BY <1>5, <1>6, <2>1
    <3> QED
      BY <1>2, <1>3, <1>4, <1>6, <2>1, <3>1
  <2>2. CASE i # k + 1
    <3>1. i \in 1..k /\ a.args[i] = o.args[i] /\ o.args[i] \in Args
      BY <1>2, <1>5, <1>6, <2>2, ElementOfSeq
    <3>2. /\ PointsInto(o.mem, o.args[i])
          /\ o.args[i].arguments = <<>> <=> Len(l[i].words) = 1
          /\ o.args[i].arguments = <<>> =>
               (o.mem.heap.blocks[BlockOf(o.args[i].self)].next = NULL
                  <=> i = 1 \/ TextLength(l[i - 1]) <= 16)
      BY <3>1 DEF LinedUp
    <3>3. PointsInto(p.mem, o.args[i])
      BY <1>2, <1>4, <3>1, <3>2, PointsLater
    <3>4. BlockOf(o.args[i].self) \in Numbers(o.mem.heap)
      <4>1. Newest(o.mem.heap) \in Nat
        BY <1>2, MemoryFacts
      <4> QED
        BY <3>2, <4>1 DEF PointsInto, Numbers
    <3>5. p.mem.heap.blocks[BlockOf(o.args[i].self)] =
            o.mem.heap.blocks[BlockOf(o.args[i].self)]
      BY <1>4, <3>4
    <3>6. a.mem = p.mem /\ a.args[i] = o.args[i]
      BY <1>6, <3>1
    <3>7. PointsInto(a.mem, a.args[i])
      BY <3>3, <3>6
    <3>8. a.args[i].arguments = <<>> <=> Len(l[i].words) = 1
      BY <3>2, <3>6
    <3>9. ASSUME a.args[i].arguments = <<>>
          PROVE  a.mem.heap.blocks[BlockOf(a.args[i].self)].next = NULL
                   <=> i = 1 \/ TextLength(l[i - 1]) <= 16
      BY <3>2, <3>5, <3>6, <3>9
    <3> QED
      BY <3>7, <3>8, <3>9
  <2> QED
    BY <2>1, <2>2
<1>9. NextOf(a.mem.heap) = NULL <=> k + 1 = 0 \/ TextLength(l[k + 1]) <= 16
  <2>1. NextOf(p.mem.heap) = NULL <=> L <= 16
    BY <1>4
  <2>2. k + 1 # 0
    OBVIOUS
  <2>3. NextOf(p.mem.heap) = NULL <=> TextLength(l[k + 1]) <= 16
    BY <2>1 DEF L
  <2> QED
    BY <1>6, <2>2, <2>3
<1> QED
  BY <1>1, <1>2, <1>4, <1>5, <1>6, <1>7, <1>8, <1>9 DEF LinedUp

\* What parsing the commands of a line one after the other makes of a memory.
LineRun(h, m, l, end) ==
  /\ h[0] = [mem |-> m, args |-> <<>>] /\ h[Len(l)] = end
  /\ \A k \in 0..Len(l) : LinedUp(m, l, k, h[k])
  /\ \A k \in 1..Len(l) : h[k] = ParseNext(h[k - 1], l[k])

LEMMA ParsedLine ==
  ASSUME NEW m \in Memory, NextOf(m.heap) = NULL, NEW l \in Seq(Commands)
  PROVE  LET end == FoldLeft(ParseNext, [mem |-> m, args |-> <<>>], l)
         IN  LinedUp(m, l, Len(l), end) /\ \E h : LineRun(h, m, l, end)
<1> DEFINE I == [mem : Memory, args : Seq(Args)]
           n == Len(l)
           base == [mem |-> m, args |-> <<>>]
           F == [p \in I \X (1..n) |-> ParseNext(p[1], l[p[2]])]
           D == 1..n
           Runs(f) == f = [s \in SUBSET D |->
                             IF s = {} THEN base
                             ELSE LET x == Max(s) IN ParseNext(f[s \ {x}], l[x])]
           it == CHOOSE f : Runs(f)
           end == FoldLeft(ParseNext, base, l)
<1>1. n \in Nat /\ D = DOMAIN l /\ \A k \in 1..n : l[k] \in Commands
  BY LenProperties, ElementOfSeq
<1>2. \A o \in I, k \in 1..n : ParseNext(o, l[k]) \in I
  <2> TAKE o \in I, k \in 1..n
  <2> DEFINE p == parseInput(o.mem, l[k])
  <2>1. o.mem \in Memory /\ o.args \in Seq(Args)
    OBVIOUS
  <2>2. p \in Parsed(o.mem, l[k])
    BY <1>1, <2>1, ParsedInput
  <2> HIDE DEF p
  <2>3. p.mem \in Memory /\ p.arg \in Args
    BY <2>2 DEF Parsed
  <2>4. Append(o.args, p.arg) \in Seq(Args)
    BY <2>1, <2>3, AppendProperties
  <2> QED
    BY <2>3, <2>4 DEF ParseNext, p
<1>3. end = it[D]
  BY <1>1 DEF FoldLeft, MapThenFoldSet
<1>4. base \in I
  <2>1. <<>> \in Seq(Args)
    BY EmptySeq
  <2> QED
    BY <2>1
<1>5. LinedUp(m, l, 0, base)
  <2>1. base.mem = m /\ base.args = <<>> /\ Len(base.args) = 0
    OBVIOUS
  <2> HIDE DEF base
  <2> QED
    BY <1>4, <2>1 DEF LinedUp
<1> HIDE DEF n, I, end, base
<1>6. F \in [I \X (1..n) -> I]
  BY <1>2
<1>7. PICK g : Along(g, I, n, base, F)
  <2> HIDE DEF F
  <2> QED
    BY <1>1, <1>4, <1>6, Chained
<1>8. Runs(g)
  <2>1. g \in [SUBSET D -> I]
    BY <1>7 DEF Along
  <2>2. \A s \in SUBSET D : s # {} => Max(s) \in D /\ s \ {Max(s)} \in SUBSET D
    BY <1>1, Subsets
  <2>3. \A s \in SUBSET D :
          g[s] = IF s = {} THEN base ELSE ParseNext(g[s \ {Max(s)}], l[Max(s)])
    BY <1>7, <2>1, <2>2 DEF Along
  <2> QED
    BY <2>1, <2>3
<1>9. Runs(it)
  BY <1>8
<1>10. \A s \in SUBSET D :
         it[s] = IF s = {} THEN base ELSE ParseNext(it[s \ {Max(s)}], l[Max(s)])
  <2> HIDE DEF it
  <2> QED
    BY <1>9
<1> HIDE DEF it, Runs
<1>11. it[{}] = base
  BY <1>10
<1>12. \A s \in SUBSET (1..n) :
          s # {} /\ it[s \ {Max(s)}] \in I => it[s] = F[<<it[s \ {Max(s)}], Max(s)>>]
  BY <1>1, <1>10, Subsets
<1>13. PICK h : Steps(h, I, n, base, F, it[1..n])
  <2> HIDE DEF F
  <2> QED
    BY <1>1, <1>4, <1>6, <1>11, <1>12, FoldSteps
<1>14. ASSUME NEW k \in 1..n PROVE k - 1 \in 0..n /\ h[k] = ParseNext(h[k - 1], l[k])
  <2>1. k - 1 \in 0..n
    BY <1>1
  <2>2. h[k - 1] \in I /\ h[k] = F[<<h[k - 1], k>>]
    BY <1>13, <2>1 DEF Steps
  <2> QED
    BY <2>1, <2>2
<1> DEFINE good == {k \in 0..n : LinedUp(m, l, k, h[k])}
<1>15. 0 \in good
  BY <1>1, <1>5, <1>13 DEF Steps
<1>16. ASSUME NEW k \in 1..n, k - 1 \in good PROVE k \in good
  <2> DEFINE j == k - 1
  <2>1. j \in Nat /\ k = j + 1 /\ k \in 0..n
    BY <1>1
  <2>2. LinedUp(m, l, j, h[j])
    BY <1>16
  <2>3. h[k] = ParseNext(h[j], l[k])
    BY <1>14
  <2> HIDE DEF j, good
  <2>4. LinedUp(m, l, j + 1, ParseNext(h[j], l[j + 1]))
    BY <1>1, <2>1, <2>2, ParsedNext
  <2> QED
    BY <2>1, <2>3, <2>4 DEF good
<1>17. n \in 0..n /\ \A k \in 0..n : k \in good
  <2> n \in Nat
    BY <1>1
  <2>1. n \in 0..n
    OBVIOUS
  <2> HIDE DEF good
  <2>2. \A k \in 0..n : k \in good
    BY <1>15, <1>16, UpTo
  <2> QED
    BY <2>1, <2>2
<1>18. LinedUp(m, l, n, h[n]) /\ h[n] = it[D] /\ h[0] = base
  BY <1>13, <1>17 DEF Steps
<1>19. LineRun(h, m, l, end)
  BY <1>3, <1>14, <1>17, <1>18 DEF LineRun, n, base
<1> QED
  BY <1>3, <1>18, <1>19 DEF n, end, base

-----------------------------------------------------------------------------
(* Sessions.                                                               *)

\* Between two lines the newest block's next is null; after a line is parsed it is text if and
\* only if the last command is overlong, and giving the line back follows it.
MemoryInv ==
  /\ mem \in Memory /\ c_args \in Seq(Args)
  /\ \A i \in DOMAIN c_args : PointsInto(mem, c_args[i])
  /\ stage = "prompt" => ~mem.fault /\ NextOf(mem.heap) = NULL
  /\ stage = "prompt" /\ count > 0 => ~Overlong
  /\ stage \in {"parsed", "executed"} => line \in Lines /\ Len(c_args) = Len(line)
  /\ stage = "parsed" =>
       ~mem.fault /\ LinedUp(mem, line, Len(line), [mem |-> mem, args |-> c_args])
  /\ stage = "executed" => ~mem.fault /\ (NextOf(mem.heap) = NULL <=> ~Overlong)
  /\ stage = "dead" => Overlong

LEMMA LineFacts ==
  ASSUME NEW l \in Lines
  PROVE  /\ l \in Seq(Commands) /\ Len(l) \in Nat \ {0} /\ DOMAIN l = 1..Len(l)
         /\ \A i \in 1..Len(l) : l[i] \in Commands /\ TextLength(l[i]) \in Nat
<1>1. l \in Seq(Commands) /\ l # <<>>
  BY LinesAssumption
<1>2. Len(l) \in Nat \ {0} /\ DOMAIN l = 1..Len(l) /\ \A i \in 1..Len(l) : l[i] \in Commands
  BY <1>1, LenProperties, EmptySeq, ElementOfSeq
<1>3. ASSUME NEW i \in 1..Len(l) PROVE TextLength(l[i]) \in Nat
  <2> DEFINE words == l[i].words
  <2>1. words \in Seq(Words) /\ words # <<>>
    BY <1>2 DEF Commands
  <2> QED
    BY <2>1, TextLengthBounds
<1> QED
  BY <1>1, <1>2, <1>3

LEMMA NewHeap ==
  LET arg == malloc([ROOT |-> NULL, blocks |-> <<>>])
      name == malloc(arg.heap)
      h == Zeroed(name.heap, name.ptr, envs.len + 1)
  IN  /\ name.ptr = Header(2) /\ HeapOK(h) /\ h.ROOT # NULL /\ Newest(h) = 2
      /\ NextOf(h) = NULL
<1> DEFINE empty == [ROOT |-> NULL, blocks |-> <<>>]
           arg == malloc(empty)
           name == malloc(arg.heap)
           h == Zeroed(name.heap, name.ptr, envs.len + 1)
<1>1. HeapOK(empty) /\ empty.ROOT = NULL /\ Newest(empty) = 0
  <2>1. empty.ROOT = NULL /\ empty.blocks = <<>> /\ <<>> \in Seq(Block) /\ Len(<<>>) = 0
    BY EmptySeq
  <2>2. empty \in Heaps
    BY <2>1 DEF Heaps
  <2> HIDE DEF empty
  <2> QED
    BY <2>1, <2>2 DEF HeapOK, Newest
<1> HIDE DEF empty
<1>2. HeapOK(arg.heap) /\ arg.heap.ROOT # NULL /\ Newest(arg.heap) = 1 /\ NextOf(arg.heap) = NULL
  BY <1>1, Mallocked
<1> HIDE DEF arg
<1>3. /\ HeapOK(name.heap) /\ name.heap.ROOT # NULL /\ Newest(name.heap) = 2
      /\ name.ptr = Header(2) /\ NextOf(name.heap) = NULL
  BY <1>2, Mallocked
<1> HIDE DEF name
<1>4. envs.len + 1 \in Nat /\ envs.len + 1 < 20 /\ 2 \in Numbers(name.heap)
  BY <1>3 DEF envs, Numbers
<1>5. /\ HeapOK(h) /\ SameBut(name.heap, h, 2)
      /\ h.blocks[2].next = name.heap.blocks[2].next
  BY <1>3, <1>4, ZeroedHeap
<1> HIDE DEF h
<1> QED
  BY <1>3, <1>5 DEF SameBut, NextOf, h, name, arg, empty

\* The memory that main begins with: the first word of the environment, which it assigns.
LEMMA Started ==
  Init => \E m \in Memory :
            /\ mem = assign(m, Header(2)) /\ Newest(m.heap) = 2 /\ NextOf(m.heap) = NULL
            /\ m.environ_vars = <<>> /\ ~m.fault /\ DOMAIN m.text = {2}
            /\ m.text[2].word = envs /\ ~m.text[2].cut /\ m.text[2].cleared = 0
<1> SUFFICES ASSUME Init
             PROVE  \E m \in Memory :
                      /\ mem = assign(m, Header(2)) /\ Newest(m.heap) = 2 /\ NextOf(m.heap) = NULL
                      /\ m.environ_vars = <<>> /\ ~m.fault /\ DOMAIN m.text = {2}
                      /\ m.text[2].word = envs /\ ~m.text[2].cut /\ m.text[2].cleared = 0
  OBVIOUS
<1> DEFINE arg == malloc([ROOT |-> NULL, blocks |-> <<>>])
           name == malloc(arg.heap)
           h == Zeroed(name.heap, name.ptr, envs.len + 1)
           empty == [heap |-> [ROOT |-> NULL, blocks |-> <<>>],
                     environ_vars |-> <<>>, text |-> <<>>, fault |-> FALSE]
           start == [empty EXCEPT !.heap = h]
           o == Put(start, Header(2), envs)
<1>1. /\ name.ptr = Header(2) /\ HeapOK(h) /\ h.ROOT # NULL /\ Newest(h) = 2
      /\ NextOf(h) = NULL
  BY NewHeap
<1>2. mem = assign(o, Header(2))
  <2>1. empty.heap = [ROOT |-> NULL, blocks |-> <<>>]
    OBVIOUS
  <2>2. mem = assign(Put(start, name.ptr, envs), name.ptr)
    BY <2>1 DEF Init
  <2> QED
    BY <1>1, <2>2
<1> HIDE DEF h
<1>3. /\ start \in Memory /\ start.heap = h /\ start.fault = FALSE
      /\ start.environ_vars = <<>> /\ start.text = <<>>
  <2>1. <<>> \in Seq(Entry) /\ DOMAIN <<>> = {} /\ <<>> \in Seq(Block)
    BY EmptySeq
  <2>2. <<>> \in Buffers
    <3>1. <<>> \in [{} -> Text]
      OBVIOUS
    <3> QED
      BY <3>1 DEF Buffers
  <2>3. h \in Heaps
    BY <1>1, HeapFacts
  <2>4. [ROOT |-> NULL, blocks |-> <<>>] \in Heaps
    BY <2>1 DEF Heaps
  <2>5. empty \in [heap : Heaps, environ_vars : Seq(Entry), text : Buffers, fault : BOOLEAN]
    BY <2>1, <2>2, <2>4
  <2>6. empty.environ_vars = <<>> /\ empty.fault = FALSE /\ empty.text = <<>>
    OBVIOUS
  <2> HIDE DEF empty
  <2>7. /\ start \in [heap : Heaps, environ_vars : Seq(Entry), text : Buffers, fault : BOOLEAN]
        /\ start.heap = h /\ start.environ_vars = <<>> /\ start.fault = FALSE
        /\ start.text = <<>>
    BY <2>3, <2>5, <2>6
  <2> HIDE DEF start
  <2> QED
    BY <1>1, <2>1, <2>7 DEF Memory
<1> HIDE DEF start
<1>4. envs \in AnyWord /\ envs.len <= 16
  BY AnyWords DEF envs
<1>5. 2 \in Numbers(start.heap)
  BY <1>1, <1>3 DEF Numbers
<1>6. /\ o \in Memory /\ SameBut(h, o.heap, 2) /\ o.fault = FALSE
      /\ o.environ_vars = <<>> /\ DOMAIN o.text = {2} /\ o.text[2].word = envs
      /\ o.heap.blocks[2].next = h.blocks[2].next
  <2>1. DOMAIN start.text = {}
    BY <1>3
  <2> QED
    BY <1>3, <1>4, <1>5, <2>1, PutWord
<1>7. ~o.text[2].cut /\ o.text[2].cleared = 0
  <2>1. start \in [heap : Heaps, environ_vars : Seq(Entry), text : Buffers, fault : BOOLEAN]
    BY <1>3, MemoryFacts
  <2>2. BlockOf(Header(2)) = 2
    BY Apart
  <2>3. o.text[2] = [word |-> envs, cut |-> FALSE, cleared |-> 0]
    BY <2>1, <2>2 DEF Put
  <2> QED
    BY <2>3
<1> HIDE DEF o
<1>8. NextOf(o.heap) = NULL /\ Newest(o.heap) = 2
  BY <1>1, <1>6 DEF SameBut, NextOf, Numbers
<1> QED
  BY <1>2, <1>6, <1>7, <1>8

LEMMA MemoryInit == Init => MemoryInv
<1> SUFFICES ASSUME Init PROVE MemoryInv
  OBVIOUS
<1>1. PICK o \in Memory :
        /\ mem = assign(o, Header(2)) /\ Newest(o.heap) = 2 /\ NextOf(o.heap) = NULL
        /\ ~o.fault /\ DOMAIN o.text = {2} /\ o.text[2].word = envs
  BY Started
<1>2. 2 \in Numbers(o.heap) /\ envs.len <= 16
  BY <1>1 DEF Numbers, envs
<1>3. mem \in Memory /\ Assigns(o, mem)
  BY <1>1, <1>2, Assigned
<1>4. ~mem.fault /\ NextOf(mem.heap) = NULL
  BY <1>1, <1>3 DEF Assigns
<1>5. c_args = <<>> /\ stage = "prompt" /\ ~(count > 0)
  BY DEF Init
<1>6. c_args \in Seq(Args) /\ DOMAIN c_args = {}
  <2>1. <<>> \in Seq(Args) /\ DOMAIN <<>> = {}
    BY EmptySeq
  <2> QED
    BY <1>5, <2>1
<1> QED
  BY <1>3, <1>4, <1>5, <1>6 DEF MemoryInv

LEMMA MemoryNext == MemoryInv /\ [Next]_commandVars => MemoryInv'
<1> SUFFICES ASSUME MemoryInv, [Next]_commandVars PROVE MemoryInv'
  OBVIOUS
<1>1. CASE ParseLine
  <2> DEFINE start == [mem |-> mem, args |-> <<>>]
  <2>1. PICK l \in Lines : /\ mem' = FoldLeft(ParseNext, start, l).mem
                           /\ c_args' = FoldLeft(ParseNext, start, l).args
                           /\ line' = l
    BY <1>1 DEF ParseLine, ParseNext, FoldLeft, MapThenFoldSet
  <2> DEFINE all == FoldLeft(ParseNext, start, l)
  <2>2. stage = "prompt" /\ stage' = "parsed"
    BY <1>1 DEF ParseLine
  <2>3. mem \in Memory /\ ~mem.fault /\ NextOf(mem.heap) = NULL
    BY <2>2 DEF MemoryInv
  <2>4. l \in Seq(Commands) /\ Len(l) \in Nat
    BY LineFacts
  <2>5. LinedUp(mem, l, Len(l), all)
    BY <2>3, <2>4, ParsedLine
  <2>6. mem' = all.mem /\ c_args' = all.args /\ line' = l
    BY <2>1
  <2> HIDE DEF all
  <2>7. /\ all \in [mem : Memory, args : Seq(Args)] /\ Len(all.args) = Len(l)
        /\ all.mem.fault = mem.fault
        /\ \A i \in 1..Len(l) : PointsInto(all.mem, all.args[i])
    BY <2>5 DEF LinedUp
  <2>8. mem' \in Memory /\ c_args' \in Seq(Args) /\ DOMAIN c_args' = 1..Len(l)
    BY <2>6, <2>7, LenProperties
  <2>9. \A i \in DOMAIN c_args' : PointsInto(mem', c_args'[i])
    BY <2>6, <2>7, <2>8
  <2>10. all = [mem |-> mem', args |-> c_args']
    BY <2>6, <2>7
  <2>11. ~mem'.fault
    BY <2>3, <2>6, <2>7
  <2>12. LinedUp(mem, line', Len(line'), [mem |-> mem', args |-> c_args'])
    BY <2>5, <2>6, <2>10
  <2>13. LinedUp(mem', line', Len(line'), [mem |-> mem', args |-> c_args'])
    <3>1. mem'.fault = mem.fault
      BY <2>6, <2>7
    <3> QED
      BY <2>12, <3>1 DEF LinedUp
  <2> QED
    BY <2>2, <2>6, <2>7, <2>8, <2>9, <2>11, <2>13 DEF MemoryInv
<1>2. CASE ExecuteCommand
  <2>1. stage = "parsed" /\ stage' = "executed" /\ UNCHANGED <<c_args, line, count>>
    BY <1>2 DEF ExecuteCommand
  <2>2. /\ mem \in Memory /\ c_args \in Seq(Args) /\ ~mem.fault
        /\ \A i \in DOMAIN c_args : PointsInto(mem, c_args[i])
        /\ line \in Lines /\ Len(c_args) = Len(line)
        /\ LinedUp(mem, line, Len(line), [mem |-> mem, args |-> c_args])
    BY <2>1 DEF MemoryInv
  <2> DEFINE n == Len(line)
             last == line[n]
  <2>3. n \in Nat \ {0} /\ last \in Commands
    BY <2>2, LineFacts
  <2>4. /\ NextOf(mem.heap) = NULL <=> TextLength(last) <= 16
        /\ Short(mem, c_args[n])
    BY <2>2, <2>3 DEF LinedUp
  <2>5. TextLength(last) \in Nat
    BY <2>2, <2>3, LineFacts
  <2>6. TextLength(last) > 16 <=> ~(TextLength(last) <= 16)
    BY <2>5
  <2>7. Overlong <=> ~(TextLength(last) <= 16) /\ ~(n = 1 /\ last.kind = "file")
    BY <2>6 DEF Overlong
  <2>8. /\ mem' \in Memory /\ Later(mem, mem') /\ ~mem'.fault
        /\ NextOf(mem'.heap) = NULL <=> ~Overlong
    <3>1. CASE n = 1
      <4>1. mem' = execute(mem, line[1], c_args[1])
        BY <1>2, <3>1 DEF ExecuteCommand
      <4>2. /\ c_args[1] \in Args /\ PointsInto(mem, c_args[1]) /\ Short(mem, c_args[1])
            /\ line[1] \in Commands /\ last = line[1]
        <5>1. 1 \in 1..Len(c_args) /\ DOMAIN c_args = 1..Len(c_args)
          BY <2>2, <3>1, LenProperties
        <5>2. c_args[1] \in Args /\ PointsInto(mem, c_args[1])
          BY <2>2, <5>1, ElementOfSeq
        <5>3. last = line[1] /\ c_args[n] = c_args[1]
          BY <3>1
        <5> QED
          BY <2>3, <2>4, <5>2, <5>3
      <4>3. /\ mem' \in Memory /\ Later(mem, mem') /\ mem'.fault = mem.fault
            /\ line[1].kind = "file" => NextOf(mem'.heap) = NULL
            /\ line[1].kind # "file" => (NextOf(mem'.heap) = NULL <=> NextOf(mem.heap) = NULL)
        BY <2>2, <4>1, <4>2, Executed
      <4> HIDE DEF n, last
      <4> QED
        BY <2>2, <2>4, <2>7, <3>1, <4>2, <4>3
    <3>2. CASE n # 1
      <4>1. mem' = mem
        BY <1>2, <3>2 DEF ExecuteCommand
      <4>2. Later(mem, mem)
        <5>1. Newest(mem.heap) \in Nat
          BY <2>2, MemoryFacts
        <5> QED
          BY <5>1 DEF Later
      <4> HIDE DEF n, last
      <4> QED
        BY <2>2, <2>4, <2>7, <3>2, <4>1, <4>2
    <3> QED
      BY <3>1, <3>2
  <2>9. \A i \in DOMAIN c_args : PointsInto(mem', c_args[i])
    <3> TAKE i \in DOMAIN c_args
    <3>1. c_args[i] \in Args /\ PointsInto(mem, c_args[i])
      BY <2>2, ElementOfSeq, LenProperties
    <3> QED
      BY <2>2, <2>8, <3>1, PointsLater
  <2>10. Overlong' <=> Overlong
    BY <2>1 DEF Overlong
  <2> QED
    BY <2>1, <2>2, <2>8, <2>9, <2>10 DEF MemoryInv
<1>3. CASE FreeCommandArguments
  <2>1. /\ stage = "executed" /\ stage' = IF mem'.fault THEN "dead" ELSE "prompt"
        /\ mem' = FoldLeft(freeCommandArgument, mem, c_args)
        /\ UNCHANGED <<c_args, line, count>>
    BY <1>3 DEF FreeCommandArguments
  <2>2. /\ mem \in Memory /\ c_args \in Seq(Args) /\ ~mem.fault
        /\ \A i \in DOMAIN c_args : PointsInto(mem, c_args[i])
        /\ line \in Lines /\ Len(c_args) = Len(line)
        /\ NextOf(mem.heap) = NULL <=> ~Overlong
    BY <2>1 DEF MemoryInv
  <2>3. c_args # <<>>
    <3>1. Len(c_args) # 0
      BY <2>2, LineFacts
    <3> QED
      BY <3>1, EmptySeq
  <2>4. mem' \in Tried(mem)
    BY <2>1, <2>2, <2>3, FreedLine
  <2>5. /\ mem' \in Memory /\ Quiet(mem, mem') /\ (mem'.fault <=> Overlong)
        /\ NextOf(mem'.heap) = NextOf(mem.heap)
    BY <2>2, <2>4 DEF Tried, Quiet
  <2>6. Later(mem, mem')
    <3>1. Newest(mem.heap) \in Nat
      BY <2>2, MemoryFacts
    <3> QED
      BY <2>5, <3>1 DEF Later, Quiet
  <2>7. \A i \in DOMAIN c_args : PointsInto(mem', c_args[i])
    <3> TAKE i \in DOMAIN c_args
    <3>1. c_args[i] \in Args /\ PointsInto(mem, c_args[i])
      BY <2>2, ElementOfSeq, LenProperties
    <3> QED
      BY <2>2, <2>5, <2>6, <3>1, PointsLater
  <2>8. Overlong' <=> Overlong
    BY <2>1 DEF Overlong
  <2>9. CASE mem'.fault
    <3>1. stage' = "dead" /\ Overlong'
      BY <2>1, <2>5, <2>8, <2>9
    <3> QED
      BY <2>1, <2>2, <2>5, <2>7, <3>1 DEF MemoryInv
  <2>10. CASE ~mem'.fault
    <3>1. stage' = "prompt" /\ ~Overlong' /\ NextOf(mem'.heap) = NULL
      BY <2>1, <2>2, <2>5, <2>8, <2>10
    <3> QED
      BY <2>1, <2>2, <2>5, <2>7, <2>10, <3>1 DEF MemoryInv
  <2> QED
    BY <2>9, <2>10
<1>4. CASE Exit
  <2>1. stage' = "exited" /\ UNCHANGED <<mem, c_args>>
    BY <1>4 DEF Exit
  <2> QED
    BY <2>1 DEF MemoryInv
<1>5. CASE UNCHANGED commandVars
  BY <1>5 DEF commandVars, MemoryInv, Overlong
<1> QED
  BY <1>1, <1>2, <1>3, <1>4, <1>5 DEF Next, Ended

LEMMA MemorySpec == Spec => []MemoryInv
BY MemoryInit, MemoryNext, PTL DEF Spec

\* The shell dies of giving back a line if and only if its last command is overlong.
THEOREM FaultsIffOverlongAlways == Spec => []FaultsIffOverlong
<1>1. MemoryInv => FaultsIffOverlong
  BY DEF MemoryInv, FaultsIffOverlong
<1> QED
  BY <1>1, MemorySpec, PTL

\* Every value of the environment lies in a block that is still mapped.
THEOREM ValuesMappedAlways == Spec => []ValuesMapped
<1>1. ASSUME MemoryInv, NEW i \in DOMAIN mem.environ_vars
      PROVE  Mapped(mem.heap, mem.environ_vars[i].value[2])
  <2>1. mem \in Memory
    BY <1>1 DEF MemoryInv
  <2>2. PICK b \in Numbers(mem.heap), n \in Nat :
          mem.environ_vars[i].value = Inside(Header(b), n)
    BY <2>1 DEF Memory
  <2>3. mem.environ_vars[i].value[2] = Header(b)
    BY <2>2 DEF Inside
  <2> QED
    BY <2>1, <2>3, AllMapped
<1>2. MemoryInv => ValuesMapped
  BY <1>1 DEF ValuesMapped
<1> QED
  BY <1>2, MemorySpec, PTL

\* The last entry of the vector.
LEMMA LastEntry ==
  ASSUME NEW m \in Memory, NEW arg \in Args
  PROVE  Last(setExecutionArguments(m, arg)) =
           IF arg.arguments = <<>> THEN m.heap.blocks[BlockOf(arg.self)].next ELSE NULL
<1> DEFINE x == IF arg.arguments = <<>> THEN m.heap.blocks[BlockOf(arg.self)].next ELSE NULL
           S == Headers \cup {x}
           front == <<arg.command>> \o arg.arguments
           all == front \o <<x>>
<1>1. /\ <<arg.command>> \in Seq(S) /\ arg.arguments \in Seq(S) /\ <<x>> \in Seq(S)
      /\ Len(<<x>>) = 1 /\ <<x>>[1] = x
  <2>1. arg.command \in Headers /\ arg.arguments \in Seq(Headers)
    BY DEF Args
  <2>2. Headers \subseteq S
    OBVIOUS
  <2> HIDE DEF x, S
  <2>3. arg.arguments \in Seq(S)
    BY <2>1, <2>2
  <2>4. x \in S
    BY DEF S
  <2> QED
    BY <2>1, <2>2, <2>3, <2>4
<1> HIDE DEF x, S
<1>2. front \in Seq(S) /\ Len(front) \in Nat
  BY <1>1, ConcatProperties, LenProperties
<1> HIDE DEF front
<1>3. /\ all \in Seq(S) /\ Len(all) = Len(front) + 1
      /\ all[Len(front) + 1] = x
  BY <1>1, <1>2, ConcatProperties
<1>4. setExecutionArguments(m, arg) = all
  BY DEF setExecutionArguments, front, x
<1> HIDE DEF all
<1>5. Last(all) = x
  BY <1>3 DEF Last
<1> QED
  BY <1>4, <1>5 DEF x

\* The vector a program is started with ends in a null pointer, but for a command without
\* arguments behind an overlong one in a pipe.
THEOREM VectorsEndAlways == Spec => []VectorsEnd
<1>1. ASSUME MemoryInv, stage = "parsed", NEW i \in DOMAIN c_args
      PROVE  Last(setExecutionArguments(mem, c_args[i])) # NULL <=>
               i > 1 /\ TextLength(line[i - 1]) > 16 /\ Len(line[i].words) = 1
  <2>1. /\ mem \in Memory /\ c_args \in Seq(Args) /\ line \in Lines /\ Len(c_args) = Len(line)
        /\ LinedUp(mem, line, Len(line), [mem |-> mem, args |-> c_args])
    BY <1>1 DEF MemoryInv
  <2>2. Len(line) \in Nat /\ i \in 1..Len(line) /\ c_args[i] \in Args
    BY <1>1, <2>1, LineFacts, ElementOfSeq, LenProperties
  <2> DEFINE next == mem.heap.blocks[BlockOf(c_args[i].self)].next
  <2>3. /\ c_args[i].arguments = <<>> <=> Len(line[i].words) = 1
        /\ c_args[i].arguments = <<>> =>
             (next = NULL <=> i = 1 \/ TextLength(line[i - 1]) <= 16)
    BY <2>1, <2>2 DEF LinedUp
  <2>4. Last(setExecutionArguments(mem, c_args[i])) =
          IF c_args[i].arguments = <<>> THEN next ELSE NULL
    BY <2>1, <2>2, LastEntry
  <2>5. i > 1 <=> i # 1
    BY <2>2
  <2>6. i # 1 => (TextLength(line[i - 1]) > 16 <=> ~(TextLength(line[i - 1]) <= 16))
    <3>1. i # 1 => i - 1 \in 1..Len(line)
      BY <2>2
    <3>2. i # 1 => TextLength(line[i - 1]) \in Nat
      BY <2>1, <3>1, LineFacts
    <3> QED
      BY <3>2
  <2> HIDE DEF next
  <2> QED
    BY <2>3, <2>4, <2>5, <2>6
<1>2. MemoryInv => VectorsEnd
  BY <1>1 DEF VectorsEnd
<1> QED
  BY <1>2, MemorySpec, PTL
=============================================================================
