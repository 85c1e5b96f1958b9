--------------------------- MODULE VariableProofs ---------------------------
(***************************************************************************)
(* The values of the environment, for every session and every size of its  *)
(* table: what a variable was last given is what a reader finds, although  *)
(* the text of it lies in a buffer that the line has given back.           *)
(***************************************************************************)
EXTENDS CommandProofs

-----------------------------------------------------------------------------
(* Histories.                                                              *)

AnyValues == STRING \cup {envs.value}
Givens    == UNION {[S -> AnyValues] : S \in SUBSET Keys}
Histories == [given : Givens, wiped : SUBSET Keys]

\* A word has given its key its value.
Notes(h, n, word) ==
  /\ DOMAIN n.given = DOMAIN h.given \cup {word.key} /\ n.given[word.key] = word.value
  /\ \A key \in DOMAIN h.given : key # word.key => n.given[key] = h.given[key]
  /\ \A key \in Keys \ {word.key} : key \in n.wiped <=> key \in h.wiped

LEMMA NotedHistory ==
  ASSUME NEW h \in Histories, NEW word \in AnyWord, NEW clears \in BOOLEAN
  PROVE  LET n == Noted(h, word, clears)
         IN  n \in Histories /\ Notes(h, n, word) /\ (word.key \in n.wiped <=> clears)
<1> DEFINE S == DOMAIN h.given \cup {word.key}
           noted == [k \in S |-> IF k = word.key THEN word.value ELSE h.given[k]]
           gone == IF clears THEN h.wiped \cup {word.key} ELSE h.wiped \ {word.key}
           n == [given |-> noted, wiped |-> gone]
<1>1. Noted(h, word, clears) = n
  BY DEF Noted
<1>2. word.key \in Keys /\ word.value \in AnyValues
  BY DEF AnyWord, Words, Keys, AnyValues
<1>3. h.given \in Givens /\ h.wiped \in SUBSET Keys
  BY DEF Histories
<1>4. PICK T \in SUBSET Keys : h.given \in [T -> AnyValues]
  BY <1>3 DEF Givens
<1>5. T = DOMAIN h.given /\ S \in SUBSET Keys
  BY <1>2, <1>4
<1>6. noted \in [S -> AnyValues]
  BY <1>2, <1>4, <1>5
<1>7. noted \in Givens /\ DOMAIN noted = S
  BY <1>5, <1>6 DEF Givens
<1>8. noted[word.key] = word.value /\ \A k \in DOMAIN h.given : k # word.key => noted[k] = h.given[k]
  OBVIOUS
<1>9. gone \in SUBSET Keys /\ (word.key \in gone <=> clears)
  BY <1>2, <1>3
<1>10. \A k \in Keys \ {word.key} : k \in gone <=> k \in h.wiped
  OBVIOUS
<1> HIDE DEF noted, gone
<1>11. n \in Histories /\ n.given = noted /\ n.wiped = gone
  BY <1>7, <1>9 DEF Histories
<1> HIDE DEF n
<1> QED
  BY <1>1, <1>7, <1>8, <1>9, <1>10, <1>11 DEF Notes

\* What each word of a command adds to the history.
Recalled(command, h, i) ==
  IF Sets(command, i) THEN Noted(h, command.words[i], i = 1 /\ Clears(command)) ELSE h

RecallRun(g, command, start, end) ==
  LET n == Len(command.words)
  IN  /\ g \in [0..n -> Histories] /\ g[0] = start /\ g[n] = end
      /\ \A k \in 1..n : g[k - 1] \in Histories /\ g[k] = Recalled(command, g[k - 1], k)

History == [given |-> given, wiped |-> wiped]

LEMMA Recalling ==
  ASSUME NEW command \in Commands, History \in Histories
  PROVE  /\ Remembered(command) \in Histories
         /\ \E g : RecallRun(g, command, History, Remembered(command))
<1> DEFINE I == Histories
           words == command.words
           n == Len(words)
           seq == [i \in DOMAIN words |-> i]
           base == History
           Note(h, i) == IF Sets(command, i)
                         THEN Noted(h, command.words[i], i = 1 /\ Clears(command)) ELSE h
           F == [p \in I \X (1..n) |-> Recalled(command, p[1], p[2])]
           D == 1..n
           Runs(f) == f = [s \in SUBSET D |->
                             IF s = {} THEN base
                             ELSE LET x == Max(s) IN Note(f[s \ {x}], seq[x])]
           it == CHOOSE f : Runs(f)
           end == FoldLeft(Note, base, seq)
<1>1. words \in Seq(Words) /\ n \in Nat /\ D = DOMAIN words /\ D = DOMAIN seq
  <2>1. words \in Seq(Words)
    BY DEF Commands
  <2> HIDE DEF words
  <2> QED
    BY <2>1, LenProperties
<1>2. \A k \in D : seq[k] = k /\ words[k] \in AnyWord
  BY <1>1, ElementOfSeq, AnyWords
<1>3. Remembered(command) = end
  BY DEF Remembered, FoldLeftDomain, History
<1>4. end = it[D]
  BY <1>1 DEF FoldLeft, MapThenFoldSet
<1> HIDE DEF end
<1>5. \A h \in I, k \in D : Recalled(command, h, k) \in I
  <2> TAKE h \in I, k \in D
  <2>1. PICK clears \in BOOLEAN : clears <=> k = 1 /\ Clears(command)
    OBVIOUS
  <2>2. PICK word \in AnyWord : word = words[k]
    BY <1>2
  <2>3. Noted(h, word, clears) \in I
    BY NotedHistory
  <2>4. Noted(h, words[k], k = 1 /\ Clears(command)) = Noted(h, word, clears)
    BY <2>1, <2>2 DEF Noted
  <2> QED
    BY <2>3, <2>4 DEF Recalled
<1>6. \A h, k : k \in D => Note(h, seq[k]) = Recalled(command, h, k)
  BY <1>2 DEF Recalled
<1> HIDE DEF n, I, seq, base, words, Note
<1>7. base \in I
  BY DEF base, I
<1>8. F \in [I \X (1..n) -> I]
  BY <1>5
<1>9. PICK g : Along(g, I, n, base, F)
  <2> HIDE DEF F
  <2> QED
    BY <1>1, <1>7, <1>8, Chained
<1>10. Runs(g)
  <2>1. g \in [SUBSET D -> I]
    BY <1>9 DEF Along
  <2>2. \A s \in SUBSET D : s # {} => Max(s) \in D /\ s \ {Max(s)} \in SUBSET D
    BY <1>1, Subsets
  <2>3. \A s \in SUBSET D :
          g[s] = IF s = {} THEN base ELSE Recalled(command, g[s \ {Max(s)}], Max(s))
    BY <1>9, <2>1, <2>2 DEF Along
  <2>4. \A s \in SUBSET D :
          g[s] = IF s = {} THEN base ELSE Note(g[s \ {Max(s)}], seq[Max(s)])
    BY <1>6, <2>2, <2>3
  <2> QED
    BY <2>1, <2>4
<1>11. Runs(it)
  BY <1>10
<1>12. \A s \in SUBSET D :
         it[s] = IF s = {} THEN base ELSE Note(it[s \ {Max(s)}], seq[Max(s)])
  <2> HIDE DEF it
  <2> QED
    BY <1>11
<1> HIDE DEF it, Runs
<1>13. it[{}] = base
  BY <1>12
<1>14. ASSUME NEW s \in SUBSET (1..n), s # {}, it[s \ {Max(s)}] \in I
       PROVE  it[s] = F[<<it[s \ {Max(s)}], Max(s)>>]
  <2>1. Max(s) \in D
    BY <1>1, <1>14, Subsets
  <2>2. it[s] = Recalled(command, it[s \ {Max(s)}], Max(s))
    BY <1>6, <1>12, <1>14, <2>1
  <2> QED
    BY <1>14, <2>1, <2>2
<1>15. PICK h : Steps(h, I, n, base, F, it[1..n])
  <2> HIDE DEF F
  <2> QED
    BY <1>1, <1>7, <1>8, <1>13, <1>14, FoldSteps
<1>16. \A k \in 1..n : h[k - 1] \in I /\ h[k] = Recalled(command, h[k - 1], k)
  <2>1. \A k \in 1..n : k - 1 \in 0..n
    BY <1>1
  <2> QED
    BY <1>15, <2>1 DEF Steps
<1>17. h \in [0..n -> I] /\ h[0] = base /\ h[n] = end
  BY <1>4, <1>15 DEF Steps
<1>18. RecallRun(h, command, History, end)
  BY <1>16, <1>17 DEF RecallRun, I, n, words, base
<1>19. end \in I
  BY <1>1, <1>17
<1> QED
  BY <1>3, <1>18, <1>19 DEF I

LEMMA RecalledNotes ==
  ASSUME NEW command \in Commands, NEW h \in Histories, NEW k \in 1..Len(command.words),
         Sets(command, k)
  PROVE  LET n == Recalled(command, h, k)
         IN  /\ Notes(h, n, command.words[k])
             /\ command.words[k].key \in n.wiped <=> k = 1 /\ Clears(command)
<1>1. PICK words : words = command.words
  OBVIOUS
<1>2. words \in Seq(Words)
  BY <1>1 DEF Commands
<1>3. PICK word \in AnyWord : word = words[k]
  BY <1>1, <1>2, ElementOfSeq, AnyWords
<1>4. PICK clears \in BOOLEAN : clears <=> k = 1 /\ Clears(command)
  OBVIOUS
<1>5. Recalled(command, h, k) = Noted(h, word, clears)
  BY <1>1, <1>3, <1>4 DEF Recalled, Noted
<1> QED
  BY <1>1, <1>3, <1>4, <1>5, NotedHistory

-----------------------------------------------------------------------------
(* The table.                                                              *)

\* What getenv finds.
LEMMA Getenv ==
  ASSUME NEW m \in Memory, NEW key
  PROVE  LET table == m.environ_vars
             i == IndexOf(table, key)
         IN  /\ i = 0 => /\ getenv(table, key) = NULL
                         /\ \A j \in DOMAIN table : table[j].key # key
             /\ i # 0 => /\ i \in DOMAIN table /\ table[i].key = key
                         /\ getenv(table, key) = table[i].value
                         /\ getenv(table, key) # NULL
<1> DEFINE table == m.environ_vars
           places == {j \in DOMAIN table : table[j].key = key}
           i == IndexOf(table, key)
<1>1. DOMAIN table \in SUBSET Nat /\ \A j \in DOMAIN table : j # 0 /\ table[j] \in Entry
  BY Entries
<1>2. i = IF places = {} THEN 0 ELSE CHOOSE j \in places : \A l \in places : j <= l
  BY DEF IndexOf
<1>3. ASSUME places # {} PROVE i \in places
  <2>1. \E j \in places : \A l \in places : j <= l
    <3>1. places \in SUBSET Nat
      BY <1>1
    <3> HIDE DEF places
    <3> QED
      BY <1>3, <3>1, LeastNumber
  <2> QED
    BY <1>2, <1>3, <2>1
<1>4. i = 0 <=> places = {}
  BY <1>1, <1>2, <1>3
<1>5. i = 0 => getenv(table, key) = NULL
  BY DEF getenv
<1>6. ASSUME i # 0 PROVE getenv(table, key) = table[i].value /\ table[i].value # NULL
  <2>1. i \in DOMAIN table
    BY <1>3, <1>4, <1>6
  <2>2. table[i].value \in Values
    BY <1>1, <2>1 DEF Entry
  <2>3. getenv(table, key) = table[i].value
    BY <1>6 DEF getenv
  <2> HIDE DEF i, table
  <2>4. PICK p \in Headers, n \in Nat : table[i].value = <<"inside", p, n>>
    BY <2>2 DEF Values, Inside
  <2>5. <<"inside", p, n>> # <<"null">>
    OBVIOUS
  <2> QED
    BY <2>3, <2>4, <2>5 DEF NULL
<1> HIDE DEF i
<1> QED
  BY <1>3, <1>4, <1>5, <1>6 DEF i

\* The same keys at the same places.
LEMMA SamePlace ==
  ASSUME NEW s, NEW t, NEW key,
         \A j : j \in DOMAIN s /\ s[j].key = key <=> j \in DOMAIN t /\ t[j].key = key
  PROVE  IndexOf(s, key) = IndexOf(t, key)
<1> DEFINE A == {j \in DOMAIN s : s[j].key = key}
           B == {j \in DOMAIN t : t[j].key = key}
<1>1. A = B
  OBVIOUS
<1>2. /\ IndexOf(s, key) = IF A = {} THEN 0 ELSE CHOOSE i \in A : \A j \in A : i <= j
      /\ IndexOf(t, key) = IF B = {} THEN 0 ELSE CHOOSE i \in B : \A j \in B : i <= j
  BY DEF IndexOf
<1> HIDE DEF A, B
<1> QED
  BY <1>1, <1>2

\* A value is set, or a new key refused by a full table; the other values stay.
SetsValue(s, t, key, value) ==
  /\ Len(s) <= Len(t) /\ Len(t) <= ENVIRON_DATA_SIZE
  /\ \A k : k # key => getenv(t, k) = getenv(s, k)
  /\ getenv(t, key) = value \/ (getenv(t, key) = NULL /\ Len(t) = ENVIRON_DATA_SIZE)

LEMMA ValueReplaced ==
  ASSUME NEW m \in Memory, NEW key, NEW value, NEW i, i = IndexOf(m.environ_vars, key), i # 0,
         Len(m.environ_vars) <= ENVIRON_DATA_SIZE
  PROVE  SetsValue(m.environ_vars, [m.environ_vars EXCEPT ![i].value = value], key, value)
<1>1. PICK table : table = m.environ_vars /\ i = IndexOf(table, key)
  OBVIOUS
<1>2. /\ table \in Seq(Entry) /\ DOMAIN table = 1..Len(table) /\ Len(table) \in Nat
      /\ \A j \in DOMAIN table : table[j] \in Entry
  BY <1>1, Entries
<1>3. i \in DOMAIN table /\ table[i].key = key /\ i # 0
  BY <1>1, Getenv
<1> DEFINE entry == [table[i] EXCEPT !.value = value]
           t == [table EXCEPT ![i] = entry]
<1>4. table[i] \in [key : Keys, value : Values]
  BY <1>2, <1>3 DEF Entry
<1>5. entry.key = key /\ entry.value = value
  BY <1>3, <1>4
<1> HIDE DEF entry
<1>6. /\ DOMAIN t = DOMAIN table /\ t[i] = entry
      /\ \A j \in DOMAIN table : j # i => t[j] = table[j]
  BY <1>3
<1>7. Len(t) = Len(table)
  BY <1>2
<1> HIDE DEF t
<1>8. ASSUME NEW k PROVE IndexOf(t, k) = IndexOf(table, k)
  <2>1. \A j : j \in DOMAIN t /\ t[j].key = k <=> j \in DOMAIN table /\ table[j].key = k
    BY <1>3, <1>5, <1>6
  <2> QED
    BY <2>1, SamePlace
<1>9. getenv(t, key) = value
  BY <1>1, <1>3, <1>5, <1>6, <1>8 DEF getenv
<1>10. ASSUME NEW k, k # key PROVE getenv(t, k) = getenv(table, k)
  <2>1. CASE IndexOf(table, k) = 0
    BY <1>8, <2>1 DEF getenv
  <2>2. CASE IndexOf(table, k) # 0
    <3>1. PICK j : j = IndexOf(table, k)
      OBVIOUS
    <3>2. j \in DOMAIN table /\ table[j].key = k
      BY <1>1, <2>2, <3>1, Getenv
    <3>3. t[j] = table[j] /\ IndexOf(t, k) = j
      BY <1>3, <1>6, <1>8, <1>10, <3>1, <3>2
    <3> QED
      BY <3>1, <3>3 DEF getenv
  <2> QED
    BY <2>1, <2>2
<1>11. Len(table) <= Len(t) /\ Len(t) <= ENVIRON_DATA_SIZE
  BY <1>1, <1>2, <1>7
<1>12. SetsValue(table, t, key, value)
  BY <1>9, <1>10, <1>11 DEF SetsValue
<1> QED
  BY <1>1, <1>12 DEF t, entry

LEMMA ValueAdded ==
  ASSUME NEW m \in Memory, NEW key \in Keys, NEW value \in Values,
         IndexOf(m.environ_vars, key) = 0, Len(m.environ_vars) < ENVIRON_DATA_SIZE
  PROVE  SetsValue(m.environ_vars, Append(m.environ_vars, [key |-> key, value |-> value]),
                   key, value)
<1>1. PICK table, entry, t : /\ table = m.environ_vars /\ entry = [key |-> key, value |-> value]
                             /\ t = Append(table, entry)
  OBVIOUS
<1>2. /\ table \in Seq(Entry) /\ DOMAIN table = 1..Len(table) /\ Len(table) \in Nat
      /\ entry \in Entry /\ entry.key = key /\ entry.value = value
  BY <1>1, Entries DEF Entry
<1>3. PICK n \in Nat : n = Len(table)
  BY <1>2
<1>4. /\ t \in Seq(Entry) /\ Len(t) = n + 1 /\ t[n + 1] = entry
      /\ \A j \in 1..n : t[j] = table[j]
  BY <1>1, <1>2, <1>3, AppendProperties
<1>5. DOMAIN t = 1..(n + 1) /\ DOMAIN table = 1..n
  BY <1>2, <1>3, <1>4, LenProperties
<1>6. \A j \in 1..n : table[j].key # key
  BY <1>1, <1>5, Getenv
<1>7. IndexOf(t, key) = n + 1
  <2>1. {j \in DOMAIN t : t[j].key = key} = {n + 1}
    BY <1>2, <1>4, <1>5, <1>6
  <2> DEFINE places == {j \in DOMAIN t : t[j].key = key}
  <2>2. IndexOf(t, key) = IF places = {} THEN 0
                          ELSE CHOOSE i \in places : \A j \in places : i <= j
    BY DEF IndexOf
  <2> HIDE DEF places
  <2>3. places = {n + 1}
    BY <2>1 DEF places
  <2> QED
    BY <2>2, <2>3
<1>8. getenv(t, key) = value
  BY <1>2, <1>4, <1>7 DEF getenv
<1>9. ASSUME NEW k, k # key PROVE getenv(t, k) = getenv(table, k)
  <2>1. \A j : j \in DOMAIN t /\ t[j].key = k <=> j \in DOMAIN table /\ table[j].key = k
    BY <1>2, <1>4, <1>5, <1>9
  <2>2. PICK i : i = IndexOf(table, k)
    OBVIOUS
  <2>3. IndexOf(t, k) = i
    BY <2>1, <2>2, SamePlace
  <2>4. CASE i = 0
    BY <2>2, <2>3, <2>4 DEF getenv
  <2>5. CASE i # 0
    <3>1. i \in 1..n
      BY <1>1, <1>5, <2>2, <2>5, Getenv
    <3> QED
      BY <1>4, <2>2, <2>3, <3>1 DEF getenv
  <2> QED
    BY <2>4, <2>5
<1>10. Len(table) <= Len(t) /\ Len(t) <= ENVIRON_DATA_SIZE
  BY <1>1, <1>3, <1>4, EnvironAssumption
<1> QED
  BY <1>1, <1>8, <1>9, <1>10 DEF SetsValue

LEMMA SetValue ==
  ASSUME NEW m \in Memory, NEW key \in Keys, NEW length, NEW value \in Values,
         Len(m.environ_vars) <= ENVIRON_DATA_SIZE
  PROVE  SetsValue(m.environ_vars, setenv(m, key, length, value).environ_vars, key, value)
<1>1. PICK i : i = IndexOf(m.environ_vars, key)
  OBVIOUS
<1>2. m \in [heap : Heaps, environ_vars : Seq(Entry), text : Buffers, fault : BOOLEAN]
  BY MemoryFacts
<1>3. CASE i # 0
  <2>1. setenv(m, key, length, value) = [m EXCEPT !.environ_vars[i].value = value]
    BY <1>1, <1>3 DEF setenv
  <2>2. setenv(m, key, length, value).environ_vars = [m.environ_vars EXCEPT ![i].value = value]
    BY <1>2, <2>1
  <2>3. SetsValue(m.environ_vars, [m.environ_vars EXCEPT ![i].value = value], key, value)
    BY <1>1, <1>3, ValueReplaced
  <2> QED
    BY <2>2, <2>3
<1>4. CASE i = 0 /\ Len(m.environ_vars) < ENVIRON_DATA_SIZE
  <2>1. setenv(m, key, length, value) = add_entry(m, key, length, value)
    BY <1>1, <1>4 DEF setenv
  <2>2. add_entry(m, key, length, value).environ_vars =
          Append(m.environ_vars, [key |-> key, value |-> value])
    BY <1>2 DEF add_entry
  <2> QED
    BY <1>1, <1>4, <2>1, <2>2, ValueAdded
<1>5. CASE i = 0 /\ ~(Len(m.environ_vars) < ENVIRON_DATA_SIZE)
  <2>1. setenv(m, key, length, value) = m
    BY <1>1, <1>5 DEF setenv
  <2>2. Len(m.environ_vars) = ENVIRON_DATA_SIZE /\ Len(m.environ_vars) \in Nat
    BY <1>5, Entries, EnvironAssumption
  <2>3. getenv(m.environ_vars, key) = NULL
    BY <1>1, <1>5, Getenv
  <2> QED
    BY <2>1, <2>2, <2>3 DEF SetsValue
<1> QED
  BY <1>3, <1>4, <1>5
-----------------------------------------------------------------------------
(* What is kept.                                                           *)

\* The environment points to the value that a history has of a key, in a buffer that is not
\* one of those set apart; the value is lost if the history says so.
KeyKept(m, h, apart, lost, key) ==
  LET value == getenv(m.environ_vars, key)
  IN  IF value = NULL THEN Len(m.environ_vars) = ENVIRON_DATA_SIZE
      ELSE \E b \in DOMAIN m.text \ apart :
             /\ value = Inside(Header(b), m.text[b].word.at + 1)
             /\ m.text[b].word.value = h.given[key]
             /\ key \in h.wiped <=> b \in lost

Kept(m, h, apart, lost) ==
  /\ DOMAIN m.text \subseteq Numbers(m.heap)
  /\ Len(m.environ_vars) <= ENVIRON_DATA_SIZE
  /\ \A key \in DOMAIN h.given : KeyKept(m, h, apart, lost, key)

\* Buffers of which so much is cleared that the value behind the key is gone.
Wiped(m) == {b \in DOMAIN m.text : m.text[b].cleared > m.text[b].word.at + 1}

\* Other texts, heaps, and buffers set apart.
LEMMA KeptThrough ==
  ASSUME NEW m, NEW n, NEW h, NEW S, NEW T, NEW K, NEW L, Kept(m, h, S, K),
         n.environ_vars = m.environ_vars, DOMAIN n.text \subseteq Numbers(n.heap),
         \A b \in DOMAIN m.text \ S : /\ b \in DOMAIN n.text \ T
                                      /\ n.text[b].word = m.text[b].word
                                      /\ b \in L <=> b \in K
  PROVE  Kept(n, h, T, L)
<1>1. ASSUME NEW key \in DOMAIN h.given PROVE KeyKept(n, h, T, L, key)
  <2>1. KeyKept(m, h, S, K, key)
    BY DEF Kept
  <2>2. CASE getenv(m.environ_vars, key) = NULL
    BY <2>1, <2>2 DEF KeyKept
  <2>3. CASE getenv(m.environ_vars, key) # NULL
    <3>1. PICK b \in DOMAIN m.text \ S :
            /\ getenv(m.environ_vars, key) = Inside(Header(b), m.text[b].word.at + 1)
            /\ m.text[b].word.value = h.given[key]
            /\ key \in h.wiped <=> b \in K
      BY <2>1, <2>3 DEF KeyKept
    <3>2. /\ b \in DOMAIN n.text \ T /\ n.text[b].word = m.text[b].word
          /\ b \in L <=> b \in K
      OBVIOUS
    <3> QED
      BY <2>3, <3>1, <3>2 DEF KeyKept
  <2> QED
    BY <2>2, <2>3
<1> QED
  BY <1>1 DEF Kept

\* What assigning does to the texts: the '=' of a word that has one is cut.
CutAt(m, r, b) ==
  /\ DOMAIN r.text = DOMAIN m.text
  /\ \A c \in DOMAIN m.text :
       /\ r.text[c].word = m.text[c].word /\ r.text[c].cleared = m.text[c].cleared
       /\ c # b => r.text[c] = m.text[c]
  /\ r.text[b].cut = (m.text[b].cut \/ m.text[b].word.key # NoKey)

\* A word that assigns: the history notes it, and the environment points behind its key.
LEMMA AssignKept ==
  ASSUME NEW m \in Memory, NEW b \in Numbers(m.heap), b \in DOMAIN m.text,
         NextOf(m.heap) = NULL => m.text[b].word.len <= 16,
         NEW h, NEW n, NEW apart, NEW lost, Kept(m, h, apart, lost), b \notin apart,
         LET word == m.text[b].word
         IN  IF word.key = NoKey THEN n = h
             ELSE Notes(h, n, word) /\ (word.key \in n.wiped <=> b \in lost)
                  /\ DOMAIN h.given \subseteq Keys
  PROVE  LET r == assign(m, Header(b)) IN CutAt(m, r, b) /\ Kept(r, n, apart, lost)
<1> DEFINE old == m.text[b]
           word == old.word
           new == [old EXCEPT !.cut = TRUE]
           text == [m.text EXCEPT ![b] = new]
           o == [m EXCEPT !.text = text]
           value == Inside(Header(b), word.at + 1)
           r == setenv(o, word.key, word.at, value)
<1>1. /\ DOMAIN m.text \subseteq Nat /\ m.text \in [DOMAIN m.text -> Text]
      /\ m \in [heap : Heaps, environ_vars : Seq(Entry), text : Buffers, fault : BOOLEAN]
      /\ Newest(m.heap) \in Nat
  BY MemoryFacts
<1>2. old \in Text /\ word \in AnyWord /\ word.at \in Nat
  BY WordOf
<1>3. CASE word.key = NoKey
  <2>1. assign(m, Header(b)) = m /\ n = h
    BY <1>3, Apart DEF assign
  <2>2. CutAt(m, m, b)
    <3>1. old.cut \in BOOLEAN
      BY <1>2 DEF Text
    <3>2. old.cut = (old.cut \/ word.key # NoKey)
      BY <1>3, <3>1
    <3> QED
      BY <3>2 DEF CutAt
  <2> QED
    BY <2>1, <2>2
<1>4. CASE word.key # NoKey
  <2>1. assign(m, Header(b)) = r
    <3>1. BlockOf(Header(b)) = b
      BY Apart
    <3>2. [m EXCEPT !.text[b].cut = TRUE] = o
      BY <1>1
    <3> QED
      BY <1>4, <3>1, <3>2 DEF assign
  <2>2. r \in Memory /\ Assigns(m, r)
    BY <2>1, Assigned
  <2>3. new \in Text /\ new.word = word /\ new.cleared = old.cleared /\ new.cut = TRUE
    <3> HIDE DEF old
    <3> QED
      BY <1>2 DEF Text
  <2> HIDE DEF old, new
  <2>4. text \in [DOMAIN m.text -> Text]
    BY <1>1, <2>3
  <2>5. /\ \A c \in DOMAIN m.text : /\ text[c].word = m.text[c].word
                                    /\ text[c].cleared = m.text[c].cleared
                                    /\ c # b => text[c] = m.text[c]
        /\ text[b].cut = TRUE
    BY <2>3 DEF old
  <2> HIDE DEF text
  <2>6. /\ o \in Memory /\ o.heap = m.heap
        /\ o.environ_vars = m.environ_vars /\ o.text = text
    BY <1>1, <2>4, Retexted
  <2>7. r.text = text
    <3> HIDE DEF o, value
    <3>1. \A key, length : setenv(o, key, length, value).text = o.text
      <4>1. o \in [heap : Heaps, environ_vars : Seq(Entry), text : Buffers, fault : BOOLEAN]
        BY <2>6, MemoryFacts
      <4> QED
        BY <4>1 DEF setenv, add_entry
    <3> QED
      BY <2>6, <3>1
  <2>8. CutAt(m, r, b)
    <3>1. DOMAIN r.text = DOMAIN m.text
      BY <2>4, <2>7
    <3>2. r.text[b].cut = (m.text[b].cut \/ m.text[b].word.key # NoKey)
      BY <1>4, <2>5, <2>7 DEF old
    <3> QED
      BY <2>5, <2>7, <3>1, <3>2 DEF CutAt
  <2>9. word.key \in Keys /\ value \in Values
    <3>1. word.key \in Keys
      BY <1>2, AnyWords
    <3>2. word.at + 1 \in Nat /\ b \in Nat
      BY <1>2 DEF Numbers
    <3> HIDE DEF word
    <3> QED
      BY <3>1, <3>2, AnyValue
  <2>10. SetsValue(m.environ_vars, r.environ_vars, word.key, value)
    <3> HIDE DEF o, value
    <3> QED
      BY <2>6, <2>9, SetValue DEF Kept
  <2>11. Notes(h, n, word) /\ (word.key \in n.wiped <=> b \in lost) /\ DOMAIN h.given \subseteq Keys
    BY <1>4 DEF old
  <2>12. /\ DOMAIN r.text \subseteq Numbers(r.heap)
         /\ DOMAIN r.text = DOMAIN m.text
         /\ \A c \in DOMAIN m.text : r.text[c].word = m.text[c].word
    <3>1. DOMAIN m.text \subseteq Numbers(m.heap)
      BY DEF Kept
    <3>2. Newest(r.heap) \in Nat /\ Newest(m.heap) <= Newest(r.heap)
      BY <2>2, MemoryFacts DEF Assigns, Later
    <3>3. Numbers(m.heap) \subseteq Numbers(r.heap)
      BY <1>1, <3>2 DEF Numbers
    <3> QED
      BY <2>8, <3>1, <3>3 DEF CutAt
  <2>13. value = Inside(Header(b), r.text[b].word.at + 1) /\ r.text[b].word = word
    BY <2>12 DEF old
  <2> HIDE DEF r, value, word, o
  <2>14. ASSUME NEW key \in DOMAIN n.given PROVE KeyKept(r, n, apart, lost, key)
    <3>1. CASE key = word.key
      <4>1. CASE getenv(r.environ_vars, key) = NULL
        <5>1. value # NULL
          BY DEF value, Inside, NULL
        <5>2. Len(r.environ_vars) = ENVIRON_DATA_SIZE
          BY <2>10, <3>1, <4>1, <5>1 DEF SetsValue
        <5> QED
          BY <4>1, <5>2 DEF KeyKept
      <4>2. CASE getenv(r.environ_vars, key) # NULL
        <5>1. getenv(r.environ_vars, key) = value
          BY <2>10, <3>1, <4>2 DEF SetsValue
        <5>2. /\ getenv(r.environ_vars, key) = Inside(Header(b), r.text[b].word.at + 1)
              /\ r.text[b].word.value = n.given[key]
              /\ key \in n.wiped <=> b \in lost
          BY <2>11, <2>13, <3>1, <5>1 DEF Notes
        <5>3. b \in DOMAIN r.text \ apart
          BY <2>12
        <5> QED
          BY <4>2, <5>2, <5>3 DEF KeyKept
      <4> QED
        BY <4>1, <4>2
    <3>2. CASE key # word.key
      <4>1. key \in DOMAIN h.given /\ n.given[key] = h.given[key]
            /\ (key \in n.wiped <=> key \in h.wiped)
        BY <2>11, <3>2 DEF Notes
      <4>2. getenv(r.environ_vars, key) = getenv(m.environ_vars, key)
        BY <2>10, <3>2 DEF SetsValue
      <4>3. KeyKept(m, h, apart, lost, key)
        BY <4>1 DEF Kept
      <4>4. CASE getenv(m.environ_vars, key) = NULL
        <5>1. Len(m.environ_vars) = ENVIRON_DATA_SIZE
          BY <4>3, <4>4 DEF KeyKept
        <5>2. Len(r.environ_vars) = ENVIRON_DATA_SIZE
          <6>1. /\ Len(m.environ_vars) <= Len(r.environ_vars)
                /\ Len(r.environ_vars) <= ENVIRON_DATA_SIZE
            BY <2>10 DEF SetsValue
          <6>2. Len(r.environ_vars) \in Nat
            BY <2>2, Entries
          <6> QED
            BY <5>1, <6>1, <6>2, EnvironAssumption
        <5> QED
          BY <4>2, <4>4, <5>2 DEF KeyKept
      <4>5. CASE getenv(m.environ_vars, key) # NULL
        <5>1. PICK c \in DOMAIN m.text \ apart :
                /\ getenv(m.environ_vars, key) = Inside(Header(c), m.text[c].word.at + 1)
                /\ m.text[c].word.value = h.given[key]
                /\ key \in h.wiped <=> c \in lost
          BY <4>3, <4>5 DEF KeyKept
        <5>2. c \in DOMAIN r.text \ apart /\ r.text[c].word = m.text[c].word
          BY <2>12
        <5>3. /\ getenv(r.environ_vars, key) = Inside(Header(c), r.text[c].word.at + 1)
              /\ r.text[c].word.value = n.given[key]
              /\ key \in n.wiped <=> c \in lost
          BY <4>1, <4>2, <5>1, <5>2
        <5> QED
          BY <4>2, <4>5, <5>2, <5>3 DEF KeyKept
      <4> QED
        BY <4>4, <4>5
    <3> QED
      BY <3>1, <3>2
  <2>15. Len(r.environ_vars) <= ENVIRON_DATA_SIZE
    BY <2>10 DEF SetsValue
  <2>16. Kept(r, n, apart, lost)
    BY <2>12, <2>14, <2>15 DEF Kept
  <2> QED
    BY <2>1, <2>8, <2>16
<1> QED
  BY <1>3, <1>4
-----------------------------------------------------------------------------
(* Executing a command.                                                    *)

\* The buffers of a command hold its words, none of them cleared; the first k arguments that
\* assign are cut, and no other argument that does not.
Spoken(m, arg, words, k) ==
  LET c == BlockOf(arg.command)
      b(j) == BlockOf(arg.arguments[j])
  IN  /\ c \in DOMAIN m.text /\ m.text[c].word = words[1] /\ m.text[c].cleared = 0
      /\ Len(arg.arguments) = Len(words) - 1
      /\ \A j \in 1..(Len(words) - 1) :
           /\ b(j) \in DOMAIN m.text /\ b(j) # c
           /\ m.text[b(j)].word = words[j + 1] /\ m.text[b(j)].cleared = 0
           /\ m.text[b(j)].cut => words[j + 1].key # NoKey
           /\ j <= k /\ words[j + 1].key # NoKey => m.text[b(j)].cut

LEMMA CutWiped ==
  ASSUME NEW m, NEW r, NEW b, CutAt(m, r, b)
  PROVE  Wiped(r) = Wiped(m)
BY DEF CutAt, Wiped

\* Cutting the command's name disturbs no argument.
LEMMA NameCut ==
  ASSUME NEW m, NEW r, NEW arg, NEW words, Spoken(m, arg, words, 0),
         CutAt(m, r, BlockOf(arg.command))
  PROVE  Spoken(r, arg, words, 0)
<1> DEFINE c == BlockOf(arg.command)
           b(j) == BlockOf(arg.arguments[j])
<1>1. /\ c \in DOMAIN m.text /\ m.text[c].word = words[1] /\ m.text[c].cleared = 0
      /\ Len(arg.arguments) = Len(words) - 1
      /\ \A j \in 1..(Len(words) - 1) :
           /\ b(j) \in DOMAIN m.text /\ b(j) # c
           /\ m.text[b(j)].word = words[j + 1] /\ m.text[b(j)].cleared = 0
           /\ m.text[b(j)].cut => words[j + 1].key # NoKey
           /\ j <= 0 /\ words[j + 1].key # NoKey => m.text[b(j)].cut
  BY DEF Spoken
<1>2. /\ DOMAIN r.text = DOMAIN m.text
      /\ r.text[c].word = m.text[c].word /\ r.text[c].cleared = m.text[c].cleared
      /\ \A d \in DOMAIN m.text : d # c => r.text[d] = m.text[d]
  BY <1>1 DEF CutAt
<1> HIDE DEF b, c
<1>3. \A j \in 1..(Len(words) - 1) : r.text[b(j)] = m.text[b(j)]
  BY <1>1, <1>2
<1>4. /\ c \in DOMAIN r.text /\ r.text[c].word = words[1] /\ r.text[c].cleared = 0
      /\ \A j \in 1..(Len(words) - 1) :
           /\ b(j) \in DOMAIN r.text /\ b(j) # c
           /\ r.text[b(j)].word = words[j + 1] /\ r.text[b(j)].cleared = 0
           /\ r.text[b(j)].cut => words[j + 1].key # NoKey
           /\ j <= 0 /\ words[j + 1].key # NoKey => r.text[b(j)].cut
  BY <1>1, <1>2, <1>3
<1> QED
  BY <1>1, <1>4 DEF Spoken, b, c

\* Cutting the next argument that assigns.
LEMMA NextCut ==
  ASSUME NEW m, NEW r, NEW arg, NEW words, Len(words) \in Nat, NEW k \in 1..(Len(words) - 1),
         Spoken(m, arg, words, k - 1), CutAt(m, r, BlockOf(arg.arguments[k])),
         \A b \in DOMAIN m.text : m.text[b].cut \in BOOLEAN
  PROVE  Spoken(r, arg, words, k) /\ r.text[BlockOf(arg.command)] = m.text[BlockOf(arg.command)]
<1> DEFINE c == BlockOf(arg.command)
           b(j) == BlockOf(arg.arguments[j])
<1>1. /\ c \in DOMAIN m.text /\ m.text[c].word = words[1] /\ m.text[c].cleared = 0
      /\ Len(arg.arguments) = Len(words) - 1
      /\ \A j \in 1..(Len(words) - 1) :
           /\ b(j) \in DOMAIN m.text /\ b(j) # c
           /\ m.text[b(j)].word = words[j + 1] /\ m.text[b(j)].cleared = 0
           /\ m.text[b(j)].cut => words[j + 1].key # NoKey
           /\ j <= k - 1 /\ words[j + 1].key # NoKey => m.text[b(j)].cut
  BY DEF Spoken
<1>2. /\ DOMAIN r.text = DOMAIN m.text
      /\ \A d \in DOMAIN m.text :
           /\ r.text[d].word = m.text[d].word /\ r.text[d].cleared = m.text[d].cleared
           /\ d # b(k) => r.text[d] = m.text[d]
      /\ r.text[b(k)].cut = (m.text[b(k)].cut \/ m.text[b(k)].word.key # NoKey)
  BY DEF CutAt
<1> HIDE DEF b
<1>3. r.text[c] = m.text[c]
  BY <1>1, <1>2
<1>4. ASSUME NEW j \in 1..(Len(words) - 1)
      PROVE  /\ b(j) \in DOMAIN r.text /\ b(j) # c
             /\ r.text[b(j)].word = words[j + 1] /\ r.text[b(j)].cleared = 0
             /\ r.text[b(j)].cut => words[j + 1].key # NoKey
             /\ j <= k /\ words[j + 1].key # NoKey => r.text[b(j)].cut
  <2>1. /\ b(j) \in DOMAIN r.text /\ b(j) # c
        /\ r.text[b(j)].word = words[j + 1] /\ r.text[b(j)].cleared = 0
    <3>1. PICK d : d = b(j)
      OBVIOUS
    <3>2. /\ d \in DOMAIN m.text /\ d # c
          /\ m.text[d].word = words[j + 1] /\ m.text[d].cleared = 0
      BY <1>1, <3>1
    <3>3. /\ d \in DOMAIN r.text /\ r.text[d].word = words[j + 1] /\ r.text[d].cleared = 0
      BY <1>2, <3>2
    <3> QED
      BY <3>1, <3>2, <3>3
  <2>2. CASE b(j) = b(k)
    <3>1. /\ r.text[b(j)].cut = (m.text[b(j)].cut \/ words[j + 1].key # NoKey)
          /\ m.text[b(j)].cut => words[j + 1].key # NoKey
          /\ m.text[b(j)].cut \in BOOLEAN
      BY <1>1, <1>2, <2>2
    <3>2. r.text[b(j)].cut <=> words[j + 1].key # NoKey
      BY <3>1
    <3> QED
      BY <2>1, <3>2
  <2>3. CASE b(j) # b(k)
    <3>1. j # k
      BY <2>3
    <3>2. r.text[b(j)] = m.text[b(j)]
      BY <1>1, <1>2, <2>3
    <3>3. j <= k => j <= k - 1
      BY <3>1
    <3> QED
      BY <1>1, <2>1, <3>2, <3>3
  <2> QED
    BY <2>2, <2>3
<1>5. c \in DOMAIN r.text /\ r.text[c].word = words[1] /\ r.text[c].cleared = 0
  BY <1>1, <1>2, <1>3
<1> QED
  BY <1>1, <1>3, <1>4, <1>5 DEF Spoken, b

\* The arguments of a command that sets variables are assigned as the history has it.
LEMMA ExportKept ==
  ASSUME NEW m \in Memory, NEW arg \in Args, PointsInto(m, arg), Short(m, arg),
         NEW command \in Commands, command.kind \in {"assign", "export"},
         NEW start \in Assigning(m), NEW end, NEW h, ExportRun(h, m, arg, start, end),
         NEW first, NEW last, NEW g, RecallRun(g, command, first, last),
         NEW apart, NEW lost, Kept(start, g[1], apart, lost),
         Spoken(start, arg, command.words, 0),
         \A j \in DOMAIN arg.arguments :
           BlockOf(arg.arguments[j]) \notin apart /\ BlockOf(arg.arguments[j]) \notin lost
  PROVE  /\ Kept(end, last, apart, lost) /\ Spoken(end, arg, command.words, Len(command.words) - 1)
         /\ Wiped(end) = Wiped(start)
         /\ end.text[BlockOf(arg.command)] = start.text[BlockOf(arg.command)]
<1> DEFINE words == command.words
           n == Len(words) - 1
           c == BlockOf(arg.command)
           Good(k) == /\ Kept(h[k], g[k + 1], apart, lost) /\ Spoken(h[k], arg, words, k)
                      /\ Wiped(h[k]) = Wiped(start) /\ h[k].text[c] = start.text[c]
           good == {k \in 0..n : Good(k)}
<1>1. words \in Seq(Words) /\ Len(words) \in Nat \ {0} /\ n \in Nat
  <2>1. words \in Seq(Words) /\ words # <<>>
    BY DEF Commands
  <2> HIDE DEF words
  <2> QED
    BY <2>1, LenProperties, EmptySeq
<1>2. Len(arg.arguments) = n /\ DOMAIN arg.arguments = 1..n
  <2>1. Len(arg.arguments) = n
    BY DEF Spoken
  <2>2. arg.arguments \in Seq(Headers)
    BY DEF Args
  <2> HIDE DEF n
  <2> QED
    BY <2>1, <2>2, LenProperties
<1>3. /\ h[0] = start /\ h[n] = end
      /\ \A k \in 1..n : h[k - 1] \in Assigning(m) /\ h[k] = assign(h[k - 1], arg.arguments[k])
  <2> HIDE DEF n
  <2> QED
    BY <1>2 DEF ExportRun
<1>4. /\ g[n + 1] = last
      /\ \A k \in 1..n : /\ g[k] \in Histories /\ k + 1 \in 1..Len(words)
                         /\ g[k + 1] = Recalled(command, g[k], k + 1)
  <2>1. n + 1 = Len(words)
    BY <1>1
  <2>2. ASSUME NEW k \in 1..n
        PROVE  k + 1 \in 1..Len(words) /\ (k + 1) - 1 = k
    BY <1>1
  <2> HIDE DEF n, words
  <2>3. \A k \in 1..Len(words) : g[k - 1] \in Histories /\ g[k] = Recalled(command, g[k - 1], k)
    BY DEF RecallRun, words
  <2>4. g[Len(words)] = last
    BY DEF RecallRun, words
  <2>5. ASSUME NEW k \in 1..n
        PROVE  /\ g[k] \in Histories /\ k + 1 \in 1..Len(words)
               /\ g[k + 1] = Recalled(command, g[k], k + 1)
    BY <2>2, <2>3
  <2> QED
    BY <2>1, <2>4, <2>5
<1>5. 0 \in good
  BY <1>1, <1>3
<1>6. ASSUME NEW k \in 1..n, k - 1 \in good PROVE k \in good
  <2> DEFINE o == h[k - 1]
             b == BlockOf(arg.arguments[k])
             word == words[k + 1]
  <2>1. /\ Kept(o, g[(k - 1) + 1], apart, lost) /\ Spoken(o, arg, words, k - 1)
        /\ Wiped(o) = Wiped(start) /\ o.text[c] = start.text[c]
    BY <1>6
  <2>2. (k - 1) + 1 = k /\ k \in 0..n /\ k + 1 # 1
    BY <1>1
  <2>3. /\ o \in Assigning(m) /\ o \in Memory /\ h[k] = assign(o, arg.arguments[k])
    BY <1>3 DEF Assigning
  <2>4. /\ g[k] \in Histories /\ k + 1 \in 1..Len(words)
        /\ g[k + 1] = Recalled(command, g[k], k + 1)
    BY <1>4
  <2>5. /\ b \in DOMAIN o.text /\ o.text[b].word = word /\ b \notin apart /\ b \notin lost
    BY <1>2, <2>1 DEF Spoken
  <2>6. arg.arguments[k] = Header(b) /\ b \in Numbers(o.heap)
        /\ (NextOf(o.heap) = NULL => o.text[b].word.len <= 16)
    <3>1. arg.arguments[k] \in Headers
      <4>1. arg.arguments \in Seq(Headers)
        BY DEF Args
      <4> QED
        BY <1>2, <4>1, ElementOfSeq
    <3>2. Later(m, o) /\ Assigns(m, o)
      BY <2>3 DEF Assigning, Assigns
    <3>3. PointsInto(o, arg)
      BY <2>3, <3>2, PointsLater
    <3>4. b \in Numbers(o.heap)
      BY <1>2, <3>3 DEF PointsInto
    <3>5. b \in DOMAIN m.text
      BY <1>2 DEF PointsInto
    <3>6. NextOf(o.heap) = NULL => o.text[b].word.len <= 16
      BY <1>2, <3>2, <3>5 DEF Assigns, Short
    <3> QED
      BY <3>1, <3>4, <3>6, Pointer
  <2>7. Sets(command, k + 1) <=> word.key # NoKey
    <3>1. k + 1 > 1
      BY <2>2
    <3> QED
      BY <3>1 DEF Sets
  <2>8. IF word.key = NoKey THEN g[k + 1] = g[k]
        ELSE Notes(g[k], g[k + 1], word) /\ (word.key \in g[k + 1].wiped <=> b \in lost)
             /\ DOMAIN g[k].given \subseteq Keys
    <3>1. CASE word.key = NoKey
      BY <2>4, <2>7, <3>1 DEF Recalled
    <3>2. CASE word.key # NoKey
      <4>1. /\ Notes(g[k], g[k + 1], word)
            /\ word.key \in g[k + 1].wiped <=> k + 1 = 1 /\ Clears(command)
        BY <2>4, <2>7, <3>2, RecalledNotes
      <4>2. DOMAIN g[k].given \subseteq Keys
        BY <2>4 DEF Histories, Givens
      <4> QED
        BY <2>2, <2>5, <3>2, <4>1, <4>2
    <3> QED
      BY <3>1, <3>2
  <2> HIDE DEF o, b, word, good
  <2>9. CutAt(o, h[k], b) /\ Kept(h[k], g[k + 1], apart, lost)
    <3>1. PICK x, y : x = g[k] /\ y = g[k + 1]
      OBVIOUS
    <3>2. Kept(o, x, apart, lost)
      BY <2>1, <2>2, <3>1
    <3>3. IF o.text[b].word.key = NoKey THEN y = x
          ELSE Notes(x, y, o.text[b].word) /\ (o.text[b].word.key \in y.wiped <=> b \in lost)
               /\ DOMAIN x.given \subseteq Keys
      BY <2>5, <2>8, <3>1
    <3>4. CutAt(o, assign(o, Header(b)), b) /\ Kept(assign(o, Header(b)), y, apart, lost)
      BY <2>3, <2>5, <2>6, <3>2, <3>3, AssignKept
    <3> QED
      BY <2>3, <2>6, <3>1, <3>4
  <2>10. \A d \in DOMAIN o.text : o.text[d].cut \in BOOLEAN
    BY <2>3, WordOf DEF Text
  <2>11. Spoken(h[k], arg, words, k) /\ h[k].text[c] = o.text[c]
    <3>1. PICK r, all : r = h[k] /\ all = words
      OBVIOUS
    <3>2. Len(all) \in Nat /\ k \in 1..(Len(all) - 1) /\ Spoken(o, arg, all, k - 1)
      BY <1>1, <2>1, <3>1
    <3>3. CutAt(o, r, BlockOf(arg.arguments[k]))
      BY <2>9, <3>1 DEF b
    <3>4. Spoken(r, arg, all, k) /\ r.text[c] = o.text[c]
      BY <2>10, <3>2, <3>3, NextCut
    <3> QED
      BY <3>1, <3>4
  <2>12. Wiped(h[k]) = Wiped(o)
    BY <2>9, CutWiped
  <2> QED
    BY <2>1, <2>2, <2>9, <2>11, <2>12 DEF good
<1>7. n \in 0..n /\ n \in good
  <2>1. n \in 0..n
    BY <1>1
  <2> HIDE DEF n, good
  <2> QED
    BY <1>1, <1>5, <1>6, <2>1, UpTo
<1> QED
  BY <1>3, <1>4, <1>7
\* A command that sets no variable leaves the history alone.
LEMMA NothingRecalled ==
  ASSUME NEW command \in Commands, command.kind \in {"plain", "file"}, History \in Histories
  PROVE  Remembered(command) = History
<1> DEFINE n == Len(command.words)
<1>1. n \in Nat
  <2>1. PICK words : words = command.words
    OBVIOUS
  <2>2. words \in Seq(Words)
    BY <2>1 DEF Commands
  <2> QED
    BY <2>1, <2>2, LenProperties
<1>2. PICK g : RecallRun(g, command, History, Remembered(command))
  BY Recalling
<1>3. /\ g[0] = History /\ g[n] = Remembered(command)
      /\ \A k \in 1..n : g[k] = Recalled(command, g[k - 1], k)
  BY <1>2 DEF RecallRun
<1> HIDE DEF n
<1>4. \A k : ~Sets(command, k)
  BY DEF Sets
<1> DEFINE good == {k \in 0..n : g[k] = History}
<1>5. 0 \in good
  BY <1>1, <1>3
<1>6. ASSUME NEW k \in 1..n, k - 1 \in good PROVE k \in good
  BY <1>1, <1>3, <1>4, <1>6 DEF Recalled
<1>7. n \in 0..n /\ n \in good
  <2>1. n \in 0..n
    BY <1>1
  <2> HIDE DEF good
  <2> QED
    BY <1>1, <1>5, <1>6, <2>1, UpTo
<1> QED
  BY <1>3, <1>7

\* What freeing the line will clear: the value of the first word, by a longer argument.
Lost(m, arg, command) == Wiped(m) \cup (IF Clears(command) THEN {BlockOf(arg.command)} ELSE {})

LEMMA ExecuteKept ==
  ASSUME NEW m \in Memory, NEW arg \in Args, PointsInto(m, arg), Short(m, arg),
         NEW command \in Commands, History \in Histories,
         Kept(m, History, {BlockOf(arg.command)}, Wiped(m)), Spoken(m, arg, command.words, 0)
  PROVE  LET r == execute(m, command, arg)
         IN  IF command.kind = "assign"
             THEN /\ Kept(r, Remembered(command), {}, Lost(r, arg, command))
                  /\ Spoken(r, arg, command.words, Len(command.words) - 1)
                  /\ r.text[BlockOf(arg.command)].cut
             ELSE Kept(r, Remembered(command), {BlockOf(arg.command)}, Wiped(r))
<1> DEFINE c == BlockOf(arg.command)
           words == command.words
           last == Remembered(command)
<1>1. PICK g : RecallRun(g, command, History, last)
  BY Recalling
<1>2. words \in Seq(Words) /\ Len(words) \in Nat \ {0}
  <2>1. words \in Seq(Words) /\ words # <<>>
    BY DEF Commands
  <2> HIDE DEF words
  <2> QED
    BY <2>1, LenProperties, EmptySeq
<1>3. g[0] = History /\ g[1] = Recalled(command, History, 1) /\ 1 \in 1..Len(words)
  <2>1. 1 \in 1..Len(words) /\ 1 - 1 = 0
    BY <1>2
  <2>2. g[0] = History /\ g[1] = Recalled(command, g[1 - 1], 1)
    BY <1>1, <2>1 DEF RecallRun
  <2> QED
    BY <2>1, <2>2
<1>4. ASSUME NEW j \in DOMAIN arg.arguments
      PROVE  BlockOf(arg.arguments[j]) # c /\ BlockOf(arg.arguments[j]) \notin Wiped(m)
  <2> DEFINE b == BlockOf(arg.arguments[j])
  <2>1. j \in 1..(Len(words) - 1)
    <3>1. Len(arg.arguments) = Len(words) - 1
      BY DEF Spoken
    <3>2. arg.arguments \in Seq(Headers)
      BY DEF Args
    <3> HIDE DEF words
    <3> QED
      BY <3>1, <3>2, LenProperties
  <2>2. b \in DOMAIN m.text /\ b # c /\ m.text[b].cleared = 0
    BY <2>1 DEF Spoken
  <2> HIDE DEF b
  <2>3. m.text[b].word.at \in Nat
    BY <2>2, WordOf
  <2> QED
    BY <2>2, <2>3 DEF Wiped, b
<1>5. c \in DOMAIN m.text /\ m.text[c].word = words[1] /\ c \notin Wiped(m)
  <2>1. c \in DOMAIN m.text /\ m.text[c].word = words[1] /\ m.text[c].cleared = 0
    BY DEF Spoken
  <2>2. m.text[c].word.at \in Nat
    BY <2>1, WordOf
  <2> QED
    BY <2>1, <2>2 DEF Wiped
<1>6. m \in Assigning(m)
  <2>1. Newest(m.heap) \in Nat
    BY MemoryFacts
  <2> QED
    BY <2>1 DEF Assigning, Assigns, Later
<1>7. CASE command.kind = "plain"
  BY <1>7, NothingRecalled DEF execute
<1>8. CASE command.kind = "file"
  <2>1. PICK r : r = executeFile(m)
    OBVIOUS
  <2>2. r \in Memory /\ Later(m, r)
    BY <2>1, FileExecuted
  <2>3. r.environ_vars = m.environ_vars /\ r.text = m.text
    <3>1. m \in [heap : Heaps, environ_vars : Seq(Entry), text : Buffers, fault : BOOLEAN]
      BY MemoryFacts
    <3> QED
      BY <2>1, <3>1 DEF executeFile
  <2>4. DOMAIN r.text \subseteq Numbers(r.heap)
    <3>1. Newest(m.heap) <= Newest(r.heap) /\ Newest(m.heap) \in Nat /\ Newest(r.heap) \in Nat
      BY <2>2, MemoryFacts DEF Later
    <3>2. DOMAIN m.text \subseteq Numbers(m.heap)
      BY DEF Kept
    <3> QED
      BY <2>3, <3>1, <3>2 DEF Numbers
  <2>5. Wiped(r) = Wiped(m)
    BY <2>3 DEF Wiped
  <2>6. Kept(r, History, {c}, Wiped(r))
    BY <2>3, <2>4, <2>5, KeptThrough
  <2> QED
    BY <1>8, <2>1, <2>6, NothingRecalled DEF execute
<1>9. CASE command.kind = "export"
  <2>1. PICK r : r = executeBuiltInExport(m, arg)
    OBVIOUS
  <2>2. PICK h : ExportRun(h, m, arg, m, r)
    BY <1>6, <2>1, Exported
  <2>3. g[1] = History
    BY <1>3, <1>9 DEF Recalled, Sets
  <2>4. Kept(m, g[1], {c}, Wiped(m))
    BY <2>3
  <2>5. Kept(r, last, {c}, Wiped(m)) /\ Wiped(r) = Wiped(m)
    <3> HIDE DEF last, c
    <3>1. \A j \in DOMAIN arg.arguments :
            BlockOf(arg.arguments[j]) \notin {c} /\ BlockOf(arg.arguments[j]) \notin Wiped(m)
      BY <1>4 DEF c
    <3>2. PICK S, L : S = {c} /\ L = Wiped(m)
      OBVIOUS
    <3>3. Kept(m, g[1], S, L)
      BY <2>4, <3>2
    <3>4. \A j \in DOMAIN arg.arguments :
            BlockOf(arg.arguments[j]) \notin S /\ BlockOf(arg.arguments[j]) \notin L
      BY <3>1, <3>2
    <3>5. Kept(r, last, S, L) /\ Wiped(r) = Wiped(m)
      BY <1>1, <1>6, <1>9, <2>2, <3>3, <3>4, ExportKept
    <3> QED
      BY <3>2, <3>5
  <2> QED
    BY <1>9, <2>1, <2>5 DEF execute
<1>10. CASE command.kind = "assign"
  <2> DEFINE L == Lost(m, arg, command)
             start == assign(m, Header(c))
             r == executeBuiltInExport(start, arg)
  <2>1. arg.command = Header(c)
    <3>1. arg.command \in Headers
      BY DEF Args
    <3> QED
      BY <3>1, Pointer
  <2>2. c \in Numbers(m.heap)
    <3>1. Newest(m.heap) \in Nat
      BY MemoryFacts
    <3> QED
      BY <3>1 DEF PointsInto, Numbers
  <2>3. NextOf(m.heap) = NULL => m.text[c].word.len <= 16
    BY DEF Short
  <2>4. words[1].key # NoKey
    BY <1>10 DEF Commands
  <2>5. Sets(command, 1)
    BY <1>10, <2>4 DEF Sets
  <2>6. /\ Notes(History, g[1], words[1])
        /\ words[1].key \in g[1].wiped <=> Clears(command)
    BY <1>3, <2>5, RecalledNotes
  <2>7. c \in L <=> Clears(command)
    BY <1>5 DEF Lost
  <2>8. Kept(m, History, {}, L)
    <3>1. \A b \in DOMAIN m.text \ {c} : b \in L <=> b \in Wiped(m)
      BY DEF Lost
    <3>2. PICK S, T, K, M : S = {c} /\ T = {} /\ K = Wiped(m) /\ M = L
      OBVIOUS
    <3> HIDE DEF L, c
    <3>3. Kept(m, History, S, K) /\ DOMAIN m.text \subseteq Numbers(m.heap)
      BY <3>2 DEF Kept, c
    <3>4. \A b \in DOMAIN m.text \ S : b \in DOMAIN m.text \ T /\ (b \in M <=> b \in K)
      BY <3>1, <3>2
    <3>5. Kept(m, History, T, M)
      BY <3>3, <3>4, KeptThrough
    <3> QED
      BY <3>2, <3>5
  <2>9. DOMAIN History.given \subseteq Keys
    BY DEF Histories, Givens
  <2>10. start \in Memory /\ Assigns(m, start)
    <3> HIDE DEF c
    <3> QED
      BY <1>5, <2>2, <2>3, Assigned
  <2>11. CutAt(m, start, c) /\ Kept(start, g[1], {}, L)
    <3> HIDE DEF c, L, words
    <3>1. PICK x, y, S : x = History /\ y = g[1] /\ S = {}
      OBVIOUS
    <3>2. IF m.text[c].word.key = NoKey THEN y = x
          ELSE Notes(x, y, m.text[c].word) /\ (m.text[c].word.key \in y.wiped <=> c \in L)
               /\ DOMAIN x.given \subseteq Keys
      BY <1>5, <2>4, <2>6, <2>7, <2>9, <3>1
    <3>3. Kept(m, x, S, L) /\ c \notin S
      BY <2>8, <3>1
    <3>4. CutAt(m, start, c) /\ Kept(start, y, S, L)
      BY <1>5, <2>2, <2>3, <3>2, <3>3, AssignKept
    <3> QED
      BY <3>1, <3>4
  <2> HIDE DEF start
  <2>12. Spoken(start, arg, words, 0) /\ Wiped(start) = Wiped(m)
    BY <2>11, NameCut, CutWiped
  <2>13. start.text[c].cut
    BY <1>5, <2>4, <2>11 DEF CutAt
  <2>14. start \in Assigning(m)
    BY <2>10 DEF Assigning
  <2>15. PICK h : ExportRun(h, m, arg, start, r)
    BY <2>14, Exported
  <2>16. execute(m, command, arg) = r
    BY <1>10, <2>1 DEF execute, executeBuiltInWithoutExport, start
  <2> HIDE DEF r
  <2>17. /\ Kept(r, last, {}, L) /\ Spoken(r, arg, words, Len(words) - 1)
         /\ Wiped(r) = Wiped(start) /\ r.text[c] = start.text[c]
    <3>1. \A j \in DOMAIN arg.arguments :
            BlockOf(arg.arguments[j]) \notin {} /\ BlockOf(arg.arguments[j]) \notin L
      BY <1>4 DEF Lost
    <3>2. PICK S : S = {}
      OBVIOUS
    <3> HIDE DEF L, last
    <3>3. Kept(start, g[1], S, L) /\ \A j \in DOMAIN arg.arguments :
            BlockOf(arg.arguments[j]) \notin S /\ BlockOf(arg.arguments[j]) \notin L
      BY <2>11, <3>1, <3>2
    <3>4. /\ Kept(r, last, S, L) /\ Spoken(r, arg, words, Len(words) - 1)
          /\ Wiped(r) = Wiped(start) /\ r.text[c] = start.text[c]
      BY <1>1, <1>10, <2>12, <2>14, <2>15, <3>3, ExportKept
    <3> QED
      BY <3>2, <3>4
  <2>18. Lost(r, arg, command) = L
    BY <2>12, <2>17 DEF Lost
  <2> HIDE DEF L, last
  <2> QED
    BY <1>10, <2>13, <2>16, <2>17, <2>18 DEF last
<1> QED
  BY <1>7, <1>8, <1>9, <1>10 DEF Commands
-----------------------------------------------------------------------------
(* Parsing a line.                                                         *)

Buffer(word) == [word |-> word, cut |-> FALSE, cleared |-> 0]

\* What parsing the first k arguments of a command does to the texts: it adds those of its
\* words, in buffers of their own.
WordsHeld(m, p, words, k) ==
  LET c == BlockOf(p.arg.command)
      b(j) == BlockOf(p.arg.arguments[j])
  IN  /\ p.mem.environ_vars = m.environ_vars
      /\ DOMAIN p.mem.text \subseteq Numbers(p.mem.heap)
      /\ \A d \in DOMAIN m.text : d \in DOMAIN p.mem.text /\ p.mem.text[d] = m.text[d]
      /\ c > Newest(m.heap) /\ c \in DOMAIN p.mem.text /\ p.mem.text[c] = Buffer(words[1])
      /\ Len(p.arg.arguments) = k
      /\ \A j \in 1..k : /\ b(j) > Newest(m.heap) /\ b(j) # c /\ b(j) \in DOMAIN p.mem.text
                         /\ p.mem.text[b(j)] = Buffer(words[j + 1])

LEMMA NamedTexts ==
  ASSUME NEW m \in Memory, DOMAIN m.text \subseteq Numbers(m.heap), NEW command,
         TextLength(command) \in Nat, NEW words, words[1] \in AnyWord,
         words[1].len <= TextLength(command)
  PROVE  LET trimmed == trim(m, command)
             p == [trimmed EXCEPT !.mem = Put(@, trimmed.arg.command, words[1])]
         IN  WordsHeld(m, p, words, 0)
<1> DEFINE r == trim(m, command)
           N == Newest(m.heap)
           o == r.mem
           n == Put(o, Header(N + 2), words[1])
           p == [r EXCEPT !.mem = Put(@, r.arg.command, words[1])]
<1>1. /\ o \in Memory /\ Later(m, o) /\ Newest(o.heap) = N + 3
      /\ r.arg = [self |-> Header(N + 1), trimmedInput |-> Header(N + 3),
                  command |-> Header(N + 2), arguments |-> <<>>]
      /\ r = [mem |-> o, arg |-> r.arg]
  BY Trimmed
<1>2. o.text = m.text /\ o.environ_vars = m.environ_vars
  BY Trimmed
<1>3. N \in Nat
  BY MemoryFacts
<1>4. /\ p.mem = n /\ p.arg = r.arg /\ p.arg.arguments = <<>> /\ Len(p.arg.arguments) = 0
      /\ p.arg.command = Header(N + 2) /\ BlockOf(p.arg.command) = N + 2
  <2>1. BlockOf(Header(N + 2)) = N + 2
    BY Apart
  <2>2. r.arg.command = Header(N + 2) /\ r.arg.arguments = <<>>
    BY <1>1
  <2> HIDE DEF n
  <2>3. p = [r EXCEPT !.mem = n]
    BY <2>2 DEF n
  <2>4. p.mem = n /\ p.arg = r.arg
    BY <1>1, <2>3
  <2> QED
    BY <2>1, <2>2, <2>4
<1> HIDE DEF p, r
<1>5. /\ n.environ_vars = m.environ_vars
      /\ n.text = [b \in DOMAIN m.text \cup {N + 2} |->
                     IF b = N + 2 THEN Buffer(words[1]) ELSE m.text[b]]
  <2>1. o \in [heap : Heaps, environ_vars : Seq(Entry), text : Buffers, fault : BOOLEAN]
    BY <1>1, MemoryFacts
  <2>2. BlockOf(Header(N + 2)) = N + 2
    BY Apart
  <2> QED
    BY <1>2, <2>1, <2>2 DEF Put, Buffer
<1>6. N + 2 \in Numbers(o.heap)
  BY <1>1, <1>3 DEF Numbers
<1>7. Newest(n.heap) = N + 3
  <2>1. SameBut(o.heap, n.heap, N + 2)
    BY <1>1, <1>6, PutWord
  <2> QED
    BY <1>1, <2>1 DEF SameBut
<1> HIDE DEF n, o
<1>8. DOMAIN n.text \subseteq Numbers(n.heap)
  BY <1>3, <1>5, <1>7 DEF Numbers
<1>9. /\ \A d \in DOMAIN m.text : d \in DOMAIN n.text /\ n.text[d] = m.text[d]
      /\ N + 2 \in DOMAIN n.text /\ n.text[N + 2] = Buffer(words[1]) /\ N + 2 > N
  <2>1. \A d \in DOMAIN m.text : d # N + 2
    BY <1>3 DEF Numbers
  <2> QED
    BY <1>3, <1>5, <2>1
<1>10. \A j \in 1..0 : FALSE
  OBVIOUS
<1>11. p.mem.environ_vars = m.environ_vars /\ p.mem.text = n.text /\ p.mem.heap = n.heap
  BY <1>4, <1>5
<1>12. WordsHeld(m, p, words, 0)
  BY <1>4, <1>8, <1>9, <1>10, <1>11 DEF WordsHeld
<1> QED
  BY <1>12 DEF p, r

LEMMA ArgumentTexts ==
  ASSUME NEW m \in Memory, NEW command, TextLength(command) \in Nat,
         NEW p \in Parsed(m, command), NEW words, NEW k \in Nat, WordsHeld(m, p, words, k),
         words[k + 2] \in AnyWord, words[k + 2].len <= TextLength(command)
  PROVE  WordsHeld(m, parse_argument(p, words[k + 2]), words, k + 1)
<1>1. PICK word \in AnyWord : word = words[k + 2]
  OBVIOUS
<1> DEFINE o == p.mem
           args == p.arg.arguments
           top == Newest(o.heap) + 1
           c == BlockOf(p.arg.command)
           e == parse_argument(p, word)
           more == Append(args, Header(top))
<1>2. /\ p \in [mem : Memory, arg : Args] /\ o \in Memory /\ p.arg \in Args
      /\ PointsInto(o, p.arg) /\ Later(m, o)
  BY DEF Parsed
<1>3. /\ HeapOK(o.heap) /\ o.heap.ROOT # NULL /\ Newest(o.heap) \in Nat /\ Newest(m.heap) \in Nat
      /\ Newest(m.heap) <= Newest(o.heap)
      /\ o \in [heap : Heaps, environ_vars : Seq(Entry), text : Buffers, fault : BOOLEAN]
  BY <1>2, MemoryFacts DEF Later
<1>4. malloc(o.heap).ptr = Header(top) /\ BlockOf(Header(top)) = top
  <2>1. PICK h : h = o.heap
    OBVIOUS
  <2>2. malloc(h).ptr = Header(Newest(malloc(h).heap)) /\ Newest(malloc(h).heap) = Newest(h) + 1
    BY <1>3, <2>1, Mallocked
  <2>3. malloc(o.heap).ptr = Header(top)
    BY <2>1, <2>2
  <2>4. top \in Nat
    BY <1>3
  <2> HIDE DEF top
  <2>5. BlockOf(Header(top)) = top
    BY <2>4, Apart
  <2> QED
    BY <2>3, <2>5
<1>5. /\ e.mem.environ_vars = o.environ_vars
      /\ e.mem.text = [b \in DOMAIN o.text \cup {top} |->
                         IF b = top THEN Buffer(word) ELSE o.text[b]]
      /\ e.arg = [p.arg EXCEPT !.arguments = more]
  BY <1>2, <1>3, <1>4 DEF parse_argument, Put, Buffer
<1>6. e.arg.arguments = more /\ e.arg.command = p.arg.command
  BY <1>2, <1>5 DEF Args
<1>7. e \in Parsed(m, command)
  BY <1>1, ParsedArgument
<1> HIDE DEF e
<1>8. /\ args \in Seq(Headers) /\ Len(args) = k /\ Header(top) \in Headers
  <2>1. args \in Seq(Headers)
    BY <1>2 DEF Args
  <2>2. Len(args) = k
    BY DEF WordsHeld
  <2>3. top \in Nat
    BY <1>3
  <2>4. Header(top) \in Headers
    BY <2>3 DEF Headers
  <2> QED
    BY <2>1, <2>2, <2>4
<1>9. /\ Len(more) = k + 1 /\ more[k + 1] = Header(top) /\ DOMAIN more = 1..(k + 1)
      /\ \A j \in 1..k : more[j] = args[j]
  <2>1. PICK s, x : s = args /\ x = Header(top)
    OBVIOUS
  <2>2. /\ Append(s, x) \in Seq(Headers) /\ Len(Append(s, x)) = k + 1
        /\ Append(s, x)[k + 1] = x /\ \A j \in 1..k : Append(s, x)[j] = s[j]
    BY <1>8, <2>1, AppendProperties
  <2>3. DOMAIN Append(s, x) = 1..(k + 1)
    BY <2>2, LenProperties
  <2> QED
    BY <2>1, <2>2, <2>3
<1>10. top <= Newest(e.mem.heap) /\ Newest(e.mem.heap) \in Nat
  <2>1. e.mem \in Memory /\ PointsInto(e.mem, e.arg)
    BY <1>7 DEF Parsed
  <2>2. BlockOf(e.arg.arguments[k + 1]) \in Numbers(e.mem.heap)
    BY <1>6, <1>9, <2>1 DEF PointsInto
  <2>3. top \in Numbers(e.mem.heap)
    BY <1>4, <1>6, <1>9, <2>2
  <2> QED
    BY <1>3, <2>1, <2>3, MemoryFacts DEF Numbers
<1> HIDE DEF more
<1>11. /\ o.environ_vars = m.environ_vars /\ DOMAIN o.text \subseteq Numbers(o.heap)
       /\ \A d \in DOMAIN m.text : d \in DOMAIN o.text /\ o.text[d] = m.text[d]
       /\ c > Newest(m.heap) /\ c \in DOMAIN o.text /\ o.text[c] = Buffer(words[1])
       /\ \A j \in 1..k : LET b == BlockOf(args[j])
                          IN  /\ b > Newest(m.heap) /\ b # c /\ b \in DOMAIN o.text
                              /\ o.text[b] = Buffer(words[j + 1])
  BY DEF WordsHeld
<1>12. \A d \in DOMAIN o.text : d # top /\ d \in DOMAIN e.mem.text /\ e.mem.text[d] = o.text[d]
  <2>1. \A d \in DOMAIN o.text : d # top
    BY <1>3, <1>11 DEF Numbers
  <2> QED
    BY <1>5, <2>1
<1>13. top \in DOMAIN e.mem.text /\ e.mem.text[top] = Buffer(word)
  BY <1>5
<1>14. DOMAIN e.mem.text \subseteq Numbers(e.mem.heap)
  <2>1. DOMAIN e.mem.text = DOMAIN o.text \cup {top}
    BY <1>5
  <2> QED
    BY <1>3, <1>10, <1>11, <2>1 DEF Numbers
<1>15. ASSUME NEW j \in 1..(k + 1)
       PROVE  LET b == BlockOf(e.arg.arguments[j])
              IN  /\ b > Newest(m.heap) /\ b # c /\ b \in DOMAIN e.mem.text
                  /\ e.mem.text[b] = Buffer(words[j + 1])
  <2>1. CASE j = k + 1
    <3>1. BlockOf(e.arg.arguments[j]) = top
      BY <1>4, <1>6, <1>9, <2>1
    <3>2. top > Newest(m.heap) /\ top # c /\ j + 1 = k + 2
      BY <1>3, <1>11, <1>12, <2>1
    <3> HIDE DEF top, c
    <3> QED
      BY <1>1, <1>13, <3>1, <3>2
  <2>2. CASE j # k + 1
    <3>1. j \in 1..k
      BY <2>2
    <3>2. e.arg.arguments[j] = args[j]
      BY <1>6, <1>9, <3>1
    <3> HIDE DEF top, c, args
    <3> QED
      BY <1>11, <1>12, <3>1, <3>2
  <2> QED
    BY <2>1, <2>2
<1>16. Len(e.arg.arguments) = k + 1
  BY <1>6, <1>9
<1>17. BlockOf(e.arg.command) = c
  BY <1>6
<1>18. \A d \in DOMAIN m.text : d \in DOMAIN e.mem.text /\ e.mem.text[d] = m.text[d]
  BY <1>11, <1>12
<1>19. e.mem.environ_vars = m.environ_vars /\ c > Newest(m.heap)
       /\ c \in DOMAIN e.mem.text /\ e.mem.text[c] = Buffer(words[1])
  BY <1>5, <1>11, <1>12
<1>20. WordsHeld(m, e, words, k + 1)
  <2> HIDE DEF c, o, top, args
  <2> QED
    BY <1>14, <1>15, <1>16, <1>17, <1>18, <1>19 DEF WordsHeld
<1> QED
  BY <1>1, <1>20 DEF e

LEMMA InputTexts ==
  ASSUME NEW m \in Memory, DOMAIN m.text \subseteq Numbers(m.heap), NEW command \in Commands
  PROVE  WordsHeld(m, parseInput(m, command), command.words, Len(command.words) - 1)
<1>1. PICK words : words = command.words
  OBVIOUS
<1>2. words \in Seq(Words) /\ words # <<>>
  BY <1>1 DEF Commands
<1>3. Len(words) \in Nat \ {0} /\ TextLength(command) \in Nat
  BY <1>2, LenProperties, EmptySeq, ParsedInput
<1>4. \A k \in 1..Len(words) : words[k] \in AnyWord /\ words[k].len <= TextLength(command)
  BY <1>1, <1>2, TextLengthBounds, ElementOfSeq, AnyWords
<1>5. PICK h : ParseRun(h, m, command, parseInput(m, command))
  BY ParsedInput
<1> DEFINE trimmed == trim(m, command)
           base == [trimmed EXCEPT !.mem = Put(@, trimmed.arg.command, words[1])]
           n == Len(words) - 1
<1>6. /\ h[0] = base /\ h[n] = parseInput(m, command)
      /\ \A k \in 1..n : /\ h[k - 1] \in Parsed(m, command)
                         /\ h[k] = parse_argument(h[k - 1], words[k + 1])
  BY <1>1, <1>5 DEF ParseRun
<1>7. WordsHeld(m, base, words, 0)
  BY <1>3, <1>4, NamedTexts
<1> HIDE DEF base
<1> DEFINE good == {k \in 0..n : WordsHeld(m, h[k], words, k)}
<1>8. n \in Nat /\ 0 \in good
  BY <1>3, <1>6, <1>7
<1>9. ASSUME NEW k \in 1..n, k - 1 \in good PROVE k \in good
  <2>1. PICK j \in Nat : j = k - 1
    BY <1>8
  <2>2. k = j + 1 /\ k \in 0..n /\ k + 1 = j + 2 /\ j + 2 \in 1..Len(words)
    BY <1>3, <2>1
  <2>3. PICK p : p = h[j]
    OBVIOUS
  <2>4. p \in Parsed(m, command) /\ h[k] = parse_argument(p, words[j + 2])
    BY <1>6, <2>1, <2>2, <2>3
  <2>5. WordsHeld(m, p, words, j)
    BY <1>9, <2>1, <2>3
  <2>6. words[j + 2] \in AnyWord /\ words[j + 2].len <= TextLength(command)
    BY <1>4, <2>2
  <2>7. WordsHeld(m, parse_argument(p, words[j + 2]), words, j + 1)
    BY <1>3, <2>4, <2>5, <2>6, ArgumentTexts
  <2> QED
    BY <2>2, <2>4, <2>7
<1>10. n \in 0..n /\ n \in good
  <2>1. n \in 0..n
    BY <1>8
  <2> HIDE DEF n, good
  <2> QED
    BY <1>8, <1>9, <2>1, UpTo
<1> QED
  BY <1>1, <1>6, <1>10

\* What parsing the first k commands of a line does to the texts.
LineTexts(m, l, k, a) ==
  /\ a.mem.environ_vars = m.environ_vars
  /\ DOMAIN a.mem.text \subseteq Numbers(a.mem.heap)
  /\ \A d \in DOMAIN m.text : d \in DOMAIN a.mem.text /\ a.mem.text[d] = m.text[d]
  /\ Newest(m.heap) <= Newest(a.mem.heap)
  /\ \A i \in 1..k : BlockOf(a.args[i].command) > Newest(m.heap)
  /\ k = 0 => a.mem = m
  /\ k = 1 => WordsHeld(m, [mem |-> a.mem, arg |-> a.args[1]], l[1].words, Len(l[1].words) - 1)

LEMMA NextTexts ==
  ASSUME NEW m \in Memory, NEW l, NEW k \in Nat, NEW o, LinedUp(m, l, k, o), LineTexts(m, l, k, o),
         l[k + 1] \in Commands
  PROVE  LineTexts(m, l, k + 1, ParseNext(o, l[k + 1]))
<1>1. PICK command \in Commands : command = l[k + 1]
  OBVIOUS
<1>2. PICK p : p = parseInput(o.mem, command)
  OBVIOUS
<1>3. /\ o.mem \in Memory /\ o.args \in Seq(Args) /\ Len(o.args) = k
  BY DEF LinedUp
<1>4. /\ o.mem.environ_vars = m.environ_vars /\ DOMAIN o.mem.text \subseteq Numbers(o.mem.heap)
      /\ \A d \in DOMAIN m.text : d \in DOMAIN o.mem.text /\ o.mem.text[d] = m.text[d]
      /\ Newest(m.heap) <= Newest(o.mem.heap)
      /\ \A i \in 1..k : BlockOf(o.args[i].command) > Newest(m.heap)
      /\ k = 0 => o.mem = m
  BY DEF LineTexts
<1>5. p \in Parsed(o.mem, command)
  BY <1>2, <1>3, ParsedInput
<1>6. p \in [mem : Memory, arg : Args] /\ Later(o.mem, p.mem)
  BY <1>5 DEF Parsed
<1>7. WordsHeld(o.mem, p, command.words, Len(command.words) - 1)
  BY <1>2, <1>3, <1>4, InputTexts
<1>8. /\ p.mem.environ_vars = o.mem.environ_vars
      /\ DOMAIN p.mem.text \subseteq Numbers(p.mem.heap)
      /\ \A d \in DOMAIN o.mem.text : d \in DOMAIN p.mem.text /\ p.mem.text[d] = o.mem.text[d]
      /\ BlockOf(p.arg.command) > Newest(o.mem.heap)
  BY <1>7 DEF WordsHeld
<1>9. PICK args : args = Append(o.args, p.arg)
  OBVIOUS
<1>10. args[k + 1] = p.arg /\ \A i \in 1..k : args[i] = o.args[i]
  <2>1. PICK s, x : s = o.args /\ x = p.arg
    OBVIOUS
  <2>2. s \in Seq(Args) /\ x \in Args /\ Len(s) = k
    BY <1>3, <1>6, <2>1
  <2>3. Append(s, x)[k + 1] = x /\ \A i \in 1..k : Append(s, x)[i] = s[i]
    BY <2>2, AppendProperties
  <2> QED
    BY <1>9, <2>1, <2>3
<1>11. ParseNext(o, command) = [mem |-> p.mem, args |-> args]
  BY <1>2, <1>9 DEF ParseNext
<1>12. PICK a : a = ParseNext(o, command)
  OBVIOUS
<1>13. a.mem = p.mem /\ a.args = args
  BY <1>11, <1>12
<1>14. /\ Newest(m.heap) \in Nat /\ Newest(o.mem.heap) \in Nat /\ Newest(p.mem.heap) \in Nat
       /\ Newest(o.mem.heap) <= Newest(p.mem.heap)
  BY <1>3, <1>6, MemoryFacts DEF Later
<1>15. BlockOf(p.arg.command) > Newest(m.heap)
  <2>1. BlockOf(p.arg.command) \in Nat
    BY <1>6, Pointer DEF Args
  <2> QED
    BY <1>4, <1>8, <1>14, <2>1
<1>16. ASSUME NEW i \in 1..(k + 1) PROVE BlockOf(a.args[i].command) > Newest(m.heap)
  <2>1. CASE i = k + 1
    BY <1>10, <1>13, <1>15, <2>1
  <2>2. CASE i # k + 1
    <3>1. i \in 1..k
      BY <2>2
    <3> QED
      BY <1>4, <1>10, <1>13, <3>1
  <2> QED
    BY <2>1, <2>2
<1>17. \A d \in DOMAIN m.text : d \in DOMAIN a.mem.text /\ a.mem.text[d] = m.text[d]
  BY <1>4, <1>8, <1>13
<1>18. ASSUME k + 1 = 1
       PROVE  WordsHeld(m, [mem |-> a.mem, arg |-> a.args[1]], l[1].words, Len(l[1].words) - 1)
  <2>1. k = 0 /\ l[1] = command
    BY <1>1, <1>18
  <2>2. a.args[1] = p.arg /\ o.mem = m
    BY <1>4, <1>10, <1>13, <2>1
  <2>3. [mem |-> a.mem, arg |-> a.args[1]] = p
    BY <1>6, <1>13, <2>2
  <2> QED
    BY <1>7, <2>1, <2>2, <2>3
<1>19. Newest(m.heap) <= Newest(a.mem.heap)
  BY <1>4, <1>13, <1>14
<1>20. /\ a.mem.environ_vars = m.environ_vars /\ DOMAIN a.mem.text \subseteq Numbers(a.mem.heap)
       /\ k + 1 # 0
  BY <1>4, <1>8, <1>13
<1>21. LineTexts(m, l, k + 1, a)
  BY <1>16, <1>17, <1>18, <1>19, <1>20 DEF LineTexts
<1> QED
  BY <1>1, <1>12, <1>21

LEMMA ParsedTexts ==
  ASSUME NEW m \in Memory, DOMAIN m.text \subseteq Numbers(m.heap), NEW l \in Seq(Commands),
         NEW h, NEW end, LineRun(h, m, l, end)
  PROVE  LineTexts(m, l, Len(l), end)
<1> DEFINE n == Len(l)
           good == {k \in 0..n : LineTexts(m, l, k, h[k])}
<1>1. /\ h[0] = [mem |-> m, args |-> <<>>] /\ h[n] = end
      /\ \A k \in 0..n : LinedUp(m, l, k, h[k])
      /\ \A k \in 1..n : h[k] = ParseNext(h[k - 1], l[k])
  BY DEF LineRun
<1>2. n \in Nat /\ \A k \in 1..n : l[k] \in Commands
  BY LenProperties, ElementOfSeq
<1>3. 0 \in good
  <2>1. PICK a : a = h[0]
    OBVIOUS
  <2>2. a.mem = m /\ \A i \in 1..0 : FALSE
    BY <1>1, <2>1
  <2>3. Newest(m.heap) <= Newest(m.heap)
    BY MemoryFacts
  <2>4. LineTexts(m, l, 0, a)
    BY <2>2, <2>3 DEF LineTexts
  <2>5. 0 \in 0..n
    BY <1>2
  <2> HIDE DEF n
  <2> QED
    BY <2>1, <2>4, <2>5
<1>4. ASSUME NEW k \in 1..n, k - 1 \in good PROVE k \in good
  <2>1. PICK j \in Nat : j = k - 1
    BY <1>2
  <2>2. k = j + 1 /\ k \in 0..n /\ j \in 0..n
    BY <1>2, <2>1
  <2>3. PICK o : o = h[j]
    OBVIOUS
  <2>4. LinedUp(m, l, j, o) /\ h[k] = ParseNext(o, l[j + 1]) /\ l[j + 1] \in Commands
    BY <1>1, <1>2, <2>1, <2>2, <2>3
  <2>5. LineTexts(m, l, j, o)
    BY <1>4, <2>1, <2>3
  <2>6. LineTexts(m, l, j + 1, ParseNext(o, l[j + 1]))
    BY <2>4, <2>5, NextTexts
  <2> QED
    BY <2>2, <2>4, <2>6
<1>5. n \in 0..n /\ n \in good
  <2>1. n \in 0..n
    BY <1>2
  <2> HIDE DEF n, good
  <2> QED
    BY <1>2, <1>3, <1>4, <2>1, UpTo
<1> QED
  BY <1>1, <1>5

\* The blocks of the names of a line's commands.
Names(args) == {BlockOf(args[i].command) : i \in DOMAIN args}

\* What parsing a line leaves of the values, and of a line of one command what executing it
\* starts from.
LEMMA ParsedKept ==
  ASSUME NEW m \in Memory, NEW h, Kept(m, h, {}, Wiped(m)), NEW l \in Seq(Commands),
         NEW a, LinedUp(m, l, Len(l), a), LineTexts(m, l, Len(l), a)
  PROVE  /\ Kept(a.mem, h, Names(a.args), Wiped(a.mem))
         /\ Len(l) = 1 => Spoken(a.mem, a.args[1], l[1].words, 0)
<1>1. PICK o, args : o = a.mem /\ args = a.args
  OBVIOUS
<1>2. PICK k \in Nat : k = Len(l)
  BY LenProperties
<1>3. o \in Memory /\ args \in Seq(Args) /\ Len(args) = k
  BY <1>1, <1>2 DEF LinedUp
<1>4. /\ o.environ_vars = m.environ_vars /\ DOMAIN o.text \subseteq Numbers(o.heap)
      /\ \A d \in DOMAIN m.text : d \in DOMAIN o.text /\ o.text[d] = m.text[d]
      /\ \A i \in 1..k : BlockOf(args[i].command) > Newest(m.heap)
      /\ k = 1 => WordsHeld(m, [mem |-> o, arg |-> args[1]], l[1].words, Len(l[1].words) - 1)
  BY <1>1, <1>2 DEF LineTexts
<1>5. DOMAIN args = 1..k
  BY <1>3, LenProperties
<1>6. \A b \in DOMAIN m.text : b \notin Names(args)
  <2> SUFFICES ASSUME NEW b \in DOMAIN m.text, NEW i \in DOMAIN args, b = BlockOf(args[i].command)
               PROVE  FALSE
    BY DEF Names
  <2>1. b > Newest(m.heap)
    BY <1>4, <1>5
  <2>2. b \in Nat /\ b <= Newest(m.heap) /\ Newest(m.heap) \in Nat
    BY MemoryFacts DEF Kept, Numbers
  <2> QED
    BY <2>1, <2>2
<1>7. PICK S, W, N, V : S = {} /\ W = Wiped(m) /\ N = Names(args) /\ V = Wiped(o)
  OBVIOUS
<1>8. Kept(m, h, S, W)
  BY <1>7
<1>9. \A b \in DOMAIN m.text \ S : /\ b \in DOMAIN o.text \ N /\ o.text[b].word = m.text[b].word
                                   /\ b \in V <=> b \in W
  BY <1>4, <1>6, <1>7 DEF Wiped
<1>10. Kept(o, h, N, V)
  BY <1>4, <1>8, <1>9, KeptThrough
<1>11. ASSUME k = 1 PROVE Spoken(o, args[1], l[1].words, 0)
  <2>1. PICK words, arg : words = l[1].words /\ arg = args[1]
    OBVIOUS
  <2>2. PICK n : n = Len(words) - 1
    OBVIOUS
  <2>3. WordsHeld(m, [mem |-> o, arg |-> arg], words, n)
    BY <1>4, <1>11, <2>1, <2>2
  <2>4. /\ BlockOf(arg.command) \in DOMAIN o.text /\ o.text[BlockOf(arg.command)] = Buffer(words[1])
        /\ Len(arg.arguments) = n
        /\ \A j \in 1..n : /\ BlockOf(arg.arguments[j]) # BlockOf(arg.command)
                           /\ BlockOf(arg.arguments[j]) \in DOMAIN o.text
                           /\ o.text[BlockOf(arg.arguments[j])] = Buffer(words[j + 1])
    BY <2>3 DEF WordsHeld
  <2>5. \A w : Buffer(w).word = w /\ Buffer(w).cleared = 0 /\ ~Buffer(w).cut
    BY DEF Buffer
  <2>7. \A j \in 1..n : ~(j <= 0)
    OBVIOUS
  <2>8. Spoken(o, arg, words, 0)
    BY <2>2, <2>4, <2>5, <2>7 DEF Spoken
  <2> QED
    BY <2>1, <2>8
<1> QED
  BY <1>1, <1>2, <1>7, <1>10, <1>11

-----------------------------------------------------------------------------
(* Giving a line back.                                                     *)

\* Clearing a buffer disturbs no other.
Fades(m, n, c) ==
  \A d \in DOMAIN m.text :
    /\ d \in DOMAIN n.text /\ n.text[d].word = m.text[d].word /\ n.text[d].cut = m.text[d].cut
    /\ d # c => n.text[d] = m.text[d]

LEMMA FadedText ==
  ASSUME NEW m \in Memory, ~m.fault, NEW c \in 1..(Newest(m.heap) - 1), c \in DOMAIN m.text,
         NEW b \in Numbers(m.heap), NEW k \in Nat
  PROVE  LET n == Guarded(m, Header(b), Free(Clear(m, Header(c), k), Header(b)))
         IN  /\ Fades(m, n, c)
             /\ \A x \in Nat : n.text[c].cleared > x <=> m.text[c].cleared > x \/ k > x
<1> DEFINE old == m.text[c]
           new == [old EXCEPT !.cleared = IF k > @ THEN k ELSE @]
           text == [m.text EXCEPT ![c] = new]
           o == Clear(m, Header(c), k)
           n == Guarded(m, Header(b), Free(o, Header(b)))
<1>1. /\ m \in [heap : Heaps, environ_vars : Seq(Entry), text : Buffers, fault : BOOLEAN]
      /\ Newest(m.heap) \in Nat /\ m.text \in [DOMAIN m.text -> Text]
  BY MemoryFacts
<1>2. c \in Numbers(m.heap) /\ BlockOf(Header(c)) = c
  BY <1>1, Apart DEF Numbers
<1>3. o.text = text
  <2>1. o = [m EXCEPT !.heap = Zeroed(@, Header(c), k),
                      !.text[c].cleared = IF k > @ THEN k ELSE @]
    BY <1>2, AllMapped DEF Clear, Guarded
  <2> QED
    BY <1>1, <2>1
<1>4. o \in Memory
  BY Cleared
<1> HIDE DEF o
<1>5. Free(o, Header(b)).text = text
  <2>1. o \in [heap : Heaps, environ_vars : Seq(Entry), text : Buffers, fault : BOOLEAN]
    BY <1>4, MemoryFacts
  <2> HIDE DEF text
  <2> QED
    BY <1>3, <2>1 DEF Free
<1>6. n.text = text
  BY <1>5, AllMapped DEF Guarded
<1> HIDE DEF n
<1>7. old \in Text /\ old.cleared \in Nat
  <2>1. old \in Text
    BY <1>1
  <2> HIDE DEF old
  <2> QED
    BY <2>1 DEF Text
<1>8. /\ new.word = old.word /\ new.cut = old.cut
      /\ new.cleared = IF k > old.cleared THEN k ELSE old.cleared
  <2> HIDE DEF old
  <2> QED
    BY <1>7 DEF Text
<1>9. text[c] = new /\ \A d \in DOMAIN m.text : d \in DOMAIN text /\ (d # c => text[d] = m.text[d])
  <2> HIDE DEF new
  <2> QED
    BY <1>1
<1> HIDE DEF new, text
<1>10. Fades(m, n, c)
  BY <1>6, <1>8, <1>9 DEF Fades, old
<1>11. \A x \in Nat : n.text[c].cleared > x <=> m.text[c].cleared > x \/ k > x
  <2>1. n.text[c].cleared = IF k > old.cleared THEN k ELSE old.cleared
    BY <1>6, <1>8, <1>9
  <2> QED
    BY <1>7, <2>1
<1> QED
  BY <1>10, <1>11 DEF n, o

LEMMA FadesTwice ==
  ASSUME NEW m, NEW n, NEW o, NEW c, Fades(m, n, c), Fades(n, o, c)
  PROVE  Fades(m, o, c)
<1> QED
  BY DEF Fades

\* The length of a word is what is in its buffer.
LEMMA SameLength ==
  ASSUME NEW m, NEW n, NEW c, Fades(m, n, c), NEW p, BlockOf(p) \in DOMAIN m.text,
         BlockOf(p) # c
  PROVE  strlen(n, p) = strlen(m, p)
<1> QED
  BY DEF Fades, strlen

\* The name of a command is cleared as far as it is long.
LEMMA NameFades ==
  ASSUME NEW m \in Memory, NEW arg \in Args, PointsInto(m, arg), ~NameFreed(m, arg).fault
  PROVE  LET n == NameFreed(m, arg)
             c == BlockOf(arg.command)
         IN  /\ ~m.fault /\ Fades(m, n, c)
             /\ \A x \in Nat : n.text[c].cleared > x
                                 <=> m.text[c].cleared > x \/ strlen(m, arg.command) > x
<1>1. PICK c \in Nat : c = BlockOf(arg.command) /\ arg.command = Header(c)
  BY Pointer DEF Args
<1>2. PICK t \in Nat : arg.trimmedInput = Header(t)
  BY Pointer DEF Args
<1>3. PICK o : o = Free(m, Header(t))
  OBVIOUS
<1>4. o \in Memory /\ Quiet(m, o)
  BY <1>3, Freed
<1>5. o.text = m.text
  <2>1. m \in [heap : Heaps, environ_vars : Seq(Entry), text : Buffers, fault : BOOLEAN]
    BY MemoryFacts
  <2> QED
    BY <1>3, <2>1 DEF Free
<1>6. c \in 1..(Newest(m.heap) - 1) /\ c \in DOMAIN m.text
  BY <1>1 DEF PointsInto
<1>7. c \in 1..(Newest(o.heap) - 1) /\ c \in DOMAIN o.text /\ c \in Numbers(o.heap)
  BY <1>4, <1>5, <1>6, MemoryFacts DEF Quiet, Numbers
<1>8. strlen(o, Header(c)) = strlen(m, Header(c)) /\ strlen(o, Header(c)) \in Nat
  BY <1>4, <1>5, <1>7, Strlen DEF strlen
<1>9. PICK n : n = Guarded(o, Header(c),
                           Free(Clear(o, Header(c), strlen(o, Header(c))), Header(c)))
  OBVIOUS
<1>10. n = NameFreed(m, arg)
  BY <1>1, <1>2, <1>3, <1>9 DEF NameFreed
<1>11. ~n.fault
  BY <1>10
<1>12. ~o.fault
  BY <1>9, <1>11 DEF Guarded
<1>13. ~m.fault
  BY <1>3, <1>12 DEF Free
<1>14. PICK k \in Nat : k = strlen(o, Header(c))
  BY <1>8
<1>15. n = Guarded(o, Header(c), Free(Clear(o, Header(c), k), Header(c)))
  BY <1>9, <1>14
<1>16. /\ Fades(o, n, c)
       /\ \A x \in Nat : n.text[c].cleared > x <=> o.text[c].cleared > x \/ k > x
  BY <1>4, <1>7, <1>12, <1>15, FadedText
<1>17. Fades(m, n, c)
  BY <1>5, <1>16 DEF Fades
<1> QED
  BY <1>1, <1>5, <1>8, <1>10, <1>13, <1>14, <1>16, <1>17

\* The name is cleared as far as an argument is long.
LEMMA ArgumentFades ==
  ASSUME NEW m \in Memory, NEW arg \in Args, PointsInto(m, arg), NEW j \in DOMAIN arg.arguments,
         ~free_argument(m, arg.command, arg.arguments[j]).fault
  PROVE  LET n == free_argument(m, arg.command, arg.arguments[j])
             c == BlockOf(arg.command)
         IN  /\ ~m.fault /\ Fades(m, n, c)
             /\ \A x \in Nat : n.text[c].cleared > x
                                 <=> m.text[c].cleared > x \/ strlen(m, arg.arguments[j]) > x
<1>1. PICK c \in Nat : c = BlockOf(arg.command) /\ arg.command = Header(c)
  BY Pointer DEF Args
<1>2. arg.arguments[j] \in Headers
  BY ElementOfSeq DEF Args
<1>3. PICK b \in Nat : b = BlockOf(arg.arguments[j]) /\ arg.arguments[j] = Header(b)
  BY <1>2, Pointer
<1>4. /\ c \in 1..(Newest(m.heap) - 1) /\ c \in DOMAIN m.text
      /\ b \in Numbers(m.heap) /\ b \in DOMAIN m.text
  BY <1>1, <1>3 DEF PointsInto
<1>5. PICK k \in Nat : k = strlen(m, Header(b))
  BY <1>4, Strlen
<1>6. PICK n : n = Guarded(m, Header(b), Free(Clear(m, Header(c), k), Header(b)))
  OBVIOUS
<1>7. n = free_argument(m, arg.command, arg.arguments[j])
  BY <1>1, <1>3, <1>5, <1>6 DEF free_argument
<1>8. ~n.fault
  BY <1>7
<1>9. ~m.fault
  BY <1>6, <1>8 DEF Guarded
<1>10. /\ Fades(m, n, c)
       /\ \A x \in Nat : n.text[c].cleared > x <=> m.text[c].cleared > x \/ k > x
  BY <1>4, <1>6, <1>9, FadedText
<1> QED
  BY <1>1, <1>3, <1>5, <1>7, <1>9, <1>10

NameApart(arg) == \A j \in DOMAIN arg.arguments : BlockOf(arg.arguments[j]) # BlockOf(arg.command)

\* One of the first k arguments is longer than x.
Longer(m, arg, k, x) == \E j \in 1..k : strlen(m, arg.arguments[j]) > x

\* What giving back the first k arguments leaves, unless it faults.
Faded(m, n, arg, k) ==
  LET c == BlockOf(arg.command)
  IN  ~n.fault =>
        /\ ~m.fault /\ Fades(m, n, c)
        /\ NameApart(arg) =>
             \A x \in Nat : n.text[c].cleared > x <=> m.text[c].cleared > x \/ Longer(m, arg, k, x)

LEMMA NextFades ==
  ASSUME NEW m \in Memory, NEW arg \in Args, PointsInto(m, arg), NEW start \in Tried(m),
         NEW o \in Tried(m), NEW k \in Nat, k + 1 \in DOMAIN arg.arguments,
         Faded(start, o, arg, k)
  PROVE  Faded(start, free_argument(o, arg.command, arg.arguments[k + 1]), arg, k + 1)
<1>1. PICK n : n = free_argument(o, arg.command, arg.arguments[k + 1])
  OBVIOUS
<1>2. SUFFICES ASSUME ~n.fault
               PROVE  Faded(start, n, arg, k + 1)
  BY <1>1 DEF Faded
<1>3. PICK c : c = BlockOf(arg.command)
  OBVIOUS
<1>4. PICK p : p = arg.arguments[k + 1]
  OBVIOUS
<1>5. PICK j \in DOMAIN arg.arguments : j = k + 1
  OBVIOUS
<1>6. /\ m \in Memory /\ o \in Memory /\ start \in Memory
      /\ DOMAIN start.text = DOMAIN m.text /\ Later(m, o)
  <2>1. o \in Memory /\ start \in Memory /\ Quiet(m, o) /\ Quiet(m, start)
    BY DEF Tried
  <2>2. Later(m, o)
    BY <2>1, MemoryFacts DEF Quiet, Later
  <2> QED
    BY <2>1, <2>2 DEF Quiet
<1>7. PointsInto(o, arg)
  BY <1>6, PointsLater
<1>8. n = free_argument(o, arg.command, arg.arguments[j])
  BY <1>1, <1>5
<1>9. /\ ~o.fault /\ Fades(o, n, c)
      /\ \A x \in Nat : n.text[c].cleared > x <=> o.text[c].cleared > x \/ strlen(o, p) > x
  BY <1>2, <1>3, <1>4, <1>5, <1>6, <1>7, <1>8, ArgumentFades
<1>10. /\ ~start.fault /\ Fades(start, o, c)
       /\ NameApart(arg) =>
            \A x \in Nat : o.text[c].cleared > x <=> start.text[c].cleared > x
                                                    \/ Longer(start, arg, k, x)
  BY <1>3, <1>9 DEF Faded
<1>11. Fades(start, n, c)
  BY <1>9, <1>10, FadesTwice
<1>12. BlockOf(p) \in DOMAIN start.text
  BY <1>4, <1>5, <1>6 DEF PointsInto
<1>13. ASSUME NameApart(arg), NEW x \in Nat
       PROVE  n.text[c].cleared > x <=> start.text[c].cleared > x \/ Longer(start, arg, k + 1, x)
  <2>1. BlockOf(p) # c
    BY <1>3, <1>4, <1>5, <1>13 DEF NameApart
  <2>2. strlen(o, p) = strlen(start, p)
    BY <1>10, <1>12, <2>1, SameLength
  <2>3. Longer(start, arg, k + 1, x) <=> Longer(start, arg, k, x) \/ strlen(start, p) > x
    <3>1. 1..(k + 1) = 1..k \cup {k + 1}
      OBVIOUS
    <3> QED
      BY <1>4, <3>1 DEF Longer
  <2> QED
    BY <1>9, <1>10, <1>13, <2>2, <2>3
<1> QED
  BY <1>3, <1>10, <1>11, <1>13 DEF Faded

LEMMA ArgumentsFade ==
  ASSUME NEW m \in Memory, NEW arg \in Args, PointsInto(m, arg), NEW start, NEW end, NEW h,
         FreeRun(h, m, arg, start, end)
  PROVE  start \in Tried(m) /\ Faded(start, end, arg, Len(arg.arguments))
<1> DEFINE n == Len(arg.arguments)
           good == {k \in 0..n : h[k] \in Tried(m) /\ Faded(start, h[k], arg, k)}
<1>1. PICK args \in Seq(Headers) : args = arg.arguments
  BY DEF Args
<1>2. n \in Nat /\ DOMAIN arg.arguments = 1..n
  BY <1>1, LenProperties
<1>3. /\ h \in [0..n -> Tried(m)] /\ h[0] = start /\ h[n] = end
      /\ \A k \in 1..n : /\ h[k - 1] \in Tried(m)
                         /\ h[k] = free_argument(h[k - 1], arg.command, arg.arguments[k])
  BY DEF FreeRun
<1> HIDE DEF n
<1>4. start \in Tried(m)
  <2>1. 0 \in 0..n
    BY <1>2
  <2> QED
    BY <1>3, <2>1
<1>5. 0 \in good
  <2>1. Fades(start, start, BlockOf(arg.command))
    BY <1>4 DEF Fades
  <2>2. \A x : ~Longer(start, arg, 0, x)
    BY DEF Longer
  <2>3. Faded(start, start, arg, 0)
    BY <2>1, <2>2 DEF Faded
  <2>4. 0 \in 0..n
    BY <1>2
  <2> QED
    BY <1>3, <1>4, <2>3, <2>4
<1>6. ASSUME NEW k \in 1..n, k - 1 \in good PROVE k \in good
  <2>1. PICK j \in Nat : j = k - 1
    BY <1>2
  <2>2. k = j + 1 /\ k \in 0..n /\ j + 1 \in DOMAIN arg.arguments
    BY <1>2, <2>1
  <2>3. PICK o : o = h[j]
    OBVIOUS
  <2>4. o \in Tried(m) /\ Faded(start, o, arg, j)
    BY <1>6, <2>1, <2>3
  <2>5. h[k] = free_argument(o, arg.command, arg.arguments[j + 1])
    BY <1>3, <2>1, <2>2, <2>3
  <2>6. Faded(start, free_argument(o, arg.command, arg.arguments[j + 1]), arg, j + 1)
    BY <1>4, <2>2, <2>4, NextFades
  <2>7. h[k] \in Tried(m)
    BY <1>3, <2>2
  <2> QED
    BY <2>2, <2>5, <2>6, <2>7
<1>7. n \in 0..n /\ n \in good
  <2>1. n \in 0..n
    BY <1>2
  <2> HIDE DEF good
  <2> QED
    BY <1>2, <1>5, <1>6, <2>1, UpTo
<1> QED
  BY <1>3, <1>4, <1>7 DEF n

\* Giving a command back clears its name as far as that or an argument is long.
LEMMA CommandFades ==
  ASSUME NEW m \in Memory, NEW arg \in Args, PointsInto(m, arg), NEW o \in Spent(m),
         ~freeCommandArgument(o, arg).fault
  PROVE  LET r == freeCommandArgument(o, arg)
             c == BlockOf(arg.command)
         IN  /\ ~o.fault /\ Fades(o, r, c)
             /\ NameApart(arg) =>
                  \A x \in Nat : r.text[c].cleared > x
                                   <=> \/ o.text[c].cleared > x \/ strlen(o, arg.command) > x
                                       \/ Longer(o, arg, Len(arg.arguments), x)
<1>1. PICK n : n = NameFreed(o, arg)
  OBVIOUS
<1>2. PICK r : r = freeCommandArgument(o, arg)
  OBVIOUS
<1>3. PICK h : FreeRun(h, m, arg, n, r)
  BY <1>1, <1>2, FreedCommand
<1>4. PICK c : c = BlockOf(arg.command)
  OBVIOUS
<1>5. PICK k : k = Len(arg.arguments)
  OBVIOUS
<1>6. Faded(n, r, arg, k)
  BY <1>3, <1>5, ArgumentsFade
<1>7. /\ ~n.fault /\ Fades(n, r, c)
      /\ NameApart(arg) =>
           \A x \in Nat : r.text[c].cleared > x <=> n.text[c].cleared > x \/ Longer(n, arg, k, x)
  BY <1>2, <1>4, <1>6 DEF Faded
<1>8. o \in Memory /\ Later(m, o) /\ DOMAIN o.text = DOMAIN m.text
  <2>1. o \in Memory /\ Quiet(m, o)
    BY DEF Spent
  <2>2. Later(m, o)
    BY <2>1, MemoryFacts DEF Quiet, Later
  <2> QED
    BY <2>1, <2>2 DEF Quiet
<1>9. PointsInto(o, arg)
  BY <1>8, PointsLater
<1>10. /\ ~o.fault /\ Fades(o, n, c)
       /\ \A x \in Nat : n.text[c].cleared > x
                           <=> o.text[c].cleared > x \/ strlen(o, arg.command) > x
  BY <1>1, <1>4, <1>7, <1>8, <1>9, NameFades
<1>11. Fades(o, r, c)
  BY <1>7, <1>10, FadesTwice
<1>12. ASSUME NameApart(arg), NEW x \in Nat
       PROVE  Longer(n, arg, k, x) <=> Longer(o, arg, k, x)
  <2>1. PICK args \in Seq(Headers) : args = arg.arguments
    BY DEF Args
  <2>2. DOMAIN arg.arguments = 1..k
    BY <1>5, <2>1, LenProperties
  <2>3. ASSUME NEW j \in 1..k PROVE strlen(n, arg.arguments[j]) = strlen(o, arg.arguments[j])
    <3>1. PICK p : p = arg.arguments[j]
      OBVIOUS
    <3>2. BlockOf(p) \in DOMAIN o.text /\ BlockOf(p) # c
      BY <1>4, <1>9, <1>12, <2>2, <3>1 DEF NameApart, PointsInto
    <3>3. strlen(n, p) = strlen(o, p)
      BY <1>10, <3>2, SameLength
    <3> QED
      BY <3>1, <3>3
  <2> QED
    BY <2>3 DEF Longer
<1> QED
  BY <1>2, <1>4, <1>5, <1>7, <1>10, <1>11, <1>12

\* Giving a line back leaves the buffers that hold no command's name.
LEMMA LineFades ==
  ASSUME NEW m \in Memory, NEW args \in Seq(Args),
         \A i \in DOMAIN args : PointsInto(m, args[i]),
         NEW h, NEW end, FreeLineRun(h, m, args, end), ~end.fault
  PROVE  \A d \in DOMAIN m.text \ Names(args) : d \in DOMAIN end.text /\ end.text[d] = m.text[d]
<1> DEFINE n == Len(args)
           Same(o) == \A d \in DOMAIN m.text \ Names(args) :
                        d \in DOMAIN o.text /\ o.text[d] = m.text[d]
           good == {k \in 0..n : ~h[k].fault => Same(h[k])}
<1>1. n \in Nat /\ DOMAIN args = 1..n
  BY LenProperties
<1>2. /\ h[0] = m /\ h[n] = end
      /\ \A k \in 1..n : h[k - 1] \in Spent(m) /\ h[k] = freeCommandArgument(h[k - 1], args[k])
  BY DEF FreeLineRun
<1> HIDE DEF n
<1>3. 0 \in good
  BY <1>1, <1>2
<1>4. ASSUME NEW k \in 1..n, k - 1 \in good PROVE k \in good
  <2>1. PICK o : o = h[k - 1]
    OBVIOUS
  <2>2. PICK arg : arg = args[k]
    OBVIOUS
  <2>3. o \in Spent(m) /\ h[k] = freeCommandArgument(o, arg)
    BY <1>2, <2>1, <2>2
  <2>4. arg \in Args /\ PointsInto(m, arg) /\ BlockOf(arg.command) \in Names(args)
    <3>1. k \in DOMAIN args
      BY <1>1
    <3> QED
      BY <2>2, <3>1, ElementOfSeq DEF Names
  <2>5. ~o.fault => Same(o)
    BY <1>4, <2>1
  <2>6. PICK r : r = freeCommandArgument(o, arg)
    OBVIOUS
  <2>7. ASSUME ~r.fault PROVE Same(r)
    <3>1. PICK c : c = BlockOf(arg.command)
      OBVIOUS
    <3>2. ~o.fault /\ Fades(o, r, c)
      BY <2>3, <2>4, <2>6, <2>7, <3>1, CommandFades
    <3>3. Same(o)
      BY <2>5, <3>2
    <3> QED
      BY <2>4, <3>1, <3>2, <3>3 DEF Fades
  <2>8. k \in 0..n
    BY <1>1
  <2> HIDE DEF Same
  <2> QED
    BY <2>3, <2>6, <2>7, <2>8
<1>5. n \in 0..n /\ n \in good
  <2>1. n \in 0..n
    BY <1>1
  <2> HIDE DEF good
  <2> QED
    BY <1>1, <1>3, <1>4, <2>1, UpTo
<1> QED
  BY <1>2, <1>5

\* A line that sets no variable by its first word clears none but the names.
LEMMA FreedApart ==
  ASSUME NEW m \in Memory, NEW args \in Seq(Args), args # <<>>,
         \A i \in DOMAIN args : PointsInto(m, args[i]),
         ~FoldLeft(freeCommandArgument, m, args).fault,
         NEW h, Kept(m, h, Names(args), Wiped(m))
  PROVE  LET r == FoldLeft(freeCommandArgument, m, args) IN Kept(r, h, {}, Wiped(r))
<1>1. PICK r : r = FoldLeft(freeCommandArgument, m, args)
  OBVIOUS
<1>2. r \in Tried(m) /\ \E g : FreeLineRun(g, m, args, r)
  BY <1>1, FreedLine
<1>3. PICK N, W, S, V : N = Names(args) /\ W = Wiped(m) /\ S = {} /\ V = Wiped(r)
  OBVIOUS
<1>4. \A d \in DOMAIN m.text \ N : d \in DOMAIN r.text /\ r.text[d] = m.text[d]
  BY <1>1, <1>2, <1>3, LineFades
<1>5. /\ r.environ_vars = m.environ_vars /\ DOMAIN r.text = DOMAIN m.text
      /\ Newest(r.heap) = Newest(m.heap)
  BY <1>2 DEF Tried, Quiet
<1>6. Kept(m, h, N, W)
  BY <1>3
<1>7. DOMAIN r.text \subseteq Numbers(r.heap)
  BY <1>5 DEF Kept, Numbers
<1>8. \A b \in DOMAIN m.text \ N : /\ b \in DOMAIN r.text \ S /\ r.text[b].word = m.text[b].word
                                   /\ b \in V <=> b \in W
  BY <1>3, <1>4 DEF Wiped
<1>9. Kept(r, h, S, V)
  BY <1>5, <1>6, <1>7, <1>8, KeptThrough
<1> QED
  BY <1>1, <1>3, <1>9

\* How long the words of an executed command are, its '=' cut.
LEMMA SpokenLengths ==
  ASSUME NEW m, NEW arg, NEW words, Spoken(m, arg, words, Len(words) - 1), NEW j \in Nat,
         j \in 1..(Len(words) - 1)
  PROVE  strlen(m, arg.arguments[j]) =
           IF words[j + 1].key = NoKey THEN words[j + 1].len ELSE words[j + 1].at
<1>1. PICK b : b = BlockOf(arg.arguments[j])
  OBVIOUS
<1>2. PICK w : w = words[j + 1]
  OBVIOUS
<1>3. PICK n : n = Len(words) - 1
  OBVIOUS
<1>4. Spoken(m, arg, words, n)
  BY <1>3
<1>5. j \in 1..n /\ n \in Int /\ j <= n
  BY <1>3
<1>6. /\ m.text[b].word = w /\ m.text[b].cleared = 0
      /\ m.text[b].cut => w.key # NoKey
      /\ w.key # NoKey => m.text[b].cut
  BY <1>1, <1>2, <1>3, <1>4, <1>5 DEF Spoken
<1> QED
  BY <1>1, <1>2, <1>6 DEF strlen

\* A command that begins with an assignment: what is cleared of the value is what the history
\* says is lost.
LEMMA FreedByName ==
  ASSUME NEW m \in Memory, NEW arg \in Args, PointsInto(m, arg),
         NEW command \in Commands, command.kind = "assign",
         Spoken(m, arg, command.words, Len(command.words) - 1),
         m.text[BlockOf(arg.command)].cut,
         ~freeCommandArgument(m, arg).fault,
         NEW h, Kept(m, h, {}, Lost(m, arg, command))
  PROVE  LET r == freeCommandArgument(m, arg) IN Kept(r, h, {}, Wiped(r))
<1>1. PICK r : r = freeCommandArgument(m, arg)
  OBVIOUS
<1>2. PICK c : c = BlockOf(arg.command)
  OBVIOUS
<1>3. PICK words : words = command.words
  OBVIOUS
<1>4. words \in Seq(Words) /\ words # <<>>
  BY <1>3 DEF Commands
<1>5. /\ Len(words) \in Nat \ {0} /\ words[1] \in AnyWord
      /\ \A i \in 1..Len(words) : words[i] \in AnyWord
  BY <1>4, LenProperties, EmptySeq, ElementOfSeq, AnyWords
<1>6. m \in Spent(m) /\ r \in Tried(m)
  BY <1>1, SpentFacts, FreedCommand
<1>7. /\ r.environ_vars = m.environ_vars /\ DOMAIN r.text = DOMAIN m.text
      /\ Newest(r.heap) = Newest(m.heap)
  BY <1>6 DEF Tried, Quiet
<1>8. PICK n \in Nat : n = Len(words) - 1
  BY <1>5
<1>9. Spoken(m, arg, words, n)
  BY <1>3, <1>8
<1>10. /\ c \in DOMAIN m.text /\ m.text[c].word = words[1] /\ m.text[c].cleared = 0
       /\ m.text[c].cut /\ Len(arg.arguments) = n
       /\ \A j \in 1..n : BlockOf(arg.arguments[j]) # c
  BY <1>2, <1>8, <1>9 DEF Spoken
<1>11. NameApart(arg)
  <2>1. PICK args \in Seq(Headers) : args = arg.arguments
    BY DEF Args
  <2>2. DOMAIN arg.arguments = 1..n
    BY <1>10, <2>1, LenProperties
  <2> QED
    BY <1>2, <1>10, <2>2 DEF NameApart
<1>12. /\ Fades(m, r, c)
       /\ \A x \in Nat : r.text[c].cleared > x
                           <=> \/ m.text[c].cleared > x \/ strlen(m, arg.command) > x
                               \/ Longer(m, arg, n, x)
  BY <1>1, <1>2, <1>6, <1>10, <1>11, CommandFades
<1>13. PICK at \in Nat : at = words[1].at
  BY <1>5, AnyWords
<1>14. strlen(m, arg.command) = at
  BY <1>2, <1>10, <1>13 DEF strlen
<1>15. Longer(m, arg, n, at + 1) <=> Clears(command)
  <2> DEFINE long(i) == (IF words[i].key = NoKey THEN words[i].len ELSE words[i].at) > at + 1
  <2>1. \A j \in 1..n : strlen(m, arg.arguments[j]) > at + 1 <=> long(j + 1)
    <3>1. ASSUME NEW j \in 1..n
          PROVE  strlen(m, arg.arguments[j]) =
                   IF words[j + 1].key = NoKey THEN words[j + 1].len ELSE words[j + 1].at
      <4>1. j \in Nat /\ j \in 1..(Len(words) - 1) /\ Spoken(m, arg, words, Len(words) - 1)
        BY <1>8, <1>9
      <4> QED
        BY <4>1, SpokenLengths
    <3> QED
      BY <3>1
  <2>2. Clears(command) <=> \E i \in 2..Len(words) : long(i)
    BY <1>3, <1>13 DEF Clears
  <2>3. \A j \in 1..n : j + 1 \in 2..Len(words)
    BY <1>8, <1>5
  <2>4. \A i \in 2..Len(words) : i - 1 \in 1..n /\ (i - 1) + 1 = i
    BY <1>8, <1>5
  <2>5. Longer(m, arg, n, at + 1) <=> \E j \in 1..n : long(j + 1)
    BY <2>1 DEF Longer
  <2> HIDE DEF long
  <2>6. ASSUME NEW i \in 2..Len(words), long(i) PROVE \E j \in 1..n : long(j + 1)
    <3>1. PICK j \in 1..n : j + 1 = i
      BY <2>4
    <3> QED
      BY <2>6, <3>1
  <2>7. ASSUME NEW j \in 1..n, long(j + 1) PROVE \E i \in 2..Len(words) : long(i)
    BY <2>3, <2>7
  <2> QED
    BY <2>2, <2>5, <2>6, <2>7
<1>16. c \in Wiped(r) <=> Clears(command)
  <2>1. r.text[c].word = words[1] /\ c \in DOMAIN r.text
    BY <1>7, <1>10, <1>12 DEF Fades
  <2>2. at + 1 \in Nat /\ ~(0 > at + 1) /\ ~(at > at + 1)
    OBVIOUS
  <2>3. r.text[c].cleared > at + 1 <=> Longer(m, arg, n, at + 1)
    BY <1>10, <1>12, <1>14, <2>2
  <2> QED
    BY <1>13, <1>15, <2>1, <2>3 DEF Wiped
<1>17. PICK S, L, V : S = {} /\ L = Lost(m, arg, command) /\ V = Wiped(r)
  OBVIOUS
<1>18. c \in L <=> Clears(command)
  <2>1. c \notin Wiped(m)
    BY <1>10, <1>13 DEF Wiped
  <2> QED
    BY <1>2, <1>17, <2>1 DEF Lost
<1>19. \A b \in DOMAIN m.text \ S : /\ b \in DOMAIN r.text \ S
                                    /\ r.text[b].word = m.text[b].word
                                    /\ b \in V <=> b \in L
  <2> SUFFICES ASSUME NEW b \in DOMAIN m.text
               PROVE  b \in DOMAIN r.text /\ r.text[b].word = m.text[b].word
                      /\ (b \in V <=> b \in L)
    BY <1>17
  <2>1. b \in DOMAIN r.text /\ r.text[b].word = m.text[b].word
    BY <1>12 DEF Fades
  <2>2. CASE b = c
    BY <1>16, <1>17, <1>18, <2>1, <2>2
  <2>3. CASE b # c
    <3>1. r.text[b] = m.text[b]
      BY <1>12, <2>3 DEF Fades
    <3>2. b \in V <=> b \in Wiped(m)
      BY <1>17, <2>1, <3>1 DEF Wiped
    <3>3. b \in L <=> b \in Wiped(m)
      BY <1>2, <1>17, <2>3 DEF Lost
    <3> QED
      BY <2>1, <3>2, <3>3
  <2> QED
    BY <2>2, <2>3
<1>20. Kept(m, h, S, L)
  BY <1>17
<1>21. DOMAIN r.text \subseteq Numbers(r.heap)
  BY <1>7 DEF Kept, Numbers
<1>22. Kept(r, h, S, V)
  BY <1>7, <1>19, <1>20, <1>21, KeptThrough
<1> QED
  BY <1>1, <1>17, <1>22

-----------------------------------------------------------------------------
(* Sessions.                                                               *)

\* A line of one command that begins with an assignment sets variables by its first word.
SetsByName == Len(line) = 1 /\ line[1].kind = "assign"

\* Between two lines every value is in its buffer.  While a line is there, no value is in the
\* buffer of a name, but that of a first word that assigns, whose value giving the line back
\* clears if an argument is longer than its key.
VariableInv ==
  /\ History \in Histories
  /\ Len(mem.environ_vars) <= ENVIRON_DATA_SIZE
  /\ stage = "prompt" => Kept(mem, History, {}, Wiped(mem))
  /\ stage = "parsed" =>
       /\ Kept(mem, History, Names(c_args), Wiped(mem))
       /\ Len(line) = 1 => Spoken(mem, c_args[1], line[1].words, 0)
  /\ stage = "executed" /\ ~SetsByName => Kept(mem, History, Names(c_args), Wiped(mem))
  /\ stage = "executed" /\ SetsByName =>
       /\ Kept(mem, History, {}, Lost(mem, c_args[1], line[1]))
       /\ Spoken(mem, c_args[1], line[1].words, Len(line[1].words) - 1)
       /\ mem.text[BlockOf(c_args[1].command)].cut

LEMMA VariableInit == Init => VariableInv
<1> SUFFICES ASSUME Init PROVE VariableInv
  OBVIOUS
<1>1. PICK m \in Memory :
        /\ mem = assign(m, Header(2)) /\ Newest(m.heap) = 2 /\ NextOf(m.heap) = NULL
        /\ m.environ_vars = <<>> /\ DOMAIN m.text = {2}
        /\ m.text[2].word = envs /\ m.text[2].cleared = 0
  BY Started
<1>2. /\ given = [k \in {envs.key} |-> envs.value] /\ wiped = {} /\ stage = "prompt"
  BY DEF Init
<1>3. PICK h : h = [given |-> <<>>, wiped |-> {}]
  OBVIOUS
<1>4. History.given = [k \in {envs.key} |-> envs.value] /\ History.wiped = {}
  BY <1>2 DEF History
<1>5. h.wiped = {} /\ DOMAIN h.given = {}
  <2>1. DOMAIN <<>> = {}
    BY EmptySeq
  <2> QED
    BY <1>3, <2>1
<1>6. Notes(h, History, envs)
  BY <1>4, <1>5 DEF Notes
<1>7. PICK S : S = {}
  OBVIOUS
<1>8. Wiped(m) = S
  <2>1. ~(0 > envs.at + 1)
    BY DEF envs
  <2> QED
    BY <1>1, <1>7, <2>1 DEF Wiped
<1>9. Kept(m, h, S, S)
  <2>1. Len(m.environ_vars) <= ENVIRON_DATA_SIZE
    BY <1>1, EmptySeq, EnvironAssumption
  <2>2. DOMAIN m.text \subseteq Numbers(m.heap)
    BY <1>1 DEF Numbers
  <2> QED
    BY <1>5, <2>1, <2>2 DEF Kept
<1>10. CutAt(m, mem, 2) /\ Kept(mem, History, S, S)
  <2>1. 2 \in Numbers(m.heap) /\ 2 \in DOMAIN m.text /\ m.text[2].word.len <= 16
    BY <1>1 DEF Numbers, envs
  <2>2. envs.key \in History.wiped <=> 2 \in S
    BY <1>4, <1>7
  <2>3. DOMAIN h.given \subseteq Keys
    BY <1>5
  <2>4. /\ 2 \notin S
        /\ IF m.text[2].word.key = NoKey THEN History = h
           ELSE /\ Notes(h, History, m.text[2].word)
                /\ m.text[2].word.key \in History.wiped <=> 2 \in S
                /\ DOMAIN h.given \subseteq Keys
    <3>1. envs.key # NoKey
      BY DEF envs, NoKey
    <3> QED
      BY <1>1, <1>6, <1>7, <2>2, <2>3, <3>1
  <2>5. PICK n : n = History
    OBVIOUS
  <2> QED
    BY <1>1, <1>9, <2>1, <2>4, <2>5, AssignKept
<1>11. Wiped(mem) = S
  BY <1>8, <1>10, CutWiped
<1>12. History \in Histories
  <2>1. given \in [{envs.key} -> AnyValues] /\ {envs.key} \in SUBSET Keys
    BY <1>2 DEF AnyValues, Keys
  <2>2. given \in Givens /\ wiped \in SUBSET Keys
    BY <1>2, <2>1 DEF Givens
  <2> QED
    BY <2>2 DEF History, Histories
<1>13. Len(mem.environ_vars) <= ENVIRON_DATA_SIZE
  BY <1>10 DEF Kept
<1>14. Kept(mem, History, {}, Wiped(mem))
  BY <1>7, <1>10, <1>11
<1> QED
  BY <1>2, <1>12, <1>13, <1>14 DEF VariableInv

LEMMA VariableParse == VariableInv /\ MemoryInv /\ ParseLine => VariableInv'
<1> SUFFICES ASSUME VariableInv, MemoryInv, ParseLine PROVE VariableInv'
  OBVIOUS
<1> DEFINE start == [mem |-> mem, args |-> <<>>]
<1>1. PICK l \in Lines : /\ mem' = FoldLeft(ParseNext, start, l).mem
                         /\ c_args' = FoldLeft(ParseNext, start, l).args
                         /\ line' = l
  BY DEF ParseLine, ParseNext, FoldLeft, MapThenFoldSet
<1>2. stage = "prompt" /\ stage' = "parsed" /\ given' = given /\ wiped' = wiped
  BY DEF ParseLine
<1>3. mem \in Memory /\ NextOf(mem.heap) = NULL
  BY <1>2 DEF MemoryInv
<1>4. Kept(mem, History, {}, Wiped(mem)) /\ History \in Histories
  BY <1>2 DEF VariableInv
<1>5. l \in Seq(Commands)
  BY LineFacts
<1>6. PICK a : a = FoldLeft(ParseNext, start, l)
  OBVIOUS
<1>7. LinedUp(mem, l, Len(l), a) /\ \E h : LineRun(h, mem, l, a)
  BY <1>3, <1>5, <1>6, ParsedLine
<1>8. LineTexts(mem, l, Len(l), a)
  <2>1. DOMAIN mem.text \subseteq Numbers(mem.heap)
    BY <1>4 DEF Kept
  <2> QED
    BY <1>3, <1>5, <1>7, <2>1, ParsedTexts
<1>9. PICK h : h = History
  OBVIOUS
<1>10. /\ Kept(a.mem, h, Names(a.args), Wiped(a.mem))
       /\ Len(l) = 1 => Spoken(a.mem, a.args[1], l[1].words, 0)
  BY <1>3, <1>4, <1>5, <1>7, <1>8, <1>9, ParsedKept
<1>11. mem' = a.mem /\ c_args' = a.args /\ line' = l /\ History' = h
  BY <1>1, <1>2, <1>6, <1>9 DEF History
<1>12. /\ Kept(mem', History', Names(c_args'), Wiped(mem'))
       /\ Len(line') = 1 => Spoken(mem', c_args'[1], line'[1].words, 0)
  BY <1>10, <1>11
<1>13. Len(mem'.environ_vars) <= ENVIRON_DATA_SIZE
  BY <1>12 DEF Kept
<1>14. History' \in Histories
  BY <1>4, <1>9, <1>11
<1>15. Names(c_args)' = Names(c_args') /\ Wiped(mem)' = Wiped(mem')
  BY DEF Names, Wiped
<1> QED
  BY <1>2, <1>12, <1>13, <1>14 DEF VariableInv

LEMMA VariableExecute == VariableInv /\ MemoryInv /\ ExecuteCommand => VariableInv'
<1> SUFFICES ASSUME VariableInv, MemoryInv, ExecuteCommand PROVE VariableInv'
  OBVIOUS
<1>1. stage = "parsed" /\ stage' = "executed" /\ UNCHANGED <<c_args, line>>
  BY DEF ExecuteCommand
<1>2. /\ mem \in Memory /\ c_args \in Seq(Args)
      /\ \A i \in DOMAIN c_args : PointsInto(mem, c_args[i])
      /\ line \in Lines /\ Len(c_args) = Len(line)
      /\ LinedUp(mem, line, Len(line), [mem |-> mem, args |-> c_args])
  BY <1>1 DEF MemoryInv
<1>3. /\ Kept(mem, History, Names(c_args), Wiped(mem)) /\ History \in Histories
      /\ Len(line) = 1 => Spoken(mem, c_args[1], line[1].words, 0)
      /\ Len(mem.environ_vars) <= ENVIRON_DATA_SIZE
  BY <1>1 DEF VariableInv
<1>4. CASE Len(line) # 1
  <2>1. UNCHANGED <<mem, given, wiped>>
    BY <1>4 DEF ExecuteCommand
  <2>2. ~SetsByName'
    BY <1>1, <1>4 DEF SetsByName
  <2>3. History' = History /\ mem' = mem /\ c_args' = c_args
    BY <1>1, <2>1 DEF History
  <2>4. Kept(mem', History', Names(c_args'), Wiped(mem'))
    BY <1>3, <2>3
  <2> QED
    BY <1>1, <1>3, <2>2, <2>3, <2>4 DEF VariableInv
<1>5. CASE Len(line) = 1
  <2>1. PICK arg, command : arg = c_args[1] /\ command = line[1]
    OBVIOUS
  <2>2. PICK r : r = execute(mem, command, arg)
    OBVIOUS
  <2>3. /\ mem' = r /\ given' = Remembered(command).given /\ wiped' = Remembered(command).wiped
    BY <1>5, <2>1, <2>2 DEF ExecuteCommand
  <2>4. DOMAIN c_args = {1}
    <3>1. DOMAIN c_args = 1..1
      BY <1>2, <1>5, LenProperties
    <3> QED
      BY <3>1
  <2>5. arg \in Args /\ PointsInto(mem, arg) /\ command \in Commands /\ Short(mem, arg)
    <3>1. arg \in Args /\ PointsInto(mem, arg)
      BY <1>2, <2>1, <2>4, ElementOfSeq
    <3>2. command \in Commands
      BY <1>2, <1>5, <2>1, LineFacts
    <3>3. Short(mem, arg)
      BY <1>2, <1>5, <2>1 DEF LinedUp
    <3> QED
      BY <3>1, <3>2, <3>3
  <2>6. PICK S : S = {BlockOf(arg.command)}
    OBVIOUS
  <2>7. Names(c_args) = S
    BY <2>1, <2>4, <2>6 DEF Names
  <2>8. Kept(mem, History, {BlockOf(arg.command)}, Wiped(mem)) /\ Spoken(mem, arg, command.words, 0)
    BY <1>3, <1>5, <2>1, <2>6, <2>7
  <2>9. PICK h : h = Remembered(command)
    OBVIOUS
  <2>10. IF command.kind = "assign"
         THEN /\ Kept(r, h, {}, Lost(r, arg, command))
              /\ Spoken(r, arg, command.words, Len(command.words) - 1)
              /\ r.text[BlockOf(arg.command)].cut
         ELSE Kept(r, h, {BlockOf(arg.command)}, Wiped(r))
    BY <1>2, <1>3, <2>2, <2>5, <2>8, <2>9, ExecuteKept
  <2>11. h \in Histories
    BY <1>3, <2>5, <2>9, Recalling
  <2>12. History' = h
    <3>1. h = [given |-> h.given, wiped |-> h.wiped]
      BY <2>11 DEF Histories
    <3> QED
      BY <2>3, <2>9, <3>1 DEF History
  <2>13. c_args' = c_args /\ line' = line /\ mem' = r
    BY <1>1, <2>3
  <2>14. Len(mem'.environ_vars) <= ENVIRON_DATA_SIZE
    BY <2>10, <2>13 DEF Kept
  <2>15. SetsByName' <=> command.kind = "assign"
    BY <1>5, <2>1, <2>13 DEF SetsByName
  <2>16. CASE command.kind = "assign"
    <3>1. /\ Kept(mem', History', {}, Lost(mem', c_args'[1], line'[1]))
          /\ Spoken(mem', c_args'[1], line'[1].words, Len(line'[1].words) - 1)
          /\ mem'.text[BlockOf(c_args'[1].command)].cut
      BY <2>1, <2>10, <2>12, <2>13, <2>16
    <3> QED
      BY <1>1, <2>11, <2>12, <2>14, <2>15, <2>16, <3>1 DEF VariableInv
  <2>17. CASE command.kind # "assign"
    <3>1. Kept(mem', History', Names(c_args'), Wiped(mem'))
      BY <2>6, <2>7, <2>10, <2>12, <2>13, <2>17
    <3> QED
      BY <1>1, <2>11, <2>12, <2>14, <2>15, <2>17, <3>1 DEF VariableInv
  <2> QED
    BY <2>16, <2>17
<1> QED
  BY <1>4, <1>5

LEMMA VariableFree == VariableInv /\ MemoryInv /\ FreeCommandArguments => VariableInv'
<1> SUFFICES ASSUME VariableInv, MemoryInv, FreeCommandArguments PROVE VariableInv'
  OBVIOUS
<1>1. PICK r : r = FoldLeft(freeCommandArgument, mem, c_args)
  OBVIOUS
<1>2. /\ stage = "executed" /\ mem' = r /\ stage' = IF r.fault THEN "dead" ELSE "prompt"
      /\ UNCHANGED <<c_args, line, given, wiped>>
  BY <1>1 DEF FreeCommandArguments
<1>3. /\ mem \in Memory /\ c_args \in Seq(Args)
      /\ \A i \in DOMAIN c_args : PointsInto(mem, c_args[i])
      /\ line \in Lines /\ Len(c_args) = Len(line)
  BY <1>2 DEF MemoryInv
<1>4. c_args # <<>>
  <2>1. Len(c_args) # 0
    BY <1>3, LineFacts
  <2> QED
    BY <2>1, EmptySeq
<1>5. r \in Tried(mem)
  BY <1>1, <1>3, <1>4, FreedLine
<1>6. PICK h \in Histories : h = History
  BY DEF VariableInv
<1>7. History' = h
  BY <1>2, <1>6 DEF History
<1>8. Len(mem'.environ_vars) <= ENVIRON_DATA_SIZE
  BY <1>2, <1>5 DEF VariableInv, Tried, Quiet
<1>9. CASE r.fault
  <2>1. stage' = "dead"
    BY <1>2, <1>9
  <2> QED
    BY <1>6, <1>7, <1>8, <2>1 DEF VariableInv
<1>10. CASE ~r.fault
  <2>1. stage' = "prompt"
    BY <1>2, <1>10
  <2>2. CASE ~SetsByName
    <3>1. Kept(mem, h, Names(c_args), Wiped(mem))
      BY <1>2, <1>6, <2>2 DEF VariableInv
    <3>2. ~FoldLeft(freeCommandArgument, mem, c_args).fault
      BY <1>1, <1>10
    <3>3. Kept(r, h, {}, Wiped(r))
      BY <1>1, <1>3, <1>4, <3>1, <3>2, FreedApart
    <3>4. Kept(mem', History', {}, Wiped(mem'))
      BY <1>2, <1>7, <3>3
    <3> QED
      BY <1>6, <1>7, <1>8, <2>1, <3>4 DEF VariableInv
  <2>3. CASE SetsByName
    <3>1. PICK arg, command : arg = c_args[1] /\ command = line[1]
      OBVIOUS
    <3>2. /\ Kept(mem, h, {}, Lost(mem, arg, command))
          /\ Spoken(mem, arg, command.words, Len(command.words) - 1)
          /\ mem.text[BlockOf(arg.command)].cut
      BY <1>2, <1>6, <2>3, <3>1 DEF VariableInv
    <3>3. Len(c_args) = 1 /\ command.kind = "assign"
      BY <1>3, <2>3, <3>1 DEF SetsByName
    <3>4. arg \in Args /\ PointsInto(mem, arg) /\ command \in Commands
      <4>1. DOMAIN c_args = 1..1
        BY <1>3, <3>3, LenProperties
      <4>2. arg \in Args /\ PointsInto(mem, arg)
        BY <1>3, <3>1, <4>1, ElementOfSeq
      <4>3. command \in Commands
        BY <1>3, <3>1, <3>3, LineFacts
      <4> QED
        BY <4>2, <4>3
    <3>5. r = freeCommandArgument(mem, arg)
      <4>1. PICK g : FreeLineRun(g, mem, c_args, r)
        BY <1>1, <1>3, <1>4, FreedLine
      <4>2. g[0] = mem /\ g[1] = r /\ g[1] = freeCommandArgument(g[1 - 1], c_args[1])
        <5>1. 1 \in 1..Len(c_args)
          BY <3>3
        <5> QED
          BY <3>3, <4>1, <5>1 DEF FreeLineRun
      <4>3. 1 - 1 = 0
        OBVIOUS
      <4> QED
        BY <3>1, <4>2, <4>3
    <3>6. Kept(r, h, {}, Wiped(r))
      <4>1. ~freeCommandArgument(mem, arg).fault
        BY <1>10, <3>5
      <4> QED
        BY <1>3, <3>2, <3>3, <3>4, <3>5, <4>1, FreedByName
    <3>7. Kept(mem', History', {}, Wiped(mem'))
      BY <1>2, <1>7, <3>6
    <3> QED
      BY <1>6, <1>7, <1>8, <2>1, <3>7 DEF VariableInv
  <2> QED
    BY <2>2, <2>3
<1> QED
  BY <1>9, <1>10

LEMMA VariableNext == VariableInv /\ MemoryInv /\ [Next]_commandVars => VariableInv'
<1> SUFFICES ASSUME VariableInv, MemoryInv, [Next]_commandVars PROVE VariableInv'
  OBVIOUS
<1>1. CASE Exit
  <2>1. stage' = "exited" /\ UNCHANGED <<mem, given, wiped>>
    BY <1>1 DEF Exit
  <2>2. History' = History
    BY <2>1 DEF History
  <2> QED
    BY <2>1, <2>2 DEF VariableInv
<1>2. CASE UNCHANGED commandVars
  <2>1. UNCHANGED <<mem, given, wiped, stage, line, c_args>>
    BY <1>2 DEF commandVars
  <2>2. History' = History /\ (SetsByName' <=> SetsByName)
    BY <2>1 DEF History, SetsByName
  <2> QED
    BY <2>1, <2>2 DEF VariableInv
<1> QED
  BY <1>1, <1>2, VariableParse, VariableExecute, VariableFree DEF Next, Ended

\* Between two lines every variable has the value it was last given, unless the line that set
\* it had an argument that cleared it, or the table was full when its key was new.
THEOREM VariablesKeptAlways == Spec => []VariablesKept
<1>1. VariableInv => VariablesKept
  <2> SUFFICES ASSUME VariableInv, stage = "prompt", NEW key \in DOMAIN given
               PROVE  IF getenv(mem.environ_vars, key) = NULL
                      THEN Len(mem.environ_vars) = ENVIRON_DATA_SIZE
                      ELSE ValueOf(key) = IF key \in wiped THEN "" ELSE given[key]
    BY DEF VariableInv, VariablesKept
  <2>1. PICK S : S = {}
    OBVIOUS
  <2>2. KeyKept(mem, History, S, Wiped(mem), key)
    BY <2>1 DEF VariableInv, Kept, History
  <2>3. CASE getenv(mem.environ_vars, key) = NULL
    BY <2>2, <2>3 DEF KeyKept
  <2>4. CASE getenv(mem.environ_vars, key) # NULL
    <3>1. PICK b \in DOMAIN mem.text :
            /\ getenv(mem.environ_vars, key) = Inside(Header(b), mem.text[b].word.at + 1)
            /\ mem.text[b].word.value = given[key]
            /\ key \in wiped <=> b \in Wiped(mem)
      BY <2>2, <2>4 DEF KeyKept, History
    <3>2. BlockOf(Header(b)) = b
      BY Apart
    <3>3. PICK p, n : p = Header(b) /\ n = mem.text[b].word.at + 1
      OBVIOUS
    <3>4. Inside(p, n)[2] = p /\ Inside(p, n)[3] = n
      BY DEF Inside
    <3>5. ValueOf(key) = IF mem.text[b].cleared > n THEN "" ELSE mem.text[b].word.value
      BY <3>1, <3>2, <3>3, <3>4 DEF ValueOf
    <3>6. mem.text[b].cleared > n <=> key \in wiped
      BY <3>1, <3>3 DEF Wiped
    <3> QED
      BY <2>4, <3>1, <3>5, <3>6
  <2> QED
    BY <2>3, <2>4
<1>2. Init => VariableInv
  BY VariableInit
<1>3. VariableInv /\ MemoryInv /\ [Next]_commandVars => VariableInv'
  BY VariableNext
<1> QED
  BY <1>1, <1>2, <1>3, MemorySpec, PTL DEF Spec
=============================================================================
