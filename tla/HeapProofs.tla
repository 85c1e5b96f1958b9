----------------------------- MODULE HeapProofs -----------------------------
(***************************************************************************)
(* The heap that malloc and its callers make: the list begins with the     *)
(* newest block, whose next is null or text, so free looks at one block    *)
(* and releases none.                                                      *)
(***************************************************************************)
EXTENDS Heap, FiniteSetsExt, SequenceTheorems, WellFoundedInduction, TLAPS

\* What can lie where a header has its addr or its next: text, or an address.
HalfSets    == SUBSET {"low", "high"}
Scrawled(s) == <<"bytes", s>>
Spelt       == {NULL} \cup {Scrawled(s) : s \in HalfSets}
Unlisted    == Spelt \cup {Payload(b) : b \in Nat}
Address     == Unlisted \cup {Header(b) : b \in Nat}

\* No block is ever unmapped.
Block == [addr : Address, next : Address, mapped : {TRUE}]
Heaps == [ROOT : {NULL} \cup {Header(b) : b \in Nat}, blocks : Seq(Block)]

Newest(h) == Len(h.blocks)
Numbers(h) == 1..Newest(h)
NextOf(h) == h.blocks[Newest(h)].next

\* The list begins with the newest block, whose next leads nowhere.  Nobody has stored the
\* address of a header in it.
HeapOK(h) ==
  /\ h \in Heaps
  /\ h.ROOT = NULL => h.blocks = <<>>
  /\ h.ROOT # NULL =>
       /\ h.ROOT = Header(Newest(h)) /\ Newest(h) # 0
       /\ h.blocks[Newest(h)].addr \in Unlisted
       /\ NextOf(h) \in Spelt

\* Of two heaps: the same list, and the same blocks but for one.
SameBut(h, g, b) ==
  /\ g.ROOT = h.ROOT /\ Newest(g) = Newest(h)
  /\ \A i \in Numbers(h) : i # b => g.blocks[i] = h.blocks[i]

LEMMA Apart ==
  ASSUME NEW b, NEW c, NEW s
  PROVE  /\ Header(b) # NULL /\ Payload(b) # NULL /\ Header(b) # Payload(c)
         /\ Header(b) # Scrawled(s) /\ Payload(b) # Scrawled(s) /\ NULL # Scrawled(s)
         /\ Header(b)[1] = "header" /\ Header(b)[2] = b /\ BlockOf(Header(b)) = b
         /\ Payload(b)[1] = "payload" /\ NULL[1] = "null"
         /\ Scrawled(s)[1] = "bytes" /\ Scrawled(s)[2] = s
<1>1. /\ Header(b)[1] = "header" /\ Header(b)[2] = b
      /\ Payload(b)[1] = "payload" /\ Scrawled(s)[1] = "bytes" /\ NULL[1] = "null"
      /\ Payload(c)[1] = "payload" /\ Scrawled(s)[2] = s
  BY DEF Header, Payload, NULL, Scrawled
<1> QED
  BY <1>1 DEF BlockOf

LEMMA HeapFacts ==
  ASSUME NEW h, HeapOK(h)
  PROVE  /\ h \in Heaps /\ h.blocks \in Seq(Block) /\ Newest(h) \in Nat
         /\ DOMAIN h.blocks = Numbers(h)
         /\ \A b \in Numbers(h) : h.blocks[b] \in Block
         /\ h.ROOT = NULL => h.blocks = <<>> /\ Newest(h) = 0
         /\ h.ROOT # NULL => /\ h.ROOT = Header(Newest(h)) /\ Newest(h) \in Numbers(h)
                             /\ h.blocks[Newest(h)] \in Block
                             /\ h.blocks[Newest(h)].addr \in Unlisted
                             /\ NextOf(h) \in Spelt
<1>1. h \in Heaps /\ h.blocks \in Seq(Block)
  BY DEF HeapOK, Heaps
<1>2. Newest(h) \in Nat /\ DOMAIN h.blocks = Numbers(h)
  BY <1>1, LenProperties DEF Newest, Numbers
<1>3. \A b \in Numbers(h) : h.blocks[b] \in Block
  BY <1>1, ElementOfSeq DEF Newest, Numbers
<1>4. h.ROOT = NULL => h.blocks = <<>> /\ Newest(h) = 0
  BY DEF HeapOK, Newest
<1>5. ASSUME h.ROOT # NULL PROVE h.ROOT = Header(Newest(h)) /\ Newest(h) \in Numbers(h)
  <2>1. h.ROOT = Header(Newest(h)) /\ Newest(h) # 0
    BY <1>5 DEF HeapOK
  <2> QED
    BY <1>2, <2>1 DEF Numbers
<1> QED
  BY <1>1, <1>2, <1>3, <1>4, <1>5 DEF HeapOK

\* malloc hands the next of the last block on to the new one, and changes no other.
LEMMA Mallocked ==
  ASSUME NEW h, HeapOK(h)
  PROVE  LET new == malloc(h)
         IN  /\ HeapOK(new.heap) /\ new.heap.ROOT # NULL
             /\ Newest(new.heap) = Newest(h) + 1
             /\ \A i \in Numbers(h) : new.heap.blocks[i] = h.blocks[i]
             /\ h.ROOT = NULL => new.ptr = Payload(1) /\ NextOf(new.heap) = NULL
             /\ h.ROOT # NULL => /\ new.ptr = Header(Newest(new.heap))
                                 /\ NextOf(new.heap) = NextOf(h)
<1> DEFINE n     == Newest(h) + 1
           block == [addr |-> Payload(n), next |-> NULL, mapped |-> TRUE]
           more  == Append(h.blocks, block)
<1>1. h \in Heaps /\ h.blocks \in Seq(Block) /\ Newest(h) \in Nat /\ n \in Nat \ {0}
  BY HeapFacts
<1>2. block \in Block /\ block.addr \in Unlisted
  BY <1>1 DEF Block, Address, Unlisted, Spelt
<1>3. block.next = NULL
  OBVIOUS
<1> HIDE DEF block
<1>4. /\ more \in Seq(Block) /\ Len(more) = n /\ DOMAIN more = 1..n
      /\ \A i \in Numbers(h) : more[i] = h.blocks[i]
      /\ more[n] = block
  BY <1>1, <1>2, AppendProperties, LenProperties DEF Newest, Numbers
<1>5. getNewBlock(h) = [h EXCEPT !.blocks = more]
  BY DEF getNewBlock, block, Newest
<1> HIDE DEF more
<1>6. CASE h.ROOT = NULL
  <2>1. Newest(h) = 0 /\ n = 1
    BY <1>6, HeapFacts
  <2>2. malloc(h) = [heap |-> [[h EXCEPT !.blocks = more] EXCEPT !.ROOT = Header(1)],
                     ptr |-> Payload(1)]
    BY <1>5, <1>6, <2>1 DEF malloc, Newest
  <2> DEFINE g == [[h EXCEPT !.blocks = more] EXCEPT !.ROOT = Header(1)]
  <2>3. g \in Heaps /\ g.ROOT = Header(1) /\ g.blocks = more
    BY <1>1, <1>4 DEF Heaps
  <2> HIDE DEF g
  <2>4. Newest(g) = 1 /\ g.blocks[Newest(g)] = block
    BY <1>4, <2>1, <2>3 DEF Newest
  <2>5. NextOf(g) = NULL /\ NULL \in Spelt
    BY <1>3, <2>4 DEF NextOf, Spelt
  <2>6. HeapOK(g) /\ g.ROOT # NULL
    BY <1>2, <2>3, <2>4, <2>5, Apart DEF HeapOK
  <2>7. malloc(h).heap = g /\ malloc(h).ptr = Payload(1)
    BY <2>2 DEF g
  <2>8. \A i \in Numbers(h) : g.blocks[i] = h.blocks[i]
    BY <1>4, <2>3
  <2> QED
    BY <1>6, <2>1, <2>4, <2>5, <2>6, <2>7, <2>8
<1>7. CASE h.ROOT # NULL
  <2>1. /\ h.ROOT = Header(Newest(h)) /\ Newest(h) \in Numbers(h)
        /\ h.blocks[Newest(h)] \in Block /\ NextOf(h) \in Spelt
    BY <1>7, HeapFacts
  <2>2. h.ROOT[2] = Newest(h)
    BY <2>1, Apart
  <2> DEFINE chained == [more EXCEPT ![n] = [@ EXCEPT !.next = NextOf(h)]]
             g == [[h EXCEPT !.blocks = more] EXCEPT !.ROOT = Header(n), !.blocks = chained]
  <2>3. malloc(h) = [heap |-> g, ptr |-> Header(n)]
    <3>1. [h EXCEPT !.blocks = more].blocks = more
      BY <1>1 DEF Heaps
    <3> QED
      BY <1>5, <1>7, <2>2, <3>1 DEF malloc, Newest, NextOf
  <2>4. [block EXCEPT !.next = NextOf(h)] \in Block
        /\ [block EXCEPT !.next = NextOf(h)].next = NextOf(h)
        /\ [block EXCEPT !.next = NextOf(h)].addr \in Unlisted
    <3>1. NextOf(h) \in Address
      BY <2>1 DEF Address, Unlisted
    <3> QED
      BY <1>2, <3>1 DEF Block
  <2>5. /\ chained \in Seq(Block) /\ Len(chained) = n
        /\ chained[n] = [block EXCEPT !.next = NextOf(h)]
        /\ \A i \in Numbers(h) : chained[i] = h.blocks[i]
    <3>1. chained = [more EXCEPT ![n] = [block EXCEPT !.next = NextOf(h)]]
      BY <1>4
    <3>2. n \in 1..Len(more) /\ \A i \in Numbers(h) : i \in 1..Len(more) /\ i # n
      BY <1>1, <1>4 DEF Numbers
    <3> HIDE DEF chained, n
    <3>3. chained \in Seq(Block) /\ Len(chained) = n
          /\ chained[n] = [block EXCEPT !.next = NextOf(h)]
          /\ \A i \in 1..Len(more) : i # n => chained[i] = more[i]
      BY <1>4, <2>4, <3>1, <3>2, ExceptSeq
    <3> QED
      BY <1>4, <3>2, <3>3
  <2> HIDE DEF chained
  <2>6. g \in Heaps /\ g.ROOT = Header(n) /\ g.blocks = chained
    BY <1>1, <2>5 DEF Heaps
  <2> HIDE DEF g
  <2>7. Newest(g) = n /\ NextOf(g) = NextOf(h) /\ g.blocks[Newest(g)].addr \in Unlisted
    BY <2>4, <2>5, <2>6 DEF Newest, NextOf
  <2>8. HeapOK(g) /\ g.ROOT # NULL
    BY <1>1, <2>1, <2>6, <2>7, Apart DEF HeapOK
  <2> QED
    BY <1>7, <2>3, <2>5, <2>6, <2>7, <2>8
<1> QED
  BY <1>6, <1>7

-----------------------------------------------------------------------------
(* What the owner of a block writes over its header.                       *)

LEMMA Texts ==
  /\ \A s \in HalfSets : Bytes(s) \in Spelt /\ (s # {} => Bytes(s) = Scrawled(s))
  /\ Bytes({}) = NULL
  /\ \A v \in Address : Halves(v) \in HalfSets
  /\ \A s : Scrawled(s) # NULL
  /\ Spelt \subseteq Unlisted /\ Unlisted \subseteq Address
<1>1. ASSUME NEW s \in HalfSets PROVE Bytes(s) \in Spelt /\ (s # {} => Bytes(s) = Scrawled(s))
  BY DEF Bytes, Spelt, Scrawled
<1>2. ASSUME NEW v \in Address PROVE Halves(v) \in HalfSets
  <2>1. CASE v = NULL
    BY <2>1 DEF Halves, HalfSets
  <2>2. ASSUME NEW s \in HalfSets, v = Scrawled(s) PROVE Halves(v) \in HalfSets
    <3>1. v[1] = "bytes" /\ v[2] = s /\ v # NULL
      BY <2>2, Apart
    <3> QED
      BY <3>1 DEF Halves
  <2>3. ASSUME NEW b \in Nat, v = Payload(b) \/ v = Header(b) PROVE Halves(v) \in HalfSets
    <3>1. v[1] # "bytes" /\ v # NULL
      BY <2>3, Apart
    <3> QED
      BY <3>1 DEF Halves, HalfSets
  <2> QED
    BY <2>1, <2>2, <2>3 DEF Address, Unlisted, Spelt
<1> QED
  BY <1>1, <1>2, Apart DEF Bytes, Unlisted, Address

Rewrite(h, b, a, x) == [h EXCEPT !.blocks[b].addr = a, !.blocks[b].next = x]

LEMMA Rewritten ==
  ASSUME NEW h, HeapOK(h), h.ROOT # NULL, NEW b \in Numbers(h), NEW a \in Address,
         NEW x \in Address, b = Newest(h) => a \in Unlisted /\ x \in Spelt
  PROVE  LET g == Rewrite(h, b, a, x)
         IN  /\ HeapOK(g) /\ SameBut(h, g, b)
             /\ g.blocks[b].addr = a /\ g.blocks[b].next = x
<1> DEFINE old    == h.blocks[b]
           new    == [[old EXCEPT !.addr = a] EXCEPT !.next = x]
           blocks == [h.blocks EXCEPT ![b] = new]
           g      == [h EXCEPT !.blocks = blocks]
<1>1. /\ h \in Heaps /\ h.blocks \in Seq(Block) /\ b \in 1..Len(h.blocks)
      /\ old \in Block /\ h.ROOT = Header(Newest(h)) /\ Newest(h) \in Numbers(h)
  BY HeapFacts DEF Numbers, Newest
<1>2. Rewrite(h, b, a, x) = g
  BY <1>1 DEF Heaps, Rewrite
<1>3. new \in Block /\ new.addr = a /\ new.next = x
  BY <1>1 DEF Block
<1> HIDE DEF old, new
<1>4. /\ blocks \in Seq(Block) /\ Len(blocks) = Len(h.blocks) /\ blocks[b] = new
      /\ \A i \in 1..Len(h.blocks) : i # b => blocks[i] = h.blocks[i]
  BY <1>1, <1>3, ExceptSeq
<1> HIDE DEF blocks
<1>5. g \in Heaps /\ g.ROOT = h.ROOT /\ g.blocks = blocks
  BY <1>1, <1>4 DEF Heaps
<1> HIDE DEF g
<1>6. SameBut(h, g, b) /\ Newest(g) = Newest(h)
  BY <1>4, <1>5 DEF SameBut, Newest, Numbers
<1>7. g.blocks[Newest(g)].addr \in Unlisted /\ NextOf(g) \in Spelt
  <2>1. CASE b = Newest(h)
    BY <1>3, <1>4, <1>5, <1>6, <2>1 DEF NextOf
  <2>2. CASE b # Newest(h)
    <3>1. g.blocks[Newest(g)] = h.blocks[Newest(h)]
      BY <1>1, <1>6, <2>2 DEF SameBut
    <3> QED
      BY <3>1, HeapFacts DEF NextOf
  <2> QED
    BY <2>1, <2>2
<1>8. HeapOK(g)
  <2>1. Newest(g) # 0
    BY <1>1, <1>6, HeapFacts DEF Numbers
  <2> QED
    BY <1>1, <1>5, <1>6, <1>7, <2>1 DEF HeapOK
<1> QED
  BY <1>2, <1>3, <1>4, <1>5, <1>6, <1>8

\* A string replaces the addr, and the next from its seventeenth character on.
LEMMA WrittenHeap ==
  ASSUME NEW h, HeapOK(h), h.ROOT # NULL, NEW b \in Numbers(h), NEW n \in Nat
  PROVE  LET g == Written(h, Header(b), n)
         IN  /\ HeapOK(g) /\ SameBut(h, g, b)
             /\ n > 0 => g.blocks[b].addr = Scrawled({"low", "high"})
             /\ n <= 16 => g.blocks[b].next = h.blocks[b].next
             /\ n > 16 => g.blocks[b].next # NULL
<1> DEFINE old == h.blocks[b].next
           a == Bytes({"low", "high"})
           s == Halves(old) \cup (IF n <= 20 THEN {"low"} ELSE {"low", "high"})
           x == IF n <= 16 THEN old ELSE Bytes(s)
           g == Rewrite(h, b, a, x)
<1>1. Header(b)[1] = "header" /\ Header(b)[2] = b
  BY Apart
<1>2. CASE n = 0
  BY <1>2 DEF Written, InHeader, SameBut
<1>3. CASE n > 0
  <2>1. Written(h, Header(b), n) = g
    <3>1. h \in Heaps /\ h.blocks \in Seq(Block) /\ h.blocks[b] \in Block
      BY HeapFacts
    <3>2. InHeader(Header(b), n)
      BY <1>1, <1>3 DEF InHeader
    <3> QED
      BY <1>1, <3>1, <3>2 DEF Written, Heaps, Block, Rewrite
  <2>2. old \in Address /\ (b = Newest(h) => old \in Spelt)
    <3>1. h.blocks[b] \in Block
      BY HeapFacts
    <3> QED
      BY <3>1, HeapFacts DEF Block, NextOf
  <2>3. a = Scrawled({"low", "high"}) /\ a \in Spelt
    BY Texts DEF HalfSets
  <2>4. s \in HalfSets /\ s # {}
    <3>1. Halves(old) \in HalfSets
      BY <2>2, Texts
    <3> HIDE DEF old
    <3> QED
      BY <3>1 DEF HalfSets
  <2> HIDE DEF a, s, old
  <2>5. x \in Address /\ (b = Newest(h) => x \in Spelt) /\ (n > 16 => x # NULL)
    <3>1. Bytes(s) \in Spelt /\ Bytes(s) # NULL
      BY <2>4, Texts
    <3> QED
      BY <2>2, <3>1, Texts
  <2>6. n <= 16 => x = old
    OBVIOUS
  <2> HIDE DEF x
  <2>7. /\ HeapOK(g) /\ SameBut(h, g, b)
        /\ g.blocks[b].addr = a /\ g.blocks[b].next = x
    BY <2>3, <2>5, Rewritten, Texts
  <2> HIDE DEF g
  <2> QED
    BY <1>3, <2>1, <2>3, <2>5, <2>6, <2>7 DEF old
<1> QED
  BY <1>2, <1>3

\* Zeros do the same; of the next they leave nothing if there are 24 of them.
LEMMA ZeroedHeap ==
  ASSUME NEW h, HeapOK(h), h.ROOT # NULL, NEW b \in Numbers(h), NEW n \in Nat
  PROVE  LET g == Zeroed(h, Header(b), n)
         IN  /\ HeapOK(g) /\ SameBut(h, g, b)
             /\ n < 20 => g.blocks[b].next = h.blocks[b].next
             /\ n >= 24 => g.blocks[b].next = NULL
<1> DEFINE old == h.blocks[b].next
           a == Bytes(IF n >= 8 THEN {} ELSE {"high"})
           s == Halves(old) \ (IF n < 24 THEN {"low"} ELSE {"low", "high"})
           x == IF n < 20 THEN old ELSE Bytes(s)
           g == Rewrite(h, b, a, x)
<1>1. Header(b)[1] = "header" /\ Header(b)[2] = b
  BY Apart
<1>2. CASE n = 0
  BY <1>2 DEF Zeroed, InHeader, SameBut
<1>3. CASE n > 0
  <2>1. Zeroed(h, Header(b), n) = g
    <3>1. h \in Heaps /\ h.blocks \in Seq(Block) /\ h.blocks[b] \in Block
      BY HeapFacts
    <3>2. InHeader(Header(b), n)
      BY <1>1, <1>3 DEF InHeader
    <3> QED
      BY <1>1, <3>1, <3>2 DEF Zeroed, Heaps, Block, Rewrite
  <2>2. old \in Address /\ (b = Newest(h) => old \in Spelt)
    <3>1. h.blocks[b] \in Block
      BY HeapFacts
    <3> QED
      BY <3>1, HeapFacts DEF Block, NextOf
  <2>3. a \in Spelt
    BY Texts DEF HalfSets
  <2>4. s \in HalfSets /\ (n >= 24 => s = {})
    <3>1. Halves(old) \in HalfSets
      BY <2>2, Texts
    <3> HIDE DEF old
    <3> QED
      BY <3>1 DEF HalfSets
  <2> HIDE DEF a, s, old
  <2>5. x \in Address /\ (b = Newest(h) => x \in Spelt) /\ (n >= 24 => x = NULL)
    <3>1. Bytes(s) \in Spelt /\ (n >= 24 => Bytes(s) = NULL)
      BY <2>4, Texts
    <3> QED
      BY <2>2, <3>1, Texts
  <2>6. n < 20 => x = old
    OBVIOUS
  <2> HIDE DEF x
  <2>7. /\ HeapOK(g) /\ SameBut(h, g, b)
        /\ g.blocks[b].addr = a /\ g.blocks[b].next = x
    BY <2>3, <2>5, Rewritten, Texts
  <2> HIDE DEF g
  <2> QED
    BY <1>3, <2>1, <2>5, <2>6, <2>7 DEF old
<1> QED
  BY <1>2, <1>3

\* A record has pointers where an older block's header has its addr and its next.
LEMMA StoredHeap ==
  ASSUME NEW h, HeapOK(h), h.ROOT # NULL, NEW b \in Numbers(h), b # Newest(h),
         NEW first \in Address, NEW third \in Address
  PROVE  LET g == Stored(h, Header(b), first, third)
         IN  HeapOK(g) /\ SameBut(h, g, b) /\ g.blocks[b].next = third
<1>1. Header(b)[1] = "header" /\ Header(b)[2] = b /\ InHeader(Header(b), 1)
  BY Apart DEF InHeader
<1>2. Stored(h, Header(b), first, third) = Rewrite(h, b, first, third)
  BY <1>1 DEF Stored, Rewrite
<1> QED
  BY <1>2, Rewritten

\* The first block is handed out behind its header.
LEMMA WrittenBehind ==
  ASSUME NEW h, NEW b, NEW n
  PROVE  /\ Written(h, Payload(b), n) = h /\ Zeroed(h, Payload(b), n) = h
         /\ \A first, third : Stored(h, Payload(b), first, third) = h
<1>1. Payload(b)[1] # "header"
  BY Apart
<1> QED
  BY <1>1 DEF Written, Zeroed, Stored, InHeader

-----------------------------------------------------------------------------
(* Finding nothing to release.                                             *)

\* The least of a set of numbers.
LEMMA LeastNumber ==
  ASSUME NEW S \in SUBSET Nat, S # {}
  PROVE  Min(S) \in S /\ \A n \in S : Min(S) <= n
<1>1. PICK n \in S : \A m \in S : <<m, n>> \notin OpToRel(<, Nat)
  BY NatLessThanWellFounded, WFMin
<1>2. \A m \in S : ~(m < n)
  BY <1>1 DEF OpToRel
<1>3. \A m \in S : n <= m
  BY <1>2
<1> QED
  BY <1>3 DEF Min

\* free looks at the newest block and at its next.
Looks(h) == [k \in 0..Newest(h) |->
               IF k = 0 THEN h.ROOT ELSE IF k = 1 THEN NextOf(h) ELSE NULL]

LEMMA SpeltLeadsNowhere ==
  ASSUME NEW h, NEW v \in Spelt
  PROVE  ~Listed(h, v)
<1>1. v[1] # "header"
  BY Apart DEF Spelt
<1> QED
  BY <1>1 DEF Listed

LEMMA WalkLooks ==
  ASSUME NEW h, HeapOK(h), h.ROOT # NULL
  PROVE  Walk(h) = Looks(h)
<1> DEFINE top == Newest(h)
           Walks(w) == w = [k \in 0..top |->
                              IF k = 0 THEN h.ROOT
                              ELSE IF Listed(h, w[k - 1]) THEN h.blocks[w[k - 1][2]].next
                              ELSE NULL]
<1>1. /\ top \in Nat \ {0} /\ h.ROOT = Header(top) /\ NextOf(h) \in Spelt /\ NULL \in Spelt
      /\ h.blocks[top] \in Block
  <2>1. top \in Nat /\ top \in 1..top
    BY HeapFacts
  <2>2. top # 0
    BY <2>1
  <2>3. NULL \in Spelt
    BY DEF Spelt
  <2> HIDE DEF top
  <2> QED
    BY <2>1, <2>2, <2>3, HeapFacts DEF top
<1>2. Listed(h, h.ROOT) /\ h.ROOT[2] = top
  <2>1. h.ROOT[1] = "header" /\ h.ROOT[2] = top
    BY <1>1, Apart
  <2> QED
    BY <1>1, <2>1 DEF Listed, Block
<1>3. Walks(Looks(h))
  <2> DEFINE w == Looks(h)
  <2>1. ASSUME NEW k \in 0..top
        PROVE  w[k] = IF k = 0 THEN h.ROOT
                      ELSE IF Listed(h, w[k - 1]) THEN h.blocks[w[k - 1][2]].next
                      ELSE NULL
    <3>1. CASE k = 0
      BY <1>1, <3>1 DEF Looks
    <3>2. CASE k = 1
      <4>1. w[0] = h.ROOT /\ w[1] = NextOf(h)
        BY <1>1 DEF Looks
      <4> QED
        BY <1>2, <3>2, <4>1 DEF NextOf
    <3>3. CASE k > 1
      <4>1. w[k] = NULL /\ w[k - 1] \in {NextOf(h), NULL}
        BY <1>1, <3>3 DEF Looks
      <4>2. ~Listed(h, w[k - 1])
        BY <1>1, <4>1, SpeltLeadsNowhere
      <4> QED
        BY <3>3, <4>1, <4>2
    <3> QED
      BY <1>1, <3>1, <3>2, <3>3
  <2>2. w = [k \in 0..top |-> w[k]]
    BY DEF Looks
  <2> QED
    BY <2>1, <2>2
<1>4. \A w : Walks(w) => w = Looks(h)
  <2> SUFFICES ASSUME NEW w, Walks(w) PROVE w = Looks(h)
    OBVIOUS
  <2>1. /\ w[0] = h.ROOT
        /\ \A k \in 1..top : w[k] = IF Listed(h, w[k - 1]) THEN h.blocks[w[k - 1][2]].next
                                   ELSE NULL
    <3>1. \A k \in 0..top : w[k] = IF k = 0 THEN h.ROOT
                                   ELSE IF Listed(h, w[k - 1]) THEN h.blocks[w[k - 1][2]].next
                                   ELSE NULL
      OBVIOUS
    <3> HIDE DEF Walks
    <3>2. 0 \in 0..top /\ \A k \in 1..top : k \in 0..top /\ k # 0
      BY <1>1
    <3> QED
      BY <3>1, <3>2
  <2>2. w = [k \in 0..top |-> w[k]]
    OBVIOUS
  <2> HIDE DEF Walks
  <2>3. w[1] = NextOf(h)
    BY <1>1, <1>2, <2>1 DEF NextOf
  <2> DEFINE astray == {k \in 1..top : w[k] \notin Spelt}
  <2>4. astray = {}
    <3> SUFFICES ASSUME astray # {} PROVE FALSE
      OBVIOUS
    <3>1. astray \in SUBSET Nat
      OBVIOUS
    <3>2. PICK m \in astray : \A k \in astray : m <= k
      BY <3>1, LeastNumber
    <3>3. m \in 1..top /\ w[m] \notin Spelt /\ m # 1
      BY <1>1, <2>3, <3>2
    <3>4. m - 1 \in 1..top /\ m - 1 \notin astray
      BY <1>1, <3>2, <3>3
    <3>5. ~Listed(h, w[m - 1])
      BY <3>4, SpeltLeadsNowhere
    <3> QED
      BY <1>1, <2>1, <3>3, <3>5
  <2>5. \A k \in 2..top : w[k] = NULL
    <3> TAKE k \in 2..top
    <3>1. k - 1 \in 1..top /\ k \in 1..top
      BY <1>1
    <3>2. w[k - 1] \in Spelt
      BY <2>4, <3>1
    <3> QED
      BY <2>1, <3>1, <3>2, SpeltLeadsNowhere
  <2>6. \A k \in 0..top : w[k] = Looks(h)[k]
    BY <1>1, <2>1, <2>3, <2>5 DEF Looks
  <2> QED
    BY <2>2, <2>6 DEF Looks
<1>5. Walk(h) = CHOOSE w : Walks(w)
  BY DEF Walk, Newest
<1> HIDE DEF Walks
<1> QED
  BY <1>3, <1>4, <1>5

\* free finds nothing to release, and faults of a next that is no address.
LEMMA FreeTop ==
  ASSUME NEW h, HeapOK(h), h.ROOT # NULL, NEW ptr, h.blocks[Newest(h)].addr # ptr
  PROVE  free(h, ptr).heap = h /\ (free(h, ptr).fault <=> NextOf(h) # NULL)
<1> DEFINE top   == Newest(h)
           walk  == Walk(h)
           found == {k \in DOMAIN walk : Listed(h, walk[k]) /\
                                         h.blocks[BlockOf(walk[k])].addr = ptr}
           bad   == {k \in DOMAIN walk : walk[k] # NULL /\ ~Listed(h, walk[k])}
<1>1. /\ top \in Nat /\ top \in 1..top /\ h.ROOT = Header(top) /\ NextOf(h) \in Spelt
      /\ h.blocks[top] \in Block
  BY HeapFacts
<1>2. /\ DOMAIN walk = 0..top /\ walk[0] = Header(top) /\ walk[1] = NextOf(h)
      /\ \A k \in 2..top : walk[k] = NULL
  BY <1>1, WalkLooks DEF Looks
<1>3. Listed(h, Header(top)) /\ BlockOf(Header(top)) = top
  <2>1. Header(top)[1] = "header" /\ Header(top)[2] = top /\ BlockOf(Header(top)) = top
    BY Apart
  <2> QED
    BY <1>1, <2>1 DEF Listed, Block
<1>4. ~Listed(h, NextOf(h)) /\ ~Listed(h, NULL)
  BY <1>1, SpeltLeadsNowhere DEF Spelt
<1>5. h.blocks[Newest(h)].addr # ptr
  OBVIOUS
<1> HIDE DEF walk, top
<1>6. found = {}
  <2> SUFFICES ASSUME NEW k \in 0..top, Listed(h, walk[k]),
                      h.blocks[BlockOf(walk[k])].addr = ptr
               PROVE  FALSE
    BY <1>2
  <2>1. k = 0
    BY <1>1, <1>2, <1>4
  <2>2. h.blocks[top].addr = ptr
    BY <1>2, <1>3, <2>1
  <2> QED
    BY <1>5, <2>2 DEF top
<1>7. NextOf(h) = NULL => bad = {}
  BY <1>1, <1>2, <1>3
<1>8. NextOf(h) # NULL => 1 \in bad
  BY <1>1, <1>2, <1>4
<1>9. free(h, ptr) = IF \E k \in bad : \A j \in found : k < j
                    THEN [heap |-> h, fault |-> TRUE] ELSE [heap |-> h, fault |-> FALSE]
  BY <1>6 DEF free, walk
<1> HIDE DEF found, bad
<1>10. CASE NextOf(h) = NULL
  BY <1>7, <1>9, <1>10
<1>11. CASE NextOf(h) # NULL
  BY <1>6, <1>8, <1>9, <1>11
<1> QED
  BY <1>10, <1>11

LEMMA FreeHeader ==
  ASSUME NEW h, HeapOK(h), h.ROOT # NULL, NEW b
  PROVE  free(h, Header(b)).heap = h /\ (free(h, Header(b)).fault <=> NextOf(h) # NULL)
<1>1. h.blocks[Newest(h)].addr \in Unlisted
  BY HeapFacts
<1>2. h.blocks[Newest(h)].addr # Header(b)
  BY <1>1, Apart DEF Unlisted, Spelt
<1> QED
  BY <1>2, FreeTop
=============================================================================
