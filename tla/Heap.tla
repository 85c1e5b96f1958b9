-------------------------------- MODULE Heap --------------------------------
(***************************************************************************)
(* malloc and free.  A heap is a record: the head of the list (ROOT) and   *)
(* the blocks mapped so far, each a page or more of its own.  Of a block's *)
(* 24-byte header the model keeps addr (bytes 0 to 7) and next (16 to 23). *)
(* Most pointers malloc returns point at the header, so what their owner   *)
(* writes is written into it: Zeroed, Written and Stored say what of it.   *)
(* A mapping that was removed is not handed out again.                     *)
(***************************************************************************)
EXTENDS Naturals, Sequences

\* What eight bytes can be: null, the address of a block's header, the address
\* behind it, or bytes that are no address, of which a half may be zero.
NULL       == <<"null">>
Header(b)  == <<"header", b>>
Payload(b) == <<"payload", b>>
Bytes(halves) == IF halves = {} THEN NULL ELSE <<"bytes", halves>>

Halves(v) == IF v = NULL THEN {} ELSE IF v[1] = "bytes" THEN v[2] ELSE {"low", "high"}

\* The block whose bytes a pointer that malloc returned points at.
BlockOf(p) == p[2]

\* sizeof(meta_block) counts meta_blocks here: 24 * 24 bytes behind the header.
getNewBlock(heap) ==
  [heap EXCEPT !.blocks =
     Append(@, [addr |-> Payload(Len(@) + 1), next |-> NULL, mapped |-> TRUE])]

\* A mutant: the address behind the header is returned, and the list kept whole.
malloc_payload(heap) ==
  LET new  == Len(heap.blocks) + 1
      more == getNewBlock(heap)
  IN  [heap |-> [more EXCEPT !.ROOT = Header(new), !.blocks[new].next = heap.ROOT],
       ptr  |-> Payload(new)]

\* A mutant: the new block's next is the head.
malloc_linked(heap) ==
  LET new  == Len(heap.blocks) + 1
      more == getNewBlock(heap)
  IN  IF heap.ROOT = NULL
      THEN [heap |-> [more EXCEPT !.ROOT = Header(new)], ptr |-> Payload(new)]
      ELSE [heap |-> [more EXCEPT !.ROOT = Header(new), !.blocks[new].next = heap.ROOT],
            ptr  |-> Header(new)]

\* The new block takes over the next pointer of the head of the list, not the head.
malloc(heap) ==
  LET new  == Len(heap.blocks) + 1
      more == getNewBlock(heap)
  IN  IF heap.ROOT = NULL
      THEN [heap |-> [more EXCEPT !.ROOT = Header(new)], ptr |-> Payload(new)]
      ELSE [heap |-> [more EXCEPT !.ROOT = Header(new),
                                  !.blocks[new].next = heap.blocks[heap.ROOT[2]].next],
            ptr  |-> Header(new)]

\* The pointers that the walk of free follows: the head, its next, and so on
\* for as long as they lead to a mapped block.
Listed(heap, p) == p[1] = "header" /\ heap.blocks[p[2]].mapped
Walk(heap) ==
  LET step[k \in 0..Len(heap.blocks)] ==
        IF k = 0 THEN heap.ROOT
        ELSE IF Listed(heap, step[k - 1]) THEN heap.blocks[step[k - 1][2]].next
        ELSE NULL
  IN  step

\* free(ptr) looks for the block whose addr is ptr and unmaps it.  A pointer it
\* cannot follow before it finds one is a segmentation fault.
free(heap, ptr) ==
  LET walk  == Walk(heap)
      found == {k \in DOMAIN walk : /\ Listed(heap, walk[k])
                                    /\ heap.blocks[BlockOf(walk[k])].addr = ptr}
      bad   == {k \in DOMAIN walk : walk[k] # NULL /\ ~Listed(heap, walk[k])}
      first == CHOOSE k \in found : \A j \in found : k <= j
      block == BlockOf(walk[first])
  IN  IF \E k \in bad : \A j \in found : k < j
      THEN [heap |-> heap, fault |-> TRUE]
      ELSE IF found = {} THEN [heap |-> heap, fault |-> FALSE]
      ELSE LET unmapped == [heap EXCEPT !.blocks[block].mapped = FALSE]
           IN  [heap  |-> IF first = 0 THEN unmapped
                          ELSE [unmapped EXCEPT !.blocks[BlockOf(walk[first - 1])].next =
                                                  heap.blocks[block].next],
                fault |-> FALSE]

Mapped(heap, p) == heap.blocks[BlockOf(p)].mapped

-----------------------------------------------------------------------------
(* What the owner of a block does to its header.                           *)

InHeader(p, n) == p[1] = "header" /\ n > 0

\* memset(p, 0, n); n is at most 16, or one of the 20 and more that are asked for.
Zeroed(heap, p, n) ==
  IF ~InHeader(p, n) THEN heap
  ELSE [heap EXCEPT !.blocks[p[2]].addr = Bytes(IF n >= 8 THEN {} ELSE {"high"}),
                    !.blocks[p[2]].next =
                       IF n < 20 THEN @
                       ELSE Bytes(Halves(@) \ (IF n < 24 THEN {"low"} ELSE {"low", "high"}))]

\* A string of n characters; none of them spells an address.
Written(heap, p, n) ==
  IF ~InHeader(p, n) THEN heap
  ELSE [heap EXCEPT !.blocks[p[2]].addr = Bytes({"low", "high"}),
                    !.blocks[p[2]].next =
                       IF n <= 16 THEN @
                       ELSE Bytes(Halves(@) \cup
                                  (IF n <= 20 THEN {"low"} ELSE {"low", "high"}))]

\* A record whose first and third eight bytes are pointers.
Stored(heap, p, first, third) ==
  IF ~InHeader(p, 1) THEN heap
  ELSE [heap EXCEPT !.blocks[p[2]].addr = first, !.blocks[p[2]].next = third]
=============================================================================
