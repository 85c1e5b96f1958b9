------------------------------- MODULE Environ -------------------------------
(***************************************************************************)
(* getenv and setenv: a table of keys and pointers to values.  The key is  *)
(* copied, the value is not: an entry keeps the pointer it was given.      *)
(* A memory is a record with a heap, the table, and the text of the        *)
(* buffers (see CommandMemory).                                            *)
(***************************************************************************)
EXTENDS Heap

CONSTANT ENVIRON_DATA_SIZE

ASSUME EnvironAssumption == ENVIRON_DATA_SIZE \in Nat \ {0}

\* The place of a key in the table, 0 if it is not there.
IndexOf(table, key) ==
  LET places == {i \in DOMAIN table : table[i].key = key}
  IN  IF places = {} THEN 0 ELSE CHOOSE i \in places : \A j \in places : i <= j

\* getenv(key): the pointer that was given with the key.
getenv(table, key) ==
  LET i == IndexOf(table, key) IN IF i = 0 THEN NULL ELSE table[i].value

\* An entry takes two blocks: the pair of pointers, and the copy of the key.
add_entry(mem, key, length, value) ==
  LET pair == malloc(mem.heap)
      copy == malloc(pair.heap)
      heap == Written(Zeroed(copy.heap, copy.ptr, length + 1), copy.ptr, length)
  IN  [mem EXCEPT !.environ_vars = Append(@, [key |-> key, value |-> value]),
                  !.heap = IF pair.ptr[1] = "header"
                           THEN [heap EXCEPT !.blocks[pair.ptr[2]].addr = copy.ptr]
                           ELSE heap]

\* A mutant: mode 1 behaves as mode 0 and never overwrites.
setenv_add(mem, key, length, value) ==
  IF Len(mem.environ_vars) < ENVIRON_DATA_SIZE
  THEN add_entry(mem, key, length, value) ELSE mem

\* setenv(key, value, 1): the value of the first entry with this key, or a new
\* entry; a full table refuses it.
setenv(mem, key, length, value) ==
  LET i == IndexOf(mem.environ_vars, key)
  IN  IF i # 0 THEN [mem EXCEPT !.environ_vars[i].value = value]
      ELSE IF Len(mem.environ_vars) < ENVIRON_DATA_SIZE
      THEN add_entry(mem, key, length, value)
      ELSE mem
=============================================================================
