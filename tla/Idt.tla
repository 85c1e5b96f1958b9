-------------------------------- MODULE Idt --------------------------------
(***************************************************************************)
(* The interrupt descriptor table of sys/idt.c and the two helpers of      *)
(* sys/pic.c that read and write its entries.  A gate keeps the address of *)
(* its routine in three pieces; Half is 2^16, the range of the two lower   *)
(* ones, and Half * Half the range of the upper one.  The fields ist and   *)
(* zero are always 0 and are left out.                                     *)
(***************************************************************************)
EXTENDS Naturals

CONSTANTS
  MAX_NUM_INTERRUPTS,               \* entries of s_Idtd
  Half,                             \* 2^16
  default_interrupt_service_routine \* the address of the default stub

VARIABLES
  s_Idtd,   \* the table
  idtr      \* TRUE once lidt has pointed the CPU at it

idtVars == <<s_Idtd, idtr>>

Vectors   == 0..(MAX_NUM_INTERRUPTS - 1)
Pieces    == 0..(Half - 1)
HighHalf  == 0..(Half * Half - 1)
Addresses == 0..(Half * Half * Half * Half - 1)

ASSUME IdtAssumption ==
  /\ MAX_NUM_INTERRUPTS \in Nat
  /\ MAX_NUM_INTERRUPTS > 47
  /\ Half \in Nat /\ Half > 1
  /\ default_interrupt_service_routine \in Addresses \ {0}

IDT_SELECTOR   == 8
INTERRUPT_GATE == 142    \* 0x8E: the CPU clears IF on entry
TRAP_GATE      == 143    \* 0x8F: it does not

Gate == [offset_1: Pieces, offset_2: Pieces, offset_3: HighHalf,
         selector: {0, IDT_SELECTOR}, type: {0, INTERRUPT_GATE, TRAP_GATE}]

NullGate == [offset_1 |-> 0, offset_2 |-> 0, offset_3 |-> 0,
             selector |-> 0, type |-> 0]

GateOf(addr, type) ==
  [offset_1 |-> addr % Half,
   offset_2 |-> (addr \div Half) % Half,
   offset_3 |-> (addr \div (Half * Half)) % (Half * Half),
   selector |-> IDT_SELECTOR,
   type     |-> type]

\* The guard lets n = MAX_NUM_INTERRUPTS through.  That write would land behind
\* the table, on s_Idtr, which the CPU has no further use for after lidt: the
\* gates stay as they are.
set_interrupt_service_routine(table, n, type, routine) ==
  IF routine = 0 \/ n > MAX_NUM_INTERRUPTS
  THEN table
  ELSE [v \in Vectors |-> IF v = n THEN GateOf(routine, type) ELSE table[v]]

\* A mutant: the gate leaves interrupts on.
set_ir_in_idt_trap(table, n, routine) ==
  set_interrupt_service_routine(table, n, TRAP_GATE, routine)

set_ir_in_idt(table, n, routine) ==
  IF n >= MAX_NUM_INTERRUPTS
  THEN table
  ELSE set_interrupt_service_routine(table, n, INTERRUPT_GATE, routine)

\* The address get_ir_from_idt puts together, and the one the CPU jumps to.
get_ir_from_idt(table, n) ==
  LET gate == table[n]
  IN  gate.offset_3 * (Half * Half) + gate.offset_2 * Half + gate.offset_1

\* memset, the loop over all vectors, lidt.
init_Idt ==
  /\ s_Idtd' = [v \in Vectors |->
                  GateOf(default_interrupt_service_routine, INTERRUPT_GATE)]
  /\ idtr' = TRUE

IdtTypeOK ==
  /\ s_Idtd \in [Vectors -> Gate]
  /\ idtr \in BOOLEAN
=============================================================================
