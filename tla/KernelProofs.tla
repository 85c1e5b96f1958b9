---------------------------- MODULE KernelProofs ----------------------------
(***************************************************************************)
(* The kernel and the drivers it composes, for every size of the tables    *)
(* and counters, every placement of the routines, every firmware and every *)
(* device.                                                                 *)
(*                                                                         *)
(* Interrupt controllers: every write keeps a chip a chip, what an         *)
(* acknowledge and an end of interrupt do to the requests, and that        *)
(* init_pic leaves vectors 32 to 47.  Descriptor table: an address         *)
(* survives being split over the three pieces of a gate, and the table     *)
(* stays a table of gates.  Kernel: KernelInv is inductive, the safety     *)
(* properties follow from it, and Kernel implements IrqService: each step  *)
(* of the kernel is a step of the service or none.                         *)
(***************************************************************************)
EXTENDS KernelInvariant, KernelRefinement, SequenceTheorems, TLAPS

-----------------------------------------------------------------------------
(* The interrupt controllers.                                              *)

Chips == [Pics -> Chip]

\* Every port write leaves well-formed chips.
LEMMA DataWriteType ==
  ASSUME NEW chip \in Chip, NEW data \in Byte
  PROVE  DataWrite(chip, data) \in Chip
BY DEF DataWrite, Chip, Expectations

LEMMA CommandWriteType ==
  ASSUME NEW chip \in Chip, NEW cmd \in Byte, NEW relatched \in Byte
  PROVE  CommandWrite(chip, cmd, relatched) \in Chip
<1>1. Icw1(chip, relatched) \in Chip
  BY DEF Icw1, Chip, Byte, Expectations
<1>2. [chip EXCEPT !.isr = @ \ {Highest(chip.isr)}] \in Chip
  BY DEF Chip, Byte
<1>3. [chip EXCEPT !.reads = IF 0 \in cmd THEN "isr" ELSE "irr"] \in Chip
  BY DEF Chip
<1> QED
  BY <1>1, <1>2, <1>3 DEF CommandWrite, PIC_ICW1_MASK_INIT

\* Which chip a port belongs to.
LEMMA Ports ==
  ASSUME NEW chips, NEW val, NEW relatched
  PROVE  /\ Outportb(chips, MASTER_PIC_COMMAND, val, relatched) =
              [chips EXCEPT ![MASTER_PIC_ID] =
                 CommandWrite(chips[MASTER_PIC_ID], val, relatched)]
         /\ Outportb(chips, SLAVE_PIC_COMMAND, val, relatched) =
              [chips EXCEPT ![SLAVE_PIC_ID] =
                 CommandWrite(chips[SLAVE_PIC_ID], val, relatched)]
         /\ Outportb(chips, MASTER_PIC_DATA, val, relatched) =
              [chips EXCEPT ![MASTER_PIC_ID] =
                 DataWrite(chips[MASTER_PIC_ID], val)]
         /\ Outportb(chips, SLAVE_PIC_DATA, val, relatched) =
              [chips EXCEPT ![SLAVE_PIC_ID] =
                 DataWrite(chips[SLAVE_PIC_ID], val)]
<1>1. /\ MASTER_PIC_COMMAND = 32 /\ SLAVE_PIC_COMMAND = 160
      /\ MASTER_PIC_DATA = 33 /\ SLAVE_PIC_DATA = 161
  BY DEF MASTER_PIC_COMMAND, SLAVE_PIC_COMMAND, MASTER_PIC_DATA, SLAVE_PIC_DATA
<1>2. /\ MASTER_PIC_COMMAND # SLAVE_PIC_COMMAND
      /\ MASTER_PIC_COMMAND # MASTER_PIC_DATA
      /\ MASTER_PIC_COMMAND # SLAVE_PIC_DATA
      /\ SLAVE_PIC_COMMAND # MASTER_PIC_DATA
      /\ SLAVE_PIC_COMMAND # SLAVE_PIC_DATA
      /\ MASTER_PIC_DATA # SLAVE_PIC_DATA
  BY <1>1
<1> QED
  BY <1>2, Zenon DEF Outportb

LEMMA CommandPortType ==
  ASSUME NEW chips \in Chips, NEW picNum \in Pics, NEW cmd \in Byte,
         NEW relatched \in Byte
  PROVE  /\ write_command_word_to_pic(chips, cmd, picNum, relatched) \in Chips
         /\ write_command_word_to_pic(chips, cmd, picNum, relatched) =
              [chips EXCEPT ![picNum] = CommandWrite(chips[picNum], cmd, relatched)]
<1>1. CommandWrite(chips[picNum], cmd, relatched) \in Chip
  BY CommandWriteType DEF Chips
<1>2. write_command_word_to_pic(chips, cmd, picNum, relatched) =
        [chips EXCEPT ![picNum] = CommandWrite(chips[picNum], cmd, relatched)]
  <2>1. CASE picNum = MASTER_PIC_ID
    BY <2>1, Ports DEF write_command_word_to_pic, CommandPort
  <2>2. CASE picNum = SLAVE_PIC_ID /\ picNum # MASTER_PIC_ID
    BY <2>2, Ports DEF write_command_word_to_pic, CommandPort
  <2> QED
    BY <2>1, <2>2 DEF Pics
<1> QED
  BY <1>1, <1>2 DEF Chips

LEMMA DataPortType ==
  ASSUME NEW chips \in Chips, NEW picNum \in Pics, NEW data \in Byte
  PROVE  /\ write_data_to_pic(chips, data, picNum) \in Chips
         /\ write_data_to_pic(chips, data, picNum) =
              [chips EXCEPT ![picNum] = DataWrite(chips[picNum], data)]
<1>1. DataWrite(chips[picNum], data) \in Chip
  BY DataWriteType DEF Chips
<1>2. write_data_to_pic(chips, data, picNum) =
        [chips EXCEPT ![picNum] = DataWrite(chips[picNum], data)]
  <2>1. CASE picNum = MASTER_PIC_ID
    BY <2>1, Ports DEF write_data_to_pic, DataPort
  <2>2. CASE picNum = SLAVE_PIC_ID /\ picNum # MASTER_PIC_ID
    BY <2>2, Ports DEF write_data_to_pic, DataPort
  <2> QED
    BY <2>1, <2>2 DEF Pics
<1> QED
  BY <1>1, <1>2 DEF Chips

LEMMA RaisedType ==
  ASSUME NEW chips \in Chips, NEW irq \in Irqs
  PROVE  Raised(chips, irq) \in Chips
BY DEF Raised, Chips, Chip, Byte, Irqs, Lines, Pics, MASTER_PIC_ID, SLAVE_PIC_ID

LEMMA AcknowledgedType ==
  ASSUME NEW chips \in Chips, NEW irq \in Irqs
  PROVE  Acknowledged(chips, irq) \in Chips
<1>1. \A c \in Pics, l \in Lines : Serviced(chips[c], l) \in Chip
  BY DEF Serviced, Chips, Chip, Byte
<1>2. CASE irq < 8
  BY <1>1, <1>2 DEF Acknowledged, Chips, Irqs, Lines, Pics, MASTER_PIC_ID,
     SLAVE_PIC_ID
<1>3. CASE ~(irq < 8)
  BY <1>1, <1>3 DEF Acknowledged, Chips, Irqs, Lines, Pics, MASTER_PIC_ID,
     SLAVE_PIC_ID
<1> QED
  BY <1>2, <1>3

LEMMA HandlerEoiType ==
  ASSUME NEW chips \in Chips
  PROVE  /\ handler_eoi(chips) \in Chips
         /\ handler_eoi(chips) =
              [chips EXCEPT ![MASTER_PIC_ID] =
                 CommandWrite(chips[MASTER_PIC_ID], PIC_EOI, {})]
<1>1. PIC_EOI \in Byte /\ {} \in Byte /\ MASTER_PIC_ID \in Pics
  BY DEF PIC_EOI, Byte, Lines, Pics
<1>2. handler_eoi(chips) =
        [chips EXCEPT ![MASTER_PIC_ID] =
           CommandWrite(chips[MASTER_PIC_ID], PIC_EOI, {})]
  BY Ports DEF handler_eoi
<1>3. CommandWrite(chips[MASTER_PIC_ID], PIC_EOI, {}) \in Chip
  BY <1>1, CommandWriteType DEF Chips
<1> QED
  BY <1>1, <1>2, <1>3 DEF Chips

\* The words of init_pic are bytes, addressed to one of the two chips.
LEMMA InitWritesType ==
  ASSUME master_pic_data \in Byte, slave_pic_data \in Byte,
         NEW n \in 1..10
  PROVE  init_writes[n].to \in Pics /\ init_writes[n].word \in Byte
<1>1. /\ icw1 \in Byte /\ icw4 \in Byte /\ {1} \in Byte /\ {2} \in Byte
      /\ PROT_MODE_MASTER_PIC_VECTOR_OFFSET \in Byte
      /\ PROT_MODE_SLAVE_PIC_VECTOR_OFFSET \in Byte
  BY DEF Byte, Lines, icw1, icw4, PIC_ICW1_MASK_INIT, PIC_ICW1_MASK_ICW4,
     PIC_ICW4_MASK_8086, PROT_MODE_MASTER_PIC_VECTOR_OFFSET,
     PROT_MODE_SLAVE_PIC_VECTOR_OFFSET
<1>2. MASTER_PIC_ID \in Pics /\ SLAVE_PIC_ID \in Pics
  BY DEF Pics
<1>3. init_writes \in Seq([to: Pics, word: Byte]) /\ Len(init_writes) = 10
  BY <1>1, <1>2 DEF init_writes
<1>4. init_writes[n] \in [to: Pics, word: Byte]
  BY <1>3, ElementOfSeq
<1> QED
  BY <1>4

\* Each step of init_pic keeps the types.
LEMMA InitPicType ==
  ASSUME PicTypeOK, NEW high \in [Pics -> Byte], init_pic(high)
  PROVE  PicTypeOK'
<1>1. CASE ReadMasks
  BY <1>1 DEF PicTypeOK, ReadMasks, read_data_from_pic, Chip, Pics
<1>2. CASE WriteWord(high)
  <2> DEFINE w == init_writes[picStep]
  <2>1. /\ picStep \in 1..10 /\ picStep' \in 0..11
        /\ master_pic_data' \in Byte /\ slave_pic_data' \in Byte
    BY <1>2 DEF WriteWord, PicTypeOK
  <2>2. w.to \in Pics /\ w.word \in Byte
    BY <2>1, InitWritesType DEF PicTypeOK
  <2>3. CASE picStep <= 2
    <3>1. PICK relatched \in SUBSET high[w.to] :
            pic' = write_command_word_to_pic(pic, w.word, w.to, relatched)
      BY <1>2, <2>3 DEF WriteWord
    <3>2. relatched \in Byte
      BY <2>2 DEF Byte
    <3> QED
      BY <2>1, <2>2, <3>1, <3>2, CommandPortType DEF PicTypeOK, Chips
  <2>4. CASE ~(picStep <= 2)
    <3>1. pic' = write_data_to_pic(pic, w.word, w.to)
      BY <1>2, <2>4 DEF WriteWord
    <3> QED
      BY <2>1, <2>2, <3>1, DataPortType DEF PicTypeOK, Chips
  <2> QED
    BY <2>3, <2>4
<1> QED
  BY <1>1, <1>2 DEF init_pic
-----------------------------------------------------------------------------
(* Priorities.                                                             *)

LEMMA HighestIn ==
  ASSUME NEW lines \in SUBSET Lines, lines # {}
  PROVE  Highest(lines) \in lines /\ \A m \in lines : Highest(lines) <= m
<1>1. \E l \in lines : \A m \in lines : l <= m
  <2>1. SUFFICES ASSUME \A l \in lines : \E m \in lines : m < l PROVE FALSE
    BY DEF Lines
  <2>2. 0 \notin lines /\ \A l \in lines : l \in 0..7
    BY <2>1 DEF Lines
  <2>3. 1 \notin lines
    BY <2>1, <2>2
  <2>4. 2 \notin lines /\ 3 \notin lines
    BY <2>1, <2>2, <2>3
  <2>5. 4 \notin lines /\ 5 \notin lines
    BY <2>1, <2>2, <2>3, <2>4
  <2>6. 6 \notin lines /\ 7 \notin lines
    BY <2>1, <2>2, <2>3, <2>4, <2>5
  <2> QED
    BY <2>2, <2>3, <2>4, <2>5, <2>6
<1> QED
  BY <1>1 DEF Highest

\* What the CPU acknowledges is a request that is latched and unmasked, on the
\* slave one that also finds the master's cascade line unmasked.
LEMMA AckedFacts ==
  ASSUME NEW chips \in Chips, Requests(chips) # {}
  PROVE  /\ AckedIrq(chips) \in Irqs \ {2}
         /\ AckedIrq(chips) < 8 =>
              AckedIrq(chips) \in chips[MASTER_PIC_ID].irr \ chips[MASTER_PIC_ID].imr
         /\ AckedIrq(chips) > 7 =>
              /\ AckedIrq(chips) - 8 \in
                   chips[SLAVE_PIC_ID].irr \ chips[SLAVE_PIC_ID].imr
              /\ 2 \notin chips[MASTER_PIC_ID].imr
<1> DEFINE master == chips[MASTER_PIC_ID]
           slave  == chips[SLAVE_PIC_ID]
           served == Servable(slave)
           line   == Highest(Requests(chips))
<1>1. master \in Chip /\ slave \in Chip
  BY DEF Chips, Pics
<1>2. /\ Requests(chips) \subseteq (master.irr \cup {2}) \ master.imr
      /\ 2 \in Requests(chips) => served # {}
      /\ Requests(chips) \subseteq Lines
  BY <1>1 DEF Requests, Servable, Chip, Byte, Lines
<1>3. line \in Requests(chips)
  BY <1>2, HighestIn
<1>4. served \subseteq slave.irr \ slave.imr /\ served \subseteq Lines
  BY <1>1 DEF Servable, Chip, Byte
<1>5. CASE line = 2
  <2>1. Highest(served) \in served
    BY <1>2, <1>3, <1>4, <1>5, HighestIn
  <2>2. AckedIrq(chips) = 8 + Highest(served)
    BY <1>5 DEF AckedIrq
  <2>3. Highest(served) \in 0..7
    BY <1>4, <2>1 DEF Lines
  <2> HIDE DEF served
  <2>4. 2 \notin master.imr
    BY <1>2, <1>3, <1>5
  <2> QED
    BY <1>4, <2>1, <2>2, <2>3, <2>4 DEF Irqs
<1>6. CASE line # 2
  <2>1. AckedIrq(chips) = line
    BY <1>6 DEF AckedIrq
  <2>2. line \in 0..7 /\ line \in master.irr \ master.imr
    BY <1>2, <1>3, <1>6 DEF Lines
  <2> HIDE DEF line
  <2> QED
    BY <1>6, <2>1, <2>2 DEF Irqs
<1> QED
  BY <1>5, <1>6

\* With nothing in service, no lower line than the acknowledged one waits among
\* those in front of the slave's.
LEMMA AckedFirst ==
  ASSUME NEW chips \in Chips, Requests(chips) # {},
         chips[MASTER_PIC_ID].isr = {},
         NEW l \in {0, 1}, l \in chips[MASTER_PIC_ID].irr \ chips[MASTER_PIC_ID].imr
  PROVE  AckedIrq(chips) <= l
<1> DEFINE master == chips[MASTER_PIC_ID]
           line   == Highest(Requests(chips))
<1>1. master \in Chip
  BY DEF Chips, Pics
<1>2. Requests(chips) \subseteq Lines /\ l \in Requests(chips)
  BY <1>1 DEF Requests, Servable, Chip, Byte, Lines
<1>3. line <= l /\ line \in Lines
  BY <1>2, HighestIn
<1>4. line # 2
  BY <1>3 DEF Lines
<1> QED
  BY <1>3, <1>4 DEF AckedIrq

\* The end of interrupt takes the one line in service out of service.
LEMMA EoiSingle ==
  ASSUME NEW chip \in Chip, NEW l \in Lines, chip.isr = {l}
  PROVE  CommandWrite(chip, PIC_EOI, {}) = [chip EXCEPT !.isr = {}]
<1>1. Highest(chip.isr) = l
  BY HighestIn DEF Chip, Byte
<1>2. 4 \notin PIC_EOI /\ 3 \notin PIC_EOI /\ 5 \in PIC_EOI
  BY DEF PIC_EOI
<1>3. CommandWrite(chip, PIC_EOI, {}) = [chip EXCEPT !.isr = @ \ {Highest(chip.isr)}]
  BY <1>2 DEF CommandWrite, PIC_ICW1_MASK_INIT
<1>4. chip.isr \ {l} = {}
  OBVIOUS
<1> QED
  BY <1>1, <1>3, <1>4

LEMMA CommandIcw1 ==
  ASSUME NEW chip, NEW relatched
  PROVE  CommandWrite(chip, icw1, relatched) = Icw1(chip, relatched)
<1>1. PIC_ICW1_MASK_INIT \in icw1 /\ 4 \in icw1
  BY DEF icw1, PIC_ICW1_MASK_INIT
<1> QED
  BY <1>1 DEF CommandWrite

\* The vectors of the two chips once they have their bases.
LEMMA Vectors32To47 ==
  /\ VectorBase(PROT_MODE_MASTER_PIC_VECTOR_OFFSET) = 32
  /\ VectorBase(PROT_MODE_SLAVE_PIC_VECTOR_OFFSET) = 40
BY DEF VectorBase, PROT_MODE_MASTER_PIC_VECTOR_OFFSET,
   PROT_MODE_SLAVE_PIC_VECTOR_OFFSET

-----------------------------------------------------------------------------
(* The interrupt descriptor table.                                         *)

LEMMA DivMod ==
  ASSUME NEW a \in Nat, NEW b \in Nat, b > 0
  PROVE  /\ a % b \in 0..(b - 1)
         /\ a \div b \in Nat
         /\ a = (a \div b) * b + (a % b)
OBVIOUS

LEMMA QuotientBound ==
  ASSUME NEW a \in Nat, NEW b \in Nat, NEW c \in Nat, b > 0, a < b * c
  PROVE  a \div b < c
<1>1. /\ a % b \in 0..(b - 1) /\ a \div b \in Nat
      /\ a = (a \div b) * b + (a % b)
  BY DivMod
<1>2. SUFFICES ASSUME a \div b >= c PROVE FALSE
  BY <1>1
<1>3. (a \div b) * b >= c * b
  BY <1>1, <1>2
<1> QED
  BY <1>1, <1>3

\* Quotient and remainder are unique.
LEMMA Division ==
  ASSUME NEW a \in Nat, NEW b \in Nat, b > 0,
         NEW q \in Nat, NEW r \in 0..(b - 1), a = q * b + r
  PROVE  a \div b = q
<1> DEFINE d == a \div b
<1>1. d \in Nat /\ a % b \in 0..(b - 1) /\ a = d * b + (a % b)
  BY DivMod
<1> HIDE DEF d
<1>2. CASE d > q
  <2>1. d * b >= (q + 1) * b
    BY <1>1, <1>2
  <2>2. (q + 1) * b = q * b + b
    OBVIOUS
  <2> QED
    BY <1>1, <2>1, <2>2
<1>3. CASE d < q
  <2>1. q * b >= (d + 1) * b
    BY <1>1, <1>3
  <2>2. (d + 1) * b = d * b + b
    BY <1>1
  <2> QED
    BY <1>1, <2>1, <2>2
<1> QED
  BY <1>1, <1>2, <1>3 DEF d

\* Joining the pieces that GateOf made of an address gives the address back:
\* what the CPU jumps to through a gate is the routine it was set to.
THEOREM GateRoundTrip ==
  ASSUME NEW addr \in Addresses, NEW type, NEW table, NEW v,
         table[v] = GateOf(addr, type)
  PROVE  get_ir_from_idt(table, v) = addr
<1> DEFINE q1 == addr \div Half
           o1 == addr % Half
           q2 == q1 \div Half
           o2 == q1 % Half
           S  == Half * Half
<1>1. Half \in Nat /\ Half > 1 /\ S \in Nat /\ S > 0 /\ S > Half
  BY IdtAssumption
<1>2. addr \in Nat /\ addr < S * S
  BY <1>1 DEF Addresses
<1>3. q1 \in Nat /\ o1 \in 0..(Half - 1) /\ addr = q1 * Half + o1
  BY <1>1, <1>2, DivMod
<1> HIDE DEF q1, o1
<1>4. q2 \in Nat /\ o2 \in 0..(Half - 1) /\ q1 = q2 * Half + o2
  BY <1>1, <1>3, DivMod
<1> HIDE DEF q2, o2, S
<1>5. addr = q2 * S + (o2 * Half + o1)
  BY <1>1, <1>3, <1>4 DEF S
<1>6. o2 * Half + o1 \in 0..(S - 1)
  <2>1. o2 * Half <= (Half - 1) * Half
    BY <1>1, <1>4
  <2> QED
    BY <1>1, <1>3, <1>4, <2>1 DEF S
<1>7. addr \div S = q2
  BY <1>1, <1>2, <1>4, <1>5, <1>6, Division
<1>8. q2 < S
  BY <1>1, <1>2, <1>7, QuotientBound
<1>9. q2 % S = q2
  BY <1>1, <1>4, <1>8
<1>10. get_ir_from_idt(table, v) = ((addr \div S) % S) * S + o2 * Half + o1
  BY DEF get_ir_from_idt, GateOf, S, o1, o2, q1
<1> QED
  BY <1>1, <1>2, <1>3, <1>4, <1>5, <1>7, <1>9, <1>10

LEMMA GateType ==
  ASSUME NEW addr \in Addresses,
         NEW type \in {0, INTERRUPT_GATE, TRAP_GATE}
  PROVE  GateOf(addr, type) \in Gate
<1> DEFINE S == Half * Half
<1>1. Half \in Nat /\ Half > 0 /\ S \in Nat /\ S > 0
  BY IdtAssumption
<1>2. addr \in Nat
  BY <1>1 DEF Addresses
<1>3. addr % Half \in Pieces /\ (addr \div Half) % Half \in Pieces
  BY <1>1, <1>2, DivMod DEF Pieces
<1>4. (addr \div S) % S \in 0..(S - 1)
  BY <1>1, <1>2, DivMod
<1> QED
  BY <1>3, <1>4 DEF Gate, GateOf, HighHalf

LEMMA TargetType ==
  ASSUME NEW table \in [Vectors -> Gate], NEW v \in Vectors
  PROVE  get_ir_from_idt(table, v) \in Addresses
<1> DEFINE g == table[v]
           S == Half * Half
<1>1. Half \in Nat /\ Half > 1 /\ S \in Nat /\ S > 0
  BY IdtAssumption
<1>2. g.offset_1 \in 0..(Half - 1) /\ g.offset_2 \in 0..(Half - 1)
      /\ g.offset_3 \in 0..(S - 1)
  BY DEF Gate, Pieces, HighHalf
<1>3. get_ir_from_idt(table, v) = g.offset_3 * S + g.offset_2 * Half + g.offset_1
  BY DEF get_ir_from_idt
<1> HIDE DEF g, S
<1>4. g.offset_3 * S <= (S - 1) * S
  BY <1>1, <1>2
<1>5. g.offset_2 * Half <= (Half - 1) * Half
  BY <1>1, <1>2
<1>6. /\ (S - 1) * S = S * S - S
      /\ (Half - 1) * Half = S - Half
      /\ Half * Half * Half * Half = S * S
  BY <1>1 DEF S
<1> QED
  BY <1>1, <1>2, <1>3, <1>4, <1>5, <1>6 DEF Addresses

LEMMA SetIrType ==
  ASSUME NEW table \in [Vectors -> Gate], NEW n \in Nat,
         NEW routine \in Addresses
  PROVE  set_ir_in_idt(table, n, routine) \in [Vectors -> Gate]
<1>1. GateOf(routine, INTERRUPT_GATE) \in Gate
  BY GateType
<1> QED
  BY <1>1 DEF set_ir_in_idt, set_interrupt_service_routine

-----------------------------------------------------------------------------
(* Types of the drivers' own state.                                        *)

LEMMA MapType == \A key \in 0..88 : map[key] \in Nat
<1>1. codes \in Seq(Nat) /\ Len(codes) = 89
  BY SMTT(120) DEF codes
<1>2. PICK all : all = codes
  OBVIOUS
<1>3. all \in Seq(Nat) /\ Len(all) = 89
  BY <1>1, <1>2
<1>4. ASSUME NEW key \in 0..88 PROVE all[key + 1] \in Nat
  <2>1. all \in [1..Len(all) -> Nat]
    BY <1>3, LenProperties
  <2>2. key + 1 \in 1..Len(all)
    BY <1>3
  <2> QED
    BY <2>1, <2>2
<1>5. \A key \in 0..88 : map[key] = all[key + 1]
  BY <1>2 DEF map
<1> QED
  BY <1>4, <1>5

LEMMA UpperType == \A c \in Nat : Upper(c) \in Nat
BY DEF Upper, IsLower

LEMMA HandleKeyType ==
  ASSUME KbdTypeOK, NEW key \in Nat, handle_key(key)
  PROVE  KbdTypeOK'
<1>1. CASE \E value \in {0, 1} : set_uppercase(value)
  BY <1>1 DEF KbdTypeOK, set_uppercase
<1>2. CASE \E value \in {0, 1} : set_ctrlKey(value)
  BY <1>2 DEF KbdTypeOK, set_ctrlKey
<1>3. CASE show_key(key)
  <2> DEFINE shown == IF Mapped(key) THEN map[key] ELSE keyCell
  <2>1. shown \in Nat
    BY MapType DEF KbdTypeOK, Mapped
  <2>2. keyCell' \in Nat
    <3>1. keyCell' = IF uppercase = 1 THEN Upper(shown) ELSE shown
      BY <1>3 DEF show_key
    <3> QED
      BY <2>1, <3>1, UpperType
  <2>3. caretCell' \in Nat
    BY <1>3 DEF show_key, KbdTypeOK, Caret
  <2> QED
    BY <1>3, <2>2, <2>3 DEF show_key, KbdTypeOK
<1>4. \/ set_uppercase(1) \/ set_uppercase(0)
      \/ set_ctrlKey(1) \/ set_ctrlKey(0) \/ show_key(key)
  BY DEF handle_key
<1> QED
  BY <1>1, <1>2, <1>3, <1>4

LEMMA Remainder ==
  ASSUME NEW a \in Nat, NEW b \in Nat, b > 0
  PROVE  a % b \in 0..(b - 1) /\ a \div b \in Nat
BY DivMod

LEMMA CountTickType ==
  ASSUME PitTypeOK, count_tick
  PROVE  PitTypeOK'
<1>1. /\ CountWrap \in Nat /\ CountWrap > 0 /\ TimeWrap \in Nat /\ TimeWrap > 0
      /\ Scale \in Nat /\ Scale > 0
  BY PitAssumption
<1>2. (g_pit_count + 1) % CountWrap \in 0..(CountWrap - 1)
  BY <1>1, Remainder DEF PitTypeOK
<1>3. (time_in_sec + 1) % TimeWrap \in 0..(TimeWrap - 1)
  BY <1>1, Remainder DEF PitTypeOK
<1>4. (((time_in_sec + 1) % TimeWrap) \div Scale) % CountWrap \in Nat
  <2>1. ((time_in_sec + 1) % TimeWrap) \div Scale \in Nat
    BY <1>1, <1>3, Remainder
  <2> QED
    BY <1>1, <2>1, Remainder
<1> QED
  BY <1>2, <1>3, <1>4 DEF count_tick, PitTypeOK

LEMMA ProgramPitType ==
  ASSUME PitTypeOK, program_pit
  PROVE  PitTypeOK'
BY PitAssumption DEF PitTypeOK, program_pit, MaxFrequency, BaseFrequency

-----------------------------------------------------------------------------
(* Type correctness.                                                       *)

LEMMA EnterType ==
  ASSUME TypeOK, NEW source \in Irqs \cup {Fault}, NEW vector,
         Enter(source, vector)
  PROVE  /\ frames' \in Seq(Frame)
         /\ Len(frames') <= StackFrames
         /\ ifl' \in BOOLEAN
         /\ reset' \in BOOLEAN
         /\ regs' = regs
<1> DEFINE f == [source |-> source,
                 routine |-> get_ir_from_idt(s_Idtd, vector),
                 at |-> "helper", rflags |-> ifl,
                 saved |-> [r \in PushedSet |-> regs[r]]]
<1>1. CASE /\ vector \in Vectors
           /\ Len(frames) < StackFrames
           /\ frames' = Append(frames, f)
           /\ ifl' = (ifl /\ s_Idtd[vector].type = TRAP_GATE)
           /\ reset' = reset
           /\ regs' = regs
  <2>1. get_ir_from_idt(s_Idtd, vector) \in Addresses
    BY <1>1, TargetType DEF TypeOK, IdtTypeOK
  <2>2. f \in Frame
    BY <2>1 DEF Frame, TypeOK
  <2>3. frames \in Seq(Frame) /\ StackFrames \in Nat
    BY KernelAssumption DEF TypeOK
  <2> HIDE DEF f
  <2>4. Append(frames, f) \in Seq(Frame) /\ Len(Append(frames, f)) = Len(frames) + 1
    BY <2>2, <2>3
  <2>5. Len(frames) \in Nat
    BY <2>3
  <2> QED
    BY <1>1, <2>3, <2>4, <2>5 DEF TypeOK
<1>2. CASE reset' = TRUE /\ frames' = frames /\ ifl' = ifl /\ regs' = regs
  BY <1>2 DEF TypeOK
<1> QED
  BY <1>1, <1>2 DEF Enter

LEMMA MoveTopType ==
  ASSUME TypeOK, frames # <<>>, NEW at \in {"helper", "eoi", "pop"}, MoveTop(at)
  PROVE  /\ frames' \in Seq(Frame)
         /\ Len(frames') = Len(frames)
         /\ Len(frames) \in Nat \ {0}
         /\ \A i \in 1..Len(frames) :
              frames'[i] = IF i = Len(frames) THEN [Top EXCEPT !.at = at]
                                              ELSE frames[i]
<1>1. frames \in Seq(Frame) /\ Len(frames) \in Nat \ {0}
  BY DEF TypeOK
<1>2. Top \in Frame /\ frames[Len(frames)] = Top
  BY <1>1, ElementOfSeq DEF Top
<1>3. [Top EXCEPT !.at = at] \in Frame
  BY <1>2 DEF Frame
<1>4. frames' = [frames EXCEPT ![Len(frames)] = [Top EXCEPT !.at = at]]
  BY <1>2 DEF MoveTop
<1> QED
  BY <1>1, <1>3, <1>4

LEMMA FrontType ==
  ASSUME NEW S, NEW s \in Seq(S), NEW n \in Nat, Len(s) = n + 1
  PROVE  /\ SubSeq(s, 1, n) \in Seq(S)
         /\ Len(SubSeq(s, 1, n)) = n
         /\ \A i \in 1..n : SubSeq(s, 1, n)[i] = s[i]
<1>1. \A i \in 1..n : s[i] \in S
  BY ElementOfSeq
<1>2. CASE n = 0
  <2>1. SubSeq(s, 1, n) = << >>
    BY <1>2, SubSeqEmpty
  <2> QED
    BY <1>2, <2>1
<1>3. CASE n # 0
  <2>1. n \in Int /\ 1 \in Int /\ 1 <= n /\ n - 1 + 1 = n
    BY <1>3
  <2>2. /\ SubSeq(s, 1, n) \in Seq(S)
        /\ Len(SubSeq(s, 1, n)) = n
        /\ \A i \in 1..(n - 1 + 1) : SubSeq(s, 1, n)[i] = s[1 + i - 1]
    BY <2>1, <1>1, SubSeqProperties
  <2>3. \A i \in 1..n : 1 + i - 1 = i
    OBVIOUS
  <2>4. \A i \in 1..n : SubSeq(s, 1, n)[i] = s[i]
    BY <2>1, <2>2, <2>3
  <2> QED
    BY <2>2, <2>4
<1> QED
  BY <1>2, <1>3

THEOREM InitTypeOK == Init => TypeOK
<1> SUFFICES ASSUME Init PROVE TypeOK
  OBVIOUS
<1>1. firmware \in Byte \X Byte
  BY KernelAssumption DEF Init
<1>2. PicTypeOK
  <2>1. firmware[1] \in Byte /\ firmware[2] \in Byte
    BY <1>1
  <2>2. {3} \in Byte /\ {2} \in Byte /\ {4, 5, 6} \in Byte /\ {1} \in Byte
        /\ {} \in Byte /\ icw4 \in Byte
    BY DEF Byte, Lines, icw4, PIC_ICW4_MASK_8086
  <2>3. /\ FirmwareChip(firmware[1], {3}, {2}) \in Chip
        /\ FirmwareChip(firmware[2], {4, 5, 6}, {1}) \in Chip
    BY <2>1, <2>2 DEF FirmwareChip, Chip, Expectations
  <2> QED
    BY <2>2, <2>3 DEF PicTypeOK, Init
<1>3. IdtTypeOK
  <2>1. NullGate \in Gate
    BY IdtAssumption DEF NullGate, Gate, Pieces, HighHalf
  <2> QED
    BY <2>1 DEF IdtTypeOK, Init
<1>4. PitTypeOK
  BY PitAssumption DEF PitTypeOK, Init, PitInit, NotShown
<1>5. KbdTypeOK
  BY KeyboardAssumption DEF KbdTypeOK, Init, KbdInit
<1>6. regs \in [Registers -> Registers \cup {Junk}]
      /\ \A r \in PushedSet : regs[r] \in PushedSet
  BY DEF Init, Registers
<1>7. frames \in Seq(Frame) /\ Len(frames) <= StackFrames
  BY KernelAssumption DEF Init
<1>8. main \in Phases
  BY DEF Init, Phases, Boot
<1> QED
  BY <1>2, <1>3, <1>4, <1>5, <1>6, <1>7, <1>8 DEF TypeOK, Init

\* One step of the main thread keeps the types.
LEMMA MainType == TypeOK /\ MainStep => TypeOK'
<1> SUFFICES ASSUME TypeOK, MainStep PROVE TypeOK'
  OBVIOUS
<1> USE DEF picVars, idtVars, pitVars, kbdVars
<1>0. \A i \in 1..9 : Boot[i] \in Phases
  BY DEF Phases
<1>a. /\ "init_gdt" \in Phases /\ "init_Idt" \in Phases
      /\ "init_pic" \in Phases /\ "init_pit" \in Phases
      /\ "init_ps2_controller" \in Phases /\ "start" \in Phases
      /\ "enable_Interrupts" \in Phases /\ "spin" \in Phases
  BY <1>0 DEF Boot
<1>1. CASE boot_cli
  BY <1>1, <1>a DEF TypeOK, PicTypeOK, IdtTypeOK, PitTypeOK, KbdTypeOK, boot_cli,
     Goto, CpuIdle, World
<1>2. CASE init_gdt
  BY <1>2, <1>a DEF TypeOK, PicTypeOK, IdtTypeOK, PitTypeOK, KbdTypeOK, init_gdt,
     Goto, CpuIdle, World
<1>3. CASE boot_init_Idt
  <2>1. IdtTypeOK'
    <3>1. GateOf(default_interrupt_service_routine, INTERRUPT_GATE) \in Gate
      BY IdtAssumption, GateType
    <3> QED
      BY <1>3, <3>1 DEF boot_init_Idt, init_Idt, IdtTypeOK
  <2> QED
    BY <1>3, <1>a, <2>1 DEF TypeOK, PicTypeOK, PitTypeOK, KbdTypeOK,
       boot_init_Idt, Goto, CpuIdle, World
<1>4. CASE boot_init_pic
  <2>1. PicTypeOK'
    <3>1. HighLines \in [Pics -> Byte]
      BY DEF HighLines, Byte, Lines
    <3> QED
      BY <1>4, <3>1, InitPicType DEF boot_init_pic, TypeOK
  <2>2. edgeLost' \in BOOLEAN
    BY <1>4 DEF boot_init_pic, TypeOK
  <2>3. main' \in Phases
    BY <1>4, <1>a DEF boot_init_pic, TypeOK, Goto
  <2> QED
    BY <1>4, <2>1, <2>2, <2>3 DEF TypeOK, IdtTypeOK, PitTypeOK, KbdTypeOK,
       boot_init_pic, CpuIdle, World
<1>5. CASE init_pit
  <2>1. IdtTypeOK'
    <3>1. pit_interrupt_service_routine \in Addresses
      BY KernelAssumption DEF Drivers
    <3> QED
      BY <1>5, <3>1, SetIrType DEF init_pit, IdtTypeOK, TypeOK
  <2>2. PitTypeOK'
    BY <1>5, ProgramPitType DEF init_pit, TypeOK
  <2> QED
    BY <1>5, <1>a, <2>1, <2>2 DEF TypeOK, PicTypeOK, KbdTypeOK, init_pit,
       Goto, CpuIdle, World
<1>6. CASE init_ps2_controller
  <2>1. IdtTypeOK'
    <3>1. keyboard_interrupt_service_routine \in Addresses
      BY KernelAssumption DEF Drivers
    <3> QED
      BY <1>6, <3>1, SetIrType DEF init_ps2_controller, IdtTypeOK, TypeOK
  <2> QED
    BY <1>6, <1>a, <2>1 DEF TypeOK, PicTypeOK, PitTypeOK, KbdTypeOK,
       init_ps2_controller, Goto, CpuIdle, World
<1>7. CASE start
  BY <1>7, <1>a DEF TypeOK, PicTypeOK, IdtTypeOK, PitTypeOK, KbdTypeOK, start,
     Goto, CpuIdle, World
<1>8. CASE enable_Interrupts
  BY <1>8, <1>a DEF TypeOK, PicTypeOK, IdtTypeOK, PitTypeOK, KbdTypeOK,
     enable_Interrupts, Goto, CpuIdle, World
<1> QED
  BY <1>1, <1>2, <1>3, <1>4, <1>5, <1>6, <1>7, <1>8 DEF MainStep

\* The thirteen pushed registers, and where the pops put them.
LEMMA PoppedType ==
  ASSUME TypeOK, NEW saved \in [PushedSet -> PushedSet]
  PROVE  /\ Popped(saved) \in [Registers -> Registers \cup {Junk}]
         /\ \A r \in PushedSet : Popped(saved)[r] \in PushedSet
<1>1. Pushed \in Seq(PushedSet) /\ Len(Pushed) = 13
  <2>1. Len(Pushed) = 13
    BY DEF Pushed
  <2>2. \A i \in 1..13 : Pushed[i] \in PushedSet
    BY DEF PushedSet
  <2>3. Pushed = [i \in 1..13 |-> Pushed[i]]
    BY DEF Pushed
  <2> QED
    BY <2>1, <2>2, <2>3
<1>2. \A r \in PushedSet : r \notin Unsaved
  BY DEF PushedSet, Pushed, Unsaved
<1>3. \A r \in PushedSet : Popped(saved)[r] \in PushedSet
  <2> SUFFICES ASSUME NEW r \in PushedSet PROVE Popped(saved)[r] \in PushedSet
    OBVIOUS
  <2> DEFINE i == CHOOSE i \in 1..13 : Pushed[i] = r
  <2>1. \E k \in 1..13 : Pushed[k] = r
    BY DEF PushedSet
  <2>2. i \in 1..13
    BY <2>1
  <2>3. Popped(saved)[r] = saved[Pushed[14 - i]]
    BY <1>2 DEF Popped, Registers
  <2> HIDE DEF i
  <2>4. 14 - i \in 1..13
    BY <2>2
  <2>5. Pushed[14 - i] \in PushedSet
    BY <2>4 DEF PushedSet
  <2> QED
    BY <2>3, <2>5
<1>4. \A r \in Unsaved : Popped(saved)[r] = regs[r]
  BY DEF Popped, Registers
<1>5. DOMAIN Popped(saved) = Registers /\ Popped(saved) = [r \in Registers |-> Popped(saved)[r]]
  BY DEF Popped
<1>6. \A r \in Registers : Popped(saved)[r] \in Registers \cup {Junk}
  BY <1>3, <1>4 DEF Registers, TypeOK
<1> QED
  BY <1>3, <1>5, <1>6

\* One step of a handler keeps the types.
LEMMA HandlerType == TypeOK /\ HandlerStep => TypeOK'
<1> SUFFICES ASSUME TypeOK, HandlerStep PROVE TypeOK'
  OBVIOUS
<1> USE DEF picVars, idtVars, pitVars, kbdVars
<1>1. CASE helper_calculate_timer
  <2>1. frames' \in Seq(Frame) /\ Len(frames') <= StackFrames
    BY <1>1, MoveTopType DEF helper_calculate_timer, Running, TypeOK
  <2>2. PitTypeOK'
    BY <1>1, CountTickType DEF helper_calculate_timer, TypeOK
  <2>3. /\ regs' \in [Registers -> Registers \cup {Junk}]
        /\ \A r \in PushedSet : regs'[r] \in PushedSet
    <3>1. \A r \in PushedSet : r \in Registers /\ r \notin Unsaved
      BY DEF PushedSet, Pushed, Unsaved, Registers
    <3>2. CASE regs' = regs
      BY <3>2 DEF TypeOK
    <3>3. CASE regs' = [r \in Registers |-> IF r \in Unsaved THEN Junk ELSE regs[r]]
      BY <3>1, <3>3 DEF TypeOK
    <3> QED
      BY <1>1, <3>2, <3>3 DEF helper_calculate_timer
  <2> QED
    BY <1>1, <2>1, <2>2, <2>3 DEF TypeOK, PicTypeOK, IdtTypeOK, KbdTypeOK,
       helper_calculate_timer, HandlerWorld
<1>2. CASE helper_keyboard_handler
  <2>1. frames' \in Seq(Frame) /\ Len(frames') <= StackFrames
    BY <1>2, MoveTopType DEF helper_keyboard_handler, Running, TypeOK
  <2>2. KbdTypeOK'
    <3>1. PICK key \in IF obf = NoByte THEN KeyBytes ELSE {obf} : handle_key(key)
      BY <1>2 DEF helper_keyboard_handler
    <3>2. key \in Nat
      BY <3>1, KernelAssumption DEF TypeOK
    <3> QED
      BY <3>1, <3>2, HandleKeyType DEF TypeOK
  <2> QED
    BY <1>2, <2>1, <2>2 DEF TypeOK, PicTypeOK, IdtTypeOK, PitTypeOK,
       helper_keyboard_handler, HandlerWorld
<1>3. CASE end_handler
  <2>1. frames' \in Seq(Frame) /\ Len(frames') <= StackFrames
    BY <1>3, MoveTopType DEF end_handler, TypeOK
  <2>2. PicTypeOK'
    BY <1>3, HandlerEoiType DEF end_handler, TypeOK, PicTypeOK, Chips
  <2> QED
    BY <1>3, <2>1, <2>2 DEF TypeOK, IdtTypeOK, PitTypeOK, KbdTypeOK,
       end_handler, HandlerWorld
<1>4. CASE iretq
  <2>1. frames \in Seq(Frame) /\ Len(frames) \in Nat \ {0} /\ StackFrames \in Nat
    BY <1>4, KernelAssumption DEF iretq, TypeOK
  <2>2. Top \in Frame
    BY <2>1, ElementOfSeq DEF Top
  <2>3. /\ frames' \in Seq(Frame)
        /\ Len(frames') = Len(frames) - 1
    <3>1. PICK n \in Nat : Len(frames) = n + 1 /\ Len(frames) - 1 = n
      BY <2>1
    <3> QED
      BY <1>4, <2>1, <3>1, FrontType DEF iretq
  <2>4. Len(frames') <= StackFrames
    BY <2>1, <2>3 DEF TypeOK
  <2>5. /\ regs' \in [Registers -> Registers \cup {Junk}]
        /\ \A r \in PushedSet : regs'[r] \in PushedSet
    <3>1. Top.saved \in [PushedSet -> PushedSet] /\ regs' = Popped(Top.saved)
      BY <1>4, <2>2 DEF iretq, Frame
    <3> QED
      BY <3>1, PoppedType
  <2>6. ifl' \in BOOLEAN
    BY <1>4, <2>2 DEF iretq, Frame
  <2> QED
    BY <1>4, <2>3, <2>4, <2>5, <2>6 DEF TypeOK, PicTypeOK, IdtTypeOK, PitTypeOK,
       KbdTypeOK, iretq, HandlerWorld
<1>5. CASE helper_interrupt_service_routine
  <2>1. /\ frames' \in Seq(Frame) /\ Len(frames') <= StackFrames
        /\ ifl' \in BOOLEAN /\ reset' \in BOOLEAN /\ regs' = regs
    BY <1>5, EnterType DEF helper_interrupt_service_routine
  <2> QED
    BY <1>5, <2>1 DEF TypeOK, PicTypeOK, IdtTypeOK, PitTypeOK, KbdTypeOK,
       helper_interrupt_service_routine, HandlerWorld
<1> QED
  BY <1>1, <1>2, <1>3, <1>4, <1>5 DEF HandlerStep

\* An interrupt that is taken, and a device that moves, keep the types.
LEMMA TakeIrqType == \A irq \in Irqs : TypeOK /\ TakeIrq(irq) => TypeOK'
<1> SUFFICES ASSUME NEW irq \in Irqs, TypeOK, TakeIrq(irq) PROVE TypeOK'
  OBVIOUS
<1>1. /\ frames' \in Seq(Frame) /\ Len(frames') <= StackFrames
      /\ ifl' \in BOOLEAN /\ reset' \in BOOLEAN /\ regs' = regs
  BY EnterType DEF TakeIrq
<1>2. pic' \in [Pics -> Chip]
  BY AcknowledgedType DEF TakeIrq, TypeOK, PicTypeOK, Chips
<1> QED
  BY <1>1, <1>2 DEF TypeOK, PicTypeOK, IdtTypeOK, PitTypeOK, KbdTypeOK, TakeIrq,
     idtVars, pitVars, kbdVars

LEMMA DeviceType == TypeOK /\ (PitTick \/ KeyArrives \/ StrayRaises) => TypeOK'
<1> SUFFICES ASSUME TypeOK, PitTick \/ KeyArrives \/ StrayRaises PROVE TypeOK'
  OBVIOUS
<1>1. \E irq \in Irqs : pic' = Raised(pic, irq)
  BY KernelAssumption DEF PitTick, KeyArrives, StrayRaises, Irqs
<1>2. pic' \in [Pics -> Chip]
  BY <1>1, RaisedType DEF TypeOK, PicTypeOK, Chips
<1>3. obf' \in KeyBytes \cup {NoByte}
  BY DEF PitTick, KeyArrives, StrayRaises, TypeOK
<1>4. DevicesOnly
  BY DEF PitTick, KeyArrives, StrayRaises
<1> QED
  BY <1>2, <1>3, <1>4 DEF TypeOK, PicTypeOK, IdtTypeOK, PitTypeOK, KbdTypeOK,
     DevicesOnly, idtVars, pitVars, kbdVars, cpuVars

LEMMA StutterType == TypeOK /\ UNCHANGED vars => TypeOK'
BY DEF TypeOK, PicTypeOK, IdtTypeOK, PitTypeOK, KbdTypeOK, vars, picVars, idtVars,
   pitVars, kbdVars, cpuVars

LEMMA TypeStep == TypeOK /\ [Next]_vars => TypeOK'
BY MainType, HandlerType, TakeIrqType, DeviceType, StutterType DEF Next, spin, Halted

\* The type invariant of the kernel.
THEOREM TypeCorrect == Spec => []TypeOK
BY InitTypeOK, TypeStep, PTL DEF Spec

-----------------------------------------------------------------------------
(* What the invariant says in the states that matter.                      *)

LEMMA DriversDiffer ==
  /\ pit_interrupt_service_routine # keyboard_interrupt_service_routine
  /\ pit_interrupt_service_routine # default_interrupt_service_routine
  /\ keyboard_interrupt_service_routine # default_interrupt_service_routine
  /\ pit_interrupt_service_routine \in Addresses \ {0}
  /\ keyboard_interrupt_service_routine \in Addresses \ {0}
  /\ default_interrupt_service_routine \in Addresses \ {0}
BY KernelAssumption, IdtAssumption DEF Drivers

\* A frame that is not the default handler's is alone, and a driver's.
LEMMA Single ==
  ASSUME KernelInv, frames # <<>>,
         Top.at # "helper" \/ Top.routine # default_interrupt_service_routine
  PROVE  /\ Len(frames) = 1 /\ Top = frames[1]
         /\ main = "spin" /\ ~ifl
         /\ frames[1].routine = RoutineOf(frames[1].source)
         /\ frames[1].source \in {0, 1}
         /\ frames[1].routine # default_interrupt_service_routine
         /\ frames[1].rflags
         /\ frames[1].saved = [r \in PushedSet |-> regs[r]]
<1>1. frames \in Seq(Frame) /\ Len(frames) \in Nat /\ Len(frames) > 0
  BY DEF KernelInv, TypeOK
<1> DEFINE n == Len(frames)
<1>2. n = 1
  <2>1. n \in Nat /\ n > 0 /\ DOMAIN frames = 1..n
    BY <1>1
  <2>2. ~(n > 1 /\ n \in DOMAIN frames)
    BY DEF Top, KernelInv, StackInv
  <2> HIDE DEF n
  <2> QED
    BY <2>1, <2>2
<1>3. Top = frames[1]
  BY <1>2 DEF Top
<1>4. frames[1].routine # default_interrupt_service_routine
  BY <1>3 DEF KernelInv, StackInv
<1>5. frames[1].source \in {0, 1}
  BY <1>4 DEF KernelInv, StackInv, RoutineOf
<1> QED
  BY <1>2, <1>3, <1>4, <1>5 DEF KernelInv, StackInv, BootInv

\* With interrupts on, the controllers and the table are as boot() wanted them.
LEMMA Configured ==
  ASSUME KernelInv, main = "spin"
  PROVE  /\ ControllersConfigured
         /\ Cascaded(pic)
         /\ pic[MASTER_PIC_ID].imr = firmware[1]
         /\ pic[SLAVE_PIC_ID].imr = firmware[2]
         /\ \A irq \in Irqs : VectorOf(pic, irq) = 32 + irq
<1>1. picStep = 11 /\ MasterWords = 5 /\ SlaveWords = 5
  BY DEF KernelInv, PicInv, AfterPic, TimerInstalled, MasterWords, SlaveWords
<1> DEFINE master == pic[MASTER_PIC_ID]
           slave  == pic[SLAVE_PIC_ID]
<1>2. /\ master.expects = "OCW1" /\ slave.expects = "OCW1"
      /\ master.icw2 = PROT_MODE_MASTER_PIC_VECTOR_OFFSET
      /\ slave.icw2 = PROT_MODE_SLAVE_PIC_VECTOR_OFFSET
      /\ master.icw3 = {2} /\ slave.icw3 = {1}
      /\ master.icw4 = icw4 /\ slave.icw4 = icw4
      /\ master.imr = firmware[1] /\ slave.imr = firmware[2]
  BY <1>1 DEF KernelInv, PicInv, Programmed
<1>3. VectorBase(master.icw2) = 32 /\ VectorBase(slave.icw2) = 40
  BY <1>2, Vectors32To47
<1>4. \A irq \in Irqs : VectorOf(pic, irq) = 32 + irq
  BY <1>3 DEF VectorOf, Irqs
<1>5. Cascaded(pic)
  BY <1>2 DEF Cascaded
<1>6. \A c \in Pics : pic[c].expects = "OCW1" /\ PIC_ICW4_MASK_8086 \in pic[c].icw4
  BY <1>2 DEF Pics, icw4
<1> QED
  BY <1>2, <1>3, <1>4, <1>5, <1>6 DEF ControllersConfigured

-----------------------------------------------------------------------------
(* The first state.                                                        *)

LEMMA InitInv == Init => KernelInv
<1> SUFFICES ASSUME Init PROVE KernelInv
  OBVIOUS
<1>1. TypeOK
  BY InitTypeOK
<1>2. BootInv /\ StackInv /\ ServiceInv /\ RequestInv
  <2>1. frames = <<>> /\ DOMAIN frames = {}
    BY DEF Init
  <2>2. pic[MASTER_PIC_ID].isr = {} /\ pic[SLAVE_PIC_ID].isr = {}
        /\ pic[MASTER_PIC_ID].irr = {} /\ pic[SLAVE_PIC_ID].irr = {}
    BY DEF Init, FirmwareChip, Pics, MASTER_PIC_ID, SLAVE_PIC_ID
  <2> QED
    BY <2>1, <2>2 DEF Init, BootInv, BeforePic, StackInv, ServiceInv, InService,
       RequestInv
<1>3. PicInv
  <2>1. picStep = 0 /\ MasterWords = 0 /\ SlaveWords = 0
    BY DEF Init, MasterWords, SlaveWords
  <2>2. /\ pic[MASTER_PIC_ID].expects = "OCW1" /\ pic[SLAVE_PIC_ID].expects = "OCW1"
        /\ pic[MASTER_PIC_ID].imr = firmware[1] /\ pic[SLAVE_PIC_ID].imr = firmware[2]
    BY DEF Init, FirmwareChip, Pics, MASTER_PIC_ID, SLAVE_PIC_ID
  <2>3. main = "cli"
    BY DEF Init
  <2> QED
    BY <2>1, <2>2, <2>3 DEF PicInv, Programmed, BeforePic, AfterPic, TimerInstalled
<1>4. ByteInv
  <2>1. 1 \notin pic[MASTER_PIC_ID].irr
    BY DEF Init, FirmwareChip, Pics, MASTER_PIC_ID
  <2> QED
    BY <2>1 DEF Init, ByteInv, ReadsKey
<1>5. RegistersMirrored
  BY DEF Init, RegistersMirrored, Registers
<1> QED
  BY <1>1, <1>2, <1>3, <1>4, <1>5 DEF KernelInv

-----------------------------------------------------------------------------
(* The words of init_pic.                                                  *)

\* ICW1, and after it the three other initialization words and the mask, take a
\* chip through the stages of its programming.
LEMMA ProgramStart ==
  ASSUME NEW chip \in Chip, NEW relatched \in Byte, NEW base, NEW cascade, NEW mask
  PROVE  /\ Programmed(Icw1(chip, relatched), 1, base, cascade, mask)
         /\ Icw1(chip, relatched).irr = relatched
         /\ Icw1(chip, relatched).isr = {}
BY DEF Programmed, Icw1, Chip

LEMMA ProgramNext ==
  ASSUME NEW chip \in Chip, NEW words \in 1..4, NEW base \in Byte,
         NEW cascade \in Byte, NEW mask \in Byte, NEW data \in Byte,
         Programmed(chip, words, base, cascade, mask),
         words = 1 => data = base, words = 2 => data = cascade,
         words = 3 => data = icw4, words = 4 => data = mask
  PROVE  /\ Programmed(DataWrite(chip, data), words + 1, base, cascade, mask)
         /\ DataWrite(chip, data).irr = chip.irr
         /\ DataWrite(chip, data).isr = chip.isr
<1> DEFINE after == DataWrite(chip, data)
<1>1. CASE words = 1
  <2>1. chip.expects = "ICW2" /\ data = base
    BY <1>1 DEF Programmed
  <2>2. DataWrite(chip, data) = [chip EXCEPT !.icw2 = base, !.expects = "ICW3"]
    BY <2>1 DEF DataWrite
  <2>3. /\ after.expects = "ICW3" /\ after.icw2 = base
        /\ after.icw3 = chip.icw3 /\ after.icw4 = chip.icw4
        /\ after.imr = chip.imr /\ after.irr = chip.irr
        /\ after.isr = chip.isr
    BY <2>2 DEF Chip
  <2>4. words + 1 = 2
    BY <1>1
  <2> HIDE DEF after
  <2>5. Programmed(after, 2, base, cascade, mask)
    BY <1>1, <2>3 DEF Programmed
  <2> QED
    BY <2>3, <2>4, <2>5 DEF after
<1>2. CASE words = 2
  <2>1. chip.expects = "ICW3" /\ data = cascade
    BY <1>2 DEF Programmed
  <2>2. DataWrite(chip, data) = [chip EXCEPT !.icw3 = cascade, !.expects = "ICW4"]
    BY <2>1 DEF DataWrite
  <2>3. /\ after.expects = "ICW4" /\ after.icw2 = chip.icw2
        /\ after.icw3 = cascade /\ after.icw4 = chip.icw4
        /\ after.imr = chip.imr /\ after.irr = chip.irr
        /\ after.isr = chip.isr
    BY <2>2 DEF Chip
  <2>4. words + 1 = 3
    BY <1>2
  <2> HIDE DEF after
  <2>5. Programmed(after, 3, base, cascade, mask)
    BY <1>2, <2>3 DEF Programmed
  <2> QED
    BY <2>3, <2>4, <2>5 DEF after
<1>3. CASE words = 3
  <2>1. chip.expects = "ICW4" /\ data = icw4
    BY <1>3 DEF Programmed
  <2>2. DataWrite(chip, data) = [chip EXCEPT !.icw4 = icw4, !.expects = "OCW1"]
    BY <2>1 DEF DataWrite
  <2>3. /\ after.expects = "OCW1" /\ after.icw2 = chip.icw2
        /\ after.icw3 = chip.icw3 /\ after.icw4 = icw4
        /\ after.imr = chip.imr /\ after.irr = chip.irr
        /\ after.isr = chip.isr
    BY <2>2 DEF Chip
  <2>4. words + 1 = 4
    BY <1>3
  <2> HIDE DEF after
  <2>5. Programmed(after, 4, base, cascade, mask)
    BY <1>3, <2>3 DEF Programmed
  <2> QED
    BY <2>3, <2>4, <2>5 DEF after
<1>4. CASE words = 4
  <2>1. chip.expects = "OCW1" /\ data = mask
    BY <1>4 DEF Programmed
  <2>2. DataWrite(chip, data) = [chip EXCEPT !.imr = mask]
    BY <2>1 DEF DataWrite
  <2>3. /\ after.expects = "OCW1" /\ after.icw2 = chip.icw2
        /\ after.icw3 = chip.icw3 /\ after.icw4 = chip.icw4
        /\ after.imr = mask /\ after.irr = chip.irr
        /\ after.isr = chip.isr
    BY <2>1, <2>2 DEF Chip
  <2>4. words + 1 = 5
    BY <1>4
  <2> HIDE DEF after
  <2>5. Programmed(after, 5, base, cascade, mask)
    BY <1>4, <2>3 DEF Programmed
  <2> QED
    BY <2>3, <2>4, <2>5 DEF after
<1> QED
  BY <1>1, <1>2, <1>3, <1>4

-----------------------------------------------------------------------------
(* The main thread.                                                        *)

LEMMA SetIr ==
  ASSUME NEW table, NEW n \in 0..47, NEW routine, routine # 0
  PROVE  set_ir_in_idt(table, n, routine) =
           [v \in Vectors |-> IF v = n THEN GateOf(routine, INTERRUPT_GATE)
                              ELSE table[v]]
<1>1. ~(n >= MAX_NUM_INTERRUPTS) /\ ~(n > MAX_NUM_INTERRUPTS)
  BY IdtAssumption
<1> QED
  BY <1>1 DEF set_ir_in_idt, set_interrupt_service_routine

\* What a step of the main thread that leaves the controllers alone keeps.
LEMMA Quiet ==
  ASSUME KernelInv, frames = <<>>, ~reset, UNCHANGED <<regs, frames, reset>>,
         UNCHANGED <<obf, firmware, edgeLost>>, UNCHANGED picVars
  PROVE  /\ RequestInv' /\ StackInv' /\ ServiceInv' /\ ByteInv'
         /\ RegistersMirrored'
         /\ (main' \in BeforePic => picStep = 0) /\ (main' = "init_pic" => picStep \in 0..10)
            /\ (main' \in AfterPic => picStep = 11) => PicInv'
<1>1. UNCHANGED <<pic, picStep, master_pic_data, slave_pic_data>>
  BY DEF picVars
<1>2. DOMAIN frames = {}
  OBVIOUS
<1>3. RequestInv' /\ RegistersMirrored'
  BY <1>1 DEF KernelInv, RequestInv, RegistersMirrored
<1>4. StackInv'
  BY <1>2 DEF StackInv
<1>5. ServiceInv' /\ ByteInv'
  BY <1>1 DEF KernelInv, ServiceInv, InService, ByteInv, ReadsKey
<1>6. /\ Programmed(pic[MASTER_PIC_ID], MasterWords,
                    PROT_MODE_MASTER_PIC_VECTOR_OFFSET, {2}, firmware[1])'
      /\ Programmed(pic[SLAVE_PIC_ID], SlaveWords,
                    PROT_MODE_SLAVE_PIC_VECTOR_OFFSET, {1}, firmware[2])'
  BY <1>1 DEF KernelInv, PicInv, Programmed, MasterWords, SlaveWords
<1> QED
  BY <1>1, <1>3, <1>4, <1>5, <1>6 DEF KernelInv, PicInv

LEMMA InitGdtInv == KernelInv /\ (boot_cli \/ init_gdt) => BootInv' /\ PicInv'
<1> SUFFICES ASSUME KernelInv, boot_cli \/ init_gdt PROVE BootInv' /\ PicInv'
  OBVIOUS
<1>1. /\ frames = <<>> /\ ~reset /\ UNCHANGED <<frames, reset>>
      /\ UNCHANGED picVars /\ picStep = 0
      /\ main \in BeforePic /\ main' \in BeforePic
  BY DEF boot_cli, init_gdt, At, Goto, CpuIdle, BeforePic, KernelInv, PicInv
<1>2. PicInv'
  BY <1>1, Quiet DEF boot_cli, init_gdt, CpuIdle, World, BeforePic, AfterPic,
     TimerInstalled
<1> QED
  BY <1>1, <1>2 DEF boot_cli, init_gdt, At, Goto, BootInv, BeforePic, KernelInv

LEMMA InitIdtInv == KernelInv /\ boot_init_Idt => BootInv' /\ PicInv'
<1> SUFFICES ASSUME KernelInv, boot_init_Idt PROVE BootInv' /\ PicInv'
  OBVIOUS
<1>1. /\ frames = <<>> /\ ~reset /\ UNCHANGED <<frames, reset>>
      /\ UNCHANGED picVars /\ picStep = 0
      /\ main = "init_Idt" /\ main' = "init_pic"
  BY DEF boot_init_Idt, At, Goto, CpuIdle, BeforePic, KernelInv, PicInv
<1>2. PicInv'
  BY <1>1, Quiet DEF boot_init_Idt, CpuIdle, World, BeforePic, AfterPic,
     TimerInstalled
<1>3. \A v : RoutineAt(v)' = default_interrupt_service_routine
  BY <1>1 DEF RoutineAt, TimerInstalled, KeyboardInstalled
<1>4. s_Idtd' = [v \in Vectors |-> GateOf(RoutineAt(v)', INTERRUPT_GATE)]
  BY <1>3 DEF boot_init_Idt, init_Idt
<1>5. idtr' /\ gdt' = "kernel" /\ ~ifl'
  BY <1>1 DEF boot_init_Idt, init_Idt, KernelInv, BootInv
<1> QED
  BY <1>1, <1>2, <1>4, <1>5 DEF BootInv

\* Each of the two drivers replaces one gate of the table.
LEMMA DriverInv == KernelInv /\ (init_pit \/ init_ps2_controller) => BootInv' /\ PicInv'
<1> SUFFICES ASSUME KernelInv, init_pit \/ init_ps2_controller
             PROVE  BootInv' /\ PicInv'
  OBVIOUS
<1>1. /\ frames = <<>> /\ ~reset /\ UNCHANGED <<frames, reset>>
      /\ UNCHANGED picVars /\ picStep = 11
      /\ main \in AfterPic /\ main' \in AfterPic /\ main # "spin"
      /\ main \notin BeforePic
  BY DEF init_pit, init_ps2_controller, At, Goto, CpuIdle, AfterPic, TimerInstalled,
     BeforePic, KernelInv, PicInv
<1>2. PicInv'
  BY <1>1, Quiet DEF init_pit, init_ps2_controller, CpuIdle, World, BeforePic,
     AfterPic, TimerInstalled
<1>3. /\ idtr' /\ gdt' = "kernel" /\ ~ifl'
      /\ s_Idtd = [v \in Vectors |-> GateOf(RoutineAt(v), INTERRUPT_GATE)]
  <2>1. UNCHANGED <<idtr, gdt, ifl>>
    BY DEF init_pit, init_ps2_controller
  <2> QED
    BY <1>1, <2>1 DEF KernelInv, BootInv, BeforePic
<1>4. /\ pit_interrupt_service_routine # 0
      /\ keyboard_interrupt_service_routine # 0
  BY DriversDiffer
<1>5. s_Idtd' = [v \in Vectors |-> GateOf(RoutineAt(v)', INTERRUPT_GATE)]
  <2>1. CASE init_pit
    <3>1. main = "init_pit" /\ main' = "init_ps2_controller"
      BY <2>1 DEF init_pit, At, Goto
    <3>2. \A v : RoutineAt(v)' = IF v = 32 THEN pit_interrupt_service_routine
                                           ELSE RoutineAt(v)
      BY <3>1 DEF RoutineAt, TimerInstalled, KeyboardInstalled
    <3>3. s_Idtd' = [v \in Vectors |->
                       IF v = 32 THEN GateOf(pit_interrupt_service_routine,
                                             INTERRUPT_GATE) ELSE s_Idtd[v]]
      <4>1. s_Idtd' = set_ir_in_idt(s_Idtd, 32, pit_interrupt_service_routine)
        BY <2>1 DEF init_pit
      <4>2. 32 \in 0..47
        OBVIOUS
      <4> QED
        BY <4>1, <4>2, <1>4, SetIr
    <3> QED
      BY <1>3, <3>2, <3>3
  <2>2. CASE init_ps2_controller
    <3>1. main = "init_ps2_controller" /\ main' = "start"
      BY <2>2 DEF init_ps2_controller, At, Goto
    <3>2. \A v : RoutineAt(v)' = IF v = 33 THEN keyboard_interrupt_service_routine
                                           ELSE RoutineAt(v)
      BY <3>1 DEF RoutineAt, TimerInstalled, KeyboardInstalled
    <3>3. s_Idtd' = [v \in Vectors |->
                       IF v = 33 THEN GateOf(keyboard_interrupt_service_routine,
                                             INTERRUPT_GATE) ELSE s_Idtd[v]]
      BY <2>2, <1>4, SetIr DEF init_ps2_controller
    <3> QED
      BY <1>3, <3>2, <3>3
  <2> QED
    BY <2>1, <2>2
<1> QED
  BY <1>1, <1>2, <1>3, <1>5 DEF BootInv

LEMMA StartInv == KernelInv /\ (start \/ enable_Interrupts) => BootInv' /\ PicInv'
<1> SUFFICES ASSUME KernelInv, start \/ enable_Interrupts PROVE BootInv' /\ PicInv'
  OBVIOUS
<1>1. /\ frames = <<>> /\ ~reset /\ UNCHANGED <<frames, reset>>
      /\ UNCHANGED picVars /\ picStep = 11
      /\ main \in KeyboardInstalled /\ main' \in KeyboardInstalled /\ main # "spin"
      /\ main \notin BeforePic
  BY DEF start, enable_Interrupts, At, Goto, CpuIdle, AfterPic, TimerInstalled,
     KeyboardInstalled, BeforePic, KernelInv, PicInv
<1>2. PicInv'
  BY <1>1, Quiet DEF start, enable_Interrupts, CpuIdle, World, BeforePic,
     AfterPic, TimerInstalled, KeyboardInstalled
<1>3. \A v : RoutineAt(v)' = RoutineAt(v)
  BY <1>1 DEF RoutineAt, KeyboardInstalled
<1>4. /\ s_Idtd = [v \in Vectors |-> GateOf(RoutineAt(v), INTERRUPT_GATE)]
      /\ idtr /\ gdt = "kernel" /\ UNCHANGED <<s_Idtd, idtr, gdt>> /\ ~ifl
  BY <1>1 DEF start, enable_Interrupts, KernelInv, BootInv, BeforePic, idtVars
<1>5. s_Idtd' = [v \in Vectors |-> GateOf(RoutineAt(v)', INTERRUPT_GATE)]
  BY <1>3, <1>4
<1>6. main' # "spin" => ~ifl'
  BY <1>4 DEF start, enable_Interrupts, Goto
<1> QED
  BY <1>1, <1>2, <1>4, <1>5, <1>6 DEF BootInv

-----------------------------------------------------------------------------
(* init_pic, word by word.                                                 *)

LEMMA Bytes ==
  /\ icw1 \in Byte /\ icw4 \in Byte /\ {1} \in Byte /\ {2} \in Byte /\ {} \in Byte
  /\ PROT_MODE_MASTER_PIC_VECTOR_OFFSET \in Byte
  /\ PROT_MODE_SLAVE_PIC_VECTOR_OFFSET \in Byte
BY DEF Byte, Lines, icw1, icw4, PIC_ICW1_MASK_INIT, PIC_ICW1_MASK_ICW4,
   PIC_ICW4_MASK_8086, PROT_MODE_MASTER_PIC_VECTOR_OFFSET,
   PROT_MODE_SLAVE_PIC_VECTOR_OFFSET

LEMMA FirmwareBytes == TypeOK => firmware[1] \in Byte /\ firmware[2] \in Byte
<1> SUFFICES ASSUME TypeOK PROVE firmware[1] \in Byte /\ firmware[2] \in Byte
  OBVIOUS
<1>1. firmware \in Byte \X Byte
  BY KernelAssumption DEF TypeOK
<1> QED
  BY <1>1

\* The words of init_pic come in pairs, the master's first.
LEMMA Script ==
  ASSUME NEW m \in 1..4
  PROVE  /\ init_writes[2 * m + 1].to = MASTER_PIC_ID
         /\ LET word == init_writes[2 * m + 1].word IN
              /\ m = 1 => word = PROT_MODE_MASTER_PIC_VECTOR_OFFSET
              /\ m = 2 => word = {2}
              /\ m = 3 => word = icw4
              /\ m = 4 => word = master_pic_data
         /\ init_writes[2 * m + 2].to = SLAVE_PIC_ID
         /\ LET word == init_writes[2 * m + 2].word IN
              /\ m = 1 => word = PROT_MODE_SLAVE_PIC_VECTOR_OFFSET
              /\ m = 2 => word = {1}
              /\ m = 3 => word = icw4
              /\ m = 4 => word = slave_pic_data
<1>1. CASE m = 1
  BY <1>1 DEF init_writes
<1>2. CASE m = 2
  BY <1>2 DEF init_writes
<1>3. CASE m = 3
  BY <1>3 DEF init_writes
<1>4. CASE m = 4
  BY <1>4 DEF init_writes
<1> QED
  BY <1>1, <1>2, <1>3, <1>4

LEMMA Halves ==
  /\ 1 \div 2 = 0 /\ 0 \div 2 = 0
  /\ \A m \in 1..4 : /\ (2 * m) \div 2 = m
                     /\ (2 * m + 1) \div 2 = m
                     /\ (2 * m + 2) \div 2 = m + 1
                     /\ (2 * m + 3) \div 2 = m + 1
                     /\ 2 * m + 1 - 1 = 2 * m /\ 2 * m + 2 - 1 = 2 * m + 1
                     /\ 2 * m + 3 - 1 = 2 * m + 2
OBVIOUS

\* A data word keeps requests and services, and takes its chip one stage on.
LEMMA DataWord ==
  ASSUME KernelInv, picStep > 2, WriteWord(HighLines), UNCHANGED firmware
  PROVE  /\ \A c \in Pics : pic'[c].irr = pic[c].irr /\ pic'[c].isr = pic[c].isr
         /\ Programmed(pic[MASTER_PIC_ID], MasterWords,
                       PROT_MODE_MASTER_PIC_VECTOR_OFFSET, {2}, firmware[1])'
         /\ Programmed(pic[SLAVE_PIC_ID], SlaveWords,
                       PROT_MODE_SLAVE_PIC_VECTOR_OFFSET, {1}, firmware[2])'
<1> DEFINE w == init_writes[picStep]
           master(words) == Programmed(pic[MASTER_PIC_ID], words,
                              PROT_MODE_MASTER_PIC_VECTOR_OFFSET, {2}, firmware[1])
           slave(words) == Programmed(pic[SLAVE_PIC_ID], words,
                              PROT_MODE_SLAVE_PIC_VECTOR_OFFSET, {1}, firmware[2])
<1>1. /\ pic \in Chips /\ \A c \in Pics : pic[c] \in Chip
      /\ MASTER_PIC_ID \in Pics /\ SLAVE_PIC_ID \in Pics
      /\ MASTER_PIC_ID # SLAVE_PIC_ID
  BY DEF KernelInv, TypeOK, PicTypeOK, Chips, Pics, MASTER_PIC_ID, SLAVE_PIC_ID
<1>2. /\ master_pic_data = firmware[1] /\ slave_pic_data = firmware[2]
      /\ firmware[1] \in Byte /\ firmware[2] \in Byte
  <2>1. picStep > 0
    BY DEF KernelInv, TypeOK, PicTypeOK
  <2> QED
    BY <2>1, FirmwareBytes DEF KernelInv, PicInv
<1>3. /\ master(MasterWords) /\ slave(SlaveWords)
  BY DEF KernelInv, PicInv
<1>4. /\ picStep \in 3..10 /\ picStep' = picStep + 1
      /\ pic' = write_data_to_pic(pic, w.word, w.to)
  BY DEF WriteWord
<1>5. w.to \in Pics /\ w.word \in Byte
  BY <1>2, <1>4, InitWritesType
<1>6. pic' = [pic EXCEPT ![w.to] = DataWrite(pic[w.to], w.word)]
  BY <1>1, <1>4, <1>5, DataPortType
<1>7. PICK m \in 1..4 : picStep = 2 * m + 1 \/ picStep = 2 * m + 2
  BY <1>4
<1>8. CASE picStep = 2 * m + 1
  <2>1. MasterWords = m /\ MasterWords' = m + 1 /\ SlaveWords = m /\ SlaveWords' = m
    BY <1>4, <1>8, Halves DEF MasterWords, SlaveWords
  <2>2. /\ w.to = MASTER_PIC_ID
        /\ m = 1 => w.word = PROT_MODE_MASTER_PIC_VECTOR_OFFSET
        /\ m = 2 => w.word = {2}
        /\ m = 3 => w.word = icw4
        /\ m = 4 => w.word = firmware[1]
    BY <1>2, <1>8, Script
  <2> HIDE DEF w
  <2>3. /\ pic'[MASTER_PIC_ID] = DataWrite(pic[MASTER_PIC_ID], w.word)
        /\ pic'[SLAVE_PIC_ID] = pic[SLAVE_PIC_ID]
    BY <1>1, <1>6, <2>2 DEF Chips
  <2>4. master(m)
    BY <1>3, <2>1
  <2>5. /\ Programmed(pic'[MASTER_PIC_ID], m + 1,
                      PROT_MODE_MASTER_PIC_VECTOR_OFFSET, {2}, firmware[1])
        /\ pic'[MASTER_PIC_ID].irr = pic[MASTER_PIC_ID].irr
        /\ pic'[MASTER_PIC_ID].isr = pic[MASTER_PIC_ID].isr
    <3> DEFINE chip == pic[MASTER_PIC_ID]
               data == w.word
               base == PROT_MODE_MASTER_PIC_VECTOR_OFFSET
               line == {2}
               mask == firmware[1]
    <3>1. /\ chip \in Chip /\ data \in Byte /\ mask \in Byte
          /\ base \in Byte /\ line \in Byte
          /\ Programmed(chip, m, base, line, mask)
          /\ m = 1 => data = base
          /\ m = 2 => data = line
          /\ m = 3 => data = icw4
          /\ m = 4 => data = mask
      BY <1>1, <1>2, <1>5, <2>2, <2>4, Bytes
    <3>2. pic'[MASTER_PIC_ID] = DataWrite(chip, data)
      BY <2>3
    <3> HIDE DEF chip, data, mask, base, line
    <3>3. /\ Programmed(DataWrite(chip, data), m + 1, base, line, mask)
          /\ DataWrite(chip, data).irr = chip.irr
          /\ DataWrite(chip, data).isr = chip.isr
      BY <3>1, ProgramNext
    <3> QED
      BY <3>2, <3>3 DEF chip, mask, base, line
  <2> QED
    BY <1>3, <2>1, <2>3, <2>5 DEF Pics
<1>9. CASE picStep = 2 * m + 2
  <2>1. MasterWords = m + 1 /\ MasterWords' = m + 1
        /\ SlaveWords = m /\ SlaveWords' = m + 1
    BY <1>4, <1>9, Halves DEF MasterWords, SlaveWords
  <2>2. /\ w.to = SLAVE_PIC_ID
        /\ m = 1 => w.word = PROT_MODE_SLAVE_PIC_VECTOR_OFFSET
        /\ m = 2 => w.word = {1}
        /\ m = 3 => w.word = icw4
        /\ m = 4 => w.word = firmware[2]
    BY <1>2, <1>9, Script
  <2> HIDE DEF w
  <2>3. /\ pic'[SLAVE_PIC_ID] = DataWrite(pic[SLAVE_PIC_ID], w.word)
        /\ pic'[MASTER_PIC_ID] = pic[MASTER_PIC_ID]
    BY <1>1, <1>6, <2>2 DEF Chips
  <2>4. slave(m)
    BY <1>3, <2>1
  <2>5. /\ Programmed(pic'[SLAVE_PIC_ID], m + 1,
                      PROT_MODE_SLAVE_PIC_VECTOR_OFFSET, {1}, firmware[2])
        /\ pic'[SLAVE_PIC_ID].irr = pic[SLAVE_PIC_ID].irr
        /\ pic'[SLAVE_PIC_ID].isr = pic[SLAVE_PIC_ID].isr
    <3> DEFINE chip == pic[SLAVE_PIC_ID]
               data == w.word
               base == PROT_MODE_SLAVE_PIC_VECTOR_OFFSET
               line == {1}
               mask == firmware[2]
    <3>1. /\ chip \in Chip /\ data \in Byte /\ mask \in Byte
          /\ base \in Byte /\ line \in Byte
          /\ Programmed(chip, m, base, line, mask)
          /\ m = 1 => data = base
          /\ m = 2 => data = line
          /\ m = 3 => data = icw4
          /\ m = 4 => data = mask
      BY <1>1, <1>2, <1>5, <2>2, <2>4, Bytes
    <3>2. pic'[SLAVE_PIC_ID] = DataWrite(chip, data)
      BY <2>3
    <3> HIDE DEF chip, data, mask, base, line
    <3>3. /\ Programmed(DataWrite(chip, data), m + 1, base, line, mask)
          /\ DataWrite(chip, data).irr = chip.irr
          /\ DataWrite(chip, data).isr = chip.isr
      BY <3>1, ProgramNext
    <3> QED
      BY <3>2, <3>3 DEF chip, mask, base, line
  <2> QED
    BY <1>3, <2>1, <2>3, <2>5 DEF Pics
<1> QED
  BY <1>7, <1>8, <1>9

LEMMA WriteIcw1 ==
  ASSUME NEW chips \in Chips, NEW c \in Pics, NEW relatched \in Byte
  PROVE  write_command_word_to_pic(chips, icw1, c, relatched) =
           [chips EXCEPT ![c] = Icw1(chips[c], relatched)]
<1>1. icw1 \in Byte
  BY Bytes
<1> QED
  BY <1>1, CommandPortType, CommandIcw1

\* The two commands start the initialization; only the master may find a line
\* that is still high, the keyboard's.
LEMMA CommandWord ==
  ASSUME KernelInv, WriteWord(HighLines), picStep \in {1, 2}
  PROVE  /\ picStep = 1 =>
              /\ \E relatched \in SUBSET HighLines[MASTER_PIC_ID] :
                   pic'[MASTER_PIC_ID] = Icw1(pic[MASTER_PIC_ID], relatched)
              /\ pic'[SLAVE_PIC_ID] = pic[SLAVE_PIC_ID]
         /\ picStep = 2 =>
              /\ pic'[SLAVE_PIC_ID] = Icw1(pic[SLAVE_PIC_ID], {})
              /\ pic'[MASTER_PIC_ID] = pic[MASTER_PIC_ID]
<1>1. /\ pic \in Chips /\ MASTER_PIC_ID \in Pics /\ SLAVE_PIC_ID \in Pics
      /\ MASTER_PIC_ID # SLAVE_PIC_ID
  BY DEF KernelInv, TypeOK, PicTypeOK, Chips, Pics, MASTER_PIC_ID, SLAVE_PIC_ID
<1>2. /\ HighLines[MASTER_PIC_ID] \subseteq {1}
      /\ HighLines[SLAVE_PIC_ID] = {}
  BY DEF HighLines, Pics, MASTER_PIC_ID, SLAVE_PIC_ID
<1>3. /\ init_writes[1].to = MASTER_PIC_ID /\ init_writes[1].word = icw1
      /\ init_writes[2].to = SLAVE_PIC_ID /\ init_writes[2].word = icw1
  BY DEF init_writes
<1>4. {1} \in Byte /\ {} \in Byte /\ icw1 \in Byte
  BY Bytes
<1>5. PICK relatched \in SUBSET HighLines[init_writes[picStep].to] :
        pic' = write_command_word_to_pic(pic, init_writes[picStep].word,
                                         init_writes[picStep].to, relatched)
  BY DEF WriteWord
<1>6. CASE picStep = 1
  <2>1. relatched \in SUBSET HighLines[MASTER_PIC_ID] /\ relatched \in Byte
    BY <1>2, <1>3, <1>5, <1>6 DEF Byte, Lines
  <2>2. pic' = write_command_word_to_pic(pic, icw1, MASTER_PIC_ID, relatched)
    BY <1>3, <1>5, <1>6
  <2>3. pic' = [pic EXCEPT ![MASTER_PIC_ID] = Icw1(pic[MASTER_PIC_ID], relatched)]
    BY <1>1, <2>1, <2>2, WriteIcw1
  <2> QED
    BY <1>1, <1>6, <2>1, <2>3 DEF Chips
<1>7. CASE picStep = 2
  <2>1. relatched = {}
    BY <1>2, <1>3, <1>5, <1>7
  <2>2. pic' = write_command_word_to_pic(pic, icw1, SLAVE_PIC_ID, {})
    BY <1>3, <1>5, <1>7, <2>1
  <2>3. pic' = [pic EXCEPT ![SLAVE_PIC_ID] = Icw1(pic[SLAVE_PIC_ID], {})]
    BY <1>1, <1>4, <2>2, WriteIcw1
  <2> QED
    BY <1>1, <1>7, <2>3 DEF Chips
<1> QED
  BY <1>6, <1>7

\* What init_pic does to the chips and to the history of the forgotten key.
LEMMA InitPicChips ==
  ASSUME KernelInv, boot_init_pic
  PROVE  /\ PicInv' /\ RequestInv' /\ ByteInv'
         /\ \A c \in Pics : pic'[c].isr = {}
<1> DEFINE M == MASTER_PIC_ID
           S == SLAVE_PIC_ID
<1>1. /\ frames = <<>> /\ frames' = <<>> /\ ~reset /\ main = "init_pic"
      /\ UNCHANGED <<firmware, obf>> /\ picStep \in 0..10
      /\ pic \in Chips /\ M \in Pics /\ S \in Pics /\ M # S
  BY DEF boot_init_pic, At, CpuIdle, World, KernelInv, PicInv, TypeOK, PicTypeOK,
     Chips, Pics, MASTER_PIC_ID, SLAVE_PIC_ID
<1>2. \A c \in Pics : pic[c].isr = {}
  BY <1>1 DEF KernelInv, ServiceInv, InService, Pics
<1>3. picStep' = picStep + 1
  BY DEF boot_init_pic, init_pic, ReadMasks, WriteWord
<1>4. /\ main' = IF picStep = 10 THEN "init_pit" ELSE "init_pic"
  BY <1>1, <1>3 DEF boot_init_pic, Goto
<1>5. /\ (obf # NoByte /\ ~edgeLost) <=> 1 \in pic[M].irr
      /\ edgeLost => obf # NoByte /\ picStep > 1
  BY <1>1 DEF KernelInv, ByteInv, ReadsKey
<1>6. /\ Programmed(pic[M], MasterWords, PROT_MODE_MASTER_PIC_VECTOR_OFFSET, {2},
                    firmware[1])
      /\ Programmed(pic[S], SlaveWords, PROT_MODE_SLAVE_PIC_VECTOR_OFFSET, {1},
                    firmware[2])
  BY DEF KernelInv, PicInv
<1>7. SUFFICES
      /\ Programmed(pic[M], MasterWords, PROT_MODE_MASTER_PIC_VECTOR_OFFSET, {2},
                    firmware[1])'
      /\ Programmed(pic[S], SlaveWords, PROT_MODE_SLAVE_PIC_VECTOR_OFFSET, {1},
                    firmware[2])'
      /\ master_pic_data' = firmware[1] /\ slave_pic_data' = firmware[2]
      /\ \A c \in Pics : pic'[c].irr \subseteq pic[c].irr \cup {1} /\ pic'[c].isr = {}
      /\ pic'[S].irr \subseteq pic[S].irr
      /\ (obf # NoByte /\ ~edgeLost') <=> 1 \in pic'[M].irr
      /\ edgeLost' => obf # NoByte /\ picStep' > 1
  <2>1. PicInv'
    BY <1>1, <1>3, <1>4, <1>7 DEF PicInv, BeforePic, AfterPic, TimerInstalled
  <2>2. RequestInv'
    BY <1>1, <1>7 DEF RequestInv, KernelInv
  <2>3. ByteInv'
    BY <1>1, <1>7 DEF ByteInv, ReadsKey
  <2> QED
    BY <1>7, <2>1, <2>2, <2>3
<1>8. edgeLost' <=> (edgeLost \/ (picStep = 1 /\ obf # NoByte /\ 1 \notin pic'[M].irr))
  BY DEF boot_init_pic
<1>9. CASE picStep = 0
  <2>1. ReadMasks
    BY <1>9 DEF boot_init_pic, init_pic, WriteWord
  <2>2. /\ MasterWords = 0 /\ MasterWords' = 0 /\ SlaveWords = 0 /\ SlaveWords' = 0
    BY <1>3, <1>9, Halves DEF MasterWords, SlaveWords
  <2>3. pic' = pic /\ master_pic_data' = firmware[1] /\ slave_pic_data' = firmware[2]
    BY <1>6, <2>1, <2>2 DEF ReadMasks, read_data_from_pic, Programmed
  <2>4. /\ Programmed(pic[M], MasterWords, PROT_MODE_MASTER_PIC_VECTOR_OFFSET, {2},
                      firmware[1])'
        /\ Programmed(pic[S], SlaveWords, PROT_MODE_SLAVE_PIC_VECTOR_OFFSET, {1},
                      firmware[2])'
    BY <1>1, <1>6, <2>2, <2>3
  <2>5. /\ (obf # NoByte /\ ~edgeLost') <=> 1 \in pic'[M].irr
        /\ edgeLost' => obf # NoByte /\ picStep' > 1
    BY <1>5, <1>8, <1>9, <2>3
  <2> QED
    BY <1>2, <2>3, <2>4, <2>5
<1>10. CASE picStep > 0
  <2>1. WriteWord(HighLines)
    BY <1>10 DEF boot_init_pic, init_pic, ReadMasks
  <2>2. master_pic_data' = firmware[1] /\ slave_pic_data' = firmware[2]
    BY <1>10, <2>1 DEF WriteWord, KernelInv, PicInv
  <2>3. CASE picStep = 1
    <3>1. PICK relatched \in SUBSET HighLines[M] : pic'[M] = Icw1(pic[M], relatched)
      BY <2>1, <2>3, CommandWord
    <3>2. pic'[S] = pic[S]
      BY <2>1, <2>3, CommandWord
    <3>3. relatched \subseteq {1} /\ (obf = NoByte => relatched = {})
          /\ relatched \in Byte
      BY <3>1 DEF HighLines, Pics, MASTER_PIC_ID, Byte, Lines
    <3>4. /\ MasterWords' = 1 /\ SlaveWords = 0 /\ SlaveWords' = 0
      BY <1>3, <2>3, Halves DEF MasterWords, SlaveWords
    <3>5. /\ Programmed(pic'[M], 1, PROT_MODE_MASTER_PIC_VECTOR_OFFSET, {2},
                        firmware[1])
          /\ pic'[M].irr = relatched /\ pic'[M].isr = {}
      BY <1>1, <3>1, <3>3, ProgramStart DEF Chips
    <3>6. /\ Programmed(pic[M], MasterWords, PROT_MODE_MASTER_PIC_VECTOR_OFFSET,
                        {2}, firmware[1])'
          /\ Programmed(pic[S], SlaveWords, PROT_MODE_SLAVE_PIC_VECTOR_OFFSET,
                        {1}, firmware[2])'
      BY <1>1, <1>6, <3>2, <3>4, <3>5
    <3>7. /\ (obf # NoByte /\ ~edgeLost') <=> 1 \in pic'[M].irr
          /\ edgeLost' => obf # NoByte /\ picStep' > 1
      BY <1>3, <1>5, <1>8, <2>3, <3>3, <3>5
    <3>8. /\ \A c \in Pics : pic'[c].irr \subseteq pic[c].irr \cup {1} /\ pic'[c].isr = {}
          /\ pic'[S].irr \subseteq pic[S].irr
      BY <1>1, <1>2, <3>2, <3>3, <3>5 DEF Pics
    <3> QED
      BY <2>2, <3>6, <3>7, <3>8
  <2>4. CASE picStep = 2
    <3>1. pic'[M] = pic[M] /\ pic'[S] = Icw1(pic[S], {})
      BY <2>1, <2>4, CommandWord
    <3>2. MasterWords = 1 /\ MasterWords' = 1 /\ SlaveWords' = 1
      <4>1. 2 \div 2 = 1 /\ 3 \div 2 = 1 /\ (3 - 1) \div 2 = 1
        OBVIOUS
      <4> QED
        BY <1>3, <2>4, <4>1 DEF MasterWords, SlaveWords
    <3>3. /\ Programmed(pic'[S], 1, PROT_MODE_SLAVE_PIC_VECTOR_OFFSET, {1},
                        firmware[2])
          /\ pic'[S].irr = {} /\ pic'[S].isr = {}
      BY <1>1, <3>1, Bytes, ProgramStart DEF Chips
    <3>4. /\ Programmed(pic[M], MasterWords, PROT_MODE_MASTER_PIC_VECTOR_OFFSET,
                        {2}, firmware[1])'
          /\ Programmed(pic[S], SlaveWords, PROT_MODE_SLAVE_PIC_VECTOR_OFFSET,
                        {1}, firmware[2])'
      BY <1>1, <1>6, <3>1, <3>2, <3>3
    <3>5. /\ (obf # NoByte /\ ~edgeLost') <=> 1 \in pic'[M].irr
          /\ edgeLost' => obf # NoByte /\ picStep' > 1
      BY <1>3, <1>5, <1>8, <2>4, <3>1
    <3>6. /\ \A c \in Pics : pic'[c].irr \subseteq pic[c].irr \cup {1} /\ pic'[c].isr = {}
          /\ pic'[S].irr \subseteq pic[S].irr
      BY <1>1, <1>2, <3>1, <3>3 DEF Pics
    <3> QED
      BY <2>2, <3>4, <3>5, <3>6
  <2>5. CASE picStep > 2
    <3>1. /\ \A c \in Pics : pic'[c].irr = pic[c].irr /\ pic'[c].isr = pic[c].isr
          /\ Programmed(pic[M], MasterWords, PROT_MODE_MASTER_PIC_VECTOR_OFFSET,
                        {2}, firmware[1])'
          /\ Programmed(pic[S], SlaveWords, PROT_MODE_SLAVE_PIC_VECTOR_OFFSET,
                        {1}, firmware[2])'
      BY <1>1, <2>1, <2>5, DataWord
    <3>2. /\ (obf # NoByte /\ ~edgeLost') <=> 1 \in pic'[M].irr
          /\ edgeLost' => obf # NoByte /\ picStep' > 1
      <4>1. picStep' > 1 /\ (edgeLost' <=> edgeLost)
        BY <1>1, <1>3, <1>5, <1>8, <2>5
      <4> QED
        BY <1>1, <1>5, <3>1, <4>1
    <3> QED
      BY <1>1, <1>2, <2>2, <3>1, <3>2
  <2> QED
    BY <1>1, <1>10, <2>3, <2>4, <2>5
<1> QED
  BY <1>1, <1>9, <1>10

LEMMA InitPicRest ==
  ASSUME KernelInv, boot_init_pic
  PROVE  BootInv' /\ StackInv' /\ ServiceInv' /\ RegistersMirrored'
<1>1. /\ frames = <<>> /\ frames' = <<>> /\ ~reset /\ ~reset' /\ regs' = regs
      /\ main = "init_pic" /\ main' \in {"init_pic", "init_pit"}
      /\ UNCHANGED <<s_Idtd, idtr, gdt, ifl>>
  BY DEF boot_init_pic, At, Goto, CpuIdle, idtVars
<1>2. BootInv'
  <2>1. \A v : RoutineAt(v)' = RoutineAt(v)
    BY <1>1 DEF RoutineAt, TimerInstalled, KeyboardInstalled
  <2>2. /\ s_Idtd = [v \in Vectors |-> GateOf(RoutineAt(v), INTERRUPT_GATE)]
        /\ idtr /\ gdt = "kernel" /\ ~ifl
    BY <1>1 DEF KernelInv, BootInv, BeforePic
  <2>3. s_Idtd' = [v \in Vectors |-> GateOf(RoutineAt(v)', INTERRUPT_GATE)]
    BY <1>1, <2>1, <2>2
  <2> QED
    BY <1>1, <2>2, <2>3 DEF BootInv
<1>3. StackInv'
  <2>1. DOMAIN frames' = {}
    BY <1>1
  <2> QED
    BY <1>1, <2>1 DEF StackInv
<1>4. ServiceInv'
  BY <1>1, InitPicChips DEF ServiceInv, InService, Pics
<1>5. RegistersMirrored'
  BY <1>1 DEF KernelInv, RegistersMirrored
<1> QED
  BY <1>2, <1>3, <1>4, <1>5

LEMMA MainInv == KernelInv /\ MainStep => KernelInv'
<1> SUFFICES ASSUME KernelInv, MainStep PROVE KernelInv'
  OBVIOUS
<1>1. TypeOK'
  BY MainType DEF KernelInv
<1>2. CASE boot_init_pic
  BY <1>1, <1>2, InitPicChips, InitPicRest DEF KernelInv
<1>3. CASE ~boot_init_pic
  <2>1. /\ frames = <<>> /\ ~reset /\ UNCHANGED <<regs, frames, reset>>
        /\ UNCHANGED <<obf, firmware, edgeLost>> /\ UNCHANGED picVars
    BY <1>3 DEF MainStep, boot_cli, init_gdt, boot_init_Idt, init_pit,
       init_ps2_controller, start, enable_Interrupts, At, CpuIdle, World
  <2>2. RequestInv' /\ StackInv' /\ ServiceInv' /\ ByteInv' /\ RegistersMirrored'
    BY <2>1, Quiet
  <2>3. BootInv' /\ PicInv'
    BY <1>3, InitGdtInv, InitIdtInv, DriverInv, StartInv DEF MainStep
  <2> QED
    BY <1>1, <2>2, <2>3 DEF KernelInv
<1> QED
  BY <1>2, <1>3

-----------------------------------------------------------------------------
(* The devices.                                                            *)

\* A line that is raised sets one request bit and nothing else.
LEMMA RaisedFacts ==
  ASSUME NEW chips \in Chips, NEW irq \in Irqs
  PROVE  /\ \A c \in Pics : Raised(chips, irq)[c] =
              [chips[c] EXCEPT !.irr = Raised(chips, irq)[c].irr]
         /\ Raised(chips, irq)[MASTER_PIC_ID].irr =
              chips[MASTER_PIC_ID].irr \cup (IF irq < 8 THEN {irq} ELSE {})
         /\ Raised(chips, irq)[SLAVE_PIC_ID].irr =
              chips[SLAVE_PIC_ID].irr \cup (IF irq < 8 THEN {} ELSE {irq - 8})
<1>1. CASE irq < 8
  BY <1>1 DEF Raised, Chips, Chip, Pics, MASTER_PIC_ID, SLAVE_PIC_ID
<1>2. CASE ~(irq < 8)
  BY <1>2 DEF Raised, Chips, Chip, Pics, MASTER_PIC_ID, SLAVE_PIC_ID
<1> QED
  BY <1>1, <1>2

LEMMA DeviceInv == KernelInv /\ (PitTick \/ KeyArrives \/ StrayRaises) => KernelInv'
<1> SUFFICES ASSUME KernelInv, PitTick \/ KeyArrives \/ StrayRaises PROVE KernelInv'
  OBVIOUS
<1> DEFINE M == MASTER_PIC_ID
           S == SLAVE_PIC_ID
<1>1. TypeOK'
  BY DeviceType DEF KernelInv
<1>2. PICK irq \in {0, 1} \cup StrayIrqs :
        /\ pic' = Raised(pic, irq)
        /\ (irq = 1 => obf = NoByte /\ obf' # NoByte) /\ (irq # 1 => obf' = obf)
  <2>1. CASE PitTick
    <3>1. pic' = Raised(pic, 0) /\ obf' = obf
      BY <2>1 DEF PitTick
    <3> QED
      BY <3>1
  <2>2. CASE KeyArrives
    <3>1. pic' = Raised(pic, 1) /\ obf = NoByte /\ obf' # NoByte
      BY <2>2, KernelAssumption DEF KeyArrives
    <3> QED
      BY <3>1
  <2>3. CASE StrayRaises
    <3>1. PICK irq \in StrayIrqs : pic' = Raised(pic, irq) /\ obf' = obf
      BY <2>3 DEF StrayRaises
    <3>2. irq # 1
      BY KernelAssumption
    <3> QED
      BY <3>1, <3>2
  <2> QED
    BY <2>1, <2>2, <2>3
<1>3. irq \in Irqs /\ pic \in Chips /\ M \in Pics /\ S \in Pics
  BY KernelAssumption DEF Irqs, KernelInv, TypeOK, PicTypeOK, Chips, Pics
<1>4. UNCHANGED <<picStep, master_pic_data, slave_pic_data, s_Idtd, idtr, ifl, regs,
                  frames, reset, main, gdt, firmware, edgeLost>>
  BY DEF PitTick, KeyArrives, StrayRaises, DevicesOnly, idtVars, cpuVars
<1>5. /\ pic'[M] = [pic[M] EXCEPT !.irr = pic'[M].irr]
      /\ pic'[S] = [pic[S] EXCEPT !.irr = pic'[S].irr]
      /\ pic'[M].irr = pic[M].irr \cup (IF irq < 8 THEN {irq} ELSE {})
      /\ pic'[S].irr = pic[S].irr \cup (IF irq < 8 THEN {} ELSE {irq - 8})
  BY <1>2, <1>3, RaisedFacts
<1>6. BootInv' /\ RegistersMirrored'
  BY <1>4 DEF KernelInv, BootInv, RoutineAt, RegistersMirrored
<1>7. PicInv'
  <2>1. /\ \A f \in {"isr", "imr", "icw2", "icw3", "icw4", "expects", "reads"} :
             pic'[M][f] = pic[M][f] /\ pic'[S][f] = pic[S][f]
    BY <1>3, <1>5 DEF Chips, Chip
  <2> QED
    BY <1>4, <2>1 DEF KernelInv, PicInv, Programmed, MasterWords, SlaveWords
<1>8. RequestInv'
  BY <1>2, <1>3, <1>5 DEF KernelInv, RequestInv, Irqs
<1>9. StackInv'
  BY <1>4 DEF KernelInv, StackInv, StrayUnmasked
<1>10. ServiceInv'
  BY <1>3, <1>4, <1>5 DEF KernelInv, ServiceInv, InService, Chips, Chip
<1>11. ByteInv'
  <2>1. 1 \in pic'[M].irr <=> 1 \in pic[M].irr \/ irq = 1
    BY <1>5
  <2>2. (edgeLost' <=> edgeLost) /\ (reset' <=> reset) /\ (ReadsKey' <=> ReadsKey)
    BY <1>4 DEF ReadsKey
  <2>3. CASE irq = 1
    <3>1. ~edgeLost /\ (~reset => ~ReadsKey /\ 1 \notin pic[M].irr)
      <4>1. ByteInv /\ obf = NoByte
        BY <1>2, <2>3 DEF KernelInv
      <4>2. ~edgeLost
        BY <4>1 DEF ByteInv
      <4>3. ~reset => ~(1 \in pic[M].irr \/ ReadsKey)
        BY <4>1 DEF ByteInv
      <4> QED
        BY <4>2, <4>3
    <3> QED
      BY <1>2, <2>1, <2>2, <2>3, <3>1 DEF ByteInv
  <2>4. CASE irq # 1
    BY <1>2, <1>4, <2>1, <2>2, <2>4 DEF KernelInv, ByteInv
  <2> QED
    BY <2>3, <2>4
<1> QED
  BY <1>1, <1>6, <1>7, <1>8, <1>9, <1>10, <1>11 DEF KernelInv

-----------------------------------------------------------------------------
(* Interrupts and handlers.                                                *)

\* The gate of a line, once interrupts are on, leads to its routine.
LEMMA GateOfIrq ==
  ASSUME KernelInv, main = "spin", NEW irq \in Irqs
  PROVE  /\ VectorOf(pic, irq) = 32 + irq
         /\ VectorOf(pic, irq) \in Vectors
         /\ get_ir_from_idt(s_Idtd, 32 + irq) = RoutineOf(irq)
         /\ s_Idtd[32 + irq].selector = IDT_SELECTOR
         /\ s_Idtd[32 + irq].type # TRAP_GATE
<1>1. VectorOf(pic, irq) = 32 + irq
  BY Configured
<1>2. 32 + irq \in Vectors
  BY IdtAssumption DEF Vectors, Irqs
<1>3. s_Idtd[32 + irq] = GateOf(RoutineAt(32 + irq), INTERRUPT_GATE)
  BY <1>2 DEF KernelInv, BootInv, BeforePic
<1>4. RoutineAt(32 + irq) = RoutineOf(irq)
  <2>1. (32 + irq = 32 <=> irq = 0) /\ (32 + irq = 33 <=> irq = 1)
    BY DEF Irqs
  <2> QED
    BY <2>1 DEF RoutineAt, RoutineOf, TimerInstalled, KeyboardInstalled
<1>5. RoutineOf(irq) \in Addresses
  BY DriversDiffer DEF RoutineOf
<1>6. get_ir_from_idt(s_Idtd, 32 + irq) = RoutineOf(irq)
  BY <1>3, <1>4, <1>5, GateRoundTrip
<1>7. s_Idtd[32 + irq].selector = IDT_SELECTOR /\ s_Idtd[32 + irq].type # TRAP_GATE
  BY <1>3 DEF GateOf, INTERRUPT_GATE, TRAP_GATE
<1> QED
  BY <1>1, <1>2, <1>6, <1>7

\* Only the idle loop is interrupted.
LEMMA IdleInterrupted ==
  ASSUME KernelInv, ifl, ~reset
  PROVE  main = "spin" /\ frames = <<>>
BY DEF KernelInv, BootInv, StackInv

\* What is acknowledged has a device, and if it has no driver the firmware left
\* it unmasked.
LEMMA AckedDevice ==
  ASSUME KernelInv, main = "spin", Requests(pic) # {}, NEW irq, irq = AckedIrq(pic)
  PROVE  /\ irq \in {0, 1} \cup StrayIrqs /\ irq \in Irqs /\ irq # 2
         /\ irq \notin {0, 1} => StrayUnmasked
         /\ RoutineOf(irq) = default_interrupt_service_routine => irq \notin {0, 1}
         /\ irq < 8 => irq \in pic[MASTER_PIC_ID].irr
<1>1. pic \in Chips
  BY DEF KernelInv, TypeOK, PicTypeOK, Chips
<1>2. /\ pic[MASTER_PIC_ID].imr = firmware[1] /\ pic[SLAVE_PIC_ID].imr = firmware[2]
  BY Configured
<1>3. /\ irq \in Irqs \ {2}
      /\ irq < 8 => irq \in pic[MASTER_PIC_ID].irr \ firmware[1]
      /\ irq > 7 => irq - 8 \in pic[SLAVE_PIC_ID].irr \ firmware[2]
                    /\ 2 \notin firmware[1]
  BY <1>1, <1>2, AckedFacts
<1>4. CASE irq < 8
  <2>1. irq \in {0, 1} \cup StrayIrqs
    BY <1>3, <1>4 DEF KernelInv, RequestInv
  <2>2. irq \notin {0, 1} => StrayUnmasked
    BY <1>3, <1>4, <2>1 DEF StrayUnmasked
  <2>3. RoutineOf(irq) = default_interrupt_service_routine => irq \notin {0, 1}
    BY DriversDiffer DEF RoutineOf
  <2> QED
    BY <1>3, <1>4, <2>1, <2>2, <2>3
<1>5. CASE irq > 7
  <2>1. irq - 8 + 8 = irq /\ ~(irq < 8) /\ irq \notin {0, 1}
    BY <1>3, <1>5 DEF Irqs
  <2>2. irq \in StrayIrqs
    <3>1. irq - 8 \in pic[SLAVE_PIC_ID].irr
      BY <1>3, <1>5
    <3>2. irq - 8 + 8 \in StrayIrqs
      BY <3>1 DEF KernelInv, RequestInv
    <3> QED
      BY <2>1, <3>2
  <2>3. StrayUnmasked
    BY <1>3, <1>5, <2>1, <2>2 DEF StrayUnmasked
  <2> QED
    BY <1>3, <2>1, <2>2, <2>3
<1> QED
  BY <1>3, <1>4, <1>5 DEF Irqs

LEMMA AcknowledgedFacts ==
  ASSUME NEW chips \in Chips, NEW irq \in Irqs
  PROVE  LET after == Acknowledged(chips, irq) IN
         /\ after[MASTER_PIC_ID].irr =
              chips[MASTER_PIC_ID].irr \ {IF irq > 7 THEN 2 ELSE irq}
         /\ after[MASTER_PIC_ID].isr =
              chips[MASTER_PIC_ID].isr \cup {IF irq > 7 THEN 2 ELSE irq}
         /\ after[SLAVE_PIC_ID].irr \subseteq chips[SLAVE_PIC_ID].irr
         /\ after[SLAVE_PIC_ID].isr =
              chips[SLAVE_PIC_ID].isr \cup (IF irq > 7 THEN {irq - 8} ELSE {})
         /\ \A c \in Pics :
              \A field \in {"imr", "icw2", "icw3", "icw4", "expects", "reads"} :
                after[c][field] = chips[c][field]
<1>1. CASE irq < 8
  <2>1. ~(irq > 7)
    BY <1>1 DEF Irqs
  <2> QED
    BY <1>1, <2>1 DEF Acknowledged, Serviced, Chips, Chip, Pics, MASTER_PIC_ID,
       SLAVE_PIC_ID
<1>2. CASE ~(irq < 8)
  <2>1. irq > 7
    BY <1>2 DEF Irqs
  <2> DEFINE after == Acknowledged(chips, irq)
             line  == irq - 8
  <2>2. /\ after[MASTER_PIC_ID] = Serviced(chips[MASTER_PIC_ID], 2)
        /\ after[SLAVE_PIC_ID] = Serviced(chips[SLAVE_PIC_ID], line)
    BY <1>2 DEF Acknowledged, Chips, Pics, MASTER_PIC_ID, SLAVE_PIC_ID
  <2>3. chips[MASTER_PIC_ID] \in Chip /\ chips[SLAVE_PIC_ID] \in Chip
    BY DEF Chips, Pics
  <2> HIDE DEF after, line
  <2>4. /\ after[MASTER_PIC_ID].irr = chips[MASTER_PIC_ID].irr \ {2}
        /\ after[MASTER_PIC_ID].isr = chips[MASTER_PIC_ID].isr \cup {2}
        /\ after[SLAVE_PIC_ID].irr = chips[SLAVE_PIC_ID].irr \ {line}
        /\ after[SLAVE_PIC_ID].isr = chips[SLAVE_PIC_ID].isr \cup {line}
    BY <2>2, <2>3 DEF Serviced, Chip
  <2>5. \A c \in Pics :
          \A field \in {"imr", "icw2", "icw3", "icw4", "expects", "reads"} :
            after[c][field] = chips[c][field]
    <3>1. \A chip \in Chip : \A l \in Lines :
            /\ Serviced(chip, l).imr = chip.imr /\ Serviced(chip, l).icw2 = chip.icw2
            /\ Serviced(chip, l).icw3 = chip.icw3 /\ Serviced(chip, l).icw4 = chip.icw4
            /\ Serviced(chip, l).expects = chip.expects
            /\ Serviced(chip, l).reads = chip.reads
      BY DEF Serviced, Chip
    <3>2. 2 \in Lines /\ line \in Lines
      BY <2>1 DEF Lines, Irqs, line
    <3>3. \A field \in {"imr", "icw2", "icw3", "icw4", "expects", "reads"} :
            /\ after[MASTER_PIC_ID][field] = chips[MASTER_PIC_ID][field]
            /\ after[SLAVE_PIC_ID][field] = chips[SLAVE_PIC_ID][field]
      BY <2>2, <2>3, <3>1, <3>2
    <3> QED
      BY <3>3 DEF Pics
  <2> QED
    BY <2>1, <2>4, <2>5 DEF after, line
<1> QED
  BY <1>1, <1>2

\* The frame of an interrupt of the idle loop: it is the only one.
IdleFrame(irq) ==
  [source |-> irq, routine |-> RoutineOf(irq), at |-> "helper",
   rflags |-> ifl, saved |-> [r \in PushedSet |-> regs[r]]]

LEMMA TakeIrqFrame ==
  ASSUME KernelInv, NEW irq \in Irqs, TakeIrq(irq)
  PROVE  /\ main = "spin" /\ frames = <<>>
         /\ frames' = <<IdleFrame(irq)>> /\ ~ifl' /\ ~reset' /\ regs' = regs
<1> DEFINE v == VectorOf(pic, irq)
           f == IdleFrame(irq)
<1>1. ifl /\ ~reset /\ Enter(irq, v)
  BY DEF TakeIrq
<1>2. main = "spin" /\ frames = <<>>
  BY <1>1, IdleInterrupted
<1>3. /\ v \in Vectors /\ get_ir_from_idt(s_Idtd, v) = RoutineOf(irq)
      /\ s_Idtd[v].selector = IDT_SELECTOR /\ s_Idtd[v].type # TRAP_GATE
  BY <1>2, GateOfIrq
<1>4. idtr /\ gdt = "kernel"
  BY <1>2 DEF KernelInv, BootInv, BeforePic
<1>5. Len(frames) < StackFrames
  <2>1. Len(<<>>) = 0
    OBVIOUS
  <2> QED
    BY <1>2, <2>1, KernelAssumption
<1> HIDE DEF v
<1>6. /\ frames' = Append(frames, f) /\ regs' = regs /\ reset' = reset
      /\ ifl' = (ifl /\ s_Idtd[v].type = TRAP_GATE)
  BY <1>1, <1>3, <1>4, <1>5 DEF Enter, IdleFrame
<1>7. Append(<<>>, f) = <<f>>
  OBVIOUS
<1> QED
  BY <1>1, <1>2, <1>3, <1>6, <1>7

LEMMA TakeIrqInv == \A irq \in Irqs : KernelInv /\ TakeIrq(irq) => KernelInv'
<1> SUFFICES ASSUME NEW irq \in Irqs, KernelInv, TakeIrq(irq) PROVE KernelInv'
  OBVIOUS
<1> DEFINE M == MASTER_PIC_ID
           S == SLAVE_PIC_ID
           f == IdleFrame(irq)
<1>1. TypeOK'
  BY TakeIrqType DEF KernelInv
<1>2. /\ ifl /\ ~reset /\ Requests(pic) # {} /\ irq = AckedIrq(pic)
      /\ pic' = Acknowledged(pic, irq) /\ Enter(irq, VectorOf(pic, irq))
      /\ UNCHANGED <<picStep, master_pic_data, slave_pic_data, s_Idtd, idtr, main,
                     gdt, obf, firmware, edgeLost>>
  BY DEF TakeIrq, idtVars
<1>3. main = "spin" /\ frames = <<>>
  BY <1>2, IdleInterrupted
<1>4. /\ irq \in {0, 1} \cup StrayIrqs /\ irq # 2
      /\ irq \notin {0, 1} => StrayUnmasked
      /\ RoutineOf(irq) = default_interrupt_service_routine => irq \notin {0, 1}
      /\ irq < 8 => irq \in pic[M].irr
  BY <1>2, <1>3, AckedDevice
<1>5. frames' = <<f>> /\ ~ifl' /\ ~reset' /\ regs' = regs
  BY TakeIrqFrame
<1>6. /\ frames' # <<>> /\ frames'[1] = f /\ DOMAIN frames' = {1}
  BY <1>5
<1>7. /\ f.source = irq /\ f.routine = RoutineOf(irq) /\ f.at = "helper"
      /\ f.rflags = ifl /\ f.saved = [r \in PushedSet |-> regs[r]]
  BY DEF IdleFrame
<1> HIDE DEF f
<1>8. pic \in Chips /\ M \in Pics /\ S \in Pics
  BY DEF KernelInv, TypeOK, PicTypeOK, Chips, Pics
<1>9. /\ pic'[M].irr = pic[M].irr \ {IF irq > 7 THEN 2 ELSE irq}
      /\ pic'[M].isr = pic[M].isr \cup {IF irq > 7 THEN 2 ELSE irq}
      /\ pic'[S].irr \subseteq pic[S].irr
      /\ pic'[S].isr = pic[S].isr \cup (IF irq > 7 THEN {irq - 8} ELSE {})
  BY <1>2, <1>8, AcknowledgedFacts
<1>10. \A c \in Pics :
         \A field \in {"imr", "icw2", "icw3", "icw4", "expects", "reads"} :
           pic'[c][field] = pic[c][field]
  BY <1>2, <1>8, AcknowledgedFacts
<1>11. BootInv'
  <2>1. \A v : RoutineAt(v)' = RoutineAt(v)
    BY <1>2 DEF RoutineAt
  <2> QED
    BY <1>2, <1>3, <2>1 DEF KernelInv, BootInv
<1>12. PicInv'
  BY <1>2, <1>8, <1>10 DEF KernelInv, PicInv, Programmed, MasterWords, SlaveWords
<1>13. RequestInv'
  BY <1>9 DEF KernelInv, RequestInv
<1>14. StackInv'
  <2>1. StrayUnmasked' <=> StrayUnmasked
    BY <1>2 DEF StrayUnmasked
  <2>2. \A i \in DOMAIN frames' : ~(i > 1)
    BY <1>6
  <2>3. RoutineOf(irq)' = RoutineOf(irq)
    BY DEF RoutineOf
  <2> QED
    BY <1>2, <1>4, <1>5, <1>6, <1>7, <2>1, <2>2, <2>3 DEF StackInv
<1>15. ServiceInv'
  <2>1. pic[M].isr = {} /\ pic[S].isr = {}
    BY <1>2, <1>3 DEF KernelInv, ServiceInv, InService
  <2>2. InService'
    BY <1>6, <1>7 DEF InService
  <2>3. frames'[1].source = irq
    BY <1>6, <1>7
  <2> QED
    BY <1>9, <2>1, <2>2, <2>3 DEF ServiceInv
<1>16. ByteInv'
  <2>1. ReadsKey' <=> irq = 1
    <3>1. RoutineOf(irq) = keyboard_interrupt_service_routine <=> irq = 1
      BY DriversDiffer DEF RoutineOf
    <3> QED
      BY <1>6, <1>7, <3>1 DEF ReadsKey
  <2>2. ~ReadsKey
    BY <1>3 DEF ReadsKey
  <2>3. 1 \in pic'[M].irr <=> 1 \in pic[M].irr /\ irq # 1
    <3>1. irq > 7 => irq # 1
      OBVIOUS
    <3> QED
      BY <1>9, <3>1
  <2>4. irq = 1 => 1 \in pic[M].irr
    BY <1>4
  <2>5. edgeLost' <=> edgeLost
    BY <1>2
  <2> QED
    BY <1>2, <2>1, <2>2, <2>3, <2>4, <2>5 DEF KernelInv, ByteInv
<1>17. RegistersMirrored'
  BY <1>5 DEF KernelInv, RegistersMirrored
<1> QED
  BY <1>1, <1>11, <1>12, <1>13, <1>14, <1>15, <1>16, <1>17 DEF KernelInv

\* The three steps of a driver's handler leave one frame with its mark moved.
LEMMA MoveSingle ==
  ASSUME KernelInv, Len(frames) = 1, frames # <<>>,
         NEW at \in {"helper", "eoi", "pop"}, MoveTop(at)
  PROVE  /\ frames' # <<>> /\ DOMAIN frames' = {1}
         /\ frames'[1] = [frames[1] EXCEPT !.at = at]
         /\ frames[1] \in Frame
         /\ frames'[1].source = frames[1].source
         /\ frames'[1].routine = frames[1].routine
         /\ frames'[1].at = at
         /\ frames'[1].rflags = frames[1].rflags
         /\ frames'[1].saved = frames[1].saved
<1>1. TypeOK /\ frames \in Seq(Frame) /\ Top = frames[1]
  BY DEF KernelInv, TypeOK, Top
<1>2. /\ frames' \in Seq(Frame) /\ Len(frames') = 1
      /\ frames'[1] = [frames[1] EXCEPT !.at = at]
  BY <1>1, MoveTopType
<1>3. DOMAIN frames' = {1} /\ frames' # <<>>
  BY <1>2
<1>4. frames[1] \in Frame
  BY <1>1, ElementOfSeq
<1> QED
  BY <1>2, <1>3, <1>4 DEF Frame

\* What every step of a driver's handler but the return keeps, whatever it does
\* to the mark of its frame.
LEMMA HandlerFrame ==
  ASSUME KernelInv, frames # <<>>, ~reset,
         Top.at # "helper" \/ Top.routine # default_interrupt_service_routine,
         NEW at \in {"helper", "eoi", "pop"}, MoveTop(at),
         UNCHANGED <<ifl, reset, s_Idtd, idtr, main, gdt, firmware, edgeLost>>,
         \A r \in PushedSet : regs'[r] = regs[r]
  PROVE  BootInv' /\ StackInv' /\ RegistersMirrored'
<1>1. /\ Len(frames) = 1 /\ main = "spin" /\ ~ifl
      /\ frames[1].routine = RoutineOf(frames[1].source)
      /\ frames[1].source \in {0, 1}
      /\ frames[1].routine # default_interrupt_service_routine
      /\ frames[1].rflags
      /\ frames[1].saved = [r \in PushedSet |-> regs[r]]
  BY Single
<1>2. /\ frames' # <<>> /\ DOMAIN frames' = {1}
      /\ frames'[1].source = frames[1].source
      /\ frames'[1].routine = frames[1].routine
      /\ frames'[1].rflags = frames[1].rflags
      /\ frames'[1].saved = frames[1].saved
  BY <1>1, MoveSingle
<1>3. BootInv'
  <2>1. \A v : RoutineAt(v)' = RoutineAt(v)
    BY DEF RoutineAt
  <2> QED
    BY <1>1, <2>1 DEF KernelInv, BootInv
<1>4. StackInv'
  <2>1. \A i \in DOMAIN frames' : ~(i > 1)
    BY <1>2
  <2>2. [r \in PushedSet |-> regs'[r]] = [r \in PushedSet |-> regs[r]]
    OBVIOUS
  <2>3. frames'[1].source \in Irqs
    BY <1>1, <1>2 DEF Irqs
  <2>4. frames'[1].routine = RoutineOf(frames'[1].source)
    BY <1>1, <1>2
  <2>5. \A irq : RoutineOf(irq)' = RoutineOf(irq)
    BY DEF RoutineOf
  <2> QED
    BY <1>1, <1>2, <2>1, <2>2, <2>3, <2>4, <2>5 DEF StackInv
<1>5. RegistersMirrored'
  BY DEF KernelInv, RegistersMirrored
<1> QED
  BY <1>3, <1>4, <1>5

\* The helpers do the work of their devices; the controllers see none of it.
LEMMA HelperInv ==
  KernelInv /\ (helper_calculate_timer \/ helper_keyboard_handler) => KernelInv'
<1> SUFFICES ASSUME KernelInv, helper_calculate_timer \/ helper_keyboard_handler
             PROVE  KernelInv'
  OBVIOUS
<1>1. TypeOK'
  BY HandlerType DEF KernelInv, HandlerStep
<1>2. /\ frames # <<>> /\ ~reset /\ Top.at = "helper" /\ MoveTop("eoi")
      /\ \/ Top.routine = pit_interrupt_service_routine /\ obf' = obf
         \/ Top.routine = keyboard_interrupt_service_routine /\ obf' = NoByte
      /\ UNCHANGED <<ifl, reset, s_Idtd, idtr, main, gdt, firmware, edgeLost>>
      /\ UNCHANGED <<pic, picStep, master_pic_data, slave_pic_data>>
  BY DEF helper_calculate_timer, helper_keyboard_handler, Running, HandlerWorld,
     idtVars, picVars
<1>3. Top.routine # default_interrupt_service_routine
  BY <1>2, DriversDiffer
<1>4. Len(frames) = 1 /\ Top = frames[1]
  BY <1>2, <1>3, Single
<1>5. \A r \in PushedSet : regs'[r] = regs[r]
  <2>1. \A r \in PushedSet : r \in Registers /\ r \notin Unsaved
    BY DEF PushedSet, Pushed, Unsaved, Registers
  <2> QED
    BY <2>1 DEF helper_calculate_timer, helper_keyboard_handler
<1>6. BootInv' /\ StackInv' /\ RegistersMirrored'
  BY <1>2, <1>3, <1>5, HandlerFrame
<1>7. /\ frames' # <<>> /\ frames'[1].at = "eoi"
      /\ frames'[1].source = frames[1].source
  BY <1>2, <1>4, MoveSingle
<1>8. PicInv'
  BY <1>2 DEF KernelInv, PicInv, Programmed, MasterWords, SlaveWords
<1>9. RequestInv'
  BY <1>2 DEF KernelInv, RequestInv
<1>10. ServiceInv'
  <2>1. InService /\ InService'
    BY <1>2, <1>4, <1>7 DEF InService
  <2> QED
    BY <1>2, <1>7, <2>1 DEF KernelInv, ServiceInv
<1>11. ByteInv'
  <2>1. ~ReadsKey'
    BY <1>7 DEF ReadsKey
  <2>2. (edgeLost' <=> edgeLost) /\ (reset' <=> reset)
    BY <1>2
  <2>3. CASE Top.routine = pit_interrupt_service_routine /\ obf' = obf
    <3>1. ~ReadsKey
      BY <1>4, <2>3, DriversDiffer DEF ReadsKey
    <3> QED
      BY <1>2, <2>1, <2>2, <2>3, <3>1 DEF KernelInv, ByteInv
  <2>4. CASE Top.routine = keyboard_interrupt_service_routine /\ obf' = NoByte
    <3>1. ReadsKey
      BY <1>2, <1>4, <2>4 DEF ReadsKey
    <3>2. ~edgeLost /\ 1 \notin pic[MASTER_PIC_ID].irr
      <4>1. ByteInv /\ ~reset
        BY <1>2 DEF KernelInv
      <4>2. (obf # NoByte /\ ~edgeLost) <=> (1 \in pic[MASTER_PIC_ID].irr \/ ReadsKey)
        BY <4>1 DEF ByteInv
      <4>3. ~(1 \in pic[MASTER_PIC_ID].irr /\ ReadsKey)
        BY <4>1 DEF ByteInv
      <4> QED
        BY <3>1, <4>2, <4>3
    <3> QED
      BY <1>2, <2>1, <2>2, <2>4, <3>2 DEF ByteInv
  <2> QED
    BY <1>2, <2>3, <2>4
<1> QED
  BY <1>1, <1>6, <1>8, <1>9, <1>10, <1>11 DEF KernelInv

\* The end of interrupt finds exactly the line of its handler in service.
LEMMA EndHandlerChip ==
  ASSUME KernelInv, end_handler
  PROVE  /\ pic[SLAVE_PIC_ID].isr = {} /\ pic'[SLAVE_PIC_ID] = pic[SLAVE_PIC_ID]
         /\ pic'[MASTER_PIC_ID].isr = {}
         /\ \A field \in {"irr", "imr", "icw2", "icw3", "icw4", "expects", "reads"} :
              pic'[MASTER_PIC_ID][field] = pic[MASTER_PIC_ID][field]
<1> DEFINE M == MASTER_PIC_ID
           S == SLAVE_PIC_ID
<1>1. frames # <<>> /\ ~reset /\ Top.at = "eoi" /\ pic' = handler_eoi(pic)
  BY DEF end_handler
<1>2. Len(frames) = 1 /\ Top = frames[1] /\ frames[1].source \in {0, 1}
  BY <1>1, Single
<1>3. pic \in Chips /\ pic[M] \in Chip /\ M \in Pics /\ S \in Pics /\ M # S
  BY DEF KernelInv, TypeOK, PicTypeOK, Chips, Pics, MASTER_PIC_ID, SLAVE_PIC_ID
<1>4. pic[M].isr = {frames[1].source} /\ pic[S].isr = {}
  <2>1. InService /\ ~(frames[1].source > 7)
    BY <1>1, <1>2 DEF InService
  <2> QED
    BY <1>1, <2>1 DEF KernelInv, ServiceInv
<1>5. pic' = [pic EXCEPT ![M] = [pic[M] EXCEPT !.isr = {}]]
  <2>1. frames[1].source \in Lines
    BY <1>2 DEF Lines
  <2>2. CommandWrite(pic[M], PIC_EOI, {}) = [pic[M] EXCEPT !.isr = {}]
    BY <1>3, <1>4, <2>1, EoiSingle
  <2> QED
    BY <1>1, <1>3, <2>2, HandlerEoiType
<1>6. /\ pic'[S] = pic[S] /\ pic'[M].isr = {}
      /\ \A field \in {"irr", "imr", "icw2", "icw3", "icw4", "expects", "reads"} :
           pic'[M][field] = pic[M][field]
  BY <1>3, <1>5 DEF Chips, Chip
<1> QED
  BY <1>4, <1>6

LEMMA EndHandlerInv == KernelInv /\ end_handler => KernelInv'
<1> SUFFICES ASSUME KernelInv, end_handler PROVE KernelInv'
  OBVIOUS
<1> DEFINE M == MASTER_PIC_ID
           S == SLAVE_PIC_ID
<1>1. TypeOK'
  BY HandlerType DEF KernelInv, HandlerStep
<1>2. /\ frames # <<>> /\ ~reset /\ Top.at = "eoi" /\ MoveTop("pop")
      /\ UNCHANGED <<ifl, reset, s_Idtd, idtr, main, gdt, firmware, edgeLost>>
      /\ UNCHANGED <<picStep, master_pic_data, slave_pic_data, regs, obf>>
      /\ pic' = handler_eoi(pic)
  BY DEF end_handler, HandlerWorld, idtVars
<1>3. Len(frames) = 1 /\ Top = frames[1] /\ frames[1].source \in {0, 1}
  BY <1>2, Single
<1>4. BootInv' /\ StackInv' /\ RegistersMirrored'
  BY <1>2, HandlerFrame
<1>5. frames' # <<>> /\ frames'[1].at = "pop"
  BY <1>2, <1>3, MoveSingle
<1>7. pic[S].isr = {}
  BY EndHandlerChip
<1>9. /\ pic'[S] = pic[S] /\ pic'[M].isr = {}
      /\ \A field \in {"irr", "imr", "icw2", "icw3", "icw4", "expects", "reads"} :
           pic'[M][field] = pic[M][field]
  BY EndHandlerChip
<1>10. PicInv'
  BY <1>2, <1>9 DEF KernelInv, PicInv, Programmed, MasterWords, SlaveWords
<1>11. RequestInv'
  BY <1>9 DEF KernelInv, RequestInv
<1>12. ServiceInv'
  <2>1. ~InService'
    BY <1>5 DEF InService
  <2> QED
    BY <1>7, <1>9, <2>1 DEF ServiceInv
<1>13. ByteInv'
  <2>1. ~ReadsKey /\ ~ReadsKey'
    BY <1>2, <1>3, <1>5 DEF ReadsKey
  <2>2. (edgeLost' <=> edgeLost) /\ (reset' <=> reset)
    BY <1>2
  <2> QED
    BY <1>2, <1>9, <2>1, <2>2 DEF KernelInv, ByteInv
<1> QED
  BY <1>1, <1>4, <1>10, <1>11, <1>12, <1>13 DEF KernelInv

\* Popping in the order of the pushes reverses the thirteen pushed registers.
LEMMA PushedOnce ==
  /\ \A i, j \in 1..13 : Pushed[i] = Pushed[j] => i = j
  /\ \A r \in PushedSet : r \in Registers /\ r \notin Unsaved
BY DEF Pushed, PushedSet, Unsaved, Registers

LEMMA PoppedMirror ==
  ASSUME TypeOK, NEW saved \in [PushedSet -> PushedSet]
  PROVE  \A r \in PushedSet : Mirror(r) \in PushedSet
                              /\ Popped(saved)[r] = saved[Mirror(r)]
<1> SUFFICES ASSUME NEW r \in PushedSet
             PROVE  Mirror(r) \in PushedSet /\ Popped(saved)[r] = saved[Mirror(r)]
  OBVIOUS
<1> DEFINE i == CHOOSE i \in 1..13 : Pushed[i] = r
<1>1. i \in 1..13
  BY DEF PushedSet
<1>2. r \in Registers /\ r \notin Unsaved
  BY PushedOnce
<1>3. Mirror(r) = Pushed[14 - i] /\ Popped(saved)[r] = saved[Pushed[14 - i]]
  BY <1>2 DEF Mirror, Popped
<1> HIDE DEF i
<1>4. 14 - i \in 1..13
  BY <1>1
<1> QED
  BY <1>3, <1>4 DEF PushedSet

LEMMA MirrorTwice == \A r \in PushedSet : Mirror(Mirror(r)) = r
<1> SUFFICES ASSUME NEW r \in PushedSet PROVE Mirror(Mirror(r)) = r
  OBVIOUS
<1> DEFINE index(q) == CHOOSE i \in 1..13 : Pushed[i] = q
<1>1. \A k \in 1..13 : index(Pushed[k]) = k
  BY PushedOnce
<1>2. \A k \in 1..13 : Mirror(Pushed[k]) = Pushed[14 - k]
  <2> SUFFICES ASSUME NEW k \in 1..13 PROVE Mirror(Pushed[k]) = Pushed[14 - k]
    OBVIOUS
  <2>1. index(Pushed[k]) = k
    BY <1>1
  <2> QED
    BY <2>1 DEF Mirror
<1>3. PICK k \in 1..13 : r = Pushed[k]
  BY DEF PushedSet
<1>4. 14 - k \in 1..13 /\ 14 - (14 - k) = k
  OBVIOUS
<1>5. Mirror(Pushed[14 - k]) = Pushed[k]
  BY <1>2, <1>4
<1> QED
  BY <1>2, <1>3, <1>5

\* The return takes the only frame.
LEMMA IretqFrame ==
  ASSUME KernelInv, iretq
  PROVE  frames' = <<>> /\ DOMAIN frames' = {}
<1>1. /\ frames # <<>> /\ ~reset /\ Top.at = "pop"
      /\ frames' = SubSeq(frames, 1, Len(frames) - 1)
  BY DEF iretq
<1>2. Len(frames) = 1
  BY <1>1, Single
<1>3. frames \in Seq(Frame)
  BY DEF KernelInv, TypeOK
<1>4. 0 \in Nat /\ Len(frames) = 0 + 1 /\ Len(frames) - 1 = 0
  BY <1>2
<1>5. SubSeq(frames, 1, 0) \in Seq(Frame) /\ Len(SubSeq(frames, 1, 0)) = 0
  BY <1>3, <1>4, FrontType
<1>6. frames' = SubSeq(frames, 1, 0)
  BY <1>1, <1>4
<1> QED
  BY <1>5, <1>6

\* The return leaves an idle loop with interrupts on and the registers mirrored
\* once more.
LEMMA IretqInv == KernelInv /\ iretq => KernelInv'
<1> SUFFICES ASSUME KernelInv, iretq PROVE KernelInv'
  OBVIOUS
<1>1. TypeOK'
  BY HandlerType DEF KernelInv, HandlerStep
<1>2. /\ frames # <<>> /\ ~reset /\ Top.at = "pop"
      /\ regs' = Popped(Top.saved) /\ ifl' = Top.rflags
      /\ frames' = SubSeq(frames, 1, Len(frames) - 1)
      /\ UNCHANGED <<reset, s_Idtd, idtr, main, gdt, firmware, edgeLost>>
      /\ UNCHANGED <<pic, picStep, master_pic_data, slave_pic_data, obf>>
  BY DEF iretq, HandlerWorld, idtVars, picVars
<1>3. /\ Len(frames) = 1 /\ Top = frames[1] /\ main = "spin"
      /\ frames[1].rflags
      /\ frames[1].saved = [r \in PushedSet |-> regs[r]]
  BY <1>2, Single
<1>4. frames' = <<>> /\ DOMAIN frames' = {}
  BY IretqFrame
<1>5. BootInv'
  <2>1. \A v : RoutineAt(v)' = RoutineAt(v)
    BY <1>2 DEF RoutineAt
  <2> QED
    BY <1>2, <1>3, <2>1 DEF KernelInv, BootInv
<1>6. PicInv'
  BY <1>2 DEF KernelInv, PicInv, Programmed, MasterWords, SlaveWords
<1>7. RequestInv'
  BY <1>2 DEF KernelInv, RequestInv
<1>8. StackInv'
  BY <1>2, <1>4 DEF StackInv
<1>9. ServiceInv'
  <2>1. ~InService /\ ~InService'
    BY <1>2, <1>3, <1>4 DEF InService
  <2> QED
    BY <1>2, <2>1 DEF KernelInv, ServiceInv
<1>10. ByteInv'
  <2>1. ~ReadsKey /\ ~ReadsKey'
    BY <1>2, <1>3, <1>4 DEF ReadsKey
  <2>2. (edgeLost' <=> edgeLost) /\ (reset' <=> reset)
    BY <1>2
  <2> QED
    BY <1>2, <2>1, <2>2 DEF KernelInv, ByteInv
<1>11. RegistersMirrored'
  <2> DEFINE saved == [r \in PushedSet |-> regs[r]]
  <2>1. saved \in [PushedSet -> PushedSet]
    BY DEF KernelInv, TypeOK
  <2>2. regs' = Popped(saved)
    BY <1>2, <1>3
  <2>3. \A r \in PushedSet : Mirror(r) \in PushedSet /\ regs'[r] = regs[Mirror(r)]
    BY <2>1, <2>2, PoppedMirror DEF KernelInv
  <2>4. CASE \A r \in PushedSet : regs[r] = r
    BY <2>3, <2>4 DEF RegistersMirrored
  <2>5. CASE \A r \in PushedSet : regs[r] = Mirror(r)
    BY <2>3, <2>5, MirrorTwice DEF RegistersMirrored
  <2> QED
    BY <2>4, <2>5 DEF KernelInv, RegistersMirrored
<1> QED
  BY <1>1, <1>5, <1>6, <1>7, <1>8, <1>9, <1>10, <1>11 DEF KernelInv

LEMMA AppendFacts ==
  ASSUME NEW S, NEW s \in Seq(S), s # <<>>, NEW x
  PROVE  /\ Append(s, x) # <<>> /\ Append(s, x)[1] = s[1]
         /\ \A i \in DOMAIN Append(s, x) :
              (i \in DOMAIN s /\ Append(s, x)[i] = s[i]) \/ Append(s, x)[i] = x
<1> DEFINE n == Len(s)
<1>1. n \in Nat /\ n > 0 /\ DOMAIN s = 1..n
  OBVIOUS
<1>2. /\ Len(Append(s, x)) = n + 1 /\ DOMAIN Append(s, x) = 1..(n + 1)
      /\ \A i \in 1..n : Append(s, x)[i] = s[i]
      /\ Append(s, x)[n + 1] = x
  BY <1>1
<1>3. Append(s, x) # <<>>
  OBVIOUS
<1> HIDE DEF n
<1>4. 1 \in 1..n /\ \A i \in 1..(n + 1) : i \in 1..n \/ i = n + 1
  BY <1>1
<1> QED
  BY <1>1, <1>2, <1>3, <1>4

\* The default handler starts itself again until the stack is used up; that it
\* runs at all is a stray line's doing.
LEMMA FaultInv == KernelInv /\ helper_interrupt_service_routine => KernelInv'
<1> SUFFICES ASSUME KernelInv, helper_interrupt_service_routine PROVE KernelInv'
  OBVIOUS
<1> DEFINE f == [source |-> Fault,
                 routine |-> get_ir_from_idt(s_Idtd, GeneralProtection),
                 at |-> "helper", rflags |-> ifl,
                 saved |-> [r \in PushedSet |-> regs[r]]]
<1>1. TypeOK'
  BY HandlerType DEF KernelInv, HandlerStep
<1>2. /\ frames # <<>> /\ ~reset
      /\ Top.routine = default_interrupt_service_routine
      /\ Enter(Fault, GeneralProtection)
      /\ UNCHANGED <<s_Idtd, idtr, main, gdt, firmware, edgeLost>>
      /\ UNCHANGED <<pic, picStep, master_pic_data, slave_pic_data, obf>>
  BY DEF helper_interrupt_service_routine, Running, HandlerWorld, idtVars, picVars
<1>3. frames \in Seq(Frame)
  BY DEF KernelInv, TypeOK
<1>4. frames[1].routine = default_interrupt_service_routine
  <2> DEFINE n == Len(frames)
  <2>1. n \in Nat /\ n > 0 /\ DOMAIN frames = 1..n /\ Top = frames[n]
    BY <1>2, <1>3 DEF Top
  <2>2. n > 1 /\ n \in DOMAIN frames =>
          frames[1].routine = default_interrupt_service_routine
    BY DEF KernelInv, StackInv
  <2> HIDE DEF n
  <2>3. CASE n = 1
    BY <1>2, <2>1, <2>3
  <2>4. CASE n # 1
    BY <2>1, <2>2, <2>4
  <2> QED
    BY <2>3, <2>4
<1>5. main = "spin" /\ ~ifl /\ frames[1].at = "helper" /\ StrayUnmasked
  BY <1>2, <1>4 DEF KernelInv, BootInv, StackInv
<1>6. get_ir_from_idt(s_Idtd, GeneralProtection) = default_interrupt_service_routine
  <2>1. 13 \in Vectors /\ RoutineAt(13) = default_interrupt_service_routine
    BY IdtAssumption DEF Vectors, RoutineAt
  <2>2. s_Idtd[13] = GateOf(default_interrupt_service_routine, INTERRUPT_GATE)
    BY <1>5, <2>1 DEF KernelInv, BootInv, BeforePic
  <2> QED
    BY <2>2, IdtAssumption, GateRoundTrip DEF GeneralProtection
<1>7. /\ regs' = regs /\ ~ifl'
      /\ \/ frames' = frames
         \/ frames' = Append(frames, f) /\ (reset' <=> reset)
  <2>1. \/ frames' = frames /\ ifl' = ifl
        \/ /\ frames' = Append(frames, f) /\ reset' = reset
           /\ ifl' = (ifl /\ s_Idtd[GeneralProtection].type = TRAP_GATE)
    BY <1>2 DEF Enter
  <2>2. regs' = regs
    BY <1>2 DEF Enter
  <2>3. ifl' => ifl
    BY <2>1, Zenon
  <2>4. reset' = reset => (reset' <=> reset)
    OBVIOUS
  <2> QED
    BY <1>5, <2>1, <2>2, <2>3, <2>4, Zenon
<1>8. /\ f.source = Fault /\ f.at = "helper"
      /\ f.routine = default_interrupt_service_routine
  BY <1>6
<1> HIDE DEF f
<1>9. /\ frames' # <<>> /\ frames'[1] = frames[1]
      /\ \A i \in DOMAIN frames' :
           (i \in DOMAIN frames /\ frames'[i] = frames[i]) \/ frames'[i] = f
  BY <1>2, <1>3, <1>7, AppendFacts
<1>10. BootInv'
  <2>1. \A v : RoutineAt(v)' = RoutineAt(v)
    BY <1>2 DEF RoutineAt
  <2> QED
    BY <1>2, <1>5, <2>1 DEF KernelInv, BootInv
<1>11. PicInv'
  BY <1>2 DEF KernelInv, PicInv, Programmed, MasterWords, SlaveWords
<1>12. RequestInv'
  BY <1>2 DEF KernelInv, RequestInv
<1>13. StackInv'
  <2>1. StrayUnmasked'
    BY <1>2, <1>5 DEF StrayUnmasked
  <2>2. frames' # <<>> =>
          /\ ~ifl' /\ frames'[1].source \in Irqs
          /\ frames'[1].routine = RoutineOf(frames'[1].source)
          /\ frames'[1].rflags
          /\ frames'[1].saved = [r \in PushedSet |-> regs'[r]]
          /\ frames'[1].at = "helper"
    BY <1>2, <1>5, <1>7, <1>9 DEF KernelInv, StackInv
  <2>3. \A i \in DOMAIN frames' : i > 1 =>
          /\ frames'[i].source = Fault
          /\ frames'[i].routine = default_interrupt_service_routine
          /\ frames'[i].at = "helper"
          /\ frames'[1].routine = default_interrupt_service_routine
    BY <1>4, <1>8, <1>9 DEF KernelInv, StackInv
  <2>4. \A irq : RoutineOf(irq)' = RoutineOf(irq)
    BY DEF RoutineOf
  <2> QED
    BY <2>1, <2>2, <2>3, <2>4 DEF StackInv
<1>14. ServiceInv'
  <2>1. InService /\ InService'
    BY <1>2, <1>5, <1>9 DEF InService
  <2> QED
    BY <1>2, <1>9, <2>1 DEF KernelInv, ServiceInv
<1>15. ByteInv'
  <2>1. ~ReadsKey /\ ~ReadsKey'
    BY <1>4, <1>9, DriversDiffer DEF ReadsKey
  <2>2. edgeLost' <=> edgeLost
    BY <1>2
  <2> QED
    BY <1>2, <2>1, <2>2 DEF KernelInv, ByteInv
<1>16. RegistersMirrored'
  BY <1>7 DEF KernelInv, RegistersMirrored
<1> QED
  BY <1>1, <1>10, <1>11, <1>12, <1>13, <1>14, <1>15, <1>16 DEF KernelInv

-----------------------------------------------------------------------------
(* The invariant and what follows from it.                                 *)

LEMMA StutterInv == KernelInv /\ UNCHANGED vars => KernelInv'
<1> SUFFICES ASSUME KernelInv, UNCHANGED vars PROVE KernelInv'
  OBVIOUS
<1>1. TypeOK'
  BY StutterType DEF KernelInv
<1>2. /\ UNCHANGED <<pic, picStep, master_pic_data, slave_pic_data, s_Idtd, idtr>>
      /\ UNCHANGED <<ifl, regs, frames, reset, main, gdt, obf, firmware, edgeLost>>
  BY DEF vars, picVars, idtVars, cpuVars
<1>3. BootInv' /\ RequestInv' /\ StackInv' /\ RegistersMirrored'
  BY <1>2 DEF KernelInv, BootInv, RoutineAt, RequestInv, StackInv, RoutineOf,
     StrayUnmasked, RegistersMirrored
<1>4. PicInv'
  BY <1>2 DEF KernelInv, PicInv, Programmed, MasterWords, SlaveWords
<1>5. ServiceInv' /\ ByteInv'
  BY <1>2 DEF KernelInv, ServiceInv, InService, ByteInv, ReadsKey
<1> QED
  BY <1>1, <1>3, <1>4, <1>5 DEF KernelInv

LEMMA KernelStep == KernelInv /\ [Next]_vars => KernelInv'
BY MainInv, TakeIrqInv, HelperInv, EndHandlerInv, IretqInv, FaultInv, DeviceInv,
   StutterInv DEF Next, HandlerStep, spin, Halted

\* KernelInv is an invariant of the kernel.
THEOREM Invariance == Spec => []KernelInv
BY InitInv, KernelStep, PTL DEF Spec

\* Every interrupt reaches the routine written for it.
LEMMA InvOwnHandler == KernelInv => OwnHandler
<1> SUFFICES ASSUME KernelInv PROVE OwnHandler
  OBVIOUS
<1>1. SUFFICES ASSUME NEW i \in DOMAIN frames
      PROVE  frames[i].routine = RoutineOf(frames[i].source)
  BY DEF OwnHandler, RoutineOf
<1>2. frames \in Seq(Frame) /\ frames # <<>> /\ i \in 1..Len(frames)
  BY DEF KernelInv, TypeOK
<1>3. CASE i = 1
  BY <1>2, <1>3 DEF KernelInv, StackInv
<1>4. CASE i > 1
  BY <1>2, <1>4 DEF KernelInv, StackInv, RoutineOf, Fault
<1> QED
  BY <1>2, <1>3, <1>4

THEOREM OwnHandlerAlways == Spec => []OwnHandler
BY Invariance, InvOwnHandler, PTL

\* No handler runs before the main thread has finished.
LEMMA InvMainQuiescent == KernelInv => MainQuiescent
BY DEF KernelInv, BootInv, MainQuiescent

THEOREM MainQuiescentAlways == Spec => []MainQuiescent
BY Invariance, InvMainQuiescent, PTL

\* Handlers do not nest.
LEMMA InvOneHandler == KernelInv => OneHandlerAtATime
BY DEF KernelInv, StackInv, OneHandlerAtATime

THEOREM OneHandlerAlways == Spec => []OneHandlerAtATime
BY Invariance, InvOneHandler, PTL

\* With interrupts on, both controllers are set up as the table expects.
LEMMA InvConfigured == KernelInv => ControllersConfigured
BY Configured DEF ControllersConfigured

THEOREM ConfiguredAlways == Spec => []ControllersConfigured
BY Invariance, InvConfigured, PTL

\* The registers of the interrupted program are all in place or all mirrored.
THEOREM MirroredAlways == Spec => []RegistersMirrored
<1>1. KernelInv => RegistersMirrored
  BY DEF KernelInv
<1> QED
  BY <1>1, Invariance, PTL

\* The default handler is reached only through an unmasked line without a driver.
LEMMA InvDiesOnlyOfStray == KernelInv => DiesOnlyOfStray
<1> SUFFICES ASSUME KernelInv, ~reset,
                    Serving(default_interrupt_service_routine, "helper")
             PROVE  StrayUnmasked
  BY DEF KernelInv, StackInv, DiesOnlyOfStray
<1>1. PICK i \in DOMAIN frames :
        frames[i].routine = default_interrupt_service_routine
  BY DEF Serving
<1>2. frames \in Seq(Frame) /\ frames # <<>> /\ i \in 1..Len(frames)
  BY DEF KernelInv, TypeOK
<1>3. frames[1].routine = default_interrupt_service_routine
  <2>1. CASE i = 1
    BY <1>1, <2>1
  <2>2. CASE i > 1
    BY <2>2 DEF KernelInv, StackInv
  <2> QED
    BY <1>2, <2>1, <2>2
<1> QED
  BY <1>2, <1>3 DEF KernelInv, StackInv

THEOREM DiesOnlyOfStrayAlways == Spec => []DiesOnlyOfStray
BY Invariance, InvDiesOnlyOfStray, PTL

\* The byte in the keyboard's buffer has exactly one request or one reader.
LEMMA InvByteHasRequest == KernelInv => ByteHasRequest
<1> SUFFICES ASSUME KernelInv PROVE ByteHasRequest
  OBVIOUS
<1>1. frames \in Seq(Frame)
  BY DEF KernelInv, TypeOK
<1>2. Serving(keyboard_interrupt_service_routine, "helper") <=> ReadsKey
  <2>1. ASSUME ReadsKey PROVE Serving(keyboard_interrupt_service_routine, "helper")
    <3>1. frames # <<>> /\ 1 \in DOMAIN frames
      BY <1>1, <2>1 DEF ReadsKey
    <3> QED
      BY <2>1, <3>1 DEF ReadsKey, Serving
  <2>2. ASSUME Serving(keyboard_interrupt_service_routine, "helper") PROVE ReadsKey
    <3>1. PICK i \in DOMAIN frames :
            /\ frames[i].routine = keyboard_interrupt_service_routine
            /\ frames[i].at = "helper"
      BY <2>2 DEF Serving
    <3>2. i \in 1..Len(frames) /\ frames # <<>>
      BY <1>1
    <3>3. ~(i > 1)
      BY <3>1, DriversDiffer DEF KernelInv, StackInv
    <3>4. i = 1
      BY <3>2, <3>3
    <3> QED
      BY <3>1, <3>2, <3>4 DEF ReadsKey
  <2> QED
    BY <2>1, <2>2
<1>3. ByteInv
  BY DEF KernelInv
<1> QED
  BY <1>2, <1>3 DEF ByteInv, ByteHasRequest

THEOREM ByteHasRequestAlways == Spec => []ByteHasRequest
BY Invariance, InvByteHasRequest, PTL

\* The lines in service are those whose handlers owe an end of interrupt.
LEMMA InvInService == KernelInv => InServiceMatchesFrames
<1> SUFFICES ASSUME KernelInv, ~reset PROVE InServiceMatchesFrames
  BY DEF InServiceMatchesFrames
<1>1. frames \in Seq(Frame) /\ DOMAIN frames = 1..Len(frames)
  BY DEF KernelInv, TypeOK
<1>2. CASE ~InService
  <2>1. \A j \in DOMAIN frames : frames[j].at = "pop" \/ frames[j].source = Fault
    <3> SUFFICES ASSUME NEW j \in DOMAIN frames
                 PROVE  frames[j].at = "pop" \/ frames[j].source = Fault
      OBVIOUS
    <3>1. j \in 1..Len(frames) /\ frames # <<>>
      BY <1>1
    <3>2. CASE j = 1
      BY <1>2, <3>1, <3>2 DEF InService
    <3>3. CASE j > 1
      BY <3>3 DEF KernelInv, StackInv
    <3> QED
      BY <3>1, <3>2, <3>3
  <2>2. Owed = {}
    BY <2>1 DEF Owed
  <2>3. pic[MASTER_PIC_ID].isr = {} /\ pic[SLAVE_PIC_ID].isr = {}
    BY <1>2 DEF KernelInv, ServiceInv
  <2> QED
    BY <2>2, <2>3 DEF InServiceMatchesFrames
<1>3. CASE InService
  <2> DEFINE irq == frames[1].source
  <2>1. /\ frames # <<>> /\ frames[1].at # "pop" /\ 1 \in DOMAIN frames
        /\ irq \in Irqs
    BY <1>1, <1>3 DEF InService, KernelInv, StackInv
  <2>3. Owed = {irq}
    <3>1. \A j \in DOMAIN frames : frames[j].source # Fault => j = 1
      BY <1>1 DEF KernelInv, StackInv
    <3>2. irq # Fault
      BY <2>1 DEF Irqs, Fault
    <3> QED
      BY <2>1, <3>1, <3>2 DEF Owed
  <2>4. /\ pic[MASTER_PIC_ID].isr = IF irq > 7 THEN {2} ELSE {irq}
        /\ pic[SLAVE_PIC_ID].isr = IF irq > 7 THEN {irq - 8} ELSE {}
    BY <1>3 DEF KernelInv, ServiceInv
  <2> HIDE DEF irq
  <2>5. CASE irq > 7
    <3>1. PICK line \in Lines : irq = line + 8 /\ irq - 8 = line
      BY <2>1, <2>5 DEF Irqs, Lines
    <3>2. irq \notin Lines /\ 2 \in Lines
      BY <2>5 DEF Lines
    <3>3. {l \in Lines : l \in Owed \/ (l = 2 /\ \E q \in Owed : q > 7)} = {2}
      BY <2>3, <2>5, <3>2
    <3>4. {l \in Lines : l + 8 \in Owed} = {line}
      BY <2>3, <3>1 DEF Lines
    <3>5. pic[MASTER_PIC_ID].isr = {2} /\ pic[SLAVE_PIC_ID].isr = {line}
      BY <2>4, <2>5, <3>1
    <3> QED
      BY <3>3, <3>4, <3>5 DEF InServiceMatchesFrames
  <2>6. CASE ~(irq > 7)
    BY <2>1, <2>3, <2>4, <2>6 DEF Irqs, Lines, InServiceMatchesFrames
  <2> QED
    BY <2>5, <2>6
<1> QED
  BY <1>2, <1>3

THEOREM InServiceAlways == Spec => []InServiceMatchesFrames
BY Invariance, InvInService, PTL

-----------------------------------------------------------------------------
(* The pace of the clock: time_in_sec moves at every Period-th tick and at *)
(* the wrap of the tick counter, and at no other time.                     *)

\* Counting on modulo a step.
LEMMA NextRemainder ==
  ASSUME NEW a \in Nat, NEW b \in Nat, b > 1
  PROVE  (a + 1) % b = IF (a % b) + 1 = b THEN 0 ELSE (a % b) + 1
<1> DEFINE q == a \div b
           r == a % b
           q1 == (a + 1) \div b
           r1 == (a + 1) % b
<1>1. q \in Nat /\ r \in 0..(b - 1) /\ a = q * b + r
  BY DivMod
<1>2. q1 \in Nat /\ r1 \in 0..(b - 1) /\ a + 1 = q1 * b + r1
  BY DivMod
<1> HIDE DEF q, r
<1>3. CASE r + 1 = b
  <2>1. a + 1 = (q + 1) * b + 0 /\ q + 1 \in Nat /\ 0 \in 0..(b - 1)
    BY <1>1, <1>3
  <2>2. q1 = q + 1
    BY <2>1, Division
  <2> HIDE DEF q1, r1
  <2>3. r1 = 0
    BY <1>2, <2>1, <2>2
  <2> QED
    BY <1>3, <2>3 DEF r, r1
<1>4. CASE r + 1 # b
  <2>1. a + 1 = q * b + (r + 1) /\ r + 1 \in 0..(b - 1)
    BY <1>1, <1>4
  <2>2. q1 = q
    BY <1>1, <2>1, Division
  <2> HIDE DEF q1, r1
  <2>3. r1 = r + 1
    BY <1>1, <1>2, <2>1, <2>2
  <2> QED
    BY <1>4, <2>3 DEF r, r1
<1> QED
  BY <1>3, <1>4

LEMMA NextModulo ==
  ASSUME NEW a \in Nat, NEW b \in Nat, b > 1, a < b
  PROVE  /\ (a + 1) % b \in {0, a + 1}
         /\ (a + 1) % b # a
         /\ 0 % b = 0
<1>1. a % b = a /\ 0 % b = 0
  OBVIOUS
<1>2. (a + 1) % b = IF (a % b) + 1 = b THEN 0 ELSE (a % b) + 1
  BY NextRemainder
<1> QED
  BY <1>1, <1>2

\* One handled tick.
LEMMA TickClock ==
  ASSUME PitTypeOK, sinceStep = g_pit_count % Period, count_tick
  PROVE  /\ sinceStep' = g_pit_count' % Period
         /\ time_in_sec' # time_in_sec <=>
              sinceStep + 1 = Period \/ g_pit_count' = 0
<1>1. /\ CountWrap \in Nat /\ CountWrap > 1 /\ TimeWrap \in Nat /\ TimeWrap > 1
      /\ Period \in Nat /\ Period > 1
      /\ g_pit_count \in Nat /\ g_pit_count < CountWrap
      /\ time_in_sec \in Nat /\ time_in_sec < TimeWrap
  BY PitAssumption DEF PitTypeOK
<1> DEFINE count == (g_pit_count + 1) % CountWrap
           time  == (time_in_sec + 1) % TimeWrap
<1>2. count \in {0, g_pit_count + 1} /\ time # time_in_sec /\ 0 % Period = 0
  BY <1>1, NextModulo
<1>3. (g_pit_count + 1) % Period =
        IF sinceStep + 1 = Period THEN 0 ELSE sinceStep + 1
  BY <1>1, NextRemainder
<1>4. sinceStep \in Nat
  BY DEF PitTypeOK
<1>5. /\ g_pit_count' = count
      /\ time_in_sec' = IF count % Period = 0 THEN time ELSE time_in_sec
      /\ sinceStep' = IF count % Period = 0 THEN 0 ELSE sinceStep + 1
  BY DEF count_tick
<1> HIDE DEF count, time
<1>6. CASE count = 0
  BY <1>2, <1>5, <1>6
<1>7. CASE count = g_pit_count + 1 /\ count # 0
  BY <1>2, <1>3, <1>4, <1>5, <1>7
<1> QED
  BY <1>2, <1>6, <1>7

\* Only init_pit and the timer's handler touch the counters.
LEMMA OtherSteps ==
  ASSUME [Next]_vars, ~init_pit, ~helper_calculate_timer
  PROVE  UNCHANGED <<g_pit_count, time_in_sec, sinceStep>>
BY DEF Next, MainStep, HandlerStep, boot_cli, init_gdt, boot_init_Idt, boot_init_pic,
   init_ps2_controller, start, enable_Interrupts, spin, TakeIrq,
   helper_keyboard_handler, end_handler, iretq, helper_interrupt_service_routine,
   PitTick, KeyArrives, StrayRaises, DevicesOnly, Halted, vars, pitVars

\* boot() never goes back.
LEMMA SpinStays == KernelInv /\ [Next]_vars /\ main' # "spin" => main # "spin"
BY DEF Next, MainStep, HandlerStep, boot_cli, init_gdt, boot_init_Idt, boot_init_pic,
   init_pit, init_ps2_controller, start, enable_Interrupts, spin, TakeIrq, At, Goto,
   helper_calculate_timer, helper_keyboard_handler, end_handler, iretq,
   helper_interrupt_service_routine, HandlerWorld, PitTick, KeyArrives, StrayRaises,
   DevicesOnly, Halted, vars

LEMMA ClockStep ==
  ASSUME KernelInv, ClockInv, [Next]_vars
  PROVE  /\ ClockInv'
         /\ g_pit_count' # g_pit_count =>
              (time_in_sec' # time_in_sec <=>
                 sinceStep + 1 = Period \/ g_pit_count' = 0)
<1>1. PitTypeOK /\ 0 % Period = 0
  BY PitAssumption DEF KernelInv, TypeOK
<1>2. CASE init_pit
  <2>1. main = "init_pit" /\ g_pit_count' = 0 /\ sinceStep' = sinceStep
    BY <1>2 DEF init_pit, At, program_pit
  <2> QED
    BY <1>1, <2>1 DEF ClockInv
<1>3. CASE helper_calculate_timer
  <2>1. frames # <<>> /\ count_tick /\ main' = main
    BY <1>3 DEF helper_calculate_timer, Running, HandlerWorld
  <2>2. main = "spin"
    BY <2>1 DEF KernelInv, BootInv
  <2> QED
    BY <1>1, <2>1, <2>2, TickClock DEF ClockInv
<1>4. CASE ~init_pit /\ ~helper_calculate_timer
  <2>1. UNCHANGED <<g_pit_count, time_in_sec, sinceStep>>
    BY <1>4, OtherSteps
  <2> QED
    BY <2>1, SpinStays DEF ClockInv
<1> QED
  BY <1>2, <1>3, <1>4

\* time_in_sec moves exactly at every Period-th tick that helper_calculate_timer
\* handles, and at the wrap of g_pit_count.
THEOREM ClockCadenceAlways == Spec => ClockCadence
<1>1. Init => ClockInv
  <2>1. 0 % Period = 0
    BY PitAssumption
  <2> QED
    BY <2>1 DEF Init, PitInit, ClockInv
<1>2. KernelInv /\ ClockInv /\ [Next]_vars => ClockInv'
  BY ClockStep
<1>3. KernelInv /\ ClockInv /\ [Next]_vars =>
        [g_pit_count' # g_pit_count =>
           (time_in_sec' # time_in_sec <=>
              sinceStep + 1 = Period \/ g_pit_count' = 0)]_vars
  BY ClockStep
<1> QED
  BY <1>1, <1>2, <1>3, Invariance, PTL DEF Spec, ClockCadence

-----------------------------------------------------------------------------
(* The service the kernel implements.                                      *)


mode    == IF Dying THEN "dead" ELSE IF main = "spin" THEN "live" ELSE "booting"
pending == DriverIrqs \cap (pic[MASTER_PIC_ID].irr \ pic[MASTER_PIC_ID].imr)
serving == IF frames = <<>> \/ Dying THEN NoLine ELSE frames[1].source

\* What the mapping makes of a stack.
DyingFrame ==
  frames # <<>> /\ frames[1].routine = default_interrupt_service_routine
DyingMeans == Dying <=> reset \/ DyingFrame

LEMMA InvDying == KernelInv => DyingMeans
<1> SUFFICES ASSUME KernelInv PROVE DyingMeans
  OBVIOUS
<1>1. frames \in Seq(Frame) /\ DOMAIN frames = 1..Len(frames)
  BY DEF KernelInv, TypeOK
<1>2. frames # <<>> => 1 \in DOMAIN frames
  BY <1>1
<1>3. ASSUME NEW i \in DOMAIN frames,
             frames[i].routine \notin {pit_interrupt_service_routine,
                                       keyboard_interrupt_service_routine}
      PROVE  /\ frames # <<>>
             /\ frames[1].routine = default_interrupt_service_routine
  <2>1. frames # <<>> /\ i \in 1..Len(frames)
    BY <1>1
  <2>2. CASE i = 1
    BY <1>3, <2>1, <2>2 DEF KernelInv, StackInv, RoutineOf
  <2>3. CASE i > 1
    BY <2>1, <2>3 DEF KernelInv, StackInv
  <2> QED
    BY <2>1, <2>2, <2>3
<1>4. default_interrupt_service_routine \notin {pit_interrupt_service_routine,
                                               keyboard_interrupt_service_routine}
  BY DriversDiffer
<1> QED
  BY <1>2, <1>3, <1>4 DEF Dying, DyingMeans, DyingFrame

LEMMA InvDyingNext == KernelInv' => DyingMeans'
BY InvDying, PTL

\* The steps of the service, on the mapped state.
Arrives  == /\ \E l \in DriverIrqs : pending' = pending \cup {l}
            /\ UNCHANGED <<mode, serving>>
Boots    == /\ mode = "booting" /\ mode' \in {"booting", "live"}
            /\ mode' = "live" => pending' = pending
            /\ serving' = serving
Serves   == /\ mode = "live" /\ serving = NoLine /\ mode' = mode
            /\ \E l \in pending : /\ \A m \in pending : l <= m
                                  /\ serving' = l /\ pending' = pending \ {l}
Finishes == /\ mode = "live" /\ serving # NoLine /\ serving' = NoLine
            /\ UNCHANGED <<mode, pending>>
Dies     == /\ mode = "live" /\ serving = NoLine /\ mode' = "dead"
            /\ UNCHANGED <<pending, serving>>
Rests    == UNCHANGED <<mode, pending, serving>>

LEMMA ServiceSteps ==
  ASSUME Arrives \/ Boots \/ Serves \/ Finishes \/ Dies \/ Rests
  PROVE  [Service!ServiceNext]_(Service!serviceVars)
<1>1. CASE Arrives
  BY <1>1 DEF Arrives, Service!ServiceNext, Service!Arrive, mode, pending, serving
<1>2. CASE Boots
  <2>1. pending' \in SUBSET DriverIrqs
    BY DEF pending
  <2>2. CASE mode' = "booting"
    BY <1>2, <2>1, <2>2 DEF Boots, Service!ServiceNext, Service!Forget, mode,
       pending, serving
  <2>3. CASE mode' = "live"
    BY <1>2, <2>3 DEF Boots, Service!ServiceNext, Service!GoLive, mode, pending,
       serving
  <2> QED
    BY <1>2, <2>2, <2>3 DEF Boots
<1>3. CASE Serves
  BY <1>3 DEF Serves, Service!ServiceNext, Service!Serve, mode, pending, serving
<1>4. CASE Finishes
  BY <1>4 DEF Finishes, Service!ServiceNext, Service!Finish, mode, pending, serving
<1>5. CASE Dies
  BY <1>5 DEF Dies, Service!ServiceNext, Service!Die, mode, pending, serving
<1>6. CASE Rests
  BY <1>6 DEF Rests, Service!serviceVars, mode, pending, serving
<1> QED
  BY <1>1, <1>2, <1>3, <1>4, <1>5, <1>6
-----------------------------------------------------------------------------
(* The steps of the kernel.                                                *)

\* A step that changes no request and leaves the stack to the mapping as it was.
LEMMA RestsWhen ==
  ASSUME KernelInv, KernelInv', UNCHANGED main,
         UNCHANGED <<pic[MASTER_PIC_ID].irr, pic[MASTER_PIC_ID].imr>>,
         \/ UNCHANGED <<frames, reset>>
         \/ /\ frames # <<>> /\ frames' # <<>>
            /\ frames'[1].source = frames[1].source
            /\ frames'[1].routine = frames[1].routine
            /\ (reset' <=> reset) \/ DyingFrame
  PROVE  Rests
<1>1. DyingMeans /\ DyingMeans'
  BY InvDying, InvDyingNext
<1>2. pending' = pending
  BY DEF pending
<1>3. Dying' <=> Dying
  BY <1>1 DEF DyingMeans, DyingFrame
<1>4. mode' = mode
  BY <1>3 DEF mode
<1>5. serving' = serving
  BY <1>3 DEF serving
<1> QED
  BY <1>2, <1>4, <1>5 DEF Rests

\* The devices: a request of a driver's line arrives if it is unmasked.
LEMMA DeviceService ==
  ASSUME KernelInv, KernelInv', PitTick \/ KeyArrives \/ StrayRaises
  PROVE  Arrives \/ Rests
<1>1. PICK irq \in {0, 1} \cup StrayIrqs : pic' = Raised(pic, irq)
  BY DEF PitTick, KeyArrives, StrayRaises
<1>2. irq \in Irqs /\ pic \in Chips /\ MASTER_PIC_ID \in Pics
  BY KernelAssumption DEF Irqs, KernelInv, TypeOK, PicTypeOK, Chips, Pics
<1>3. UNCHANGED <<main, frames, reset>>
  BY DEF PitTick, KeyArrives, StrayRaises, DevicesOnly, cpuVars
<1>4. /\ pic'[MASTER_PIC_ID].irr =
           pic[MASTER_PIC_ID].irr \cup (IF irq < 8 THEN {irq} ELSE {})
      /\ pic'[MASTER_PIC_ID].imr = pic[MASTER_PIC_ID].imr
  <2>1. pic'[MASTER_PIC_ID] =
          [pic[MASTER_PIC_ID] EXCEPT !.irr = pic'[MASTER_PIC_ID].irr]
    BY <1>1, <1>2, RaisedFacts
  <2> QED
    BY <1>1, <1>2, <2>1, RaisedFacts DEF Chips, Chip
<1>5. UNCHANGED <<mode, serving>>
  <2>1. Dying' <=> Dying
    BY <1>3 DEF Dying
  <2> QED
    BY <1>3, <2>1 DEF mode, serving
<1>6. CASE irq \in DriverIrqs /\ irq \notin pic[MASTER_PIC_ID].imr
  <2>1. irq < 8
    BY <1>6 DEF DriverIrqs
  <2>2. pending' = pending \cup {irq}
    BY <1>4, <1>6, <2>1 DEF pending
  <2> QED
    BY <1>5, <1>6, <2>2 DEF Arrives
<1>7. CASE ~(irq \in DriverIrqs /\ irq \notin pic[MASTER_PIC_ID].imr)
  <2>1. pending' = pending
    BY <1>4, <1>7 DEF pending
  <2> QED
    BY <1>5, <2>1 DEF Rests
<1> QED
  BY <1>6, <1>7

\* boot() serves nothing; until interrupts are on, requests may be lost.
LEMMA MainService ==
  ASSUME KernelInv, KernelInv', MainStep
  PROVE  Boots
<1>1. /\ frames = <<>> /\ ~reset /\ frames' = frames /\ (reset' <=> reset)
      /\ main # "spin"
  BY DEF MainStep, boot_cli, init_gdt, boot_init_Idt, boot_init_pic, init_pit,
     init_ps2_controller, start, enable_Interrupts, At, CpuIdle
<1>2. main' = "spin" => UNCHANGED pic
  BY DEF MainStep, boot_cli, init_gdt, boot_init_Idt, boot_init_pic, init_pit,
     init_ps2_controller, start, enable_Interrupts, At, Goto, picVars
<1>3. ~Dying /\ ~Dying'
  BY <1>1, InvDying, InvDyingNext DEF DyingMeans, DyingFrame
<1>4. /\ mode = "booting" /\ mode' \in {"booting", "live"}
      /\ mode' = "live" => main' = "spin"
  BY <1>1, <1>3 DEF mode
<1>5. serving' = serving
  BY <1>1, <1>3 DEF serving
<1>6. main' = "spin" => pending' = pending
  BY <1>2 DEF pending
<1> QED
  BY <1>4, <1>5, <1>6 DEF Boots

\* The stack after an interrupt, seen through the mapping.
LEMMA TakeIrqService ==
  ASSUME KernelInv, KernelInv', NEW irq \in Irqs, TakeIrq(irq)
  PROVE  Serves \/ Dies
<1> DEFINE M == MASTER_PIC_ID
           f == IdleFrame(irq)
<1>1. /\ ~reset /\ Requests(pic) # {} /\ irq = AckedIrq(pic)
      /\ pic' = Acknowledged(pic, irq) /\ main' = main
  BY DEF TakeIrq
<1>2. main = "spin" /\ frames = <<>> /\ frames' = <<f>> /\ ~reset'
  BY TakeIrqFrame
<1>3. frames' # <<>> /\ frames'[1] = f
  BY <1>2
<1>4. f.source = irq /\ f.routine = RoutineOf(irq)
  BY DEF IdleFrame
<1> HIDE DEF f
<1>5. pic \in Chips /\ M \in Pics
  BY DEF KernelInv, TypeOK, PicTypeOK, Chips, Pics
<1>6. /\ pic'[M].irr = pic[M].irr \ {IF irq > 7 THEN 2 ELSE irq}
      /\ pic'[M].imr = pic[M].imr
  BY <1>1, <1>5, AcknowledgedFacts
<1>7. ~Dying /\ (Dying' <=> RoutineOf(irq) = default_interrupt_service_routine)
  BY <1>1, <1>2, <1>3, <1>4, InvDying, InvDyingNext DEF DyingMeans, DyingFrame
<1>8. mode = "live" /\ serving = NoLine
  BY <1>2, <1>7 DEF mode, serving
<1>9. CASE irq \in DriverIrqs
  <2>1. irq < 8 /\ ~(irq > 7)
    BY <1>9 DEF DriverIrqs
  <2>2. irq \in pending
    <3>1. irq \in pic[M].irr \ pic[M].imr
      BY <1>1, <1>5, <2>1, AckedFacts
    <3> QED
      BY <1>9, <3>1 DEF pending
  <2>3. \A m \in pending : irq <= m
    <3>1. pic[M].isr = {}
      BY <1>1, <1>2 DEF KernelInv, ServiceInv, InService
    <3> QED
      BY <1>1, <1>5, <3>1, AckedFirst DEF pending, DriverIrqs
  <2>4. pending' = pending \ {irq}
    BY <1>6, <2>1 DEF pending
  <2>5. ~Dying'
    BY <1>7, <1>9, DriversDiffer DEF RoutineOf, DriverIrqs
  <2>6. mode' = mode /\ serving' = irq
    BY <1>1, <1>3, <1>4, <1>7, <2>5 DEF mode, serving
  <2> QED
    BY <1>8, <2>2, <2>3, <2>4, <2>6 DEF Serves
<1>10. CASE irq \notin DriverIrqs
  <2>1. Dying'
    BY <1>7, <1>10 DEF RoutineOf, DriverIrqs
  <2>2. pending' = pending
    BY <1>6, <1>10 DEF pending, DriverIrqs
  <2>3. mode' = "dead" /\ serving' = serving
    BY <1>8, <2>1 DEF mode, serving
  <2> QED
    BY <1>8, <2>2, <2>3 DEF Dies
<1> QED
  BY <1>9, <1>10

\* A fault of the default handler adds a frame, if any, on top.
LEMMA FaultFrame ==
  ASSUME KernelInv, helper_interrupt_service_routine
  PROVE  frames' # <<>> /\ frames'[1] = frames[1] /\ DyingFrame /\ frames # <<>>
<1>1. /\ frames # <<>> /\ Top.routine = default_interrupt_service_routine
      /\ \/ frames' = frames
         \/ \E f : frames' = Append(frames, f)
  BY DEF helper_interrupt_service_routine, Running, Enter
<1>2. frames \in Seq(Frame)
  BY DEF KernelInv, TypeOK
<1>3. DyingFrame
  <2> DEFINE n == Len(frames)
  <2>1. n \in Nat /\ n > 0 /\ DOMAIN frames = 1..n /\ Top = frames[n]
    BY <1>1, <1>2 DEF Top
  <2>2. n > 1 /\ n \in DOMAIN frames =>
          frames[1].routine = default_interrupt_service_routine
    BY DEF KernelInv, StackInv
  <2> HIDE DEF n
  <2>3. CASE n = 1
    BY <1>1, <2>1, <2>3 DEF DyingFrame
  <2>4. CASE n # 1
    BY <1>1, <2>1, <2>2, <2>4 DEF DyingFrame
  <2> QED
    BY <2>3, <2>4
<1>4. frames' # <<>> /\ frames'[1] = frames[1]
  BY <1>1, <1>2, AppendFacts
<1> QED
  BY <1>1, <1>3, <1>4

\* A driver's handler serves its line until it returns.
LEMMA HandlerService ==
  ASSUME KernelInv, KernelInv', HandlerStep
  PROVE  Finishes \/ Rests
<1>1. CASE helper_calculate_timer \/ helper_keyboard_handler \/ end_handler
  <2>1. PICK at \in {"eoi", "pop"} :
          /\ frames # <<>> /\ ~reset /\ MoveTop(at)
          /\ Top.at # "helper" \/ Top.routine # default_interrupt_service_routine
    <3>1. CASE helper_calculate_timer \/ helper_keyboard_handler
      BY <3>1, DriversDiffer DEF helper_calculate_timer, helper_keyboard_handler,
         Running
    <3>2. CASE end_handler
      BY <3>2 DEF end_handler
    <3> QED
      BY <1>1, <3>1, <3>2
  <2>2. Len(frames) = 1 /\ Top = frames[1]
    BY <2>1, Single
  <2>3. /\ frames' # <<>> /\ frames'[1].source = frames[1].source
        /\ frames'[1].routine = frames[1].routine
    BY <2>1, <2>2, MoveSingle
  <2>4. main' = main /\ (reset' <=> reset)
    BY <1>1 DEF helper_calculate_timer, helper_keyboard_handler, end_handler,
       HandlerWorld
  <2>5. UNCHANGED <<pic[MASTER_PIC_ID].irr, pic[MASTER_PIC_ID].imr>>
    <3>1. CASE end_handler
      BY <3>1, EndHandlerChip
    <3>2. CASE ~end_handler
      BY <1>1, <3>2 DEF helper_calculate_timer, helper_keyboard_handler, picVars
    <3> QED
      BY <3>1, <3>2
  <2> QED
    BY <2>1, <2>3, <2>4, <2>5, RestsWhen
<1>2. CASE iretq
  <2>1. /\ frames # <<>> /\ ~reset /\ Top.at = "pop" /\ main' = main /\ pic' = pic
        /\ (reset' <=> reset)
    BY <1>2 DEF iretq, HandlerWorld, picVars
  <2>2. /\ main = "spin" /\ frames[1].source \in {0, 1}
        /\ frames[1].routine # default_interrupt_service_routine
    BY <2>1, Single
  <2>3. frames' = <<>>
    BY <1>2, IretqFrame
  <2>4. ~Dying /\ ~Dying'
    BY <2>1, <2>2, <2>3, InvDying, InvDyingNext DEF DyingMeans, DyingFrame
  <2>5. serving # NoLine /\ serving' = NoLine
    BY <2>1, <2>2, <2>3, <2>4, NoLineAssumption DEF serving, DriverIrqs
  <2>6. mode = "live" /\ mode' = mode /\ pending' = pending
    BY <2>1, <2>2, <2>4 DEF mode, pending
  <2> QED
    BY <2>5, <2>6 DEF Finishes
<1>3. CASE helper_interrupt_service_routine
  <2>1. frames' # <<>> /\ frames'[1] = frames[1] /\ DyingFrame /\ frames # <<>>
    BY <1>3, FaultFrame
  <2>2. main' = main /\ pic' = pic
    BY <1>3 DEF helper_interrupt_service_routine, HandlerWorld, picVars
  <2> QED
    BY <2>1, <2>2, RestsWhen
<1> QED
  BY <1>1, <1>2, <1>3 DEF HandlerStep

LEMMA ServiceStep ==
  KernelInv /\ KernelInv' /\ [Next]_vars => [Service!ServiceNext]_(Service!serviceVars)
<1> SUFFICES ASSUME KernelInv, KernelInv', [Next]_vars
             PROVE  Arrives \/ Boots \/ Serves \/ Finishes \/ Dies \/ Rests
  BY ServiceSteps
<1>1. CASE UNCHANGED vars
  <2>1. UNCHANGED <<main, pic, frames, reset>>
    BY <1>1 DEF vars, picVars, cpuVars
  <2> QED
    BY <2>1, RestsWhen
<1>2. CASE spin \/ Halted
  BY <1>1, <1>2 DEF spin, Halted
<1> QED
  BY <1>1, <1>2, MainService, TakeIrqService, HandlerService, DeviceService DEF Next

\* The interrupt path keeps the promise of IrqService to its two drivers: a
\* pending request is never forgotten, the lower line is served first, and one
\* service ends before the next begins.
THEOREM Implements == Spec => ImplementsService
<1>1. Init => Service!ServiceInit
  <2> SUFFICES ASSUME Init PROVE Service!ServiceInit
    OBVIOUS
  <2>1. frames = <<>> /\ ~reset /\ main = "cli"
    BY DEF Init
  <2>2. ~Dying
    BY <2>1, InitInv, InvDying DEF DyingMeans, DyingFrame
  <2> QED
    BY <2>1, <2>2 DEF Service!ServiceInit
<1>2. KernelInv /\ [Next]_vars => [Service!ServiceNext]_(Service!serviceVars)
  BY KernelStep, ServiceStep
<1> QED
  BY <1>1, <1>2, Invariance, PTL DEF Spec, ImplementsService, Service!ServiceSpec
=============================================================================
