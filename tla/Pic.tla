-------------------------------- MODULE Pic --------------------------------
(***************************************************************************)
(* The two cascaded 8259A interrupt controllers and the part of sys/pic.c  *)
(* that drives them.  The driver is translated from the source; the chips  *)
(* are external hardware, modelled from how the driver uses them.          *)
(*                                                                         *)
(* A byte written to or read from a port is the set of its bits that are   *)
(* 1, so 16#20# is {5} and an interrupt mask is the set of masked lines.   *)
(***************************************************************************)
EXTENDS Naturals, Sequences

VARIABLES
  pic,              \* the registers of each chip
  picStep,          \* how many statements of init_pic have been executed
  master_pic_data,  \* init_pic's copy of the firmware's master mask
  slave_pic_data    \* and of its slave mask

picVars == <<pic, picStep, master_pic_data, slave_pic_data>>

Lines == 0..7
Byte  == SUBSET Lines
Irqs  == 0..15

MASTER_PIC_ID == 0
SLAVE_PIC_ID  == 1
Pics == {MASTER_PIC_ID, SLAVE_PIC_ID}

MASTER_PIC_COMMAND == 32
MASTER_PIC_DATA    == 33
SLAVE_PIC_COMMAND  == 160
SLAVE_PIC_DATA     == 161

PIC_ICW1_MASK_ICW4 == 0      \* bit numbers of ICW1 and ICW4
PIC_ICW1_MASK_INIT == 4
PIC_ICW4_MASK_8086 == 0
PIC_EOI        == {5}        \* 0x20
PROT_MODE_MASTER_PIC_VECTOR_OFFSET == {5}      \* 0x20
PROT_MODE_SLAVE_PIC_VECTOR_OFFSET  == {3, 5}   \* 0x28

-----------------------------------------------------------------------------
(* The 8259A.                                                              *)

Expectations == {"ICW2", "ICW3", "ICW4", "OCW1"}

Chip == [irr: Byte, isr: Byte, imr: Byte, icw2: Byte, icw3: Byte, icw4: Byte,
         expects: Expectations, reads: {"irr", "isr"}]

\* Fully nested mode: line 0 has the highest priority.
Highest(lines) == CHOOSE l \in lines : \A m \in lines : l <= m

\* Lines of one chip that may interrupt: requested, unmasked, and of higher
\* priority than everything that is in service there.
Servable(chip) == {l \in chip.irr \ chip.imr : \A m \in chip.isr : l < m}

\* A write to the data port: the initialization words in order, then OCW1.
DataWrite(chip, data) ==
  CASE chip.expects = "ICW2" -> [chip EXCEPT !.icw2 = data, !.expects = "ICW3"]
    [] chip.expects = "ICW3" -> [chip EXCEPT !.icw3 = data, !.expects = "ICW4"]
    [] chip.expects = "ICW4" -> [chip EXCEPT !.icw4 = data, !.expects = "OCW1"]
    [] chip.expects = "OCW1" -> [chip EXCEPT !.imr = data]

\* ICW1 restarts the initialization.  It resets the edge detectors, so a
\* request is kept only if the chip sees an edge again on a line that is still
\* high: relatched is the set of those lines.
Icw1(chip, relatched) ==
  [chip EXCEPT !.irr = relatched, !.isr = {}, !.imr = {},
               !.expects = "ICW2", !.reads = "irr"]

\* A write to the command port.  Bit 4 marks ICW1; bit 3 marks OCW3, of which
\* bits 1 and 0 select the register to be read; OCW2 with bit 5 is the
\* non-specific end of interrupt.
CommandWrite(chip, cmd, relatched) ==
  CASE PIC_ICW1_MASK_INIT \in cmd -> Icw1(chip, relatched)
    [] 4 \notin cmd /\ 3 \in cmd ->
         IF 1 \in cmd
         THEN [chip EXCEPT !.reads = IF 0 \in cmd THEN "isr" ELSE "irr"]
         ELSE chip
    [] 4 \notin cmd /\ 3 \notin cmd ->
         IF 5 \in cmd /\ chip.isr # {}
         THEN [chip EXCEPT !.isr = @ \ {Highest(chip.isr)}]
         ELSE chip

\* What outportb does to the chips behind a port.
Outportb(chips, port, val, relatched) ==
  CASE port = MASTER_PIC_COMMAND ->
         [chips EXCEPT ![MASTER_PIC_ID] = CommandWrite(@, val, relatched)]
    [] port = SLAVE_PIC_COMMAND ->
         [chips EXCEPT ![SLAVE_PIC_ID] = CommandWrite(@, val, relatched)]
    [] port = MASTER_PIC_DATA ->
         [chips EXCEPT ![MASTER_PIC_ID] = DataWrite(@, val)]
    [] port = SLAVE_PIC_DATA ->
         [chips EXCEPT ![SLAVE_PIC_ID] = DataWrite(@, val)]

\* The slave reaches the master only if ICW3 tells both about the same line:
\* a mask of lines for the master, a binary line number for the slave.
Cascaded(chips) ==
  /\ 2 \in chips[MASTER_PIC_ID].icw3
  /\ chips[SLAVE_PIC_ID].icw3 = {1}

\* Lines on which the master raises INTR towards the CPU.
Requests(chips) ==
  LET master == chips[MASTER_PIC_ID]
      slave  == Cascaded(chips) /\ Servable(chips[SLAVE_PIC_ID]) # {}
  IN  Servable([master EXCEPT !.irr = IF slave THEN @ \cup {2} ELSE @ \ {2}])

\* The IRQ the CPU gets when it acknowledges INTR.
AckedIrq(chips) ==
  LET l == Highest(Requests(chips))
  IN  IF l = 2 THEN 8 + Highest(Servable(chips[SLAVE_PIC_ID])) ELSE l

Serviced(chip, l) == [chip EXCEPT !.irr = @ \ {l}, !.isr = @ \cup {l}]

Acknowledged(chips, irq) ==
  IF irq < 8
  THEN [chips EXCEPT ![MASTER_PIC_ID] = Serviced(@, irq)]
  ELSE [chips EXCEPT ![MASTER_PIC_ID] = Serviced(@, 2),
                     ![SLAVE_PIC_ID]  = Serviced(@, irq - 8)]

\* ICW2 gives bits 3 to 7 of the vector, the line number bits 0 to 2.
VectorBase(icw2) ==
  (IF 3 \in icw2 THEN 8 ELSE 0) + (IF 4 \in icw2 THEN 16 ELSE 0)
    + (IF 5 \in icw2 THEN 32 ELSE 0) + (IF 6 \in icw2 THEN 64 ELSE 0)
    + (IF 7 \in icw2 THEN 128 ELSE 0)

VectorOf(chips, irq) ==
  IF irq < 8 THEN VectorBase(chips[MASTER_PIC_ID].icw2) + irq
             ELSE VectorBase(chips[SLAVE_PIC_ID].icw2) + (irq - 8)

\* A device raises its line: the edge latches a request.
Raised(chips, irq) ==
  IF irq < 8 THEN [chips EXCEPT ![MASTER_PIC_ID].irr = @ \cup {irq}]
             ELSE [chips EXCEPT ![SLAVE_PIC_ID].irr = @ \cup {irq - 8}]

-----------------------------------------------------------------------------
(* The driver.                                                             *)

CommandPort(picNum) == IF picNum = MASTER_PIC_ID THEN MASTER_PIC_COMMAND
                                                 ELSE SLAVE_PIC_COMMAND
DataPort(picNum)    == IF picNum = MASTER_PIC_ID THEN MASTER_PIC_DATA
                                                 ELSE SLAVE_PIC_DATA

write_command_word_to_pic(chips, cmd, picNum, relatched) ==
  Outportb(chips, CommandPort(picNum), cmd, relatched)

write_data_to_pic(chips, data, picNum) ==
  Outportb(chips, DataPort(picNum), data, {})

\* Outside an initialization the data port reads back the mask.
read_data_from_pic(chips, picNum) == chips[picNum].imr

icw1 == {PIC_ICW1_MASK_INIT, PIC_ICW1_MASK_ICW4}
icw4 == {PIC_ICW4_MASK_8086}

\* Two mutants: mask and number of the cascade line swapped; all lines unmasked
\* at the end.
init_writes_cascade ==
  << [to |-> MASTER_PIC_ID, word |-> icw1],
     [to |-> SLAVE_PIC_ID,  word |-> icw1],
     [to |-> MASTER_PIC_ID, word |-> PROT_MODE_MASTER_PIC_VECTOR_OFFSET],
     [to |-> SLAVE_PIC_ID,  word |-> PROT_MODE_SLAVE_PIC_VECTOR_OFFSET],
     [to |-> MASTER_PIC_ID, word |-> {1}],
     [to |-> SLAVE_PIC_ID,  word |-> {2}],
     [to |-> MASTER_PIC_ID, word |-> icw4],
     [to |-> SLAVE_PIC_ID,  word |-> icw4],
     [to |-> MASTER_PIC_ID, word |-> master_pic_data],
     [to |-> SLAVE_PIC_ID,  word |-> slave_pic_data] >>

init_writes_unmask ==
  SubSeq(init_writes_cascade, 1, 4) \o
  << [to |-> MASTER_PIC_ID, word |-> {2}],
     [to |-> SLAVE_PIC_ID,  word |-> {1}] >> \o
  SubSeq(init_writes_cascade, 7, 8) \o
  << [to |-> MASTER_PIC_ID, word |-> {}],
     [to |-> SLAVE_PIC_ID,  word |-> {}] >>

\* The port writes of init_pic after its two mask reads, in program order.
\* The master takes the slave's line as a bit mask, 0x04; the slave is told its
\* line number, 2, which is the byte 0x02.
init_writes ==
  << [to |-> MASTER_PIC_ID, word |-> icw1],
     [to |-> SLAVE_PIC_ID,  word |-> icw1],
     [to |-> MASTER_PIC_ID, word |-> PROT_MODE_MASTER_PIC_VECTOR_OFFSET],
     [to |-> SLAVE_PIC_ID,  word |-> PROT_MODE_SLAVE_PIC_VECTOR_OFFSET],
     [to |-> MASTER_PIC_ID, word |-> {2}],
     [to |-> SLAVE_PIC_ID,  word |-> {1}],
     [to |-> MASTER_PIC_ID, word |-> icw4],
     [to |-> SLAVE_PIC_ID,  word |-> icw4],
     [to |-> MASTER_PIC_ID, word |-> master_pic_data],
     [to |-> SLAVE_PIC_ID,  word |-> slave_pic_data] >>

ReadMasks ==
  /\ picStep = 0
  /\ master_pic_data' = read_data_from_pic(pic, MASTER_PIC_ID)
  /\ slave_pic_data'  = read_data_from_pic(pic, SLAVE_PIC_ID)
  /\ picStep' = 1
  /\ UNCHANGED pic

\* The first two writes are commands, the others data.  high[c] is the set of
\* lines of chip c that are high at the moment of the write.
WriteWord(high) ==
  /\ picStep \in 1..10
  /\ LET w == init_writes[picStep] IN
       IF picStep <= 2
       THEN \E relatched \in SUBSET high[w.to] :
              pic' = write_command_word_to_pic(pic, w.word, w.to, relatched)
       ELSE pic' = write_data_to_pic(pic, w.word, w.to)
  /\ picStep' = picStep + 1
  /\ UNCHANGED <<master_pic_data, slave_pic_data>>

init_pic(high) == ReadMasks \/ WriteWord(high)

\* Two mutants: the end of interrupt goes to the slave; it is not sent.
handler_eoi_slave(chips) == Outportb(chips, SLAVE_PIC_COMMAND, PIC_EOI, {})
handler_eoi_none(chips)  == chips

\* The end of interrupt the two interrupt handlers send: outportb(0x20, 0x20).
handler_eoi(chips) == Outportb(chips, MASTER_PIC_COMMAND, PIC_EOI, {})

PicTypeOK ==
  /\ pic \in [Pics -> Chip]
  /\ picStep \in 0..11
  /\ master_pic_data \in Byte
  /\ slave_pic_data \in Byte
=============================================================================
