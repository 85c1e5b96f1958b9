------------------------------ MODULE PicQuery ------------------------------
(***************************************************************************)
(* The functions of sys/pic.c that the header offers to drivers and the    *)
(* kernel itself does not call: the queries of the in-service and request  *)
(* registers, and end_of_interrupt, which ends an interrupt of either chip.*)
(* The client here takes interrupts, nested by priority, ends the latest,  *)
(* and asks.                                                               *)
(***************************************************************************)
EXTENDS Pic

CONSTANT Sources   \* the IRQs that may be raised

VARIABLES
  serving,   \* the IRQs being served, the latest last
  answer     \* what the last query returned, and to which question

queryVars == <<picVars, serving, answer>>

PIC_OCW3_ISR == {1, 3}      \* 0x0a
PIC_OCW3_IRR == {0, 1, 3}   \* 0x0b

read_command_word_from_pic(chips, picNum) ==
  IF chips[picNum].reads = "isr" THEN chips[picNum].isr ELSE chips[picNum].irr

\* An OCW3 to both chips, then a read of both; the master's byte is the upper.
Query(question, ocw3) ==
  LET asked == write_command_word_to_pic(
                 write_command_word_to_pic(pic, ocw3, MASTER_PIC_ID, {}),
                 ocw3, SLAVE_PIC_ID, {})
  IN
  /\ pic' = asked
  /\ answer' = [to |-> question,
                upper |-> read_command_word_from_pic(asked, MASTER_PIC_ID),
                lower |-> read_command_word_from_pic(asked, SLAVE_PIC_ID)]
  /\ UNCHANGED <<picStep, master_pic_data, slave_pic_data, serving>>

get_pic_isr == Query("isr", PIC_OCW3_ISR)
get_pic_irr == Query("irr", PIC_OCW3_IRR)

end_of_interrupt(n) ==
  LET slaveDone == IF n >= 8
                   THEN write_command_word_to_pic(pic, PIC_EOI, SLAVE_PIC_ID, {})
                   ELSE pic
  IN  pic' = IF n > 15 THEN pic
             ELSE write_command_word_to_pic(slaveDone, PIC_EOI, MASTER_PIC_ID, {})

Raise ==
  /\ \E irq \in Sources : pic' = Raised(pic, irq)
  /\ answer' = [answer EXCEPT !.to = "none"]
  /\ UNCHANGED <<picStep, master_pic_data, slave_pic_data, serving>>

Take ==
  /\ Requests(pic) # {}
  /\ LET irq == AckedIrq(pic) IN
       /\ pic' = Acknowledged(pic, irq)
       /\ serving' = Append(serving, irq)
  /\ answer' = [answer EXCEPT !.to = "none"]
  /\ UNCHANGED <<picStep, master_pic_data, slave_pic_data>>

End ==
  /\ serving # <<>>
  /\ end_of_interrupt(serving[Len(serving)])
  /\ serving' = SubSeq(serving, 1, Len(serving) - 1)
  /\ answer' = [answer EXCEPT !.to = "none"]
  /\ UNCHANGED <<picStep, master_pic_data, slave_pic_data>>

QueryInit ==
  /\ pic = [c \in Pics |->
              [irr |-> {}, isr |-> {}, imr |-> {},
               icw2 |-> IF c = MASTER_PIC_ID
                        THEN PROT_MODE_MASTER_PIC_VECTOR_OFFSET
                        ELSE PROT_MODE_SLAVE_PIC_VECTOR_OFFSET,
               icw3 |-> IF c = MASTER_PIC_ID THEN {2} ELSE {1},
               icw4 |-> icw4, expects |-> "OCW1", reads |-> "irr"]]
  /\ picStep = 11 /\ master_pic_data = {} /\ slave_pic_data = {}
  /\ serving = <<>>
  /\ answer = [to |-> "none", upper |-> {}, lower |-> {}]

QueryNext == get_pic_isr \/ get_pic_irr \/ Raise \/ Take \/ End

QuerySpec == QueryInit /\ [][QueryNext]_queryVars

-----------------------------------------------------------------------------
\* What pic.h:99-102 says of get_pic_isr: the combined in-service requests of
\* both chips, the master's first.
AnswersInService ==
  answer.to = "isr" =>
    /\ answer.upper = pic[MASTER_PIC_ID].isr
    /\ answer.lower = pic[SLAVE_PIC_ID].isr
=============================================================================
