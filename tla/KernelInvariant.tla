--------------------------- MODULE KernelInvariant ---------------------------
(***************************************************************************)
(* The inductive invariant of Kernel from which its safety properties      *)
(* follow: how far boot() has got and what that has set up, what the two   *)
(* controllers have been told, and what a frame on the stack means.        *)
(***************************************************************************)
EXTENDS Kernel

BeforePic == {"cli", "init_gdt", "init_Idt"}
TimerInstalled    == {"init_ps2_controller", "start", "enable_Interrupts", "spin"}
KeyboardInstalled == TimerInstalled \ {"init_ps2_controller"}
AfterPic == TimerInstalled \cup {"init_pit"}

\* The routine that the table names for a vector at this point of boot().
RoutineAt(v) ==
  IF v = 32 /\ main \in TimerInstalled THEN pit_interrupt_service_routine
  ELSE IF v = 33 /\ main \in KeyboardInstalled
  THEN keyboard_interrupt_service_routine
  ELSE default_interrupt_service_routine

BootInv ==
  /\ main # "spin" => frames = <<>> /\ ~ifl /\ ~reset
  /\ main \notin {"cli", "init_gdt"} => gdt = "kernel"
  /\ main \notin BeforePic =>
       /\ idtr
       /\ s_Idtd = [v \in Vectors |-> GateOf(RoutineAt(v), INTERRUPT_GATE)]

\* What a chip knows after so many of its five words: ICW1 to ICW4 and the mask.
Programmed(chip, words, base, cascade, mask) ==
  /\ chip.expects = CASE words = 1 -> "ICW2" [] words = 2 -> "ICW3"
                      [] words = 3 -> "ICW4" [] OTHER -> "OCW1"
  /\ words >= 2 => chip.icw2 = base
  /\ words >= 3 => chip.icw3 = cascade
  /\ words >= 4 => chip.icw4 = icw4
  /\ words \in {0, 5} => chip.imr = mask

MasterWords == picStep \div 2
SlaveWords  == IF picStep = 0 THEN 0 ELSE (picStep - 1) \div 2

PicInv ==
  /\ main \in BeforePic => picStep = 0
  /\ main = "init_pic" => picStep \in 0..10
  /\ main \in AfterPic => picStep = 11
  /\ picStep > 0 => master_pic_data = firmware[1] /\ slave_pic_data = firmware[2]
  /\ Programmed(pic[MASTER_PIC_ID], MasterWords,
                PROT_MODE_MASTER_PIC_VECTOR_OFFSET, {2}, firmware[1])
  /\ Programmed(pic[SLAVE_PIC_ID], SlaveWords,
                PROT_MODE_SLAVE_PIC_VECTOR_OFFSET, {1}, firmware[2])

\* Only lines with a device behind them are requested.
RequestInv ==
  /\ pic[MASTER_PIC_ID].irr \subseteq {0, 1} \cup StrayIrqs
  /\ \A l \in pic[SLAVE_PIC_ID].irr : l + 8 \in StrayIrqs

RoutineOf(irq) ==
  IF irq = 0 THEN pit_interrupt_service_routine
  ELSE IF irq = 1 THEN keyboard_interrupt_service_routine
  ELSE default_interrupt_service_routine

\* The first frame is an interrupt of the idle loop; the others are faults of
\* the default handler, one on top of the other.
StackInv ==
  /\ frames # <<>> =>
       /\ ~ifl
       /\ frames[1].source \in Irqs
       /\ frames[1].routine = RoutineOf(frames[1].source)
       /\ frames[1].rflags
       /\ frames[1].saved = [r \in PushedSet |-> regs[r]]
       /\ frames[1].routine = default_interrupt_service_routine =>
            frames[1].at = "helper" /\ StrayUnmasked
  /\ \A i \in DOMAIN frames : i > 1 =>
       /\ frames[i].source = Fault
       /\ frames[i].routine = default_interrupt_service_routine
       /\ frames[i].at = "helper"
       /\ frames[1].routine = default_interrupt_service_routine
  /\ reset => StrayUnmasked

\* The line whose handler still owes an end of interrupt.
InService == frames # <<>> /\ frames[1].at # "pop"
ServiceInv ==
  ~reset =>
    /\ pic[MASTER_PIC_ID].isr =
         IF ~InService THEN {}
         ELSE IF frames[1].source > 7 THEN {2} ELSE {frames[1].source}
    /\ pic[SLAVE_PIC_ID].isr =
         IF InService /\ frames[1].source > 7 THEN {frames[1].source - 8} ELSE {}

ReadsKey == frames # <<>> /\ frames[1].at = "helper"
            /\ frames[1].routine = keyboard_interrupt_service_routine
ByteInv ==
  /\ edgeLost => obf # NoByte /\ picStep > 1
  /\ ~reset =>
       /\ (obf # NoByte /\ ~edgeLost) <=>
             (1 \in pic[MASTER_PIC_ID].irr \/ ReadsKey)
       /\ ~(1 \in pic[MASTER_PIC_ID].irr /\ ReadsKey)

\* The inductive invariant: boot() has set up what its progress says, each chip
\* has had the words init_pic has sent it, and while the idle loop is interrupted
\* the stack, the lines in service, the keyboard's byte and the registers agree.
KernelInv ==
  /\ TypeOK
  /\ BootInv
  /\ PicInv
  /\ RequestInv
  /\ StackInv
  /\ ServiceInv
  /\ ByteInv
  /\ RegistersMirrored

\* The history of the clock counts what g_pit_count counts, modulo a step.
ClockInv ==
  /\ main # "spin" => g_pit_count = 0 /\ sinceStep = 0
  /\ sinceStep = g_pit_count % Period
=============================================================================
