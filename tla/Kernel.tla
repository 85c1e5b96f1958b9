------------------------------- MODULE Kernel -------------------------------
(***************************************************************************)
(* The kernel from boot() to its idle loop, with its interrupts: the main  *)
(* thread brings up descriptor tables, interrupt controllers, timer and    *)
(* keyboard and then spins; from sti on, the handlers run in between.      *)
(*                                                                         *)
(* The environment is the hardware the code is written for: the CPU's      *)
(* interrupt entry and return, the timer's ticks, the one-byte output      *)
(* buffer of the keyboard controller, and devices that have no driver here *)
(* but may still raise their lines.                                        *)
(***************************************************************************)
EXTENDS Pic, Idt, Pit, Keyboard, FiniteSets

CONSTANTS
  pit_interrupt_service_routine,       \* addresses of the two stubs
  keyboard_interrupt_service_routine,
  FirmwareMasks,   \* pairs of masks the firmware may leave in the two chips
  StrayIrqs,       \* lines of devices this kernel has no driver for
  KeyBytes,        \* bytes the keyboard may send
  StackFrames,     \* interrupt frames initial_stack has room for
  NoByte           \* not a byte: the output buffer is empty

Drivers == {pit_interrupt_service_routine, keyboard_interrupt_service_routine}

ASSUME KernelAssumption ==
  /\ Drivers \subseteq Addresses \ {0, default_interrupt_service_routine}
  /\ pit_interrupt_service_routine # keyboard_interrupt_service_routine
  /\ FirmwareMasks \subseteq Byte \X Byte
  /\ StrayIrqs \subseteq Irqs \ {0, 1, 2}
  /\ KeyBytes \subseteq 0..255
  /\ NoByte \notin KeyBytes
  /\ StackFrames \in Nat /\ StackFrames > 0

VARIABLES
  main,      \* where boot() and start() have got to
  ifl,       \* RFLAGS.IF
  gdt,       \* whose descriptor table the CPU uses
  regs,      \* for each register, whose initial value it holds
  frames,    \* the interrupt frames on the stack, the latest last
  obf,       \* the byte in the keyboard controller's output buffer
  reset,     \* the CPU has shut down after a triple fault
  firmware,  \* history: the masks the firmware left
  edgeLost   \* history: init_pic made the master forget a waiting key

cpuVars == <<ifl, regs, frames, reset>>
vars == <<picVars, idtVars, pitVars, kbdVars, cpuVars, main, gdt, obf,
          firmware, edgeLost>>

Boot == << "cli", "init_gdt", "init_Idt", "init_pic", "init_pit",
           "init_ps2_controller", "start", "enable_Interrupts", "spin" >>
Phases == {Boot[i] : i \in 1..9}

\* The registers the stubs push, in the order of the push instructions.  The
\* stubs leave out r8 and r9, which the compiled handlers may use.
Pushed == << "rax", "rcx", "rdx", "rbx", "rsi", "rdi", "r10", "r11", "r12",
             "r13", "r14", "r15", "rbp" >>
PushedSet == {Pushed[i] : i \in 1..13}
Unsaved   == {"r8", "r9"}
Registers == PushedSet \cup Unsaved
Junk      == "junk"

Fault == 16                 \* the source of a frame that is no IRQ
GeneralProtection == 13     \* its vector

Frame == [source: Irqs \cup {Fault}, routine: Addresses,
          at: {"helper", "eoi", "pop"}, rflags: BOOLEAN,
          saved: [PushedSet -> PushedSet]]

Top == frames[Len(frames)]
Running(routine, at) ==
  frames # <<>> /\ Top.routine = routine /\ Top.at = at /\ ~reset
MoveTop(at) == frames' = [frames EXCEPT ![Len(frames)].at = at]

-----------------------------------------------------------------------------
(* The CPU.                                                                *)

\* Taking an interrupt or exception: through a gate of a loaded table whose code
\* selector the GDT knows.  Anything else, and a stack that is used up, ends in
\* a triple fault.
Enter(source, vector) ==
  LET gate   == s_Idtd[vector]
      usable == /\ idtr /\ gdt = "kernel" /\ vector \in Vectors
                /\ gate.selector = IDT_SELECTOR
                /\ Len(frames) < StackFrames
  IN
  /\ IF usable
     THEN /\ frames' = Append(frames,
                         [source |-> source,
                          routine |-> get_ir_from_idt(s_Idtd, vector),
                          at |-> "helper", rflags |-> ifl,
                          saved |-> [r \in PushedSet |-> regs[r]]])
          /\ ifl' = (ifl /\ gate.type = TRAP_GATE)
          /\ UNCHANGED reset
     ELSE reset' = TRUE /\ UNCHANGED <<frames, ifl>>
  /\ UNCHANGED regs

TakeIrq(irq) ==
  /\ ~reset /\ ifl
  /\ Requests(pic) # {}
  /\ irq = AckedIrq(pic)
  /\ Enter(irq, VectorOf(pic, irq))
  /\ pic' = Acknowledged(pic, irq)
  /\ UNCHANGED <<picStep, master_pic_data, slave_pic_data, idtVars, pitVars,
                 kbdVars, main, gdt, obf, firmware, edgeLost>>

-----------------------------------------------------------------------------
(* The main thread.  It runs whenever no handler does.                     *)

At(phase) == main = phase /\ frames = <<>> /\ ~reset
Goto(phase) == main' = phase
CpuIdle == UNCHANGED <<regs, frames, reset>>
World == UNCHANGED <<obf, firmware>>

boot_cli ==
  /\ At("cli") /\ Goto("init_gdt")
  /\ ifl' = FALSE
  /\ CpuIdle /\ World
  /\ UNCHANGED <<picVars, idtVars, pitVars, kbdVars, gdt, edgeLost>>

init_gdt ==
  /\ At("init_gdt") /\ Goto("init_Idt")
  /\ gdt' = "kernel"
  /\ CpuIdle /\ World
  /\ UNCHANGED <<picVars, idtVars, pitVars, kbdVars, ifl, edgeLost>>

boot_init_Idt ==
  /\ At("init_Idt") /\ Goto("init_pic")
  /\ init_Idt
  /\ CpuIdle /\ World
  /\ UNCHANGED <<picVars, pitVars, kbdVars, ifl, gdt, edgeLost>>

\* Lines that are high: the keyboard's, while a byte waits to be read.
HighLines ==
  [c \in Pics |-> IF c = MASTER_PIC_ID /\ obf # NoByte THEN {1} ELSE {}]

boot_init_pic ==
  /\ At("init_pic")
  /\ init_pic(HighLines)
  /\ IF picStep' = 11 THEN Goto("init_pit") ELSE UNCHANGED main
  /\ edgeLost' = (edgeLost \/ (/\ picStep = 1 /\ obf # NoByte
                               /\ 1 \notin pic'[MASTER_PIC_ID].irr))
  /\ CpuIdle /\ World
  /\ UNCHANGED <<idtVars, pitVars, kbdVars, ifl, gdt>>

init_pit ==
  /\ At("init_pit") /\ Goto("init_ps2_controller")
  /\ s_Idtd' = set_ir_in_idt(s_Idtd, 32, pit_interrupt_service_routine)
  /\ program_pit
  /\ CpuIdle /\ World
  /\ UNCHANGED <<picVars, idtr, kbdVars, ifl, gdt, edgeLost>>

\* Three mutants: the routine goes to the timer's vector; interrupts are enabled
\* here already; the output buffer is drained, but not the request it latched.
init_ps2_controller_at_32 ==
  /\ At("init_ps2_controller") /\ Goto("start")
  /\ s_Idtd' = set_ir_in_idt(s_Idtd, 32, keyboard_interrupt_service_routine)
  /\ CpuIdle /\ World
  /\ UNCHANGED <<picVars, idtr, pitVars, kbdVars, ifl, gdt, edgeLost>>

init_ps2_controller_sti ==
  /\ At("init_ps2_controller") /\ Goto("start")
  /\ s_Idtd' = set_ir_in_idt(s_Idtd, 33, keyboard_interrupt_service_routine)
  /\ ifl' = TRUE
  /\ CpuIdle /\ World
  /\ UNCHANGED <<picVars, idtr, pitVars, kbdVars, gdt, edgeLost>>

init_ps2_controller_drained ==
  /\ At("init_ps2_controller") /\ Goto("start")
  /\ s_Idtd' = set_ir_in_idt(s_Idtd, 33, keyboard_interrupt_service_routine)
  /\ obf' = NoByte
  /\ CpuIdle
  /\ UNCHANGED <<picVars, idtr, pitVars, kbdVars, ifl, gdt, firmware, edgeLost>>

\* The output buffer is not read: a byte that waits goes on waiting.
init_ps2_controller ==
  /\ At("init_ps2_controller") /\ Goto("start")
  /\ s_Idtd' = set_ir_in_idt(s_Idtd, 33, keyboard_interrupt_service_routine)
  /\ CpuIdle /\ World
  /\ UNCHANGED <<picVars, idtr, pitVars, kbdVars, ifl, gdt, edgeLost>>

\* The memory map, the labels of the status row and the PCI scan: none of them
\* touches what is modelled here (Console and Pci model what they do touch).
start ==
  /\ At("start") /\ Goto("enable_Interrupts")
  /\ CpuIdle /\ World
  /\ UNCHANGED <<picVars, idtVars, pitVars, kbdVars, ifl, gdt, edgeLost>>

enable_Interrupts ==
  /\ At("enable_Interrupts") /\ Goto("spin")
  /\ ifl' = TRUE
  /\ CpuIdle /\ World
  /\ UNCHANGED <<picVars, idtVars, pitVars, kbdVars, gdt, edgeLost>>

\* while(1): the system does not stop here, it idles.
spin == At("spin") /\ UNCHANGED vars

MainStep ==
  \/ boot_cli \/ init_gdt \/ boot_init_Idt \/ boot_init_pic \/ init_pit
  \/ init_ps2_controller \/ start \/ enable_Interrupts

-----------------------------------------------------------------------------
(* The handlers: stub, helper, end of interrupt, stub.                     *)

HandlerWorld == UNCHANGED <<idtVars, main, gdt, firmware, edgeLost>>

\* printTime's compiled code uses r8 and r9.
helper_calculate_timer ==
  /\ Running(pit_interrupt_service_routine, "helper")
  /\ MoveTop("eoi")
  /\ count_tick
  /\ regs' = IF PrintsTime
             THEN [r \in Registers |-> IF r \in Unsaved THEN Junk ELSE regs[r]]
             ELSE regs
  /\ HandlerWorld
  /\ UNCHANGED <<picVars, kbdVars, ifl, reset, obf>>

\* A mutant: the byte is looked at but not read.
helper_keyboard_handler_peek ==
  /\ Running(keyboard_interrupt_service_routine, "helper")
  /\ MoveTop("eoi")
  /\ \E key \in IF obf = NoByte THEN KeyBytes ELSE {obf} : handle_key(key)
  /\ HandlerWorld
  /\ UNCHANGED <<picVars, pitVars, ifl, regs, reset, obf>>

\* Reading port 0x60 empties the output buffer, and lowers the line; with
\* nothing in it the port returns some earlier byte.
helper_keyboard_handler ==
  /\ Running(keyboard_interrupt_service_routine, "helper")
  /\ MoveTop("eoi")
  /\ \E key \in IF obf = NoByte THEN KeyBytes ELSE {obf} : handle_key(key)
  /\ obf' = NoByte
  /\ HandlerWorld
  /\ UNCHANGED <<picVars, pitVars, ifl, regs, reset>>

end_handler ==
  /\ frames # <<>> /\ Top.at = "eoi" /\ ~reset
  /\ MoveTop("pop")
  /\ pic' = handler_eoi(pic)
  /\ HandlerWorld
  /\ UNCHANGED <<picStep, master_pic_data, slave_pic_data, pitVars, kbdVars,
                 ifl, regs, reset, obf>>

\* A mutant: the first pop is missing, and every register gets its neighbour's.
Popped_one_short(saved) ==
  [r \in Registers |->
     IF r \in Unsaved \cup {"rbp"} THEN regs[r]
     ELSE LET i == CHOOSE i \in 1..13 : Pushed[i] = r IN saved[Pushed[13 - i]]]

\* The stubs pop in the order in which they pushed, so the i-th register gets
\* the value of the i-th last.
Popped(saved) ==
  [r \in Registers |->
     IF r \in Unsaved THEN regs[r]
     ELSE LET i == CHOOSE i \in 1..13 : Pushed[i] = r IN saved[Pushed[14 - i]]]

iretq ==
  /\ frames # <<>> /\ Top.at = "pop" /\ ~reset
  /\ regs' = Popped(Top.saved)
  /\ ifl' = Top.rflags
  /\ frames' = SubSeq(frames, 1, Len(frames) - 1)
  /\ HandlerWorld
  /\ UNCHANGED <<picVars, pitVars, kbdVars, reset, obf>>

\* The default helper executes iretq on top of the stub's pushes: what it takes
\* for CS is a saved register, which is a general protection fault, and the
\* gate of that one leads to the default stub again.
helper_interrupt_service_routine ==
  /\ Running(default_interrupt_service_routine, "helper")
  /\ Enter(Fault, GeneralProtection)
  /\ HandlerWorld
  /\ UNCHANGED <<picVars, pitVars, kbdVars, obf>>

HandlerStep ==
  \/ helper_calculate_timer \/ helper_keyboard_handler \/ end_handler
  \/ iretq \/ helper_interrupt_service_routine

-----------------------------------------------------------------------------
(* The devices.                                                            *)

DevicesOnly ==
  UNCHANGED <<picStep, master_pic_data, slave_pic_data, idtVars, pitVars,
              kbdVars, cpuVars, main, gdt, firmware, edgeLost>>

\* A tick of the timer.  250 microseconds are more than its handler needs, so
\* the next tick does not come while the handler runs.
PitTick ==
  /\ \A i \in DOMAIN frames : frames[i].routine # pit_interrupt_service_routine
  /\ ~reset
  /\ pic' = Raised(pic, 0)
  /\ UNCHANGED obf
  /\ DevicesOnly

KeyArrives ==
  /\ obf = NoByte /\ ~reset
  /\ \E b \in KeyBytes : obf' = b
  /\ pic' = Raised(pic, 1)
  /\ DevicesOnly

StrayRaises ==
  /\ ~reset
  /\ \E irq \in StrayIrqs : pic' = Raised(pic, irq)
  /\ UNCHANGED obf
  /\ DevicesOnly

\* After a triple fault nothing happens any more.
Halted == reset /\ UNCHANGED vars

-----------------------------------------------------------------------------
FirmwareChip(mask, base, cascade) ==
  [irr |-> {}, isr |-> {}, imr |-> mask, icw2 |-> base, icw3 |-> cascade,
   icw4 |-> icw4, expects |-> "OCW1", reads |-> "irr"]

\* The loader hands over with interrupts off, the controllers set up for real
\* mode (vectors 0x08 and 0x70) and its own descriptor table in use.
Init ==
  /\ firmware \in FirmwareMasks
  /\ pic = [c \in Pics |->
              IF c = MASTER_PIC_ID THEN FirmwareChip(firmware[1], {3}, {2})
                                   ELSE FirmwareChip(firmware[2], {4, 5, 6}, {1})]
  /\ picStep = 0 /\ master_pic_data = {} /\ slave_pic_data = {}
  /\ s_Idtd = [v \in Vectors |-> NullGate] /\ idtr = FALSE
  /\ PitInit /\ KbdInit
  /\ main = "cli" /\ ifl = FALSE /\ gdt = "loader"
  /\ regs = [r \in Registers |-> r]
  /\ frames = <<>> /\ obf = NoByte /\ reset = FALSE /\ edgeLost = FALSE

Next ==
  \/ MainStep \/ spin
  \/ \E irq \in Irqs : TakeIrq(irq)
  \/ HandlerStep
  \/ PitTick \/ KeyArrives \/ StrayRaises \/ Halted

Spec == Init /\ [][Next]_vars

\* The CPU keeps executing, handler or main thread, and takes a pending
\* interrupt between two instructions.  A pending key is taken when the timer's
\* handler has returned and the next tick is still to come, again and again.
FairSpec ==
  /\ Spec
  /\ WF_vars(MainStep)
  /\ WF_vars(HandlerStep)
  /\ WF_vars(\E irq \in Irqs : TakeIrq(irq))
  /\ SF_vars(TakeIrq(1))

-----------------------------------------------------------------------------
TypeOK ==
  /\ PicTypeOK /\ IdtTypeOK /\ PitTypeOK /\ KbdTypeOK
  /\ main \in Phases
  /\ ifl \in BOOLEAN
  /\ gdt \in {"loader", "kernel"}
  /\ regs \in [Registers -> Registers \cup {Junk}]
  /\ \A r \in PushedSet : regs[r] \in PushedSet
  /\ frames \in Seq(Frame)
  /\ Len(frames) <= StackFrames
  /\ obf \in KeyBytes \cup {NoByte}
  /\ reset \in BOOLEAN
  /\ firmware \in FirmwareMasks
  /\ edgeLost \in BOOLEAN

-----------------------------------------------------------------------------
(* What the interrupt path promises.                                       *)

Serving(routine, at) ==
  \E i \in DOMAIN frames : frames[i].routine = routine /\ frames[i].at = at

\* Every interrupt reaches the routine written for it: the timer's stub gets
\* IRQ 0 and nothing else, the keyboard's IRQ 1, the default stub the rest.  It
\* takes the vector bases of init_pic, the order in which boot() fills the
\* table, and the split and joined addresses of its gates to agree.
OwnHandler ==
  \A i \in DOMAIN frames :
    frames[i].routine = CASE frames[i].source = 0 -> pit_interrupt_service_routine
                          [] frames[i].source = 1 -> keyboard_interrupt_service_routine
                          [] OTHER -> default_interrupt_service_routine

\* No handler runs before the main thread has finished with the console, the
\* descriptor tables and the controllers: none of those is safe against one
\* (boot() lost an earlier sti at main.c:101 for that).
MainQuiescent == frames # <<>> => main = "spin"

\* Handlers do not nest: only the fault of a default handler ever interrupts a
\* handler.  The helpers share cells and counters without any lock.
OneHandlerAtATime ==
  \A i \in DOMAIN frames : i > 1 => frames[i].source = Fault

\* The controllers' in-service bits are exactly those of the handlers that still
\* owe an end of interrupt: one too many and its line is dead for ever, one too
\* few and a second handler may start.
Owed == {frames[i].source : i \in {j \in DOMAIN frames :
            frames[j].at # "pop" /\ frames[j].source # Fault}}

InServiceMatchesFrames ==
  ~reset =>
    /\ pic[MASTER_PIC_ID].isr = {l \in Lines : \/ l \in Owed
                                               \/ l = 2 /\ \E irq \in Owed : irq > 7}
    /\ pic[SLAVE_PIC_ID].isr = {l \in Lines : l + 8 \in Owed}

\* When interrupts are on, both chips have left initialization, in cascade, with
\* the vectors the table is filled for, and mask what the firmware masked.
ControllersConfigured ==
  main = "spin" =>
    /\ \A c \in Pics : pic[c].expects = "OCW1" /\ PIC_ICW4_MASK_8086 \in pic[c].icw4
    /\ Cascaded(pic)
    /\ VectorBase(pic[MASTER_PIC_ID].icw2) = 32
    /\ VectorBase(pic[SLAVE_PIC_ID].icw2) = 40
    /\ pic[MASTER_PIC_ID].imr = firmware[1]
    /\ pic[SLAVE_PIC_ID].imr = firmware[2]

\* A byte of the keyboard waits in the output buffer if and only if a request
\* for it is latched or its handler has started and not yet read it: no byte is
\* read twice, and none is stranded, unless init_pic forgot its edge.
ByteHasRequest ==
  ~reset =>
    ((obf # NoByte /\ ~edgeLost) <=>
       \/ 1 \in pic[MASTER_PIC_ID].irr
       \/ Serving(keyboard_interrupt_service_routine, "helper"))

\* The registers an interrupted program had are never lost: between handlers the
\* thirteen pushed ones are all in place or all mirrored.
Mirror(r) == Pushed[14 - (CHOOSE i \in 1..13 : Pushed[i] = r)]
RegistersMirrored ==
  \/ \A r \in PushedSet : regs[r] = r
  \/ \A r \in PushedSet : regs[r] = Mirror(r)

\* The default handler, and with it the end of the system, is reached only
\* through a line that has no driver and that the firmware left unmasked.
StrayUnmasked ==
  \E irq \in StrayIrqs :
    IF irq < 8 THEN irq \notin firmware[1]
               ELSE irq - 8 \notin firmware[2] /\ 2 \notin firmware[1]
DiesOnlyOfStray ==
  (reset \/ Serving(default_interrupt_service_routine, "helper")) => StrayUnmasked

\* time_in_sec moves exactly every Period-th tick that is handled, except that
\* the wrap of the 32-bit tick counter cuts one step short.
ClockCadence ==
  [][g_pit_count' # g_pit_count =>
       (time_in_sec' # time_in_sec <=>
          sinceStep + 1 = Period \/ g_pit_count' = 0)]_vars

\* A latched tick is always served.
TickServed ==
  (0 \in pic[MASTER_PIC_ID].irr /\ 0 \notin firmware[1])
    ~> (0 \notin pic[MASTER_PIC_ID].irr \/ reset)

\* A key is always read, however busy the timer, unless init_pic forgot it.
KeyServed ==
  (obf # NoByte /\ 1 \notin firmware[1]) ~> (obf = NoByte \/ edgeLost \/ reset)
=============================================================================
