# SBUOperatingSystem, specified

TLA+ specifications of the kernel and the user programs in this repository, with
the TLC runs that check them and the proofs that TLAPS checks.

To check a module: `tlc -workers 2 -config MCKernel.cfg MCKernel`.
To check the proofs of one: `tlapm KernelProofs.tla`.

## 1. The system

The repository holds a small x86-64 kernel (`sys/`), a C library (`libc/`,
`crt/`, `include/`) and three programs (`bin/`). At this commit the kernel boots,
takes interrupts and idles. It has no processes, no system calls and no file
system, so the programs do not run on it: they are built for a host whose system
calls `include/sys/syscall.h` issues.

| Component | Source | State | Operations | Hard behaviour |
|---|---|---|---|---|
| boot, idle loop | `sys/main.c` | place in the boot sequence, RFLAGS.IF | `boot`, `start` | order of the steps; what a handler may see once `sti` is executed |
| descriptor table | `sys/idt.c`, `sys/idt.s` | 256 gates, IDTR | `init_Idt`, `set_interrupt_service_routine`, `get_...`, default stub | split addresses, gate type, default handler that cannot return |
| interrupt controllers | `sys/pic.c`, `pic.h` | registers of two 8259As, saved masks | `init_pic`, register queries, `end_of_interrupt` | order of ten port writes, cascade, priorities, lost edges, end of interrupt |
| timer, clock | `sys/pit.c`, `sys/pit.s` | tick counter, clock, divisor | `init_pit`, `helper_calculate_timer` | counter widths, interrupt at any point of the idle loop, register restore |
| keyboard | `sys/ps2Controller.c/.s` | two modifier flags, two screen cells | `init_ps2_controller`, `helper_keyboard_handler` | sequences of make and break codes, a one-byte buffer shared with the device |
| console | `sys/kprintf.c` | VGA cells, cursor | `kprintf` and its parts | scrolling, runs that cross the last row, status row shared with the handlers |
| PCI scan | `sys/pci.c`, `pci.h` | device table, count | `init_pci_devInfo`, `pciCheckVendor`, `pciConfigReadWord` | table smaller than the bus, address latch, loop bounds |
| segments | `sys/gdt.c/.s` | GDT, TSS | `init_gdt` | must precede the gates' first use |
| heap | `libc/malloc.c` | list of mapped blocks | `malloc`, `free` | header or payload returned, headers overwritten, list head left dangling |
| environment | `libc/getenv.c` | 20 key-value pairs | `getenv`, `setenv` | full table, modes, pointers kept into buffers of others |
| line input | `libc/readline.c`, `fgets.c`, `fgetc.c`, `gets.c`, `getchar.c` | growing buffer | `readline`, `fgets` | short reads, end of file, chunk boundaries, full buffers |
| parser | `bin/sbush/parser.c` | argument vector | `trim`, `parseInput`, `parsePipeCommand` | blanks in a row, empty commands, too many arguments, buffers not cleared |
| shell | `bin/sbush/sbush.c` | processes, descriptors, pipes, PS1 | `fork`/`exec`/`wait`, pipes, scripts, built-ins | schedules, failed `fork` and `exec`, descriptors left open, two shells |
| cat, ls | `bin/cat`, `bin/ls` | none | copy loop | readers that leave early |
| the rest | `syscall.h`, `crt1.c`, output and string functions | none | | pure I/O or pure functions |

How they meet:

- `boot()` calls the initializations in a fixed order and `start()`, whose last
  call is `enable_Interrupts()`. Until then the main thread is alone.
- From then on the hardware calls: a device raises a line, the 8259A chooses a
  line and a vector, the CPU goes through the gate to a stub, the stub pushes
  registers and calls a C helper, the helper does its work and sends the end of
  interrupt, the stub pops and returns.
- Stub, helper, controllers and table share no lock. What keeps them apart is that
  the gates clear IF, the controllers hold back a line in service, and the main
  thread has nothing left to do.
- The handlers write to the status row of the screen, `kprintf` to the rows
  above it.
- In the shell a line goes from `fgets` (a character per `read`) through
  `parsePipeCommand` and `parseInput`, whose buffers come from `malloc`, to
  `parseAndExecuteCommand`. That sets variables, or forks: a process per pipeline,
  from it one per stage, from each of them one that becomes the program. They share
  pipes and the terminal and wait for their own children only.

What makes each component correct: the routine that runs is the one of the line
that was raised, alone and after boot; every latched request is served, and its
end reported to the chip that holds it; the clock's pace; modifier flags that
follow the keys; text rows that show what was printed; a device table that is the
devices found; commands that are the lines typed, their words the words written;
a pipeline that shows the composition of its programs and ends, whatever the
schedule; memory that stays mapped while someone points to it. Section 3 states
these.

## 2. Modules

| Module | Models |
|---|---|
| `Pic` | the driver half of `pic.c`, on the two 8259As as external hardware |
| `Idt` | the table and its gates, `idt.c` and two helpers of `pic.c` |
| `Pit` | tick counter, clock and divisor, `pit.c` |
| `Keyboard` | key map, flags and cells, `ps2Controller.c` |
| `Kernel` | composes the four with the CPU and the devices: boot, interrupt entry, handlers, return |
| `IrqService` | abstract: what the interrupt path promises its drivers |
| `KernelRefinement` | the mapping under which `Kernel` implements `IrqService` |
| `KeyboardSession` | `Keyboard` driven by a user, with keys that are really down |
| `Console` | `kprintf.c` |
| `Pci` | `pci.c` |
| `PicQuery` | the functions of `pic.c` the kernel does not call itself |
| `Heap` | `malloc.c`, and what the owner of a block does to its header |
| `Environ` | the table of `getenv.c`, on `Heap` |
| `CommandMemory` | `parser.c` and the built-ins of `sbush.c` as the heap and the table see them, on `Environ` |
| `HostRead` | external: what `read` may return from a file, a pipe, a terminal |
| `LineSource` | abstract: what `fgets` promises its caller |
| `LineInput` | `fgets.c`, `fgetc.c`, the shell's loop and `executeFile`, on `HostRead` |
| `ReadLine` | `readline.c`, on `Heap` and `HostRead` |
| `Parser` | `parser.c`, `strchr.c` and the pipe functions of `sbush.c`, as functions of a line |
| `Shell` | the processes of `sbush.c`, `cat` and `ls`, with the host's process table and pipes |
| `Numerals` | the characters of `kprintf`'s conversions and of `printTime` |
| `KernelInvariant` | the inductive invariant of `Kernel` |
| `KernelProofs` | theorems about `Kernel` and the drivers it composes (section 4) |
| `DeviceProofs` | about `KeyboardSession`, `Console`, `Numerals` and `Pci` |
| `HeapProofs` | lemmas about `Heap`, for the three that follow |
| `ReadLineProofs` | theorems about `ReadLine` |
| `CommandProofs`, `VariableProofs` | about `CommandMemory`: its heap, and the values of its environment |
| `LineProofs`, `ShellProofs` | about `LineInput` and `Shell` |
| `MCKernel`, `MCKeyboardSession`, `MCConsole`, `MCPci`, `MCCommandMemory`, `MCLineInput`, `MCReadLine`, `MCParser`, `MCShell`, `MCNumerals` | instances for TLC |

A helper keeps its C name; so do variables that are globals in C. Some notes on
how code became actions:

- A byte on a port is the set of its bits that are 1. `init_pic` is eleven steps,
  the two mask reads as one and then one per port write, because a key may arrive
  between any two of them.
- A handler is three or four steps: entry (`TakeIrq`), the helper's body, its end
  of interrupt (`end_handler`), and the pops with `iretq`. Everything else
  (devices, other lines) may happen in between.
- `MainStep` is one step per call in `boot()` and `start()`. The steps of a call
  that no handler and no device can tell apart are one step; with IF clear and no
  shared device that is all of a call, `init_pic` excepted.
- `Popped` restores registers as the stubs do, in the order of the pushes and so
  mirrored. r8 and r9 are not saved; `printTime` uses them, and they become junk.
- The default helper's `iretq` takes a pushed register for CS; the general
  protection fault leads to the same stub, until the stack is used up and the CPU
  shuts down (`reset`).
- In `Pci`, a byte of a configuration header is the pair of its device and its
  offset, so an entry can be compared with the devices byte by byte.
- In `Console` the attribute byte, always white, is left out; a conversion is the
  run of characters it writes, which for `%p` starts with a NUL.
- In `Heap` the eight bytes of a header's field are null, an address, or bytes of
  text, of which the model keeps which half is not zero: enough to tell a pointer
  that `free` stops at from one it follows into nowhere. A word is its length and
  the place of its `=`.
- In `LineInput` text that is compared as a whole is one character: `exit`, the
  first lines `#!sbush` and `#!other` of scripts. `xFF` is the byte that, as a
  `char`, equals `EOF`. Of what executing a line does to the caller's buffer
  `CutAway` keeps what `executeFile` looks at: whether its first character is gone.
- In `Parser` a line is a sequence of characters, and `JUNK` the string in a new
  buffer: the bytes of a heap header, not empty, which is how `parseInput` tells two
  separators from one.
- In `Shell` a line is a sequence of programs, each in the background or not; a
  process has an end of a pipe or the terminal as its input and output, and `held`,
  the ends it has under other numbers. An end is named by its line and the stage
  whose output it carries. A step lies between two system calls that others can
  observe.
- In `Numerals` a digit is a number; minus, `s` and the terminator that `%p` copies to
  the screen are numbers below 0.

The external half. The 8259As (priority, cascade, initialization words, OCW2 and
OCW3, edge latch), the CPU's entry and return, the 8042's one-byte buffer, the
configuration mechanism of PCI and the keyboard's scan codes are not in the
repository. They are modelled as far as the code uses them, and marked external in
`PROJECT.json`. One place is deliberately loose: ICW1 resets the edge detectors,
and whether a line that is already high is latched again differs between parts, so
`CommandWrite` allows both.

## 3. What is checked

### kernel (`MCKernel`)

Every interleaving of boot, ticks, keys, requests of a device without a driver,
and handlers. 81,716 distinct states.

- `OwnHandler`: a frame's routine is that of its line. It ties the vector bases of
  `init_pic`, the numbers 32 and 33, the order of `boot()` and the split gates
  together.
- `MainQuiescent`, `OneHandlerAtATime`: the two exclusions all code in `sys/` relies
  on without a lock.
- `InServiceMatchesFrames`: the controllers' in-service bits are those of the
  handlers that still owe an end of interrupt.
- `ControllersConfigured`: after `init_pic` both chips are in operation, cascaded,
  at vectors 32 and 40, with the firmware's masks.
- `ByteHasRequest`: a byte waits in the keyboard's buffer if and only if a request
  or a handler is under way for it.
- `RegistersMirrored`: after any number of interrupts the thirteen saved registers
  are in place or exactly mirrored.
- `DiesOnlyOfStray`: the default handler, which cannot return, runs only if the
  firmware left a driverless line unmasked.
- `ClockCadence`: a step of the clock every `Period` ticks, but for the wrap.
- `TickServed`, `KeyServed`: a latched tick is served; a byte in the buffer is read.
- `KernelInv`: the inductive invariant of section 4, checked here before it was
  proved.
- `ImplementsService`: the kernel refines `IrqService`: pending requests are not
  forgotten once live, one is served at a time, the lower line first, and the system
  dies only between two services.

What the properties concede is what the code does. `KeyServed` and
`ByteHasRequest` except a byte that came before `init_pic` and whose edge ICW1
forgot (`edgeLost`): nothing drains the buffer, so that key, and with it the
keyboard, may stay dead. `ClockCadence` excepts the wrap of the 32-bit counter,
which is no multiple of 35. The mirrored registers are harmless only because
the loop that is interrupted, `while(1) {}`, uses none.

Bounds: 48 vectors (32 exceptions and the two controllers' ranges) instead of 256;
addresses of eight bits in pieces of two, two and four, with three routines that
differ in each piece; the counters wrap at 5 and 4, the clock steps every third
tick; three firmwares (all driverless lines masked; IRQ 14 not; IRQ 6 not and the
keyboard masked); three key bytes (a letter, shift down, shift up); room for three
frames, one more than handlers can use before the default handler's fault repeats.
None is a bound on the length of a behaviour.

Fairness. The CPU executes: weak fairness of the main thread and of the handlers.
It looks for interrupts between two instructions: weak fairness of taking one.
For the keyboard strong fairness of `TakeIrq(1)`: a pending key is masked by each
tick's handler, but that handler ends well before the next tick, and then the
keyboard's is the highest request. `PitTick` is guarded accordingly: 250
microseconds (4000 Hz) are more than the handler takes. Ticks, keys and stray
requests are not fair.

### keyboard (`MCKeyboardSession`)

A user with both shift keys, both control keys, a letter and a grey key; bytes
wait in a wire of three (bound). About 279,000 states. `ShiftNeverSticks`,
`ControlHeldOrExtended` and `ShownIsLastKey` relate the flags and cells of the
handler to the keys that are really down. They concede that every prefix byte 0xE0
counts as control until a control key is released, so an arrow key leaves control
on; and that releasing one shift key ends capitals while the other is held, so only
one direction of shift is claimed.

### console (`MCConsole`)

Every sequence of characters, newlines and runs until five rows are printed
(bound) on three text rows of two cells with a status row: 77,689 states, up to
three scrolls. `paper` is the console that never scrolls; `ScreenShowsPaper` says the
text rows are a window on it, `StatusRowKept` that nothing printed reaches the
status row, both unless a run crosses the end of the last row, which the code does
not look for; `CursorComesBack` says what that costs: the next piece writes nothing to the
status row and leaves the cursor on the last text row, unless it is a run of a whole
row, which leaves it at the start of the status row again. A run is at most a row
long, as `kprintf`'s callers in `sys/` print.

### numerals (`MCNumerals`)

Every `int` of eight bits and address of twelve, and the clock through its wraps:
numbers of one to three digits, 9,728 states. The algorithms do not depend on the
width; the model takes digits off by a recursive function, the properties add them
up again.

- `PrintedReads`: what is printed is a numeral of the argument. It concedes that the
  lowest `int`, whose negation is itself, prints as a sign alone; that `%x` prints in
  decimal; that `%p` puts a NUL before its digits.
- `ClockReads`: the cells of the clock read as its number and an `s`. It concedes 0,
  which has no digit, and the wrap, from when on the end of the longest number stays
  behind each shorter one.

### pci (`MCPci`)

The program's own bounds, 256 buses, 32 slots, 8 entries. `TableIsScan`: the table
is the devices met so far, in order. `HeaderKept`: all 64 bytes of a header can be
read back from its entry. `ScanEnds` (weak fairness of the loop): the scan ends,
or, with a ninth device, the kernel faults.

### line_input (`MCLineInput`)

The shell reading a terminal or a pipe, and `executeFile` reading a file, over all
inputs of up to five characters (six behind a first line): 140,620 states. A
buffer holds two characters for the shell (the code's `BUFFER_SIZE` in little), three
for a script, so that lines fill it, overflow it, and end exactly at its end.

- `FgetsImplements`: `fgets` refines `LineSource`: no character is lost, doubled or
  moved to another line, but for a piece that the end of the input, or a byte 0xFF,
  cuts short: that is dropped whole.
- `CommandsAreLines`: the commands executed are the lines of the input, computed
  from the places where they end. It concedes what the code does at the edges: a last
  line without newline is not executed; an empty line ends a script, and so does the
  empty rest of a line that fills the buffer. A line that begins with a bar ends a
  script as well, after it has been executed: the loop tests the line once more
  (`sbush.c:66`), and `parsePipeCommand` has written a NUL over its first bar
  (`sbush.c:391`). The shell's own loop does not look again, and goes on. An empty
  script file ends the shell; at the end of a pipe the shell prompts for ever, since
  only `exit` ends its loop.

The system may stop where the input does (a terminal that nobody types at), so
deadlock is not checked.

### readline (`MCReadLine`)

A program that reads up to three lines (bound) with `readline` from a terminal, a
pipe or a file, with or without a block taken before: 9,420 states. Lines have the
lengths around each multiple of the chunk (4) up to 23. No program of the
repository calls `readline`; it is modelled as a library function under any caller
that keeps what it gets.

- `TerminalLines`: from a terminal the lines come back one by one. From a file or a
  pipe they do not, although the comment says "reading input line by line"
  (`readline.c:10`): a newline is looked for only where a chunk ends, so a call
  returns the beginning of the next line too, or, after a short read from a pipe,
  half of its own.
- `DiesOfLongLines`: exactly which lengths kill the program, by the pointer that
  `free` finds in a header their characters were written over: more than 20, or more
  than 4 once a line of more than 16 has been read.

### parser (`MCParser`)

All 43,690 lines of up to seven characters out of a letter, blank, `&` and `|`, with
and without a newline, with room for two arguments (the code's `MAX_ARGUMENTS` is
20): 87,380 states. `ParsedAsWritten` compares what `parsePipeCommand`, `trim` and
`parseInput` make of a line, character by character, with a definition by places in
it. It concedes that of two blanks in a row the second begins an argument of its
own, which is what the buffer held; that a command with as many arguments as there
is room for cannot be started; and that with one more, whose pointer lies on
`isBackground` and `argumentCount`, or with `NULL` for one more still, the shell ends,
although the message says "Too many arguments passed" (`parser.c:92`) and the code
around it goes on.

### shell (`MCShell`)

Every schedule of the processes of seven sessions, two pipelines of three stages
among them, with commands that do not exist, in front and in the background, empty
commands, readers that leave early (`head`, `ls`), pipelines in the background, two
shells on one terminal; a file longer than a pipe has room for (three items, two);
nine slots for processes (the host's limit, which the longest session does not
reach) and at most one line (bound) of which a `fork` fails all the same: 75,350
states.

- `OutputIsComposed`: what a line shows is the composition of its programs
  (`Composition`), item by item and complete when the prompt comes back; it includes the `PATH` that `execvpe` writes into its
  program's output, and excepts lines of which a `fork` failed.
- `EndsConfined`: nobody but the processes of a stage holds the write end of its
  pipe, none of them its read end. The process of the pipeline does keep the read
  ends of earlier stages, until its last stage has ended; a writer is then told
  later than it could be.
- `ShellsAccounted`: a background child that could not be executed returns into the
  command loop (`sbush.c:128`): at most one more shell for each, and for no other reason.
- `ForegroundReaped`: at the prompt all children in the foreground have been waited
  for. Background children are not, and stay zombies.
- `CommandsEnd`: every process that a line starts ends, or prompts again.
- `ShellTypeOK`: whoever waits waits for a child of its own that is still there.

Fairness is weak, per process: the host schedules each of them, and one that is
blocked on a pipe is not enabled. `ReadLine` and `Exit` are not fair: a user may stop
typing, which is why deadlock is not checked.

### command_memory (`MCCommandMemory`)

Every session of up to three lines (bound) out of fifteen, begun with the
`PATH` that `crt1.c` and `main` hand on: 7,450 states. `malloc` returns the address
behind the header to its first caller only and the header to all later ones, while
`free` looks for the address behind the header. So a list never holds more than the
newest block, `free` finds nothing to release, and what an owner writes replaces the
header.

- `FaultsIffOverlong` says what that comes to: a line kills the shell exactly when
  its last command, without outer blanks, has more than 16 characters, those that
  fill a header up to its `next`; of single commands, unless `executeFile` took a
  block after it.
- `VectorsEnd`: the vector given to `execve` ends with NULL, although the loop that
  fills it copies whatever follows the last argument. It concedes a command without
  arguments behind an overlong one in a pipe, whose text is what follows.
- `ValuesMapped`: the environment keeps pointers into buffers that were given to
  `free`, and they are still mapped. It holds because of the above: the mutant
  with a `malloc` that returns the right address breaks it.
- `VariablesKept`: a variable has its last value, or none if the table was full; it
  says too that the table stays within its room. It concedes a value that its own
  line wiped: the loop of `freeCommandArgument` clears the command as far as each
  argument is long (`A=two longer`).

The lines have commands of 2 to 23 characters, 16 and 17 among them, assignments with
and without `export`, of one and two keys, to a table of two entries (the code's
has 20) of which `PATH` takes one, and pipes whose first or last command is the
long one. Words are taken to be separated by single blanks (`Parser` has the others).
Buffers that `munmap` would return are not mapped again.

### pci_claim, pic_query: two disagreements

- `HandlesClaimedDevices`: "Currently we handle only 256 devices" (`pci.c:42`); the
  table has 8 entries and no check, and nine devices suffice.
- `AnswersInService`: `get_pic_isr` is documented to return the in-service requests
  (`pic.h:99`); `PIC_OCW3_ISR` is the value that selects the request register, and
  `PIC_OCW3_IRR` the one for in-service.

Each property of a passing run has a mutant, an operator next to the definition
it replaces, under which TLC finds the property violated.

## 4. What is proved

Every theorem holds for all values of the constants that satisfy the named
assumptions, which TLC evaluates in the runs. Liveness aside, they cover all
properties of the runs `kernel`, `keyboard`, `console`, `pci`, `numerals`, `line_input`,
`readline`, `shell` and `command_memory`. `parser` stays with TLC.

### The kernel

The constants are the size of the table, the width of an address piece, the three
addresses (distinct and not 0), the widths of the counters, the firmware's masks,
the driverless lines, the key bytes, the room for frames. `KernelAssumption`,
`IdtAssumption`, `PitAssumption`, `KeyboardAssumption` and `NoLineAssumption` state no
more than that.

- `TypeCorrect` (`KernelProofs`): `Spec => []TypeOK`.
- `GateRoundTrip` (`KernelProofs`): an address survives being split over the three
  pieces of a gate and joined again; at the code's own width, every 64-bit address.
- `Invariance` (`KernelProofs`): `Spec => []KernelInv`, the inductive invariant of
  module `KernelInvariant`, and from it, each as a theorem of `Spec`: `OwnHandler`,
  `MainQuiescent`, `OneHandlerAtATime`, `InServiceMatchesFrames`,
  `ControllersConfigured`, `ByteHasRequest`, `RegistersMirrored`, `DiesOnlyOfStray`.
- `ClockCadenceAlways` (`KernelProofs`): `Spec => ClockCadence`, for every step length
  and every width of the two counters.
- `Implements` (`KernelProofs`): `Spec => ImplementsService`, that is, `Kernel`
  refines `IrqService` under the mapping of `KernelRefinement`.

None of these invariants is inductive. `OwnHandler` needs the whole table and both vector
bases at the moment an interrupt is taken, so the invariant carries the table as a
function of the progress of `boot()` (`BootInv`, `RoutineAt`), and what each chip
has been told after so many of its five words (`PicInv`, `Programmed`); the proof
goes through the ten writes of `init_pic` in pairs (`Script`, `DataWord`).
`InServiceMatchesFrames` needs to know that the end of interrupt finds exactly one
line in service, and that it is the handler's own (`ServiceInv`, `StackInv`,
`EoiSingle`). `ByteHasRequest` needs in addition that a request and a reader never
coexist, or reading the byte would leave a request without one (`ByteInv`), and
that no edge is forgotten before ICW1. `RegistersMirrored` needs the frame's saved
registers to be those of the interrupted loop; that the pops then reverse them, and
that twice reversed is unchanged, are `PoppedMirror` and `MirrorTwice`.
`DiesOnlyOfStray` follows the acknowledged line back to a latched, unmasked request
(`AckedFacts`, `RequestInv`).

`ClockCadence` needs that `sinceStep`, the count of handled ticks since the last
step, is `g_pit_count % Period` (`ClockInv`), which the wrap of the counter keeps
only because a step is taken there too; `NextRemainder` is the arithmetic.

For the refinement every step of `Kernel` is one of `IrqService` or none
(`ServiceStep`): a device's is an arrival or nothing, boot forgets requests at most,
taking an interrupt serves the line or dies of it, `iretq` finishes, and the steps
between are stutters (`RestsWhen`). That the line taken is pending and the lowest
pending one comes from the priority resolver with nothing in service
(`AckedFacts`, `AckedFirst`, `ServiceInv`); that an end of interrupt touches no
request from `EndHandlerChip`.

`KernelProofs` also holds the lemmas about the chips' operators (which chip a port belongs
to, what each word does, that the highest of a set of lines is in it); the step of
each action is a lemma of its own.

### The terminal

`SessionAssumption` gives every key a make code of one byte in 1..88, with or without
the prefix, and the wire room for two bytes; `ConsoleAssumption` gives the screen a
column, two rows above the status row, and runs no longer than a row.

- `ShiftNeverSticksAlways`, `ControlHeldOrExtendedAlways`, `ShownIsLastKeyAlways`: the three
  invariants of `KeyboardSession`, from `SessionInvariance`.
- `ScreenShowsPaperAlways`, `StatusRowKeptAlways`, `CursorComesBackAlways`: the three
  properties of `Console`, from `ConsoleInvariance`.

A property of the keyboard speaks of the moment when the wire is empty, so `SessionInv`
must say what each byte on the wire is going to do. `Honest` does: of a group of
keys, if the handler's flag is set and no byte on the wire concerns the group, one
of its keys is down; and if a make code on the wire is the last byte that concerns
it, one is down as well. It holds for shift and, after a prefix excused, for control
by the same lemmas: a key that goes down or comes up adds its code at the end of the
wire (`MakeHonest`, `BreakHonest`), the handler takes a byte from its beginning
(`HandledHonest`). That a release of one shift key ends capitals while the
other is held does it no harm, which is why only one direction is claimed.

`ConsoleInv` says that the screen is a window on the paper: for some row of the paper
the text rows are what follows from there (`Window`), and cursor and position are the
same place (`Shown`). Scrolling moves the window by a row; for that the last row must
be blank after the move, hence the part of `Window` about what lies behind. Addresses
are products of a row and the number of columns, so the proof has lemmas of its own
for quotients and remainders (`AddressRow`, `PaperRow`, `NextRowShown`).

### Numerals

`NumeralsAssumption`: there are ints and addresses. The theorems hold for the code's 2^32
and 2^64.

- `PrintedReadsAlways`, `ClockReadsAlways`, from `NumeralsInvariance`.

The loop that takes digits off a number is a recursive function, and so is what digits
add up to. That each exists and has one value is shown by the least place where two
functions with its equation could differ (`TakenSteps`, `ValueOfSteps`), as for
`WalkLooks` below; that the digits of a number add up to it and have no superfluous
one, by the least number for which they do not (`DigitsAreNumeral`). The
clock is written over what it showed before, so `NumeralsInv` must know how long that was:
until the number wraps the row is exactly what was written last, because the number one
further has as many digits or one more (`DigitsGrow`), and from then on it keeps the length
of the longest number, whose end stays behind the shorter ones (`OverSteps`).

### The PCI scan

`PciAssumption`: up to 256 buses and 32 slots, devices in them, and the code's own test for
one, that what an empty slot answers is not the vendor of any device ("there are no
vendors that == 0xFFFF", `pci.c:100`).

- `TableIsScanAlways`, `HeaderKeptAlways`, from `PciInvariance`.

`PciInv` adds to them that every entry is the whole header of a device in a visited
slot (`Filled`), and that until a device does not fit each of those has one
(`NoneMissed`). That the slot which is asked for is the one that answers needs the
address to be taken apart as it was put together (`Addressed`); that is where 256
and 32 come from.

### Line input

`LineAssumption`: texts of characters, buffers of two characters at least, and in
`executeFile`, where a whole header counts as one character, of four (it has 150).

- `FgetsKeepsItsPromise`: `Spec => FgetsImplements`, that is, `LineInput` refines
  `LineSource`.
- `CommandsAreLinesAlways`.

`LineInv` says that the buffer is the part of the text between the beginning of the
call and the place reached, without a newline, an end of input or a byte 0xFF in it,
and not full. So a step of the characters is a stutter of `LineSource`, and the last
one of a call takes exactly one line or one bufferful, or drops what it had
(`Rounds`). It is the steps that go through the text, so no induction over it is needed.

`CommandsAreLines` compares what has been executed with the text alone, where a piece ends
at a break or a multiple of the room behind the last one. So the invariant has the
place from which the characters before a call are counted (`Counted`, `Position`), and then
the next end is where `fgets` returns (`NextEnd`, `RoundOnText`). A command is the
so-manieth of those up to its end; one more leaves the ranks of the others
(`RanksKept`, `ExecutesOne`). `LinesInv` says for each state of `executeFile` what is known
of the first line, so that reading it again finds it again (`HeaderReadAgain`), and that
no line so far ended the script (`GoesBehind`).

### The heap and readline

`HeapProofs` is about the heap that `malloc` and its callers leave behind (`HeapOK`):
the list begins with the newest block, no block was ever unmapped, and the newest header's
`next` is null or text, its `addr` nothing that points to a header. What writing, clearing
and storing pointers do to such a heap is one lemma each (`WrittenHeap`,
`ZeroedHeap`, `StoredHeap`). That `free` then finds nothing and faults exactly if that `next`
is not null (`FreeTop`) needs what its walk over the list sees, which is a recursive
function: `WalkLooks` gives the function that satisfies its equation and shows that
no other does, by the least place where one could differ.

`ReadLineAssumption`: texts are of characters. The number of calls is not bounded.

- `DiesOfLongLinesAlways`, from `ReadLineInvariance`.
- `TerminalLinesAlways`.

`ReadLineInv` adds to `HeapOK` that the buffer is the newest block, or the first of all,
which alone was handed out behind its header; and that `next` of the newest block is
text exactly if a line of more than 16 characters has been read.

`TypedInv` adds for a terminal that as many lines end before the place where the call
began as have been returned, and that the buffer has what follows there, in which no line
ends. What one read gives ends with its line or before (`TypedPart`), because the host
stops at the end of a line; so `last_chunk` is true of a chunk exactly if the line ends
with it, the end-of-file key included, which comes only at the start of a line
(`InputsAssumption`).

### The shell's memory

`LinesAssumption`: a line has a command at least, a command a word at least and no more
arguments than fit, a word's '=' lies within it, and a command assigns if its first word
has one. Sessions, lines and the table of the
environment may be of any length.

- `FaultsIffOverlongAlways`, `VectorsEndAlways`, `ValuesMappedAlways` (`CommandProofs`).
- `VariablesKeptAlways` (`VariableProofs`).

The invariant of the first three, `MemoryInv`, types the memory by the set of those that are sound
(`Memory`): `HeapOK`, and an environment that points to blocks there are, from which
`ValuesMapped` follows because none is unmapped. A record of a parsed command points to
blocks older than the newest (`PointsInto`), so that clearing a command when it is given
back cannot touch the `next` that `free` follows. That `next` is the story of a line: text
after parsing if the last command is overlong and null if not (`Trimmed`,
`ParsedArgument`), the same after an assignment, since a key is shorter than its command
(`AddedEntry`), null after `executeFile`; giving back follows it (`Freed`). `LinedUp` keeps
for each command of a pipe what it found there, which is where an argument vector goes on.

The steps of `CommandMemory` are folds. A fold is defined by a recursive function on the
subsets of its sequence's domain; `Chained` shows that there is one, given that
each step stays within a set, and `FoldSteps` that its values on 1..k are the
intermediate results, about which `UpTo` concludes by the least place that could
differ. Each of the six folds is brought into that form once (`TextLengthBounds`,
`FreedArguments`, `FreedLine`, `Exported`, `ParsedInput`, `ParsedLine`); what it passes
through on the way is a predicate (`FreeRun`, `ExportRun`, `ParseRun` ...), so that further
facts about it need no second look at the fold.

`VariablesKept` compares what a reader finds in the table with a history, which
`Remembered` adds to word by word, as `executeBuiltInExport` goes through the same words.
`VariableInv` says where each value is (`Kept`): behind the key in the buffer of the word
that gave it, and gone exactly if the history says so. `setenv` keeps that for every other
key because it replaces one entry or adds one at the end (`SetsValue`). What else could
destroy a value is parsing the next line, which writes to buffers that are all newer than
those in use (`WordsHeld`), and giving back a line, which clears the names of its commands.
So while a line is there no value may be in the buffer of a name (`Names`): only a line of
one command that begins with an assignment puts one there, and for that one `FreedByName`
counts: clearing as far as each argument is long reaches the value exactly if one is longer
than the key and its '=' (`CommandFades`, `SpokenLengths`).

### The shell

`ShellAssumption`: processes are numbers from 1 on, finitely many, and sessions are
sequences of lines, each of one stage at least. `LinesAssumption`, which only
`OutputIsComposed` needs: the empty string is no item of the file, since it stands for the
end of one; the first program of a line does not read the terminal, which the model has
nothing to say of; a line is not an empty command alone, which the shell skips. Sessions,
pipelines, files and pipes may be of any length, and any number of forks may fail.

- `ShellTypeAlways`: whoever waits waits for a child of its own, a zombie has a living
  parent, inputs are read ends and outputs write ends.
- `EndsConfinedAlways`, `ForegroundReapedAlways`, `ShellsAccountedAlways`.
- `OutputIsComposedAlways`.

The invariant of the first four, `ShellInv`, is about the table of processes as a whole
(`Sound`). `Plugged` has the ends of pipes by the stage of a process: it reads an earlier one,
writes its own, and keeps read ends of earlier ones; only between fork and redirection
has it both ends of its own. `Kin` ties child and parent, and says that a child its
shell is not waiting for is in the background: it makes `ForegroundReaped` inductive.
`Informed` says what a process knows of its line; it is what tells the child that
becomes one more shell (a single background command, not found) from all others.
`Distinct` says that of a line at most one process goes on to a prompt, without which
the shells could not be counted: `ShellsAccounted` follows by an injection from shells to
lines. What `fork`, `exit` and `wait` do to a table is said once, for any table
(`ForkSound`, `ExitSound`, `ReapSound`), and each action is one of them or two in a row.

`OutputInv` adds what relates processes, pipes and the screen, for the lines no fork failed
in. For every stage of a line at most one process carries it (`Carries`, `Alone`): the
shell before it has forked, the process of the pipeline for all stages it has not started,
then the child that executes the stage; none once it is over. So how much a stage has
written is in one process (`Count`), or is all of it (`Given`). The pipe behind a stage
holds what lies between that and what the next one has read (`Flows`, `Stream`), and the
screen what the last has written (`Begun`); a stage nobody reads from is excused, as `head`
and `ls` end early and what is before them may be killed. `Wired` has the ends where they
belong, so that a reader sees the end only after the writer is gone (`WriterOpen`) and a
writer is killed only when the reader is (`ReaderOpen`), and `Advanced` has in a program's
hand the next item of its own output. `Awaited` says that somebody in a shell waits for
the last stage of a line, directly or behind the process of the pipeline: hence at the
prompt nobody carries it (`OverHasEnded`), and what is on the screen is all. `fork`, `wait`
and `exit` hand stages on (`HandedComposes`), a read or a write alters one
(`WorkerComposes`), a line that is typed starts with nothing (`TypedFlowing`). What the
stages make is a recursive function; that there is one is shown as for the folds
(`CompositionExists`).

### What stays with TLC

- Liveness (`TickServed`, `KeyServed`, `ScanEnds`, `CommandsEnd`): TLAPS has no fairness
  rule that it can check here, and no ENABLED.
- What a recursive or folded definition computes for every input, which takes induction
  over data, unless a least counterexample will do: `ParsedAsWritten` (trimmed and cut
  lines, character by character).

## 5. Not modelled

- The attribute bytes of the screen.
- The memory map `start()` walks: input of the boot loader, printed and dropped.
- Spurious interrupts of the 8259A, which set no in-service bit: they need a line that
  drops before its acknowledge, which edge-triggered devices do not do.
- Stack bytes; only frames are counted. So no property says whether
  4096 bytes are enough for the kernel (`main.c:16`), or what lies behind the array
  of arguments of the shell, which is given one pointer more than it has room for
  (`sbush.c:102`).
- The guard of `idt.c:83`, which lets a gate behind the table through: no caller
  reaches it.
- `disable_Interrupts`, `test_interrupt_zero`, `set_tss_rsp`, `printKeypress`,
  `get_pit_count`, `gets`, `getchar`: never called. Mode 0 of `setenv` has no caller.
- `ahci.h`, `elf64.h`, `tarfs.h`: declarations without code. `rootfs/`, `obj/`,
  `kernel`, `test_os/`: vendored or built.
- System calls: no kernel code of this commit answers them. The stubs in `syscall.h`
  are taken by their prototypes. Most of them name `rbx`, `rcx` and `rdx` where the
  host expects `rdi`, `rsi` and `rdx`; that the arguments arrive at all is due to the
  calling convention, which left them in the right registers, and to a compiler
  that does not inline.
- Of the shell: `cd`, `pwd` and `echo`, one host call each; the text of `PS1`; children
  that are stopped rather than ended (`waitpid` asks for them); programs that read the
  terminal while the shell does, and two shells that take parts of one line from
  it; a `pipe()` or `dup2()` that fails (`sbush.c:332`, `316`), after which the code
  writes a message and goes on with the descriptors it has; a script that cannot be
  opened, whose descriptor `fgetc` then reads from, with whatever character lies on its
  stack. `cat` writes the file, or a message if the file cannot be opened
  (`cat.c:32`); the constant `Makefile` is either, the same for the whole session.
- What follows the text in `readline`'s buffer, which gets no terminator.

## 6. Plan

Done: all modules of section 2 and the proofs of section 4. What is left:

1. `Shell` with `LineInput` as its source: two shells that take turns in one line.
2. `cd`, `pwd` and `echo`, with the host's working directory.
