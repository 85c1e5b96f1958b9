-------------------------------- MODULE Pit --------------------------------
(***************************************************************************)
(* The timer of sys/pit.c and the clock of the status row it keeps.        *)
(* Counters keep their width: CountWrap stands for 2^32, the range of      *)
(* g_pit_count, and TimeWrap for 2^64, the range of time_in_sec.           *)
(***************************************************************************)
EXTENDS Naturals

CONSTANTS
  CountWrap,   \* 2^32
  TimeWrap,    \* 2^64
  Period,      \* 35 ticks to a step of time_in_sec
  Scale        \* time_in_sec is shown divided by 100

ASSUME PitAssumption ==
  /\ CountWrap \in Nat /\ TimeWrap \in Nat /\ Period \in Nat /\ Scale \in Nat
  /\ CountWrap > Period /\ TimeWrap > 1 /\ Period > 1 /\ Scale > 0

VARIABLES
  g_pit_count,   \* ticks handled since init_pit
  time_in_sec,   \* steps of Period ticks, from 1
  timeShown,     \* the number printTime left on the screen, NotShown before
  pitReload,     \* channel 0's divisor, 0 for the firmware's
  sinceStep      \* history: ticks handled since time_in_sec last changed

pitVars == <<g_pit_count, time_in_sec, timeShown, pitReload, sinceStep>>

NotShown == TimeWrap

BaseFrequency == 4000
MaxFrequency  == 1193181

PitInit ==
  /\ g_pit_count = 0
  /\ time_in_sec = 1
  /\ timeShown = NotShown
  /\ pitReload = 0
  /\ sinceStep = 0

\* Mode and divisor go to the chip as a command and two bytes, low byte first.
program_pit ==
  LET frequency == MaxFrequency \div BaseFrequency IN
  /\ pitReload' = (frequency % 256) + 256 * ((frequency \div 256) % 256)
  /\ g_pit_count' = 0
  /\ UNCHANGED <<time_in_sec, timeShown, sinceStep>>

\* Two mutants: the tick counter does not wrap; a step takes a tick too many.
count_tick_wide ==
  /\ g_pit_count' = g_pit_count + 1
  /\ UNCHANGED <<time_in_sec, timeShown, pitReload, sinceStep>>

count_tick_late ==
  LET count == (g_pit_count + 1) % CountWrap
      step  == count % (Period + 1) = 0
      time  == (time_in_sec + 1) % TimeWrap
  IN
  /\ g_pit_count' = count
  /\ time_in_sec' = IF step THEN time ELSE time_in_sec
  /\ timeShown'   = IF step THEN (time \div Scale) % CountWrap ELSE timeShown
  /\ sinceStep'   = IF step THEN 0 ELSE sinceStep + 1
  /\ UNCHANGED pitReload

\* helper_calculate_timer up to its end of interrupt; printTime takes an
\* unsigned int, so the quotient is cut to 32 bits.
count_tick ==
  LET count == (g_pit_count + 1) % CountWrap
      step  == count % Period = 0
      time  == (time_in_sec + 1) % TimeWrap
  IN
  /\ g_pit_count' = count
  /\ time_in_sec' = IF step THEN time ELSE time_in_sec
  /\ timeShown'   = IF step THEN (time \div Scale) % CountWrap ELSE timeShown
  /\ sinceStep'   = IF step THEN 0 ELSE sinceStep + 1
  /\ UNCHANGED pitReload

\* Whether this tick makes helper_calculate_timer call printTime.
PrintsTime == ((g_pit_count + 1) % CountWrap) % Period = 0

PitTypeOK ==
  /\ g_pit_count \in 0..(CountWrap - 1)
  /\ time_in_sec \in 0..(TimeWrap - 1)
  /\ timeShown \in Nat
  /\ pitReload \in Nat
  /\ sinceStep \in Nat
=============================================================================
