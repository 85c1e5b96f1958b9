------------------------------ MODULE Numerals ------------------------------
(***************************************************************************)
(* The numbers kprintf and printTime write: %d, %x and %p at the cursor,   *)
(* the clock over its own cells of the status row.  A digit is a number,   *)
(* the other characters are below 0: Minus, Second and Nul, the            *)
(* terminator that %p copies too.                                          *)
(***************************************************************************)
EXTENDS Integers, FiniteSetsExt, SequencesExt

CONSTANTS
  IntSize,       \* 2^32, the number of values of an int
  AddressSize    \* 2^64

ASSUME NumeralsAssumption == IntSize \in Nat \ {0} /\ AddressSize \in Nat \ {0}

VARIABLES
  clock,     \* the number printTime was last called with, an unsigned int
  wrapped,   \* history: the clock has passed its last value
  timeRow,   \* the cells of the status row from TIME_ADDRESS on
  printed    \* what was printed at the cursor: conversion, argument, characters

Minus  == -1
Second == -2   \* "s"
Nul    == -3

numeralVars == <<clock, wrapped, timeRow, printed>>

None == [conversion |-> "none", value |-> 0, run |-> <<>>]

\* The loop that takes digits off a number, the least significant first.
Taken(num, base) ==
  LET ch[n \in 0..num] == IF n = 0 THEN <<>> ELSE <<n % base>> \o ch[n \div base]
  IN  ch[num]

\* A mutant: num = num * (-1) is missing.
HandleSignedInt_unsigned(value) ==
  IF value = 0 THEN <<0>>
  ELSE IF value > 0 THEN Reverse(Taken(value, 10)) ELSE <<Minus>>

\* num * (-1) of the lowest int is that int again, and no loop runs for it.
HandleSignedInt(value) ==
  LET lowest == -(IntSize \div 2)
  IN  IF value = 0 THEN <<0>>
      ELSE IF value > 0 THEN Reverse(Taken(value, 10))
      ELSE <<Minus>> \o Reverse(Taken(IF value = lowest THEN 0 ELSE -value, 10))

\* %x: in decimal.
HandleUnsignedInt(value) == IF value = 0 THEN <<0>> ELSE Reverse(Taken(value, 10))

HandleAddress(value) ==
  IF value = 0 THEN <<0>> ELSE <<Nul>> \o Reverse(Taken(value, 16))

\* A mutant: the digits are written as they come.
printTime_unreversed(time) == Taken(time, 10) \o <<Second>>

printTime(time) == Reverse(Taken(time, 10)) \o <<Second>>

\* Writing begins at the same cell every time and clears none.
Over(cells, run) == run \o SubSeq(cells, Len(run) + 1, Len(cells))

Arguments ==
  [conversion : {"%d"}, value : -(IntSize \div 2)..(IntSize \div 2) - 1] \cup
  [conversion : {"%x"}, value : 0..IntSize - 1] \cup
  [conversion : {"%p"}, value : 0..AddressSize - 1]

\* Bound: it prints before the clock's first step; what it prints depends on neither the
\* clock nor what was printed before.
kprintf ==
  /\ printed = None /\ clock = 0
  /\ \E a \in Arguments :
       printed' = [conversion |-> a.conversion, value |-> a.value,
                   run |-> CASE a.conversion = "%d" -> HandleSignedInt(a.value)
                             [] a.conversion = "%x" -> HandleUnsignedInt(a.value)
                             [] a.conversion = "%p" -> HandleAddress(a.value)]
  /\ UNCHANGED <<clock, wrapped, timeRow>>

\* The timer's handler, a hundred steps of its clock later.
Step ==
  /\ clock' = (clock + 1) % IntSize
  /\ wrapped' = (wrapped \/ clock' = 0)
  /\ timeRow' = Over(timeRow, printTime(clock'))
  /\ printed' = None

NumeralsInit ==
  clock = 0 /\ wrapped = FALSE /\ timeRow = printTime(0) /\ printed = None
NumeralsNext == kprintf \/ Step
NumeralsSpec == NumeralsInit /\ [][NumeralsNext]_numeralVars

-----------------------------------------------------------------------------
\* What digits add up to.
ValueOf(digits, base) ==
  LET v[k \in 0..Len(digits)] == IF k = 0 THEN 0 ELSE v[k - 1] * base + digits[k]
  IN  v[Len(digits)]

\* The digits are a numeral of n: they add up to it, and none is superfluous.
IsNumeral(digits, n, base) ==
  /\ \A i \in DOMAIN digits : digits[i] \in 0..base - 1
  /\ n = ValueOf(digits, base)
  /\ digits # <<>> /\ (digits[1] = 0 => n = 0 /\ Len(digits) = 1)

\* What is printed reads as the argument, of %x too in decimal; but of the lowest int only
\* the sign is printed, and %p puts a cell without a character before any number but 0.
PrintedReads ==
  LET value == printed.value
      run   == printed.run
  IN  CASE printed.conversion = "none" -> TRUE
        [] printed.conversion = "%x"   -> IsNumeral(run, value, 10)
        [] printed.conversion = "%p"   ->
             IF value = 0 THEN run = <<0>>
             ELSE run[1] = Nul /\ IsNumeral(Tail(run), value, 16)
        [] printed.conversion = "%d"   ->
             IF value >= 0 THEN IsNumeral(run, value, 10)
             ELSE /\ run[1] = Minus
                  /\ IF value = -(IntSize \div 2) THEN Len(run) = 1
                     ELSE IsNumeral(Tail(run), -value, 10)

\* The clock's row shows its number and an "s", for 0 only the "s"; nothing else until the
\* number wraps, from when on the end of the longest one stays behind it.
ClockReads ==
  LET s == Min({i \in DOMAIN timeRow : timeRow[i] = Second})
      digits == SubSeq(timeRow, 1, s - 1)
  IN  /\ IF clock = 0 THEN s = 1 ELSE IsNumeral(digits, clock, 10)
      /\ s = Len(timeRow) \/ wrapped
      /\ wrapped => Len(timeRow) = Len(printTime(IntSize - 1))
=============================================================================
