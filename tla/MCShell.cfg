SPECIFICATION Spec
CONSTANTS
  Procs = {1, 2, 3, 4, 5, 6, 7, 8, 9}
  Capacity = 2
  MaxLost = 1
  Sessions <- MCSessions
  Makefile <- MCMakefile
INVARIANTS
  ShellTypeOK
  OutputIsComposed
  EndsConfined
  ShellsAccounted
  ForegroundReaped
PROPERTIES
  CommandsEnd
CHECK_DEADLOCK FALSE
