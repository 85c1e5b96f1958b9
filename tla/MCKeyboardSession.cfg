SPECIFICATION SessionSpec
CONSTANTS
  Keys <- MCKeys
  MakeCode <- MCMakeCode
  LeftOver <- MCLeftOver
  WireLength = 3
INVARIANTS
  ShiftNeverSticks
  ControlHeldOrExtended
  ShownIsLastKey
