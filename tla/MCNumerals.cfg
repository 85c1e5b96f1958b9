SPECIFICATION NumeralsSpec
CONSTANTS
  IntSize <- MCIntSize
  AddressSize <- MCAddressSize
INVARIANTS
  PrintedReads
  ClockReads
