SPECIFICATION PciSpec
CONSTANTS
  MAX_PCI_DEVICES = 8
  Buses = 256
  Slots = 32
  Machines <- MCMachines
  NoDevice = NoDevice
INVARIANTS
  TableIsScan
  HeaderKept
PROPERTIES
  ScanEnds
