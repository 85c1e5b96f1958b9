SPECIFICATION PciSpec
CONSTANTS
  MAX_PCI_DEVICES = 8
  Buses = 256
  Slots = 32
  Machines <- MCOneTooMany
  NoDevice = NoDevice
INVARIANTS
  HandlesClaimedDevices
