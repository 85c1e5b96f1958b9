--------------------------------- MODULE Pci ---------------------------------
(***************************************************************************)
(* The scan of the PCI buses in sys/pci.c and the table it fills.  A byte  *)
(* of a device's configuration header is modelled by where it comes from,  *)
(* so that the table can be compared with the devices; the configuration   *)
(* mechanism behind the two ports is external hardware.                    *)
(***************************************************************************)
EXTENDS Naturals, FiniteSets

CONSTANTS
  MAX_PCI_DEVICES,   \* entries of devInfo: 8
  Buses, Slots,      \* bounds of the two loops: 256 and 32
  Machines,          \* sets of <<bus, slot>> that may hold a device
  NoDevice           \* what reads of an empty slot give: all ones

\* The last part is the code's own test for a device, that no vendor is 0xFFFF.
ASSUME PciAssumption ==
  /\ MAX_PCI_DEVICES \in Nat
  /\ Buses \in 1..256 /\ Slots \in 1..32
  /\ Machines \subseteq SUBSET ((0..(Buses - 1)) \X (0..(Slots - 1)))
  /\ \A device \in UNION Machines : <<device, 0>> # NoDevice

VARIABLES
  present,         \* the devices of this machine
  bus, deviceId,   \* the loops of init_pci_devInfo
  configAddress,   \* the latch behind port 0xCF8
  devInfo, devCount,
  faulted          \* a write behind the table has taken the kernel down

pciVars == <<present, bus, deviceId, configAddress, devInfo, devCount, faulted>>

-----------------------------------------------------------------------------
(* The configuration mechanism: the latched address selects a double word, *)
(* that is the function of its four bytes, of function 0 of some device.   *)

HeaderByte(device, offset) == <<device, offset>>

ConfigData(address) ==
  LET device == << address \div 65536, (address \div 2048) % 32 >>
      func   == (address \div 256) % 8
      offset == address % 256
  IN  IF device \in present /\ func = 0
      THEN [k \in 0..3 |-> HeaderByte(device, offset + k)]
      ELSE [k \in 0..3 |-> NoDevice]

\* A mutant: the slot number is shifted by 10.
ConfigAddress_slot(b, s, func, offset) ==
  b * 65536 + s * 1024 + func * 256 + (offset - (offset % 4))

\* The enable bit, the highest of the address, is left out.
ConfigAddress(b, s, func, offset) ==
  b * 65536 + s * 2048 + func * 256 + (offset - (offset % 4))

pciConfigReadWord(b, s, offset) == ConfigData(ConfigAddress(b, s, 0, offset))

\* For each field of Pci_dev_info the register it is cut from, the first of the
\* register's bytes it takes, and how many.
Layout ==
  [vendorId |-> <<0, 0, 2>>, deviceId |-> <<0, 2, 2>>,
   command |-> <<4, 0, 2>>, status |-> <<4, 2, 2>>,
   revisionId |-> <<8, 0, 1>>, progIf |-> <<8, 1, 1>>,
   subClass |-> <<8, 2, 1>>, classCode |-> <<8, 3, 1>>,
   cacheLineSize |-> <<12, 0, 1>>, latencyTimer |-> <<12, 1, 1>>,
   headerType |-> <<12, 2, 1>>, bist |-> <<12, 3, 1>>,
   bar0 |-> <<16, 0, 4>>, bar1 |-> <<20, 0, 4>>, bar2 |-> <<24, 0, 4>>,
   bar3 |-> <<28, 0, 4>>, bar4 |-> <<32, 0, 4>>, bar5 |-> <<36, 0, 4>>,
   cardBusCISPtr |-> <<40, 0, 4>>,
   subsystemVendorId |-> <<44, 0, 2>>, subsystemId |-> <<44, 2, 2>>,
   expansionBaseROMAddr |-> <<48, 0, 4>>,
   capabilitiesPtr |-> <<52, 0, 2>>, reserved0 |-> <<52, 2, 2>>,
   reserved1 |-> <<56, 0, 4>>,
   interruptLine |-> <<60, 0, 1>>, interruptPin |-> <<60, 1, 1>>,
   minGrant |-> <<60, 2, 1>>, maxLatency |-> <<60, 3, 1>>]

Fields == DOMAIN Layout

\* A mutant: the register is masked but not shifted.
EntryFor_unshifted(b, s) ==
  [f \in Fields |->
     LET word == pciConfigReadWord(b, s, Layout[f][1])
     IN  [k \in 1..Layout[f][3] |-> word[k - 1]]]

EntryFor(b, s) ==
  [f \in Fields |->
     LET word == pciConfigReadWord(b, s, Layout[f][1])
     IN  [k \in 1..Layout[f][3] |-> word[Layout[f][2] + k - 1]]]

\* An entry is stored without a look at the size of the table.  The linker has
\* put devCount right behind it: the first two fields of a ninth entry replace
\* devCount, the next one goes to a wild address, and the page fault ends in the
\* default handler, which does not return.
pciCheckVendor(b, s) ==
  LET there == pciConfigReadWord(b, s, 0)[0] # NoDevice IN
  /\ devInfo' = IF there /\ devCount < MAX_PCI_DEVICES
                THEN [devInfo EXCEPT ![devCount] = EntryFor(b, s)] ELSE devInfo
  /\ devCount' = IF there /\ devCount < MAX_PCI_DEVICES THEN devCount + 1
                                                       ELSE devCount
  /\ faulted' = (there /\ devCount >= MAX_PCI_DEVICES)
  /\ configAddress' = ConfigAddress(b, s, 0, IF there THEN 60 ELSE 0)

NoEntry == [f \in Fields |-> [k \in 1..Layout[f][3] |-> NoDevice]]

\* A mutant: the bus loop counts in the uint8_t it passes on.
scan_uint8 ==
  /\ ~faulted /\ bus < Buses
  /\ pciCheckVendor(bus, deviceId)
  /\ deviceId' = (deviceId + 1) % Slots
  /\ bus' = IF deviceId + 1 = Slots THEN (bus + 1) % 256 ELSE bus
  /\ UNCHANGED present

scan ==
  /\ ~faulted /\ bus < Buses
  /\ pciCheckVendor(bus, deviceId)
  /\ deviceId' = (deviceId + 1) % Slots
  /\ bus' = IF deviceId + 1 = Slots THEN bus + 1 ELSE bus
  /\ UNCHANGED present

scanned == bus = Buses

\* The caller goes on, or the fault was the end.
rest == (scanned \/ faulted) /\ UNCHANGED pciVars

PciInit ==
  /\ present \in Machines
  /\ bus = 0 /\ deviceId = 0 /\ configAddress = 0
  /\ devInfo = [i \in 0..(MAX_PCI_DEVICES - 1) |-> NoEntry]
  /\ devCount = 0
  /\ faulted = FALSE

PciNext == scan \/ rest

PciSpec == PciInit /\ [][PciNext]_pciVars /\ WF_pciVars(scan)

-----------------------------------------------------------------------------
\* The device an entry was made for.
Owner(i) == devInfo[i].vendorId[1][1]

Place(device) == device[1] * Slots + device[2]

\* While the table has room, its entries are the devices of the slots visited so
\* far, each once and in the order of the scan, although the entries are written
\* without any check.
TableIsScan ==
  ~faulted =>
    /\ {Owner(i) : i \in 0..(devCount - 1)} =
         {d \in present : Place(d) < bus * Slots + deviceId}
    /\ \A i \in 1..(devCount - 1) : Place(Owner(i - 1)) < Place(Owner(i))

\* After the scan the whole header of a device can be read back from its entry:
\* the sixteen reads and the shifts and masks lose no byte and mix no two
\* registers or devices up.
HeaderKept ==
  scanned =>
    \A i \in 0..(devCount - 1) : \A offset \in 0..63 :
      \E f \in Fields :
        LET at == Layout[f][1] + Layout[f][2] IN
        /\ offset \in at..(at + Layout[f][3] - 1)
        /\ devInfo[i][f][offset - at + 1] = HeaderByte(Owner(i), offset)

\* The scan comes to its end, and only a machine with more devices than the
\* table has entries takes the kernel down.
ScanEnds ==
  <>(IF Cardinality(present) > MAX_PCI_DEVICES THEN faulted ELSE scanned)

\* What the comment at the table says: 256 devices are handled.
HandlesClaimedDevices == Cardinality(present) <= 256 => ~faulted
=============================================================================
