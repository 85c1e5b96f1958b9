SPECIFICATION FairSpec
CONSTANTS
  MAX_NUM_INTERRUPTS = 48
  Half = 4
  default_interrupt_service_routine <- MCDefault
  pit_interrupt_service_routine <- MCPit
  keyboard_interrupt_service_routine <- MCKeyboard
  CountWrap = 5
  TimeWrap = 4
  Period = 3
  Scale = 2
  LeftOver <- MCLeftOver
  FirmwareMasks <- MCFirmwareMasks
  StrayIrqs <- MCStrayIrqs
  KeyBytes <- MCKeyBytes
  StackFrames = 3
  NoByte = NoByte
  NoLine = NoLine
INVARIANTS
  TypeOK
  OwnHandler
  MainQuiescent
  OneHandlerAtATime
  InServiceMatchesFrames
  ControllersConfigured
  ByteHasRequest
  RegistersMirrored
  DiesOnlyOfStray
  KernelInv
PROPERTIES
  ImplementsService
  ClockCadence
  TickServed
  KeyServed
