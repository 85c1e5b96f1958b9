------------------------------ MODULE MCKernel ------------------------------
(***************************************************************************)
(* A small instance of Kernel: 48 vectors (the exceptions and the two      *)
(* controllers' ranges), addresses of eight bits, a clock that steps every *)
(* third tick and wraps, and three firmwares: one that masks every line    *)
(* without a driver, one that leaves the disk's IRQ 14 unmasked, and one   *)
(* that masks the keyboard and leaves the floppy's IRQ 6 unmasked.         *)
(***************************************************************************)
EXTENDS KernelRefinement, KernelInvariant

\* All three addresses differ in each of their pieces.
MCDefault  == 27     \* 1, 2, 3
MCPit      == 177    \* 11, 0, 1
MCKeyboard == 86     \* 5, 1, 2

MCFirmwareMasks ==
  { << {3, 4, 5, 6, 7}, Lines >>,
    << {3, 4, 5, 6, 7}, Lines \ {6} >>,
    << {1, 3, 4, 5, 7}, Lines >> }

MCStrayIrqs == {6, 14}

\* An a, left shift down, left shift up.
MCKeyBytes == {30, 42, 170}
MCLeftOver == {0}
=============================================================================
