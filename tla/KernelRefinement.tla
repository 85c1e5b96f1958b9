-------------------------- MODULE KernelRefinement --------------------------
(***************************************************************************)
(* Kernel implements IrqService: the pending requests are the unmasked     *)
(* request bits of the master for the two lines that have a driver, and    *)
(* the line being served is the source of the frame on the stack.          *)
(***************************************************************************)
EXTENDS Kernel

CONSTANT NoLine

DriverIrqs == {0, 1}

ASSUME NoLineAssumption == NoLine \notin DriverIrqs

Dying ==
  \/ reset
  \/ \E i \in DOMAIN frames :
       frames[i].routine \notin {pit_interrupt_service_routine,
                                 keyboard_interrupt_service_routine}

Service == INSTANCE IrqService WITH
  DriverLines <- DriverIrqs,
  None        <- NoLine,
  mode        <- IF Dying THEN "dead"
                 ELSE IF main = "spin" THEN "live" ELSE "booting",
  pending     <- DriverIrqs \cap (pic[MASTER_PIC_ID].irr \ pic[MASTER_PIC_ID].imr),
  serving     <- IF frames = <<>> \/ Dying THEN NoLine ELSE frames[1].source

\* The kernel's interrupt path keeps the promise of IrqService.
ImplementsService == Service!ServiceSpec
=============================================================================
