----------------------------- MODULE IrqService -----------------------------
(***************************************************************************)
(* What the interrupt path of the kernel promises its two drivers.  While  *)
(* the system boots, requests may come and be forgotten.  Once it is live  *)
(* a request is never forgotten: it stays pending until it is served, once *)
(* for as often as it was raised anew; one request is served at a time,    *)
(* and the lower line goes first.  The system may die of a device without  *)
(* a driver, but only between two services.                                *)
(***************************************************************************)
EXTENDS Naturals

CONSTANTS
  DriverLines,   \* the lines that have a driver
  None           \* no line

VARIABLES
  mode,      \* "booting", "live" or "dead"
  pending,   \* lines with a request that is not served yet
  serving    \* the line whose handler runs, or None

serviceVars == <<mode, pending, serving>>

ServiceInit ==
  /\ mode = "booting"
  /\ pending \in SUBSET DriverLines
  /\ serving = None

Arrive ==
  /\ \E l \in DriverLines : pending' = pending \cup {l}
  /\ UNCHANGED <<mode, serving>>

Forget ==
  /\ mode = "booting"
  /\ pending' \in SUBSET DriverLines
  /\ UNCHANGED <<mode, serving>>

GoLive ==
  /\ mode = "booting"
  /\ mode' = "live"
  /\ UNCHANGED <<pending, serving>>

Serve ==
  /\ mode = "live" /\ serving = None
  /\ \E l \in pending :
       /\ \A m \in pending : l <= m
       /\ serving' = l
       /\ pending' = pending \ {l}
  /\ UNCHANGED mode

Finish ==
  /\ mode = "live" /\ serving # None
  /\ serving' = None
  /\ UNCHANGED <<mode, pending>>

Die ==
  /\ mode = "live" /\ serving = None
  /\ mode' = "dead"
  /\ UNCHANGED <<pending, serving>>

ServiceNext == Arrive \/ Forget \/ GoLive \/ Serve \/ Finish \/ Die

ServiceSpec == ServiceInit /\ [][ServiceNext]_serviceVars
=============================================================================
