-------------------------------- MODULE MCPci --------------------------------
(***************************************************************************)
(* The program's own bounds, 256 buses of 32 slots and 8 entries, on       *)
(* machines with no device, with a full table and the two corners of the   *)
(* scan among its devices, and with one device too many.                   *)
(***************************************************************************)
EXTENDS Pci

Full == { <<0, 0>>, <<0, 1>>, <<0, 31>>, <<1, 0>>, <<1, 1>>,
          <<128, 16>>, <<255, 0>>, <<255, 31>> }

MCMachines == { {}, Full, Full \cup {<<2, 3>>} }

MCOneTooMany == { Full \cup {<<2, 3>>} }
=============================================================================
