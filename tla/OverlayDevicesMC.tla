------------------------- MODULE OverlayDevicesMC -------------------------
(***************************************************************************)
(* Three tokens and two connections; one or two mints at a time.           *)
(***************************************************************************)
EXTENDS OverlayDevices, TLC

Symmetry == Permutations(Devices) \cup Permutations(Conns)
              \cup Permutations(Minters) \cup Permutations(Revokers)
=============================================================================
