--------------------------- MODULE ChatMessagesMC ---------------------------
(***************************************************************************)
(* Three messages and one without an id, one or two of them of the listed  *)
(* chatter, in two goroutines over a ring of two ids: it wraps, evicts and *)
(* meets an evicted id again.                                              *)
(***************************************************************************)
EXTENDS ChatMessages

CONSTANTS m1, m2, m3, alice, bob
Wrote == (m1 :> alice) @@ (m2 :> bob) @@ (m3 :> bob) @@ (Blank :> bob)
WroteTwo == [Wrote EXCEPT ![m2] = alice]
=============================================================================
