-------------------------- MODULE OverlayRelayMC --------------------------
(***************************************************************************)
(* Small instances of OverlayRelay: two requests at a time, a connection   *)
(* and its successor, an outbox of one or two frames, pages of one event   *)
(* and a replay budget of two, so that a full outbox, a second page, an    *)
(* exhausted budget and a shed connection all happen.                      *)
(***************************************************************************)
EXTENDS OverlayRelay, TLC

\* Handlers, connections and the messages of one kind are interchangeable.
Symmetry == Permutations(Handlers) \cup Permutations(Conns) \cup Permutations(EventSubMsgs)
=============================================================================
