-------------------------- MODULE OverlayDelivery --------------------------
(***************************************************************************)
(* What the overlay relay promises one streamer (docs/OVERLAY_RELAY.md):   *)
(* a durable log of messages, each logged once; the overlay runs the paid  *)
(* ones in log order and skips none, whatever connections, handlers and    *)
(* processes fail in between; commands run at most once each, out of band. *)
(* OverlayRelay implements it when its paid messages come from one source. *)
(***************************************************************************)
EXTENDS Naturals, Sequences

CONSTANTS Paid, Commands

VARIABLES
  log,     \* nivek.overlay_event of the streamer: log[seq]
  cursor,  \* the seq of the last paid event the overlay ran
  ran      \* the messages the overlay has run

Seen == {log[i] : i \in DOMAIN log}

Ahead == {i \in DOMAIN log : i > cursor /\ log[i] \in Paid}

Init == log = << >> /\ cursor = 0 /\ ran = {}

Record(m) == /\ m \notin Seen
             /\ log' = Append(log, m)
             /\ UNCHANGED <<cursor, ran>>

RunPaid == \E i \in Ahead : /\ \A j \in Ahead : i <= j
                            /\ cursor' = i
                            /\ ran' = ran \cup {log[i]}
                            /\ UNCHANGED log

RunCommand(m) == /\ m \in Commands \cap Seen
                 /\ m \notin ran
                 /\ ran' = ran \cup {m}
                 /\ UNCHANGED <<log, cursor>>

Next == \/ \E m \in Paid \cup Commands : Record(m) \/ RunCommand(m)
        \/ RunPaid

Spec == Init /\ [][Next]_<<log, cursor, ran>>
=============================================================================
