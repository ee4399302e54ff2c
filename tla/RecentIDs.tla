----------------------------- MODULE RecentIDs -----------------------------
(***************************************************************************)
(* What the bot's duplicate filter promises: it remembers the last N ids   *)
(* it called new, oldest first, and calls an id seen exactly when it       *)
(* remembers it.  MessageIDCache implements it.                            *)
(***************************************************************************)
EXTENDS Naturals, Sequences

CONSTANTS Ids, Blank, N

VARIABLES
  recent,  \* the remembered ids, oldest first
  answer   \* the last call: the id asked about and what it returned

Init == recent = << >> /\ answer = [id |-> Blank, seen |-> FALSE]

Remembered == {recent[i] : i \in 1..Len(recent)}

Duplicate(id) == /\ id \in Remembered
                 /\ answer' = [id |-> id, seen |-> TRUE]
                 /\ UNCHANGED recent

Fresh(id) == /\ id \notin Remembered
             /\ answer' = [id |-> id, seen |-> FALSE]
             /\ recent' = Append(IF Len(recent) < N THEN recent ELSE Tail(recent), id)

\* An empty id cannot be deduplicated.
Empty == answer' = [id |-> Blank, seen |-> FALSE] /\ UNCHANGED recent

Next == Empty \/ \E id \in Ids : Duplicate(id) \/ Fresh(id)

Spec == Init /\ [][Next]_<<recent, answer>>
=============================================================================
