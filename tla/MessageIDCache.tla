-------------------------- MODULE MessageIDCache --------------------------
(***************************************************************************)
(* internal/libraries/twitchbot/eventsub_dedupe.go: the ring of chat       *)
(* message ids by which the bot drops Twitch's retries.  seen runs under   *)
(* the cache's mutex, so a call is one step.                               *)
(***************************************************************************)
EXTENDS Naturals, Sequences, FiniteSets

CONSTANTS Ids,   \* message ids, the empty one excluded
          Blank, \* the zero string of a slot not used yet
          N      \* len(c.ids): chatMessageIDCacheSize

ASSUME ConstantsAssumption == N \in Nat \ {0} /\ Blank \notin Ids

VARIABLES
  ids,    \* the ring, slots 0..N-1
  set,    \* the remembered ids
  next,   \* the slot written next
  full,   \* has the ring wrapped?
  answer  \* the last call: the id asked about and what seen returned

vars == <<ids, set, next, full, answer>>

Slots == 0..(N - 1)

\* newMessageIDCache
Init == /\ ids = [i \in Slots |-> Blank]
        /\ set = {}
        /\ next = 0
        /\ full = FALSE
        /\ answer = [id |-> Blank, seen |-> FALSE]

\* An empty id cannot be deduplicated.
SeenEmpty == answer' = [id |-> Blank, seen |-> FALSE] /\ UNCHANGED <<ids, set, next, full>>

SeenDuplicate(id) == /\ id \in set
                     /\ answer' = [id |-> id, seen |-> TRUE]
                     /\ UNCHANGED <<ids, set, next, full>>

\* A new id takes the next slot, whose previous id is forgotten once the ring is full.
ClaimForgetting(id, forgotten) ==
  /\ id \notin set
  /\ answer' = [id |-> id, seen |-> FALSE]
  /\ ids' = [ids EXCEPT ![next] = id]
  /\ set' = (set \ forgotten) \cup {id}
  /\ next' = IF next + 1 = N THEN 0 ELSE next + 1
  /\ full' = (full \/ next + 1 = N)

\* Mutants: the slot never wraps; nothing is ever forgotten; the slot after the one
\* taken is.
ClaimOverruns(id) == /\ id \notin set
                     /\ ids' = [ids EXCEPT ![next] = id]
                     /\ set' = set \cup {id}
                     /\ next' = next + 1
                     /\ UNCHANGED <<full, answer>>
ClaimForgetsNothing(id) == ClaimForgetting(id, {})
ClaimForgetsNext(id) == ClaimForgetting(id, IF full THEN {ids[(next + 1) % N]} ELSE {})
SeenNew(id) == ClaimForgetting(id, IF full THEN {ids[next]} ELSE {})

Next == SeenEmpty \/ \E id \in Ids : SeenDuplicate(id) \/ SeenNew(id)

Spec == Init /\ [][Next]_vars
-----------------------------------------------------------------------------
Filled == IF full THEN Slots ELSE 0..(next - 1)

Answers == [id : Ids \cup {Blank}, seen : BOOLEAN]

TypeOK == /\ ids \in [Slots -> Ids \cup {Blank}]
          /\ set \subseteq Ids
          /\ next \in Slots
          /\ full \in BOOLEAN
          /\ answer \in Answers

\* The set and the ring never drift apart: the set is what the filled slots hold, and
\* no id sits in two of them, so forgetting one slot forgets exactly one id.
RingMatchesSet == /\ \A i \in Filled : ids[i] \in set
                  /\ \A id \in set : \E i \in Filled : ids[i] = id
                  /\ \A i, j \in Filled : ids[i] = ids[j] => i = j

\* The filter is the memory of the last N claims.
Oldest == IF full THEN next ELSE 0
Slot(k) == IF Oldest + k - 1 < N THEN Oldest + k - 1 ELSE Oldest + k - 1 - N
Recent == INSTANCE RecentIDs WITH
  recent <- [k \in 1..(IF full THEN N ELSE next) |-> ids[Slot(k)]]
ImplementsRecentIDs == Recent!Spec

IInv == TypeOK /\ RingMatchesSet
=============================================================================
