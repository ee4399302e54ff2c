----------------------------- MODULE KeyedLock -----------------------------
(***************************************************************************)
(* What a keyed mutex promises its callers, with nothing about how: every  *)
(* key is a lock of its own, held by at most one caller, and asking for    *)
(* one key never waits on another.  KeyedMutex implements it.              *)
(***************************************************************************)
CONSTANTS Procs, Keys, NoProc

VARIABLES
  asked,  \* [Keys -> SUBSET Procs]: callers that asked for the key, not yet served
  holder  \* [Keys -> Procs \cup {NoProc}]

Init == /\ asked = [k \in Keys |-> {}]
        /\ holder = [k \in Keys |-> NoProc]

Busy(p) == \E k \in Keys : p \in asked[k] \/ holder[k] = p

Ask(p, k) == /\ ~Busy(p)
             /\ asked' = [asked EXCEPT ![k] = @ \cup {p}]
             /\ UNCHANGED holder

Grant(p, k) == /\ p \in asked[k]
               /\ holder[k] = NoProc
               /\ asked' = [asked EXCEPT ![k] = @ \ {p}]
               /\ holder' = [holder EXCEPT ![k] = p]

Release(p, k) == /\ holder[k] = p
                 /\ holder' = [holder EXCEPT ![k] = NoProc]
                 /\ UNCHANGED asked

Next == \E p \in Procs, k \in Keys : Ask(p, k) \/ Grant(p, k) \/ Release(p, k)

Spec == Init /\ [][Next]_<<asked, holder>>
=============================================================================
