---------------------------- MODULE KeyedMutex ----------------------------
(***************************************************************************)
(* internal/libraries/overlayrelay/keyedmutex.go: a map of reference-      *)
(* counted mutexes.  k.mu is a leaf lock (nothing blocks while it is       *)
(* held), so each of its two critical sections is one step; the per-key    *)
(* mutex is taken and released outside of it, and the unlock closure       *)
(* releases it BEFORE it gives its reference back, so another caller may   *)
(* run between those two steps.                                            *)
(*                                                                         *)
(* A refLock is an object: a caller keeps its pointer after the map has    *)
(* dropped it.  Entries stands for the heap's refLocks; one may be         *)
(* allocated when neither the map nor any caller points to it.             *)
(***************************************************************************)
EXTENDS Naturals, FiniteSets

CONSTANTS Procs, Keys, Entries, NoProc, NoEntry

ASSUME ConstantsAssumption ==
  /\ IsFiniteSet(Procs)
  /\ NoProc \notin Procs
  /\ NoEntry \notin Entries

VARIABLES
  locks,  \* KeyedMutex.locks: [Keys -> Entries \cup {NoEntry}]
  refs,   \* refLock.refs
  owner,  \* refLock.mu: the caller holding it, or NoProc
  pc,     \* where the caller is in Lock or in the closure it returned
  key,    \* the key it asked for
  rl      \* its local refLock pointer

vars == <<locks, refs, owner, pc, key, rl>>

PCs == {"idle", "waiting", "holding", "unlocked"}

Init ==
  /\ locks = [k \in Keys |-> NoEntry]
  /\ refs = [e \in Entries |-> 0]
  /\ owner = [e \in Entries |-> NoProc]
  /\ pc = [p \in Procs |-> "idle"]
  /\ key \in [Procs -> Keys]
  /\ rl = [p \in Procs |-> NoEntry]

\* A refLock the allocator may return: no pointer to it is left anywhere.
Unreferenced(e) == /\ \A k \in Keys : locks[k] # e
                   /\ \A p \in Procs : rl[p] # e

\* Lock, first critical section: find or create the entry and count ourselves.
RegisterAdding(p, k, more) ==
  /\ pc[p] = "idle"
  /\ \E e \in Entries :
       /\ \/ locks[k] = e /\ refs' = [refs EXCEPT ![e] = @ + more]
          \/ /\ locks[k] = NoEntry /\ Unreferenced(e)
             /\ refs' = [refs EXCEPT ![e] = 1]
       /\ locks' = [locks EXCEPT ![k] = e]
       /\ rl' = [rl EXCEPT ![p] = e]
  /\ key' = [key EXCEPT ![p] = k]
  /\ pc' = [pc EXCEPT ![p] = "waiting"]
  /\ UNCHANGED owner

\* Mutant: an entry found in the map is joined without being counted.
RegisterUncounted(p, k) == RegisterAdding(p, k, 0)
Register(p, k) == RegisterAdding(p, k, 1)

\* rl.mu.Lock(): blocks while another caller holds the entry's mutex.
TakeWhen(p, free) ==
  /\ pc[p] = "waiting"
  /\ free
  /\ owner' = [owner EXCEPT ![rl[p]] = p]
  /\ pc' = [pc EXCEPT ![p] = "holding"]
  /\ UNCHANGED <<locks, refs, key, rl>>

\* Mutant: the per-key mutex is not taken at all.
AcquireUnguarded(p) == TakeWhen(p, TRUE)
Acquire(p) == TakeWhen(p, owner[rl[p]] = NoProc)

\* The closure's rl.mu.Unlock().
LeaveTo(p, next) ==
  /\ pc[p] = "holding"
  /\ owner' = [owner EXCEPT ![rl[p]] = next]
  /\ pc' = [pc EXCEPT ![p] = "unlocked"]
  /\ UNCHANGED <<locks, refs, key, rl>>

\* Mutant: the closure gives its reference back without unlocking the mutex.
UnlockForgotten(p) == LeaveTo(p, p)
Unlock(p) == LeaveTo(p, NoProc)

\* The closure's critical section: give the reference back, drop an unused entry.
UnregisterDropping(p, unused) ==
  /\ pc[p] = "unlocked"
  /\ refs' = [refs EXCEPT ![rl[p]] = @ - 1]
  /\ locks' = IF unused THEN [locks EXCEPT ![key[p]] = NoEntry] ELSE locks
  /\ pc' = [pc EXCEPT ![p] = "idle"]
  /\ rl' = [rl EXCEPT ![p] = NoEntry]
  /\ UNCHANGED <<owner, key>>

\* Mutants: the entry is dropped while others wait on it; it is never dropped
\* (refs tested before it is decremented); it is dropped one reference too early.
UnregisterAlwaysDrops(p) == UnregisterDropping(p, TRUE)
UnregisterNeverDrops(p) == UnregisterDropping(p, refs[rl[p]] = 0)
UnregisterDropsEarly(p) == UnregisterDropping(p, refs[rl[p]] \in {1, 2})
Unregister(p) == UnregisterDropping(p, refs[rl[p]] = 1)

Next == \E p \in Procs :
          \/ \E k \in Keys : Register(p, k)
          \/ Acquire(p) \/ Unlock(p) \/ Unregister(p)

Spec == Init /\ [][Next]_vars

\* Callers always release (every use in the code is Lock ... defer unlock), and a
\* sync.Mutex waiter is not overtaken for ever: after 1ms it is handed the lock.
Fairness == \A p \in Procs : /\ SF_vars(Acquire(p))
                             /\ WF_vars(Unlock(p)) /\ WF_vars(Unregister(p))

FairSpec == Spec /\ Fairness
-----------------------------------------------------------------------------
\* The callers that hold a pointer to e that counts: they have registered with it.
Users(e) == {p \in Procs : pc[p] # "idle" /\ rl[p] = e}

TypeOK ==
  /\ locks \in [Keys -> Entries \cup {NoEntry}]
  /\ refs \in [Entries -> Nat]
  /\ owner \in [Entries -> Procs \cup {NoProc}]
  /\ pc \in [Procs -> PCs]
  /\ key \in [Procs -> Keys]
  /\ rl \in [Procs -> Entries \cup {NoEntry}]

\* Two callers are never inside the critical section of one key, although the
\* entry of a key is dropped and recreated while callers come and go.
MutualExclusion ==
  \A p, q \in Procs :
    pc[p] = "holding" /\ pc[q] = "holding" /\ key[p] = key[q] => p = q

\* A caller's pointer is the map's entry for its key for as long as it counts on it:
\* a waiter is never left behind on an entry the map has already replaced.
PointerIsCurrent ==
  \A p \in Procs : pc[p] # "idle" => rl[p] # NoEntry /\ locks[key[p]] = rl[p]

\* "dropped once no caller holds or waits on it, so the map cannot grow without
\* bound": a key is in the map only while a caller is using that key.
NoLeakedEntry ==
  \A k \in Keys : locks[k] # NoEntry => \E p \in Procs : pc[p] # "idle" /\ key[p] = k

\* Why the entry may be dropped at zero: refs counts exactly the entry's users.
RefsCountUsers == \A e \in Entries : refs[e] = Cardinality(Users(e))

\* A caller that waits for a key gets it.
WaiterIsServed == \A p \in Procs : pc[p] = "waiting" ~> pc[p] = "holding"
-----------------------------------------------------------------------------
\* KeyedMutex implements KeyedLock.
Abstract == INSTANCE KeyedLock WITH
  asked  <- [k \in Keys |-> {p \in Procs : pc[p] = "waiting" /\ key[p] = k}],
  holder <- [k \in Keys |-> IF \E p \in Procs : pc[p] = "holding" /\ key[p] = k
                            THEN CHOOSE p \in Procs : pc[p] = "holding" /\ key[p] = k
                            ELSE NoProc]

\* Per key, at most one holder, served from those that asked, whatever other keys do.
ImplementsKeyedLock == Abstract!Spec

\* The inductive invariant of the proofs: what makes mutual exclusion survive the
\* dropping and recreating of entries.
OwnerHolds ==
  \A p \in Procs, e \in Entries : owner[e] = p <=> pc[p] = "holding" /\ rl[p] = e
IdleHasNoPointer == \A p \in Procs : pc[p] = "idle" => rl[p] = NoEntry
DistinctEntries ==
  \A j, k \in Keys : locks[j] = locks[k] /\ locks[j] # NoEntry => j = k
IInv == /\ TypeOK
        /\ PointerIsCurrent /\ IdleHasNoPointer /\ DistinctEntries
        /\ OwnerHolds /\ RefsCountUsers /\ NoLeakedEntry
=============================================================================
