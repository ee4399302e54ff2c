------------------------- MODULE KeyedMutexProofs -------------------------
(***************************************************************************)
(* For any callers, any keys and any heap: KeyedMutex excludes per key,    *)
(* counts its users exactly and leaks no entry.                            *)
(***************************************************************************)
EXTENDS KeyedMutex, FiniteSetTheorems, TLAPS

\* The unlocked closure and the registered caller count in Users(e); a step of p
\* that leaves pc "idle"-ness and rl alone leaves Users alone.
LEMMA UsersFinite == \A e : IsFiniteSet(Users(e)) /\ Cardinality(Users(e)) \in Nat
  <1> TAKE e
  <1>1. Users(e) \subseteq Procs
    BY DEF Users
  <1>2. IsFiniteSet(Users(e))
    BY <1>1, ConstantsAssumption, FS_Subset
  <1> QED
    BY <1>2, FS_CardinalityType

LEMMA InitIInv == Init => IInv
  <1> SUFFICES ASSUME Init PROVE IInv
    OBVIOUS
  <1>1. TypeOK
    BY DEF Init, TypeOK, PCs
  <1>2. PointerIsCurrent /\ IdleHasNoPointer /\ DistinctEntries /\ NoLeakedEntry
    BY DEF Init, PointerIsCurrent, IdleHasNoPointer, DistinctEntries, NoLeakedEntry
  <1>3. OwnerHolds
    BY ConstantsAssumption DEF Init, OwnerHolds
  <1>4. RefsCountUsers
    <2> SUFFICES ASSUME NEW e \in Entries PROVE refs[e] = Cardinality(Users(e))
      BY DEF RefsCountUsers
    <2>1. Users(e) = {}
      BY DEF Init, Users
    <2> QED
      BY <2>1, FS_EmptySet DEF Init
  <1> QED
    BY <1>1, <1>2, <1>3, <1>4 DEF IInv

\* Under IInv an entry nobody points to has no users, so its count is 0.
LEMMA FreshEntry ==
  ASSUME IInv, NEW e \in Entries, Unreferenced(e)
  PROVE  Users(e) = {} /\ owner[e] \notin Procs
  BY DEF IInv, TypeOK, Unreferenced, Users, OwnerHolds

LEMMA RegisterIInv ==
  ASSUME IInv, NEW p \in Procs, NEW k \in Keys, Register(p, k)
  PROVE  IInv'
  <1> USE DEF Register, RegisterAdding
  <1>t. TypeOK /\ TypeOK'
    BY DEF IInv, TypeOK, PCs
  <1>e. PICK e \in Entries :
          /\ \/ locks[k] = e /\ refs' = [refs EXCEPT ![e] = @ + 1]
             \/ /\ locks[k] = NoEntry /\ Unreferenced(e)
                /\ refs' = [refs EXCEPT ![e] = 1]
          /\ locks' = [locks EXCEPT ![k] = e]
          /\ rl' = [rl EXCEPT ![p] = e]
    OBVIOUS
  <1>i. rl[p] = NoEntry /\ e # NoEntry
    BY ConstantsAssumption DEF IInv, IdleHasNoPointer
  <1>1. PointerIsCurrent'
    BY <1>t, <1>e, <1>i DEF IInv, PointerIsCurrent, TypeOK, Unreferenced
  <1>2. IdleHasNoPointer'
    BY <1>t, <1>e DEF IInv, IdleHasNoPointer, TypeOK
  <1>3. DistinctEntries'
    BY <1>t, <1>e, <1>i DEF IInv, DistinctEntries, TypeOK, Unreferenced
  <1>4. OwnerHolds'
    BY <1>t, <1>e, <1>i DEF IInv, OwnerHolds, TypeOK
  <1>5. NoLeakedEntry'
    BY <1>t, <1>e DEF IInv, NoLeakedEntry, TypeOK
  <1>6. RefsCountUsers'
    <2> SUFFICES ASSUME NEW f \in Entries PROVE refs'[f] = Cardinality(Users(f)')
      BY DEF RefsCountUsers
    <2>1. CASE f # e
      <3>1. Users(f)' = Users(f)
        BY <1>t, <1>e, <1>i, <2>1 DEF Users, TypeOK
      <3> QED
        BY <1>t, <1>e, <2>1, <3>1 DEF IInv, RefsCountUsers, TypeOK
    <2>2. CASE f = e
      <3>1. Users(e)' = Users(e) \cup {p} /\ p \notin Users(e)
        BY <1>t, <1>e, <1>i DEF Users, TypeOK
      <3>2. Cardinality(Users(e)') = Cardinality(Users(e)) + 1
        BY <3>1, UsersFinite, FS_AddElement
      <3>3. refs[e] = Cardinality(Users(e)) /\ refs[e] \in Nat
        BY <1>t DEF IInv, RefsCountUsers, TypeOK
      <3>4. CASE locks[k] = e /\ refs' = [refs EXCEPT ![e] = @ + 1]
        BY <1>t, <2>2, <3>2, <3>3, <3>4 DEF TypeOK
      <3>5. CASE Unreferenced(e) /\ refs' = [refs EXCEPT ![e] = 1]
        <4>1. Cardinality(Users(e)) = 0
          BY <3>5, FreshEntry, FS_EmptySet
        <4> QED
          BY <1>t, <2>2, <3>2, <3>5, <4>1 DEF TypeOK
      <3> QED
        BY <1>e, <3>4, <3>5
    <2> QED
      BY <2>1, <2>2
  <1> QED
    BY <1>t, <1>1, <1>2, <1>3, <1>4, <1>5, <1>6 DEF IInv

\* A step that changes neither who uses which entry nor the counts.
LEMMA SameUsers ==
  ASSUME RefsCountUsers, refs' = refs, rl' = rl,
         \A q \in Procs : pc'[q] = "idle" <=> pc[q] = "idle"
  PROVE  RefsCountUsers'
  <1> SUFFICES ASSUME NEW e \in Entries PROVE refs'[e] = Cardinality(Users(e)')
    BY DEF RefsCountUsers
  <1>1. Users(e)' = Users(e)
    BY DEF Users
  <1> QED
    BY <1>1 DEF RefsCountUsers

LEMMA AcquireIInv ==
  ASSUME IInv, NEW p \in Procs, Acquire(p)
  PROVE  IInv'
  <1> USE DEF Acquire, TakeWhen
  <1>t. TypeOK /\ TypeOK' /\ rl[p] \in Entries
    BY DEF IInv, TypeOK, PCs, PointerIsCurrent
  <1>1. PointerIsCurrent' /\ IdleHasNoPointer' /\ DistinctEntries' /\ NoLeakedEntry'
    BY <1>t DEF IInv, PointerIsCurrent, IdleHasNoPointer, DistinctEntries, NoLeakedEntry, TypeOK
  <1>2. OwnerHolds'
    BY <1>t, ConstantsAssumption DEF IInv, OwnerHolds, TypeOK
  <1>3. RefsCountUsers'
    BY <1>t, SameUsers DEF IInv, TypeOK
  <1> QED
    BY <1>t, <1>1, <1>2, <1>3 DEF IInv

LEMMA UnlockIInv ==
  ASSUME IInv, NEW p \in Procs, Unlock(p)
  PROVE  IInv'
  <1> USE DEF Unlock, LeaveTo
  <1>t. TypeOK /\ TypeOK' /\ rl[p] \in Entries
    BY DEF IInv, TypeOK, PCs, PointerIsCurrent
  <1>1. PointerIsCurrent' /\ IdleHasNoPointer' /\ DistinctEntries' /\ NoLeakedEntry'
    BY <1>t DEF IInv, PointerIsCurrent, IdleHasNoPointer, DistinctEntries, NoLeakedEntry, TypeOK
  <1>2. OwnerHolds'
    BY <1>t, ConstantsAssumption DEF IInv, OwnerHolds, TypeOK
  <1>3. RefsCountUsers'
    BY <1>t, SameUsers DEF IInv, TypeOK
  <1> QED
    BY <1>t, <1>1, <1>2, <1>3 DEF IInv

\* The count is 1 exactly when p is the last user of its entry.
LEMMA LastUser ==
  ASSUME IInv, NEW p \in Procs, pc[p] # "idle"
  PROVE  /\ Cardinality(Users(rl[p]) \ {p}) = refs[rl[p]] - 1
         /\ refs[rl[p]] = 1 <=> Users(rl[p]) = {p}
  <1> DEFINE e == rl[p]
  <1>1. e \in Entries /\ p \in Users(e)
    BY DEF IInv, TypeOK, PointerIsCurrent, Users
  <1>2. refs[e] = Cardinality(Users(e)) /\ refs[e] \in Nat
    BY <1>1 DEF IInv, RefsCountUsers, TypeOK
  <1>3. /\ IsFiniteSet(Users(e) \ {p})
        /\ Cardinality(Users(e) \ {p}) = Cardinality(Users(e)) - 1
    BY <1>1, UsersFinite, FS_RemoveElement
  <1>4. Cardinality(Users(e) \ {p}) = 0 <=> Users(e) \ {p} = {}
    BY <1>3, FS_EmptySet
  <1>5. Users(e) \ {p} = {} <=> Users(e) = {p}
    BY <1>1
  <1> QED
    BY <1>2, <1>3, <1>4, <1>5

LEMMA UnregisterIInv ==
  ASSUME IInv, NEW p \in Procs, Unregister(p)
  PROVE  IInv'
  <1> USE DEF Unregister, UnregisterDropping
  <1>e. PICK e \in Entries :
          e = rl[p] /\ e # NoEntry /\ locks[key[p]] = e /\ key[p] \in Keys
    BY ConstantsAssumption DEF IInv, TypeOK, PointerIsCurrent
  <1>r. /\ Cardinality(Users(e) \ {p}) = refs[e] - 1
        /\ refs[e] = 1 <=> Users(e) = {p}
    BY <1>e, LastUser
  <1>n. refs[e] - 1 \in Nat
    <2>1. IsFiniteSet(Users(e) \ {p})
      BY <1>e, UsersFinite, FS_Subset
    <2> QED
      BY <2>1, <1>r, FS_CardinalityType
  <1>t. TypeOK /\ TypeOK'
    BY <1>e, <1>n DEF IInv, TypeOK, PCs
  \* Whoever else uses key[p] uses e, so the entry goes only when nobody does.
  <1>o. \A q \in Procs : q # p /\ pc[q] # "idle" /\ key[q] = key[p] => refs[e] # 1
    BY <1>r, <1>e DEF IInv, PointerIsCurrent, Users
  <1>1. PointerIsCurrent'
    BY <1>t, <1>e, <1>o DEF IInv, PointerIsCurrent, TypeOK
  <1>2. IdleHasNoPointer'
    BY <1>t DEF IInv, IdleHasNoPointer, TypeOK
  <1>3. DistinctEntries'
    BY <1>t DEF IInv, DistinctEntries, TypeOK
  <1>4. OwnerHolds'
    BY <1>t, <1>e DEF IInv, OwnerHolds, TypeOK
  <1>5. NoLeakedEntry'
    <2> SUFFICES ASSUME NEW k \in Keys, locks'[k] # NoEntry
                 PROVE  \E q \in Procs : pc'[q] # "idle" /\ key'[q] = k
      BY DEF NoLeakedEntry
    <2>1. CASE k # key[p]
      BY <1>t, <2>1 DEF IInv, NoLeakedEntry, TypeOK
    <2>2. CASE k = key[p]
      <3>1. refs[e] # 1
        BY <1>t, <1>e, <2>2 DEF TypeOK
      <3>2. PICK q \in Users(e) : q # p
        BY <1>r, <1>e, <3>1 DEF Users
      <3>3. q \in Procs /\ pc[q] # "idle" /\ locks[key[q]] = e /\ key[q] \in Keys
        BY <3>2 DEF IInv, PointerIsCurrent, Users, TypeOK
      <3>4. key[q] = key[p]
        BY <3>3, <1>e DEF IInv, DistinctEntries
      <3> QED
        BY <1>t, <1>e, <2>2, <3>2, <3>3, <3>4 DEF TypeOK
    <2> QED
      BY <2>1, <2>2
  <1>6. RefsCountUsers'
    <2> SUFFICES ASSUME NEW f \in Entries PROVE refs'[f] = Cardinality(Users(f)')
      BY DEF RefsCountUsers
    <2>1. CASE f # e
      <3>1. Users(f)' = Users(f)
        BY <1>t, <1>e, <2>1 DEF Users, TypeOK
      <3> QED
        BY <1>t, <1>e, <2>1, <3>1 DEF IInv, RefsCountUsers, TypeOK
    <2>2. CASE f = e
      <3>1. Users(e)' = Users(e) \ {p}
        BY <1>t, <1>e DEF Users, TypeOK
      <3> QED
        BY <1>t, <1>e, <1>r, <2>2, <3>1 DEF TypeOK
    <2> QED
      BY <2>1, <2>2
  <1> QED
    BY <1>t, <1>1, <1>2, <1>3, <1>4, <1>5, <1>6 DEF IInv

LEMMA StutterIInv == IInv /\ UNCHANGED vars => IInv'
  <1> SUFFICES ASSUME IInv, UNCHANGED vars PROVE IInv'
    OBVIOUS
  <1>1. RefsCountUsers'
    BY SameUsers DEF IInv, vars
  <1> QED
    BY <1>1 DEF IInv, vars, TypeOK, PointerIsCurrent, IdleHasNoPointer, DistinctEntries,
                OwnerHolds, NoLeakedEntry

\* The inductive invariant: reference counts are exact and pointers are current, for
\* every interleaving of Lock and the closures it returns.
THEOREM Inductive == Spec => []IInv
  <1>1. IInv /\ [Next]_vars => IInv'
    BY RegisterIInv, AcquireIInv, UnlockIInv, UnregisterIInv, StutterIInv DEF Next
  <1> QED
    BY InitIInv, <1>1, PTL DEF Spec

\* Types, of every caller's and every entry's state.
THEOREM TypeCorrect == Spec => []TypeOK
  <1>1. IInv => TypeOK
    BY DEF IInv
  <1> QED
    BY Inductive, <1>1, PTL

\* At most one caller is inside the critical section of a key.
THEOREM MutualExclusionHolds == Spec => []MutualExclusion
  <1>1. IInv => MutualExclusion
    BY DEF IInv, TypeOK, MutualExclusion, PointerIsCurrent, OwnerHolds
  <1> QED
    BY Inductive, <1>1, PTL

\* The map holds an entry only for a key in use.
THEOREM NoLeak == Spec => []NoLeakedEntry
  <1>1. IInv => NoLeakedEntry
    BY DEF IInv
  <1> QED
    BY Inductive, <1>1, PTL
-----------------------------------------------------------------------------
(* The refinement: who waits for a key has asked for it, and who is inside *)
(* its critical section holds it.  The closure's second step is a stutter: *)
(* giving the reference back changes nothing a caller sees.                *)

Asked == [k \in Keys |-> {p \in Procs : pc[p] = "waiting" /\ key[p] = k}]
Holder == [k \in Keys |-> IF \E p \in Procs : pc[p] = "holding" /\ key[p] = k
                          THEN CHOOSE p \in Procs : pc[p] = "holding" /\ key[p] = k
                          ELSE NoProc]

\* The caller inside is the one the choice in the mapping finds.
HoldsInside ==
  \A k \in Keys :
    /\ \A p \in Procs : Holder[k] = p <=> pc[p] = "holding" /\ key[p] = k
    /\ Holder[k] = NoProc <=> \A p \in Procs : ~(pc[p] = "holding" /\ key[p] = k)

LEMMA HolderInside == IInv => HoldsInside
  <1> SUFFICES ASSUME IInv, NEW k \in Keys
               PROVE  /\ \A p \in Procs : Holder[k] = p <=> pc[p] = "holding" /\ key[p] = k
                      /\ Holder[k] = NoProc <=> \A p \in Procs : ~(pc[p] = "holding" /\ key[p] = k)
    BY DEF HoldsInside
  <1>1. MutualExclusion
    BY DEF IInv, TypeOK, MutualExclusion, PointerIsCurrent, OwnerHolds
  <1>2. CASE \E p \in Procs : pc[p] = "holding" /\ key[p] = k
    <2>1. Holder[k] = CHOOSE p \in Procs : pc[p] = "holding" /\ key[p] = k
      BY <1>2 DEF Holder
    <2>2. Holder[k] \in Procs /\ pc[Holder[k]] = "holding" /\ key[Holder[k]] = k
      BY <1>2, <2>1
    <2> QED
      BY <1>1, <1>2, <2>2, ConstantsAssumption DEF MutualExclusion
  <1>3. CASE ~\E p \in Procs : pc[p] = "holding" /\ key[p] = k
    <2>1. Holder[k] = NoProc
      BY <1>3 DEF Holder
    <2> QED
      BY <1>3, <2>1, ConstantsAssumption
  <1> QED
    BY <1>2, <1>3

\* The holders before and after a step, from who is inside before and after it.
LEMMA HolderAfter ==
  ASSUME IInv, IInv', NEW k \in Keys
  PROVE  /\ (\A q \in Procs : pc'[q] = "holding" /\ key'[q] = k <=> pc[q] = "holding" /\ key[q] = k)
              => Holder'[k] = Holder[k]
         /\ \A p \in Procs : pc'[p] = "holding" /\ key'[p] = k => Holder'[k] = p
         /\ (\A p \in Procs : ~(pc'[p] = "holding" /\ key'[p] = k)) => Holder'[k] = NoProc
  <1>1. /\ \A p \in Procs : Holder[k] = p <=> pc[p] = "holding" /\ key[p] = k
        /\ Holder[k] = NoProc <=> \A p \in Procs : ~(pc[p] = "holding" /\ key[p] = k)
    BY HolderInside DEF HoldsInside
  <1>2. /\ \A p \in Procs : Holder'[k] = p <=> pc'[p] = "holding" /\ key'[p] = k
        /\ Holder'[k] = NoProc <=> \A p \in Procs : ~(pc'[p] = "holding" /\ key'[p] = k)
    <2>1. HoldsInside'
      BY HolderInside, PTL
    <2> QED
      BY <2>1 DEF HoldsInside
  <1>3. ASSUME \A q \in Procs : pc'[q] = "holding" /\ key'[q] = k <=> pc[q] = "holding" /\ key[q] = k
        PROVE  Holder'[k] = Holder[k]
    <2>1. CASE \E q \in Procs : pc[q] = "holding" /\ key[q] = k
      <3>1. PICK q \in Procs : pc[q] = "holding" /\ key[q] = k
        BY <2>1
      <3>2. Holder[k] = q
        BY <3>1, <1>1
      <3>3. Holder'[k] = q
        BY <3>1, <1>2, <1>3
      <3> QED
        BY <3>2, <3>3
    <2>2. CASE ~\E q \in Procs : pc[q] = "holding" /\ key[q] = k
      <3>1. Holder[k] = NoProc
        BY <2>2, <1>1
      <3>2. Holder'[k] = NoProc
        BY <2>2, <1>2, <1>3
      <3> QED
        BY <3>1, <3>2
    <2> QED
      BY <2>1, <2>2
  <1>4. ASSUME NEW p \in Procs, pc'[p] = "holding", key'[p] = k
        PROVE  Holder'[k] = p
    BY <1>2, <1>4
  <1>5. ASSUME \A p \in Procs : ~(pc'[p] = "holding" /\ key'[p] = k)
        PROVE  Holder'[k] = NoProc
    BY <1>2, <1>5
  <1> QED
    BY <1>3, <1>4, <1>5

\* Lock's first critical section asks for the key.
LEMMA RegisterAsks ==
  ASSUME IInv, IInv', NEW p \in Procs, NEW k \in Keys, Register(p, k)
  PROVE  Abstract!Ask(p, k)
  <1>1. /\ pc \in [Procs -> PCs] /\ key \in [Procs -> Keys] /\ pc[p] = "idle"
        /\ pc' = [pc EXCEPT ![p] = "waiting"] /\ key' = [key EXCEPT ![p] = k]
    BY DEF IInv, TypeOK, Register, RegisterAdding
  <1>2. \A j \in Keys : p \notin Asked[j] /\ Holder[j] # p
    BY <1>1, HolderInside DEF HoldsInside, Asked
  <1>3. Asked' = [Asked EXCEPT ![k] = @ \cup {p}]
    BY <1>1 DEF Asked
  <1>4. Holder' = Holder
    <2>1. \A j \in Keys : Holder'[j] = Holder[j]
      <3> SUFFICES ASSUME NEW j \in Keys PROVE Holder'[j] = Holder[j]
        OBVIOUS
      <3>1. \A q \in Procs : pc'[q] = "holding" /\ key'[q] = j <=> pc[q] = "holding" /\ key[q] = j
        BY <1>1
      <3> QED
        BY <3>1, HolderAfter
    <2> QED
      BY <2>1 DEF Holder
  <1> QED
    BY <1>2, <1>3, <1>4 DEF Abstract!Ask, Abstract!Busy, Asked, Holder

\* Taking the entry's mutex is being granted the key: whoever else is inside would be on
\* this entry, too, and own its mutex.
LEMMA AcquireGrants ==
  ASSUME IInv, IInv', NEW p \in Procs, NEW k \in Keys, k = key[p], Acquire(p)
  PROVE  Abstract!Grant(p, k)
  <1>1. /\ pc \in [Procs -> PCs] /\ key \in [Procs -> Keys] /\ pc[p] = "waiting"
        /\ pc' = [pc EXCEPT ![p] = "holding"] /\ key' = key
    BY DEF IInv, TypeOK, Acquire, TakeWhen
  <1>3. \A q \in Procs : ~(pc[q] = "holding" /\ key[q] = k)
    <2> SUFFICES ASSUME NEW q \in Procs, pc[q] = "holding", key[q] = k PROVE FALSE
      OBVIOUS
    <2>1. rl[q] = rl[p] /\ rl[p] \in Entries
      BY <1>1 DEF IInv, TypeOK, PointerIsCurrent
    <2>2. owner[rl[p]] = q
      BY <2>1 DEF IInv, OwnerHolds
    <2> QED
      BY <2>2, ConstantsAssumption DEF Acquire, TakeWhen
  <1>4. p \in Asked[k] /\ Holder[k] = NoProc
    BY <1>1, <1>3, HolderInside DEF HoldsInside, Asked
  <1>5. Asked' = [Asked EXCEPT ![k] = @ \ {p}]
    BY <1>1 DEF Asked
  <1>6. Holder' = [Holder EXCEPT ![k] = p]
    <2>1. Holder'[k] = p
      BY <1>1, HolderAfter
    <2>2. \A j \in Keys : j # k => Holder'[j] = Holder[j]
      <3> SUFFICES ASSUME NEW j \in Keys, j # k PROVE Holder'[j] = Holder[j]
        OBVIOUS
      <3>1. \A q \in Procs : pc'[q] = "holding" /\ key'[q] = j <=> pc[q] = "holding" /\ key[q] = j
        BY <1>1
      <3> QED
        BY <3>1, HolderAfter
    <2> QED
      BY <2>1, <2>2 DEF Holder
  <1> QED
    BY <1>4, <1>5, <1>6 DEF Abstract!Grant, Asked, Holder

\* The closure's unlock releases the key.
LEMMA UnlockReleases ==
  ASSUME IInv, IInv', NEW p \in Procs, NEW k \in Keys, k = key[p], Unlock(p)
  PROVE  Abstract!Release(p, k)
  <1>1. /\ pc \in [Procs -> PCs] /\ key \in [Procs -> Keys] /\ pc[p] = "holding"
        /\ pc' = [pc EXCEPT ![p] = "unlocked"] /\ key' = key
    BY DEF IInv, TypeOK, Unlock, LeaveTo
  <1>3. Holder[k] = p
    BY <1>1, HolderInside DEF HoldsInside
  <1>4. \A q \in Procs : pc[q] = "holding" /\ key[q] = k => q = p
    BY <1>3, HolderInside DEF HoldsInside
  <1>5. Asked' = Asked
    BY <1>1 DEF Asked
  <1>6. Holder' = [Holder EXCEPT ![k] = NoProc]
    <2>1. Holder'[k] = NoProc
      <3>1. \A q \in Procs : ~(pc'[q] = "holding" /\ key'[q] = k)
        BY <1>1, <1>4
      <3> QED
        BY <3>1, HolderAfter
    <2>2. \A j \in Keys : j # k => Holder'[j] = Holder[j]
      <3> SUFFICES ASSUME NEW j \in Keys, j # k PROVE Holder'[j] = Holder[j]
        OBVIOUS
      <3>1. \A q \in Procs : pc'[q] = "holding" /\ key'[q] = j <=> pc[q] = "holding" /\ key[q] = j
        BY <1>1
      <3> QED
        BY <3>1, HolderAfter
    <2> QED
      BY <2>1, <2>2 DEF Holder
  <1> QED
    BY <1>3, <1>5, <1>6 DEF Abstract!Release, Asked, Holder

\* Giving the reference back takes a caller from "unlocked" to "idle", and neither has
\* asked for or holds a key.
LEMMA UnregisterStutters ==
  ASSUME IInv, IInv', NEW p \in Procs, Unregister(p)
  PROVE  Asked' = Asked /\ Holder' = Holder
  <1>1. /\ pc \in [Procs -> PCs] /\ key \in [Procs -> Keys] /\ pc[p] = "unlocked"
        /\ pc' = [pc EXCEPT ![p] = "idle"] /\ key' = key
    BY DEF IInv, TypeOK, Unregister, UnregisterDropping
  <1>2. Asked' = Asked
    BY <1>1 DEF Asked
  <1>3. \A j \in Keys : Holder'[j] = Holder[j]
    <2> SUFFICES ASSUME NEW j \in Keys PROVE Holder'[j] = Holder[j]
      OBVIOUS
    <2>1. \A q \in Procs : pc'[q] = "holding" /\ key'[q] = j <=> pc[q] = "holding" /\ key[q] = j
      BY <1>1
    <2> QED
      BY <2>1, HolderAfter
  <1> QED
    BY <1>2, <1>3 DEF Holder

\* "Lock(key)" gives every key a lock of its own: for any callers, keys and heap, asking,
\* taking and releasing are KeyedLock's, and dropping or recreating an entry is invisible.
THEOREM MutexImplementsLock == Spec => ImplementsKeyedLock
  <1>1. Init => Abstract!Init
    <2> SUFFICES ASSUME Init PROVE Abstract!Init
      OBVIOUS
    <2>1. \A p \in Procs : pc[p] = "idle"
      BY DEF Init
    <2>2. Asked = [k \in Keys |-> {}]
      BY <2>1 DEF Asked
    <2>3. Holder = [k \in Keys |-> NoProc]
      BY <2>1 DEF Holder
    <2> QED
      BY <2>2, <2>3 DEF Abstract!Init, Asked, Holder
  <1>2. IInv /\ IInv' /\ [Next]_vars => [Abstract!Next]_<<Asked, Holder>>
    <2> SUFFICES ASSUME IInv, IInv', [Next]_vars PROVE [Abstract!Next]_<<Asked, Holder>>
      OBVIOUS
    <2>1. ASSUME NEW p \in Procs, NEW k \in Keys, Register(p, k) PROVE Abstract!Next
      BY <2>1, RegisterAsks DEF Abstract!Next
    <2>2. ASSUME NEW p \in Procs, Acquire(p) PROVE Abstract!Next
      <3>1. PICK k \in Keys : k = key[p]
        BY DEF IInv, TypeOK
      <3>2. Abstract!Grant(p, k)
        BY <2>2, <3>1, AcquireGrants
      <3> QED
        BY <3>2 DEF Abstract!Next
    <2>3. ASSUME NEW p \in Procs, Unlock(p) PROVE Abstract!Next
      <3>1. PICK k \in Keys : k = key[p]
        BY DEF IInv, TypeOK
      <3>2. Abstract!Release(p, k)
        BY <2>3, <3>1, UnlockReleases
      <3> QED
        BY <3>2 DEF Abstract!Next
    <2>4. ASSUME NEW p \in Procs, Unregister(p) PROVE UNCHANGED <<Asked, Holder>>
      BY <2>4, UnregisterStutters
    <2>5. CASE UNCHANGED vars
      BY <2>5 DEF vars, Asked, Holder
    <2> QED
      BY <2>1, <2>2, <2>3, <2>4, <2>5 DEF Next
  <1> QED
    BY <1>1, <1>2, Inductive, PTL DEF Spec, ImplementsKeyedLock, Abstract!Spec, Asked, Holder
=============================================================================
