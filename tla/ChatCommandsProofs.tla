------------------------ MODULE ChatCommandsProofs ------------------------
(***************************************************************************)
(* For any size of the ring, any messages and any number of goroutines, of *)
(* the chat alone and of the chat with its commands: the filter stays the  *)
(* memory of the last N claims, and a message is acted on again only when  *)
(* N others have been since.  Then what commands and dashboard leave in    *)
(* the promo and the stalk row, who is shouted out after a restart, and    *)
(* that the counters count each command once.                              *)
(***************************************************************************)
EXTENDS ChatCommands, FiniteSetTheorems, TLAPS

-----------------------------------------------------------------------------
(* The filter alone: the ring matches its set, and implements a memory of  *)
(* the last N claims.                                                      *)

LEMMA InitIInv == Init => IInv
  <1> SUFFICES ASSUME Init PROVE IInv
    OBVIOUS
  <1> USE ConstantsAssumption
  <1>1. 0 \in Slots /\ Filled = {}
    BY DEF Init, Slots, Filled
  <1>2. TypeOK
    BY <1>1 DEF Init, TypeOK, Answers
  <1>3. RingMatchesSet
    BY <1>1 DEF Init, RingMatchesSet
  <1> QED
    BY <1>2, <1>3 DEF IInv

\* The slots that are filled after a claim: those before it and the one it took.
LEMMA FilledAfterClaim ==
  ASSUME TypeOK, NEW id \in Ids, SeenNew(id)
  PROVE  Filled' = Filled \cup {next} /\ (next \in Filled <=> full)
  <1> USE ConstantsAssumption DEF SeenNew, ClaimForgetting, Filled, Slots, TypeOK
  <1>1. CASE full
    <2>1. full' = TRUE
      BY <1>1
    <2> QED
      BY <1>1, <2>1
  <1>2. CASE ~full /\ next + 1 = N
    <2>1. full' = TRUE
      BY <1>2
    <2> QED
      BY <1>2, <2>1
  <1>3. CASE ~full /\ next + 1 # N
    BY <1>3
  <1> QED
    BY <1>1, <1>2, <1>3

LEMMA SeenNewIInv ==
  ASSUME IInv, NEW id \in Ids, SeenNew(id)
  PROVE  IInv'
  <1>1. TypeOK /\ TypeOK'
    <2>1. TypeOK /\ next' \in Slots
      BY ConstantsAssumption DEF IInv, TypeOK, SeenNew, ClaimForgetting, Slots
    <2>2. ids' \in [Slots -> Ids \cup {Blank}] /\ set' \subseteq Ids
      BY <2>1 DEF TypeOK, SeenNew, ClaimForgetting
    <2>3. full' \in BOOLEAN
      BY Zenon DEF SeenNew, ClaimForgetting
    <2>4. answer' \in Answers
      BY DEF SeenNew, ClaimForgetting, Answers
    <2> QED
      BY <2>1, <2>2, <2>3, <2>4 DEF TypeOK
  <1>2. Filled' = Filled \cup {next} /\ (next \in Filled <=> full)
    BY <1>1, FilledAfterClaim
  <1>3. Filled \subseteq Slots /\ next \in Slots /\ ids' = [ids EXCEPT ![next] = id]
    BY <1>1, ConstantsAssumption DEF TypeOK, Filled, Slots, SeenNew, ClaimForgetting
  <1>4. ids'[next] = id /\ \A i \in Slots : i # next => ids'[i] = ids[i]
    BY <1>1, <1>3 DEF TypeOK
  <1>5. \A i \in Filled : i # next => ids[i] \in set' /\ ids[i] # id
    BY <1>2, <1>3 DEF IInv, RingMatchesSet, SeenNew, ClaimForgetting
  <1>6. \A i \in Filled' : ids'[i] \in set'
    BY <1>2, <1>3, <1>4, <1>5 DEF SeenNew, ClaimForgetting
  <1>7. \A x \in set' : \E i \in Filled' : ids'[i] = x
    <2> SUFFICES ASSUME NEW x \in set' PROVE \E i \in Filled' : ids'[i] = x
      OBVIOUS
    <2>1. CASE x = id
      BY <2>1, <1>2, <1>4
    <2>2. CASE x # id
      <3>1. x \in set /\ (full => x # ids[next])
        BY <2>2 DEF SeenNew, ClaimForgetting
      <3>2. PICK i \in Filled : ids[i] = x
        BY <3>1 DEF IInv, RingMatchesSet
      <3>3. i # next
        BY <3>1, <3>2, <1>2
      <3> QED
        BY <3>2, <3>3, <1>2, <1>3, <1>4
    <2> QED
      BY <2>1, <2>2
  <1>8. \A i, j \in Filled' : ids'[i] = ids'[j] => i = j
    BY <1>2, <1>3, <1>4, <1>5 DEF IInv, RingMatchesSet
  <1> QED
    BY <1>1, <1>6, <1>7, <1>8 DEF IInv, RingMatchesSet

\* Calls that claim nothing change only the answer.
LEMMA UnclaimedIInv ==
  ASSUME IInv, UNCHANGED <<ids, set, next, full>>, answer' \in Answers
  PROVE  IInv'
  BY DEF IInv, TypeOK, RingMatchesSet, Filled

\* The ring and its set agree for ever, whatever ids arrive.
THEOREM Inductive == Spec => []IInv
  <1>1. IInv /\ [Next]_vars => IInv'
    <2> SUFFICES ASSUME IInv, [Next]_vars PROVE IInv'
      OBVIOUS
    <2>1. CASE SeenEmpty
      BY <2>1, UnclaimedIInv DEF SeenEmpty, Answers
    <2>2. ASSUME NEW id \in Ids, SeenDuplicate(id) PROVE IInv'
      BY <2>2, UnclaimedIInv DEF SeenDuplicate, Answers
    <2>3. ASSUME NEW id \in Ids, SeenNew(id) PROVE IInv'
      BY <2>3, SeenNewIInv
    <2>4. CASE UNCHANGED vars
      BY <2>4, UnclaimedIInv DEF vars, IInv, TypeOK
    <2> QED
      BY <2>1, <2>2, <2>3, <2>4 DEF Next
  <1> QED
    BY InitIInv, <1>1, PTL DEF Spec

\* Types of the ring's fields.
THEOREM TypeCorrect == Spec => []TypeOK
  <1>1. IInv => TypeOK
    BY DEF IInv
  <1> QED
    BY Inductive, <1>1, PTL

\* The remembered set is exactly the contents of the filled slots, without repetition.
THEOREM RingHolds == Spec => []RingMatchesSet
  <1>1. IInv => RingMatchesSet
    BY DEF IInv
  <1> QED
    BY Inductive, <1>1, PTL
-----------------------------------------------------------------------------
(* The refinement: the ring read from its oldest slot is the abstract      *)
(* memory.                                                                 *)

Size == IF full THEN N ELSE next
Memory == [k \in 1..Size |-> ids[Slot(k)]]

MemoryIsRing ==
  /\ Size \in Nat /\ Len(Memory) = Size /\ Memory \in Seq(Ids \cup {Blank})
  /\ \A k \in 1..Size : Memory[k] = ids[Slot(k)] /\ Slot(k) \in Filled /\ Slot(k) \in Slots
  /\ \A i \in Filled : \E k \in 1..Size : Slot(k) = i

LEMMA SlotsFilled == TypeOK => MemoryIsRing
  <1> SUFFICES ASSUME TypeOK PROVE MemoryIsRing
    OBVIOUS
  <1> USE ConstantsAssumption DEF TypeOK, Slots
  <1>1. Size \in Nat
    BY DEF Size
  <1>2. \A k \in 1..Size : Slot(k) \in Filled /\ Slot(k) \in Slots
    BY DEF Size, Slot, Oldest, Filled
  <1>3. \A i \in Filled : \E k \in 1..Size : Slot(k) = i
    <2> SUFFICES ASSUME NEW i \in Filled PROVE \E k \in 1..Size : Slot(k) = i
      OBVIOUS
    <2>1. CASE ~full
      <3>1. i + 1 \in 1..Size /\ Slot(i + 1) = i
        BY <2>1 DEF Filled, Size, Slot, Oldest
      <3> QED
        BY <3>1
    <2>2. CASE full /\ i >= next
      <3>1. i - next + 1 \in 1..Size /\ Slot(i - next + 1) = i
        BY <2>2 DEF Filled, Size, Slot, Oldest
      <3> QED
        BY <3>1
    <2>3. CASE full /\ i < next
      <3>1. i + N - next + 1 \in 1..Size /\ Slot(i + N - next + 1) = i
        BY <2>3 DEF Filled, Size, Slot, Oldest
      <3> QED
        BY <3>1
    <2> QED
      BY <2>1, <2>2, <2>3 DEF Filled
  <1>4. Memory \in Seq(Ids \cup {Blank}) /\ Len(Memory) = Size
    BY <1>1, <1>2 DEF Memory
  <1>5. \A k \in 1..Size : Memory[k] = ids[Slot(k)]
    BY DEF Memory
  <1> QED
    BY <1>1, <1>2, <1>3, <1>4, <1>5 DEF MemoryIsRing

LEMMA RememberedIsSet ==
  ASSUME IInv
  PROVE  {Memory[i] : i \in 1..Len(Memory)} = set
  <1>1. TypeOK /\ RingMatchesSet
    BY DEF IInv
  <1>2. Len(Memory) = Size /\ \A k \in 1..Size : Memory[k] = ids[Slot(k)]
    BY <1>1, SlotsFilled DEF MemoryIsRing
  <1> QED
    BY <1>1, <1>2, SlotsFilled DEF RingMatchesSet, MemoryIsRing

\* The ring read from its oldest slot, before and after a claim.
LEMMA SlotsNotFull ==
  ASSUME TypeOK, NEW id \in Ids, SeenNew(id), ~full
  PROVE  /\ Size = next /\ Size < N /\ Size' = next + 1
         /\ \A k \in 1..Size : Slot(k) = k - 1
         /\ \A k \in 1..(next + 1) : Slot(k)' = k - 1
  <1> USE ConstantsAssumption DEF TypeOK, Slots, SeenNew, ClaimForgetting, Size, Slot, Oldest
  <1>1. CASE next + 1 = N
    <2>1. next' = 0 /\ full' = TRUE
      BY <1>1
    <2> QED
      BY <1>1, <2>1
  <1>2. CASE next + 1 # N
    <2>1. next' = next + 1 /\ full' = FALSE
      BY <1>2
    <2> QED
      BY <1>2, <2>1
  <1> QED
    BY <1>1, <1>2

LEMMA SlotsFull ==
  ASSUME TypeOK, NEW id \in Ids, SeenNew(id), full
  PROVE  /\ Size = N /\ Size' = N
         /\ \A k \in 1..(N - 1) : /\ Slot(k)' = Slot(k + 1)
                                  /\ Slot(k + 1) # next
                                  /\ Slot(k + 1) \in Slots
         /\ Slot(N)' = next
  <1> USE ConstantsAssumption DEF TypeOK, Slots, SeenNew, ClaimForgetting, Size, Slot, Oldest
  <1>0. full' = TRUE
    OBVIOUS
  <1>1. CASE next + 1 = N
    <2>1. next' = 0
      BY <1>1
    <2> QED
      BY <1>0, <1>1, <2>1
  <1>2. CASE next + 1 # N
    <2>1. next' = next + 1
      BY <1>2
    <2> QED
      BY <1>0, <1>2, <2>1
  <1> QED
    BY <1>1, <1>2

\* A claim appends to the memory and, once it is full, drops its oldest.
LEMMA MemoryAfterClaim ==
  ASSUME IInv, NEW id \in Ids, SeenNew(id)
  PROVE  Memory' = Append(IF Len(Memory) < N THEN Memory ELSE Tail(Memory), id)
  <1> DEFINE S == Ids \cup {Blank}
             Kept == IF Len(Memory) < N THEN Memory ELSE Tail(Memory)
  <1>1. TypeOK /\ TypeOK' /\ N \in Nat \ {0}
    BY SeenNewIInv, ConstantsAssumption DEF IInv
  <1>2. /\ Len(Memory) = Size /\ Memory \in Seq(S) /\ Size \in Nat
        /\ \A k \in 1..Size : Memory[k] = ids[Slot(k)] /\ Slot(k) \in Slots
    BY <1>1, SlotsFilled DEF MemoryIsRing
  <1>3. /\ Len(Memory') = Size' /\ Memory' \in Seq(S) /\ Size' \in Nat
        /\ \A k \in 1..Size' : Memory'[k] = ids'[Slot(k)']
    <2>1. MemoryIsRing'
      BY <1>1, SlotsFilled, PTL
    <2> QED
      BY <2>1 DEF MemoryIsRing
  <1>4. \A i \in Slots : ids'[i] = IF i = next THEN id ELSE ids[i]
    BY <1>1 DEF TypeOK, SeenNew, ClaimForgetting
  <1>5. next \in Slots /\ full \in BOOLEAN
    BY <1>1 DEF TypeOK
  <1>6. /\ Kept \in Seq(S) /\ Len(Kept) + 1 = Size'
        /\ \A k \in 1..Len(Kept) : Kept[k] = ids'[Slot(k)']
        /\ \A k \in 1..Size' : k = Size' => Slot(k)' = next
    <2>1. CASE ~full
      <3>1. /\ Size = next /\ Size < N /\ Size' = next + 1 /\ next \in Nat
            /\ \A k \in 1..Size : Slot(k) = k - 1
            /\ \A k \in 1..(next + 1) : Slot(k)' = k - 1
        BY <1>1, <1>5, <2>1, SlotsNotFull DEF Slots
      <3>2. Kept = Memory
        BY <1>2, <3>1
      <3>3. ASSUME NEW k \in 1..next PROVE Memory[k] = ids'[Slot(k)']
        <4>1. Memory[k] = ids[k - 1] /\ k - 1 \in Slots /\ k - 1 # next /\ Slot(k)' = k - 1
          BY <1>2, <3>1, <3>3
        <4> QED
          BY <4>1, <1>4
      <3>4. \A k \in 1..Size' : k = Size' => Slot(k)' = next
        BY <3>1
      <3> QED
        BY <1>2, <3>1, <3>2, <3>3, <3>4
    <2>2. CASE full
      <3>1. /\ Size = N /\ Size' = N
            /\ \A k \in 1..(N - 1) : Slot(k)' = Slot(k + 1) /\ Slot(k + 1) # next /\ Slot(k + 1) \in Slots
            /\ Slot(N)' = next
        BY <1>1, <2>2, SlotsFull
      <3>2. Kept = Tail(Memory)
        BY <1>1, <1>2, <3>1
      <3>3. /\ Tail(Memory) \in Seq(S) /\ Len(Tail(Memory)) = N - 1
            /\ \A k \in 1..(N - 1) : Tail(Memory)[k] = Memory[k + 1]
        BY <1>1, <1>2, <3>1
      <3>4. ASSUME NEW k \in 1..(N - 1) PROVE Tail(Memory)[k] = ids'[Slot(k)']
        <4>1. k + 1 \in 1..Size
          BY <1>1, <3>1
        <4>2. Memory[k + 1] = ids[Slot(k + 1)]
          BY <1>2, <4>1
        <4>3. ids'[Slot(k + 1)] = ids[Slot(k + 1)]
          BY <1>4, <3>1
        <4> QED
          BY <3>1, <3>3, <4>2, <4>3
      <3>5. \A k \in 1..Size' : k = Size' => Slot(k)' = next
        BY <3>1
      <3> QED
        BY <1>1, <3>1, <3>2, <3>3, <3>4, <3>5
    <2> QED
      BY <1>5, <2>1, <2>2
  <1> HIDE DEF Kept
  <1>7. /\ Append(Kept, id) \in Seq(S) /\ Len(Append(Kept, id)) = Size'
        /\ \A k \in 1..Len(Kept) : Append(Kept, id)[k] = Kept[k]
        /\ Append(Kept, id)[Size'] = id
    BY <1>6
  <1>8. ASSUME NEW k \in 1..Size' PROVE Memory'[k] = Append(Kept, id)[k]
    <2>1. CASE k = Size'
      <3>1. Memory'[k] = ids'[next]
        BY <1>3, <1>6, <2>1
      <3> QED
        BY <3>1, <1>4, <1>5, <1>7, <2>1
    <2>2. CASE k # Size'
      <3>1. k \in 1..Len(Kept)
        BY <1>3, <1>6, <2>2
      <3> QED
        BY <3>1, <1>3, <1>6, <1>7
    <2> QED
      BY <2>1, <2>2
  <1>9. Memory' = Append(Kept, id)
    BY <1>3, <1>7, <1>8
  <1> QED
    BY <1>9 DEF Kept

\* seen(id) answers, and remembers, as if it kept the last N claimed ids in a queue.
THEOREM CacheRefinesRecentIDs == Spec => ImplementsRecentIDs
  <1> USE DEF Recent!Init, Recent!Next, Recent!Empty, Recent!Fresh, Recent!Duplicate,
              Recent!Remembered, Memory, Size
  <1>1. Init => Recent!Init
    BY DEF Init
  <1>2. IInv /\ [Next]_vars => [Recent!Next]_<<Memory, answer>>
    <2> SUFFICES ASSUME IInv, [Next]_vars PROVE [Recent!Next]_<<Memory, answer>>
      OBVIOUS
    <2>1. CASE SeenEmpty
      BY <2>1 DEF SeenEmpty, Slot, Oldest
    <2>2. ASSUME NEW id \in Ids, SeenDuplicate(id) PROVE Recent!Duplicate(id)
      BY <2>2, RememberedIsSet DEF SeenDuplicate, Slot, Oldest
    <2>3. ASSUME NEW id \in Ids, SeenNew(id) PROVE Recent!Fresh(id)
      BY <2>3, RememberedIsSet, MemoryAfterClaim DEF SeenNew, ClaimForgetting
    <2>4. CASE UNCHANGED vars
      BY <2>4 DEF vars, Slot, Oldest
    <2> QED
      BY <2>1, <2>2, <2>3, <2>4 DEF Next
  <1> QED
    BY <1>1, <1>2, Inductive, PTL DEF Spec, ImplementsRecentIDs, Recent!Spec

-----------------------------------------------------------------------------
(* What has been acted on since.                                           *)

SinceIsFinite ==
  \A i \in DOMAIN taken : IsFiniteSet(ActedSince(i)) /\ Cardinality(ActedSince(i)) \in Nat

ActedOn == taken \in Seq(Messages)

LEMMA SinceFinite == ActedOn => SinceIsFinite
  <1> SUFFICES ASSUME taken \in Seq(Messages), NEW i \in DOMAIN taken
               PROVE  IsFiniteSet(ActedSince(i)) /\ Cardinality(ActedSince(i)) \in Nat
    BY DEF SinceIsFinite, ActedOn
  <1> DEFINE S == (i + 1)..Len(taken)
             T == {taken[k] : k \in S}
             f == [k \in S |-> taken[k]]
  <1>1. f \in Surjection(S, T)
    BY DEF Surjection
  <1>2. i + 1 \in Int /\ Len(taken) \in Int
    OBVIOUS
  <1>3. IsFiniteSet(S)
    BY <1>2, FS_Interval
  <1>4. IsFiniteSet(T)
    BY <1>1, <1>3, FS_Surjection
  <1>5. ActedSince(i) \subseteq T
    BY DEF ActedSince
  <1>6. IsFiniteSet(ActedSince(i))
    BY <1>4, <1>5, FS_Subset
  <1> QED
    BY <1>6, FS_CardinalityType

\* A message acted on counts for all those before it.
LEMMA SinceAppended ==
  ASSUME taken \in Seq(Messages), NEW m \in Messages, taken' = Append(taken, m)
  PROVE  /\ taken' \in Seq(Messages) /\ DOMAIN taken' = 1..(Len(taken) + 1)
         /\ Len(taken) \in Nat /\ DOMAIN taken = 1..Len(taken)
         /\ \A i \in DOMAIN taken : taken'[i] = taken[i]
         /\ taken'[Len(taken) + 1] = m
         /\ \A i \in DOMAIN taken : ActedSince(i)' = ActedSince(i) \cup ({m} \ {Blank})
  <1>1. /\ taken' \in Seq(Messages) /\ Len(taken') = Len(taken) + 1 /\ Len(taken) \in Nat
        /\ DOMAIN taken = 1..Len(taken) /\ DOMAIN taken' = 1..(Len(taken) + 1)
        /\ \A i \in 1..Len(taken) : taken'[i] = taken[i]
        /\ taken'[Len(taken) + 1] = m
    OBVIOUS
  <1>2. ASSUME NEW i \in DOMAIN taken
        PROVE  ActedSince(i)' = ActedSince(i) \cup ({m} \ {Blank})
    <2> DEFINE n == Len(taken)
    <2>1. (i + 1)..(n + 1) = ((i + 1)..n) \cup {n + 1}
      BY <1>1
    <2>2. {taken'[k] : k \in (i + 1)..(n + 1)} = {taken'[k] : k \in (i + 1)..n} \cup {m}
      BY <1>1, <2>1
    <2>3. \A k \in (i + 1)..n : taken'[k] = taken[k]
      BY <1>1
    <2>4. {taken'[k] : k \in (i + 1)..n} = {taken[k] : k \in (i + 1)..n}
      BY <2>3
    <2> QED
      BY <1>1, <2>2, <2>4 DEF ActedSince
  <1> QED
    BY <1>1, <1>2

\* A message between two others that are not the newest has been there before.
LEMMA WindowAppended ==
  ASSUME taken \in Seq(Messages), NEW m \in Messages, taken' = Append(taken, m),
         HandledOncePerWindow,
         \A i \in DOMAIN taken : taken[i] = m /\ m # Blank => Cardinality(ActedSince(i)) >= N
  PROVE  HandledOncePerWindow'
  <1> DEFINE n == Len(taken)
  <1>1. /\ DOMAIN taken' = 1..(n + 1) /\ n \in Nat /\ DOMAIN taken = 1..n
        /\ \A i \in DOMAIN taken : taken'[i] = taken[i]
        /\ taken'[n + 1] = m
    BY SinceAppended
  <1> SUFFICES ASSUME NEW i \in DOMAIN taken', NEW j \in DOMAIN taken',
                      i < j, taken'[i] = taken'[j], taken'[i] # Blank
               PROVE  Cardinality({taken'[k] : k \in (i + 1)..(j - 1)} \ {Blank}) >= N
    BY DEF HandledOncePerWindow
  <1>2. i \in DOMAIN taken /\ taken'[i] = taken[i]
    BY <1>1
  <1>3. \A k \in (i + 1)..(j - 1) : taken'[k] = taken[k]
    BY <1>1
  <1>4. {taken'[k] : k \in (i + 1)..(j - 1)} = {taken[k] : k \in (i + 1)..(j - 1)}
    <2> DEFINE Between == (i + 1)..(j - 1)
    <2>1. \A k \in Between : taken'[k] = taken[k]
      BY <1>3
    <2> HIDE DEF Between
    <2>2. {taken'[k] : k \in Between} = {taken[k] : k \in Between}
      BY <2>1
    <2> QED
      BY <2>2 DEF Between
  <1>5. CASE j = n + 1
    <2>0. n \in Nat /\ j - 1 = n
      BY <1>1, <1>5
    <2>1. taken[i] = m /\ m # Blank /\ (i + 1)..(j - 1) = (i + 1)..n
      BY <1>1, <1>2, <1>5, <2>0
    <2>2. Cardinality(ActedSince(i)) >= N
      BY <1>2, <2>1
    <2>3. {taken'[k] : k \in (i + 1)..(j - 1)} \ {Blank} = ActedSince(i)
      BY <1>4, <2>1, Zenon DEF ActedSince
    <2> QED
      BY <2>2, <2>3
  <1>6. CASE j # n + 1
    <2>0. n \in Nat /\ j \in 1..(n + 1) /\ j # n + 1
      BY <1>1, <1>6
    <2>1. j \in DOMAIN taken
      BY <1>1, <2>0
    <2>2. taken[i] = taken[j] /\ taken[i] # Blank
      BY <1>1, <1>2, <2>1
    <2> QED
      BY <1>2, <1>4, <2>1, <2>2 DEF HandledOncePerWindow
  <1> QED
    BY <1>5, <1>6
-----------------------------------------------------------------------------
(* A claim: the ring's memory moves up by one once it is full.             *)

MemoryInOrder ==
  \A i \in DOMAIN taken, k, l \in 1..Size :
    k < l /\ taken[i] = Memory[k] => Memory[l] \in ActedSince(i)

LEMMA RingIsMemory == TypeOK => (RingInOrder <=> MemoryInOrder)
  <1> SUFFICES ASSUME TypeOK PROVE RingInOrder <=> MemoryInOrder
    OBVIOUS
  <1>1. \A k \in 1..Size : Memory[k] = ids[Slot(k)]
    BY SlotsFilled DEF MemoryIsRing
  <1> QED
    BY <1>1 DEF RingInOrder, MemoryInOrder, Size

LEMMA MemoryMoves ==
  ASSUME IInv, NEW m \in Ids, SeenNew(m)
  PROVE  /\ Size' \in Nat /\ Size \in Nat /\ Size' > 0
         /\ Memory'[Size'] = m
         /\ \E d \in {0, 1} : \A k \in 1..(Size' - 1) : k + d \in 1..Size /\ Memory'[k] = Memory[k + d]
         /\ \A k \in 1..Size : Memory[k] \in set
  <1> DEFINE S == Ids \cup {Blank}
  <1>1. TypeOK /\ TypeOK' /\ N \in Nat \ {0}
    BY SeenNewIInv, ConstantsAssumption DEF IInv
  <1>2. Len(Memory) = Size /\ Memory \in Seq(S) /\ Size \in Nat
    BY <1>1, SlotsFilled DEF MemoryIsRing
  <1>3. Len(Memory') = Size'
    <2>1. MemoryIsRing'
      BY <1>1, SlotsFilled, PTL
    <2> QED
      BY <2>1 DEF MemoryIsRing
  <1>4. Memory' = Append(IF Size < N THEN Memory ELSE Tail(Memory), m)
    BY <1>2, MemoryAfterClaim
  <1>5. \A k \in 1..Size : Memory[k] \in set
    BY <1>2, RememberedIsSet
  <1>6. CASE Size < N
    <2>1. Memory' = Append(Memory, m)
      BY <1>4, <1>6
    <2>2. Size' = Size + 1 /\ Memory'[Size'] = m
      BY <1>2, <1>3, <2>1
    <2>3. \A k \in 1..(Size' - 1) : k + 0 \in 1..Size /\ Memory'[k] = Memory[k + 0]
      BY <1>2, <2>1, <2>2
    <2> QED
      BY <1>2, <1>5, <2>2, <2>3
  <1>7. CASE ~(Size < N)
    <2>1. Memory' = Append(Tail(Memory), m) /\ Size \in Nat \ {0}
      BY <1>1, <1>2, <1>4, <1>7
    <2>2. /\ Len(Tail(Memory)) = Size - 1 /\ Tail(Memory) \in Seq(S)
          /\ \A k \in 1..(Size - 1) : Tail(Memory)[k] = Memory[k + 1]
      BY <1>2, <2>1
    <2>3. Size' = Size /\ Memory'[Size'] = m
      BY <1>3, <2>1, <2>2
    <2>4. \A k \in 1..(Size' - 1) : k + 1 \in 1..Size /\ Memory'[k] = Memory[k + 1]
      BY <2>1, <2>2, <2>3
    <2>5. Size' \in Nat /\ Size' > 0
      BY <2>1, <2>3
    <2> QED
      BY <1>2, <1>5, <2>3, <2>4, <2>5
  <1> QED
    BY <1>6, <1>7

LEMMA ClaimKeepsOrder ==
  ASSUME IInv, taken \in Seq(Messages), RingInOrder,
         NEW m \in Ids, SeenNew(m), taken' = Append(taken, m)
  PROVE  RingInOrder'
  <1>1. TypeOK /\ TypeOK' /\ m \in Messages /\ m # Blank /\ m \notin set
    BY SeenNewIInv, ConstantsAssumption DEF IInv, Messages, SeenNew, ClaimForgetting
  <1>2. MemoryInOrder
    BY <1>1, RingIsMemory
  <1>3. /\ DOMAIN taken' = 1..(Len(taken) + 1) /\ Len(taken) \in Nat /\ DOMAIN taken = 1..Len(taken)
        /\ \A i \in DOMAIN taken : taken'[i] = taken[i]
        /\ taken'[Len(taken) + 1] = m
        /\ \A i \in DOMAIN taken : ActedSince(i)' = ActedSince(i) \cup ({m} \ {Blank})
    BY <1>1, SinceAppended
  <1>4. /\ Size' \in Nat /\ Size \in Nat /\ Size' > 0
        /\ Memory'[Size'] = m
        /\ \A k \in 1..Size : Memory[k] \in set
    BY MemoryMoves
  <1>5. PICK d \in {0, 1} :
          \A k \in 1..(Size' - 1) : k + d \in 1..Size /\ Memory'[k] = Memory[k + d]
    BY MemoryMoves
  <1>s. PICK s \in Nat : s = Size'
    BY <1>4
  <1>6. MemoryInOrder'
    <2> SUFFICES ASSUME NEW i \in DOMAIN taken', NEW k \in 1..Size', NEW l \in 1..Size',
                        k < l, taken'[i] = Memory'[k]
                 PROVE  Memory'[l] \in ActedSince(i)'
      BY DEF MemoryInOrder
    <2>0. k \in 1..s /\ l \in 1..s
      BY <1>s
    <2>1. k \in 1..(s - 1) /\ k \in Nat /\ l \in Nat
      BY <2>0
    <2>2. Memory'[k] = Memory[k + d] /\ k + d \in 1..Size
      BY <1>s, <1>5, <2>1
    <2>3. taken'[i] # m
      BY <1>1, <1>4, <2>2
    <2>4. i \in DOMAIN taken /\ taken'[i] = taken[i]
      BY <1>3, <2>3
    <2>5. CASE l = s
      <3>1. Memory'[l] = m
        BY <1>4, <1>s, <2>5
      <3>2. m \in ActedSince(i)'
        BY <1>1, <1>3, <2>4
      <3> QED
        BY <3>1, <3>2
    <2>6. CASE l # s
      <3>1. l \in 1..(s - 1)
        BY <2>0, <2>6
      <3>2. Memory'[l] = Memory[l + d] /\ l + d \in 1..Size
        BY <1>s, <1>5, <3>1
      <3>3. k + d < l + d
        BY <2>1
      <3>4. Memory[l + d] \in ActedSince(i)
        BY <1>2, <2>2, <2>4, <3>2, <3>3 DEF MemoryInOrder
      <3> QED
        BY <1>3, <2>4, <3>2, <3>4
    <2> QED
      BY <2>5, <2>6
  <1>7. TypeOK' => (RingInOrder' <=> MemoryInOrder')
    BY RingIsMemory, PTL
  <1> QED
    BY <1>1, <1>6, <1>7

\* A full ring holds N ids; its oldest is the one a claim forgets.
LEMMA SlotsApart ==
  ASSUME TypeOK, full
  PROVE  /\ \A k, l \in 1..N : Slot(k) = Slot(l) => k = l
         /\ Slot(1) = next
         /\ \A k \in 1..N : Slot(k) \in Filled
  BY ConstantsAssumption DEF TypeOK, Slots, Slot, Oldest, Filled

\* What a claim forgets was acted on before the N - 1 ids left in the ring and the one
\* that takes its slot.
LEMMA ForgottenAfterN ==
  ASSUME IInv, taken \in Seq(Messages), RingInOrder, full,
         NEW m \in Ids, SeenNew(m), taken' = Append(taken, m),
         NEW i \in DOMAIN taken, taken[i] = ids[next]
  PROVE  Cardinality(ActedSince(i)') >= N
  <1>1. TypeOK /\ RingMatchesSet /\ m \in Messages /\ m # Blank /\ m \notin set /\ N \in Nat \ {0}
    BY ConstantsAssumption DEF IInv, Messages, SeenNew, ClaimForgetting
  <1> DEFINE T == ActedSince(i)'
             f == [k \in 1..N |-> IF k = 1 THEN m ELSE ids[Slot(k)]]
  <1>2. /\ taken' \in Seq(Messages) /\ i \in DOMAIN taken'
        /\ T = ActedSince(i) \cup {m}
    BY <1>1, SinceAppended
  <1>3. IsFiniteSet(T) /\ Cardinality(T) \in Nat
    <2>1. ActedOn' => SinceIsFinite'
      BY SinceFinite, PTL
    <2> QED
      BY <1>2, <2>1 DEF ActedOn, SinceIsFinite
  <1> HIDE DEF T
  <1>4. /\ \A k, l \in 1..N : Slot(k) = Slot(l) => k = l
        /\ Slot(1) = next
        /\ \A k \in 1..N : Slot(k) \in Filled
    BY <1>1, SlotsApart
  <1>5. \A k \in 1..N : k # 1 => ids[Slot(k)] \in ActedSince(i)
    BY <1>1, <1>4 DEF RingInOrder
  <1>6. \A k \in 1..N : ids[Slot(k)] # m
    BY <1>1, <1>4 DEF RingMatchesSet
  <1>7. \A k, l \in 1..N : ids[Slot(k)] = ids[Slot(l)] => k = l
    BY <1>1, <1>4 DEF RingMatchesSet
  <1>8. f \in [1..N -> T]
    BY <1>2, <1>5
  <1>f. f[1] = m /\ \A k \in 1..N : k # 1 => f[k] = ids[Slot(k)]
    BY <1>1
  <1> HIDE DEF f
  <1>9. \A k, l \in 1..N : f[k] = f[l] => k = l
    <2> SUFFICES ASSUME NEW k \in 1..N, NEW l \in 1..N, f[k] = f[l] PROVE k = l
      OBVIOUS
    <2> QED
      BY <1>6, <1>7, <1>f
  <1>10. f \in Injection(1..N, T)
    BY <1>8, <1>9 DEF Injection, IsInjective
  <1>11. Cardinality(1..N) <= Cardinality(T)
    BY <1>3, <1>10, FS_Injection
  <1>12. Cardinality(1..N) = N
    BY <1>1, FS_Interval
  <1> QED
    BY <1>1, <1>3, <1>11, <1>12 DEF T

LEMMA ClaimKeepsInv ==
  ASSUME FilterInv, NEW m \in Ids, SeenNew(m), taken' = Append(taken, m)
  PROVE  RingInOrder' /\ ForgottenLate' /\ HandledOncePerWindow'
  <1>1. /\ IInv /\ taken \in Seq(Messages) /\ RingInOrder /\ ForgottenLate /\ HandledOncePerWindow
        /\ N \in Nat \ {0} /\ m \in Messages /\ m # Blank /\ m \notin set
    BY ConstantsAssumption DEF FilterInv, Messages, SeenNew, ClaimForgetting
  <1>2. RingInOrder'
    BY <1>1, ClaimKeepsOrder
  <1>3. HandledOncePerWindow'
    <2>1. \A i \in DOMAIN taken : taken[i] = m /\ m # Blank => Cardinality(ActedSince(i)) >= N
      BY <1>1 DEF ForgottenLate
    <2> QED
      BY <1>1, <2>1, WindowAppended
  <1>4. /\ taken' \in Seq(Messages) /\ DOMAIN taken' = 1..(Len(taken) + 1)
        /\ Len(taken) \in Nat /\ DOMAIN taken = 1..Len(taken)
        /\ \A i \in DOMAIN taken : taken'[i] = taken[i]
        /\ taken'[Len(taken) + 1] = m
        /\ \A i \in DOMAIN taken : ActedSince(i)' = ActedSince(i) \cup ({m} \ {Blank})
    BY <1>1, SinceAppended
  <1>5. /\ \A i \in DOMAIN taken' : IsFiniteSet(ActedSince(i)') /\ Cardinality(ActedSince(i)') \in Nat
        /\ \A i \in DOMAIN taken : IsFiniteSet(ActedSince(i)) /\ Cardinality(ActedSince(i)) \in Nat
    <2>1. ActedOn' => SinceIsFinite'
      BY SinceFinite, PTL
    <2> QED
      BY <1>1, <1>4, <2>1, SinceFinite DEF ActedOn, SinceIsFinite
  <1>6. ASSUME NEW i \in DOMAIN taken', taken'[i] # Blank, taken'[i] \notin set'
        PROVE  Cardinality(ActedSince(i)') >= N
    <2>1. m \in set' /\ set' = (set \ (IF full THEN {ids[next]} ELSE {})) \cup {m}
      BY DEF SeenNew, ClaimForgetting
    <2>2. i \in DOMAIN taken /\ taken'[i] = taken[i]
      BY <1>4, <1>6, <2>1
    <2>3. CASE taken[i] \notin set
      <3>1. Cardinality(ActedSince(i)) >= N
        BY <1>1, <1>6, <2>2, <2>3 DEF ForgottenLate
      <3>2. ActedSince(i) \subseteq ActedSince(i)'
        BY <1>4, <2>2
      <3>3. Cardinality(ActedSince(i)) <= Cardinality(ActedSince(i)')
        BY <1>5, <3>2, FS_Subset
      <3> QED
        BY <1>1, <1>5, <2>2, <3>1, <3>3
    <2>4. CASE taken[i] \in set
      <3>1. full /\ taken[i] = ids[next]
        BY <1>6, <2>1, <2>2, <2>4
      <3> QED
        BY <1>1, <2>2, <3>1, ForgottenAfterN
    <2> QED
      BY <2>3, <2>4
  <1> QED
    BY <1>2, <1>3, <1>6 DEF ForgottenLate

\* A message without an id is acted on every time and leaves the ring alone.
LEMMA BlankKeepsInv ==
  ASSUME FilterInv, SeenEmpty, taken' = Append(taken, Blank)
  PROVE  RingInOrder' /\ ForgottenLate' /\ HandledOncePerWindow'
  <1>1. /\ taken \in Seq(Messages) /\ RingInOrder /\ ForgottenLate /\ HandledOncePerWindow
        /\ Blank \in Messages /\ Blank \notin Ids /\ TypeOK
    BY ConstantsAssumption DEF FilterInv, Messages, IInv
  <1>2. ids' = ids /\ set' = set /\ next' = next /\ full' = full
    BY DEF SeenEmpty
  <1>3. /\ DOMAIN taken' = 1..(Len(taken) + 1)
        /\ Len(taken) \in Nat /\ DOMAIN taken = 1..Len(taken)
        /\ \A i \in DOMAIN taken : taken'[i] = taken[i]
        /\ taken'[Len(taken) + 1] = Blank
        /\ \A i \in DOMAIN taken : ActedSince(i)' = ActedSince(i)
    BY <1>1, SinceAppended
  <1>4. HandledOncePerWindow'
    BY <1>1, WindowAppended
  <1>5. ForgottenLate'
    BY <1>1, <1>2, <1>3 DEF ForgottenLate
  <1>6. MemoryInOrder' <=> RingInOrder'
    <2>1. TypeOK' => (RingInOrder' <=> MemoryInOrder')
      BY RingIsMemory, PTL
    <2> QED
      BY <1>1, <1>2, <2>1, UnclaimedIInv DEF FilterInv, IInv, SeenEmpty, Answers
  <1>7. MemoryInOrder'
    <2>1. Size' = Size /\ Memory' = Memory /\ MemoryInOrder
      BY <1>1, <1>2, RingIsMemory DEF Size, Memory, Slot, Oldest
    <2>2. \A k \in 1..Size : Memory[k] \in set /\ Memory[k] # Blank
      <3>1. Len(Memory) = Size
        BY <1>1, SlotsFilled DEF MemoryIsRing
      <3> QED
        BY <1>1, <3>1, RememberedIsSet DEF FilterInv, TypeOK
    <2> SUFFICES ASSUME NEW i \in DOMAIN taken', NEW k \in 1..Size, NEW l \in 1..Size,
                        k < l, taken'[i] = Memory[k]
                 PROVE  Memory[l] \in ActedSince(i)'
      BY <2>1 DEF MemoryInOrder
    <2>3. i \in DOMAIN taken /\ taken'[i] = taken[i]
      BY <1>3, <2>2
    <2> QED
      BY <1>3, <2>1, <2>3 DEF MemoryInOrder
  <1> QED
    BY <1>4, <1>5, <1>6, <1>7

LEMMA UnaskedKeepsInv ==
  ASSUME FilterInv, UNCHANGED <<ids, set, next, full>>, taken' = taken
  PROVE  RingInOrder' /\ ForgottenLate' /\ HandledOncePerWindow'
  <1> USE DEF FilterInv
  <1>1. HandledOncePerWindow'
    BY DEF HandledOncePerWindow
  <1>2. \A i \in DOMAIN taken : ActedSince(i)' = ActedSince(i)
    BY DEF ActedSince
  <1>3. ForgottenLate'
    BY <1>2 DEF ForgottenLate
  <1>4. RingInOrder'
    BY <1>2 DEF RingInOrder, Slot, Oldest
  <1> QED
    BY <1>1, <1>3, <1>4
-----------------------------------------------------------------------------
(* The goroutines: whatever a step does to one, its message is one Twitch  *)
(* sent.                                                                   *)

IsHand(r) == /\ r = [pc |-> r.pc, msg |-> r.msg, at |-> r.at, rest |-> r.rest]
             /\ r.msg \in Messages

LEMMA HandMoves ==
  ASSUME NEW r, IsHand(r), NEW pc, NEW at, NEW rest
  PROVE  /\ IsHand([r EXCEPT !.pc = pc])
         /\ IsHand([[r EXCEPT !.pc = pc] EXCEPT !.at = at])
         /\ IsHand([[r EXCEPT !.pc = pc] EXCEPT !.rest = rest])
  <1>1. PICK a, b, c, d : r = [pc |-> a, msg |-> b, at |-> c, rest |-> d] /\ b \in Messages
    BY DEF IsHand
  <1>2. [r EXCEPT !.pc = pc] = [pc |-> pc, msg |-> b, at |-> c, rest |-> d]
    BY <1>1
  <1>3. PICK q : q = [pc |-> pc, msg |-> b, at |-> c, rest |-> d]
    OBVIOUS
  <1>4. [q EXCEPT !.at = at] = [pc |-> pc, msg |-> b, at |-> at, rest |-> d]
    BY <1>3
  <1>5. [q EXCEPT !.rest = rest] = [pc |-> pc, msg |-> b, at |-> c, rest |-> rest]
    BY <1>3
  <1> QED
    BY <1>1, <1>2, <1>3, <1>4, <1>5 DEF IsHand

LEMMA HandStep ==
  ASSUME HandsKnow, NEW g \in Goroutines, NEW r, IsHand(r), hand' = [hand EXCEPT ![g] = r]
  PROVE  HandsKnow'
  <1>1. hand' = [h \in Goroutines |-> IF h = g THEN r ELSE hand[h]]
    BY DEF HandsKnow
  <1>2. \A h \in Goroutines : IsHand(hand'[h])
    BY <1>1 DEF HandsKnow, IsHand
  <1>3. hand' = [h \in Goroutines |-> hand'[h]]
    BY <1>1
  <1> QED
    BY <1>2, <1>3 DEF HandsKnow, IsHand

LEMMA IdleHand ==
  /\ IsHand(Idle)
  /\ \A m \in Messages : IsHand([Idle EXCEPT !.pc = "dedupe", !.msg = m])
  <1>1. PICK q : q = Idle
    OBVIOUS
  <1>2. q = [pc |-> "idle", msg |-> Blank, at |-> 0, rest |-> << >>]
    BY <1>1 DEF Idle
  <1>3. IsHand(q)
    BY <1>2 DEF IsHand, Messages
  <1>4. ASSUME NEW m \in Messages
        PROVE  IsHand([q EXCEPT !.pc = "dedupe", !.msg = m])
    <2>1. PICK p : p = [pc |-> "dedupe", msg |-> Blank, at |-> 0, rest |-> << >>]
      OBVIOUS
    <2>2. [q EXCEPT !.pc = "dedupe"] = p
      BY <1>2, <2>1
    <2>3. [q EXCEPT !.pc = "dedupe", !.msg = m] = [p EXCEPT !.msg = m]
      BY <2>2
    <2>4. [p EXCEPT !.msg = m] = [pc |-> "dedupe", msg |-> m, at |-> 0, rest |-> << >>]
      BY <2>1
    <2> QED
      BY <2>3, <2>4 DEF IsHand
  <1> QED
    BY <1>1, <1>3, <1>4

LEMMA HandEnds ==
  ASSUME HandsKnow, NEW g \in Goroutines, Ends(g)
  PROVE  HandsKnow'
  BY IdleHand, HandStep DEF Ends

LEMMA HandGoes ==
  ASSUME HandsKnow, NEW g \in Goroutines, NEW pc, Goes(g, pc)
  PROVE  HandsKnow'
  <1>1. PICK r : r = hand[g] /\ IsHand(r)
    BY DEF HandsKnow, IsHand
  <1>2. hand' = [hand EXCEPT ![g] = [r EXCEPT !.pc = pc]]
    BY <1>1 DEF HandsKnow, Goes
  <1> QED
    BY <1>1, <1>2, HandMoves, HandStep

LEMMA HandDelivers ==
  ASSUME HandsKnow, NEW g \in Goroutines, NEW m \in Messages, Deliver(g, m)
  PROVE  HandsKnow'
  <1>1. hand' = [hand EXCEPT ![g] = [Idle EXCEPT !.pc = "dedupe", !.msg = m]]
    BY DEF Deliver
  <1> QED
    BY <1>1, IdleHand, HandStep

\* The list is read, the chatter searched in it and taken out.
LEMMA HandIndexes ==
  ASSUME HandsKnow, NEW g \in Goroutines, Index(g)
  PROVE  HandsKnow'
  <1>1. PICK r : r = hand[g] /\ IsHand(r)
    BY DEF HandsKnow, IsHand
  <1>2. PICK at : at = SelectInSeq(list, LAMBDA c : c = Writer(g))
    OBVIOUS
  <1>3. hand' = [hand EXCEPT ![g] = [[r EXCEPT !.pc = "delete"] EXCEPT !.at = at]]
    <2>1. hand' = [hand EXCEPT ![g] = [@ EXCEPT !.pc = "delete", !.at = at]]
      BY <1>2 DEF Index
    <2> QED
      BY <1>1, <2>1 DEF HandsKnow
  <1> QED
    BY <1>1, <1>3, HandMoves, HandStep

LEMMA HandDeletes ==
  ASSUME HandsKnow, NEW g \in Goroutines, Delete(g)
  PROVE  HandsKnow'
  <1>1. PICK r : r = hand[g] /\ IsHand(r)
    BY DEF HandsKnow, IsHand
  <1>2. CASE up'
    <2>1. PICK rest : rest = RemoveAt(list, hand[g].at)
      OBVIOUS
    <2>2. hand' = [hand EXCEPT ![g] = [@ EXCEPT !.pc = "store", !.rest = rest]]
      BY <1>2, <2>1, Zenon DEF Delete
    <2>3. hand' = [hand EXCEPT ![g] = [[r EXCEPT !.pc = "store"] EXCEPT !.rest = rest]]
      BY <1>1, <2>2 DEF HandsKnow
    <2> QED
      BY <1>1, <2>3, HandMoves, HandStep
  <1>3. CASE ~up'
    <2>1. Ends(g)
      BY <1>3, Zenon DEF Delete
    <2> QED
      BY <2>1, HandEnds
  <1> QED
    BY <1>2, <1>3
-----------------------------------------------------------------------------
(* The steps.  Only a question to the filter touches what the invariant is *)
(* about; the other steps of the chat, its commands and the dashboard      *)
(* leave the ring and the messages acted on alone.                         *)

RestsFilter == UNCHANGED <<cache, taken>> /\ HandsKnow'

LEMMA RestKeepsInv ==
  ASSUME FilterInv, RestsFilter
  PROVE  FilterInv'
  <1>1. UNCHANGED <<ids, set, next, full, answer>> /\ taken' = taken
    BY DEF RestsFilter, cache
  <1>2. IInv'
    BY <1>1, UnclaimedIInv DEF FilterInv, IInv, TypeOK
  <1> QED
    BY <1>1, <1>2, UnaskedKeepsInv DEF FilterInv, RestsFilter

LEMMA AskKeepsInv ==
  ASSUME FilterInv, NEW g \in Goroutines, Ask(g)
  PROVE  FilterInv' /\ [Next]_vars
  <1>1. PICK m \in Messages : m = hand[g].msg
    BY DEF FilterInv, HandsKnow
  <1>2. HandsKnow'
    <2>1. Ends(g) \/ Goes(g, "contains")
      BY <1>1 DEF Ask, AskUnless
    <2> QED
      BY <2>1, HandEnds, HandGoes DEF FilterInv
  <1>3. CASE m # Blank /\ SeenDuplicate(m) /\ taken' = taken
    <2>1. m \in Ids
      BY <1>1, <1>3 DEF Messages
    <2>2. IInv' /\ Next
      BY <1>3, <2>1, UnclaimedIInv DEF FilterInv, SeenDuplicate, Answers, Next
    <2> QED
      BY <1>2, <1>3, <2>2, UnaskedKeepsInv DEF FilterInv, SeenDuplicate
  <1>4. CASE m # Blank /\ SeenNew(m) /\ taken' = Append(taken, m)
    <2>1. m \in Ids
      BY <1>1, <1>4 DEF Messages
    <2>2. IInv' /\ Next
      BY <1>4, <2>1, SeenNewIInv DEF FilterInv, Next
    <2> QED
      BY <1>1, <1>2, <1>4, <2>1, <2>2, ClaimKeepsInv DEF FilterInv
  <1>5. CASE m = Blank /\ SeenEmpty /\ taken' = Append(taken, m)
    <2>1. IInv' /\ Next
      BY <1>5, UnclaimedIInv DEF FilterInv, SeenEmpty, Answers, Next
    <2> QED
      BY <1>1, <1>2, <1>5, <2>1, BlankKeepsInv DEF FilterInv
  <1> QED
    BY <1>1, <1>3, <1>4, <1>5 DEF Ask, AskUnless

\* The other steps of a message's goroutine.
LEMMA GoroutineRests ==
  ASSUME HandsKnow, NEW g \in Goroutines
  PROVE  /\ \A m \in Messages : Deliver(g, m) => RestsFilter
         /\ IsListed(g) => RestsFilter
         /\ Shout(g) \/ Index(g) \/ Delete(g) \/ Store(g) => RestsFilter
  <1>1. ASSUME NEW m \in Messages, Deliver(g, m) PROVE RestsFilter
    BY <1>1, HandDelivers DEF RestsFilter, Deliver
  <1>2. ASSUME IsListed(g) PROVE RestsFilter
    BY <1>2, HandEnds, HandGoes DEF RestsFilter, IsListed
  <1>3. ASSUME Shout(g) PROVE RestsFilter
    BY <1>3, HandGoes DEF RestsFilter, Shout
  <1>4. ASSUME Index(g) PROVE RestsFilter
    <2>1. UNCHANGED <<cache, taken>>
      BY <1>4 DEF Index
    <2> QED
      BY <1>4, <2>1, HandIndexes DEF RestsFilter
  <1>5. ASSUME Delete(g) PROVE RestsFilter
    <2>1. UNCHANGED <<cache, taken>>
      BY <1>5 DEF Delete
    <2> QED
      BY <1>5, <2>1, HandDeletes DEF RestsFilter
  <1>6. ASSUME Store(g) PROVE RestsFilter
    BY <1>6, HandEnds DEF RestsFilter, Store
  <1> QED
    BY <1>1, <1>2, <1>3, <1>4, <1>5, <1>6

LEMMA SameHands == HandsKnow /\ UNCHANGED <<cache, taken, hand>> => RestsFilter
  BY DEF HandsKnow, RestsFilter

LEMMA ListRests ==
  ASSUME HandsKnow, ListStep
  PROVE  RestsFilter
  <1>1. UNCHANGED <<cache, taken, hand>>
    BY DEF ListStep, MapFault, GoLive, Query, QueryFor, Assign, Stamp
  <1> QED
    BY <1>1, SameHands

LEMMA RestIsStutter == RestsFilter => [Next]_vars
  BY DEF RestsFilter, cache, vars

\* The requests of the commands and of the dashboard, and what core-api does with them.
LEMMA CallsRest ==
  ASSUME NEW c, Counting(c) \/ Stalking(c) \/ Promoting(c) \/ Fails(c)
  PROVE  UNCHANGED chatVars
  <1> USE DEF Finds, Inserts, Saves, SavesImage, Deletes, Elsewhere
  <1>1. CASE Counting(c)
    BY <1>1 DEF Counting, FindScore, InsertScore, SaveScore, SaveScoreAgain, SaveAgainAs,
                FindLurker, InsertLurker, SaveLurker, BakeBread
  <1>2. CASE Stalking(c)
    BY <1>2 DEF Stalking, GetTarget, SetFinds, SetFindsWith, SetInserts, SetSaves, LastFinds,
                LastSaves, UnsetFinds, UnsetDeletes
  <1>3. CASE Promoting(c)
    BY <1>3 DEF Promoting, CreatePromo, EditFinds, EditAs, EditSaves, DropFinds, DropDeletes,
                UpdateFinds, UpdateSaves, RemoveDeletes
  <1>4. CASE Fails(c)
    BY <1>4 DEF Fails
  <1> QED
    BY <1>1, <1>2, <1>3, <1>4

LEMMA CommandRests ==
  ASSUME HandsKnow, CommandNext
  PROVE  RestsFilter \/ \E g \in Goroutines : Ask(g)
  <1>0. UNCHANGED chatVars => RestsFilter
    BY SameHands DEF chatVars
  <1>1. ASSUME NEW g \in Goroutines, NEW m \in Messages, DeliverScript(g, m) PROVE RestsFilter
    BY <1>1, GoroutineRests DEF DeliverScript
  <1>2. ASSUME NEW g \in Goroutines, AskScript(g) PROVE Ask(g)
    BY <1>2 DEF AskScript
  <1>3. ASSUME NEW g \in Goroutines, Dispatch(g) \/ Remember(g) PROVE RestsFilter
    BY <1>0, <1>3 DEF Dispatch, Remember
  <1>4. ASSUME NEW g \in Goroutines, Finish(g) PROVE RestsFilter
    <2>1. IsListed(g) \/ (Ends(g) /\ UNCHANGED <<cache, taken>>)
      BY <1>4 DEF Finish
    <2> QED
      BY <2>1, GoroutineRests, HandEnds DEF RestsFilter
  <1>5. ASSUME NEW g \in Goroutines, Shout(g) \/ Index(g) \/ Delete(g) \/ Store(g) PROVE RestsFilter
    BY <1>5, GoroutineRests
  <1>6. ASSUME NEW c, Replied(c) \/ TimesOut(c) PROVE RestsFilter
    BY <1>0, <1>6 DEF Replied, TimesOut
  <1>7. ASSUME NEW c, InstallTarget(c) \/ HydrateLast(c) \/ Quote(c) \/ SetApplies(c) \/ UnsetApplies(c)
        PROVE  RestsFilter
    BY <1>0, <1>7 DEF InstallTarget, HydrateLast, Quote, SetApplies, UnsetApplies, Holds
  <1>8. ASSUME NEW c, Counting(c) \/ Stalking(c) \/ Promoting(c) \/ Fails(c) PROVE RestsFilter
    BY <1>0, <1>8, CallsRest
  <1>9. ASSUME NEW o, Dashboard(o) PROVE RestsFilter
    BY <1>0, <1>9 DEF Dashboard
  <1> QED
    BY <1>1, <1>2, <1>3, <1>4, <1>5, <1>6, <1>7, <1>8, <1>9, ListRests DEF CommandNext

LEMMA InitFilterInv ==
  ASSUME Init, hand = [g \in Goroutines |-> Idle], taken = << >>
  PROVE  FilterInv
  <1>1. IInv
    BY InitIInv
  <1>2. HandsKnow
    BY IdleHand DEF HandsKnow, IsHand
  <1>3. taken \in Seq(Messages) /\ DOMAIN taken = {}
    OBVIOUS
  <1> QED
    BY <1>1, <1>2, <1>3 DEF FilterInv, RingInOrder, ForgottenLate, HandledOncePerWindow

\* What the ring and the messages acted on are to each other, for any ring, messages and
\* goroutines: behind a message's slot is only what was acted on since it.
THEOREM FilterInductive == CommandSpec => []FilterInv /\ Spec
  <1>1. CommandInit => FilterInv /\ Init
    <2> SUFFICES ASSUME CommandInit PROVE FilterInv /\ Init
      OBVIOUS
    <2>1. Boots
      BY DEF CommandInit, ChatInit, ChatInitShouted
    <2> QED
      BY <2>1, InitFilterInv DEF Boots
  <1>2. FilterInv /\ [CommandNext]_commandVars => FilterInv' /\ [Next]_vars
    <2> SUFFICES ASSUME FilterInv, [CommandNext]_commandVars PROVE FilterInv' /\ [Next]_vars
      OBVIOUS
    <2>1. CASE CommandNext
      BY <2>1, CommandRests, AskKeepsInv, RestKeepsInv, RestIsStutter DEF FilterInv
    <2>2. CASE UNCHANGED commandVars
      BY <2>2, SameHands, RestKeepsInv, RestIsStutter DEF FilterInv, commandVars, chatVars
    <2> QED
      BY <2>1, <2>2
  <1> QED
    BY <1>1, <1>2, PTL DEF CommandSpec, Spec

\* The same of the chat alone, from either of its beginnings.
THEOREM ChatFilterInductive == ChatSpec => []FilterInv /\ Spec
  <1>1. ChatInit => FilterInv /\ Init
    BY InitFilterInv DEF ChatInit, Boots
  <1>2. FilterInv /\ [ChatNext]_chatVars => FilterInv' /\ [Next]_vars
    <2> SUFFICES ASSUME FilterInv, [ChatNext]_chatVars PROVE FilterInv' /\ [Next]_vars
      OBVIOUS
    <2>1. CASE ChatNext
      BY <2>1, GoroutineRests, ListRests, AskKeepsInv, RestKeepsInv, RestIsStutter
         DEF FilterInv, ChatNext
    <2>2. CASE UNCHANGED chatVars
      BY <2>2, SameHands, RestKeepsInv, RestIsStutter DEF FilterInv, chatVars
    <2> QED
      BY <2>1, <2>2
  <1> QED
    BY <1>1, <1>2, PTL DEF ChatSpec, Spec

\* "drops Twitch EventSub retries ... so command handlers do not run twice": for any ring, any
\* messages, however their deliveries overlap and repeat and whatever else the bot and its
\* dashboard do, a message is acted on again only when N others have been since.
THEOREM HandledOnce == CommandSpec => []HandledOncePerWindow
  <1>1. FilterInv => HandledOncePerWindow
    BY DEF FilterInv
  <1> QED
    BY FilterInductive, <1>1, PTL

\* And of the chat without its commands.
THEOREM ChatHandledOnce == ChatSpec => []HandledOncePerWindow
  <1>1. FilterInv => HandledOncePerWindow
    BY DEF FilterInv
  <1> QED
    BY ChatFilterInductive, <1>1, PTL

\* In the bot at work, too, the filter answers as a memory of the last N claims would.
THEOREM BotsFilterRemembers == CommandSpec => ImplementsRecentIDs
  BY FilterInductive, CacheRefinesRecentIDs, PTL
-----------------------------------------------------------------------------
(* The rows and the requests about them: what core-api writes is a row of  *)
(* its table (CallsKnow), and what a request holds of a row is what the    *)
(* table still says while no write of another kind was under way           *)
(* (PromoKnow, WatchKnow).                                                 *)

LEMMA KeysApart ==
  /\ Stalk # Promo /\ \A x, y : <<x, y>> # Stalk /\ <<x, y>> # Promo
  /\ Counters \cap Stalks = {} /\ Counters \cap Promos = {} /\ Stalks \cap Promos = {}
  BY DEF Stalk, Promo, Counters, Stalks, Promos

\* Which rows a request is about.
LEMMA KeyOf ==
  ASSUME NEW o
  PROVE  /\ Key(o) = Stalk <=> o.op \in Stalks
         /\ Key(o) = Promo <=> o.op \notin Counters \cup Stalks
  BY KeysApart DEF Key

LEMMA RowRecsGrow ==
  ASSUME NEW k, NEW n \in Nat, NEW r \in RowRecs(k, n)
  PROVE  r \in RowRecs(k, n + 1)
  BY DEF RowRecs

LEMMA RowRecsId ==
  ASSUME NEW k, NEW n \in Nat, NEW r \in RowRecs(k, n)
  PROVE  r.id \in 1..n /\ r # NoRow
  BY DEF RowRecs, NoRow

LEMMA StalkRecs ==
  ASSUME NEW n \in Nat, NEW r \in RowRecs(Stalk, n)
  PROVE  /\ r = [id |-> r.id, target |-> r.target, last |-> r.last]
         /\ r.id \in 1..n /\ r.target \in Targets /\ r.last \in Messages \cup {None}
         /\ r.last # None => Author[r.last] = r.target
  <1>1. r \in {q \in [id : 1..n, target : Targets, last : Messages \cup {None}] :
                 q.last # None => Author[q.last] = q.target}
    <2>1. RowRecs(Stalk, n) = {q \in [id : 1..n, target : Targets, last : Messages \cup {None}] :
                 q.last # None => Author[q.last] = q.target}
      BY KeysApart DEF RowRecs
    <2> QED
      BY <2>1
  <1> QED
    BY <1>1

LEMMA PromoRecs ==
  ASSUME NEW n \in Nat, NEW r \in RowRecs(Promo, n)
  PROVE  /\ r = [id |-> r.id, enabled |-> r.enabled]
         /\ r.id \in 1..n /\ r.enabled \in BOOLEAN
  BY KeysApart DEF RowRecs

LEMMA RowWritten ==
  ASSUME NEW k, NEW r, rows' = Put(rows, k, r)
  PROVE  /\ RowOf(k)' = r /\ \A j : j # k => RowOf(j)' = RowOf(j)
         /\ DOMAIN rows' = DOMAIN rows \cup {k}
         /\ rows'[k] = r /\ \A j \in DOMAIN rows : j # k => rows'[j] = rows[j]
  BY DEF RowOf, Put

LEMMA RowDeleted ==
  ASSUME NEW k, rows' = Restrict(rows, DOMAIN rows \ {k})
  PROVE  /\ RowOf(k)' = NoRow /\ \A j : j # k => RowOf(j)' = RowOf(j)
         /\ DOMAIN rows' = DOMAIN rows \ {k}
         /\ \A j \in DOMAIN rows' : rows'[j] = rows[j]
  BY DEF RowOf, Restrict

Fields(o) == o = [op |-> o.op, who |-> o.who, arg |-> o.arg, pc |-> o.pc, row |-> o.row]
LEMMA FieldsMove ==
  ASSUME NEW o, Fields(o), NEW pc, NEW row
  PROVE  /\ [[o EXCEPT !.pc = pc] EXCEPT !.row = row]
              = [op |-> o.op, who |-> o.who, arg |-> o.arg, pc |-> pc, row |-> row]
         /\ [o EXCEPT !.pc = pc]
              = [op |-> o.op, who |-> o.who, arg |-> o.arg, pc |-> pc, row |-> o.row]
  <1>1. PICK a, b, c, d, e : o = [op |-> a, who |-> b, arg |-> c, pc |-> d, row |-> e]
    BY DEF Fields
  <1>2. PICK q : q = [op |-> a, who |-> b, arg |-> c, pc |-> pc, row |-> e]
    OBVIOUS
  <1>3. [o EXCEPT !.pc = pc] = q
    BY <1>1, <1>2
  <1>4. [q EXCEPT !.row = row] = [op |-> a, who |-> b, arg |-> c, pc |-> pc, row |-> row]
    BY <1>2
  <1> QED
    BY <1>1, <1>2, <1>3, <1>4

\* The request c moved on, and all others are as they were.
MovesTo(c, pc, row) ==
  /\ DOMAIN calls' = IF pc \in {"done", "error"} /\ c \notin Waiting THEN DOMAIN calls \ {c}
                     ELSE DOMAIN calls
  /\ \A d \in DOMAIN calls' :
       calls'[d] = IF d # c THEN calls[d]
                   ELSE [op |-> calls[c].op, who |-> calls[c].who, arg |-> calls[c].arg,
                         pc |-> pc, row |-> row]

LEMMA CallMoved ==
  ASSUME NEW c \in DOMAIN calls, Fields(calls[c]), NEW pc, NEW row, calls' = Moved(c, pc, row)
  PROVE  MovesTo(c, pc, row)
  <1>1. CASE pc \in {"done", "error"} /\ c \notin Waiting
    BY <1>1 DEF Moved, Over, Restrict, MovesTo
  <1>2. CASE ~(pc \in {"done", "error"} /\ c \notin Waiting)
    <2>1. PICK o : o = calls[c] /\ Fields(o)
      OBVIOUS
    <2>2. calls' = [calls EXCEPT ![c] = [[o EXCEPT !.pc = pc] EXCEPT !.row = row]]
      BY <1>2, <2>1 DEF Moved
    <2>3. PICK r : r = [op |-> calls[c].op, who |-> calls[c].who, arg |-> calls[c].arg,
                        pc |-> pc, row |-> row]
      OBVIOUS
    <2>4. calls' = [calls EXCEPT ![c] = r]
      <3>1. [[o EXCEPT !.pc = pc] EXCEPT !.row = row] = r
        BY <2>1, <2>3, FieldsMove, Zenon
      <3> QED
        BY <2>2, <3>1
    <2> QED
      BY <1>2, <2>3, <2>4 DEF MovesTo
  <1> QED
    BY <1>1, <1>2

LEMMA CallOver ==
  ASSUME NEW c, calls' = Over(c)
  PROVE  DOMAIN calls' = DOMAIN calls \ {c} /\ \A d \in DOMAIN calls' : calls'[d] = calls[d]
  BY DEF Over, Restrict

LEMMA CallSent ==
  ASSUME NEW c, NEW o, calls' = Sent(c, o)
  PROVE  /\ DOMAIN calls' = DOMAIN calls \cup {c}
         /\ calls'[c] = [op |-> o.op, who |-> o.who, arg |-> o.arg, pc |-> First(o.op),
                         row |-> IF c = "dashboard" THEN RowOf(Key(o)) ELSE NoRow]
         /\ \A d \in DOMAIN calls : d # c => calls'[d] = calls[d]
  BY DEF Sent, Put

-----------------------------------------------------------------------------
\* What a step of core-api does to the request c.
Serves(c, pc, image) ==
  /\ AtCore(c) /\ calls' = Moved(c, pc, image)
  /\ UNCHANGED <<says, asks, todo, watch, quoted, met>>
  /\ nextId' \in {nextId, nextId + 1}
  /\ \A j \in DOMAIN rows' : rows'[j] \in RowRecs(j, nextId' - 1)
  /\ \A j : j # Key(calls[c]) => RowOf(j)' = RowOf(j)
  /\ pc \in {"save", "again", "hydrate"} => image \in RowRecs(Key(calls[c]), nextId' - 1)
  /\ calls[c].op = "get" => image = NoRow \/ image \in RowRecs(Stalk, nextId' - 1)

LEMMA RowKnown ==
  ASSUME CallsKnow, NEW k
  PROVE  /\ nextId - 1 \in Nat /\ nextId \in Nat
         /\ RowOf(k) # NoRow => RowOf(k) \in RowRecs(k, nextId - 1) /\ k \in DOMAIN rows
         /\ RowOf(k) # NoRow => RowOf(k).id \in 1..(nextId - 1)
         /\ RowOf(k) = NoRow => RowOf(k).id = 0 /\ k \notin DOMAIN rows
  <1>1. nextId - 1 \in Nat /\ nextId \in Nat
    BY DEF CallsKnow
  <1>2. CASE k \in DOMAIN rows
    <2>1. RowOf(k) = rows[k] /\ rows[k] \in RowRecs(k, nextId - 1)
      BY <1>2 DEF RowOf, CallsKnow
    <2>2. RowOf(k).id \in 1..(nextId - 1) /\ RowOf(k) # NoRow
      BY <1>1, <2>1, RowRecsId
    <2> QED
      BY <1>1, <1>2, <2>1, <2>2
  <1>3. CASE k \notin DOMAIN rows
    <2>1. RowOf(k) = NoRow
      BY <1>3 DEF RowOf
    <2> QED
      BY <1>1, <1>3, <2>1 DEF NoRow
  <1> QED
    BY <1>2, <1>3

LEMMA QuietServes ==
  ASSUME CallsKnow, NEW c \in DOMAIN calls, AtCore(c), NEW pc, NEW image,
         UNCHANGED <<tables, says, asks, todo, watch, quoted, met>>,
         calls' = Moved(c, pc, image),
         pc \in {"save", "again", "hydrate"} => image \in RowRecs(Key(calls[c]), nextId - 1),
         calls[c].op = "get" => image = NoRow \/ image \in RowRecs(Stalk, nextId - 1)
  PROVE  Serves(c, pc, image)
  BY DEF Serves, tables, CallsKnow, RowOf

LEMMA PutServes ==
  ASSUME CallsKnow, NEW c \in DOMAIN calls, AtCore(c), NEW pc, NEW image, NEW row,
         UNCHANGED <<says, asks, todo, watch, quoted, met>>,
         nextId' \in {nextId, nextId + 1}, row \in RowRecs(Key(calls[c]), nextId' - 1),
         rows' = Put(rows, Key(calls[c]), row), calls' = Moved(c, pc, image),
         pc \in {"save", "again", "hydrate"} => image \in RowRecs(Key(calls[c]), nextId' - 1),
         calls[c].op # "get"
  PROVE  Serves(c, pc, image)
  <1>1. PICK k : k = Key(calls[c])
    OBVIOUS
  <1>2. /\ \A j : j # k => RowOf(j)' = RowOf(j)
        /\ DOMAIN rows' = DOMAIN rows \cup {k}
        /\ rows'[k] = row /\ \A j \in DOMAIN rows : j # k => rows'[j] = rows[j]
    BY <1>1, RowWritten
  <1>3. ASSUME NEW j \in DOMAIN rows', j # k PROVE rows'[j] \in RowRecs(j, nextId' - 1)
    <2>1. rows'[j] = rows[j] /\ rows[j] \in RowRecs(j, nextId - 1) /\ nextId \in Nat \ {0}
      BY <1>2, <1>3 DEF CallsKnow
    <2>2. rows[j] \in RowRecs(j, (nextId - 1) + 1) /\ (nextId - 1) + 1 = nextId
      <3>1. PICK n : n = nextId - 1 /\ n \in Nat
        BY <2>1
      <3>2. rows[j] \in RowRecs(j, n + 1)
        BY <2>1, <3>1, RowRecsGrow
      <3>3. n + 1 = nextId
        BY <2>1, <3>1
      <3> QED
        BY <3>1, <3>2, <3>3
    <2>3. CASE nextId' = nextId
      BY <2>1, <2>3
    <2>4. CASE nextId' = nextId + 1
      <3>1. nextId' - 1 = nextId
        BY <2>1, <2>4
      <3>2. rows[j] \in RowRecs(j, nextId)
        BY <2>2, Zenon
      <3> QED
        BY <2>1, <3>1, <3>2, Zenon
    <2> QED
      BY <2>3, <2>4
  <1> QED
    BY <1>1, <1>2, <1>3 DEF Serves

LEMMA InsertServes ==
  ASSUME CallsKnow, NEW c \in DOMAIN calls, NEW op, op # "get", NEW pc, NEW row, NEW image,
         Inserts(c, op, pc, row, image), row \in RowRecs(Key(calls[c]), nextId),
         pc \in {"save", "again", "hydrate"} => image \in RowRecs(Key(calls[c]), nextId)
  PROVE  \E p, i : Serves(c, p, i)
  <1>1. AtCore(c) /\ calls[c].op = op /\ UNCHANGED <<says, asks, todo, watch, quoted, met>>
    BY DEF Inserts, At, AtCore, Elsewhere
  <1>2. CASE Row(c) = NoRow
    <2>1. /\ rows' = Put(rows, Key(calls[c]), row) /\ nextId' = nextId + 1
          /\ calls' = Moved(c, pc, image) /\ nextId' - 1 = nextId
      BY <1>2 DEF Inserts, CallsKnow
    <2>2. Serves(c, pc, image)
      BY <1>1, <2>1, PutServes
    <2> QED
      BY <2>2
  <1>3. CASE Row(c) # NoRow
    <2>1. Serves(c, "error", NoRow)
      BY <1>1, <1>3, QuietServes DEF Inserts
    <2> QED
      BY <2>1
  <1> QED
    BY <1>2, <1>3

LEMMA SaveServes ==
  ASSUME CallsKnow, NEW c \in DOMAIN calls, NEW pc, NEW image,
         AtCore(c), calls[c].op # "get", SavesImage(c, pc, image),
         image \in RowRecs(Key(calls[c]), nextId - 1)
  PROVE  \E p, i : Serves(c, p, i)
  <1>1. UNCHANGED <<nextId, says, asks, todo, watch, quoted, met>>
    BY DEF SavesImage, Elsewhere
  <1>2. CASE Row(c).id = image.id
    <2>1. rows' = Put(rows, Key(calls[c]), image) /\ calls' = Moved(c, pc, image)
      BY <1>2 DEF SavesImage
    <2>2. Serves(c, pc, image)
      BY <1>1, <2>1, PutServes
    <2> QED
      BY <2>2
  <1>3. CASE Row(c).id # image.id
    <2>1. Serves(c, "error", NoRow)
      BY <1>1, <1>3, QuietServes DEF SavesImage, tables
    <2> QED
      BY <2>1
  <1> QED
    BY <1>2, <1>3

LEMMA DeleteServes ==
  ASSUME CallsKnow, NEW c \in DOMAIN calls, NEW op, op # "get", Deletes(c, op)
  PROVE  Serves(c, "done", NoRow)
  <1>1. AtCore(c) /\ calls[c].op = op /\ UNCHANGED <<nextId, says, asks, todo, watch, quoted, met>>
    BY DEF Deletes, At, AtCore, Elsewhere
  <1>2. CASE rows' = rows
    BY <1>1, <1>2, QuietServes DEF Deletes, tables
  <1>3. CASE rows' = Restrict(rows, DOMAIN rows \ {Key(calls[c])})
    <2>1. PICK k : k = Key(calls[c])
      OBVIOUS
    <2>2. /\ \A j : j # k => RowOf(j)' = RowOf(j)
          /\ DOMAIN rows' \subseteq DOMAIN rows /\ \A j \in DOMAIN rows' : rows'[j] = rows[j]
      BY <1>3, <2>1, RowDeleted
    <2> QED
      BY <1>1, <2>1, <2>2 DEF Serves, Deletes, CallsKnow
  <1> QED
    BY <1>2, <1>3 DEF Deletes

\* What was found, or inserted, and is counted up.
LEMMA CountRecs ==
  ASSUME NEW k, k # Stalk, k # Promo, NEW n \in Nat
  PROVE  /\ \A r \in RowRecs(k, n) : Counted(r) \in RowRecs(k, n) /\ Counted(r).id = r.id
         /\ \A i \in 1..n, m \in Nat : [id |-> i, count |-> m] \in RowRecs(k, n)
  BY DEF RowRecs, Counted

LEMMA CountingServes ==
  ASSUME CallsKnow, NEW c \in DOMAIN calls, Counting(c)
  PROVE  /\ \E p, i : Serves(c, p, i)
         /\ calls[c].op \in Counters /\ paused' = paused
  <1>1. calls[c].op \in Counters /\ paused' = paused /\ calls[c].op # "get"
    BY DEF Counting, FindScore, InsertScore, SaveScore, SaveScoreAgain, SaveAgainAs, FindLurker,
           InsertLurker, SaveLurker, BakeBread, Finds, Inserts, Saves, At, Counters
  <1>k. PICK k : k = Key(calls[c]) /\ k # Stalk /\ k # Promo
    BY <1>1, KeyOf, KeysApart
  <1>n. nextId \in Nat /\ nextId - 1 \in Nat
    BY RowKnown
  <1>2. \A n \in Nat : \A r \in RowRecs(k, n) : Counted(r) \in RowRecs(k, n)
    BY <1>k, CountRecs
  <1>3. ASSUME NEW op, At(c, op, "find"), UNCHANGED <<tables, paused, watch, quoted, Elsewhere>>,
               calls' = IF Row(c) = NoRow THEN Moved(c, "insert", NoRow)
                        ELSE Moved(c, "save", Counted(Row(c)))
        PROVE  \E p, i : Serves(c, p, i)
    <2>1. AtCore(c) /\ UNCHANGED <<tables, says, asks, todo, watch, quoted, met>>
      BY <1>3 DEF At, AtCore, Elsewhere
    <2>2. CASE Row(c) = NoRow
      <3>1. Serves(c, "insert", NoRow)
        BY <1>1, <1>3, <2>1, <2>2, QuietServes
      <3> QED
        BY <3>1
    <2>3. CASE Row(c) # NoRow
      <3>1. Counted(Row(c)) \in RowRecs(k, nextId - 1)
        BY <1>k, <1>n, <1>2, <2>3, RowKnown DEF Row
      <3>2. Serves(c, "save", Counted(Row(c)))
        BY <1>1, <1>k, <1>3, <2>1, <2>3, <3>1, QuietServes
      <3> QED
        BY <3>2
    <2> QED
      BY <2>2, <2>3
  <1>4. CASE FindScore(c) \/ FindLurker(c)
    <2>1. PICK op : /\ At(c, op, "find") /\ UNCHANGED <<tables, paused, watch, quoted, Elsewhere>>
                    /\ calls' = IF Row(c) = NoRow THEN Moved(c, "insert", NoRow)
                                ELSE Moved(c, "save", Counted(Row(c)))
      <3>1. CASE FindScore(c)
        BY <3>1 DEF FindScore, Finds
      <3>2. CASE FindLurker(c)
        BY <3>2 DEF FindLurker, Finds
      <3> QED
        BY <1>4, <3>1, <3>2
    <2> QED
      BY <1>1, <1>3, <2>1
  <1>5. CASE InsertScore(c) \/ InsertLurker(c)
    <2>1. PICK op : op # "get" /\ Inserts(c, op, "save", NewCount(0), NewCount(1))
      BY <1>5 DEF InsertScore, InsertLurker
    <2>2. NewCount(0) \in RowRecs(k, nextId) /\ NewCount(1) \in RowRecs(k, nextId)
      <3>1. nextId \in 1..nextId
        BY DEF CallsKnow
      <3> QED
        BY <1>k, <1>n, <3>1, CountRecs DEF NewCount
    <2> QED
      BY <1>1, <1>k, <2>1, <2>2, InsertServes
  <1>6. CASE SaveScore(c) \/ SaveLurker(c) \/ SaveScoreAgain(c)
    <2>1. /\ calls[c].pc \in {"save", "again"} /\ AtCore(c)
          /\ \E pc : SavesImage(c, pc, calls[c].row)
      BY <1>6 DEF SaveScore, SaveLurker, SaveScoreAgain, SaveAgainAs, Saves, Same, At, AtCore
    <2>2. calls[c].row \in RowRecs(Key(calls[c]), nextId - 1)
      BY <2>1 DEF CallsKnow, IsCall
    <2> QED
      BY <1>1, <2>1, <2>2, SaveServes
  <1>7. CASE BakeBread(c)
    <2>1. PICK row : row = IF Row(c) = NoRow THEN NewCount(1) ELSE Counted(Row(c))
      OBVIOUS
    <2>2. row \in RowRecs(k, nextId)
      <3>1. nextId \in 1..nextId
        BY DEF CallsKnow
      <3>2. CASE Row(c) = NoRow
        BY <1>k, <1>n, <2>1, <3>1, <3>2, CountRecs DEF NewCount
      <3>3. CASE Row(c) # NoRow
        <4>1. Counted(Row(c)) \in RowRecs(k, nextId - 1)
          BY <1>k, <1>n, <1>2, <3>3, RowKnown DEF Row
        <4>2. Counted(Row(c)) \in RowRecs(k, (nextId - 1) + 1) /\ (nextId - 1) + 1 = nextId
          BY <1>n, <4>1, RowRecsGrow
        <4> QED
          BY <2>1, <3>3, <4>2
      <3> QED
        BY <3>2, <3>3
    <2>3. AtCore(c) /\ nextId' = nextId + 1 /\ nextId' - 1 = nextId
          /\ UNCHANGED <<says, asks, todo, watch, quoted, met>>
      BY <1>7, <1>n DEF BakeBread, At, AtCore, Elsewhere
    <2>4. rows' = Put(rows, Key(calls[c]), row) /\ calls' = Moved(c, "done", NoRow)
      BY <1>7, <2>1 DEF BakeBread
    <2>5. Serves(c, "done", NoRow)
      BY <1>1, <1>k, <2>2, <2>3, <2>4, PutServes
    <2> QED
      BY <1>1, <2>5
  <1> QED
    BY <1>1, <1>4, <1>5, <1>6, <1>7 DEF Counting

\* What a service found is kept, changed, for the row it will save.
FindsImage(c, op, absent, present, image) ==
  /\ At(c, op, "find")
  /\ calls' = IF Row(c) = NoRow THEN Moved(c, absent, NoRow) ELSE Moved(c, present, image)
  /\ UNCHANGED <<tables, paused, watch, quoted, Elsewhere>>

LEMMA FindsServes ==
  ASSUME CallsKnow, NEW c \in DOMAIN calls, NEW op, NEW absent, NEW present, NEW image,
         FindsImage(c, op, absent, present, image), absent \notin {"save", "again", "hydrate"},
         Row(c) # NoRow => image \in RowRecs(Key(calls[c]), nextId - 1)
  PROVE  \E p, i : Serves(c, p, i)
  <1>1. /\ AtCore(c) /\ calls[c].op = op
        /\ UNCHANGED <<tables, says, asks, todo, watch, quoted, met>>
    BY DEF FindsImage, At, AtCore, Elsewhere
  <1>2. op = "get" => Key(calls[c]) = Stalk
    BY <1>1, KeyOf DEF Stalks
  <1>3. CASE Row(c) = NoRow
    <2>1. Serves(c, absent, NoRow)
      BY <1>1, <1>3, QuietServes DEF FindsImage
    <2> QED
      BY <2>1
  <1>4. CASE Row(c) # NoRow
    <2>1. Serves(c, present, image)
      BY <1>1, <1>2, <1>4, QuietServes DEF FindsImage
    <2> QED
      BY <2>1
  <1> QED
    BY <1>3, <1>4

\* The images a target's row is given.
LEMMA StalkRecOf ==
  ASSUME NEW n \in Nat, NEW i \in 1..n, NEW t \in Targets, NEW l \in Messages \cup {None},
         l # None => Author[l] = t
  PROVE  [id |-> i, target |-> t, last |-> l] \in RowRecs(Stalk, n)
  <1>1. RowRecs(Stalk, n) = {q \in [id : 1..n, target : Targets, last : Messages \cup {None}] :
                               q.last # None => Author[q.last] = q.target}
    BY KeysApart DEF RowRecs
  <1> QED
    BY <1>1

SetImage(row, t) == [row EXCEPT !.target = t, !.last = IF row.target = t THEN @ ELSE None]
LEMMA StalkImages ==
  ASSUME NEW n \in Nat, NEW r \in RowRecs(Stalk, n)
  PROVE  /\ \A t \in Targets : SetImage(r, t) \in RowRecs(Stalk, n)
         /\ \A m \in Messages : Author[m] = r.target => [r EXCEPT !.last = m] \in RowRecs(Stalk, n)
         /\ \A m : [r EXCEPT !.last = m].target = r.target /\ [r EXCEPT !.last = m].id = r.id
  <1>1. PICK i, t, l : /\ r = [id |-> i, target |-> t, last |-> l]
                       /\ i \in 1..n /\ t \in Targets /\ l \in Messages \cup {None}
                       /\ l # None => Author[l] = t
    <2>1. /\ r = [id |-> r.id, target |-> r.target, last |-> r.last]
          /\ r.id \in 1..n /\ r.target \in Targets /\ r.last \in Messages \cup {None}
          /\ r.last # None => Author[r.last] = r.target
      BY StalkRecs
    <2> QED
      BY <2>1
  <1>2. ASSUME NEW t2 \in Targets PROVE SetImage(r, t2) \in RowRecs(Stalk, n)
    <2>1. PICK l2 : l2 = IF t = t2 THEN l ELSE None
      OBVIOUS
    <2>2. SetImage(r, t2) = [id |-> i, target |-> t2, last |-> l2]
      <3>1. PICK q : q = [id |-> i, target |-> t2, last |-> l]
        OBVIOUS
      <3>2. [r EXCEPT !.target = t2] = q
        BY <1>1, <3>1
      <3>3. r.target = t /\ q.last = l
        BY <1>1, <3>1
      <3>4. SetImage(r, t2) = [q EXCEPT !.last = l2]
        BY <2>1, <3>2, <3>3 DEF SetImage
      <3> QED
        BY <3>1, <3>4
    <2>3. l2 \in Messages \cup {None} /\ (l2 # None => Author[l2] = t2)
      BY <1>1, <2>1
    <2> QED
      BY <1>1, <2>2, <2>3, StalkRecOf
  <1>3. ASSUME NEW m
        PROVE  /\ [r EXCEPT !.last = m] = [id |-> i, target |-> t, last |-> m]
               /\ [r EXCEPT !.last = m].target = r.target /\ [r EXCEPT !.last = m].id = r.id
    BY <1>1
  <1>4. ASSUME NEW m \in Messages, Author[m] = r.target
        PROVE  [r EXCEPT !.last = m] \in RowRecs(Stalk, n)
    <2>1. Author[m] = t
      BY <1>1, <1>4
    <2> QED
      BY <1>1, <1>3, <2>1, StalkRecOf
  <1> QED
    BY <1>2, <1>3, <1>4

LEMMA StalkingServes ==
  ASSUME CallsKnow, NEW c \in DOMAIN calls, Stalking(c)
  PROVE  /\ \E p, i : Serves(c, p, i)
         /\ calls[c].op \in Stalks /\ paused' = paused
  <1>1. calls[c].op \in Stalks /\ paused' = paused /\ Key(calls[c]) = Stalk
    <2>1. calls[c].op \in Stalks /\ paused' = paused
      BY DEF Stalking, GetTarget, SetFinds, SetFindsWith, SetInserts, SetSaves, LastFinds, LastSaves,
             UnsetFinds, UnsetDeletes, Finds, Inserts, Saves, Deletes, At, Stalks
    <2> QED
      BY <2>1, KeyOf
  <1>n. nextId \in Nat /\ nextId - 1 \in Nat
    BY RowKnown
  <1>r. Row(c) # NoRow => Row(c) \in RowRecs(Stalk, nextId - 1)
    BY <1>1, RowKnown DEF Row
  <1>2. CASE GetTarget(c) \/ UnsetFinds(c)
    <2>1. PICK op, pc : FindsImage(c, op, "done", pc, Row(c))
      BY <1>2 DEF GetTarget, UnsetFinds, Finds, FindsImage, Same
    <2> QED
      BY <1>1, <1>r, <2>1, FindsServes
  <1>3. CASE SetFinds(c)
    <2>1. FindsImage(c, "set", "insert", "save", SetImage(Row(c), calls[c].arg))
      BY <1>3 DEF SetFinds, SetFindsWith, Finds, FindsImage, SetImage
    <2>2. calls[c].arg \in Targets
      BY <2>1 DEF FindsImage, At, CallsKnow, IsCall
    <2>3. Row(c) # NoRow => SetImage(Row(c), calls[c].arg) \in RowRecs(Stalk, nextId - 1)
      BY <1>n, <1>r, <2>2, StalkImages
    <2> QED
      BY <1>1, <2>1, <2>3, FindsServes
  <1>4. CASE SetInserts(c)
    <2>1. Inserts(c, "set", "done", NewTarget(calls[c].arg), NoRow)
      BY <1>4 DEF SetInserts
    <2>2. calls[c].arg \in Targets /\ nextId \in 1..nextId
      BY <2>1 DEF Inserts, At, CallsKnow, IsCall
    <2>3. NewTarget(calls[c].arg) \in RowRecs(Key(calls[c]), nextId)
      BY <1>1, <1>n, <2>2, StalkRecOf DEF NewTarget
    <2> QED
      BY <1>1, <2>1, <2>3, InsertServes
  <1>5. CASE SetSaves(c) \/ LastSaves(c)
    <2>1. /\ calls[c].pc = "save" /\ AtCore(c) /\ calls[c].op # "get"
          /\ SavesImage(c, "done", calls[c].row)
      BY <1>5 DEF SetSaves, LastSaves, Saves, At, AtCore
    <2>2. calls[c].row \in RowRecs(Key(calls[c]), nextId - 1)
      BY <2>1 DEF CallsKnow, IsCall
    <2> QED
      BY <1>1, <2>1, <2>2, SaveServes
  <1>6. CASE LastFinds(c)
    <2>1. PICK pc : pc = IF Row(c).target = calls[c].who THEN "save" ELSE "done"
      OBVIOUS
    <2>2. FindsImage(c, "last", "done", pc, [Row(c) EXCEPT !.last = calls[c].arg])
      BY <1>6, <2>1 DEF LastFinds, Finds, FindsImage
    <2>3. calls[c].arg \in Messages /\ calls[c].who = Author[calls[c].arg]
      BY <2>2 DEF FindsImage, At, CallsKnow, IsCall
    <2>4. CASE Row(c) = NoRow \/ pc = "save"
      <3>1. Row(c) # NoRow => [Row(c) EXCEPT !.last = calls[c].arg] \in RowRecs(Stalk, nextId - 1)
        BY <1>n, <1>r, <2>1, <2>3, <2>4, StalkImages
      <3> QED
        BY <1>1, <2>2, <3>1, FindsServes
    <2>5. CASE Row(c) # NoRow /\ pc # "save"
      <3>1. /\ calls' = Moved(c, "done", [Row(c) EXCEPT !.last = calls[c].arg])
            /\ AtCore(c) /\ calls[c].op # "get"
            /\ UNCHANGED <<tables, says, asks, todo, watch, quoted, met>>
        BY <2>1, <2>2, <2>5 DEF FindsImage, At, AtCore, Elsewhere
      <3>2. Serves(c, "done", [Row(c) EXCEPT !.last = calls[c].arg])
        BY <3>1, QuietServes
      <3> QED
        BY <1>1, <3>2
    <2> QED
      BY <2>4, <2>5
  <1>7. CASE UnsetDeletes(c)
    <2>1. Serves(c, "done", NoRow)
      BY <1>7, DeleteServes DEF UnsetDeletes
    <2> QED
      BY <1>1, <2>1
  <1> QED
    BY <1>1, <1>2, <1>3, <1>4, <1>5, <1>6, <1>7 DEF Stalking

LEMMA PromoRecOf ==
  ASSUME NEW n \in Nat, NEW i \in 1..n, NEW e \in BOOLEAN
  PROVE  [id |-> i, enabled |-> e] \in RowRecs(Promo, n)
  <1>1. RowRecs(Promo, n) = [id : 1..n, enabled : BOOLEAN]
    BY KeysApart DEF RowRecs
  <1> QED
    BY <1>1

LEMMA PromoImage ==
  ASSUME NEW n \in Nat, NEW r \in RowRecs(Promo, n), NEW e \in BOOLEAN
  PROVE  /\ [r EXCEPT !.enabled = e] \in RowRecs(Promo, n)
         /\ [r EXCEPT !.enabled = e].enabled = e /\ [r EXCEPT !.enabled = e].id = r.id
  <1>1. RowRecs(Promo, n) = [id : 1..n, enabled : BOOLEAN]
    BY KeysApart DEF RowRecs
  <1> QED
    BY <1>1

LEMMA PromotingServes ==
  ASSUME CallsKnow, NEW c \in DOMAIN calls, Promoting(c)
  PROVE  /\ \E p, i : Serves(c, p, i)
         /\ calls[c].op \in Promos /\ Key(calls[c]) = Promo /\ paused' \in BOOLEAN
  <1>1. calls[c].op \in Promos /\ Key(calls[c]) = Promo /\ calls[c].op # "get"
    <2>1. calls[c].op \in Promos
      BY DEF Promoting, CreatePromo, EditFinds, EditAs, EditSaves, DropFinds, DropDeletes, UpdateFinds,
             UpdateSaves, RemoveDeletes, Finds, Inserts, Saves, Deletes, At, Promos
    <2> QED
      BY <2>1, KeyOf, KeysApart DEF Promos
  <1>n. nextId \in Nat /\ nextId - 1 \in Nat
    BY RowKnown
  <1>p. paused' \in BOOLEAN
    <2>1. CASE CreatePromo(c)
      BY <2>1 DEF CreatePromo, CallsKnow
    <2>2. CASE UpdateSaves(c)
      <3>1. calls[c].arg \in BOOLEAN
        BY <2>2 DEF UpdateSaves, At, CallsKnow, IsCall
      <3> QED
        BY <2>2, <3>1 DEF UpdateSaves, CallsKnow
    <2>3. CASE ~CreatePromo(c) /\ ~UpdateSaves(c)
      <3>1. paused' = paused
        BY <2>3 DEF Promoting, EditFinds, EditAs, EditSaves, DropFinds, DropDeletes, UpdateFinds,
                    RemoveDeletes, Finds, Saves, Deletes
      <3> QED
        BY <3>1 DEF CallsKnow
    <2> QED
      BY <2>1, <2>2, <2>3
  <1>r. Row(c) # NoRow => Row(c) \in RowRecs(Promo, nextId - 1)
    BY <1>1, RowKnown DEF Row
  <1>2. CASE EditFinds(c) \/ DropFinds(c)
    <2>1. PICK op, pc : FindsImage(c, op, "done", pc, Row(c))
      BY <1>2 DEF EditFinds, EditAs, DropFinds, Finds, FindsImage, Same
    <2> QED
      BY <1>1, <1>p, <1>r, <2>1, FindsServes
  <1>3. CASE UpdateFinds(c)
    <2>1. PICK pc : FindsImage(c, "update", "error", pc, [Row(c) EXCEPT !.enabled = calls[c].arg])
      BY <1>3 DEF UpdateFinds, Finds, FindsImage
    <2>2. calls[c].arg \in BOOLEAN
      BY <2>1 DEF FindsImage, At, CallsKnow, IsCall
    <2>3. Row(c) # NoRow => [Row(c) EXCEPT !.enabled = calls[c].arg] \in RowRecs(Promo, nextId - 1)
      BY <1>n, <1>r, <2>2, PromoImage
    <2> QED
      BY <1>1, <1>p, <2>1, <2>3, FindsServes
  <1>4. CASE CreatePromo(c)
    <2>1. PICK row : /\ row = [id |-> nextId, enabled |-> TRUE]
                     /\ Inserts(c, "create", "done", row, NoRow)
      BY <1>4 DEF CreatePromo
    <2>2. nextId \in 1..nextId
      BY DEF CallsKnow
    <2>3. row \in RowRecs(Key(calls[c]), nextId)
      BY <1>1, <1>n, <2>1, <2>2, PromoRecOf
    <2> QED
      BY <1>1, <1>p, <2>1, <2>3, InsertServes
  <1>5. CASE EditSaves(c) \/ UpdateSaves(c)
    <2>1. /\ calls[c].pc = "save" /\ AtCore(c) /\ SavesImage(c, "done", calls[c].row)
      BY <1>5 DEF EditSaves, UpdateSaves, Saves, At, AtCore
    <2>2. calls[c].row \in RowRecs(Key(calls[c]), nextId - 1)
      BY <2>1 DEF CallsKnow, IsCall
    <2> QED
      BY <1>1, <1>p, <2>1, <2>2, SaveServes
  <1>6. CASE DropDeletes(c) \/ RemoveDeletes(c)
    <2>1. PICK op : op # "get" /\ Deletes(c, op)
      BY <1>6 DEF DropDeletes, RemoveDeletes
    <2>2. Serves(c, "done", NoRow)
      BY <2>1, DeleteServes
    <2> QED
      BY <1>1, <1>p, <2>2
  <1> QED
    BY <1>2, <1>3, <1>4, <1>5, <1>6 DEF Promoting

LEMMA FailsServes ==
  ASSUME CallsKnow, NEW c \in DOMAIN calls, Fails(c)
  PROVE  /\ \E p : p \in {"again", "done", "error"} /\ Serves(c, p, calls[c].row)
         /\ UNCHANGED <<tables, paused>>
         /\ calls[c].op = "fish" \/ calls' = Moved(c, "error", calls[c].row)
  <1>1. PICK p : /\ p \in IF At(c, "fish", "save") THEN {"again", "done"}
                          ELSE IF At(c, "fish", "again") THEN {"done"} ELSE {"error"}
                 /\ calls' = Moved(c, p, calls[c].row)
    BY DEF Fails
  <1>2. AtCore(c) /\ UNCHANGED <<tables, says, asks, todo, watch, quoted, met, paused>>
    BY DEF Fails
  <1>3. p \in {"save", "again", "hydrate"} => calls[c].row \in RowRecs(Key(calls[c]), nextId - 1)
    BY <1>1 DEF At, CallsKnow, IsCall
  <1>4. calls[c].op = "get" => calls[c].row = NoRow \/ calls[c].row \in RowRecs(Stalk, nextId - 1)
    BY DEF CallsKnow, IsCall
  <1>5. Serves(c, p, calls[c].row)
    BY <1>1, <1>2, <1>3, <1>4, QuietServes
  <1>6. calls[c].op = "fish" \/ p = "error"
    BY <1>1 DEF At
  <1>7. p \in {"again", "done", "error"}
    BY <1>1
  <1> QED
    BY <1>1, <1>2, <1>5, <1>6, <1>7

Keeps(o, n) ==
  /\ Fields(o)
  /\ o.op = "last" => o.arg \in Messages /\ o.who = Author[o.arg]
  /\ o.op = "set" => o.arg \in Targets
  /\ o.op = "update" => o.arg \in BOOLEAN
  /\ o.pc \in {"save", "again", "hydrate"} => o.row \in RowRecs(Key(o), n)
  /\ o.op = "get" => o.row = NoRow \/ o.row \in RowRecs(Stalk, n)

LEMMA KeepsGrow ==
  ASSUME NEW o, NEW n \in Nat, Keeps(o, n)
  PROVE  Keeps(o, n + 1)
  BY RowRecsGrow DEF Keeps

LEMMA KeepsCall ==
  ASSUME NEW o, nextId \in Nat
  PROVE  IsCall(o) <=> Keeps(o, nextId - 1)
  BY DEF IsCall, Keeps, Fields

\* What all steps leave true of the rows and of the requests.
LEMMA NextKnow ==
  ASSUME CallsKnow, nextId' \in {nextId, nextId + 1},
         \A k \in DOMAIN rows' : rows'[k] \in RowRecs(k, nextId' - 1),
         \A d \in DOMAIN calls' : (\E e \in DOMAIN calls : calls'[d] = calls[e])
                                    \/ Keeps(calls'[d], nextId' - 1),
         says' = says, asks' \subseteq asks, todo' \in [Goroutines -> Seq(Said)],
         watch' \in [target : Targets, last : Messages \cup {None}], paused' \in BOOLEAN
  PROVE  CallsKnow'
  <1>1. nextId \in Nat \ {0} /\ nextId' \in Nat \ {0} /\ nextId - 1 \in Nat /\ nextId' \in Nat
    BY DEF CallsKnow
  <1>2. ASSUME NEW d \in DOMAIN calls' PROVE IsCall(calls[d])'
    <2>1. PICK o : o = calls'[d]
      OBVIOUS
    <2>2. Keeps(o, nextId' - 1)
      <3>1. CASE Keeps(calls'[d], nextId' - 1)
        BY <2>1, <3>1
      <3>2. CASE \E e \in DOMAIN calls : calls'[d] = calls[e]
        <4>1. IsCall(o)
          BY <2>1, <3>2 DEF CallsKnow
        <4>2. PICK n : n = nextId - 1 /\ n \in Nat /\ Keeps(o, n)
          BY <1>1, <4>1, KeepsCall
        <4>3. Keeps(o, n + 1)
          BY <4>2, KeepsGrow
        <4>4. nextId' - 1 = n \/ nextId' - 1 = n + 1
          <5>1. CASE nextId' = nextId
            BY <4>2, <5>1
          <5>2. CASE nextId' = nextId + 1
            BY <1>1, <4>2, <5>2
          <5> QED
            BY <5>1, <5>2
        <4> QED
          BY <4>2, <4>3, <4>4
      <3> QED
        BY <3>1, <3>2
    <2>3. IsCall(calls[d])' <=> Keeps(o, nextId' - 1)
      BY <2>1 DEF IsCall, Keeps, Fields
    <2> QED
      BY <2>2, <2>3
  <1>3. asks' \subseteq OnPage /\ \A m \in DOMAIN says' : says'[m] \in Seq(Said)
    BY DEF CallsKnow
  <1> QED
    BY <1>1, <1>2, <1>3 DEF CallsKnow

LEMMA KnownFields ==
  ASSUME CallsKnow, NEW c \in DOMAIN calls
  PROVE  Fields(calls[c])
  BY DEF CallsKnow, IsCall, Fields

LEMMA ServesKnow ==
  ASSUME CallsKnow, NEW c \in DOMAIN calls, NEW pc, NEW image, Serves(c, pc, image),
         paused' \in BOOLEAN
  PROVE  CallsKnow'
  <1>1. MovesTo(c, pc, image)
    BY KnownFields, CallMoved DEF Serves
  <1>2. DOMAIN calls' \subseteq DOMAIN calls /\ \A d \in DOMAIN calls' : d # c => calls'[d] = calls[d]
    BY <1>1 DEF MovesTo
  <1>3. ASSUME c \in DOMAIN calls' PROVE Keeps(calls'[c], nextId' - 1)
    <2>1. PICK o : o = calls[c] /\ IsCall(o)
      BY DEF CallsKnow
    <2>2. PICK q : q = calls'[c] /\ q = [op |-> o.op, who |-> o.who, arg |-> o.arg,
                                          pc |-> pc, row |-> image]
      BY <1>1, <1>3, <2>1 DEF MovesTo
    <2>3. /\ q.op = o.op /\ q.who = o.who /\ q.arg = o.arg /\ q.pc = pc /\ q.row = image
          /\ Fields(q)
      BY <2>2 DEF Fields
    <2>4. Key(q) = Key(calls[c])
      BY <2>1, <2>3 DEF Key
    <2>5. /\ pc \in {"save", "again", "hydrate"} => image \in RowRecs(Key(calls[c]), nextId' - 1)
          /\ o.op = "get" => image = NoRow \/ image \in RowRecs(Stalk, nextId' - 1)
      BY <2>1 DEF Serves
    <2>6. /\ o.op = "last" => o.arg \in Messages /\ o.who = Author[o.arg]
          /\ o.op = "set" => o.arg \in Targets
          /\ o.op = "update" => o.arg \in BOOLEAN
      BY <2>1 DEF IsCall
    <2>7. Keeps(q, nextId' - 1)
      BY <2>3, <2>4, <2>5, <2>6 DEF Keeps
    <2> QED
      BY <2>2, <2>7
  <1>4. \A d \in DOMAIN calls' : (\E e \in DOMAIN calls : calls'[d] = calls[e])
                                    \/ Keeps(calls'[d], nextId' - 1)
    BY <1>2, <1>3
  <1> QED
    BY <1>4, NextKnow DEF Serves, CallsKnow

\* A request sent.
LEMMA SentKnow ==
  ASSUME CallsKnow, NEW c, NEW o, calls' = Sent(c, o), UNCHANGED <<tables, says, paused>>,
         o.op = "last" => o.arg \in Messages /\ o.who = Author[o.arg],
         o.op = "set" => o.arg \in Targets, o.op = "update" => o.arg \in BOOLEAN,
         asks' \subseteq asks, todo' \in [Goroutines -> Seq(Said)],
         watch' \in [target : Targets, last : Messages \cup {None}]
  PROVE  CallsKnow'
  <1>1. PICK row : row = IF c = "dashboard" THEN RowOf(Key(o)) ELSE NoRow
    OBVIOUS
  <1>2. PICK q : q = [op |-> o.op, who |-> o.who, arg |-> o.arg, pc |-> First(o.op), row |-> row]
    OBVIOUS
  <1>3. /\ DOMAIN calls' = DOMAIN calls \cup {c} /\ calls'[c] = q
        /\ \A d \in DOMAIN calls : d # c => calls'[d] = calls[d]
    BY <1>1, <1>2, CallSent
  <1>4. /\ q.op = o.op /\ q.who = o.who /\ q.arg = o.arg /\ q.pc = First(o.op) /\ q.row = row
        /\ Fields(q) /\ Key(q) = Key(o)
    BY <1>2 DEF Fields, Key
  <1>5. q.pc \notin {"save", "again", "hydrate"}
    BY <1>4 DEF First
  <1>6. o.op = "get" => row = NoRow \/ row \in RowRecs(Stalk, nextId - 1)
    <2>1. o.op = "get" => Key(o) = Stalk
      BY KeyOf DEF Stalks
    <2> QED
      BY <1>1, <2>1, RowKnown
  <1>7. nextId' = nextId /\ rows' = rows
    BY DEF tables
  <1>8. Keeps(q, nextId' - 1)
    BY <1>4, <1>5, <1>6, <1>7 DEF Keeps
  <1>9. \A d \in DOMAIN calls' : (\E e \in DOMAIN calls : calls'[d] = calls[e])
                                    \/ Keeps(calls'[d], nextId' - 1)
    BY <1>3, <1>8
  <1> QED
    BY <1>7, <1>9, NextKnow DEF CallsKnow

\* Requests that end, or move on with the row they had.
LEMMA EndKnow ==
  ASSUME CallsKnow, NEW c \in DOMAIN calls, UNCHANGED <<tables, says, asks, todo, paused>>,
         watch' \in [target : Targets, last : Messages \cup {None}],
         calls' = Over(c)
           \/ \E pc : /\ pc \notin {"save", "again"} /\ calls' = Moved(c, pc, calls[c].row)
                      /\ pc = "hydrate" => calls[c].op = "get" /\ calls[c].row # NoRow
  PROVE  CallsKnow'
  <1>1. \A d \in DOMAIN calls' : (\E e \in DOMAIN calls : calls'[d] = calls[e])
                                    \/ Keeps(calls'[d], nextId' - 1)
    <2>1. CASE calls' = Over(c)
      BY <2>1, CallOver
    <2>2. ASSUME calls' # Over(c)
          PROVE  \A d \in DOMAIN calls' : (\E e \in DOMAIN calls : calls'[d] = calls[e])
                                      \/ Keeps(calls'[d], nextId' - 1)
      <3>0. PICK pc : /\ pc \notin {"save", "again"} /\ calls' = Moved(c, pc, calls[c].row)
                      /\ pc = "hydrate" => calls[c].op = "get" /\ calls[c].row # NoRow
        BY <2>2
      <3>1. PICK o : o = calls[c] /\ IsCall(o)
        BY DEF CallsKnow
      <3>2. PICK q : q = [op |-> o.op, who |-> o.who, arg |-> o.arg, pc |-> pc, row |-> o.row]
        OBVIOUS
      <3>3. \A d \in DOMAIN calls' : d \in DOMAIN calls /\ calls'[d] = IF d # c THEN calls[d] ELSE q
        <4>1. MovesTo(c, pc, o.row)
          BY <3>0, <3>1, KnownFields, CallMoved
        <4> QED
          BY <3>1, <3>2, <4>1 DEF MovesTo
      <3>4. /\ q.op = o.op /\ q.who = o.who /\ q.arg = o.arg /\ q.pc = pc /\ q.row = o.row
            /\ Fields(q)
        BY <3>2 DEF Fields
      <3>5. Keeps(q, nextId - 1)
        <4>1. pc = "hydrate" => Key(q) = Stalk
          BY <3>0, <3>1, <3>4, KeyOf DEF Stalks
        <4> QED
          BY <3>0, <3>1, <3>4, <4>1 DEF IsCall, Keeps
      <3>6. nextId' = nextId
        BY DEF tables
      <3> QED
        BY <3>3, <3>5, <3>6
    <2> QED
      BY <2>1, <2>2
  <1> QED
    BY <1>1, NextKnow DEF CallsKnow, tables

LEMMA StutterKnow ==
  ASSUME CallsKnow, UNCHANGED <<says, asks, calls, tables, paused>>,
         todo' \in [Goroutines -> Seq(Said)],
         watch' \in [target : Targets, last : Messages \cup {None}]
  PROVE  CallsKnow'
  <1>1. \A d \in DOMAIN calls' : \E e \in DOMAIN calls : calls'[d] = calls[e]
    OBVIOUS
  <1> QED
    BY <1>1, NextKnow DEF CallsKnow, tables

LEMMA NextCommand ==
  ASSUME CallsKnow, NEW g \in Goroutines, todo[g] # << >>, todo' = [todo EXCEPT ![g] = Tail(@)]
  PROVE  Head(todo[g]) \in Said /\ todo' \in [Goroutines -> Seq(Said)]
  <1>1. todo \in [Goroutines -> Seq(Said)]
    BY DEF CallsKnow
  <1>2. PICK s : s = todo[g] /\ s \in Seq(Said) /\ s # << >>
    BY <1>1
  <1>3. Head(s) \in Said /\ Tail(s) \in Seq(Said)
    BY <1>2
  <1> QED
    BY <1>1, <1>2, <1>3

LEMMA DispatchKnow ==
  ASSUME CallsKnow, NEW g \in Goroutines, Dispatch(g)
  PROVE  CallsKnow'
  <1>1. PICK o : o = Head(todo[g]) /\ o.op # "line"
    BY DEF Dispatch
  <1>2. /\ UNCHANGED <<says, asks, tables, watch, paused>>
        /\ todo[g] # << >> /\ todo' = [todo EXCEPT ![g] = Tail(@)]
    BY DEF Dispatch
  <1>3. o \in Said /\ todo' \in [Goroutines -> Seq(Said)]
    BY <1>1, <1>2, NextCommand
  <1>4. o.op \notin {"last", "update"} /\ o.arg \in Targets
    BY <1>3 DEF Said, Counters
  <1>5. watch' \in [target : Targets, last : Messages \cup {None}]
    BY <1>2 DEF CallsKnow
  <1>6. CASE calls' = calls
    BY <1>2, <1>3, <1>5, <1>6, StutterKnow
  <1>7. CASE calls' = Sent(g, o)
    BY <1>2, <1>3, <1>4, <1>5, <1>7, SentKnow
  <1> QED
    BY <1>1, <1>6, <1>7 DEF Dispatch

LEMMA RememberKnow ==
  ASSUME CallsKnow, HandsKnow, NEW g \in Goroutines, Remember(g)
  PROVE  CallsKnow'
  <1>1. PICK m : m = hand[g].msg /\ m \in Messages
    BY DEF HandsKnow
  <1>2. /\ UNCHANGED <<says, asks, tables, paused>>
        /\ todo[g] # << >> /\ todo' = [todo EXCEPT ![g] = Tail(@)]
    BY DEF Remember
  <1>3. todo' \in [Goroutines -> Seq(Said)]
    BY <1>2, NextCommand
  <1>4. watch' = watch \/ watch' = [watch EXCEPT !.last = m]
    BY <1>1 DEF Remember
  <1>5. watch' \in [target : Targets, last : Messages \cup {None}]
    BY <1>1, <1>4 DEF CallsKnow
  <1>6. PICK o : o = Asks("last", Author[m], m)
    OBVIOUS
  <1>7. o.op = "last" /\ o.arg = m /\ o.who = Author[m]
    BY <1>6 DEF Asks
  <1>8. CASE calls' = calls
    BY <1>2, <1>3, <1>5, <1>8, StutterKnow
  <1>9. CASE calls' = Sent(m, o)
    BY <1>1, <1>2, <1>3, <1>5, <1>7, <1>9, SentKnow
  <1> QED
    BY <1>1, <1>6, <1>8, <1>9 DEF Remember

LEMMA DashboardKnow ==
  ASSUME CallsKnow, NEW o \in asks, Dashboard(o)
  PROVE  CallsKnow'
  <1>1. /\ UNCHANGED <<says, todo, tables, watch, paused>> /\ asks' \subseteq asks
        /\ calls' = Sent("dashboard", o)
    BY DEF Dashboard
  <1>2. o \in OnPage
    BY DEF CallsKnow
  <1>3. o.op # "last" /\ (o.op = "set" => o.arg \in Targets) /\ (o.op = "update" => o.arg \in BOOLEAN)
    BY <1>2 DEF OnPage
  <1> QED
    BY <1>1, <1>3, SentKnow DEF CallsKnow

LEMMA TimesOutKnow ==
  ASSUME CallsKnow, NEW c \in DOMAIN calls, TimesOut(c)
  PROVE  CallsKnow'
  <1>1. PICK o : o = calls[c] /\ IsCall(o) /\ Fields(o)
    BY KnownFields DEF CallsKnow
  <1>2. PICK q : q = [op |-> o.op, who |-> o.who, arg |-> o.arg, pc |-> "error", row |-> o.row]
    OBVIOUS
  <1>3. [o EXCEPT !.pc = "error"] = q
    BY <1>1, <1>2, FieldsMove
  <1>4. /\ "orphan" \notin DOMAIN calls
        /\ calls' = Put([calls EXCEPT ![c].pc = "error"], "orphan", o)
        /\ UNCHANGED <<says, asks, todo, tables, watch, paused>>
    BY <1>1 DEF TimesOut
  <1>5. calls' = Put([calls EXCEPT ![c] = q], "orphan", o)
    BY <1>1, <1>3, <1>4
  <1>6. \A d \in DOMAIN calls' : \/ \E e \in DOMAIN calls : calls'[d] = calls[e]
                                 \/ calls'[d] = q
    BY <1>1, <1>5 DEF Put
  <1>7. /\ q.op = o.op /\ q.who = o.who /\ q.arg = o.arg /\ q.pc = "error" /\ q.row = o.row
        /\ Fields(q)
    BY <1>2 DEF Fields
  <1>8. Keeps(q, nextId - 1)
    BY <1>1, <1>7 DEF IsCall, Keeps
  <1>9. nextId' = nextId
    BY <1>4 DEF tables
  <1>10. \A d \in DOMAIN calls' : (\E e \in DOMAIN calls : calls'[d] = calls[e])
                                     \/ Keeps(calls'[d], nextId' - 1)
    BY <1>6, <1>8, <1>9
  <1> QED
    BY <1>4, <1>10, NextKnow DEF CallsKnow, tables

\* What a caller does with an answer about the target.
Applies(c) == InstallTarget(c) \/ HydrateLast(c) \/ Quote(c) \/ SetApplies(c) \/ UnsetApplies(c)

LEMMA WatchSet ==
  ASSUME CallsKnow
  PROVE  /\ NoWatch \in [target : Targets, last : Messages \cup {None}]
         /\ \A t \in Targets : Watching(t) \in [target : Targets, last : Messages \cup {None}]
         /\ \A l \in Messages \cup {None} :
              [watch EXCEPT !.last = l] \in [target : Targets, last : Messages \cup {None}]
  BY DEF NoWatch, Watching, Targets, CallsKnow

LEMMA AppliesKnow ==
  ASSUME CallsKnow, NEW c \in DOMAIN calls, Applies(c)
  PROVE  CallsKnow'
  <1>1. UNCHANGED <<tables, says, asks, todo, paused>>
    BY DEF Applies, InstallTarget, HydrateLast, Quote, SetApplies, UnsetApplies, Holds
  <1>2. IsCall(calls[c]) /\ watch \in [target : Targets, last : Messages \cup {None}]
    BY DEF CallsKnow
  <1>3. calls[c].op = "get" /\ calls[c].row # NoRow
          => calls[c].row.target \in Targets /\ calls[c].row.last \in Messages \cup {None}
    <2>1. nextId - 1 \in Nat
      BY RowKnown
    <2> QED
      BY <1>2, <2>1, StalkRecs DEF IsCall
  <1>4. \/ calls' = Over(c)
        \/ \E pc : /\ pc \notin {"save", "again"} /\ calls' = Moved(c, pc, calls[c].row)
                   /\ pc = "hydrate" => calls[c].op = "get" /\ calls[c].row # NoRow
    BY DEF At, Applies, InstallTarget, HydrateLast, Quote, SetApplies, UnsetApplies
  <1>5. watch' \in [target : Targets, last : Messages \cup {None}]
    <2>1. CASE InstallTarget(c)
      <3>1. watch' \in {watch, NoWatch} \/ (calls[c].row # NoRow /\ watch' = Watching(calls[c].row.target))
        BY <2>1 DEF InstallTarget
      <3>2. calls[c].op = "get"
        BY <2>1 DEF InstallTarget, At
      <3> QED
        BY <1>2, <1>3, <3>1, <3>2, WatchSet
    <2>2. CASE HydrateLast(c)
      <3>1. watch' = watch \/ watch' = [watch EXCEPT !.last = calls[c].row.last]
        BY <2>2 DEF HydrateLast
      <3>2. calls[c].op = "get" /\ calls[c].row # NoRow
        <4>1. /\ calls[c].op = "get" /\ calls[c].pc = "hydrate"
              /\ calls[c].row \in RowRecs(Key(calls[c]), nextId - 1)
          BY <1>2, <2>2 DEF HydrateLast, At, IsCall
        <4>2. nextId - 1 \in Nat
          BY RowKnown
        <4> QED
          BY <4>1, <4>2, RowRecsId
      <3> QED
        BY <1>2, <1>3, <3>1, <3>2, WatchSet
    <2>3. CASE Quote(c)
      BY <1>2, <2>3 DEF Quote
    <2>4. CASE SetApplies(c)
      BY <1>2, <2>4, WatchSet DEF SetApplies, At, IsCall
    <2>5. CASE UnsetApplies(c)
      BY <2>5, WatchSet DEF UnsetApplies
    <2> QED
      BY <2>1, <2>2, <2>3, <2>4, <2>5 DEF Applies
  <1> QED
    BY <1>1, <1>4, <1>5, EndKnow

LEMMA RepliedKnow ==
  ASSUME CallsKnow, NEW c \in DOMAIN calls, Replied(c)
  PROVE  CallsKnow'
  <1>1. watch' \in [target : Targets, last : Messages \cup {None}]
    BY DEF Replied, CallsKnow
  <1> QED
    BY <1>1, EndKnow DEF Replied, histories

LEMMA ReadKnow ==
  ASSUME CallsKnow, NEW g \in Goroutines, AskScript(g)
  PROVE  CallsKnow'
  <1>1. PICK m : m = hand[g].msg
    OBVIOUS
  <1>2. todo' = todo \/ (m \in DOMAIN says /\ todo' = [todo EXCEPT ![g] = says[m]])
    BY <1>1 DEF AskScript
  <1>3. todo' \in [Goroutines -> Seq(Said)]
    BY <1>2 DEF CallsKnow
  <1>4. UNCHANGED <<says, asks, calls, tables, paused, watch>>
    BY DEF AskScript, histories
  <1>5. watch' \in [target : Targets, last : Messages \cup {None}]
    BY <1>4 DEF CallsKnow
  <1> QED
    BY <1>3, <1>4, <1>5, StutterKnow

\* Every step leaves rows, and images of them, of their table.
LEMMA CommandKnow ==
  ASSUME CallsKnow, HandsKnow, [CommandNext]_commandVars
  PROVE  CallsKnow'
  <1>1. UNCHANGED commandOnly => CallsKnow'
    BY StutterKnow DEF commandOnly, CallsKnow, histories
  <1>2. ASSUME NEW g \in Goroutines,
               (\E m \in Messages : DeliverScript(g, m)) \/ Finish(g)
                 \/ ((Shout(g) \/ Index(g) \/ Delete(g) \/ Store(g)) /\ UNCHANGED commandOnly)
        PROVE  CallsKnow'
    BY <1>1, <1>2 DEF DeliverScript, Finish
  <1>3. ASSUME NEW c \in DOMAIN calls, Counting(c) PROVE CallsKnow'
    <2>1. paused' \in BOOLEAN /\ \E p, i : Serves(c, p, i)
      BY <1>3, CountingServes DEF CallsKnow
    <2> QED
      BY <2>1, ServesKnow
  <1>4. ASSUME NEW c \in DOMAIN calls, Stalking(c) PROVE CallsKnow'
    <2>1. paused' \in BOOLEAN /\ \E p, i : Serves(c, p, i)
      BY <1>4, StalkingServes DEF CallsKnow
    <2> QED
      BY <2>1, ServesKnow
  <1>5. ASSUME NEW c \in DOMAIN calls, Promoting(c) PROVE CallsKnow'
    <2>1. paused' \in BOOLEAN /\ \E p, i : Serves(c, p, i)
      BY <1>5, PromotingServes
    <2> QED
      BY <2>1, ServesKnow
  <1>6. ASSUME NEW c \in DOMAIN calls, Fails(c) PROVE CallsKnow'
    <2>1. paused' \in BOOLEAN /\ \E p, i : Serves(c, p, i)
      BY <1>6, FailsServes DEF CallsKnow
    <2> QED
      BY <2>1, ServesKnow
  <1>7. CASE UNCHANGED commandVars
    BY <1>1, <1>7 DEF commandVars
  <1>8. CASE CommandNext
    BY <1>1, <1>2, <1>3, <1>4, <1>5, <1>6, <1>8, DispatchKnow, RememberKnow, DashboardKnow,
       TimesOutKnow, AppliesKnow, RepliedKnow, ReadKnow DEF CommandNext, Applies
  <1> QED
    BY <1>7, <1>8

LEMMA ShrinkNotBoth ==
  ASSUME NEW k, NEW ops, NotBoth(k, ops), met' = met,
         \A d \in DOMAIN calls' : /\ d \in DOMAIN calls /\ calls'[d].op = calls[d].op
                                  /\ calls'[d].who = calls[d].who
                                  /\ UnderWay(d)' => UnderWay(d)
  PROVE  NotBoth(k, ops)'
  <1> SUFFICES ASSUME Apart(k, ops)',
                      NEW c \in DOMAIN calls', NEW d \in DOMAIN calls',
                      UnderWay(c)', UnderWay(d)', c # d, Key(calls'[c]) = k, Key(calls'[d]) = k
               PROVE  {calls'[c].op, calls'[d].op} # ops
    BY DEF NotBoth
  <1>1. Key(calls[c]) = k /\ Key(calls[d]) = k
    BY DEF Key
  <1>2. Apart(k, ops)
    BY DEF Apart
  <1>3. {calls[c].op, calls[d].op} # ops
    BY <1>1, <1>2 DEF NotBoth
  <1> QED
    BY <1>3

LEMMA MoveNotBoth ==
  ASSUME CallsKnow, NEW k, NEW ops, NotBoth(k, ops), met' = met,
         NEW c \in DOMAIN calls, UnderWay(c), NEW pc, NEW row, calls' = Moved(c, pc, row)
  PROVE  NotBoth(k, ops)'
  <1>1. MovesTo(c, pc, row)
    BY KnownFields, CallMoved
  <1>2. ASSUME NEW d \in DOMAIN calls'
        PROVE  /\ d \in DOMAIN calls /\ calls'[d].op = calls[d].op
               /\ calls'[d].who = calls[d].who
               /\ UnderWay(d)' => UnderWay(d)
    <2>1. d \in DOMAIN calls
      BY <1>1 DEF MovesTo
    <2>2. CASE d = c
      BY <1>1, <2>1, <2>2 DEF MovesTo
    <2>3. CASE d # c
      <3>1. calls'[d] = calls[d]
        BY <1>1, <2>3 DEF MovesTo
      <3> QED
        BY <2>1, <3>1 DEF UnderWay, AtCore
    <2> QED
      BY <2>2, <2>3
  <1> QED
    BY <1>2, ShrinkNotBoth

LEMMA OverNotBoth ==
  ASSUME NEW k, NEW ops, NotBoth(k, ops), met' = met, NEW c, calls' \in {calls, Over(c)}
  PROVE  NotBoth(k, ops)'
  <1>1. ASSUME NEW d \in DOMAIN calls'
        PROVE  d \in DOMAIN calls /\ calls'[d] = calls[d]
    BY CallOver
  <1>2. ASSUME NEW d \in DOMAIN calls'
        PROVE  /\ d \in DOMAIN calls /\ calls'[d].op = calls[d].op
               /\ calls'[d].who = calls[d].who
               /\ UnderWay(d)' => UnderWay(d)
    BY <1>1 DEF UnderWay, AtCore
  <1> QED
    BY <1>2, ShrinkNotBoth

LEMMA SentNotBoth ==
  ASSUME NEW k, NEW ops, NotBoth(k, ops), NEW c, NEW o, calls' = Sent(c, o), met' = Meeting(c, o)
  PROVE  NotBoth(k, ops)'
  <1>1. /\ DOMAIN calls' = DOMAIN calls \cup {c} /\ calls'[c].op = o.op /\ calls'[c].who = o.who
        /\ \A d \in DOMAIN calls : d # c => calls'[d] = calls[d]
    <2>1. PICK row : row = IF c = "dashboard" THEN RowOf(Key(o)) ELSE NoRow
      OBVIOUS
    <2>2. PICK q : q = [op |-> o.op, who |-> o.who, arg |-> o.arg, pc |-> First(o.op), row |-> row]
      OBVIOUS
    <2>3. calls'[c] = q
      BY <2>1, <2>2, CallSent
    <2>4. q.op = o.op /\ q.who = o.who
      BY <2>2
    <2> QED
      BY <2>3, <2>4, CallSent
  <1>2. Key(calls'[c]) = Key(o)
    BY <1>1 DEF Key
  <1>3. ASSUME NEW d \in DOMAIN calls', d # c
        PROVE  d \in DOMAIN calls /\ calls'[d] = calls[d] /\ (UnderWay(d)' => UnderWay(d))
    <2>1. d \in DOMAIN calls /\ calls'[d] = calls[d]
      BY <1>1, <1>3
    <2> QED
      BY <2>1 DEF UnderWay, AtCore
  <1>4. ASSUME NEW d \in DOMAIN calls', d # c, UnderWay(d)', Key(o) = k, Key(calls'[d]) = k
        PROVE  <<k, {o.op, calls'[d].op}>> \in met'
    <2>1. d \in {e \in DOMAIN calls : UnderWay(e) /\ Key(calls[e]) = Key(o)}
      BY <1>3, <1>4
    <2> QED
      BY <1>3, <1>4, <2>1 DEF Meeting
  <1>5. SUFFICES ASSUME Apart(k, ops)',
                        NEW a \in DOMAIN calls', NEW b \in DOMAIN calls',
                        UnderWay(a)', UnderWay(b)', a # b, Key(calls'[a]) = k, Key(calls'[b]) = k
                 PROVE  {calls'[a].op, calls'[b].op} # ops
    BY DEF NotBoth
  <1>6. <<k, ops>> \notin met' /\ Apart(k, ops)
    <2>1. met \subseteq met'
      BY DEF Meeting
    <2> QED
      BY <1>5, <2>1 DEF Apart
  <1>7. CASE a = c
    <2>1. <<k, {o.op, calls'[b].op}>> \in met'
      BY <1>2, <1>4, <1>5, <1>7
    <2> QED
      BY <1>1, <1>6, <1>7, <2>1
  <1>8. CASE b = c
    <2>1. <<k, {o.op, calls'[a].op}>> \in met'
      BY <1>2, <1>4, <1>5, <1>8
    <2>2. {o.op, calls'[a].op} = {calls'[a].op, calls'[b].op}
      BY <1>1, <1>8
    <2> QED
      BY <1>6, <2>1, <2>2
  <1>9. CASE a # c /\ b # c
    <2>1. /\ a \in DOMAIN calls /\ calls'[a] = calls[a] /\ UnderWay(a)
          /\ b \in DOMAIN calls /\ calls'[b] = calls[b] /\ UnderWay(b)
      BY <1>3, <1>5, <1>9
    <2>2. {calls[a].op, calls[b].op} # ops
      BY <1>5, <1>6, <2>1 DEF NotBoth
    <2> QED
      BY <2>1, <2>2
  <1> QED
    BY <1>7, <1>8, <1>9

\* The request a caller gave up on takes its place.
LEMMA TimesOutMoves ==
  ASSUME CallsKnow, NEW c \in DOMAIN calls, TimesOut(c)
  PROVE  /\ DOMAIN calls' = DOMAIN calls \cup {"orphan"} /\ "orphan" \notin DOMAIN calls
         /\ calls'["orphan"] = calls[c] /\ c # "orphan"
         /\ calls'[c] = [op |-> calls[c].op, who |-> calls[c].who, arg |-> calls[c].arg,
                         pc |-> "error", row |-> calls[c].row]
         /\ \A d \in DOMAIN calls : d # c => calls'[d] = calls[d] /\ d # "orphan"
  <1>1. PICK o : o = calls[c] /\ IsCall(o) /\ Fields(o)
    BY KnownFields DEF CallsKnow
  <1>2. PICK q : q = [op |-> o.op, who |-> o.who, arg |-> o.arg, pc |-> "error", row |-> o.row]
    OBVIOUS
  <1>3. [o EXCEPT !.pc = "error"] = q
    BY <1>1, <1>2, FieldsMove
  <1>4. /\ "orphan" \notin DOMAIN calls
        /\ calls' = Put([calls EXCEPT ![c].pc = "error"], "orphan", o)
    BY <1>1 DEF TimesOut
  <1>5. calls' = Put([calls EXCEPT ![c] = q], "orphan", o)
    BY <1>1, <1>3, <1>4
  <1>6. /\ DOMAIN calls' = DOMAIN calls \cup {"orphan"} /\ calls'["orphan"] = o /\ calls'[c] = q
        /\ \A d \in DOMAIN calls : d # c => calls'[d] = calls[d] /\ d # "orphan"
    BY <1>4, <1>5 DEF Put
  <1> QED
    BY <1>1, <1>2, <1>4, <1>6

LEMMA TimesOutNotBoth ==
  ASSUME CallsKnow, NEW k, NEW ops, NotBoth(k, ops), NEW c \in DOMAIN calls, TimesOut(c)
  PROVE  NotBoth(k, ops)'
  <1>1. /\ DOMAIN calls' = DOMAIN calls \cup {"orphan"} /\ "orphan" \notin DOMAIN calls
        /\ calls'["orphan"] = calls[c] /\ c # "orphan" /\ calls'[c].pc = "error"
        /\ \A d \in DOMAIN calls : d # c => calls'[d] = calls[d] /\ d # "orphan"
    <2>1. PICK q : /\ q = [op |-> calls[c].op, who |-> calls[c].who, arg |-> calls[c].arg,
                           pc |-> "error", row |-> calls[c].row]
                   /\ calls'[c] = q
      BY TimesOutMoves
    <2>2. q.pc = "error"
      BY <2>1
    <2> QED
      BY <2>1, <2>2, TimesOutMoves
  <1>2. met' = met /\ UnderWay(c)
    BY DEF TimesOut, UnderWay
  <1> DEFINE was(d) == IF d = "orphan" THEN c ELSE d
  <1>3. ASSUME NEW d \in DOMAIN calls', UnderWay(d)'
        PROVE  was(d) \in DOMAIN calls /\ UnderWay(was(d)) /\ calls'[d] = calls[was(d)] /\ d # c
    <2>1. d # c
      BY <1>1, <1>3 DEF UnderWay, AtCore
    <2>2. was(d) \in DOMAIN calls /\ calls'[d] = calls[was(d)]
      BY <1>1, <2>1
    <2> QED
      BY <1>2, <1>3, <2>1, <2>2 DEF UnderWay, AtCore
  <1>4. SUFFICES ASSUME Apart(k, ops)',
                        NEW a \in DOMAIN calls', NEW b \in DOMAIN calls',
                        UnderWay(a)', UnderWay(b)', a # b, Key(calls'[a]) = k, Key(calls'[b]) = k
                 PROVE  {calls'[a].op, calls'[b].op} # ops
    BY DEF NotBoth
  <1>5. was(a) # was(b)
    BY <1>3, <1>4
  <1>6. Apart(k, ops)
    BY <1>2, <1>4 DEF Apart
  <1>7. PICK e, f : e = was(a) /\ f = was(b)
    OBVIOUS
  <1>8. /\ e \in DOMAIN calls /\ UnderWay(e) /\ calls'[a] = calls[e]
        /\ f \in DOMAIN calls /\ UnderWay(f) /\ calls'[b] = calls[f] /\ e # f
    BY <1>3, <1>4, <1>5, <1>7
  <1>9. {calls[e].op, calls[f].op} # ops
    BY <1>4, <1>6, <1>8 DEF NotBoth
  <1> QED
    BY <1>8, <1>9

\* Which requests have been under way at once is recorded by every step.
LEMMA CommandNotBoth ==
  ASSUME CallsKnow, NEW k, NEW ops, NotBoth(k, ops), [CommandNext]_commandVars
  PROVE  NotBoth(k, ops)'
  <1>1. UNCHANGED <<calls, met>> => NotBoth(k, ops)'
    BY OverNotBoth
  <1>2. UNCHANGED commandOnly => UNCHANGED <<calls, met>>
    BY DEF commandOnly, histories
  <1>3. ASSUME NEW g \in Goroutines,
               \/ (\E m \in Messages : DeliverScript(g, m)) \/ Finish(g) \/ AskScript(g)
               \/ (Shout(g) \/ Index(g) \/ Delete(g) \/ Store(g)) /\ UNCHANGED commandOnly
        PROVE  NotBoth(k, ops)'
    BY <1>1, <1>2, <1>3 DEF DeliverScript, Finish, AskScript, histories
  <1>4. ASSUME NEW c \in DOMAIN calls,
               \E p, i : Serves(c, p, i)
        PROVE  NotBoth(k, ops)'
    BY <1>4, MoveNotBoth DEF Serves, UnderWay
  <1>5. ASSUME NEW c \in DOMAIN calls, Counting(c) \/ Stalking(c) \/ Promoting(c) \/ Fails(c)
        PROVE  NotBoth(k, ops)'
    BY <1>4, <1>5, CountingServes, StalkingServes, PromotingServes, FailsServes
  <1>6. ASSUME NEW g \in Goroutines, Dispatch(g) PROVE NotBoth(k, ops)'
    <2>1. PICK o : o = Head(todo[g])
      OBVIOUS
    <2>2. UNCHANGED <<calls, met>> \/ (calls' = Sent(g, o) /\ met' = Meeting(g, o))
      BY <1>6, <2>1 DEF Dispatch
    <2> QED
      BY <1>1, <2>2, SentNotBoth
  <1>7. ASSUME NEW g \in Goroutines, Remember(g) PROVE NotBoth(k, ops)'
    <2>1. PICK m, o : m = hand[g].msg /\ o = Asks("last", Author[m], m)
      OBVIOUS
    <2>2. UNCHANGED <<calls, met>> \/ (calls' = Sent(m, o) /\ met' = Meeting(m, o))
      BY <1>7, <2>1 DEF Remember
    <2> QED
      BY <1>1, <2>2, SentNotBoth
  <1>8. ASSUME NEW o, Dashboard(o) PROVE NotBoth(k, ops)'
    BY <1>8, SentNotBoth DEF Dashboard
  <1>9. ASSUME NEW c \in DOMAIN calls, Applies(c) \/ Replied(c) PROVE NotBoth(k, ops)'
    <2>1. met' = met
      BY <1>9 DEF Applies, InstallTarget, HydrateLast, Quote, SetApplies, UnsetApplies, Holds,
                  Replied, histories
    <2>2. \/ calls' = Over(c)
          \/ UnderWay(c) /\ \E p, i : calls' = Moved(c, p, i)
      BY <1>9 DEF Applies, InstallTarget, HydrateLast, Quote, SetApplies, UnsetApplies, Replied, At,
                  UnderWay, Stalks
    <2>3. CASE calls' = Over(c)
      BY <2>1, <2>3, OverNotBoth
    <2>4. CASE UnderWay(c) /\ \E p, i : calls' = Moved(c, p, i)
      BY <2>1, <2>4, MoveNotBoth
    <2> QED
      BY <2>2, <2>3, <2>4
  <1>10. CASE UNCHANGED commandVars
    BY <1>1, <1>2, <1>10 DEF commandVars
  <1>11. CASE CommandNext
    BY <1>1, <1>2, <1>3, <1>5, <1>6, <1>7, <1>8, <1>9, <1>11, TimesOutNotBoth
       DEF CommandNext, Applies
  <1> QED
    BY <1>10, <1>11

Edits == {"edit", "update"}

LEMMA PromoStays ==
  ASSUME PromoKnow, NotBoth(Promo, Edits)', met \subseteq met', paused' = paused,
         RowOf(Promo)' = RowOf(Promo),
         \A d \in DOMAIN calls' : calls'[d].op \in Edits /\ calls'[d].pc = "save"
                                    => \E e \in DOMAIN calls : calls'[d] = calls[e]
  PROVE  PromoKnow'
  <1>1. Apart(Promo, Edits)' => Apart(Promo, Edits)
    BY DEF Apart
  <1>2. ASSUME NEW d \in DOMAIN calls', At(d, "update", "save")'
        PROVE  calls'[d].row.enabled = calls'[d].arg
    <2>1. PICK e \in DOMAIN calls : calls'[d] = calls[e]
      BY <1>2 DEF At, Edits
    <2> QED
      BY <1>2, <2>1 DEF At, PromoKnow
  <1>3. ASSUME Apart(Promo, Edits), NEW d \in DOMAIN calls', At(d, "edit", "save")',
               calls'[d].row.id = RowOf(Promo)'.id
        PROVE  calls'[d].row.enabled = RowOf(Promo)'.enabled
    <2>1. PICK e \in DOMAIN calls : calls'[d] = calls[e]
      BY <1>3 DEF At, Edits
    <2> QED
      BY <1>3, <2>1 DEF At, PromoKnow, Edits
  <1>4. PausedSticks'
    BY <1>1 DEF PausedSticks, PromoKnow, Edits
  <1> QED
    BY <1>1, <1>2, <1>3, <1>4 DEF PromoKnow, Edits

LEMMA PromoMoves ==
  ASSUME PromoKnow, NotBoth(Promo, Edits)', met' = met,
         NEW c \in DOMAIN calls, NEW pc, NEW row, MovesTo(c, pc, row),
         calls[c].op = "update" /\ pc = "save" => row.enabled = calls[c].arg,
         Apart(Promo, Edits) /\ calls[c].op = "edit" /\ pc = "save"
           => row.enabled = RowOf(Promo)'.enabled,
         Apart(Promo, Edits) =>
           \A e \in DOMAIN calls : e # c /\ At(e, "edit", "save") /\ calls[e].row.id = RowOf(Promo)'.id
             => calls[e].row.enabled = RowOf(Promo)'.enabled,
         PausedSticks'
  PROVE  PromoKnow'
  <1>1. Apart(Promo, Edits)' => Apart(Promo, Edits)
    BY DEF Apart
  <1>2. PICK q : q = [op |-> calls[c].op, who |-> calls[c].who, arg |-> calls[c].arg,
                      pc |-> pc, row |-> row]
    OBVIOUS
  <1>3. \A d \in DOMAIN calls' : d \in DOMAIN calls /\ calls'[d] = IF d # c THEN calls[d] ELSE q
    BY <1>2 DEF MovesTo
  <1>4. q.op = calls[c].op /\ q.arg = calls[c].arg /\ q.pc = pc /\ q.row = row
    BY <1>2
  <1>5. ASSUME NEW d \in DOMAIN calls', At(d, "update", "save")'
        PROVE  calls'[d].row.enabled = calls'[d].arg
    BY <1>3, <1>4, <1>5 DEF At, PromoKnow
  <1>6. ASSUME Apart(Promo, Edits), NEW d \in DOMAIN calls', At(d, "edit", "save")',
               calls'[d].row.id = RowOf(Promo)'.id
        PROVE  calls'[d].row.enabled = RowOf(Promo)'.enabled
    BY <1>3, <1>4, <1>6 DEF At
  <1> QED
    BY <1>1, <1>5, <1>6 DEF PromoKnow, Edits

LEMMA PromotingKeeps ==
  ASSUME CallsKnow, PromoKnow, NotBoth(Promo, Edits)', NEW c \in DOMAIN calls, Promoting(c)
  PROVE  PromoKnow'
  <1>1. /\ calls[c].op \in Promos /\ Key(calls[c]) = Promo /\ met' = met
        /\ Row(c) = RowOf(Promo) /\ nextId - 1 \in Nat /\ nextId \in Nat
    BY PromotingServes, RowKnown DEF Serves, Row
  <1>2. \A e \in DOMAIN calls : calls[e].pc = "save" /\ calls[e].op \in Edits =>
          calls[e].row \in RowRecs(Promo, nextId - 1) /\ calls[e].row.id \in 1..(nextId - 1)
    <2> TAKE e \in DOMAIN calls
    <2> HAVE calls[e].pc = "save" /\ calls[e].op \in Edits
    <2>1. Key(calls[e]) = Promo
      BY KeyOf DEF Edits, Counters, Stalks
    <2>2. calls[e].row \in RowRecs(Promo, nextId - 1)
      BY <2>1 DEF CallsKnow, IsCall
    <2> QED
      BY <1>1, <2>2, RowRecsId
  <1>3. PausedSticks /\ (Apart(Promo, Edits)' <=> Apart(Promo, Edits))
    BY <1>1 DEF PromoKnow, Apart
  <1>4. ASSUME NEW pc, NEW row, calls' = Moved(c, pc, row)
        PROVE  MovesTo(c, pc, row)
    BY <1>4, KnownFields, CallMoved
  <1>5. ASSUME NEW pc, NEW row, calls' = Moved(c, pc, row), pc # "save", paused' = paused,
               RowOf(Promo)' = RowOf(Promo)
        PROVE  PromoKnow'
    <2>1. PICK q : q = [op |-> calls[c].op, who |-> calls[c].who, arg |-> calls[c].arg,
                        pc |-> pc, row |-> row]
      OBVIOUS
    <2>2. \A d \in DOMAIN calls' : d \in DOMAIN calls /\ calls'[d] = IF d # c THEN calls[d] ELSE q
      BY <1>4, <1>5, <2>1 DEF MovesTo
    <2>3. q.pc # "save"
      BY <1>5, <2>1
    <2> QED
      BY <1>1, <1>5, <2>2, <2>3, PromoStays
  <1>6. rows' = rows => RowOf(Promo)' = RowOf(Promo)
    BY DEF RowOf
  <1>7. CASE CreatePromo(c)
    <2>1. PICK new : /\ new = [id |-> nextId, enabled |-> TRUE]
                     /\ Inserts(c, "create", "done", new, NoRow)
      BY <1>7 DEF CreatePromo
    <2>2. CASE Row(c) # NoRow
      <3>1. rows' = rows /\ paused' = paused /\ calls' = Moved(c, "error", NoRow)
        BY <1>7, <2>1, <2>2 DEF CreatePromo, Inserts, tables
      <3> QED
        BY <1>5, <1>6, <3>1
    <2>3. CASE Row(c) = NoRow
      <3>1. rows' = Put(rows, Promo, new) /\ calls' = Moved(c, "done", NoRow)
        BY <1>1, <2>1, <2>3 DEF Inserts
      <3>2. RowOf(Promo)' = new /\ Promo \in DOMAIN rows' /\ Promo \notin DOMAIN rows
        BY <1>1, <2>3, <3>1, RowWritten, RowKnown
      <3>3. paused' = FALSE
        BY <1>7, <3>2 DEF CreatePromo
      <3>4. new.id = nextId /\ new.enabled = TRUE
        BY <2>1
      <3>5. PausedSticks'
        BY <3>2, <3>3, <3>4 DEF PausedSticks
      <3>6. \A e \in DOMAIN calls : e # c /\ At(e, "edit", "save") => calls[e].row.id # RowOf(Promo)'.id
        BY <1>1, <1>2, <3>2, <3>4 DEF At, Edits
      <3>7. MovesTo(c, "done", NoRow)
        BY <1>4, <3>1
      <3> QED
        BY <1>1, <3>5, <3>6, <3>7, PromoMoves
    <2> QED
      BY <2>2, <2>3
  <1>8. CASE EditFinds(c)
    <2>1. /\ UNCHANGED <<rows, paused>> /\ calls[c].op = "edit"
          /\ calls' = IF Row(c) = NoRow THEN Moved(c, "done", NoRow) ELSE Moved(c, "save", Row(c))
      BY <1>8 DEF EditFinds, EditAs, Finds, Same, tables, At
    <2>2. CASE Row(c) = NoRow
      BY <1>5, <1>6, <2>1, <2>2
    <2>3. CASE Row(c) # NoRow
      <3>1. MovesTo(c, "save", Row(c)) /\ RowOf(Promo)' = RowOf(Promo)
        BY <1>4, <1>6, <2>1, <2>3
      <3>2. Apart(Promo, Edits) =>
              \A e \in DOMAIN calls : At(e, "edit", "save") /\ calls[e].row.id = RowOf(Promo)'.id
                => calls[e].row.enabled = RowOf(Promo)'.enabled
        BY <3>1 DEF PromoKnow, Edits
      <3>3. PausedSticks'
        BY <1>3, <2>1, <3>1 DEF PausedSticks, Edits
      <3> QED
        BY <1>1, <2>1, <3>1, <3>2, <3>3, PromoMoves
    <2> QED
      BY <2>2, <2>3
  <1>9. CASE UpdateFinds(c)
    <2>1. PICK pc : pc = IF Row(c).id = calls[c].row.id THEN "save" ELSE "error"
      OBVIOUS
    <2>2. PICK image : image = [Row(c) EXCEPT !.enabled = calls[c].arg]
      OBVIOUS
    <2>3. /\ UNCHANGED <<rows, paused>> /\ calls[c].op = "update"
          /\ calls' = IF Row(c) = NoRow THEN Moved(c, "error", NoRow) ELSE Moved(c, pc, image)
      BY <1>9, <2>1, <2>2 DEF UpdateFinds, Finds, tables, At
    <2>4. CASE Row(c) = NoRow
      BY <1>5, <1>6, <2>3, <2>4
    <2>5. CASE Row(c) # NoRow
      <3>1. MovesTo(c, pc, image) /\ RowOf(Promo)' = RowOf(Promo)
        BY <1>4, <1>6, <2>3, <2>5
      <3>2. Apart(Promo, Edits) =>
              \A e \in DOMAIN calls : At(e, "edit", "save") /\ calls[e].row.id = RowOf(Promo)'.id
                => calls[e].row.enabled = RowOf(Promo)'.enabled
        BY <3>1 DEF PromoKnow, Edits
      <3>3. PausedSticks'
        BY <1>3, <2>3, <3>1 DEF PausedSticks, Edits
      <3>4. image.enabled = calls[c].arg
        <4>1. PICK n : n = nextId - 1 /\ n \in Nat /\ Row(c) \in RowRecs(Promo, n)
          BY <1>1, <2>5, RowKnown
        <4>2. Row(c) = [id |-> Row(c).id, enabled |-> Row(c).enabled]
          BY <4>1, PromoRecs
        <4> QED
          BY <2>2, <4>2
      <3> QED
        BY <1>1, <2>3, <3>1, <3>2, <3>3, <3>4, PromoMoves
    <2> QED
      BY <2>4, <2>5
  <1>10. CASE EditSaves(c) \/ UpdateSaves(c)
    <2>1. PICK image : image = calls[c].row
      OBVIOUS
    <2>2. /\ calls[c].pc = "save" /\ calls[c].op \in Edits /\ SavesImage(c, "done", image)
          /\ calls[c].op = "edit" => paused' = paused
          /\ calls[c].op = "update" =>
               paused' = IF Row(c).id = image.id THEN ~calls[c].arg ELSE paused
      BY <1>10, <2>1 DEF EditSaves, UpdateSaves, Saves, At, Edits
    <2>3. CASE Row(c).id # image.id
      <3>1. rows' = rows /\ calls' = Moved(c, "error", NoRow) /\ paused' = paused
        BY <2>2, <2>3 DEF SavesImage, Edits
      <3> QED
        BY <1>5, <1>6, <3>1
    <2>4. CASE Row(c).id = image.id
      <3>1. rows' = Put(rows, Promo, image) /\ calls' = Moved(c, "done", image)
        BY <1>1, <2>2, <2>4 DEF SavesImage
      <3>2. RowOf(Promo)' = image /\ MovesTo(c, "done", image)
        BY <1>4, <3>1, RowWritten
      <3>3. RowOf(Promo).id = image.id /\ RowOf(Promo) # NoRow
        <4>1. image.id \in 1..(nextId - 1)
          BY <1>2, <2>1, <2>2
        <4>2. image.id # 0
          BY <1>1, <4>1
        <4> QED
          BY <1>1, <2>4, <4>2 DEF NoRow
      <3>4. CASE calls[c].op = "edit"
        <4>1. Apart(Promo, Edits) => image.enabled = RowOf(Promo).enabled
          BY <2>1, <2>2, <3>3, <3>4 DEF PromoKnow, At, Edits
        <4>2. Apart(Promo, Edits) =>
              \A e \in DOMAIN calls : At(e, "edit", "save") /\ calls[e].row.id = RowOf(Promo)'.id
                => calls[e].row.enabled = RowOf(Promo)'.enabled
          BY <3>2, <3>3, <4>1 DEF PromoKnow, Edits
        <4>3. PausedSticks'
          BY <1>3, <2>2, <3>2, <3>3, <3>4, <4>1 DEF PausedSticks, Edits
        <4> QED
          BY <1>1, <3>2, <4>2, <4>3, PromoMoves
      <3>5. CASE calls[c].op = "update"
        <4>1. image.enabled = calls[c].arg /\ calls[c].arg \in BOOLEAN
          BY <2>1, <2>2, <3>5 DEF PromoKnow, At, CallsKnow, IsCall
        <4>2. Apart(Promo, Edits) => \A e \in DOMAIN calls : ~At(e, "edit", "save")
          <5> SUFFICES ASSUME Apart(Promo, Edits), NEW e \in DOMAIN calls, At(e, "edit", "save")
                       PROVE  FALSE
            OBVIOUS
          <5>1. UnderWay(c) /\ UnderWay(e) /\ e # c
            BY <2>2, <3>5 DEF At, UnderWay, AtCore
          <5>2. Key(calls[e]) = Promo
            BY KeyOf DEF At, Counters, Stalks
          <5>3. {calls[c].op, calls[e].op} # Edits
            BY <1>1, <5>1, <5>2 DEF PromoKnow, NotBoth, Edits
          <5> QED
            BY <3>5, <5>3 DEF At, Edits
        <4>3. paused' = ~calls[c].arg
          BY <2>2, <2>4, <3>5
        <4>4. PausedSticks'
          BY <3>2, <4>1, <4>3 DEF PausedSticks
        <4> QED
          BY <1>1, <3>2, <3>5, <4>2, <4>4, PromoMoves
      <3> QED
        BY <2>2, <3>4, <3>5 DEF Edits
    <2> QED
      BY <2>3, <2>4
  <1>11. CASE DropFinds(c)
    <2>1. /\ UNCHANGED <<rows, paused>>
          /\ \E pc, row : pc # "save" /\ calls' = Moved(c, pc, row)
      BY <1>11 DEF DropFinds, Finds, tables
    <2> QED
      BY <1>5, <1>6, <2>1
  <1>12. CASE DropDeletes(c) \/ RemoveDeletes(c)
    <2>1. /\ paused' = paused /\ calls' = Moved(c, "done", NoRow)
          /\ rows' = rows \/ rows' = Restrict(rows, DOMAIN rows \ {Promo})
      BY <1>1, <1>12 DEF DropDeletes, RemoveDeletes, Deletes
    <2>2. CASE rows' = rows
      BY <1>5, <1>6, <2>1, <2>2
    <2>3. CASE rows' = Restrict(rows, DOMAIN rows \ {Promo})
      <3>1. RowOf(Promo)' = NoRow /\ MovesTo(c, "done", NoRow)
        BY <1>4, <2>1, <2>3, RowDeleted
      <3>2. \A e \in DOMAIN calls : At(e, "edit", "save") => calls[e].row.id # RowOf(Promo)'.id
        <4>1. RowOf(Promo)'.id = 0
          BY <3>1 DEF NoRow
        <4> QED
          BY <1>1, <1>2, <4>1 DEF At, Edits
      <3>3. PausedSticks'
        BY <3>1 DEF PausedSticks
      <3> QED
        BY <1>1, <3>1, <3>2, <3>3, PromoMoves
    <2> QED
      BY <2>1, <2>2, <2>3
  <1> QED
    BY <1>7, <1>8, <1>9, <1>10, <1>11, <1>12 DEF Promoting

\* Requests about other rows.
LEMMA OthersKeepPromo ==
  ASSUME CallsKnow, PromoKnow, NotBoth(Promo, Edits)', NEW c \in DOMAIN calls,
         \E p, i : Serves(c, p, i), calls[c].op \in Counters \cup Stalks, paused' = paused
  PROVE  PromoKnow'
  <1>1. PICK pc, image : Serves(c, pc, image)
    OBVIOUS
  <1>2. MovesTo(c, pc, image)
    BY <1>1, KnownFields, CallMoved DEF Serves
  <1>3. PICK q : q = [op |-> calls[c].op, who |-> calls[c].who, arg |-> calls[c].arg,
                      pc |-> pc, row |-> image]
    OBVIOUS
  <1>4. \A d \in DOMAIN calls' : d \in DOMAIN calls /\ calls'[d] = IF d # c THEN calls[d] ELSE q
    BY <1>2, <1>3 DEF MovesTo
  <1>5. q.op = calls[c].op /\ q.op \notin Edits
    BY <1>3 DEF Counters, Stalks, Edits
  <1>6. RowOf(Promo)' = RowOf(Promo) /\ met' = met
    BY <1>1, KeyOf DEF Serves
  <1> QED
    BY <1>4, <1>5, <1>6, PromoStays

LEMMA FailsKeepPromo ==
  ASSUME CallsKnow, PromoKnow, NotBoth(Promo, Edits)', NEW c \in DOMAIN calls, Fails(c)
  PROVE  PromoKnow'
  <1>1. CASE calls[c].op = "fish"
    <2>1. paused' = paused /\ calls[c].op \in Counters /\ \E p, i : Serves(c, p, i)
      BY <1>1, FailsServes DEF Counters
    <2> QED
      BY <2>1, OthersKeepPromo
  <1>2. CASE calls[c].op # "fish"
    <2>1. calls' = Moved(c, "error", calls[c].row) /\ UNCHANGED <<rows, paused, met>>
      BY <1>2, FailsServes DEF Serves, tables
    <2>2. MovesTo(c, "error", calls[c].row)
      BY <2>1, KnownFields, CallMoved
    <2>3. PICK q : q = [op |-> calls[c].op, who |-> calls[c].who, arg |-> calls[c].arg,
                        pc |-> "error", row |-> calls[c].row]
      OBVIOUS
    <2>4. \A d \in DOMAIN calls' : d \in DOMAIN calls /\ calls'[d] = IF d # c THEN calls[d] ELSE q
      BY <2>2, <2>3 DEF MovesTo
    <2>5. q.pc # "save"
      BY <2>3
    <2>6. RowOf(Promo)' = RowOf(Promo)
      BY <2>1 DEF RowOf
    <2> QED
      BY <2>1, <2>4, <2>5, <2>6, PromoStays
  <1> QED
    BY <1>1, <1>2

\* The requests are sent, or end, without a step of core-api; a line said may be remembered.
CallsTurn ==
  /\ UNCHANGED <<rows, paused, quoted>> /\ met \subseteq met'
  /\ \A d \in DOMAIN calls' : calls'[d].pc \in {"save", "again", "done", "hydrate"}
                                => \E e \in DOMAIN calls : calls'[d] = calls[e]
  /\ \/ watch' = watch
     \/ \E m \in Messages : watch.target = Author[m] /\ watch' = [watch EXCEPT !.last = m]

LEMMA SentTurns ==
  ASSUME NEW c, NEW o, calls' = Sent(c, o), met' = Meeting(c, o), UNCHANGED <<rows, paused, quoted>>,
         \/ watch' = watch
         \/ \E m \in Messages : watch.target = Author[m] /\ watch' = [watch EXCEPT !.last = m]
  PROVE  CallsTurn
  <1>1. PICK row : row = IF c = "dashboard" THEN RowOf(Key(o)) ELSE NoRow
    OBVIOUS
  <1>2. PICK q : q = [op |-> o.op, who |-> o.who, arg |-> o.arg, pc |-> First(o.op), row |-> row]
    OBVIOUS
  <1>3. /\ DOMAIN calls' = DOMAIN calls \cup {c} /\ calls'[c] = q
        /\ \A d \in DOMAIN calls : d # c => calls'[d] = calls[d]
    BY <1>1, <1>2, CallSent
  <1>4. q.pc \notin {"save", "again", "done", "hydrate"}
    BY <1>2 DEF First
  <1>5. met \subseteq met'
    BY DEF Meeting
  <1> QED
    BY <1>3, <1>4, <1>5 DEF CallsTurn

LEMMA TimesOutTurns ==
  ASSUME CallsKnow, NEW c \in DOMAIN calls, TimesOut(c)
  PROVE  CallsTurn
  <1>1. PICK q : /\ q = [op |-> calls[c].op, who |-> calls[c].who, arg |-> calls[c].arg,
                         pc |-> "error", row |-> calls[c].row]
                 /\ calls'[c] = q
    BY TimesOutMoves
  <1>2. q.pc = "error"
    BY <1>1
  <1>3. UNCHANGED <<rows, paused, met, quoted, watch>>
    BY DEF TimesOut, tables
  <1> QED
    BY <1>1, <1>2, <1>3, TimesOutMoves DEF CallsTurn

\* A step is core-api's, or what a caller does with an answer about the target, or leaves the
\* tables alone and gives no request an image.
LEMMA CommandTurns ==
  ASSUME HandsKnow, CallsKnow, [CommandNext]_commandVars
  PROVE  \/ CallsTurn
         \/ \E c \in DOMAIN calls : Counting(c) \/ Stalking(c) \/ Promoting(c) \/ Fails(c) \/ Applies(c)
  <1>1. UNCHANGED <<rows, paused, calls, met, quoted, watch>> => CallsTurn
    BY DEF CallsTurn
  <1>2. UNCHANGED commandOnly => UNCHANGED <<rows, paused, calls, met, quoted, watch>>
    BY DEF commandOnly, tables, histories
  <1>3. ASSUME NEW g \in Goroutines,
               \/ (\E m \in Messages : DeliverScript(g, m)) \/ Finish(g) \/ AskScript(g)
               \/ (Shout(g) \/ Index(g) \/ Delete(g) \/ Store(g)) /\ UNCHANGED commandOnly
        PROVE  CallsTurn
    BY <1>1, <1>2, <1>3 DEF DeliverScript, Finish, AskScript, tables, histories
  <1>6. ASSUME NEW g \in Goroutines, Dispatch(g) PROVE CallsTurn
    <2>1. PICK o : o = Head(todo[g])
      OBVIOUS
    <2>2. /\ UNCHANGED <<rows, paused, quoted, watch>>
          /\ UNCHANGED <<calls, met>> \/ (calls' = Sent(g, o) /\ met' = Meeting(g, o))
      BY <1>6, <2>1 DEF Dispatch, tables
    <2> QED
      BY <1>1, <2>2, SentTurns
  <1>7. ASSUME NEW g \in Goroutines, Remember(g) PROVE CallsTurn
    <2>1. PICK m, o : m = hand[g].msg /\ o = Asks("last", Author[m], m)
      OBVIOUS
    <2>2. /\ UNCHANGED <<rows, paused, quoted>> /\ m \in Messages
          /\ \/ UNCHANGED <<calls, met, watch>>
             \/ /\ calls' = Sent(m, o) /\ met' = Meeting(m, o)
                /\ watch.target = Author[m] /\ watch' = [watch EXCEPT !.last = m]
      BY <1>7, <2>1 DEF Remember, tables, HandsKnow
    <2> QED
      BY <1>1, <2>2, SentTurns
  <1>8. ASSUME NEW o, Dashboard(o) PROVE CallsTurn
    BY <1>8, SentTurns DEF Dashboard, tables
  <1>9. ASSUME NEW c, Replied(c) PROVE CallsTurn
    <2>1. UNCHANGED <<rows, paused, met, quoted, watch>> /\ calls' = Over(c)
      BY <1>9 DEF Replied, histories, tables
    <2> QED
      BY <2>1, CallOver DEF CallsTurn
  <1>10. CASE UNCHANGED commandVars
    BY <1>1, <1>2, <1>10 DEF commandVars
  <1>11. CASE CommandNext
    BY <1>1, <1>2, <1>3, <1>6, <1>7, <1>8, <1>9, <1>11, TimesOutTurns
       DEF CommandNext, Applies
  <1> QED
    BY <1>10, <1>11

LEMMA AppliesKeepPromo ==
  ASSUME CallsKnow, PromoKnow, NotBoth(Promo, Edits)', NEW c \in DOMAIN calls, Applies(c)
  PROVE  PromoKnow'
  <1>1. UNCHANGED <<rows, paused, met>>
    BY DEF Applies, InstallTarget, HydrateLast, Quote, SetApplies, UnsetApplies, Holds, tables
  <1>2. /\ \/ calls' = Over(c)
           \/ \E pc, row : pc # "save" /\ calls' = Moved(c, pc, row)
    BY DEF Applies, InstallTarget, HydrateLast, Quote, SetApplies, UnsetApplies
  <1>3. \A d \in DOMAIN calls' : calls'[d].pc = "save" => \E e \in DOMAIN calls : calls'[d] = calls[e]
    <2>1. CASE calls' = Over(c)
      BY <2>1, CallOver
    <2>2. CASE \E pc, row : pc # "save" /\ calls' = Moved(c, pc, row)
      <3>1. PICK pc, row : pc # "save" /\ calls' = Moved(c, pc, row)
        BY <2>2
      <3>2. PICK q : q = [op |-> calls[c].op, who |-> calls[c].who, arg |-> calls[c].arg,
                          pc |-> pc, row |-> row]
        OBVIOUS
      <3>3. MovesTo(c, pc, row)
        BY <3>1, KnownFields, CallMoved
      <3>4. \A d \in DOMAIN calls' : d \in DOMAIN calls /\ calls'[d] = IF d # c THEN calls[d] ELSE q
        BY <3>2, <3>3 DEF MovesTo
      <3>5. q.pc # "save"
        BY <3>1, <3>2
      <3> QED
        BY <3>4, <3>5
    <2> QED
      BY <1>2, <2>1, <2>2
  <1>4. RowOf(Promo)' = RowOf(Promo)
    BY <1>1 DEF RowOf
  <1> QED
    BY <1>1, <1>3, <1>4, PromoStays

LEMMA CommandPromo ==
  ASSUME HandsKnow, CallsKnow, PromoKnow, [CommandNext]_commandVars
  PROVE  PromoKnow'
  <1>1. NotBoth(Promo, Edits)'
    <2>1. NotBoth(Promo, Edits)
      BY DEF PromoKnow, Edits
    <2> QED
      BY <2>1, CommandNotBoth
  <1>2. CASE CallsTurn
    <2>1. RowOf(Promo)' = RowOf(Promo)
      BY <1>2 DEF CallsTurn, RowOf
    <2> QED
      BY <1>1, <1>2, <2>1, PromoStays DEF CallsTurn
  <1>3. ASSUME NEW c \in DOMAIN calls, Counting(c) PROVE PromoKnow'
    BY <1>1, <1>3, CountingServes, OthersKeepPromo
  <1>4. ASSUME NEW c \in DOMAIN calls, Stalking(c) PROVE PromoKnow'
    BY <1>1, <1>4, StalkingServes, OthersKeepPromo
  <1> QED
    BY <1>1, <1>2, <1>3, <1>4, CommandTurns, PromotingKeeps, FailsKeepPromo, AppliesKeepPromo

\* No target has been set meanwhile.
Steady == Apart(Stalk, {"get", "set"}) /\ Apart(Stalk, {"last", "set"})
BothApart == NotBoth(Stalk, {"get", "set"}) /\ NotBoth(Stalk, {"last", "set"})

LEMMA LoadedKnown ==
  ASSUME CallsKnow, NEW c \in DOMAIN calls
  PROVE  /\ Loaded(c) => UnderWay(c) /\ Key(calls[c]) = Stalk
         /\ At(c, "last", "save") => UnderWay(c) /\ Key(calls[c]) = Stalk
         /\ At(c, "get", "hydrate") => Loaded(c)
         /\ At(c, "last", "save") \/ At(c, "set", "save") =>
              calls[c].row \in RowRecs(Stalk, nextId - 1) /\ calls[c].row.id \in 1..(nextId - 1)
  <1>1. nextId - 1 \in Nat /\ IsCall(calls[c])
    BY RowKnown DEF CallsKnow
  <1>2. calls[c].op \in Stalks => Key(calls[c]) = Stalk
    BY KeyOf
  <1>3. calls[c].op \in Stalks /\ calls[c].pc \in {"save", "hydrate"} =>
          /\ calls[c].row \in RowRecs(Stalk, nextId - 1) /\ calls[c].row.id \in 1..(nextId - 1)
          /\ calls[c].row # NoRow
    BY <1>1, <1>2, RowRecsId DEF IsCall
  <1> QED
    BY <1>2, <1>3 DEF Loaded, At, UnderWay, AtCore, Stalks

\* While a target is being set, nothing is read for a watch, nor to store a line.
LEMMA SettingIsAlone ==
  ASSUME CallsKnow, WatchKnow, Steady, NEW c \in DOMAIN calls, calls[c].op = "set", UnderWay(c),
         NEW d \in DOMAIN calls
  PROVE  ~Loaded(d) /\ ~At(d, "last", "save")
  <1>1. Key(calls[c]) = Stalk
    BY KeyOf DEF Stalks
  <1>2. /\ Loaded(d) => UnderWay(d) /\ Key(calls[d]) = Stalk
        /\ At(d, "last", "save") => UnderWay(d) /\ Key(calls[d]) = Stalk
    BY LoadedKnown
  <1>3. CASE Loaded(d)
    <2>1. calls[d].op = "get" /\ c # d
      BY <1>3 DEF Loaded
    <2>2. {calls[d].op, calls[c].op} # {"get", "set"}
      BY <1>1, <1>2, <1>3, <2>1 DEF WatchKnow, NotBoth, Steady
    <2> QED
      BY <2>1, <2>2
  <1>4. CASE At(d, "last", "save")
    <2>1. calls[d].op = "last" /\ c # d
      BY <1>4 DEF At
    <2>2. {calls[d].op, calls[c].op} # {"last", "set"}
      BY <1>1, <1>2, <1>4, <2>1 DEF WatchKnow, NotBoth, Steady
    <2> QED
      BY <2>1, <2>2
  <1> QED
    BY <1>3, <1>4

\* What was read stays as it is; the watch or what is said from it may change.
LEMMA WatchTurns ==
  ASSUME WatchKnow, BothApart', met \subseteq met', RowOf(Stalk)' = RowOf(Stalk),
         \A d \in DOMAIN calls' :
           /\ Loaded(d)' => \E e \in DOMAIN calls : Loaded(e) /\ calls'[d].row = calls[e].row
           /\ At(d, "last", "save")'
                => \E e \in DOMAIN calls : At(e, "last", "save") /\ calls'[d].row = calls[e].row,
         Steady =>
           /\ watch'.last # None => Author[watch'.last] = watch'.target
           /\ \A d \in DOMAIN calls' : Loaded(d)' /\ calls'[d].pc = "hydrate"
                => watch' = NoWatch \/ watch'.target = calls'[d].row.target
           /\ \A q \in quoted' : Author[q[2]] = q[1]
  PROVE  WatchKnow'
  <1>1. Steady' => Steady
    BY DEF Steady, Apart
  <1>2. ASSUME Steady, NEW d \in DOMAIN calls', Loaded(d)'
        PROVE  /\ RowOf(Stalk)' # NoRow => RowOf(Stalk)'.target = calls'[d].row.target
               /\ \A f \in DOMAIN calls' : Loaded(f)' => calls'[f].row.target = calls'[d].row.target
    <2>1. PICK e \in DOMAIN calls : Loaded(e) /\ calls'[d].row = calls[e].row
      BY <1>2
    <2>2. ASSUME NEW f \in DOMAIN calls', Loaded(f)' PROVE calls'[f].row.target = calls'[d].row.target
      <3>1. PICK h \in DOMAIN calls : Loaded(h) /\ calls'[f].row = calls[h].row
        BY <2>2
      <3> QED
        BY <1>2, <2>1, <3>1 DEF WatchKnow, Steady
    <2> QED
      BY <1>2, <2>1, <2>2 DEF WatchKnow, Steady
  <1>3. ASSUME Steady, NEW d \in DOMAIN calls', At(d, "last", "save")',
               RowOf(Stalk)'.id = calls'[d].row.id
        PROVE  RowOf(Stalk)'.target = calls'[d].row.target
    <2>1. PICK e \in DOMAIN calls : At(e, "last", "save") /\ calls'[d].row = calls[e].row
      BY <1>3
    <2> QED
      BY <1>3, <2>1 DEF WatchKnow, Steady
  <1> QED
    BY <1>1, <1>2, <1>3 DEF WatchKnow, Steady, BothApart

\* A step of core-api for the request c.
LEMMA WatchMoves ==
  ASSUME WatchKnow, BothApart', met' = met, UNCHANGED <<watch, quoted>>,
         NEW c \in DOMAIN calls, NEW pc, NEW row, MovesTo(c, pc, row),
         pc # "hydrate",
         Steady /\ calls[c].op = "get" /\ pc = "done" /\ row # NoRow =>
           row = RowOf(Stalk) /\ RowOf(Stalk)' = RowOf(Stalk),
         Steady /\ calls[c].op = "last" /\ pc = "save" => RowOf(Stalk)'.target = row.target,
         Steady /\ RowOf(Stalk)' # NoRow => \A e \in DOMAIN calls : e # c /\ Loaded(e) =>
                     RowOf(Stalk)'.target = calls[e].row.target,
         Steady => \A e \in DOMAIN calls : e # c /\ At(e, "last", "save")
                     /\ RowOf(Stalk)'.id = calls[e].row.id => RowOf(Stalk)'.target = calls[e].row.target
  PROVE  WatchKnow'
  <1>1. Steady' => Steady
    BY DEF Steady, Apart
  <1>2. PICK q : q = [op |-> calls[c].op, who |-> calls[c].who, arg |-> calls[c].arg,
                      pc |-> pc, row |-> row]
    OBVIOUS
  <1>3. \A d \in DOMAIN calls' : d \in DOMAIN calls /\ calls'[d] = IF d # c THEN calls[d] ELSE q
    BY <1>2 DEF MovesTo
  <1>4. q.op = calls[c].op /\ q.pc = pc /\ q.row = row
    BY <1>2
  <1>5. ASSUME NEW d \in DOMAIN calls', Loaded(d)'
        PROVE  \/ d # c /\ calls'[d] = calls[d] /\ Loaded(d)
               \/ d = c /\ calls'[d] = q /\ calls[c].op = "get" /\ pc = "done" /\ row # NoRow
    BY <1>3, <1>4, <1>5 DEF Loaded
  <1>6. ASSUME Steady, NEW d \in DOMAIN calls', Loaded(d)'
        PROVE  /\ calls'[d].pc = "hydrate" => watch' = NoWatch \/ watch'.target = calls'[d].row.target
               /\ RowOf(Stalk)' # NoRow => RowOf(Stalk)'.target = calls'[d].row.target
               /\ \A f \in DOMAIN calls' : Loaded(f)' => calls'[f].row.target = calls'[d].row.target
    <2>1. CASE d # c
      <3>1. calls'[d] = calls[d] /\ Loaded(d) /\ d \in DOMAIN calls
        BY <1>3, <1>5, <1>6, <2>1
      <3>2. ASSUME NEW f \in DOMAIN calls', Loaded(f)' PROVE calls'[f].row.target = calls'[d].row.target
        <4>1. CASE f # c
          <5>1. calls'[f] = calls[f] /\ Loaded(f) /\ f \in DOMAIN calls
            BY <1>3, <1>5, <3>2, <4>1
          <5> QED
            BY <1>6, <3>1, <5>1 DEF WatchKnow, Steady
        <4>2. CASE f = c
          <5>1. calls'[f].row = RowOf(Stalk) /\ RowOf(Stalk) # NoRow
            BY <1>4, <1>5, <1>6, <3>2, <4>2
          <5> QED
            BY <1>6, <3>1, <5>1 DEF WatchKnow, Steady
        <4> QED
          BY <4>1, <4>2
      <3> QED
        BY <1>6, <2>1, <3>1, <3>2 DEF WatchKnow, Steady
    <2>2. CASE d = c
      <3>1. /\ calls'[d].row = RowOf(Stalk) /\ RowOf(Stalk) # NoRow /\ RowOf(Stalk)' = RowOf(Stalk)
            /\ calls'[d].pc # "hydrate"
        BY <1>4, <1>5, <1>6, <2>2
      <3>2. ASSUME NEW f \in DOMAIN calls', Loaded(f)' PROVE calls'[f].row.target = calls'[d].row.target
        <4>1. CASE f # c
          <5>1. calls'[f] = calls[f] /\ Loaded(f) /\ f \in DOMAIN calls
            BY <1>3, <1>5, <3>2, <4>1
          <5> QED
            BY <1>6, <3>1, <5>1 DEF WatchKnow, Steady
        <4>2. CASE f = c
          BY <2>2, <4>2
        <4> QED
          BY <4>1, <4>2
      <3> QED
        BY <3>1, <3>2
    <2> QED
      BY <2>1, <2>2
  <1>7. ASSUME Steady, NEW d \in DOMAIN calls', At(d, "last", "save")',
               RowOf(Stalk)'.id = calls'[d].row.id
        PROVE  RowOf(Stalk)'.target = calls'[d].row.target
    BY <1>3, <1>4, <1>7 DEF At
  <1> QED
    BY <1>1, <1>6, <1>7 DEF WatchKnow, Steady, BothApart

LEMMA StalkingKeeps ==
  ASSUME CallsKnow, WatchKnow, BothApart', NEW c \in DOMAIN calls, Stalking(c)
  PROVE  WatchKnow'
  <1>1. /\ calls[c].op \in Stalks /\ Key(calls[c]) = Stalk /\ met' = met
        /\ UNCHANGED <<watch, quoted>>
        /\ Row(c) = RowOf(Stalk) /\ nextId - 1 \in Nat /\ nextId \in Nat
    BY StalkingServes, KeyOf, RowKnown DEF Serves, Row
  <1>2. RowOf(Stalk) # NoRow => RowOf(Stalk) \in RowRecs(Stalk, nextId - 1)
    BY RowKnown
  <1>3. ASSUME NEW pc, NEW row, calls' = Moved(c, pc, row)
        PROVE  MovesTo(c, pc, row)
    BY <1>3, KnownFields, CallMoved
  <1>4. rows' = rows => RowOf(Stalk)' = RowOf(Stalk)
    BY DEF RowOf
  <1>5. ASSUME NEW pc, NEW row, MovesTo(c, pc, row), RowOf(Stalk)' = RowOf(Stalk), pc # "hydrate",
               calls[c].op = "get" /\ pc = "done" /\ row # NoRow => row = RowOf(Stalk),
               calls[c].op = "last" /\ pc = "save" => RowOf(Stalk)'.target = row.target
        PROVE  WatchKnow'
    <2>1. Steady => \A e \in DOMAIN calls : e # c /\ At(e, "last", "save")
            /\ RowOf(Stalk)'.id = calls[e].row.id => RowOf(Stalk)'.target = calls[e].row.target
      BY <1>5 DEF WatchKnow, Steady
    <2>2. Steady /\ RowOf(Stalk)' # NoRow => \A e \in DOMAIN calls : e # c /\ Loaded(e) =>
            RowOf(Stalk)'.target = calls[e].row.target
      BY <1>5 DEF WatchKnow, Steady
    <2> QED
      BY <1>1, <1>5, <2>1, <2>2, WatchMoves
  <1>6. ASSUME NEW pc, NEW row, MovesTo(c, pc, row), pc \in {"done", "error"}, calls[c].op = "set"
        PROVE  WatchKnow'
    <2>1. UnderWay(c)
      BY StalkingServes DEF Serves, UnderWay
    <2>2. Steady => \A e \in DOMAIN calls : ~Loaded(e) /\ ~At(e, "last", "save")
      BY <1>6, <2>1, SettingIsAlone
    <2> QED
      BY <1>1, <1>6, <2>2, WatchMoves
  <1>7. CASE GetTarget(c) \/ UnsetFinds(c) \/ SetFinds(c)
    <2>1. PICK absent, present, image :
            /\ rows' = rows /\ calls[c].op \in {"get", "unset", "set"}
            /\ absent \in {"done", "insert"} /\ present \in {"done", "delete", "save"}
            /\ calls[c].op = "get" => image = Row(c)
            /\ calls' = IF Row(c) = NoRow THEN Moved(c, absent, NoRow) ELSE Moved(c, present, image)
      <3>1. CASE GetTarget(c)
        <4>1. /\ rows' = rows /\ calls[c].op = "get"
              /\ calls' = IF Row(c) = NoRow THEN Moved(c, "done", NoRow) ELSE Moved(c, "done", Row(c))
          BY <3>1 DEF GetTarget, Finds, Same, tables, At
        <4> QED
          BY <4>1
      <3>2. CASE UnsetFinds(c)
        <4>1. /\ rows' = rows /\ calls[c].op = "unset"
              /\ calls' = IF Row(c) = NoRow THEN Moved(c, "done", NoRow) ELSE Moved(c, "delete", Row(c))
          BY <3>2 DEF UnsetFinds, Finds, Same, tables, At
        <4> QED
          BY <4>1
      <3>3. CASE SetFinds(c)
        <4>1. /\ rows' = rows /\ calls[c].op = "set"
              /\ calls' = IF Row(c) = NoRow THEN Moved(c, "insert", NoRow)
                          ELSE Moved(c, "save", SetImage(Row(c), calls[c].arg))
          BY <3>3 DEF SetFinds, SetFindsWith, Finds, SetImage, tables, At
        <4>2. PICK image : image = SetImage(Row(c), calls[c].arg)
          OBVIOUS
        <4> QED
          BY <4>1, <4>2
      <3> QED
        BY <1>7, <3>1, <3>2, <3>3
    <2>2. CASE Row(c) = NoRow
      <3>1. MovesTo(c, absent, NoRow)
        BY <1>3, <2>1, <2>2
      <3> QED
        BY <1>4, <1>5, <2>1, <3>1
    <2>3. CASE Row(c) # NoRow
      <3>1. MovesTo(c, present, image)
        BY <1>3, <2>1, <2>3
      <3> QED
        BY <1>1, <1>4, <1>5, <2>1, <3>1
    <2> QED
      BY <2>2, <2>3
  <1>8. CASE SetInserts(c)
    <2>1. PICK pc, row : /\ pc \in {"done", "error"} /\ calls' = Moved(c, pc, row)
                         /\ calls[c].op = "set"
      BY <1>8 DEF SetInserts, Inserts, At
    <2> QED
      BY <1>3, <1>6, <2>1
  <1>9. CASE SetSaves(c)
    <2>1. PICK pc, row : /\ pc \in {"done", "error"} /\ calls' = Moved(c, pc, row)
                         /\ calls[c].op = "set"
      BY <1>9 DEF SetSaves, Saves, SavesImage, At
    <2> QED
      BY <1>3, <1>6, <2>1
  <1>10. CASE LastFinds(c)
    <2>1. PICK pc, image : /\ pc = IF Row(c).target = calls[c].who THEN "save" ELSE "done"
                           /\ image = [Row(c) EXCEPT !.last = calls[c].arg]
      OBVIOUS
    <2>2. /\ rows' = rows /\ calls[c].op = "last"
          /\ calls' = IF Row(c) = NoRow THEN Moved(c, "done", NoRow) ELSE Moved(c, pc, image)
      BY <1>10, <2>1 DEF LastFinds, Finds, tables, At
    <2>3. CASE Row(c) = NoRow
      <3>1. MovesTo(c, "done", NoRow)
        BY <1>3, <2>2, <2>3
      <3> QED
        BY <1>4, <1>5, <2>2, <3>1
    <2>4. CASE Row(c) # NoRow
      <3>1. MovesTo(c, pc, image)
        BY <1>3, <2>2, <2>4
      <3>2. image.target = RowOf(Stalk).target
        BY <1>1, <1>2, <2>1, <2>4, StalkImages
      <3> QED
        BY <1>4, <1>5, <2>1, <2>2, <3>1, <3>2
    <2> QED
      BY <2>3, <2>4
  <1>11. CASE LastSaves(c)
    <2>1. PICK image : image = calls[c].row
      OBVIOUS
    <2>2. /\ At(c, "last", "save") /\ calls[c].op = "last" /\ SavesImage(c, "done", image)
      BY <1>11, <2>1 DEF LastSaves, Saves, At
    <2>3. CASE Row(c).id # image.id
      <3>1. rows' = rows /\ calls' = Moved(c, "error", NoRow)
        BY <2>2, <2>3 DEF SavesImage
      <3>2. MovesTo(c, "error", NoRow)
        BY <1>3, <3>1
      <3> QED
        BY <1>4, <1>5, <2>2, <3>1, <3>2
    <2>4. CASE Row(c).id = image.id
      <3>1. rows' = Put(rows, Stalk, image) /\ calls' = Moved(c, "done", image)
        BY <1>1, <2>2, <2>4 DEF SavesImage
      <3>2. RowOf(Stalk)' = image /\ MovesTo(c, "done", image)
        BY <1>3, <3>1, RowWritten
      <3>3. RowOf(Stalk).id = image.id /\ RowOf(Stalk) # NoRow
        <4>1. image.id \in 1..(nextId - 1)
          BY <2>1, <2>2, LoadedKnown
        <4>2. image.id # 0
          BY <1>1, <4>1
        <4> QED
          BY <1>1, <2>4, <4>2 DEF NoRow
      <3>4. Steady => image.target = RowOf(Stalk).target
        BY <2>1, <2>2, <3>3 DEF WatchKnow, Steady
      <3>5. Steady => \A e \in DOMAIN calls : e # c /\ At(e, "last", "save")
            /\ RowOf(Stalk)'.id = calls[e].row.id => RowOf(Stalk)'.target = calls[e].row.target
        BY <3>2, <3>3, <3>4 DEF WatchKnow, Steady
      <3>6. Steady /\ RowOf(Stalk)' # NoRow => \A e \in DOMAIN calls : e # c /\ Loaded(e) =>
            RowOf(Stalk)'.target = calls[e].row.target
        BY <3>2, <3>3, <3>4 DEF WatchKnow, Steady
      <3> QED
        BY <1>1, <2>2, <3>2, <3>5, <3>6, WatchMoves
    <2> QED
      BY <2>3, <2>4
  <1>12. CASE UnsetDeletes(c)
    <2>1. /\ calls' = Moved(c, "done", NoRow) /\ calls[c].op = "unset"
          /\ rows' = rows \/ rows' = Restrict(rows, DOMAIN rows \ {Stalk})
      BY <1>1, <1>12 DEF UnsetDeletes, Deletes, At
    <2>2. MovesTo(c, "done", NoRow)
      BY <1>3, <2>1
    <2>3. CASE rows' = rows
      BY <1>4, <1>5, <2>1, <2>2, <2>3
    <2>4. CASE rows' = Restrict(rows, DOMAIN rows \ {Stalk})
      <3>1. RowOf(Stalk)' = NoRow
        BY <2>4, RowDeleted
      <3>2. \A e \in DOMAIN calls : At(e, "last", "save") => RowOf(Stalk)'.id # calls[e].row.id
        <4>1. RowOf(Stalk)'.id = 0
          BY <3>1 DEF NoRow
        <4> QED
          BY <1>1, <4>1, LoadedKnown
      <3> QED
        BY <1>1, <2>1, <2>2, <3>1, <3>2, WatchMoves
    <2> QED
      BY <2>1, <2>3, <2>4
  <1> QED
    BY <1>7, <1>8, <1>9, <1>10, <1>11, <1>12 DEF Stalking

\* Requests about other rows, and those that fail.
LEMMA OthersKeepWatch ==
  ASSUME CallsKnow, WatchKnow, BothApart', NEW c \in DOMAIN calls,
         \/ Counting(c) \/ Promoting(c)
         \/ Fails(c)
  PROVE  WatchKnow'
  <1>1. PICK pc, image : /\ Serves(c, pc, image)
                         /\ calls[c].op \in Counters \cup Promos
                              \/ (pc = "error" /\ RowOf(Stalk)' = RowOf(Stalk))
    <2>1. CASE Counting(c)
      BY <2>1, CountingServes
    <2>2. CASE Promoting(c)
      BY <2>2, PromotingServes
    <2>3. CASE Fails(c)
      <3>1. CASE calls[c].op = "fish"
        BY <2>3, <3>1, FailsServes DEF Counters
      <3>2. CASE calls[c].op # "fish"
        <4>1. calls' = Moved(c, "error", calls[c].row) /\ UNCHANGED tables
          BY <2>3, <3>2, FailsServes
        <4>2. PICK p : Serves(c, p, calls[c].row)
          BY <2>3, FailsServes
        <4>3. Serves(c, "error", calls[c].row)
          <5>1. calls[c].op = "get" => calls[c].row = NoRow \/ calls[c].row \in RowRecs(Stalk, nextId' - 1)
            BY <4>2 DEF Serves
          <5> QED
            BY <4>1, <4>2, <5>1 DEF Serves
        <4>4. RowOf(Stalk)' = RowOf(Stalk)
          BY <4>1 DEF RowOf, tables
        <4> QED
          BY <4>3, <4>4
      <3> QED
        BY <3>1, <3>2
    <2> QED
      BY <2>1, <2>2, <2>3
  <1>2. RowOf(Stalk)' = RowOf(Stalk)
    <2>1. ASSUME calls[c].op \in Counters \cup Promos PROVE Key(calls[c]) # Stalk
      BY <2>1, KeyOf, KeysApart
    <2> QED
      BY <1>1, <2>1 DEF Serves
  <1>3. MovesTo(c, pc, image) /\ met' = met /\ UNCHANGED <<watch, quoted>>
    BY <1>1, KnownFields, CallMoved DEF Serves
  <1>4. PICK q : q = [op |-> calls[c].op, who |-> calls[c].who, arg |-> calls[c].arg,
                      pc |-> pc, row |-> image]
    OBVIOUS
  <1>5. \A d \in DOMAIN calls' : d \in DOMAIN calls /\ calls'[d] = IF d # c THEN calls[d] ELSE q
    BY <1>3, <1>4 DEF MovesTo
  <1>6. q.op \notin {"get", "last"} \/ q.pc = "error"
    <2>1. calls[c].op \in Counters \cup Promos => calls[c].op \notin {"get", "last"}
      BY DEF Counters, Promos
    <2> QED
      BY <1>1, <1>4, <2>1
  <1>7. ASSUME NEW d \in DOMAIN calls', Loaded(d)' \/ At(d, "last", "save")'
        PROVE  d \in DOMAIN calls /\ calls'[d] = calls[d]
    BY <1>5, <1>6, <1>7 DEF Loaded, At
  <1>8. \A d \in DOMAIN calls' :
           /\ Loaded(d)' => \E e \in DOMAIN calls : Loaded(e) /\ calls'[d].row = calls[e].row
           /\ At(d, "last", "save")'
                => \E e \in DOMAIN calls : At(e, "last", "save") /\ calls'[d].row = calls[e].row
    BY <1>7 DEF Loaded, At
  <1>9. Steady => \A d \in DOMAIN calls' : Loaded(d)' /\ calls'[d].pc = "hydrate"
                => watch' = NoWatch \/ watch'.target = calls'[d].row.target
    BY <1>3, <1>7 DEF Loaded, WatchKnow, Steady
  <1> QED
    BY <1>2, <1>3, <1>8, <1>9, WatchTurns DEF WatchKnow, Steady

LEMMA TurnsKeepWatch ==
  ASSUME CallsKnow, WatchKnow, BothApart', CallsTurn
  PROVE  WatchKnow'
  <1>1. RowOf(Stalk)' = RowOf(Stalk) /\ met \subseteq met' /\ quoted' = quoted
    BY DEF CallsTurn, RowOf
  <1>2. ASSUME NEW d \in DOMAIN calls', Loaded(d)' \/ At(d, "last", "save")'
        PROVE  \E e \in DOMAIN calls : calls'[d] = calls[e]
    BY <1>2 DEF CallsTurn, Loaded, At
  <1>3. \A d \in DOMAIN calls' :
           /\ Loaded(d)' => \E e \in DOMAIN calls : Loaded(e) /\ calls'[d].row = calls[e].row
           /\ At(d, "last", "save")'
                => \E e \in DOMAIN calls : At(e, "last", "save") /\ calls'[d].row = calls[e].row
    BY <1>2 DEF Loaded, At
  <1>4. watch' = watch \/ (watch'.target = watch.target /\ watch # NoWatch
                             /\ (watch'.last # None => Author[watch'.last] = watch'.target))
    <2>1. ASSUME NEW m \in Messages, watch.target = Author[m], watch' = [watch EXCEPT !.last = m]
          PROVE  watch'.target = watch.target /\ watch'.last = m /\ watch # NoWatch
      <3>1. watch \in [target : Targets, last : Messages \cup {None}]
        BY DEF CallsKnow
      <3>2. watch.target # None
        BY <2>1, ScriptsAssumption DEF People
      <3> QED
        BY <2>1, <3>1, <3>2 DEF NoWatch
    <2> QED
      BY <2>1 DEF CallsTurn
  <1>5. Steady => (watch'.last # None => Author[watch'.last] = watch'.target)
    BY <1>4 DEF WatchKnow, Steady
  <1>6. Steady => \A d \in DOMAIN calls' : Loaded(d)' /\ calls'[d].pc = "hydrate"
                => watch' = NoWatch \/ watch'.target = calls'[d].row.target
    <2> SUFFICES ASSUME Steady, NEW d \in DOMAIN calls', Loaded(d)', calls'[d].pc = "hydrate"
                 PROVE  watch' = NoWatch \/ watch'.target = calls'[d].row.target
      OBVIOUS
    <2>1. PICK e \in DOMAIN calls : calls'[d] = calls[e]
      BY <1>2
    <2>2. Loaded(e) /\ calls[e].pc = "hydrate"
      BY <2>1 DEF Loaded
    <2>3. watch = NoWatch \/ watch.target = calls[e].row.target
      BY <2>2 DEF WatchKnow, Steady
    <2> QED
      BY <1>4, <2>1, <2>3
  <1> QED
    BY <1>1, <1>3, <1>5, <1>6, WatchTurns DEF WatchKnow, Steady

LEMMA AppliesKeepWatch ==
  ASSUME CallsKnow, WatchKnow, BothApart', NEW c \in DOMAIN calls, Applies(c)
  PROVE  WatchKnow'
  <1>1. RowOf(Stalk)' = RowOf(Stalk) /\ met \subseteq met'
    BY DEF Applies, InstallTarget, HydrateLast, Quote, SetApplies, UnsetApplies, Holds, tables, RowOf
  <1>2. watch \in [target : Targets, last : Messages \cup {None}]
    BY DEF CallsKnow
  <1>3. NoWatch.last = None /\ \A t : Watching(t).target = t /\ (Watching(t).last # None => Watching(t) = watch)
    BY DEF NoWatch, Watching
  <1>4. Steady => (watch.last # None => Author[watch.last] = watch.target)
    BY DEF WatchKnow, Steady
  \* A request that ends takes nothing of the others with it.
  <1>5. ASSUME calls' = Over(c),
               Steady => (watch'.last # None => Author[watch'.last] = watch'.target),
               Steady => \A d \in DOMAIN calls : Loaded(d) /\ calls[d].pc = "hydrate"
                           => watch' = NoWatch \/ watch'.target = calls[d].row.target,
               Steady => \A q \in quoted' : Author[q[2]] = q[1]
        PROVE  WatchKnow'
    <2>1. \A d \in DOMAIN calls' : d \in DOMAIN calls /\ calls'[d] = calls[d]
      BY <1>5, CallOver
    <2>2. \A d \in DOMAIN calls' :
           /\ Loaded(d)' => \E e \in DOMAIN calls : Loaded(e) /\ calls'[d].row = calls[e].row
           /\ At(d, "last", "save")'
                => \E e \in DOMAIN calls : At(e, "last", "save") /\ calls'[d].row = calls[e].row
      BY <2>1 DEF Loaded, At
    <2>3. Steady => \A d \in DOMAIN calls' : Loaded(d)' /\ calls'[d].pc = "hydrate"
                => watch' = NoWatch \/ watch'.target = calls'[d].row.target
      BY <1>5, <2>1 DEF Loaded
    <2> QED
      BY <1>1, <1>5, <2>2, <2>3, WatchTurns
  <1>6. ASSUME NEW pc \in {"hydrate", "quote"}, calls' = Moved(c, pc, calls[c].row),
               calls[c].op = "get"
        PROVE  \A d \in DOMAIN calls' :
                 /\ d \in DOMAIN calls
                 /\ calls'[d].op = calls[d].op /\ calls'[d].row = calls[d].row
                 /\ d # c => calls'[d] = calls[d]
                 /\ d = c => calls'[d].pc = pc
    <2>1. MovesTo(c, pc, calls[c].row)
      BY <1>6, KnownFields, CallMoved
    <2>2. PICK q : q = [op |-> calls[c].op, who |-> calls[c].who, arg |-> calls[c].arg,
                        pc |-> pc, row |-> calls[c].row]
      OBVIOUS
    <2>3. \A d \in DOMAIN calls' : d \in DOMAIN calls /\ calls'[d] = IF d # c THEN calls[d] ELSE q
      BY <2>1, <2>2 DEF MovesTo
    <2>4. q.op = calls[c].op /\ q.row = calls[c].row /\ q.pc = pc
      BY <2>2
    <2> QED
      BY <2>3, <2>4
  <1>q. Steady => \A q \in quoted : Author[q[2]] = q[1]
    BY DEF WatchKnow, Steady
  <1>7. CASE InstallTarget(c)
    <2>1. At(c, "get", "done") /\ quoted' = quoted
      BY <1>7 DEF InstallTarget
    <2>2. CASE calls[c].row = NoRow
      <3>1. calls' = Over(c) /\ watch' \in {watch, NoWatch}
        BY <1>7, <2>2 DEF InstallTarget
      <3>2. Steady => \A d \in DOMAIN calls : Loaded(d) /\ calls[d].pc = "hydrate"
                           => watch' = NoWatch \/ watch'.target = calls[d].row.target
        BY <3>1 DEF WatchKnow, Steady
      <3> QED
        BY <1>3, <1>4, <1>5, <1>q, <2>1, <3>1, <3>2
    <2>3. CASE calls[c].row # NoRow
      <3>1. Loaded(c) /\ calls[c].op = "get"
        BY <2>1, <2>3 DEF Loaded, At
      <3>2. calls' = Moved(c, "hydrate", calls[c].row) /\ watch' = Watching(calls[c].row.target)
        BY <1>7, <2>3 DEF InstallTarget
      <3>3. \A d \in DOMAIN calls' :
              /\ d \in DOMAIN calls
              /\ calls'[d].op = calls[d].op /\ calls'[d].row = calls[d].row
              /\ d # c => calls'[d] = calls[d]
        BY <1>6, <3>1, <3>2
      <3>4. ASSUME NEW d \in DOMAIN calls', Loaded(d)' PROVE Loaded(d) /\ d \in DOMAIN calls
        BY <3>1, <3>3, <3>4 DEF Loaded
      <3>5. ASSUME NEW d \in DOMAIN calls', At(d, "last", "save")' PROVE At(d, "last", "save")
        BY <3>1, <3>3, <3>5 DEF At
      <3>6. Steady => (watch'.last # None => Author[watch'.last] = watch'.target)
        BY <1>3, <1>4, <3>2
      <3>7. Steady => \A d \in DOMAIN calls' : Loaded(d)' => watch'.target = calls'[d].row.target
        <4>1. watch'.target = calls[c].row.target
          BY <1>3, <3>2
        <4>2. Steady => \A d \in DOMAIN calls : Loaded(d) => calls[d].row.target = calls[c].row.target
          BY <3>1 DEF WatchKnow, Steady
        <4> QED
          BY <3>3, <3>4, <4>1, <4>2
      <3>8. \A d \in DOMAIN calls' :
           /\ Loaded(d)' => \E e \in DOMAIN calls : Loaded(e) /\ calls'[d].row = calls[e].row
           /\ At(d, "last", "save")'
                => \E e \in DOMAIN calls : At(e, "last", "save") /\ calls'[d].row = calls[e].row
        BY <3>3, <3>4, <3>5
      <3> QED
        BY <1>1, <1>q, <2>1, <3>6, <3>7, <3>8, WatchTurns
    <2> QED
      BY <2>2, <2>3
  <1>8. CASE HydrateLast(c)
    <2>1. At(c, "get", "hydrate") /\ Loaded(c) /\ quoted' = quoted /\ calls[c].op = "get"
      BY <1>8, LoadedKnown DEF HydrateLast, At
    <2>2. /\ calls[c].row.last # None => Author[calls[c].row.last] = calls[c].row.target
      <3>1. PICK n : n = nextId - 1 /\ n \in Nat
        BY RowKnown
      <3>2. calls[c].row \in RowRecs(Stalk, n)
        BY <2>1, <3>1 DEF CallsKnow, IsCall, Loaded
      <3> QED
        BY <3>1, <3>2, StalkRecs
    <2>3. \/ watch' = watch
          \/ watch # NoWatch /\ watch'.target = watch.target /\ watch'.last = calls[c].row.last
      BY <1>2, <1>8 DEF HydrateLast
    <2>4. Steady => watch = NoWatch \/ watch.target = calls[c].row.target
      BY <2>1 DEF WatchKnow, Steady, At
    <2>5. Steady => (watch'.last # None => Author[watch'.last] = watch'.target)
      BY <1>4, <2>2, <2>3, <2>4
    <2>6. Steady => \A d \in DOMAIN calls : Loaded(d) /\ calls[d].pc = "hydrate"
                           => watch' = NoWatch \/ watch'.target = calls[d].row.target
      BY <2>3 DEF WatchKnow, Steady
    <2>7. CASE calls' = Over(c)
      BY <1>5, <1>q, <2>1, <2>5, <2>6, <2>7
    <2>8. CASE calls' = Moved(c, "quote", calls[c].row)
      <3>1. \A d \in DOMAIN calls' :
              /\ d \in DOMAIN calls
              /\ calls'[d].op = calls[d].op /\ calls'[d].row = calls[d].row
              /\ d # c => calls'[d] = calls[d]
              /\ d = c => calls'[d].pc = "quote"
        BY <1>6, <2>1, <2>8
      <3>2. ASSUME NEW d \in DOMAIN calls', Loaded(d)' \/ At(d, "last", "save")'
            PROVE  d # c /\ d \in DOMAIN calls /\ calls'[d] = calls[d]
        BY <3>1, <3>2 DEF Loaded, At
      <3>3. \A d \in DOMAIN calls' :
           /\ Loaded(d)' => \E e \in DOMAIN calls : Loaded(e) /\ calls'[d].row = calls[e].row
           /\ At(d, "last", "save")'
                => \E e \in DOMAIN calls : At(e, "last", "save") /\ calls'[d].row = calls[e].row
        BY <3>2 DEF Loaded, At
      <3>4. Steady => \A d \in DOMAIN calls' : Loaded(d)' /\ calls'[d].pc = "hydrate"
                => watch' = NoWatch \/ watch'.target = calls'[d].row.target
        BY <2>6, <3>2 DEF Loaded
      <3> QED
        BY <1>1, <1>q, <2>1, <2>5, <3>3, <3>4, WatchTurns
    <2> QED
      BY <1>8, <2>7, <2>8 DEF HydrateLast
  <1>9. CASE Quote(c)
    <2>1. /\ calls' = Over(c) /\ watch' = watch
          /\ quoted' = quoted \/ (watch.last # None /\ quoted' = quoted \cup {<<watch.target, watch.last>>})
      BY <1>9 DEF Quote
    <2>2. Steady => \A q \in quoted' : Author[q[2]] = q[1]
      BY <1>4, <1>q, <2>1
    <2>3. Steady => \A d \in DOMAIN calls : Loaded(d) /\ calls[d].pc = "hydrate"
                           => watch' = NoWatch \/ watch'.target = calls[d].row.target
      BY <2>1 DEF WatchKnow, Steady
    <2> QED
      BY <1>4, <1>5, <2>1, <2>2, <2>3
  <1>10. CASE SetApplies(c)
    <2>1. /\ calls' = Over(c) /\ quoted' = quoted /\ watch' = Watching(calls[c].arg)
          /\ calls[c].op = "set" /\ UnderWay(c)
      BY <1>10 DEF SetApplies, At, UnderWay, Stalks
    <2>2. Steady => \A d \in DOMAIN calls : ~Loaded(d)
      BY <2>1, SettingIsAlone
    <2>3. Steady => (watch'.last # None => Author[watch'.last] = watch'.target)
      BY <1>3, <1>4, <2>1
    <2> QED
      BY <1>5, <1>q, <2>1, <2>2, <2>3
  <1>11. CASE UnsetApplies(c)
    <2>1. calls' = Over(c) /\ quoted' = quoted /\ watch' = NoWatch
      BY <1>11 DEF UnsetApplies
    <2> QED
      BY <1>3, <1>5, <1>q, <2>1
  <1> QED
    BY <1>7, <1>8, <1>9, <1>10, <1>11 DEF Applies

LEMMA CommandWatch ==
  ASSUME HandsKnow, CallsKnow, WatchKnow, [CommandNext]_commandVars
  PROVE  WatchKnow'
  <1>1. BothApart'
    <2>1. NotBoth(Stalk, {"get", "set"})'
      <3>1. NotBoth(Stalk, {"get", "set"})
        BY DEF WatchKnow
      <3> QED
        BY <3>1, CommandNotBoth
    <2>2. NotBoth(Stalk, {"last", "set"})'
      <3>1. NotBoth(Stalk, {"last", "set"})
        BY DEF WatchKnow
      <3> QED
        BY <3>1, CommandNotBoth
    <2> QED
      BY <2>1, <2>2 DEF BothApart
  <1> QED
    BY <1>1, CommandTurns, TurnsKeepWatch, AppliesKeepWatch, StalkingKeeps, OthersKeepWatch

LEMMA InitCommandInv == CommandInit => CommandInv
  <1> SUFFICES ASSUME CommandInit PROVE CommandInv
    OBVIOUS
  <1>1. PICK s \in Scripts :
          /\ says = s.says /\ asks = s.asks /\ rows = s.rows
          /\ calls = IF s.boot THEN [c \in {"boot"} |-> [op |-> "get", who |-> None, arg |-> None,
                                                         pc |-> "find", row |-> NoRow]]
                     ELSE << >>
    BY DEF CommandInit
  <1>2. /\ todo = [g \in Goroutines |-> << >>] /\ nextId = 2 /\ watch = NoWatch
        /\ quoted = {} /\ paused = (Promo \in DOMAIN rows /\ ~rows[Promo].enabled)
    BY DEF CommandInit
  <1>3. PICK q : q = [op |-> "get", who |-> None, arg |-> None, pc |-> "find", row |-> NoRow]
    OBVIOUS
  <1>4. DOMAIN calls \subseteq {"boot"} /\ \A c \in DOMAIN calls : calls[c] = q
    BY <1>1, <1>3
  <1>5. q.op = "get" /\ q.pc = "find" /\ q.row = NoRow /\ Fields(q)
    BY <1>3 DEF Fields
  <1>6. CallsKnow
    <2>1. \A c \in DOMAIN calls : IsCall(calls[c])
      BY <1>4, <1>5 DEF IsCall, Fields
    <2>2. nextId \in Nat \ {0} /\ nextId - 1 = 1
      BY <1>2
    <2>3. todo \in [Goroutines -> Seq(Said)]
      BY <1>2
    <2>4. watch \in [target : Targets, last : Messages \cup {None}] /\ paused \in BOOLEAN
      BY <1>2 DEF NoWatch, Targets
    <2> QED
      BY <1>1, <2>1, <2>2, <2>3, <2>4, ScriptsAssumption DEF CallsKnow
  <1>7. \A c, d \in DOMAIN calls : c = d
    BY <1>4
  <1>8. \A k, ops : NotBoth(k, ops)
    BY <1>7 DEF NotBoth
  <1>9. PausedSticks
    <2>1. RowOf(Promo) # NoRow => Promo \in DOMAIN rows /\ RowOf(Promo) = rows[Promo]
      BY DEF RowOf
    <2>2. Promo \in DOMAIN rows => rows[Promo].enabled \in BOOLEAN
      <3>1. Promo \in DOMAIN rows => rows[Promo] \in RowRecs(Promo, 1)
        BY <1>1, ScriptsAssumption
      <3> QED
        BY <3>1, PromoRecs
    <2> QED
      BY <1>2, <2>1, <2>2 DEF PausedSticks
  <1>10. PromoKnow
    BY <1>4, <1>5, <1>8, <1>9 DEF PromoKnow, At
  <1>11. \A c \in DOMAIN calls : ~Loaded(c) /\ ~At(c, "last", "save")
    BY <1>4, <1>5 DEF Loaded, At
  <1>12. WatchKnow
    BY <1>2, <1>8, <1>11 DEF WatchKnow, NoWatch
  <1> QED
    BY <1>6, <1>10, <1>12 DEF CommandInv

\* What holds of the rows, of the requests in core-api and of the watch, after every step of
\* the bot, its chat, its boot and the dashboard, whatever fails or times out.
THEOREM CommandInductive == CommandSpec => []CommandInv
  <1>1. HandsKnow /\ CommandInv /\ [CommandNext]_commandVars => CommandInv'
    BY CommandKnow, CommandPromo, CommandWatch DEF CommandInv
  <1>2. FilterInv => HandsKnow
    BY DEF FilterInv
  <1> QED
    BY InitCommandInv, FilterInductive, <1>1, <1>2, PTL DEF CommandSpec

\* "Its enabled/paused state is preserved": whatever is edited, created, dropped or paused, in
\* chat and on the dashboard, and however the requests overlap and fail, a promo is enabled
\* exactly unless it was paused, if no edit and update of it were under way at once.
THEOREM PausedStays == CommandSpec => []PausedSticks
  <1>1. CommandInv => PausedSticks
    BY DEF CommandInv, PromoKnow
  <1> QED
    BY CommandInductive, <1>1, PTL

\* "so we don't quote the previous chatter": for any chatters, lines and overlapping requests the
\* stored line is one its target said; and what !stalk quotes is, too, if no target was being set
\* while one was read.
THEOREM StalkStaysTrue == CommandSpec => []StalkIsTrue
  <1>1. CommandInv => StalkIsTrue
    <2> SUFFICES ASSUME CommandInv PROVE StalkIsTrue
      OBVIOUS
    <2>1. CallsKnow /\ WatchKnow
      BY DEF CommandInv
    <2>2. RowOf(Stalk) # NoRow /\ RowOf(Stalk).last # None
            => Author[RowOf(Stalk).last] = RowOf(Stalk).target
      BY <2>1, RowKnown, StalkRecs
    <2> QED
      BY <2>1, <2>2 DEF StalkIsTrue, WatchKnow
  <1> QED
    BY CommandInductive, <1>1, PTL
-----------------------------------------------------------------------------
(* The auto-shout list: while the stream is the one of the boot, a chatter *)
(* with its stamp does not get back on the list (Sated), so the shoutout   *)
(* of another goroutine or of a repeated webhook is not theirs.            *)

\* What is fetched are rows of the owed.
LEMMA FetchedAreOwed ==
  ASSUME NEW S \in SUBSET Chatters
  PROVE  SetToSeq(S) \in Seq(S)
  <1> DEFINE n == Cardinality(S)
  <1>1. IsFiniteSet(S)
    BY FS_Subset, ChattersAssumption
  <1>2. n \in Nat /\ ExistsBijection(1..n, S)
    BY <1>1, FS_CardinalityType
  <1>3. \E f \in [1..n -> S] : IsInjective(f)
    BY <1>2 DEF ExistsBijection, Bijection, Injection, IsInjective
  <1>4. SetToSeq(S) \in [1..n -> S]
    BY <1>3 DEF SetToSeq
  <1> QED
    BY <1>2, <1>4

LEMMA SequencesGrow ==
  ASSUME NEW S, NEW T, S \subseteq T, NEW s \in Seq(S)
  PROVE  s \in Seq(T)
  OBVIOUS

LEMMA RemovalSpares ==
  ASSUME NEW S, NEW s \in Seq(S), NEW i \in DOMAIN s
  PROVE  RemoveAt(s, i) \in Seq(S)
  <1>1. i \in 1..Len(s) /\ Len(s) \in Nat
    OBVIOUS
  <1>2. SubSeq(s, 1, i - 1) \in Seq(S) /\ SubSeq(s, i + 1, Len(s)) \in Seq(S)
    BY <1>1
  <1> QED
    BY <1>2 DEF RemoveAt

LEMMA GoesSpares ==
  ASSUME HandsKnow, NEW c, HandsSpare(c), NEW g \in Goroutines, NEW pc, Goes(g, pc),
         pc # "store", pc = "shout" => Writer(g) # c
  PROVE  HandsSpare(c)'
  <1>1. PICK r : r = hand[g] /\ IsHand(r)
    BY DEF HandsKnow, IsHand
  <1>2. hand' = [h \in Goroutines |-> IF h = g THEN [r EXCEPT !.pc = pc] ELSE hand[h]]
    BY <1>1 DEF HandsKnow, Goes
  <1>3. [r EXCEPT !.pc = pc].pc = pc /\ [r EXCEPT !.pc = pc].msg = r.msg
    BY <1>1 DEF IsHand
  <1> QED
    BY <1>1, <1>2, <1>3 DEF HandsSpare, Writer

LEMMA EndsSpares ==
  ASSUME HandsKnow, NEW c, HandsSpare(c), NEW g \in Goroutines, Ends(g)
  PROVE  HandsSpare(c)'
  <1>1. hand' = [h \in Goroutines |-> IF h = g THEN Idle ELSE hand[h]]
    BY DEF HandsKnow, Ends
  <1>2. Idle.pc = "idle"
    BY DEF Idle
  <1> QED
    BY <1>1, <1>2 DEF HandsSpare, Writer

LEMMA DeliverSpares ==
  ASSUME HandsKnow, NEW c, HandsSpare(c), NEW g \in Goroutines, NEW m \in Messages, Deliver(g, m)
  PROVE  HandsSpare(c)'
  <1>1. PICK q : q = [Idle EXCEPT !.pc = "dedupe", !.msg = m]
    OBVIOUS
  <1>2. q.pc = "dedupe"
    BY <1>1 DEF Idle
  <1>3. hand' = [h \in Goroutines |-> IF h = g THEN q ELSE hand[h]]
    BY <1>1 DEF HandsKnow, Deliver
  <1> QED
    BY <1>2, <1>3 DEF HandsSpare, Writer

LEMMA IndexSpares ==
  ASSUME HandsKnow, NEW c, HandsSpare(c), NEW g \in Goroutines, Index(g)
  PROVE  HandsSpare(c)'
  <1>1. PICK r : r = hand[g] /\ IsHand(r)
    BY DEF HandsKnow, IsHand
  <1>2. PICK at : at = SelectInSeq(list, LAMBDA d : d = Writer(g))
    OBVIOUS
  <1>3. hand' = [hand EXCEPT ![g] = [@ EXCEPT !.pc = "delete", !.at = at]]
    BY <1>2 DEF Index
  <1>4. hand' = [h \in Goroutines |-> IF h = g THEN [[r EXCEPT !.pc = "delete"] EXCEPT !.at = at] ELSE hand[h]]
    BY <1>1, <1>3 DEF HandsKnow
  <1>5. [[r EXCEPT !.pc = "delete"] EXCEPT !.at = at].pc = "delete"
    BY <1>1 DEF IsHand
  <1> QED
    BY <1>4, <1>5 DEF HandsSpare, Writer

LEMMA DeleteSpares ==
  ASSUME HandsKnow, NEW c, HandsSpare(c), list \in Others(c), NEW g \in Goroutines, Delete(g)
  PROVE  HandsSpare(c)'
  <1>1. PICK r : r = hand[g] /\ IsHand(r)
    BY DEF HandsKnow, IsHand
  <1>2. CASE up'
    <2>1. PICK rest : rest = RemoveAt(list, hand[g].at)
      OBVIOUS
    <2>2. hand' = [hand EXCEPT ![g] = [@ EXCEPT !.pc = "store", !.rest = rest]]
      BY <1>2, <2>1, Zenon DEF Delete
    <2>3. hand' = [h \in Goroutines |->
                     IF h = g THEN [[r EXCEPT !.pc = "store"] EXCEPT !.rest = rest] ELSE hand[h]]
      BY <1>1, <2>2 DEF HandsKnow
    <2>4. /\ [[r EXCEPT !.pc = "store"] EXCEPT !.rest = rest].pc = "store"
          /\ [[r EXCEPT !.pc = "store"] EXCEPT !.rest = rest].rest = rest
      BY <1>1 DEF IsHand
    <2>5. hand[g].at \in DOMAIN list
      BY <1>2 DEF Delete
    <2>6. rest \in Others(c)
      BY <2>1, <2>5, RemovalSpares DEF Others
    <2> QED
      BY <2>3, <2>4, <2>6 DEF HandsSpare, Writer
  <1>3. CASE ~up'
    <2>1. Ends(g)
      BY <1>3 DEF Delete
    <2> QED
      BY <2>1, EndsSpares
  <1> QED
    BY <1>2, <1>3

\* Only the chatter's own shoutout counts for them, and only a new stream clears it.
LEMMA SatedFrame ==
  ASSUME NEW c, Sated(c), HandsSpare(c) => HandsSpare(c)',
         UNCHANGED <<list, fetch, key, stamped, shouts>>
  PROVE  Sated(c)'
  BY DEF Sated, Others

LEMMA ShoutSates ==
  ASSUME HandsKnow, NEW c \in Chatters, Sated(c), NEW g \in Goroutines, Shout(g)
  PROVE  Sated(c)'
  <1>1. PICK w : w = Writer(g)
    OBVIOUS
  <1>2. /\ shouts' = [d \in Chatters |-> IF d = w THEN shouts[d] + 1 ELSE shouts[d]]
        /\ UNCHANGED <<list, fetch, key, stamped>>
    BY <1>1 DEF Shout, Sated
  <1>3. key = 1 => w # c /\ HandsSpare(c)'
    <2> SUFFICES ASSUME key = 1 PROVE w # c /\ HandsSpare(c)'
      OBVIOUS
    <2>1. HandsSpare(c)
      BY DEF Sated
    <2>2. hand[g].pc = "shout" /\ Goes(g, "index")
      BY DEF Shout
    <2> QED
      BY <1>1, <2>1, <2>2, GoesSpares DEF HandsSpare
  <1>4. shouts' = [d \in Chatters |-> shouts'[d]]
    BY <1>2
  <1> QED
    BY <1>2, <1>3, <1>4 DEF Sated, Others

LEMMA StoreSates ==
  ASSUME HandsKnow, NEW c \in Chatters, Sated(c), NEW g \in Goroutines, Store(g)
  PROVE  Sated(c)'
  <1>1. /\ hand[g].pc = "store" /\ list' = hand[g].rest /\ Ends(g)
        /\ UNCHANGED <<fetch, key, stamped, shouts>>
    BY DEF Store
  <1>2. key = 1 => list' \in Others(c) /\ HandsSpare(c)'
    BY <1>1, EndsSpares DEF Sated, HandsSpare
  <1> QED
    BY <1>1, <1>2 DEF Sated, Others

\* The other steps of a message's goroutine.
LEMMA GoroutineSates ==
  ASSUME HandsKnow, NEW c \in Chatters, Sated(c), NEW g \in Goroutines
  PROVE  /\ \A m \in Messages : Deliver(g, m) => Sated(c)'
         /\ Ask(g) \/ IsListed(g) \/ Shout(g) \/ Index(g) \/ Delete(g) \/ Store(g) => Sated(c)'
  <1>1. ASSUME NEW m \in Messages, Deliver(g, m) PROVE Sated(c)'
    <2>1. UNCHANGED <<list, fetch, key, stamped, shouts>>
      BY <1>1 DEF Deliver
    <2> QED
      BY <1>1, <2>1, DeliverSpares, SatedFrame
  <1>2. ASSUME Ask(g) PROVE Sated(c)'
    <2>1. UNCHANGED <<list, fetch, key, stamped, shouts>> /\ (Goes(g, "contains") \/ Ends(g))
      BY <1>2 DEF Ask, AskUnless
    <2> QED
      BY <2>1, GoesSpares, EndsSpares, SatedFrame
  <1>3. ASSUME IsListed(g) PROVE Sated(c)'
    <2>1. /\ UNCHANGED <<list, fetch, key, stamped, shouts>>
          /\ (Goes(g, "shout") /\ Writer(g) \in ToSet(list)) \/ Ends(g)
      BY <1>3 DEF IsListed
    <2>2. key = 1 => c \notin ToSet(list) /\ HandsSpare(c)
      BY DEF Sated, Others, ToSet
    <2>3. key = 1 => HandsSpare(c)'
      BY <2>1, <2>2, GoesSpares, EndsSpares
    <2> QED
      BY <2>1, <2>3 DEF Sated, Others
  <1>4. ASSUME Index(g) PROVE Sated(c)'
    <2>1. UNCHANGED <<list, fetch, key, stamped, shouts>>
      BY <1>4 DEF Index
    <2> QED
      BY <1>4, <2>1, IndexSpares, SatedFrame
  <1>5. ASSUME Delete(g) PROVE Sated(c)'
    <2>1. UNCHANGED <<list, fetch, key, stamped, shouts>>
      BY <1>5 DEF Delete
    <2>2. key = 1 => HandsSpare(c)'
      BY <1>5, DeleteSpares DEF Sated
    <2> QED
      BY <2>1, <2>2 DEF Sated, Others
  <1> QED
    BY <1>1, <1>2, <1>3, <1>4, <1>5, ShoutSates, StoreSates

LEMMA ListSates ==
  ASSUME HandsKnow, NEW c \in Chatters, Sated(c), ListStep
  PROVE  Sated(c)'
  <1>0. ASSUME UNCHANGED hand PROVE HandsSpare(c)' = HandsSpare(c)
    BY <1>0 DEF HandsSpare, Others, Writer
  <1>1. CASE MapFault
    <2>1. UNCHANGED <<hand, list, fetch, key, stamped, shouts>>
      BY <1>1 DEF MapFault
    <2> QED
      BY <1>0, <2>1, SatedFrame
  <1>2. ASSUME NEW fresh \in BOOLEAN, GoLive(fresh) PROVE Sated(c)'
    <2>1. /\ UNCHANGED <<hand, list, stamped>> /\ fetch' = [NoFetch EXCEPT !.pc = "query"]
          /\ fresh => key' = key + 1 /\ shouts' = [d \in Chatters |-> 0]
          /\ ~fresh => key' = key /\ shouts' = shouts
      BY <1>2 DEF GoLive
    <2>2. fetch'.pc # "assign"
      BY <2>1 DEF NoFetch
    <2>3. key \in Nat \ {0}
      BY DEF Sated
    <2>4. CASE fresh
      <3>1. key' \in Nat \ {0} /\ key' # 1
        BY <2>1, <2>3, <2>4
      <3>2. shouts' = [d \in Chatters |-> shouts'[d]]
        BY <2>1, <2>4
      <3> QED
        BY <2>1, <3>1, <3>2 DEF Sated
    <2>5. CASE ~fresh
      BY <1>0, <2>1, <2>2, <2>5 DEF Sated, Others
    <2> QED
      BY <2>4, <2>5
  <1>3. CASE Query
    <2>1. PICK page \in {<< >>, SetToSeq({d \in Chatters : stamped[d] # key})} :
            fetch' = [pc |-> "assign", rows |-> page]
      BY <1>3 DEF Query, QueryFor
    <2>2. UNCHANGED <<hand, list, key, stamped, shouts>>
      BY <1>3 DEF Query, QueryFor
    <2>3. ASSUME key = 1 PROVE page \in Others(c)
      <3>1. {d \in Chatters : stamped[d] # key} \subseteq Chatters \ {c}
        BY <2>3 DEF Sated
      <3>2. SetToSeq({d \in Chatters : stamped[d] # key}) \in Seq({d \in Chatters : stamped[d] # key})
        BY FetchedAreOwed
      <3>3. SetToSeq({d \in Chatters : stamped[d] # key}) \in Others(c)
        BY <3>1, <3>2, SequencesGrow DEF Others
      <3>4. << >> \in Others(c)
        BY DEF Others
      <3> QED
        BY <3>3, <3>4, Zenon
    <2>4. fetch'.rows = page
      BY <2>1
    <2> QED
      BY <1>0, <2>2, <2>3, <2>4 DEF Sated, Others
  <1>4. CASE Assign
    <2>1. /\ fetch.pc = "assign" /\ list' = fetch.rows /\ fetch' = NoFetch
          /\ UNCHANGED <<hand, key, stamped, shouts>>
      BY <1>4 DEF Assign
    <2>2. fetch'.pc # "assign"
      BY <2>1 DEF NoFetch
    <2> QED
      BY <1>0, <2>1, <2>2 DEF Sated, Others
  <1>5. ASSUME NEW d \in Chatters, Stamp(d) PROVE Sated(c)'
    <2>1. /\ stamped' = stamped \/ stamped' = [stamped EXCEPT ![d] = key]
          /\ UNCHANGED <<hand, list, fetch, key, shouts>>
      BY <1>5 DEF Stamp
    <2>2. /\ stamped' = [e \in Chatters |-> stamped'[e]]
          /\ stamped'[c] \in {stamped[c], key}
      BY <2>1 DEF Sated
    <2> QED
      BY <1>0, <2>1, <2>2 DEF Sated, Others
  <1> QED
    BY <1>1, <1>2, <1>3, <1>4, <1>5 DEF ListStep

\* What a command does to core-api's tables and the watch leaves the list alone.
LEMMA CommandSates ==
  ASSUME HandsKnow, NEW c \in Chatters, Sated(c), [CommandNext]_commandVars
  PROVE  Sated(c)'
  <1>0. ASSUME UNCHANGED chatVars PROVE Sated(c)'
    <2>1. UNCHANGED <<hand, list, fetch, key, stamped, shouts>>
      BY <1>0 DEF chatVars
    <2>2. HandsSpare(c)' = HandsSpare(c)
      BY <2>1 DEF HandsSpare, Others, Writer
    <2> QED
      BY <2>1, <2>2, SatedFrame
  <1>1. ASSUME NEW g \in Goroutines, NEW m \in Messages, DeliverScript(g, m) PROVE Sated(c)'
    BY <1>1, GoroutineSates DEF DeliverScript
  <1>2. ASSUME NEW g \in Goroutines, AskScript(g) PROVE Sated(c)'
    BY <1>2, GoroutineSates DEF AskScript
  <1>3. ASSUME NEW g \in Goroutines, Dispatch(g) \/ Remember(g) PROVE Sated(c)'
    BY <1>0, <1>3 DEF Dispatch, Remember
  <1>4. ASSUME NEW g \in Goroutines, Finish(g) PROVE Sated(c)'
    <2>1. IsListed(g) \/ (Ends(g) /\ UNCHANGED <<list, fetch, key, stamped, shouts>>)
      BY <1>4 DEF Finish
    <2> QED
      BY <2>1, GoroutineSates, EndsSpares, SatedFrame
  <1>5. ASSUME NEW g \in Goroutines, Shout(g) \/ Index(g) \/ Delete(g) \/ Store(g) PROVE Sated(c)'
    BY <1>5, GoroutineSates
  <1>6. ASSUME NEW d, Replied(d) \/ TimesOut(d) PROVE Sated(c)'
    BY <1>0, <1>6 DEF Replied, TimesOut
  <1>7. ASSUME NEW d, InstallTarget(d) \/ HydrateLast(d) \/ Quote(d) \/ SetApplies(d) \/ UnsetApplies(d)
        PROVE  Sated(c)'
    BY <1>0, <1>7 DEF InstallTarget, HydrateLast, Quote, SetApplies, UnsetApplies, Holds
  <1>8. ASSUME NEW d, Counting(d) \/ Stalking(d) \/ Promoting(d) \/ Fails(d) PROVE Sated(c)'
    BY <1>0, <1>8, CallsRest
  <1>9. ASSUME NEW o, Dashboard(o) PROVE Sated(c)'
    BY <1>0, <1>9 DEF Dashboard
  <1>10. CASE UNCHANGED commandVars
    BY <1>0, <1>10 DEF commandVars
  <1> QED
    BY <1>1, <1>2, <1>3, <1>4, <1>5, <1>6, <1>7, <1>8, <1>9, <1>10, ListSates DEF CommandNext

\* "survives a bot restart": for any chatters, rows, messages and goroutines, a chatter whose row
\* bears the stream's key at boot gets no second shoutout in that stream.
THEOREM RestartSpares == CommandSpec => SurvivesRestart
  <1> SUFFICES ASSUME NEW c \in Chatters
               PROVE  CommandSpec => (stamped[c] = 1 => [](key = 1 => shouts[c] = 1))
    BY DEF SurvivesRestart
  <1>1. CommandInit /\ stamped[c] = 1 => Sated(c)
    <2> SUFFICES ASSUME CommandInit, stamped[c] = 1 PROVE Sated(c)
      OBVIOUS
    <2>1. Boots /\ stamped \in [Chatters -> {0, 1}] /\ fetch.pc # "assign"
      BY DEF CommandInit, ChatInit, ChatInitShouted, NoFetch
    <2>2. \A g \in Goroutines : hand[g].pc = "idle"
      BY <2>1 DEF Boots, Idle
    <2> QED
      BY <2>1, <2>2 DEF Boots, Sated, Others, HandsSpare
  <1>2. FilterInv /\ Sated(c) /\ [CommandNext]_commandVars => Sated(c)'
    BY CommandSates DEF FilterInv
  <1>3. Sated(c) => (key = 1 => shouts[c] = 1)
    BY DEF Sated
  <1> QED
    BY <1>1, <1>2, <1>3, FilterInductive, PTL DEF CommandSpec
-----------------------------------------------------------------------------
(* The counts: what of the messages delivered was run.  A message that was *)
(* acted on once has one goroutine, which takes up its commands in order   *)
(* (DeliveriesKnow), so a command enters Run once.                         *)

Rows == Counters \X People

LEMMA CounterKey ==
  ASSUME NEW k \in Rows
  PROVE  /\ k # Stalk /\ k # Promo
         /\ \A o : Key(o) = k => o.op = k[1] /\ o.op \in Counters
  <1>1. PICK a \in Counters, b \in People : k = <<a, b>>
    BY DEF Rows
  <1>2. k # Stalk /\ k # Promo
    BY <1>1, KeysApart
  <1>3. ASSUME NEW o, Key(o) = k PROVE o.op = k[1] /\ o.op \in Counters
    <2>1. o.op \in Counters
      BY <1>2, <1>3, KeyOf
    <2>2. Key(o) = <<o.op, o.who>>
      BY <2>1, KeysApart DEF Key
    <2> QED
      BY <1>1, <1>3, <2>1, <2>2
  <1> QED
    BY <1>2, <1>3

\* How a step of a goroutine leaves the others, and its own step.
OneHand(g) == \A h \in Goroutines : h # g => hand'[h] = hand[h]

LEMMA GoesHand ==
  ASSUME HandsKnow, NEW g \in Goroutines, NEW pc, Goes(g, pc)
  PROVE  OneHand(g) /\ hand'[g].pc = pc /\ hand'[g].msg = hand[g].msg
  <1>1. PICK r : r = hand[g] /\ IsHand(r)
    BY DEF HandsKnow, IsHand
  <1>2. hand' = [h \in Goroutines |-> IF h = g THEN [r EXCEPT !.pc = pc] ELSE hand[h]]
    BY <1>1 DEF HandsKnow, Goes
  <1>3. [r EXCEPT !.pc = pc].pc = pc /\ [r EXCEPT !.pc = pc].msg = r.msg
    BY <1>1 DEF IsHand
  <1> QED
    BY <1>1, <1>2, <1>3 DEF OneHand

LEMMA EndsHand ==
  ASSUME HandsKnow, NEW g \in Goroutines, Ends(g)
  PROVE  OneHand(g) /\ hand'[g].pc = "idle"
  <1>1. hand' = [h \in Goroutines |-> IF h = g THEN Idle ELSE hand[h]]
    BY DEF HandsKnow, Ends
  <1>2. Idle.pc = "idle"
    BY DEF Idle
  <1> QED
    BY <1>1, <1>2 DEF OneHand

LEMMA DeliverHand ==
  ASSUME HandsKnow, NEW g \in Goroutines, NEW m \in Messages, Deliver(g, m)
  PROVE  OneHand(g) /\ hand'[g].pc = "dedupe" /\ hand'[g].msg = m /\ hand[g].pc = "idle"
  <1>1. PICK q : q = [Idle EXCEPT !.pc = "dedupe", !.msg = m]
    OBVIOUS
  <1>2. q.pc = "dedupe" /\ q.msg = m
    BY <1>1 DEF Idle
  <1>3. hand' = [h \in Goroutines |-> IF h = g THEN q ELSE hand[h]] /\ hand[g].pc = "idle"
    BY <1>1 DEF HandsKnow, Deliver
  <1> QED
    BY <1>2, <1>3 DEF OneHand

LEMMA IndexHand ==
  ASSUME HandsKnow, NEW g \in Goroutines, Index(g)
  PROVE  OneHand(g) /\ hand'[g].pc = "delete" /\ hand[g].pc = "index"
  <1>1. PICK r : r = hand[g] /\ IsHand(r)
    BY DEF HandsKnow, IsHand
  <1>2. PICK at : at = SelectInSeq(list, LAMBDA d : d = Writer(g))
    OBVIOUS
  <1>3. hand' = [hand EXCEPT ![g] = [@ EXCEPT !.pc = "delete", !.at = at]] /\ hand[g].pc = "index"
    BY <1>2 DEF Index
  <1>4. hand' = [h \in Goroutines |-> IF h = g THEN [[r EXCEPT !.pc = "delete"] EXCEPT !.at = at] ELSE hand[h]]
    BY <1>1, <1>3 DEF HandsKnow
  <1>5. [[r EXCEPT !.pc = "delete"] EXCEPT !.at = at].pc = "delete"
    BY <1>1 DEF IsHand
  <1> QED
    BY <1>3, <1>4, <1>5 DEF OneHand

LEMMA DeleteHand ==
  ASSUME HandsKnow, NEW g \in Goroutines, Delete(g)
  PROVE  OneHand(g) /\ hand'[g].pc \in {"idle", "store"} /\ hand[g].pc = "delete"
  <1>1. PICK r : r = hand[g] /\ IsHand(r)
    BY DEF HandsKnow, IsHand
  <1>2. CASE up'
    <2>1. PICK rest : rest = RemoveAt(list, hand[g].at)
      OBVIOUS
    <2>2. hand' = [hand EXCEPT ![g] = [@ EXCEPT !.pc = "store", !.rest = rest]]
      BY <1>2, <2>1, Zenon DEF Delete
    <2>3. hand' = [h \in Goroutines |->
                     IF h = g THEN [[r EXCEPT !.pc = "store"] EXCEPT !.rest = rest] ELSE hand[h]]
      BY <1>1, <2>2 DEF HandsKnow
    <2>4. [[r EXCEPT !.pc = "store"] EXCEPT !.rest = rest].pc = "store"
      BY <1>1 DEF IsHand
    <2>5. hand[g].pc = "delete"
      BY DEF Delete
    <2> QED
      BY <2>3, <2>4, <2>5 DEF OneHand
  <1>3. CASE ~up'
    <2>1. Ends(g) /\ hand[g].pc = "delete"
      BY <1>3 DEF Delete
    <2> QED
      BY <2>1, EndsHand
  <1> QED
    BY <1>2, <1>3

\* A goroutine with commands still to run takes part in no other step.
Quiet ==
  /\ UNCHANGED <<says, sent, taken, set, todo>>
  /\ \A g \in Goroutines :
       \/ hand'[g] = hand[g]
       \/ ~Busy(g) /\ hand[g].pc # "dedupe" /\ hand'[g].pc # "dedupe"

LEMMA HandQuiet ==
  ASSUME HandsKnow, DeliveriesKnow, NEW g \in Goroutines, UNCHANGED commandOnly,
         Finish(g) \/ Shout(g) \/ Index(g) \/ Delete(g) \/ Store(g)
  PROVE  Quiet
  <1>1. UNCHANGED <<says, sent, taken, set, todo>>
    BY DEF Finish, IsListed, Shout, Index, Delete, Store, commandOnly, cache, twitch
  <1>2. /\ OneHand(g) /\ ~Busy(g) /\ hand[g].pc # "dedupe" /\ hand'[g].pc # "dedupe"
    <2>1. CASE Finish(g)
      <3>1. todo[g] = << >> /\ hand[g].pc = "contains" /\ (Ends(g) \/ Goes(g, "shout"))
        BY <2>1 DEF Finish, Free, IsListed
      <3> QED
        BY <3>1, EndsHand, GoesHand DEF Busy
    <2>2. CASE Shout(g)
      <3>1. hand[g].pc = "shout" /\ Goes(g, "index")
        BY <2>2 DEF Shout
      <3> QED
        BY <3>1, GoesHand DEF DeliveriesKnow
    <2>3. CASE Index(g)
      BY <2>3, IndexHand DEF DeliveriesKnow
    <2>4. CASE Delete(g)
      BY <2>4, DeleteHand DEF DeliveriesKnow
    <2>5. CASE Store(g)
      <3>1. hand[g].pc = "store" /\ Ends(g)
        BY <2>5 DEF Store
      <3> QED
        BY <3>1, EndsHand DEF DeliveriesKnow
    <2> QED
      BY <2>1, <2>2, <2>3, <2>4, <2>5
  <1> QED
    BY <1>1, <1>2 DEF Quiet, OneHand

LEMMA QuietDeliveries ==
  ASSUME DeliveriesKnow, Quiet
  PROVE  DeliveriesKnow' /\ \A k : Run(k)' = Run(k) /\ Sendings(k)' = Sendings(k)
  <1>1. /\ UNCHANGED <<says, sent, taken, set, todo>> /\ TakenOnce' = TakenOnce
        /\ \A g \in Goroutines : Busy(g)' = Busy(g) /\ (Busy(g) => Behind(g)' = Behind(g) /\ hand'[g] = hand[g])
    BY DEF Quiet, Busy, Behind, TakenOnce
  <1>2. \A g \in Goroutines : (hand'[g].pc = "dedupe") = (hand[g].pc = "dedupe")
                                /\ (hand[g].pc = "dedupe" => hand'[g] = hand[g])
    BY DEF Quiet
  <1>3. /\ set' \subseteq ToSet(taken') /\ ToSet(taken') \subseteq sent'
        /\ \A g \in Goroutines : hand'[g].pc = "dedupe" => hand'[g].msg \in sent'
        /\ \A m \in sent' : m \in ToSet(taken')
             \/ \E g \in Goroutines : hand'[g].pc = "dedupe" /\ hand'[g].msg = m
    BY <1>1, <1>2 DEF DeliveriesKnow
  <1>4. \A g \in Goroutines : Busy(g)' =>
       /\ hand'[g].pc = "contains" /\ hand'[g].msg \in DOMAIN says' \cap ToSet(taken')
       /\ Behind(g)' \in Nat
       /\ \A i \in DOMAIN todo'[g] : todo'[g][i] = says'[hand'[g].msg][Behind(g)' + i]
    BY <1>1 DEF DeliveriesKnow
  <1>5. TakenOnce' => \A g, h \in Goroutines :
       Busy(g)' /\ Busy(h)' /\ hand'[g].msg = hand'[h].msg /\ hand'[g].msg \in Tallied(says)' => g = h
    BY <1>1 DEF DeliveriesKnow
  <1>6. ASSUME NEW k PROVE Run(k)' = Run(k) /\ Sendings(k)' = Sendings(k)
    <2>1. Sendings(k)' = Sendings(k)
      BY <1>1 DEF Sendings
    <2>2. \A x : (\A g \in Goroutines : Busy(g)' /\ hand'[g].msg = x[1] => x[2] <= Behind(g)')
                   = (\A g \in Goroutines : Busy(g) /\ hand[g].msg = x[1] => x[2] <= Behind(g))
      BY <1>1
    <2> QED
      BY <1>1, <2>1, <2>2 DEF Run
  <1> QED
    BY <1>3, <1>4, <1>5, <1>6 DEF DeliveriesKnow

\* The commands of one message are finitely many.
LEMMA SaysFinite ==
  ASSUME CallsKnow, NEW k, NEW m \in DOMAIN says
  PROVE  IsFiniteSet({<<m, i>> : i \in {j \in DOMAIN says[m] : Key(says[m][j]) = k}})
  <1> DEFINE I == {j \in DOMAIN says[m] : Key(says[m][j]) = k}
             S == {<<m, i>> : i \in I}
  <1>1. DOMAIN says[m] = 1..Len(says[m]) /\ Len(says[m]) \in Nat
    BY DEF CallsKnow
  <1>2. IsFiniteSet(1..Len(says[m]))
    BY <1>1, FS_Interval
  <1>3. IsFiniteSet(I)
    BY <1>1, <1>2, FS_Subset
  <1>4. [i \in I |-> <<m, i>>] \in Surjection(I, S)
    BY DEF Surjection
  <1> QED
    BY <1>3, <1>4, FS_Surjection

\* One more message delivered.
LEMMA DeliverSendings ==
  ASSUME CallsKnow, NEW k, NEW m, sent' = sent \cup {m}, says' = says
  PROVE  /\ \A x : x \in Sendings(k)' <=> x \in Sendings(k) \/ (x \in Sendings(k)' /\ x[1] = m)
         /\ IsFiniteSet(Sendings(k)) => IsFiniteSet(Sendings(k)')
         /\ m \in sent => Sendings(k)' = Sendings(k)
  <1> DEFINE of(n) == {<<n, i>> : i \in {j \in DOMAIN says[n] : Key(says[n][j]) = k}}
  <1>1. Sendings(k) = UNION {of(n) : n \in sent \cap DOMAIN says}
    BY DEF Sendings
  <1>2. Sendings(k)' = UNION {of(n) : n \in (sent \cup {m}) \cap DOMAIN says}
    BY DEF Sendings
  <1>3. CASE m \in DOMAIN says
    <2>1. Sendings(k)' = Sendings(k) \cup of(m)
      BY <1>1, <1>2, <1>3
    <2>2. IsFiniteSet(of(m))
      BY <1>3, SaysFinite
    <2>3. \A x \in of(m) : x[1] = m
      OBVIOUS
    <2>4. IsFiniteSet(Sendings(k)) => IsFiniteSet(Sendings(k)')
      BY <2>1, <2>2, FS_Union
    <2>5. m \in sent => Sendings(k)' = Sendings(k)
      BY <1>1, <1>2
    <2> QED
      BY <2>1, <2>3, <2>4, <2>5
  <1>4. CASE m \notin DOMAIN says
    <2>1. Sendings(k)' = Sendings(k)
      BY <1>1, <1>2, <1>4
    <2> QED
      BY <2>1
  <1> QED
    BY <1>3, <1>4

LEMMA SendingOf ==
  ASSUME CallsKnow, NEW k, NEW x
  PROVE  x \in Sendings(k) <=> /\ x = <<x[1], x[2]>> /\ x[1] \in sent \cap DOMAIN says
                               /\ x[2] \in 1..Len(says[x[1]]) /\ Key(says[x[1]][x[2]]) = k
  <1>1. \A m \in DOMAIN says : DOMAIN says[m] = 1..Len(says[m])
    BY DEF CallsKnow
  <1>2. ASSUME x \in Sendings(k)
        PROVE  /\ x = <<x[1], x[2]>> /\ x[1] \in sent \cap DOMAIN says
               /\ x[2] \in 1..Len(says[x[1]]) /\ Key(says[x[1]][x[2]]) = k
    <2>1. PICK m \in sent \cap DOMAIN says :
             x \in {<<m, i>> : i \in {j \in DOMAIN says[m] : Key(says[m][j]) = k}}
      BY <1>2 DEF Sendings
    <2>2. PICK i \in DOMAIN says[m] : Key(says[m][i]) = k /\ x = <<m, i>>
      BY <2>1
    <2> QED
      BY <1>1, <2>2
  <1>3. ASSUME x = <<x[1], x[2]>>, x[1] \in sent \cap DOMAIN says,
               x[2] \in 1..Len(says[x[1]]), Key(says[x[1]][x[2]]) = k
        PROVE  x \in Sendings(k)
    <2>1. PICK m, i : m = x[1] /\ i = x[2] /\ x = <<m, i>>
      BY <1>3
    <2>2. x \in {<<m, j>> : j \in {h \in DOMAIN says[m] : Key(says[m][h]) = k}}
      BY <1>1, <1>3, <2>1
    <2> QED
      BY <1>3, <2>1, <2>2 DEF Sendings
  <1> QED
    BY <1>2, <1>3

LEMMA DeliverKnow ==
  ASSUME CallsKnow, HandsKnow, DeliveriesKnow, NEW g \in Goroutines, NEW m \in Messages, DeliverScript(g, m)
  PROVE  /\ DeliveriesKnow'
         /\ \A k : /\ Run(k)' = Run(k)
                   /\ IsFiniteSet(Sendings(k)) => IsFiniteSet(Sendings(k)')
  <1>1. /\ OneHand(g) /\ hand'[g].pc = "dedupe" /\ hand'[g].msg = m /\ hand[g].pc = "idle"
    BY DeliverHand DEF DeliverScript
  <1>2. /\ UNCHANGED <<says, taken, set, todo>> /\ sent' = sent \cup {m}
    BY DEF DeliverScript, Deliver, commandOnly, cache
  <1>3. ~Busy(g) /\ TakenOnce' = TakenOnce
    BY <1>1, <1>2 DEF DeliveriesKnow, TakenOnce
  <1>4. \A h \in Goroutines : Busy(h)' = Busy(h) /\ (Busy(h) => Behind(h)' = Behind(h) /\ hand'[h] = hand[h])
    BY <1>1, <1>2, <1>3 DEF OneHand, Busy, Behind
  <1>5. /\ set' \subseteq ToSet(taken') /\ ToSet(taken') \subseteq sent'
        /\ \A h \in Goroutines : hand'[h].pc = "dedupe" => hand'[h].msg \in sent'
    BY <1>1, <1>2 DEF DeliveriesKnow, OneHand
  <1>6. \A n \in sent' : n \in ToSet(taken')
             \/ \E h \in Goroutines : hand'[h].pc = "dedupe" /\ hand'[h].msg = n
    BY <1>1, <1>2 DEF DeliveriesKnow, OneHand
  <1>7. \A h \in Goroutines : Busy(h)' =>
       /\ hand'[h].pc = "contains" /\ hand'[h].msg \in DOMAIN says' \cap ToSet(taken')
       /\ Behind(h)' \in Nat
       /\ \A i \in DOMAIN todo'[h] : todo'[h][i] = says'[hand'[h].msg][Behind(h)' + i]
    BY <1>2, <1>4 DEF DeliveriesKnow
  <1>8. TakenOnce' => \A e, h \in Goroutines :
       Busy(e)' /\ Busy(h)' /\ hand'[e].msg = hand'[h].msg /\ hand'[e].msg \in Tallied(says)' => e = h
    BY <1>2, <1>3, <1>4 DEF DeliveriesKnow, Tallied
  <1>9. ASSUME NEW k PROVE Run(k)' = Run(k)
    <2>1. \A x : (\A h \in Goroutines : Busy(h)' /\ hand'[h].msg = x[1] => x[2] <= Behind(h)')
                   = (\A h \in Goroutines : Busy(h) /\ hand[h].msg = x[1] => x[2] <= Behind(h))
      BY <1>4
    <2>2. \A x : x[1] \in ToSet(taken) => (x \in Sendings(k)' <=> x \in Sendings(k))
      <3>1. CASE m \in sent
        BY <1>2, <3>1, DeliverSendings
      <3>2. CASE m \notin sent
        <4>1. m \notin ToSet(taken)
          BY <3>2 DEF DeliveriesKnow
        <4> QED
          BY <1>2, <4>1, DeliverSendings
      <3> QED
        BY <3>1, <3>2
    <2> QED
      BY <1>2, <2>1, <2>2 DEF Run
  <1>10. \A k : IsFiniteSet(Sendings(k)) => IsFiniteSet(Sendings(k)')
    BY <1>2, DeliverSendings
  <1> QED
    BY <1>5, <1>6, <1>7, <1>8, <1>9, <1>10 DEF DeliveriesKnow

\* What the filter lets through has not been acted on, as far as it is remembered.
LEMMA AskKnow ==
  ASSUME CallsKnow, HandsKnow, taken \in Seq(Messages), DeliveriesKnow, NEW g \in Goroutines, AskScript(g)
  PROVE  /\ DeliveriesKnow' /\ (TakenOnce' => TakenOnce)
         /\ \A k : Sendings(k)' = Sendings(k)
         /\ TakenOnce' => \A k \in Rows : Run(k)' = Run(k)
  <1>m. PICK m : m = hand[g].msg /\ m \in Messages
    BY DEF HandsKnow
  <1>1. /\ hand[g].pc = "dedupe" /\ UNCHANGED <<says, sent>> /\ ~Busy(g) /\ m \in sent
        /\ OneHand(g) /\ hand'[g].pc # "dedupe"
    <2>1. hand[g].pc = "dedupe" /\ UNCHANGED <<says, sent>> /\ (Ends(g) \/ Goes(g, "contains"))
      BY DEF AskScript, Ask, AskUnless, twitch
    <2> QED
      BY <1>m, <2>1, EndsHand, GoesHand DEF DeliveriesKnow
  <1>2. \/ m \in set /\ UNCHANGED <<taken, set, todo>>
        \/ /\ taken' = Append(taken, m) /\ set' \subseteq set \cup {m}
           /\ IF m \in DOMAIN says THEN /\ todo' = [todo EXCEPT ![g] = says[m]]
                                        /\ hand'[g].pc = "contains" /\ hand'[g].msg = m
              ELSE todo' = todo
    <2>1. CASE SeenDuplicate(m) /\ taken' = taken
      <3>1. ~(Len(taken') > Len(taken))
        BY <2>1
      <3> QED
        BY <1>m, <2>1, <3>1 DEF AskScript, SeenDuplicate
    <2>2. CASE /\ (SeenNew(m) \/ SeenEmpty) /\ taken' = Append(taken, m)
               /\ Goes(g, "contains") \/ Ends(g)
      <3>1. Len(taken') > Len(taken)
        BY <2>2
      <3>2. set' \subseteq set \cup {m}
        BY <2>2 DEF SeenNew, ClaimForgetting, SeenEmpty
      <3>3. m \in DOMAIN says => hand'[g].pc = "contains" /\ hand'[g].msg = m
        <4>1. m \in DOMAIN says => hand'[g].pc = "contains"
          BY <1>m, <3>1 DEF AskScript
        <4> QED
          BY <1>m, <2>2, <4>1, GoesHand, EndsHand
      <3>4. IF m \in DOMAIN says THEN todo' = [todo EXCEPT ![g] = says[m]] ELSE todo' = todo
        BY <1>m, <3>1 DEF AskScript
      <3> QED
        BY <2>2, <3>2, <3>3, <3>4
    <2> QED
      BY <1>m, <2>1, <2>2 DEF AskScript, Ask, AskUnless
  <1>k. \A k : Sendings(k)' = Sendings(k)
    BY <1>1 DEF Sendings
  <1>3. CASE m \in set /\ UNCHANGED <<taken, set, todo>>
    <2>1. \A h \in Goroutines : Busy(h)' = Busy(h) /\ (Busy(h) => Behind(h)' = Behind(h) /\ hand'[h] = hand[h])
      BY <1>1, <1>3 DEF OneHand, Busy, Behind
    <2>2. TakenOnce' = TakenOnce
      BY <1>1, <1>3 DEF TakenOnce
    <2>3. /\ set' \subseteq ToSet(taken') /\ ToSet(taken') \subseteq sent'
          /\ \A h \in Goroutines : hand'[h].pc = "dedupe" => hand'[h].msg \in sent'
      BY <1>1, <1>3 DEF DeliveriesKnow, OneHand
    <2>4. \A n \in sent' : n \in ToSet(taken')
             \/ \E h \in Goroutines : hand'[h].pc = "dedupe" /\ hand'[h].msg = n
      BY <1>m, <1>1, <1>3 DEF DeliveriesKnow, OneHand
    <2>5. \A h \in Goroutines : Busy(h)' =>
       /\ hand'[h].pc = "contains" /\ hand'[h].msg \in DOMAIN says' \cap ToSet(taken')
       /\ Behind(h)' \in Nat
       /\ \A i \in DOMAIN todo'[h] : todo'[h][i] = says'[hand'[h].msg][Behind(h)' + i]
      BY <1>1, <1>3, <2>1 DEF DeliveriesKnow
    <2>6. TakenOnce' => \A e, h \in Goroutines :
       Busy(e)' /\ Busy(h)' /\ hand'[e].msg = hand'[h].msg /\ hand'[e].msg \in Tallied(says)' => e = h
      BY <1>1, <2>1, <2>2 DEF DeliveriesKnow, Tallied
    <2>7. ASSUME NEW k PROVE Run(k)' = Run(k)
      <3>1. \A x : (\A h \in Goroutines : Busy(h)' /\ hand'[h].msg = x[1] => x[2] <= Behind(h)')
                   = (\A h \in Goroutines : Busy(h) /\ hand[h].msg = x[1] => x[2] <= Behind(h))
        BY <2>1
      <3> QED
        BY <1>k, <1>3, <3>1 DEF Run
    <2> QED
      BY <1>k, <2>2, <2>3, <2>4, <2>5, <2>6, <2>7 DEF DeliveriesKnow
  <1>4. CASE /\ taken' = Append(taken, m) /\ set' \subseteq set \cup {m}
             /\ IF m \in DOMAIN says THEN /\ todo' = [todo EXCEPT ![g] = says[m]]
                                          /\ hand'[g].pc = "contains" /\ hand'[g].msg = m
                ELSE todo' = todo
    <2>1. ToSet(taken') = ToSet(taken) \cup {m}
      <3>1. /\ Len(taken) \in Nat /\ DOMAIN taken = 1..Len(taken) /\ DOMAIN taken' = 1..(Len(taken) + 1)
            /\ taken'[Len(taken) + 1] = m /\ \A i \in DOMAIN taken : taken'[i] = taken[i]
        BY <1>m, <1>4
      <3> QED
        BY <3>1 DEF ToSet
    <2>2. TakenOnce' => TakenOnce /\ (m \in Tallied(says) => m \notin ToSet(taken))
      <3>1. /\ Len(taken) \in Nat /\ DOMAIN taken = 1..Len(taken) /\ DOMAIN taken' = 1..(Len(taken) + 1)
            /\ taken'[Len(taken) + 1] = m /\ \A i \in DOMAIN taken : taken'[i] = taken[i]
        BY <1>m, <1>4
      <3>2. DOMAIN taken \subseteq DOMAIN taken' /\ Len(taken) + 1 \in DOMAIN taken' /\ Len(taken) + 1 \notin DOMAIN taken
        BY <3>1
      <3>3. ASSUME TakenOnce', m \in Tallied(says), m \in ToSet(taken) PROVE FALSE
        <4>1. PICK i \in DOMAIN taken : taken[i] = m
          BY <3>3 DEF ToSet
        <4>2. i \in DOMAIN taken' /\ i # Len(taken) + 1 /\ taken'[i] = taken'[Len(taken) + 1]
          BY <3>1, <3>2, <4>1
        <4> QED
          BY <1>1, <3>1, <3>2, <3>3, <4>1, <4>2 DEF TakenOnce
      <3>4. TakenOnce' => TakenOnce
        BY <1>1, <3>1, <3>2 DEF TakenOnce
      <3> QED
        BY <3>3, <3>4
    <2>3. \A h \in Goroutines : h # g => Busy(h)' = Busy(h) /\ Behind(h)' = Behind(h) /\ hand'[h] = hand[h] /\ todo'[h] = todo[h]
      BY <1>1, <1>4 DEF OneHand, Busy, Behind, CallsKnow
    <2>4. Busy(g)' => m \in DOMAIN says /\ todo'[g] = says[m] /\ hand'[g].pc = "contains" /\ hand'[g].msg = m
                       /\ Behind(g)' = 0 /\ \A i \in DOMAIN todo'[g] : todo'[g][i] = says[m][0 + i]
      <3> SUFFICES ASSUME Busy(g)' PROVE m \in DOMAIN says /\ todo'[g] = says[m] /\ hand'[g].pc = "contains" /\ hand'[g].msg = m
                       /\ Behind(g)' = 0 /\ \A i \in DOMAIN todo'[g] : todo'[g][i] = says[m][0 + i]
        OBVIOUS
      <3>1. m \in DOMAIN says
        BY <1>1, <1>4 DEF Busy
      <3>2. todo'[g] = says[m] /\ says[m] \in Seq(Said) /\ hand'[g].pc = "contains" /\ hand'[g].msg = m
        BY <1>4, <3>1 DEF CallsKnow
      <3>3. Behind(g)' = 0
        BY <1>1, <3>2 DEF Behind
      <3>4. \A i \in DOMAIN says[m] : 0 + i = i
        BY <3>2
      <3> QED
        BY <3>1, <3>2, <3>3, <3>4
    <2>5. /\ set' \subseteq ToSet(taken') /\ ToSet(taken') \subseteq sent'
          /\ \A h \in Goroutines : hand'[h].pc = "dedupe" => hand'[h].msg \in sent'
      BY <1>1, <1>4, <2>1 DEF DeliveriesKnow, OneHand
    <2>6. \A n \in sent' : n \in ToSet(taken')
             \/ \E h \in Goroutines : hand'[h].pc = "dedupe" /\ hand'[h].msg = n
      BY <1>m, <1>1, <2>1 DEF DeliveriesKnow, OneHand
    <2>7. \A h \in Goroutines : Busy(h)' =>
       /\ hand'[h].pc = "contains" /\ hand'[h].msg \in DOMAIN says' \cap ToSet(taken')
       /\ Behind(h)' \in Nat
       /\ \A i \in DOMAIN todo'[h] : todo'[h][i] = says'[hand'[h].msg][Behind(h)' + i]
      BY <1>1, <2>1, <2>3, <2>4 DEF DeliveriesKnow
    <2>8. TakenOnce' => \A e, h \in Goroutines :
       Busy(e)' /\ Busy(h)' /\ hand'[e].msg = hand'[h].msg /\ hand'[e].msg \in Tallied(says)' => e = h
      BY <1>1, <2>2, <2>3, <2>4 DEF DeliveriesKnow, Tallied
    <2>9. ASSUME NEW k \in Rows, TakenOnce' PROVE Run(k)' = Run(k)
      <3>1. ASSUME NEW x \in Sendings(k), x[1] # m
            PROVE  (\A h \in Goroutines : Busy(h)' /\ hand'[h].msg = x[1] => x[2] <= Behind(h)')
                   = (\A h \in Goroutines : Busy(h) /\ hand[h].msg = x[1] => x[2] <= Behind(h))
        BY <1>1, <2>3, <2>4, <3>1
      <3>2. ASSUME NEW x \in Sendings(k), x[1] = m
            PROVE  x \notin Run(k) /\ x \notin Run(k)'
        <4>1. m \in DOMAIN says /\ x[2] \in 1..Len(says[m])
          BY <3>2, SendingOf
        <4>2. m \notin ToSet(taken)
          <5>1. Key(says[m][x[2]]) = k /\ DOMAIN says[m] = 1..Len(says[m])
            BY <3>2, <4>1, SendingOf DEF CallsKnow
          <5>2. m \in Tallied(says)
            BY <4>1, <5>1, CounterKey DEF Tallied
          <5> QED
            BY <2>2, <2>9, <5>2
        <4>3. todo'[g] = says[m] /\ says[m] # << >> /\ hand'[g].msg = m
          BY <1>4, <4>1 DEF CallsKnow
        <4>4. Busy(g)' /\ Behind(g)' = 0
          BY <2>4, <4>3 DEF Busy
        <4>5. ~(x[2] <= Behind(g)')
          BY <4>1, <4>4
        <4> QED
          BY <3>2, <4>2, <4>3, <4>4, <4>5 DEF Run
      <3>3. \A x \in Sendings(k) : x \in Run(k)' <=> x \in Run(k)
        BY <1>k, <2>1, <3>1, <3>2 DEF Run
      <3> QED
        BY <1>k, <3>3 DEF Run
    <2> QED
      BY <1>k, <2>2, <2>5, <2>6, <2>7, <2>8, <2>9 DEF DeliveriesKnow
  <1> QED
    BY <1>2, <1>3, <1>4

\* The next command is taken up.
Taking(g) == /\ Busy(g) /\ todo' = [todo EXCEPT ![g] = Tail(@)]
             /\ UNCHANGED <<says, sent, taken, set, hand>>
Upto(g) == <<hand[g].msg, Behind(g) + 1>>

LEMMA TakingRest ==
  ASSUME CallsKnow, DeliveriesKnow, NEW g \in Goroutines, Taking(g)
  PROVE  /\ \A h \in Goroutines : h # g => todo'[h] = todo[h] /\ Busy(h)' = Busy(h) /\ Behind(h)' = Behind(h)
         /\ Behind(g)' = Behind(g) + 1 /\ Behind(g) \in Nat /\ Behind(g) + 1 \in 1..Len(says[hand[g].msg])
         /\ Head(todo[g]) = says[hand[g].msg][Behind(g) + 1]
         /\ \A i \in DOMAIN todo'[g] : todo'[g][i] = says[hand[g].msg][Behind(g)' + i]
         /\ ~Busy(g)' => Behind(g) + 1 = Len(says[hand[g].msg])
         /\ hand[g].msg \in DOMAIN says \cap ToSet(taken)
  <1>1. todo \in [Goroutines -> Seq(Said)] /\ Busy(g)
    BY DEF CallsKnow, Taking
  <1>2. PICK s, m : s = todo[g] /\ m = hand[g].msg
    OBVIOUS
  <1>3. /\ s \in Seq(Said) /\ s # << >> /\ Len(s) \in Nat \ {0} /\ DOMAIN s = 1..Len(s)
        /\ Tail(s) \in Seq(Said) /\ Len(Tail(s)) = Len(s) - 1 /\ DOMAIN Tail(s) = 1..(Len(s) - 1)
        /\ Head(s) = s[1] /\ \A i \in 1..(Len(s) - 1) : Tail(s)[i] = s[i + 1]
    BY <1>1, <1>2 DEF Busy
  <1>4. todo'[g] = Tail(s) /\ \A h \in Goroutines : h # g => todo'[h] = todo[h]
    BY <1>1, <1>2 DEF Taking
  <1>5. /\ m \in DOMAIN says \cap ToSet(taken) /\ Behind(g) \in Nat /\ Behind(g) = Len(says[m]) - Len(s)
        /\ \A i \in DOMAIN s : s[i] = says[m][Behind(g) + i]
    BY <1>1, <1>2 DEF DeliveriesKnow, Behind
  <1>6. Len(says[m]) \in Nat
    BY <1>5 DEF CallsKnow
  <1>7. says' = says /\ hand' = hand
    BY DEF Taking
  <1>8. Behind(g)' = Len(says[m]) - (Len(s) - 1)
    BY <1>2, <1>3, <1>4, <1>7 DEF Behind
  <1>9. Behind(g)' = Behind(g) + 1 /\ Behind(g) + 1 \in 1..Len(says[m])
    BY <1>3, <1>5, <1>6, <1>8
  <1>10. \A i \in DOMAIN Tail(s) : Tail(s)[i] = says[m][Behind(g)' + i]
    <2> SUFFICES ASSUME NEW i \in 1..(Len(s) - 1) PROVE Tail(s)[i] = says[m][Behind(g)' + i]
      BY <1>3
    <2>1. i + 1 \in DOMAIN s /\ Behind(g)' + i = Behind(g) + (i + 1)
      BY <1>3, <1>5, <1>9
    <2> QED
      BY <1>3, <1>5, <2>1
  <1>11. Tail(s) = << >> => Len(s) = 1
    BY <1>3
  <1>12. ~Busy(g)' => Behind(g) + 1 = Len(says[m])
    BY <1>3, <1>4, <1>5, <1>6, <1>11 DEF Busy
  <1>13. \A h \in Goroutines : h # g => Busy(h)' = Busy(h) /\ Behind(h)' = Behind(h)
    BY <1>4, <1>7 DEF Busy, Behind
  <1>14. Head(s) = says[m][Behind(g) + 1]
    BY <1>3, <1>5
  <1> QED
    BY <1>2, <1>4, <1>5, <1>9, <1>10, <1>12, <1>13, <1>14

LEMMA TakingKnow ==
  ASSUME CallsKnow, DeliveriesKnow, NEW g \in Goroutines, Taking(g)
  PROVE  /\ DeliveriesKnow' /\ TakenOnce' = TakenOnce
         /\ \A k : /\ Sendings(k)' = Sendings(k)
                   /\ Key(Head(todo[g])) # k => Run(k)' = Run(k)
                   /\ TakenOnce /\ k \in Rows /\ Key(Head(todo[g])) = k => Run(k)' = Run(k) \cup {Upto(g)} /\ Upto(g) \notin Run(k)
  <1>1. UNCHANGED <<says, sent, taken, set, hand>> /\ Busy(g)
    BY DEF Taking
  <1>2. PICK m, n : m = hand[g].msg /\ n = Behind(g)
    OBVIOUS
  <1>3. TakenOnce' = TakenOnce
    BY <1>1 DEF TakenOnce
  <1>4. /\ \A h \in Goroutines : h # g => todo'[h] = todo[h] /\ Busy(h)' = Busy(h) /\ Behind(h)' = Behind(h)
        /\ Behind(g)' = n + 1 /\ n \in Nat /\ n + 1 \in 1..Len(says[m])
        /\ Head(todo[g]) = says[m][n + 1]
        /\ \A i \in DOMAIN todo'[g] : todo'[g][i] = says[m][Behind(g)' + i]
        /\ ~Busy(g)' => n + 1 = Len(says[m])
        /\ m \in DOMAIN says \cap ToSet(taken)
    BY <1>2, TakingRest
  <1>5. DeliveriesKnow'
    <2>1. /\ set' \subseteq ToSet(taken') /\ ToSet(taken') \subseteq sent'
          /\ \A h \in Goroutines : hand'[h].pc = "dedupe" => hand'[h].msg \in sent'
          /\ \A e \in sent' : e \in ToSet(taken')
               \/ \E h \in Goroutines : hand'[h].pc = "dedupe" /\ hand'[h].msg = e
      BY <1>1 DEF DeliveriesKnow
    <2>2. ASSUME NEW h \in Goroutines, Busy(h)'
          PROVE  /\ hand'[h].pc = "contains" /\ hand'[h].msg \in DOMAIN says' \cap ToSet(taken')
                 /\ Behind(h)' \in Nat
                 /\ \A i \in DOMAIN todo'[h] : todo'[h][i] = says'[hand'[h].msg][Behind(h)' + i]
      <3>1. CASE h = g
        BY <1>1, <1>2, <1>4, <3>1 DEF DeliveriesKnow
      <3>2. CASE h # g
        BY <1>1, <1>4, <2>2, <3>2 DEF DeliveriesKnow
      <3> QED
        BY <3>1, <3>2
    <2>3. TakenOnce' => \A e, h \in Goroutines :
       Busy(e)' /\ Busy(h)' /\ hand'[e].msg = hand'[h].msg /\ hand'[e].msg \in Tallied(says)' => e = h
      BY <1>1, <1>3, <1>4 DEF DeliveriesKnow
    <2> QED
      BY <2>1, <2>2, <2>3 DEF DeliveriesKnow
  <1>k. \A k : Sendings(k)' = Sendings(k)
    BY <1>1 DEF Sendings
  <1>6. ASSUME NEW k, NEW x \in Sendings(k)
        PROVE  x # Upto(g) => (x \in Run(k)' <=> x \in Run(k))
    <2> SUFFICES ASSUME x # <<m, n + 1>> PROVE x \in Run(k)' <=> x \in Run(k)
      BY <1>2 DEF Upto
    <2>1. x = <<x[1], x[2]>> /\ x[2] \in 1..Len(says[x[1]])
      BY SendingOf
    <2>2. (Busy(g)' /\ hand'[g].msg = x[1] => x[2] <= Behind(g)') = (Busy(g) /\ hand[g].msg = x[1] => x[2] <= Behind(g))
      <3>1. CASE x[1] # m
        BY <1>1, <1>2, <3>1
      <3>2. CASE x[1] = m
        <4>1. x[2] # n + 1
          BY <2>1, <3>2
        <4>2. x[2] \in 1..Len(says[m]) /\ Len(says[m]) \in Nat
          BY <1>4, <2>1, <3>2 DEF CallsKnow
        <4>3. x[2] <= n + 1 <=> x[2] <= n
          BY <1>4, <4>1, <4>2
        <4>4. CASE Busy(g)'
          BY <1>1, <1>2, <1>4, <3>2, <4>3, <4>4
        <4>5. CASE ~Busy(g)'
          BY <1>1, <1>2, <1>4, <3>2, <4>2, <4>3, <4>5
        <4> QED
          BY <4>4, <4>5
      <3> QED
        BY <3>1, <3>2
    <2>3. \A h \in Goroutines : h # g =>
            (Busy(h)' /\ hand'[h].msg = x[1] => x[2] <= Behind(h)') = (Busy(h) /\ hand[h].msg = x[1] => x[2] <= Behind(h))
      BY <1>1, <1>4
    <2>4. (\A h \in Goroutines : Busy(h)' /\ hand'[h].msg = x[1] => x[2] <= Behind(h)')
            = (\A h \in Goroutines : Busy(h) /\ hand[h].msg = x[1] => x[2] <= Behind(h))
      BY <2>2, <2>3
    <2>5. x \in Sendings(k) /\ x \in Sendings(k)' /\ taken' = taken
      BY <1>k, <1>1
    <2> QED
      BY <2>4, <2>5 DEF Run
  <1>7. ASSUME NEW k, Key(Head(todo[g])) # k PROVE Run(k)' = Run(k)
    <2>1. Upto(g) \notin Sendings(k)
      <3>0. PICK x : x = <<m, n + 1>>
        OBVIOUS
      <3>1. x[1] = m /\ x[2] = n + 1
        BY <3>0
      <3>2. Key(says[x[1]][x[2]]) # k
        BY <1>4, <1>7, <3>1
      <3>3. x \notin Sendings(k)
        BY <3>2, SendingOf
      <3> QED
        BY <1>2, <3>0, <3>3 DEF Upto
    <2>2. \A x \in Sendings(k) : x \in Run(k)' <=> x \in Run(k)
      BY <1>6, <2>1
    <2> QED
      BY <1>k, <2>2 DEF Run
  <1>8. ASSUME NEW k \in Rows, TakenOnce, Key(Head(todo[g])) = k
        PROVE  Run(k)' = Run(k) \cup {Upto(g)} /\ Upto(g) \notin Run(k)
    <2>a. PICK x : x = <<m, n + 1>>
      OBVIOUS
    <2>0. x[1] = m /\ x[2] = n + 1 /\ x = Upto(g) /\ x = <<x[1], x[2]>>
      BY <1>2, <2>a DEF Upto
    <2>1. x \in Sendings(k)
      <3>1. m \in sent
        BY <1>4 DEF DeliveriesKnow
      <3>2. Key(says[x[1]][x[2]]) = k
        BY <1>4, <1>8, <2>0
      <3> QED
        BY <1>4, <2>0, <3>1, <3>2, SendingOf
    <2>2. x \notin Run(k)
      <3>1. ~(x[2] <= n)
        BY <1>4, <2>0
      <3> QED
        BY <1>1, <1>2, <2>0, <3>1 DEF Run
    <2>3. x \in Run(k)'
      <3>0. m \in Tallied(says)
        <4>1. DOMAIN says[m] = 1..Len(says[m])
          BY <1>4 DEF CallsKnow
        <4> QED
          BY <1>4, <1>8, <4>1, CounterKey DEF Tallied
      <3>1. \A h \in Goroutines : Busy(h)' /\ hand'[h].msg = m => h = g
        BY <1>1, <1>2, <1>4, <1>8, <3>0 DEF DeliveriesKnow
      <3>2. x[2] <= Behind(g)'
        BY <1>4, <2>0
      <3> QED
        BY <1>k, <1>1, <1>4, <2>0, <2>1, <3>1, <3>2 DEF Run
    <2>4. \A y \in Sendings(k) : y # x => (y \in Run(k)' <=> y \in Run(k))
      BY <1>6, <2>0
    <2> QED
      BY <1>k, <2>0, <2>1, <2>2, <2>3, <2>4 DEF Run
  <1> QED
    BY <1>3, <1>5, <1>7, <1>8, <1>k

-----------------------------------------------------------------------------
(* What is run is to be counted (CountKnow): a request takes room for one  *)
(* when it is sent and gives it back when its row is written.              *)

Writing == {"find", "insert", "upsert", "save"}

LEMMA RoomType ==
  ASSUME NEW k, FiniteKnow(k)
  PROVE  /\ IsFiniteSet(Run(k)) /\ IsFiniteSet(Uncounted(k))
         /\ Cardinality(Run(k)) \in Nat /\ Cardinality(Uncounted(k)) \in Nat
         /\ Room(k) \in Int
  <1>1. Run(k) \subseteq Sendings(k) /\ Uncounted(k) \subseteq DOMAIN calls
    BY DEF Run, Uncounted
  <1>2. IsFiniteSet(Run(k)) /\ IsFiniteSet(Uncounted(k))
    BY <1>1, FS_Subset DEF FiniteKnow
  <1>3. Cardinality(Run(k)) \in Nat /\ Cardinality(Uncounted(k)) \in Nat
    BY <1>2, FS_CardinalityType
  <1> QED
    BY <1>2, <1>3 DEF Room

LEMMA CounterRow ==
  ASSUME NEW k \in Rows, NEW n \in Nat, NEW r \in RowRecs(k, n)
  PROVE  r # NoRow /\ r.count \in Nat /\ r.id \in 1..n
  <1>1. RowRecs(k, n) = [id : 1..n, count : Nat]
    BY CounterKey DEF RowRecs
  <1> QED
    BY <1>1, RowRecsId

LEMMA TallyType ==
  ASSUME CallsKnow, NEW k \in Rows
  PROVE  Tally(k) \in Nat
  <1>1. nextId - 1 \in Nat /\ (RowOf(k) # NoRow => RowOf(k) \in RowRecs(k, nextId - 1))
    BY RowKnown
  <1> QED
    BY <1>1, CounterRow DEF Tally

\* A request about another row moves.
LEMMA OthersUncounted ==
  ASSUME NEW k, NEW c \in DOMAIN calls, Key(calls[c]) # k, NEW pc, NEW row, MovesTo(c, pc, row)
  PROVE  Uncounted(k)' = Uncounted(k)
  <1>1. \A d : d # c => (d \in DOMAIN calls' <=> d \in DOMAIN calls)
    BY DEF MovesTo
  <1>2. \A d \in DOMAIN calls' : d # c => calls'[d] = calls[d]
    BY DEF MovesTo
  <1>3. c \in DOMAIN calls' => Key(calls'[c]) = Key(calls[c])
    <2> SUFFICES ASSUME c \in DOMAIN calls' PROVE Key(calls'[c]) = Key(calls[c])
      OBVIOUS
    <2>1. PICK q : q = [op |-> calls[c].op, who |-> calls[c].who, arg |-> calls[c].arg, pc |-> pc, row |-> row]
      OBVIOUS
    <2>2. calls'[c] = q
      BY <2>1 DEF MovesTo
    <2>3. q.op = calls[c].op /\ q.who = calls[c].who
      BY <2>1
    <2>4. Key(q) = Key(calls[c])
      BY <2>3 DEF Key
    <2> QED
      BY <2>2, <2>4
  <1> QED
    BY <1>1, <1>2, <1>3 DEF Uncounted

\* A request about the row k moves: once it has written, or given up, there is room for one more.
LEMMA RoomMoves ==
  ASSUME NEW k, FiniteKnow(k), NEW c \in DOMAIN calls, Key(calls[c]) = k, NEW pc, NEW row, MovesTo(c, pc, row),
         Run(k)' = Run(k), pc \in Writing => calls[c].pc \in Writing
  PROVE  Room(k)' = IF calls[c].pc \in Writing /\ pc \notin Writing THEN Room(k) + 1 ELSE Room(k)
  <1>1. \A d : d # c => (d \in DOMAIN calls' <=> d \in DOMAIN calls)
    BY DEF MovesTo
  <1>2. \A d \in DOMAIN calls' : d # c => calls'[d] = calls[d]
    BY DEF MovesTo
  <1>3. c \in DOMAIN calls' => Key(calls'[c]) = k /\ calls'[c].pc = pc
    <2> SUFFICES ASSUME c \in DOMAIN calls' PROVE Key(calls'[c]) = k /\ calls'[c].pc = pc
      OBVIOUS
    <2>1. PICK q : q = [op |-> calls[c].op, who |-> calls[c].who, arg |-> calls[c].arg, pc |-> pc, row |-> row]
      OBVIOUS
    <2>2. calls'[c] = q
      BY <2>1 DEF MovesTo
    <2>3. q.op = calls[c].op /\ q.who = calls[c].who /\ q.pc = pc
      BY <2>1
    <2>4. Key(q) = Key(calls[c])
      BY <2>3 DEF Key
    <2> QED
      BY <2>2, <2>3, <2>4
  <1>4. c \notin DOMAIN calls' => pc \notin Writing
    BY DEF MovesTo, Writing
  <1>5. c \in Uncounted(k) <=> calls[c].pc \in Writing
    BY DEF Uncounted, Writing
  <1>6. c \in Uncounted(k)' <=> pc \in Writing
    BY <1>3, <1>4 DEF Uncounted, Writing
  <1>7. \A d : d # c => (d \in Uncounted(k)' <=> d \in Uncounted(k))
    BY <1>1, <1>2 DEF Uncounted
  <1>8. IsFiniteSet(Uncounted(k)) /\ Cardinality(Run(k)) \in Nat /\ Cardinality(Uncounted(k)) \in Nat
    BY RoomType
  <1>9. CASE calls[c].pc \in Writing /\ pc \notin Writing
    <2>1. Uncounted(k)' = Uncounted(k) \ {c} /\ c \in Uncounted(k)
      BY <1>5, <1>6, <1>7, <1>9
    <2>2. Cardinality(Uncounted(k)') = Cardinality(Uncounted(k)) - 1
      BY <1>8, <2>1, FS_RemoveElement
    <2> QED
      BY <1>8, <1>9, <2>2 DEF Room
  <1>10. CASE ~(calls[c].pc \in Writing /\ pc \notin Writing)
    <2>1. Uncounted(k)' = Uncounted(k)
      BY <1>5, <1>6, <1>7, <1>10
    <2> QED
      BY <1>10, <2>1 DEF Room
  <1> QED
    BY <1>9, <1>10

\* While requests about the row come one at a time, the one that moves is the only one.
LEMMA MovesAlone ==
  ASSUME NEW k \in Rows, NotBoth(k, {k[1]}), k[1] # "bread", Undisturbed(k), NEW c \in DOMAIN calls,
         AtCore(c), Key(calls[c]) = k, NEW d \in DOMAIN calls, d # c, Key(calls[d]) = k
  PROVE  calls[d].pc \notin {"insert", "save", "again"}
  <1>1. calls[c].op = k[1] /\ calls[d].op = k[1]
    BY CounterKey
  <1>2. {calls[c].op, calls[d].op} = {k[1]}
    BY <1>1
  <1>3. Apart(k, {k[1]}) /\ UnderWay(c)
    BY DEF Undisturbed, UnderWay
  <1>4. ~UnderWay(d)
    BY <1>2, <1>3 DEF NotBoth
  <1> QED
    BY <1>4 DEF UnderWay, AtCore

LEMMA CountMoves ==
  ASSUME NEW k \in Rows, CallsKnow, FiniteKnow(k), CountKnow(k), NotBoth(k, {k[1]})',
         NEW c \in DOMAIN calls, AtCore(c), Key(calls[c]) = k, NEW pc, NEW row, MovesTo(c, pc, row),
         met' = met, slipped \subseteq slipped', Run(k)' = Run(k),
         pc \in Writing => calls[c].pc \in Writing,
         Tally(k)' <= Room(k)',
         pc = "save" => row.count <= Room(k)' + 1,
         pc = "again" => row.count <= Room(k)',
         Undisturbed(k)' =>
           /\ Tally(k)' = Room(k)'
           /\ k[1] # "bread" =>
                /\ pc = "insert" => RowOf(k)' = NoRow
                /\ pc \in {"save", "again"} => row.id = RowOf(k)'.id
                /\ pc = "save" => row.count = Tally(k)' + 1
                /\ pc = "again" => row.count = Tally(k)'
  PROVE  CountKnow(k)'
  <1>1. Room(k) \in Int /\ Room(k)' \in Int /\ Room(k) <= Room(k)'
    BY RoomType, RoomMoves
  <1>2. c \in DOMAIN calls' => calls'[c].pc = pc /\ calls'[c].row = row
    <2> SUFFICES ASSUME c \in DOMAIN calls' PROVE calls'[c].pc = pc /\ calls'[c].row = row
      OBVIOUS
    <2>1. PICK q : q = [op |-> calls[c].op, who |-> calls[c].who, arg |-> calls[c].arg, pc |-> pc, row |-> row]
      OBVIOUS
    <2>2. calls'[c] = q
      BY <2>1 DEF MovesTo
    <2> QED
      BY <2>1, <2>2
  <1>3. \A d \in DOMAIN calls' : d # c => d \in DOMAIN calls /\ calls'[d] = calls[d]
    BY DEF MovesTo
  <1>4. ASSUME NEW d \in DOMAIN calls, Key(calls[d]) = k, calls[d].pc \in {"save", "again"}
        PROVE  calls[d].row.count \in Nat
    <2>1. calls[d].row \in RowRecs(k, nextId - 1)
      BY <1>4 DEF CallsKnow, IsCall
    <2>2. RowRecs(k, nextId - 1) = [id : 1..(nextId - 1), count : Nat]
      BY CounterKey DEF RowRecs
    <2> QED
      BY <2>1, <2>2
  <1>5. ASSUME NEW d \in DOMAIN calls', Key(calls'[d]) = k
        PROVE  /\ calls'[d].pc = "save" => calls'[d].row.count <= Room(k)' + 1
               /\ calls'[d].pc = "again" => calls'[d].row.count <= Room(k)'
    <2>1. CASE d = c
      BY <1>2, <2>1
    <2>2. CASE d # c
      <3>1. d \in DOMAIN calls /\ calls'[d] = calls[d]
        BY <1>3, <2>2
      <3>2. /\ calls[d].pc = "save" => calls[d].row.count <= Room(k) + 1 /\ calls[d].row.count \in Nat
            /\ calls[d].pc = "again" => calls[d].row.count <= Room(k) /\ calls[d].row.count \in Nat
        BY <1>4, <1>5, <3>1 DEF CountKnow
      <3> QED
        BY <1>1, <3>1, <3>2
    <2> QED
      BY <2>1, <2>2
  <1>6. Undisturbed(k)' => Undisturbed(k)
    BY DEF Undisturbed, Apart
  <1>7. ASSUME Undisturbed(k)', k[1] # "bread", NEW d \in DOMAIN calls', Key(calls'[d]) = k
        PROVE  /\ calls'[d].pc = "insert" => RowOf(k)' = NoRow
               /\ calls'[d].pc \in {"save", "again"} => calls'[d].row.id = RowOf(k)'.id
               /\ calls'[d].pc = "save" => calls'[d].row.count = Tally(k)' + 1
               /\ calls'[d].pc = "again" => calls'[d].row.count = Tally(k)'
    <2>1. CASE d = c
      BY <1>2, <1>7, <2>1
    <2>2. CASE d # c
      <3>1. d \in DOMAIN calls /\ calls'[d] = calls[d] /\ Key(calls[d]) = k
        BY <1>3, <1>7, <2>2
      <3>2. NotBoth(k, {k[1]})
        BY DEF CountKnow
      <3>3. calls[d].pc \notin {"insert", "save", "again"}
        BY <1>6, <1>7, <2>2, <3>1, <3>2, MovesAlone
      <3> QED
        BY <3>1, <3>3
    <2> QED
      BY <2>1, <2>2
  <1> QED
    BY <1>5, <1>7 DEF CountKnow

\* Requests about the row come and go, and neither it nor what is short of it changes.
LEMMA CountStays ==
  ASSUME NEW k, CountKnow(k), NotBoth(k, {k[1]})', met \subseteq met', slipped \subseteq slipped',
         RowOf(k)' = RowOf(k), Tally(k)' = Tally(k), Room(k)' = Room(k),
         \A d \in DOMAIN calls' : calls'[d].pc \in {"insert", "save", "again"} /\ Key(calls'[d]) = k
                                    => \E e \in DOMAIN calls : calls'[d] = calls[e]
  PROVE  CountKnow(k)'
  <1>1. Undisturbed(k)' => Undisturbed(k)
    BY DEF Undisturbed, Apart
  <1>2. ASSUME NEW d \in DOMAIN calls', Key(calls'[d]) = k
        PROVE  /\ calls'[d].pc = "save" => calls'[d].row.count <= Room(k)' + 1
               /\ calls'[d].pc = "again" => calls'[d].row.count <= Room(k)'
    BY <1>2 DEF CountKnow
  <1>3. ASSUME Undisturbed(k), k[1] # "bread", NEW d \in DOMAIN calls', Key(calls'[d]) = k
        PROVE  /\ calls'[d].pc = "insert" => RowOf(k)' = NoRow
               /\ calls'[d].pc \in {"save", "again"} => calls'[d].row.id = RowOf(k)'.id
               /\ calls'[d].pc = "save" => calls'[d].row.count = Tally(k)' + 1
               /\ calls'[d].pc = "again" => calls'[d].row.count = Tally(k)'
    BY <1>3 DEF CountKnow
  <1> QED
    BY <1>1, <1>2, <1>3 DEF CountKnow

\* The row found, if any, is counted up in an image of it.
LEMMA FindCounts ==
  ASSUME NEW k \in Rows, CallsKnow, FiniteKnow(k), CountKnow(k), NotBoth(k, {k[1]})',
         NEW c \in DOMAIN calls, Key(calls[c]) = k, calls[c].pc = "find", UNCHANGED <<rows, met, slipped>>,
         calls' = IF Row(c) = NoRow THEN Moved(c, "insert", NoRow) ELSE Moved(c, "save", Counted(Row(c))),
         Run(k)' = Run(k)
  PROVE  CountKnow(k)'
  <1>1. AtCore(c) /\ RowOf(k)' = RowOf(k) /\ Tally(k)' = Tally(k) /\ Row(c) = RowOf(k)
    BY DEF AtCore, RowOf, Tally, Row
  <1>2. Tally(k) \in Nat /\ Room(k) \in Int /\ Tally(k) <= Room(k) /\ (Undisturbed(k) => Tally(k) = Room(k))
    BY TallyType, RoomType DEF CountKnow
  <1>3. Undisturbed(k)' => Undisturbed(k)
    BY DEF Undisturbed, Apart
  <1>4. CASE Row(c) = NoRow
    <2>1. MovesTo(c, "insert", NoRow)
      BY <1>4, KnownFields, CallMoved
    <2>2. Room(k)' = Room(k)
      BY <2>1, RoomMoves DEF Writing
    <2> QED
      BY <1>1, <1>2, <1>3, <1>4, <2>1, <2>2, CountMoves DEF Writing
  <1>5. CASE Row(c) # NoRow
    <2>1. PICK image : image = Counted(Row(c))
      OBVIOUS
    <2>2. MovesTo(c, "save", image)
      BY <1>5, <2>1, KnownFields, CallMoved
    <2>3. Room(k)' = Room(k)
      BY <2>2, RoomMoves DEF Writing
    <2>4. image.id = RowOf(k).id /\ image.count = Tally(k) + 1
      <3>1. PICK r : r = RowOf(k)
        OBVIOUS
      <3>2. r \in RowRecs(k, nextId - 1) /\ nextId - 1 \in Nat
        BY <1>1, <1>5, <3>1, RowKnown
      <3>3. r \in [id : 1..(nextId - 1), count : Nat]
        BY <3>2, CounterKey DEF RowRecs
      <3>4. Counted(r).id = r.id /\ Counted(r).count = r.count + 1
        BY <3>3 DEF Counted
      <3> QED
        BY <1>1, <1>5, <2>1, <3>1, <3>4 DEF Tally
    <2> QED
      BY <1>1, <1>2, <1>3, <2>2, <2>3, <2>4, CountMoves DEF Writing
  <1> QED
    BY <1>4, <1>5

LEMMA NewRow ==
  ASSUME CallsKnow, NEW k \in Rows, NEW n \in Nat
  PROVE  NewCount(n).id = nextId /\ NewCount(n).count = n /\ NewCount(n) # NoRow
  <1>1. PICK r : r = NewCount(n)
    OBVIOUS
  <1>2. r = [id |-> nextId, count |-> n]
    BY <1>1 DEF NewCount
  <1>3. nextId \in 1..nextId /\ nextId \in Nat
    BY DEF CallsKnow
  <1>4. r \in RowRecs(k, nextId)
    BY <1>2, <1>3, CounterKey, CountRecs
  <1> QED
    BY <1>1, <1>2, <1>3, <1>4, CounterRow

\* The first row of a chatter is inserted, unless it was meanwhile.
LEMMA InsertCounts ==
  ASSUME NEW k \in Rows, CallsKnow, FiniteKnow(k), CountKnow(k), NotBoth(k, {k[1]})', k[1] # "bread",
         NEW c \in DOMAIN calls, Key(calls[c]) = k, NEW op, Inserts(c, op, "save", NewCount(0), NewCount(1)),
         Run(k)' = Run(k)
  PROVE  CountKnow(k)'
  <1>1. /\ AtCore(c) /\ calls[c].pc = "insert" /\ UNCHANGED <<met, slipped>> /\ Row(c) = RowOf(k)
    BY DEF Inserts, At, AtCore, Elsewhere, Row
  <1>2. Tally(k) \in Nat /\ Room(k) \in Int /\ Tally(k) <= Room(k) /\ (Undisturbed(k) => Tally(k) = Room(k))
    BY TallyType, RoomType DEF CountKnow
  <1>3. Undisturbed(k)' => Undisturbed(k)
    BY <1>1 DEF Undisturbed, Apart
  <1>4. CASE Row(c) = NoRow
    <2>1. PICK new, image : new = NewCount(0) /\ image = NewCount(1)
      OBVIOUS
    <2>2. new # NoRow /\ new.count = 0 /\ image.count = 1 /\ image.id = new.id
      BY <2>1, NewRow
    <2>3. MovesTo(c, "save", image)
      BY <1>4, <2>1, KnownFields, CallMoved DEF Inserts
    <2>4. Room(k)' = Room(k)
      BY <1>1, <2>3, RoomMoves DEF Writing
    <2>5. RowOf(k)' = new
      BY <1>4, <2>1, RowWritten DEF Inserts
    <2>6. Tally(k)' = 0 /\ Tally(k) = 0
      BY <1>1, <1>4, <2>2, <2>5 DEF Tally
    <2> QED
      BY <1>1, <1>2, <1>3, <2>2, <2>3, <2>4, <2>5, <2>6, CountMoves DEF Writing
  <1>5. CASE Row(c) # NoRow
    <2>1. MovesTo(c, "error", NoRow) /\ rows' = rows
      BY <1>5, KnownFields, CallMoved DEF Inserts, tables
    <2>2. Room(k)' = Room(k) + 1
      BY <1>1, <2>1, RoomMoves DEF Writing
    <2>3. Tally(k)' = Tally(k)
      BY <2>1 DEF Tally, RowOf
    <2>4. ~Undisturbed(k)
      BY <1>1, <1>5 DEF CountKnow
    <2>5. Tally(k)' <= Room(k)'
      BY <1>2, <2>2, <2>3
    <2> QED
      BY <1>1, <1>3, <2>1, <2>4, <2>5, CountMoves DEF Writing
  <1> QED
    BY <1>4, <1>5

\* An image is saved over the row it was read from.
LEMMA SaveCounts ==
  ASSUME NEW k \in Rows, CallsKnow, FiniteKnow(k), CountKnow(k), NotBoth(k, {k[1]})', k[1] # "bread",
         NEW c \in DOMAIN calls, Key(calls[c]) = k, NEW pc, pc \in {"again", "done"},
         calls[c].pc = "save" \/ (calls[c].pc = "again" /\ pc = "done"), SavesImage(c, pc, calls[c].row),
         Run(k)' = Run(k)
  PROVE  CountKnow(k)'
  <1>1. /\ AtCore(c) /\ UNCHANGED <<met, slipped>> /\ Row(c) = RowOf(k)
    BY DEF SavesImage, AtCore, Elsewhere, Row
  <1>2. Tally(k) \in Nat /\ Room(k) \in Int /\ Tally(k) <= Room(k) /\ (Undisturbed(k) => Tally(k) = Room(k))
    BY TallyType, RoomType DEF CountKnow
  <1>3. Undisturbed(k)' => Undisturbed(k)
    BY <1>1 DEF Undisturbed, Apart
  <1>4. PICK image : image = calls[c].row
    OBVIOUS
  <1>5. image # NoRow /\ image.count \in Nat
    <2>1. image \in RowRecs(k, nextId - 1) /\ nextId - 1 \in Nat
      BY <1>4, RowKnown DEF CallsKnow, IsCall
    <2> QED
      BY <2>1, CounterRow
  <1>6. /\ calls[c].pc = "save" => image.count <= Room(k) + 1
        /\ calls[c].pc = "again" => image.count <= Room(k)
        /\ Undisturbed(k) => /\ image.id = RowOf(k).id
                             /\ calls[c].pc = "save" => image.count = Tally(k) + 1
                             /\ calls[c].pc = "again" => image.count = Tally(k)
    BY <1>4 DEF CountKnow
  <1>7. CASE Row(c).id = image.id
    <2>1. MovesTo(c, pc, image)
      BY <1>4, <1>7, KnownFields, CallMoved DEF SavesImage
    <2>2. Room(k)' = IF calls[c].pc = "save" THEN Room(k) + 1 ELSE Room(k)
      BY <2>1, RoomMoves DEF Writing
    <2>3. RowOf(k)' = image
      <3>1. rows' = Put(rows, k, image)
        BY <1>4, <1>7 DEF SavesImage
      <3> QED
        BY <3>1, RowWritten
    <2>4. Tally(k)' = image.count
      BY <1>5, <2>3 DEF Tally
    <2>5. image.count <= Room(k)' /\ (Undisturbed(k) => image.count = Room(k)')
      BY <1>2, <1>6, <2>2
    <2> QED
      BY <1>1, <1>3, <2>1, <2>3, <2>4, <2>5, CountMoves DEF Writing
  <1>8. CASE Row(c).id # image.id
    <2>1. MovesTo(c, "error", NoRow) /\ rows' = rows
      BY <1>4, <1>8, KnownFields, CallMoved DEF SavesImage
    <2>2. Room(k)' = IF calls[c].pc = "save" THEN Room(k) + 1 ELSE Room(k)
      BY <2>1, RoomMoves DEF Writing
    <2>3. Tally(k)' = Tally(k)
      BY <2>1 DEF Tally, RowOf
    <2>4. ~Undisturbed(k)
      BY <1>1, <1>6, <1>8
    <2>5. Tally(k)' <= Room(k)'
      BY <1>2, <2>2, <2>3
    <2> QED
      BY <1>1, <1>3, <2>1, <2>4, <2>5, CountMoves DEF Writing
  <1> QED
    BY <1>7, <1>8

\* One statement counts.
LEMMA BreadCounts ==
  ASSUME NEW k \in Rows, CallsKnow, FiniteKnow(k), CountKnow(k), NotBoth(k, {k[1]})',
         NEW c \in DOMAIN calls, Key(calls[c]) = k, BakeBread(c), Run(k)' = Run(k)
  PROVE  CountKnow(k)'
  <1>1. /\ AtCore(c) /\ calls[c].pc = "upsert" /\ UNCHANGED <<met, slipped>> /\ Row(c) = RowOf(k)
        /\ MovesTo(c, "done", NoRow) /\ k[1] = "bread"
    <2>1. calls[c].op = "bread" /\ calls[c].pc = "upsert" /\ UNCHANGED <<met, slipped>>
      BY DEF BakeBread, At, Elsewhere
    <2>2. MovesTo(c, "done", NoRow)
      BY KnownFields, CallMoved DEF BakeBread
    <2> QED
      BY <2>1, <2>2, CounterKey DEF AtCore, Row
  <1>2. Tally(k) \in Nat /\ Room(k) \in Int /\ Tally(k) <= Room(k) /\ (Undisturbed(k) => Tally(k) = Room(k))
    BY TallyType, RoomType DEF CountKnow
  <1>3. Undisturbed(k)' => Undisturbed(k)
    BY <1>1 DEF Undisturbed, Apart
  <1>4. Room(k)' = Room(k) + 1
    BY <1>1, RoomMoves DEF Writing
  <1>5. Tally(k)' = Tally(k) + 1
    <2>1. PICK row : row = IF Row(c) = NoRow THEN NewCount(1) ELSE Counted(Row(c))
      OBVIOUS
    <2>2. RowOf(k)' = row
      BY <2>1, RowWritten DEF BakeBread
    <2>3. CASE Row(c) = NoRow
      BY <1>1, <2>1, <2>2, <2>3, NewRow DEF Tally
    <2>4. CASE Row(c) # NoRow
      <3>1. PICK r : r = RowOf(k)
        OBVIOUS
      <3>2. r \in RowRecs(k, nextId - 1) /\ nextId - 1 \in Nat
        BY <1>1, <2>4, <3>1, RowKnown
      <3>3. r \in [id : 1..(nextId - 1), count : Nat]
        BY <3>2, CounterKey DEF RowRecs
      <3>4. Counted(r).count = r.count + 1 /\ Counted(r) \in RowRecs(k, nextId - 1)
        BY <3>2, <3>3, CounterKey, CountRecs DEF Counted
      <3>5. Counted(r) # NoRow
        BY <3>2, <3>4, CounterRow
      <3> QED
        BY <1>1, <2>1, <2>2, <2>4, <3>1, <3>4, <3>5 DEF Tally
    <2> QED
      BY <2>3, <2>4
  <1> QED
    BY <1>1, <1>2, <1>3, <1>4, <1>5, CountMoves DEF Writing

\* A query of a request about the row fails.
LEMMA FailCounts ==
  ASSUME NEW k \in Rows, CallsKnow, FiniteKnow(k), CountKnow(k), NotBoth(k, {k[1]})',
         NEW c \in DOMAIN calls, Key(calls[c]) = k, Fails(c), Run(k)' = Run(k)
  PROVE  CountKnow(k)'
  <1>1. PICK p : /\ p \in {"again", "done", "error"} /\ (p = "again" => calls[c].pc = "save")
                 /\ calls' = Moved(c, p, calls[c].row)
    BY DEF Fails, At
  <1>2. /\ AtCore(c) /\ met' = met /\ rows' = rows /\ slipped' = slipped \cup {k}
    BY DEF Fails, tables
  <1>3. ~Undisturbed(k)'
    BY <1>2 DEF Undisturbed
  <1>4. MovesTo(c, p, calls[c].row)
    BY <1>1, KnownFields, CallMoved
  <1>5. Room(k) \in Int /\ Tally(k) <= Room(k) /\ Tally(k) \in Nat
    BY TallyType, RoomType DEF CountKnow
  <1>6. Room(k)' = IF calls[c].pc \in Writing THEN Room(k) + 1 ELSE Room(k)
    BY <1>1, <1>4, RoomMoves DEF Writing
  <1>7. Tally(k)' = Tally(k)
    BY <1>2 DEF Tally, RowOf
  <1>8. p = "again" => calls[c].row.count <= Room(k)'
    BY <1>1, <1>6 DEF CountKnow, Writing
  <1>9. Tally(k)' <= Room(k)'
    BY <1>5, <1>6, <1>7
  <1> QED
    BY <1>1, <1>2, <1>3, <1>4, <1>8, <1>9, CountMoves DEF Writing

LEMMA CountingCounts ==
  ASSUME NEW k \in Rows, CallsKnow, FiniteKnow(k), CountKnow(k), NotBoth(k, {k[1]})',
         NEW c \in DOMAIN calls, Key(calls[c]) = k, Counting(c), Run(k)' = Run(k)
  PROVE  CountKnow(k)'
  <1>0. calls[c].op = k[1]
    BY CounterKey
  <1>1. CASE FindScore(c) \/ FindLurker(c)
    <2>1. /\ calls[c].pc = "find" /\ UNCHANGED <<rows, met, slipped>>
          /\ calls' = IF Row(c) = NoRow THEN Moved(c, "insert", NoRow) ELSE Moved(c, "save", Counted(Row(c)))
      BY <1>1 DEF FindScore, FindLurker, Finds, At, tables, Elsewhere
    <2> QED
      BY <2>1, FindCounts
  <1>2. CASE InsertScore(c) \/ InsertLurker(c)
    <2>1. PICK op : op # "bread" /\ Inserts(c, op, "save", NewCount(0), NewCount(1))
      BY <1>2 DEF InsertScore, InsertLurker
    <2>2. calls[c].op = op
      BY <2>1 DEF Inserts, At
    <2> QED
      BY <1>0, <2>1, <2>2, InsertCounts
  <1>3. CASE SaveScore(c) \/ SaveLurker(c) \/ SaveScoreAgain(c)
    <2>1. PICK pc \in {"again", "done"} :
            /\ calls[c].pc = "save" \/ (calls[c].pc = "again" /\ pc = "done")
            /\ SavesImage(c, pc, calls[c].row) /\ calls[c].op # "bread"
      BY <1>3 DEF SaveScore, SaveLurker, SaveScoreAgain, SaveAgainAs, Saves, Same, At
    <2> QED
      BY <1>0, <2>1, SaveCounts
  <1>4. CASE BakeBread(c)
    BY <1>4, BreadCounts
  <1> QED
    BY <1>1, <1>2, <1>3, <1>4 DEF Counting

\* Only a request under a message's name stores a line.
Callers == IsFiniteSet(DOMAIN calls) /\ \A m \in DOMAIN calls \cap Messages : calls[m].op = "last"

LEMMA CallersStay ==
  ASSUME Callers, \A d \in DOMAIN calls' : d \in DOMAIN calls /\ calls'[d].op = calls[d].op
  PROVE  Callers'
  <1>1. DOMAIN calls' \subseteq DOMAIN calls
    OBVIOUS
  <1>2. IsFiniteSet(DOMAIN calls')
    BY <1>1, FS_Subset DEF Callers
  <1> QED
    BY <1>2 DEF Callers

LEMMA SentShape ==
  ASSUME NEW c, NEW o, calls' = Sent(c, o)
  PROVE  /\ DOMAIN calls' = DOMAIN calls \cup {c}
         /\ calls'[c].op = o.op /\ calls'[c].pc = First(o.op) /\ Key(calls'[c]) = Key(o)
         /\ \A d \in DOMAIN calls : d # c => calls'[d] = calls[d]
  <1>1. PICK row : row = IF c = "dashboard" THEN RowOf(Key(o)) ELSE NoRow
    OBVIOUS
  <1>2. PICK q : q = [op |-> o.op, who |-> o.who, arg |-> o.arg, pc |-> First(o.op), row |-> row]
    OBVIOUS
  <1>3. /\ DOMAIN calls' = DOMAIN calls \cup {c} /\ calls'[c] = q
        /\ \A d \in DOMAIN calls : d # c => calls'[d] = calls[d]
    BY <1>1, <1>2, CallSent
  <1>4. q.op = o.op /\ q.who = o.who /\ q.pc = First(o.op)
    BY <1>2
  <1>5. Key(q) = Key(o)
    BY <1>4 DEF Key
  <1> QED
    BY <1>3, <1>4, <1>5

LEMMA CallersSend ==
  ASSUME Callers, NEW c, NEW o, calls' = Sent(c, o), c \in Messages => o.op = "last"
  PROVE  Callers'
  <1>1. /\ DOMAIN calls' = DOMAIN calls \cup {c} /\ calls'[c].op = o.op
        /\ \A d \in DOMAIN calls : d # c => calls'[d] = calls[d]
    BY SentShape
  <1>2. IsFiniteSet(DOMAIN calls')
    BY <1>1, FS_AddElement DEF Callers
  <1> QED
    BY <1>1, <1>2 DEF Callers

LEMMA CallersMove ==
  ASSUME Callers, NEW c \in DOMAIN calls, NEW pc, NEW row, MovesTo(c, pc, row)
  PROVE  Callers'
  <1>1. PICK q : q = [op |-> calls[c].op, who |-> calls[c].who, arg |-> calls[c].arg, pc |-> pc, row |-> row]
    OBVIOUS
  <1>2. \A d \in DOMAIN calls' : d \in DOMAIN calls /\ calls'[d] = IF d # c THEN calls[d] ELSE q
    BY <1>1 DEF MovesTo
  <1>3. q.op = calls[c].op
    BY <1>1
  <1> QED
    BY <1>2, <1>3, CallersStay

LEMMA CallersTimeOut ==
  ASSUME Callers, CallsKnow, NEW c \in DOMAIN calls, TimesOut(c)
  PROVE  Callers'
  <1>1. /\ DOMAIN calls' = DOMAIN calls \cup {"orphan"} /\ "orphan" \notin DOMAIN calls
        /\ calls'["orphan"] = calls[c] /\ c # "orphan"
        /\ \A d \in DOMAIN calls : d # c => calls'[d] = calls[d]
    BY TimesOutMoves
  <1>2. calls'[c].op = calls[c].op
    <2>1. PICK q : /\ q = [op |-> calls[c].op, who |-> calls[c].who, arg |-> calls[c].arg,
                           pc |-> "error", row |-> calls[c].row]
                   /\ calls'[c] = q
      BY TimesOutMoves
    <2> QED
      BY <2>1
  <1>3. IsFiniteSet(DOMAIN calls')
    BY <1>1, FS_AddElement DEF Callers
  <1>4. "orphan" \notin Messages
    BY CallersAssumption
  <1> QED
    BY <1>1, <1>2, <1>3, <1>4 DEF Callers

\* A request sent, about the row k or about another one.
LEMMA SentUncounted ==
  ASSUME NEW k \in Rows, NEW c, NEW o, calls' = Sent(c, o), c \in DOMAIN calls => Key(calls[c]) # k
  PROVE  /\ Key(o) # k => Uncounted(k)' = Uncounted(k)
         /\ Key(o) = k => Uncounted(k)' = Uncounted(k) \cup {c}
         /\ c \notin Uncounted(k)
         /\ \A d \in DOMAIN calls' : calls'[d].pc \in {"insert", "save", "again"} /\ Key(calls'[d]) = k
                                    => \E e \in DOMAIN calls : calls'[d] = calls[e]
  <1>1. /\ DOMAIN calls' = DOMAIN calls \cup {c} /\ calls'[c].pc = First(o.op) /\ Key(calls'[c]) = Key(o)
        /\ \A d \in DOMAIN calls : d # c => calls'[d] = calls[d]
    BY SentShape
  <1>2. Key(o) = k => First(o.op) \in {"find", "upsert"}
    BY CounterKey DEF First, Counters
  <1>3. \A d : d # c => (d \in Uncounted(k)' <=> d \in Uncounted(k))
    BY <1>1 DEF Uncounted
  <1>4. c \notin Uncounted(k) /\ (c \in Uncounted(k)' <=> Key(o) = k)
    BY <1>1, <1>2 DEF Uncounted
  <1> QED
    BY <1>1, <1>2, <1>3, <1>4

\* A request its caller gave up on is as many.
LEMMA TimesOutRoom ==
  ASSUME NEW k, FiniteKnow(k), CallsKnow, NEW c \in DOMAIN calls, TimesOut(c), Run(k)' = Run(k)
  PROVE  /\ Room(k)' = Room(k)
         /\ \A d \in DOMAIN calls' : calls'[d].pc \in {"insert", "save", "again"} /\ Key(calls'[d]) = k
                                    => \E e \in DOMAIN calls : calls'[d] = calls[e]
  <1>1. /\ DOMAIN calls' = DOMAIN calls \cup {"orphan"} /\ "orphan" \notin DOMAIN calls
        /\ calls'["orphan"] = calls[c] /\ c # "orphan" /\ calls'[c].pc = "error"
        /\ \A d \in DOMAIN calls : d # c => calls'[d] = calls[d]
    <2>1. PICK q : /\ q = [op |-> calls[c].op, who |-> calls[c].who, arg |-> calls[c].arg,
                           pc |-> "error", row |-> calls[c].row]
                   /\ calls'[c] = q
      BY TimesOutMoves
    <2>2. q.pc = "error"
      BY <2>1
    <2> QED
      BY <2>1, <2>2, TimesOutMoves
  <1>2. \A d : d # c /\ d # "orphan" => (d \in Uncounted(k)' <=> d \in Uncounted(k))
    BY <1>1 DEF Uncounted
  <1>3. c \notin Uncounted(k)' /\ "orphan" \notin Uncounted(k) /\ ("orphan" \in Uncounted(k)' <=> c \in Uncounted(k))
    BY <1>1 DEF Uncounted
  <1>4. IsFiniteSet(Uncounted(k)) /\ Cardinality(Uncounted(k)) \in Nat
    BY RoomType
  <1>5. Cardinality(Uncounted(k)') = Cardinality(Uncounted(k))
    <2>1. CASE c \notin Uncounted(k)
      <3>1. Uncounted(k)' = Uncounted(k)
        BY <1>2, <1>3, <2>1
      <3> QED
        BY <3>1
    <2>2. CASE c \in Uncounted(k)
      <3>1. PICK S : S = Uncounted(k) \ {c}
        OBVIOUS
      <3>2. Uncounted(k)' = S \cup {"orphan"} /\ "orphan" \notin S
        BY <1>2, <1>3, <2>2, <3>1
      <3>3. IsFiniteSet(S) /\ Cardinality(S) = Cardinality(Uncounted(k)) - 1
        BY <1>4, <2>2, <3>1, FS_RemoveElement
      <3>4. Cardinality(Uncounted(k)') = Cardinality(S) + 1
        BY <3>2, <3>3, FS_AddElement
      <3> QED
        BY <1>4, <3>3, <3>4
    <2> QED
      BY <2>1, <2>2
  <1> QED
    BY <1>1, <1>5 DEF Room

LEMMA StillSame ==
  ASSUME DeliveriesKnow, UNCHANGED <<chatVars, says, todo>>
  PROVE  DeliveriesKnow' /\ TakenOnce' = TakenOnce /\ \A k : Run(k)' = Run(k) /\ Sendings(k)' = Sendings(k)
  <1>1. UNCHANGED <<says, sent, taken, set, todo, hand>>
    BY DEF chatVars, cache, twitch
  <1>2. Quiet /\ TakenOnce' = TakenOnce
    BY <1>1 DEF Quiet, TakenOnce
  <1> QED
    BY <1>2, QuietDeliveries

\* What every step does to one counter's row: nothing is run twice or lost.
Accounts(k) ==
  /\ FiniteKnow(k)'
  /\ TakenOnce' => CountKnow(k)'

\* A step that leaves the requests and the tables alone.
LEMMA RestAccounts ==
  ASSUME NEW k \in Rows, CallsKnow, FiniteKnow(k), UNCHANGED <<calls, rows, met, slipped>>,
         IsFiniteSet(Sendings(k)'), TakenOnce' => CountKnow(k) /\ Run(k)' = Run(k)
  PROVE  Accounts(k)
  <1>1. FiniteKnow(k)'
    BY DEF FiniteKnow
  <1>2. ASSUME TakenOnce' PROVE CountKnow(k)'
    <2>1. Uncounted(k)' = Uncounted(k) /\ Run(k)' = Run(k)
      BY <1>2 DEF Uncounted
    <2>2. RowOf(k)' = RowOf(k) /\ Tally(k)' = Tally(k) /\ Room(k)' = Room(k)
      BY <2>1 DEF RowOf, Tally, Room
    <2>3. CountKnow(k) /\ NotBoth(k, {k[1]})'
      <3>1. CountKnow(k)
        BY <1>2
      <3>2. NotBoth(k, {k[1]})
        BY <3>1 DEF CountKnow
      <3> QED
        BY <3>1, <3>2, OverNotBoth
    <2> QED
      BY <2>2, <2>3, CountStays
  <1> QED
    BY <1>1, <1>2 DEF Accounts

\* A step of the requests, with the commands as they were.
LEMMA CallsAccounts ==
  ASSUME NEW k \in Rows, CallsKnow, DeliveriesKnow, FiniteKnow(k), TakenOnce => CountKnow(k),
         UNCHANGED <<chatVars, says, todo>>, Callers',
         CountKnow(k) /\ Run(k)' = Run(k) => CountKnow(k)'
  PROVE  Accounts(k)
  <1>1. TakenOnce' = TakenOnce /\ Run(k)' = Run(k) /\ Sendings(k)' = Sendings(k)
    BY StillSame
  <1> QED
    BY <1>1 DEF Accounts, FiniteKnow, Callers

LEMMA ServiceSlips ==
  ASSUME NEW c, Counting(c) \/ Stalking(c) \/ Promoting(c) \/ Fails(c)
  PROVE  says' = says /\ slipped \subseteq slipped'
  <1> USE DEF Finds, Inserts, Saves, SavesImage, Deletes, Elsewhere
  <1>1. CASE Counting(c)
    BY <1>1 DEF Counting, FindScore, InsertScore, SaveScore, SaveScoreAgain, SaveAgainAs,
                FindLurker, InsertLurker, SaveLurker, BakeBread
  <1>2. CASE Stalking(c)
    BY <1>2 DEF Stalking, GetTarget, SetFinds, SetFindsWith, SetInserts, SetSaves, LastFinds,
                LastSaves, UnsetFinds, UnsetDeletes
  <1>3. CASE Promoting(c)
    BY <1>3 DEF Promoting, CreatePromo, EditFinds, EditAs, EditSaves, DropFinds, DropDeletes,
                UpdateFinds, UpdateSaves, RemoveDeletes
  <1>4. CASE Fails(c)
    BY <1>4 DEF Fails
  <1> QED
    BY <1>1, <1>2, <1>3, <1>4

\* What core-api does for a request about one row leaves the counts of the others alone.
LEMMA OtherServed ==
  ASSUME NEW k \in Rows, CallsKnow, FiniteKnow(k), CountKnow(k), NEW c \in DOMAIN calls, Key(calls[c]) # k,
         NEW p, NEW i, Serves(c, p, i), slipped \subseteq slipped', Run(k)' = Run(k)
  PROVE  CountKnow(k)'
  <1>1. MovesTo(c, p, i) /\ met' = met /\ RowOf(k)' = RowOf(k)
    BY KnownFields, CallMoved DEF Serves
  <1>2. Uncounted(k)' = Uncounted(k)
    BY <1>1, OthersUncounted
  <1>3. Tally(k)' = Tally(k) /\ Room(k)' = Room(k)
    BY <1>1, <1>2 DEF Tally, Room
  <1>4. NotBoth(k, {k[1]})'
    <2>1. NotBoth(k, {k[1]}) /\ UnderWay(c) /\ calls' = Moved(c, p, i)
      BY DEF CountKnow, Serves, UnderWay
    <2> QED
      BY <1>1, <2>1, MoveNotBoth
  <1>5. ASSUME NEW d \in DOMAIN calls', Key(calls'[d]) = k PROVE \E e \in DOMAIN calls : calls'[d] = calls[e]
    <2>1. PICK q : q = [op |-> calls[c].op, who |-> calls[c].who, arg |-> calls[c].arg, pc |-> p, row |-> i]
      OBVIOUS
    <2>2. d \in DOMAIN calls /\ calls'[d] = IF d # c THEN calls[d] ELSE q
      BY <1>1, <2>1 DEF MovesTo
    <2>3. q.op = calls[c].op /\ q.who = calls[c].who
      BY <2>1
    <2>4. Key(q) = Key(calls[c])
      BY <2>3 DEF Key
    <2> QED
      BY <1>5, <2>2, <2>4
  <1> QED
    BY <1>1, <1>3, <1>4, <1>5, CountStays

LEMMA ServedAccounts ==
  ASSUME NEW k \in Rows, CallsKnow, DeliveriesKnow, FiniteKnow(k), TakenOnce => CountKnow(k), CommandNext,
         NEW c \in DOMAIN calls, Counting(c) \/ Stalking(c) \/ Promoting(c) \/ Fails(c)
  PROVE  Accounts(k) /\ UNCHANGED <<chatVars, says, todo>>
  <1>1. \E p, i : Serves(c, p, i)
    BY CountingServes, StalkingServes, PromotingServes, FailsServes
  <1>2. UNCHANGED <<chatVars, says, todo>>
    BY <1>1, CallsRest DEF Serves
  <1>3. Callers'
    <2>1. PICK p, i : Serves(c, p, i)
      BY <1>1
    <2>2. MovesTo(c, p, i)
      BY <2>1, KnownFields, CallMoved DEF Serves
    <2> QED
      BY <2>2, CallersMove DEF FiniteKnow, Callers
  <1>4. ASSUME CountKnow(k), Run(k)' = Run(k) PROVE CountKnow(k)'
    <2>1. NotBoth(k, {k[1]})'
      <3>1. NotBoth(k, {k[1]})
        BY <1>4 DEF CountKnow
      <3> QED
        BY <3>1, CommandNotBoth
    <2>2. CASE Key(calls[c]) # k
      BY <1>1, <1>4, <2>2, ServiceSlips, OtherServed
    <2>3. CASE Key(calls[c]) = k
      <3>1. calls[c].op \in Counters
        BY <2>3, CounterKey
      <3>2. Counting(c) \/ Fails(c)
        BY <3>1, StalkingServes, PromotingServes, KeysApart
      <3> QED
        BY <1>4, <2>1, <2>3, <3>2, CountingCounts, FailCounts
    <2> QED
      BY <2>2, <2>3
  <1> QED
    BY <1>2, <1>3, <1>4, CallsAccounts

\* A caller takes its answer, gives up, or a dashboard asks.
LEMMA CallersAccounts ==
  ASSUME NEW k \in Rows, CallsKnow, DeliveriesKnow, FiniteKnow(k), TakenOnce => CountKnow(k), CommandNext,
         NEW c,
         \/ c \in DOMAIN calls /\ (Replied(c) \/ Applies(c) \/ TimesOut(c))
         \/ c \in asks /\ Dashboard(c)
  PROVE  Accounts(k) /\ UNCHANGED <<chatVars, says, todo>>
  <1>0. Callers
    BY DEF FiniteKnow, Callers
  <1>n. CountKnow(k) => NotBoth(k, {k[1]})'
    BY CommandNotBoth DEF CountKnow
  <1>1. CASE c \in DOMAIN calls /\ (Replied(c) \/ Applies(c))
    <2>1. /\ UNCHANGED <<chatVars, says, todo, rows, met, slipped>>
      BY <1>1 DEF Replied, Applies, InstallTarget, HydrateLast, Quote, SetApplies, UnsetApplies, Holds, tables, histories
    <2>2. \/ calls' = Over(c) /\ calls[c].pc \notin Writing
          \/ \E p, i : calls' = Moved(c, p, i) /\ Key(calls[c]) = Stalk
          \/ calls' = Over(c) /\ Key(calls[c]) = Stalk
      <3>1. CASE Replied(c)
        BY <3>1 DEF Replied, Writing
      <3>2. CASE Applies(c)
        <4>1. calls[c].op \in Stalks
          BY <3>2 DEF Applies, InstallTarget, HydrateLast, Quote, SetApplies, UnsetApplies, At, Stalks
        <4>2. Key(calls[c]) = Stalk
          BY <4>1, KeyOf
        <4>3. calls' = Over(c) \/ \E p, i : calls' = Moved(c, p, i)
          BY <3>2 DEF Applies, InstallTarget, HydrateLast, Quote, SetApplies, UnsetApplies
        <4> QED
          BY <4>2, <4>3
      <3> QED
        BY <1>1, <3>1, <3>2
    <2>3. CASE calls' = Over(c) /\ (calls[c].pc \notin Writing \/ Key(calls[c]) = Stalk)
      <3>1. DOMAIN calls' = DOMAIN calls \ {c} /\ \A d \in DOMAIN calls' : calls'[d] = calls[d]
        BY <2>3, CallOver
      <3>2. Uncounted(k)' = Uncounted(k)
        BY <2>3, <3>1, CounterKey DEF Uncounted, Writing
      <3>3. Callers'
        BY <1>0, <3>1, CallersStay
      <3>4. ASSUME CountKnow(k), Run(k)' = Run(k) PROVE CountKnow(k)'
        <4>1. RowOf(k)' = RowOf(k) /\ Tally(k)' = Tally(k) /\ Room(k)' = Room(k)
          BY <2>1, <3>2, <3>4 DEF RowOf, Tally, Room
        <4>2. \A d \in DOMAIN calls' : \E e \in DOMAIN calls : calls'[d] = calls[e]
          BY <3>1
        <4> QED
          BY <1>n, <2>1, <3>4, <4>1, <4>2, CountStays
      <3> QED
        BY <2>1, <3>3, <3>4, CallsAccounts
    <2>4. CASE \E p, i : calls' = Moved(c, p, i) /\ Key(calls[c]) = Stalk
      <3>1. PICK p, i : calls' = Moved(c, p, i) /\ Key(calls[c]) = Stalk
        BY <2>4
      <3>2. MovesTo(c, p, i) /\ Key(calls[c]) # k
        BY <1>1, <3>1, KnownFields, CallMoved, CounterKey
      <3>3. Uncounted(k)' = Uncounted(k)
        BY <1>1, <3>2, OthersUncounted
      <3>4. Callers'
        BY <1>0, <1>1, <3>2, CallersMove
      <3>5. ASSUME NEW d \in DOMAIN calls', Key(calls'[d]) = k PROVE \E e \in DOMAIN calls : calls'[d] = calls[e]
        <4>1. PICK q : q = [op |-> calls[c].op, who |-> calls[c].who, arg |-> calls[c].arg, pc |-> p, row |-> i]
          OBVIOUS
        <4>2. d \in DOMAIN calls /\ calls'[d] = IF d # c THEN calls[d] ELSE q
          BY <3>2, <4>1 DEF MovesTo
        <4>3. q.op = calls[c].op /\ q.who = calls[c].who
          BY <4>1
        <4>4. Key(q) = Key(calls[c])
          BY <4>3 DEF Key
        <4> QED
          BY <3>2, <3>5, <4>2, <4>4
      <3>6. ASSUME CountKnow(k), Run(k)' = Run(k) PROVE CountKnow(k)'
        <4>1. RowOf(k)' = RowOf(k) /\ Tally(k)' = Tally(k) /\ Room(k)' = Room(k)
          BY <2>1, <3>3, <3>6 DEF RowOf, Tally, Room
        <4> QED
          BY <1>n, <2>1, <3>5, <3>6, <4>1, CountStays
      <3> QED
        BY <2>1, <3>4, <3>6, CallsAccounts
    <2> QED
      BY <2>2, <2>3, <2>4
  <1>2. CASE c \in DOMAIN calls /\ TimesOut(c)
    <2>1. /\ UNCHANGED <<chatVars, says, todo, rows, met>> /\ slipped \subseteq slipped'
      BY <1>2 DEF TimesOut, tables
    <2>2. Callers'
      BY <1>0, <1>2, CallersTimeOut
    <2>3. ASSUME CountKnow(k), Run(k)' = Run(k) PROVE CountKnow(k)'
      <3>1. RowOf(k)' = RowOf(k) /\ Tally(k)' = Tally(k)
        BY <2>1 DEF RowOf, Tally
      <3> QED
        BY <1>n, <1>2, <2>1, <2>3, <3>1, TimesOutRoom, CountStays
    <2> QED
      BY <2>1, <2>2, <2>3, CallsAccounts
  <1>3. CASE c \in asks /\ Dashboard(c)
    <2>1. /\ UNCHANGED <<chatVars, says, todo, rows, slipped>> /\ calls' = Sent("dashboard", c)
          /\ met \subseteq met' /\ "dashboard" \notin DOMAIN calls
      BY <1>3 DEF Dashboard, tables, Meeting
    <2>2. Key(c) # k
      <3>1. c \in OnPage
        BY <1>3 DEF CallsKnow
      <3>2. c.op \notin Counters
        BY <3>1 DEF OnPage, Counters
      <3> QED
        BY <3>2, CounterKey
    <2>3. Callers'
      <3>1. "dashboard" \notin Messages
        BY CallersAssumption
      <3> QED
        BY <1>0, <2>1, <3>1, CallersSend
    <2>4. ASSUME CountKnow(k), Run(k)' = Run(k) PROVE CountKnow(k)'
      <3>1. Uncounted(k)' = Uncounted(k)
        BY <2>1, <2>2, SentUncounted
      <3>2. RowOf(k)' = RowOf(k) /\ Tally(k)' = Tally(k) /\ Room(k)' = Room(k)
        BY <2>1, <2>4, <3>1 DEF RowOf, Tally, Room
      <3> QED
        BY <1>n, <2>1, <2>4, <3>2, SentUncounted, CountStays
    <2> QED
      BY <2>1, <2>3, <2>4, CallsAccounts
  <1> QED
    BY <1>1, <1>2, <1>3

\* A goroutine takes up its next command: one more is run, and one more is to be counted.
LEMMA TakingAccounts ==
  ASSUME NEW k \in Rows, CallsKnow, HandsKnow, DeliveriesKnow, FiniteKnow(k), TakenOnce => CountKnow(k), CommandNext,
         NEW g \in Goroutines, Dispatch(g) \/ Remember(g)
  PROVE  Accounts(k) /\ DeliveriesKnow'
  <1>0. Callers
    BY DEF FiniteKnow, Callers
  <1>n. CountKnow(k) => NotBoth(k, {k[1]})'
    BY CommandNotBoth DEF CountKnow
  <1>1. Taking(g)
    BY DEF Dispatch, Remember, Taking, Busy, chatVars, cache, twitch
  <1>2. UNCHANGED <<rows, slipped>>
    BY DEF Dispatch, Remember, tables
  <1>3. RowOf(k)' = RowOf(k) /\ Tally(k)' = Tally(k)
    BY <1>2 DEF RowOf, Tally
  <1>4. PICK o : o = Head(todo[g])
    OBVIOUS
  <1>5. /\ DeliveriesKnow' /\ TakenOnce' = TakenOnce /\ Sendings(k)' = Sendings(k)
        /\ Key(o) # k => Run(k)' = Run(k)
        /\ TakenOnce /\ Key(o) = k => Run(k)' = Run(k) \cup {Upto(g)} /\ Upto(g) \notin Run(k)
    BY <1>1, <1>4, TakingKnow
  <1>6. CASE Key(o) # k /\ UNCHANGED <<calls, met>>
    <2>1. Accounts(k)
      BY <1>2, <1>5, <1>6, RestAccounts DEF FiniteKnow
    <2> QED
      BY <1>5, <2>1
  <1>7. ASSUME NEW c, NEW r, calls' = Sent(c, r), met' = Meeting(c, r), c \in DOMAIN calls => Key(calls[c]) # k,
               Key(r) = k <=> Key(o) = k, c \in Messages => r.op = "last"
        PROVE  Accounts(k)
    <2>1. Callers' /\ met \subseteq met'
      BY <1>0, <1>7, CallersSend DEF Meeting
    <2>2. FiniteKnow(k)'
      BY <1>5, <2>1 DEF FiniteKnow, Callers
    <2>3. ASSUME TakenOnce PROVE Room(k)' = Room(k)
      <3>1. CASE Key(o) # k
        <4>1. Uncounted(k)' = Uncounted(k) /\ Run(k)' = Run(k)
          BY <1>5, <1>7, <3>1, SentUncounted
        <4> QED
          BY <4>1 DEF Room
      <3>2. CASE Key(o) = k
        <4>1. /\ Uncounted(k)' = Uncounted(k) \cup {c} /\ c \notin Uncounted(k)
              /\ Run(k)' = Run(k) \cup {Upto(g)} /\ Upto(g) \notin Run(k)
          BY <1>5, <1>7, <2>3, <3>2, SentUncounted
        <4>2. /\ IsFiniteSet(Run(k)) /\ IsFiniteSet(Uncounted(k))
              /\ Cardinality(Run(k)) \in Nat /\ Cardinality(Uncounted(k)) \in Nat
          BY RoomType
        <4>3. /\ Cardinality(Run(k)') = Cardinality(Run(k)) + 1
              /\ Cardinality(Uncounted(k)') = Cardinality(Uncounted(k)) + 1
          BY <4>1, <4>2, FS_AddElement
        <4> QED
          BY <4>2, <4>3 DEF Room
      <3> QED
        BY <3>1, <3>2
    <2>4. ASSUME TakenOnce PROVE CountKnow(k)'
      BY <1>2, <1>3, <1>7, <1>n, <2>1, <2>3, <2>4, SentUncounted, CountStays
    <2> QED
      BY <1>5, <2>2, <2>4 DEF Accounts
  <1>8. CASE Dispatch(g) /\ ~UNCHANGED <<calls, met>>
    <2>1. calls' = Sent(g, o) /\ met' = Meeting(g, o) /\ g \notin DOMAIN calls
      BY <1>4, <1>8 DEF Dispatch, Free
    <2>2. g \notin Messages
      BY CallersAssumption
    <2> QED
      BY <1>5, <1>7, <2>1, <2>2
  <1>9. CASE Dispatch(g) /\ UNCHANGED <<calls, met>>
    <2>1. CASE o.op \in ForMods /\ o.who \notin Mods
      <3>1. o.op \notin Counters
        BY <2>1 DEF ForMods, Counters
      <3> QED
        BY <1>6, <1>9, <3>1, CounterKey
    <2>2. CASE ~(o.op \in ForMods /\ o.who \notin Mods)
      <3>1. calls' = Sent(g, o) /\ met' = Meeting(g, o) /\ g \notin DOMAIN calls
        BY <1>4, <1>9, <2>2 DEF Dispatch, Free
      <3>2. g \notin Messages
        BY CallersAssumption
      <3> QED
        BY <1>5, <1>7, <3>1, <3>2
    <2> QED
      BY <2>1, <2>2
  <1>10. CASE Remember(g)
    <2>1. PICK m, r : m = hand[g].msg /\ r = Asks("last", Author[m], m)
      OBVIOUS
    <2>2. r.op = "last" /\ Key(o) # k /\ Key(r) # k
      <3>1. r.op = "last"
        BY <2>1 DEF Asks
      <3>2. o.op = "line"
        BY <1>4, <1>10 DEF Remember
      <3> QED
        BY <3>1, <3>2, CounterKey DEF Counters
    <2>3. UNCHANGED <<calls, met>> \/ (calls' = Sent(m, r) /\ met' = Meeting(m, r))
      BY <1>10, <2>1 DEF Remember
    <2>4. m \in DOMAIN calls => Key(calls[m]) # k
      <3>1. m \in Messages
        BY <2>1 DEF HandsKnow
      <3>2. m \in DOMAIN calls => calls[m].op = "last"
        BY <1>0, <3>1 DEF Callers
      <3> QED
        BY <3>2, CounterKey DEF Counters
    <2>5. CASE calls' = Sent(m, r) /\ met' = Meeting(m, r)
      BY <1>5, <1>7, <2>2, <2>4, <2>5
    <2> QED
      BY <1>6, <2>2, <2>3, <2>5
  <1> QED
    BY <1>8, <1>9, <1>10

-----------------------------------------------------------------------------
(* Every step keeps both, and so the counts are true.                      *)

\* What a step does to the messages delivered and to what they say.
LEMMA SaysStay ==
  ASSUME [CommandNext]_commandVars
  PROVE  /\ says' = says
         /\ \/ sent' = sent
            \/ \E m \in Messages : sent' = sent \cup {m} /\ (DOMAIN says # {} => m \in DOMAIN says)
  <1>0. /\ UNCHANGED chatVars => UNCHANGED sent
        /\ UNCHANGED twitch => UNCHANGED sent
        /\ UNCHANGED commandOnly => UNCHANGED says
    BY DEF chatVars, twitch, commandOnly
  <1>1. CASE \E g \in Goroutines, m \in Messages : DeliverScript(g, m)
    BY <1>0, <1>1 DEF DeliverScript, Deliver
  <1>2. ASSUME NEW g \in Goroutines,
               \/ AskScript(g) \/ Dispatch(g) \/ Remember(g) \/ Finish(g)
               \/ (Shout(g) \/ Index(g) \/ Delete(g) \/ Store(g)) /\ UNCHANGED commandOnly
        PROVE  says' = says /\ sent' = sent
    BY <1>0, <1>2 DEF AskScript, Ask, AskUnless, Dispatch, Remember, Finish, IsListed, Shout, Index,
                      Delete, Store
  <1>3. ASSUME NEW c, Counting(c) \/ Stalking(c) \/ Promoting(c) \/ Fails(c), c \in DOMAIN calls
        PROVE  says' = says /\ sent' = sent
    BY <1>0, <1>3, CallsRest, ServiceSlips
  <1>4. ASSUME NEW c, \/ Replied(c) \/ TimesOut(c) \/ InstallTarget(c) \/ HydrateLast(c) \/ Quote(c)
                      \/ SetApplies(c) \/ UnsetApplies(c) \/ Dashboard(c)
        PROVE  says' = says /\ sent' = sent
    BY <1>0, <1>4 DEF Replied, TimesOut, InstallTarget, HydrateLast, Quote, SetApplies,
                      UnsetApplies, Holds, Dashboard
  <1>5. CASE ListStep /\ UNCHANGED commandOnly
    BY <1>0, <1>5 DEF ListStep, MapFault, GoLive, Query, QueryFor, Assign, Stamp, twitch
  <1>6. CASE UNCHANGED commandVars
    BY <1>0, <1>6 DEF commandVars
  <1> QED
    BY <1>1, <1>2, <1>3, <1>4, <1>5, <1>6 DEF CommandNext

\* The steps that touch neither a request nor a table.
LEMMA QuietCounts ==
  ASSUME CallsKnow, CountInv, UNCHANGED <<calls, rows, met, slipped>>, DeliveriesKnow',
         TakenOnce' => TakenOnce,
         \A k \in Rows : /\ TakenOnce' => Run(k)' = Run(k)
                         /\ IsFiniteSet(Sendings(k)) => IsFiniteSet(Sendings(k)')
  PROVE  CountInv'
  <1>1. ASSUME NEW k \in Rows PROVE Accounts(k)
    <2>1. FiniteKnow(k) /\ (TakenOnce => CountKnow(k))
      BY DEF CountInv, Rows
    <2>2. IsFiniteSet(Sendings(k)') /\ (TakenOnce' => CountKnow(k) /\ Run(k)' = Run(k))
      BY <2>1 DEF FiniteKnow
    <2> QED
      BY <2>1, <2>2, RestAccounts
  <1> QED
    BY <1>1 DEF CountInv, Accounts, Rows

LEMMA CommandCounts ==
  ASSUME FilterInv, CallsKnow, CountInv, [CommandNext]_commandVars
  PROVE  CountInv'
  <1>0. /\ HandsKnow /\ taken \in Seq(Messages) /\ DeliveriesKnow
        /\ \A k \in Rows : FiniteKnow(k) /\ (TakenOnce => CountKnow(k))
    BY DEF FilterInv, CountInv, Rows
  <1>r. DeliveriesKnow' /\ (\A k \in Rows : Accounts(k)) => CountInv'
    BY DEF CountInv, Accounts, Rows
  <1>c. UNCHANGED commandOnly => UNCHANGED <<calls, rows, met, slipped>> /\ UNCHANGED says
    BY DEF commandOnly, tables, histories
  <1>s. DeliveriesKnow /\ UNCHANGED <<chatVars, says, todo>> => DeliveriesKnow'
    BY StillSame
  <1>t. UNCHANGED <<taken, says>> => TakenOnce' = TakenOnce
    BY DEF TakenOnce, Tallied
  <1>1. ASSUME NEW g \in Goroutines, NEW m \in Messages, DeliverScript(g, m) PROVE CountInv'
    <2>1. UNCHANGED <<taken, says, calls, rows, met, slipped>>
      BY <1>1, <1>c DEF DeliverScript, Deliver
    <2> QED
      BY <1>0, <1>1, <1>t, <2>1, DeliverKnow, QuietCounts
  <1>2. ASSUME NEW g \in Goroutines, AskScript(g) PROVE CountInv'
    <2>1. UNCHANGED <<calls, rows, met, slipped>>
      BY <1>2 DEF AskScript, tables, histories
    <2>2. \A k \in Rows : IsFiniteSet(Sendings(k)) => IsFiniteSet(Sendings(k)')
      BY <1>0, <1>2, AskKnow
    <2> QED
      BY <1>0, <1>2, <2>1, <2>2, AskKnow, QuietCounts
  <1>q. Quiet /\ UNCHANGED commandOnly => CountInv'
    <2> SUFFICES ASSUME Quiet, UNCHANGED commandOnly PROVE CountInv'
      OBVIOUS
    <2>1. UNCHANGED <<taken, says, calls, rows, met, slipped>>
      BY <1>c DEF Quiet
    <2>2. DeliveriesKnow' /\ \A k \in Rows : Run(k)' = Run(k) /\ Sendings(k)' = Sendings(k)
      BY <1>0, QuietDeliveries
    <2> QED
      BY <1>t, <2>1, <2>2, QuietCounts
  <1>3. ASSUME NEW g \in Goroutines,
               \/ Finish(g)
               \/ (Shout(g) \/ Index(g) \/ Delete(g) \/ Store(g)) /\ UNCHANGED commandOnly
        PROVE  CountInv'
    <2>1. UNCHANGED commandOnly
      BY <1>3 DEF Finish
    <2> QED
      BY <1>0, <1>3, <1>q, <2>1, HandQuiet
  <1>4. CASE ListStep /\ UNCHANGED commandOnly
    <2>1. UNCHANGED <<says, sent, taken, set, todo, hand>>
      BY <1>4 DEF ListStep, MapFault, GoLive, Query, QueryFor, Assign, Stamp, cache, twitch, commandOnly
    <2> QED
      BY <1>4, <1>q, <2>1 DEF Quiet
  <1>5. CASE UNCHANGED commandVars
    <2>1. UNCHANGED commandOnly /\ UNCHANGED <<says, sent, taken, set, todo, hand>>
      BY <1>5 DEF commandVars, commandOnly, chatVars, cache, twitch
    <2> QED
      BY <1>q, <2>1 DEF Quiet
  <1>6. ASSUME NEW g \in Goroutines, Dispatch(g) \/ Remember(g), CommandNext PROVE CountInv'
    <2>1. Taking(g)
      BY <1>6 DEF Dispatch, Remember, Taking, Busy, chatVars, cache, twitch
    <2>2. DeliveriesKnow'
      BY <1>0, <2>1, TakingKnow
    <2> QED
      BY <1>0, <1>6, <1>r, <2>2, TakingAccounts
  <1>7. ASSUME NEW c \in DOMAIN calls, Counting(c) \/ Stalking(c) \/ Promoting(c) \/ Fails(c), CommandNext
        PROVE  CountInv'
    <2>1. \E p, i : Serves(c, p, i)
      BY <1>7, CountingServes, StalkingServes, PromotingServes, FailsServes
    <2>2. UNCHANGED <<chatVars, says, todo>>
      BY <1>7, <2>1, CallsRest DEF Serves
    <2> QED
      BY <1>0, <1>7, <1>r, <1>s, <2>2, ServedAccounts
  <1>8. ASSUME NEW c, CommandNext,
               \/ c \in DOMAIN calls /\ (Replied(c) \/ Applies(c) \/ TimesOut(c))
               \/ c \in asks /\ Dashboard(c)
        PROVE  CountInv'
    <2>1. UNCHANGED <<chatVars, says, todo>>
      BY <1>8 DEF Replied, Applies, InstallTarget, HydrateLast, Quote, SetApplies, UnsetApplies, Holds,
                  TimesOut, Dashboard
    <2> QED
      BY <1>0, <1>8, <1>r, <1>s, <2>1, CallersAccounts
  <1> QED
    BY <1>1, <1>2, <1>3, <1>4, <1>5, <1>6, <1>7, <1>8 DEF CommandNext, Applies

LEMMA InitCountInv ==
  ASSUME FreshCounters, CommandInit
  PROVE  CountInv
  <1>1. PICK s \in Scripts :
          /\ says = s.says /\ rows = s.rows
          /\ calls = IF s.boot THEN [c \in {"boot"} |-> [op |-> "get", who |-> None, arg |-> None,
                                                         pc |-> "find", row |-> NoRow]]
                     ELSE << >>
    BY DEF CommandInit
  <1>2. PICK q : q = [op |-> "get", who |-> None, arg |-> None, pc |-> "find", row |-> NoRow]
    OBVIOUS
  <1>3. DOMAIN calls \subseteq {"boot"} /\ \A c \in DOMAIN calls : calls[c] = q
    BY <1>1, <1>2
  <1>4. q.op = "get"
    BY <1>2
  <1>5. /\ set = {} /\ sent = {} /\ taken = << >> /\ todo = [g \in Goroutines |-> << >>]
        /\ \A g \in Goroutines : hand[g].pc = "idle"
    <2>1. Boots
      BY DEF CommandInit, ChatInit, ChatInitShouted
    <2> QED
      BY <2>1 DEF CommandInit, Boots, Init, Idle
  <1>6. DeliveriesKnow
    <2>1. \A g \in Goroutines : ~Busy(g) /\ hand[g].pc # "dedupe"
      BY <1>5 DEF Busy
    <2>2. ToSet(taken) = {}
      BY <1>5 DEF ToSet
    <2> QED
      BY <1>5, <2>1, <2>2 DEF DeliveriesKnow
  <1>7. ASSUME NEW k \in Rows PROVE FiniteKnow(k) /\ CountKnow(k)
    <2>1. Sendings(k) = {} /\ Run(k) = {}
      BY <1>5 DEF Sendings, Run
    <2>2. \A c \in DOMAIN calls : Key(calls[c]) # k
      BY <1>3, <1>4, CounterKey DEF Counters
    <2>3. Uncounted(k) = {}
      BY <2>2 DEF Uncounted
    <2>4. Room(k) = 0
      BY <2>1, <2>3, FS_EmptySet DEF Room
    <2>5. Tally(k) = 0
      <3>1. k \notin DOMAIN rows
        BY <1>1, CounterKey DEF FreshCounters
      <3> QED
        BY <3>1 DEF Tally, RowOf
    <2>6. NotBoth(k, {k[1]})
      BY <2>2 DEF NotBoth
    <2>7. FiniteKnow(k)
      <3>1. IsFiniteSet({"boot"}) /\ "boot" \notin Messages
        BY FS_Singleton, CallersAssumption
      <3>2. IsFiniteSet(DOMAIN calls)
        BY <1>3, <3>1, FS_Subset
      <3> QED
        BY <1>3, <2>1, <3>1, <3>2, FS_EmptySet DEF FiniteKnow
    <2> QED
      BY <2>2, <2>4, <2>5, <2>6, <2>7 DEF CountKnow
  <1> QED
    BY <1>6, <1>7 DEF CountInv, Rows

\* A row has room for what was said; at rest nothing said is missing.
LEMMA CountsFollow ==
  ASSUME CallsKnow, CountInv, TakenOnce
  PROVE  CountsTrue
  <1> SUFFICES ASSUME NEW k \in Rows
               PROVE  /\ Tally(k) <= Cardinality(Sendings(k))
                      /\ Resting /\ Undisturbed(k) => Tally(k) = Cardinality(Sendings(k))
    BY DEF CountsTrue, Undisturbed, Rows
  <1>1. DeliveriesKnow /\ FiniteKnow(k) /\ CountKnow(k)
    BY DEF CountInv, Rows
  <1>2. /\ IsFiniteSet(Sendings(k)) /\ Run(k) \subseteq Sendings(k)
        /\ Cardinality(Uncounted(k)) \in Nat /\ Cardinality(Run(k)) \in Nat
    BY <1>1, RoomType DEF FiniteKnow, Run
  <1>3. Cardinality(Sendings(k)) \in Nat /\ Cardinality(Run(k)) <= Cardinality(Sendings(k))
    BY <1>2, FS_Subset, FS_CardinalityType
  <1>4. Tally(k) \in Nat
    BY TallyType
  <1>5. Tally(k) <= Cardinality(Sendings(k))
    BY <1>1, <1>2, <1>3, <1>4 DEF CountKnow, Room
  <1>6. ASSUME Resting, Undisturbed(k) PROVE Tally(k) = Cardinality(Sendings(k))
    <2>1. \A g \in Goroutines : ~Busy(g) /\ hand[g].pc # "dedupe"
      BY <1>1, <1>6 DEF Resting, DeliveriesKnow
    <2>2. sent \subseteq ToSet(taken)
      BY <1>1, <2>1 DEF DeliveriesKnow
    <2>3. Run(k) = Sendings(k)
      BY <2>1, <2>2, SendingOf DEF Run
    <2>4. Uncounted(k) = {}
      BY <1>6 DEF Uncounted, Resting
    <2>5. Room(k) = Cardinality(Sendings(k))
      BY <1>3, <2>3, <2>4, FS_EmptySet DEF Room
    <2> QED
      BY <1>1, <1>6, <2>5 DEF CountKnow
  <1> QED
    BY <1>5, <1>6

\* The filter forgets a message after N others, which such a chat has not.
LEMMA AskTakenOnce ==
  ASSUME FilterInv, DeliveriesKnow, FewMessages(says), sent \subseteq DOMAIN says, TakenOnce,
         NEW g \in Goroutines, Ask(g), says' = says
  PROVE  TakenOnce'
  <1>0. taken \in Seq(Messages) /\ ForgottenLate /\ N \in Nat
    BY ConstantsAssumption DEF FilterInv
  <1>m. PICK m : m = hand[g].msg /\ m \in Messages
    BY DEF FilterInv, HandsKnow
  <1>1. CASE taken' = taken
    BY <1>1 DEF TakenOnce, Tallied
  <1>2. CASE taken' = Append(taken, m) /\ (m # Blank => m \notin set)
    <2>1. /\ Len(taken) \in Nat /\ DOMAIN taken = 1..Len(taken) /\ DOMAIN taken' = 1..(Len(taken) + 1)
          /\ taken'[Len(taken) + 1] = m /\ \A i \in DOMAIN taken : taken'[i] = taken[i]
      BY <1>0, <1>m, <1>2
    <2>2. ASSUME NEW i \in DOMAIN taken, taken[i] = m, m \in Tallied(says) PROVE FALSE
      <3>1. m \in DOMAIN says /\ m # Blank /\ m \notin set
        BY <1>2, <2>2 DEF Tallied, FewMessages
      <3>2. Cardinality(ActedSince(i)) >= N
        BY <1>0, <2>2, <3>1 DEF ForgottenLate
      <3>3. ActedSince(i) \subseteq DOMAIN says \ {m}
        <4> SUFFICES ASSUME NEW n \in (i + 1)..Len(taken) PROVE taken[n] \in DOMAIN says \ {m}
          BY DEF ActedSince
        <4>1. n \in DOMAIN taken /\ n # i
          BY <2>1
        <4>2. taken[n] \in DOMAIN says
          BY <4>1 DEF DeliveriesKnow, ToSet
        <4> QED
          BY <2>2, <4>1, <4>2 DEF TakenOnce
      <3>4. /\ IsFiniteSet(DOMAIN says \ {m})
            /\ Cardinality(DOMAIN says \ {m}) = Cardinality(DOMAIN says) - 1
            /\ Cardinality(DOMAIN says) \in Nat /\ Cardinality(DOMAIN says) <= N
        BY <3>1, FS_RemoveElement, FS_CardinalityType DEF FewMessages
      <3>5. Cardinality(ActedSince(i)) \in Nat /\ Cardinality(ActedSince(i)) <= Cardinality(DOMAIN says \ {m})
        BY <3>3, <3>4, FS_Subset, FS_CardinalityType
      <3> QED
        BY <1>0, <3>2, <3>4, <3>5
    <2>3. ASSUME NEW i \in DOMAIN taken', NEW j \in DOMAIN taken', i # j, taken'[i] = taken'[j],
                 taken'[i] \in Tallied(says)
          PROVE  FALSE
      <3>1. CASE i \in DOMAIN taken /\ j \in DOMAIN taken
        BY <2>1, <2>3, <3>1 DEF TakenOnce
      <3>2. CASE i = Len(taken) + 1 /\ j \in DOMAIN taken
        BY <2>1, <2>2, <2>3, <3>2
      <3>3. CASE j = Len(taken) + 1 /\ i \in DOMAIN taken
        BY <2>1, <2>2, <2>3, <3>3
      <3> QED
        BY <2>1, <2>3, <3>1, <3>2, <3>3
    <2> QED
      BY <2>3 DEF TakenOnce
  <1> QED
    BY <1>m, <1>1, <1>2 DEF Ask, AskUnless, SeenNew, ClaimForgetting

LEMMA CommandTaken ==
  ASSUME FilterInv, DeliveriesKnow, TakenKnow, [CommandNext]_commandVars
  PROVE  TakenKnow'
  <1> SUFFICES ASSUME Tallied(says') # {} PROVE FewMessages(says') /\ sent' \subseteq DOMAIN says' /\ TakenOnce'
    BY DEF TakenKnow, Tallied, FewMessages
  <1>1. says' = says /\ FewMessages(says) /\ sent \subseteq DOMAIN says /\ TakenOnce /\ DOMAIN says # {}
    BY SaysStay DEF TakenKnow, Tallied
  <1>2. sent' \subseteq DOMAIN says
    BY <1>1, SaysStay
  <1>3. UNCHANGED taken \/ \E g \in Goroutines : Ask(g)
    <2>1. HandsKnow
      BY DEF FilterInv
    <2> QED
      BY <2>1, CommandRests DEF RestsFilter, commandVars, chatVars
  <1>4. TakenOnce'
    <2>1. UNCHANGED taken => TakenOnce'
      BY <1>1 DEF TakenOnce, Tallied
    <2> QED
      BY <1>1, <1>3, <2>1, AskTakenOnce
  <1> QED
    BY <1>1, <1>2, <1>4

\* A counter never passes the commands taken up less the requests still to write it, and is
\* exactly that while they come one at a time: for any chatters, messages, ring and goroutines.
THEOREM CountInductive == ASSUME FreshCounters PROVE CommandSpec => []CountInv
  <1>1. CommandInit => CountInv
    BY InitCountInv
  <1>2. FilterInv /\ CommandInv /\ CountInv /\ [CommandNext]_commandVars => CountInv'
    BY CommandCounts DEF CommandInv
  <1> QED
    BY <1>1, <1>2, FilterInductive, CommandInductive, PTL DEF CommandSpec

\* "command handlers do not run twice" (bot.go:175-176): from empty counters, a counter is never
\* above the times its chatter sent the command, and at rest it is exactly that for !bread, and
\* for the others if their requests did not overlap, unless one failed; whatever Twitch repeats,
\* as long as no message that counts was pushed out of the filter and acted on again.
THEOREM CountsStayTrue == ASSUME FreshCounters PROVE CommandSpec => [](TakenOnce => CountsTrue)
  <1>1. CommandInv /\ CountInv => (TakenOnce => CountsTrue)
    BY CountsFollow DEF CommandInv
  <1> QED
    BY <1>1, CountInductive, CommandInductive, PTL

\* In a chat of no more messages than the filter remembers none is, so this holds outright.
THEOREM CountsAreTrue == ASSUME FreshCounters, FewCommands PROVE CommandSpec => []CountsTrue
  <1>1. CommandInit => TakenKnow
    <2> SUFFICES ASSUME CommandInit PROVE TakenKnow
      OBVIOUS
    <2>1. (\E s \in Scripts : says = s.says) /\ Boots
      BY DEF CommandInit, ChatInit, ChatInitShouted
    <2> QED
      BY <2>1 DEF TakenKnow, FewCommands, Boots, TakenOnce
  <1>2. FilterInv /\ CountInv /\ TakenKnow /\ [CommandNext]_commandVars => TakenKnow'
    BY CommandTaken DEF CountInv
  <1>3. CommandInv /\ CountInv /\ TakenKnow => CountsTrue
    <2>1. TakenKnow => TakenOnce
      BY DEF TakenKnow, TakenOnce
    <2> QED
      BY <2>1, CountsFollow DEF CommandInv
  <1> QED
    BY <1>1, <1>2, <1>3, FilterInductive, CountInductive, CommandInductive, PTL DEF CommandSpec
=============================================================================
