---------------------- MODULE SubscriptionRepairProofs ----------------------
(***************************************************************************)
(* For any broadcasters, types, tasks and failures, and any list to begin  *)
(* with: what each task is about to do to the one list of subscriptions,   *)
(* and from it what an undisturbed repair leaves, what the overlay's       *)
(* reconcile leaves, and that nobody loses a last subscription.            *)
(***************************************************************************)
EXTENDS SubscriptionRepair, FiniteSetTheorems, WellFoundedInduction, TLAPS

-----------------------------------------------------------------------------
(* A set of ids has a smallest: the first of the list.                     *)

LEMMA HasSmallest ==
  ASSUME NEW T, T \subseteq Nat, T # {}
  PROVE  \E x \in T : \A y \in T : x <= y
  <1> DEFINE F == {0..x : x \in T}
  <1>1. IsWellFoundedOn(StrictSubsetOrdering(Nat), FiniteSubsetsOf(Nat))
    BY FS_StrictSubsetOrderingWellFounded
  <1>2. F \subseteq FiniteSubsetsOf(Nat) /\ F # {}
    <2>1. ASSUME NEW x \in T PROVE 0..x \in FiniteSubsetsOf(Nat)
      <3>1. IsFiniteSet(0..x) /\ 0..x \subseteq Nat
        BY FS_Interval
      <3> QED
        BY <3>1 DEF FiniteSubsetsOf
    <2> QED
      BY <2>1
  <1>3. PICK m \in F : \A y \in F : ~ (<<y, m>> \in StrictSubsetOrdering(Nat))
    <2> HIDE DEF F
    <2> QED
      BY <1>1, <1>2, WFMin
  <1>4. PICK x \in T : m = 0..x
    OBVIOUS
  <1>5. ASSUME NEW y \in T, y < x PROVE FALSE
    <2>1. 0..y \in F /\ 0..y \subseteq Nat /\ 0..x \subseteq Nat
      OBVIOUS
    <2>2. 0..y \subseteq 0..x /\ x \in 0..x /\ x \notin 0..y
      BY <1>5
    <2>3. <<0..y, m>> \in StrictSubsetOrdering(Nat)
      BY <2>1, <2>2, <1>4 DEF StrictSubsetOrdering
    <2> QED
      BY <2>1, <2>3, <1>3
  <1> QED
    BY <1>5

LEMMA FirstIs ==
  ASSUME NEW S, S \subseteq SubRecs, S # {}
  PROVE  \E f \in S : First(S) = {f} /\ \A o \in S : f.id <= o.id
  <1>1. \A s \in S : s.id \in Nat
    BY StartsAssumption DEF SubRecs
  <1> DEFINE T == {s.id : s \in S}
  <1>2. PICK x \in T : \A y \in T : x <= y
    <2>1. T \subseteq Nat /\ T # {}
      BY <1>1
    <2> HIDE DEF T
    <2> QED
      BY <2>1, HasSmallest
  <1>3. \E f \in S : \A o \in S : f.id <= o.id
    BY <1>2
  <1> QED
    BY <1>3 DEF First

-----------------------------------------------------------------------------
(* Tasks: what each has under way after a step of its own.                 *)

Typed(r) == r \in TaskRecs /\ Shape(r)
Turns(t, r) == task' = [task EXCEPT ![t] = r]
Bystanders == UNCHANGED <<botVars, left, expect, settled>>

LEMMA NextIs ==
  ASSUME Next
  PROVE  \/ \E t \in Tasks : TaskStep(t) /\ Bystanders
         \/ \E t \in Tasks : /\ CallFails(t) /\ UNCHANGED <<botVars, left, expect>>
                             /\ settled' = IF task[t].op = "overlay" THEN settled ELSE {}
         \/ \E s \in subs : /\ Disabled(s) /\ UNCHANGED <<botVars, left, expect>>
                            /\ settled' = IF IsOverlaySub(s) THEN settled ELSE {}
         \/ /\ Restart /\ Spend("restart") /\ UNCHANGED <<botVars, expect>>
            /\ settled' = IF CoreApi \cap BotRunning = {} THEN settled ELSE {}
         \/ \E t \in Tasks : OverlayRequest(t)
         \/ \E t \in Tasks : BotRequest(t)
         \/ \E t \in Tasks : BotTask(t)
  BY DEF Next, SharedStep, Bystanders

LEMMA DoneTyped == Typed(Done) /\ Remembered(Done) = {}
  BY DEF Typed, Done, TaskRecs, Shape, Remembered

LEMMA SpendTyped ==
  ASSUME left \in [Ops -> 0..Unlimited], NEW op \in Ops, Spend(op)
  PROVE  left' \in [Ops -> 0..Unlimited]
  BY DEF Spend, Unlimited

\* What is being done and has not been called for yet.
LEMMA TaskTyped ==
  ASSUME Shapes, NEW t \in Tasks
  PROVE  /\ Typed(task[t])
         /\ task[t].pc = "done" => task[t].op = "overlay"
         /\ task[t].pc = "list" => task[t].op = "overlay"
         /\ task[t].pc = "remaining" => task[t].op = "overlay"
         /\ task[t].pc = "repair" => task[t].op \in Repairing
         /\ task[t].pc = "botlist" => task[t].op \in {"banish", "prune"} \cup Repairing
         /\ task[t].pc = "calls" => task[t].todo = {}
  BY DEF Shapes, Shape, Typed, Repairing, Creators

LEMMA StartTyped ==
  ASSUME Shapes, NEW t \in Tasks, NEW r, Start(t, r)
  PROVE  task[t].pc = "done" /\ task[t].op = "overlay" /\ Turns(t, r)
  BY TaskTyped DEF Start, Turns

\* The records that tasks begin with.
LEMMA OverlayStarts ==
  ASSUME Shapes, NEW t \in Tasks, OverlayRequest(t)
  PROVE  \E r : /\ Turns(t, r) /\ Typed(r) /\ Remembered(r) = {} /\ r.op = "overlay"
                /\ task[t].pc = "done" /\ task[t].op = "overlay"
  <1>1. ASSUME NEW b \in Broadcasters, Mint(t, b)
        PROVE  Start(t, [Done EXCEPT !.pc = "calls", !.b = b, !.create = {b} \X Types])
    BY <1>1 DEF Mint
  <1>2. ASSUME NEW b \in Broadcasters
        PROVE  LET r == [Done EXCEPT !.pc = "calls", !.b = b, !.create = {b} \X Types]
               IN Typed(r) /\ Remembered(r) = {} /\ r.op = "overlay"
    BY DEF Typed, Done, TaskRecs, Shape, Remembered
  <1>3. ASSUME NEW b \in Broadcasters, Revoke(t, b)
        PROVE  Start(t, [Done EXCEPT !.pc = "remaining", !.b = b])
    BY <1>3 DEF Revoke
  <1>4. ASSUME NEW b \in Broadcasters
        PROVE  LET r == [Done EXCEPT !.pc = "remaining", !.b = b]
               IN Typed(r) /\ Remembered(r) = {} /\ r.op = "overlay"
    BY DEF Typed, Done, TaskRecs, Shape, Remembered
  <1>5. LET r == [Done EXCEPT !.pc = "list", !.keep = paired]
        IN Typed(r) /\ Remembered(r) = {} /\ r.op = "overlay"
    BY DEF Typed, Done, TaskRecs, Shape, Remembered, Shapes
  <1>6. CASE \E b \in Broadcasters : Mint(t, b) /\ Spend("mint")
    BY <1>1, <1>2, <1>6, StartTyped
  <1>7. CASE \E b \in Broadcasters : Revoke(t, b) /\ Spend("revoke")
    BY <1>3, <1>4, <1>7, StartTyped
  <1>8. CASE Boot(t) /\ Spend("boot")
    BY <1>5, <1>8, StartTyped DEF Boot
  <1> QED
    BY <1>6, <1>7, <1>8 DEF OverlayRequest

LEMMA BanishTyped ==
  ASSUME NEW b \in Broadcasters
  PROVE  LET r == [[Done EXCEPT !.pc = "botlist", !.b = b] EXCEPT !.op = "banish"]
         IN Typed(r) /\ Remembered(r) = {} /\ r.op = "banish" /\ r.pc = "botlist" /\ r.b = b
  BY DEF Typed, Done, TaskRecs, Shape, Remembered, Ops

LEMMA CheckTyped ==
  ASSUME NEW op \in {"prune"} \cup Repairing, NEW keep \in SUBSET Broadcasters
  PROVE  LET r == [[Done EXCEPT !.pc = "botlist", !.keep = keep] EXCEPT !.op = op]
         IN Typed(r) /\ Remembered(r) = {} /\ r.op = op /\ r.pc = "botlist" /\ r.keep = keep
  BY DEF Typed, Done, TaskRecs, Shape, Remembered, Repairing, Ops

\* A bot task starts.
Begins(t, r, leaves) ==
  /\ Turns(t, r) /\ Typed(r) /\ Remembered(r) = {} /\ r.op \in Ops
  /\ task[t].pc = "done" /\ task[t].op = "overlay" /\ left' \in [Ops -> 0..Unlimited]
  /\ settled' = IF BotRunning = {} THEN settled \cup leaves ELSE {}
  /\ UNCHANGED <<paired, subs, booted, failures>>

LEMMA JobBegins ==
  ASSUME Shapes, NEW t \in Tasks, NEW op \in Ops, NEW r, NEW expects, NEW leaves,
         StartJob(t, op, r, expects, leaves),
         Typed([r EXCEPT !.op = op]), Remembered([r EXCEPT !.op = op]) = {}, [r EXCEPT !.op = op].op = op
  PROVE  Begins(t, [r EXCEPT !.op = op], leaves) /\ expect' = expects
  <1>1. Start(t, [r EXCEPT !.op = op]) /\ Spend(op) /\ left \in [Ops -> 0..Unlimited]
    BY DEF StartJob, Shapes
  <1>2. left' \in [Ops -> 0..Unlimited]
    BY <1>1, SpendTyped
  <1>3. task[t].pc = "done" /\ task[t].op = "overlay" /\ Turns(t, [r EXCEPT !.op = op])
    BY <1>1, StartTyped
  <1> QED
    BY <1>2, <1>3 DEF Begins, StartJob

Creates(t) ==
  \E r, more : /\ Begins(t, r, {}) /\ r.op \in Creators /\ r.pc = "calls" /\ r.create = more
               /\ more \subseteq Broadcasters \X Required /\ expect' = expect \cup more
               /\ optIn' \subseteq known' /\ known' \subseteq Broadcasters /\ clean' = clean
Banishes(t) ==
  \E r : \E b \in Broadcasters :
    /\ Begins(t, r, {b}) /\ r.op = "banish" /\ r.b = b /\ r.pc = "botlist"
    /\ expect' = {p \in expect : p[1] # b} /\ clean' = (clean /\ Running = {} /\ b \notin paired)
    /\ UNCHANGED botVars
Prunes(t) ==
  \E r : /\ Begins(t, r, Broadcasters \ optIn) /\ r.op = "prune" /\ r.keep = optIn /\ r.pc = "botlist"
         /\ expect' = {p \in expect : p[1] \in optIn}
         /\ clean' = (clean /\ Running = {} /\ paired \subseteq optIn)
         /\ UNCHANGED botVars
Audits(t) ==
  \E r : /\ Begins(t, r, optIn) /\ r.op \in Repairing /\ r.keep = optIn /\ r.pc = "botlist"
         /\ expect' = expect \cup (optIn \X Required) /\ clean' = clean
         /\ UNCHANGED botVars

LEMMA RequestCreates ==
  ASSUME Shapes, NEW t \in Tasks, NEW op \in Creators, NEW b \in Broadcasters \cup {NoOne},
         NEW more \in SUBSET (Broadcasters \X Required),
         StartJob(t, op, [Done EXCEPT !.pc = "calls", !.b = b, !.create = more], expect \cup more, {}),
         optIn' \subseteq known', known' \subseteq Broadcasters, clean' = clean
  PROVE  Creates(t)
  <1> DEFINE d == [Done EXCEPT !.pc = "calls", !.b = b, !.create = more]
             r == [d EXCEPT !.op = op]
  <1>1. Typed(r) /\ Remembered(r) = {} /\ r.op = op /\ r.pc = "calls" /\ r.create = more
    BY DEF Typed, Done, TaskRecs, Shape, Remembered, Creators, Ops
  <1>2. op \in Ops
    BY DEF Creators, Ops
  <1> HIDE DEF d
  <1>3. Begins(t, r, {}) /\ expect' = expect \cup more
    BY <1>1, <1>2, JobBegins DEF d
  <1> QED
    BY <1>1, <1>3 DEF Creates

LEMMA CheckStarts ==
  ASSUME Shapes, NEW t \in Tasks, NEW op \in Repairing \cup {"prune"}, HealthCheck(t, op)
  PROVE  IF op = "prune" THEN Prunes(t) ELSE Audits(t)
  <1> DEFINE d == [Done EXCEPT !.pc = "botlist", !.keep = optIn]
             r == [d EXCEPT !.op = op]
             lv == IF op \in Repairing THEN optIn ELSE Broadcasters \ optIn
  <1>1. Typed(r) /\ Remembered(r) = {} /\ r.op = op /\ r.pc = "botlist" /\ r.keep = optIn
    <2>1. optIn \in SUBSET Broadcasters
      BY DEF Shapes
    <2> QED
      BY <2>1, CheckTyped
  <1>2. op \in Ops
    BY DEF Repairing, Ops
  <1>3. /\ StartJob(t, op, d, IF op \in Repairing THEN expect \cup (optIn \X Required)
                                                  ELSE {p \in expect : p[1] \in optIn}, lv)
        /\ clean' = (clean /\ (op \in Repairing \/ (Running = {} /\ paired \subseteq optIn)))
        /\ UNCHANGED botVars
    BY DEF HealthCheck
  <1> HIDE DEF d
  <1>4. Begins(t, r, lv) /\ expect' = IF op \in Repairing THEN expect \cup (optIn \X Required)
                                                  ELSE {p \in expect : p[1] \in optIn}
    BY <1>1, <1>2, <1>3, JobBegins
  <1>5. op = "prune" <=> op \notin Repairing
    BY DEF Repairing
  <1>6. clean \in BOOLEAN
    BY DEF Shapes
  <1>7. CASE op = "prune"
    BY <1>1, <1>3, <1>4, <1>5, <1>6, <1>7 DEF Prunes
  <1>8. CASE op # "prune"
    BY <1>1, <1>3, <1>4, <1>5, <1>6, <1>8 DEF Audits
  <1> QED
    BY <1>7, <1>8

LEMMA RequestIs ==
  ASSUME Shapes, NEW t \in Tasks, BotRequest(t)
  PROVE  Creates(t) \/ Banishes(t) \/ Prunes(t) \/ Audits(t)
  <1>0. optIn \subseteq known /\ known \subseteq Broadcasters
    BY DEF Shapes
  <1>1. ASSUME NEW b \in Broadcasters, SignIn(t, b) PROVE Creates(t)
    <2> DEFINE more == {b} \X Required
    <2>1. more \in SUBSET (Broadcasters \X Required)
      OBVIOUS
    <2>2. /\ StartJob(t, "signin", [Done EXCEPT !.pc = "calls", !.b = b, !.create = more], expect \cup more, {})
          /\ optIn' \subseteq known' /\ known' \subseteq Broadcasters /\ clean' = clean
      BY <1>0, <1>1 DEF SignIn
    <2> HIDE DEF more
    <2> QED
      BY <2>1, <2>2, RequestCreates DEF Creators
  <1>2. ASSUME NEW b \in Broadcasters, JoinMe(t, b) PROVE Creates(t)
    <2> DEFINE more == {b} \X JoinTypes
    <2>1. more \in SUBSET (Broadcasters \X Required)
      BY StartsAssumption
    <2>2. /\ StartJob(t, "joinme", [Done EXCEPT !.pc = "calls", !.b = b, !.create = more], expect \cup more, {})
          /\ optIn' \subseteq known' /\ known' \subseteq Broadcasters /\ clean' = clean
      BY <1>0, <1>2 DEF JoinMe
    <2> HIDE DEF more
    <2> QED
      BY <2>1, <2>2, RequestCreates DEF Creators
  <1>3. ASSUME NEW b \in Broadcasters, GrantChatRead(t, b) PROVE Creates(t)
    <2> DEFINE more == {<<b, Chat>>}
    <2>1. more \in SUBSET (Broadcasters \X Required)
      BY StartsAssumption
    <2>2. /\ StartJob(t, "grant", [Done EXCEPT !.pc = "calls", !.b = b, !.create = more], expect \cup more, {})
          /\ optIn' \subseteq known' /\ known' \subseteq Broadcasters /\ clean' = clean
      BY <1>0, <1>3 DEF GrantChatRead, botVars
    <2> HIDE DEF more
    <2> QED
      BY <2>1, <2>2, RequestCreates DEF Creators
  <1>4. ASSUME Backfill(t) PROVE Creates(t)
    <2> DEFINE more == optIn \X Required
               d == [Done EXCEPT !.pc = "calls", !.create = more]
               r == [d EXCEPT !.op = "backfill"]
    <2>1. more \in SUBSET (Broadcasters \X Required)
      BY <1>0
    <2>2. StartJob(t, "backfill", d, expect \cup more, {}) /\ clean' = clean /\ UNCHANGED botVars
      BY <1>4 DEF Backfill
    <2> HIDE DEF more
    <2>3. Typed(r) /\ Remembered(r) = {} /\ r.op = "backfill" /\ r.pc = "calls" /\ r.create = more
      BY <2>1 DEF Typed, Done, TaskRecs, Shape, Remembered, Creators, Ops
    <2> HIDE DEF d
    <2>4. Begins(t, r, {}) /\ expect' = expect \cup more
      BY <2>2, <2>3, JobBegins DEF Ops
    <2> QED
      BY <1>0, <2>1, <2>2, <2>3, <2>4 DEF Creates, Creators, botVars
  <1>5. ASSUME NEW b \in Broadcasters, Banish(t, b) PROVE Banishes(t)
    <2> DEFINE d == [Done EXCEPT !.pc = "botlist", !.b = b]
               r == [d EXCEPT !.op = "banish"]
    <2>1. Typed(r) /\ Remembered(r) = {} /\ r.op = "banish" /\ r.pc = "botlist" /\ r.b = b
      BY BanishTyped
    <2>2. StartJob(t, "banish", d, {p \in expect : p[1] # b}, {b})
      BY <1>5 DEF Banish
    <2> HIDE DEF d
    <2>3. Begins(t, r, {b}) /\ expect' = {p \in expect : p[1] # b}
      BY <2>1, <2>2, JobBegins DEF Ops
    <2> QED
      BY <1>5, <2>1, <2>3 DEF Banish, Banishes
  <1>6. ASSUME NEW op \in Repairing \cup {"prune"}, HealthCheck(t, op) PROVE Prunes(t) \/ Audits(t)
    BY <1>6, CheckStarts
  <1> QED
    BY <1>1, <1>2, <1>3, <1>4, <1>5, <1>6 DEF BotRequest

-----------------------------------------------------------------------------
(* What each step of a task leaves it with.                                *)

Goes(t, r) == Turns(t, r) /\ Typed(r)

LEMMA TurnIs ==
  ASSUME Shapes, NEW t \in Tasks, NEW r, Turns(t, r)
  PROVE  task'[t] = r /\ \A u \in Tasks \ {t} : task'[u] = task[u]
  BY DEF Shapes, Turns

LEMMA CountIs ==
  ASSUME Shapes, NEW t \in Tasks, CountRemaining(t)
  PROVE  \E r : /\ Goes(t, r) /\ task[t].op = "overlay" /\ task[t].pc = "remaining"
                /\ r.op = "overlay" /\ Remembered(r) = {}
                /\ IF task[t].b \notin paired
                   THEN r.pc = "list" /\ r.b = task[t].b ELSE r.pc = "done"
                /\ UNCHANGED <<paired, subs, booted, failures, clean>>
  <1>1. Typed(task[t]) /\ task[t].pc = "remaining" /\ task[t].op = "overlay"
    BY TaskTyped DEF CountRemaining, UnsubscribeIf
  <1>2. CASE task[t].b \notin paired
    <2> DEFINE r == [task[t] EXCEPT !.pc = "list"]
    <2>1. Turns(t, r) /\ UNCHANGED <<paired, subs, booted, failures, clean>>
      BY <1>2 DEF CountRemaining, UnsubscribeIf, Turns
    <2>2. Typed(r) /\ Remembered(r) = {} /\ r.pc = "list" /\ r.op = "overlay" /\ r.b = task[t].b
      BY <1>1 DEF Typed, TaskRecs, Shape, Remembered, Creators, Repairing
    <2> HIDE DEF r
    <2> QED
      BY <1>1, <1>2, <2>1, <2>2 DEF Goes
  <1>3. CASE task[t].b \in paired
    <2>1. Turns(t, Done) /\ UNCHANGED <<paired, subs, booted, failures, clean>>
      BY <1>3 DEF CountRemaining, UnsubscribeIf, Turns
    <2>2. Done.op = "overlay" /\ Done.pc = "done"
      BY DEF Done
    <2> QED
      BY <1>1, <1>3, <2>1, <2>2, DoneTyped DEF Goes
  <1> QED
    BY <1>2, <1>3

LEMMA ListIs ==
  ASSUME Shapes, NEW t \in Tasks, ListSubs(t)
  PROVE  \E r : /\ Goes(t, r) /\ task[t].op = "overlay" /\ task[t].pc = "list"
                /\ r.op = "overlay" /\ r.pc = "calls" /\ Remembered(r) = r.delete
                /\ IF task[t].b # NoOne
                   THEN r.delete = {s \in Ours : s.b = task[t].b} /\ r.create = {}
                   ELSE /\ r.create = (task[t].keep \X Types) \ On(Ours)
                        /\ r.delete = {s \in Ours : s.b \notin task[t].keep}
                /\ UNCHANGED <<paired, subs, booted, failures, clean>>
  <1>1. Typed(task[t]) /\ task[t].pc = "list" /\ task[t].op = "overlay"
    BY TaskTyped DEF ListSubs, ListThen
  <1>2. Turns(t, Plan(task[t], Ours, On(Ours))) /\ UNCHANGED <<paired, subs, booted, failures, clean>>
    BY DEF ListSubs, ListThen, Turns, Shapes
  <1>3. Ours \subseteq SubRecs /\ \A s \in Ours : IsOverlaySub(s)
    BY DEF Ours, Shapes
  <1>4. CASE task[t].b # NoOne
    <2> DEFINE del == {s \in Ours : s.b = task[t].b}
               r == [task[t] EXCEPT !.pc = "calls", !.delete = del]
    <2>1. Turns(t, r)
      BY <1>2, <1>4 DEF Plan
    <2>2. del \subseteq SubRecs /\ \A s \in del : IsOverlaySub(s)
      BY <1>3
    <2> HIDE DEF del
    <2>3. /\ r \in TaskRecs /\ r.op = "overlay" /\ r.pc = "calls" /\ r.delete = del
          /\ r.create = task[t].create /\ r.todo = task[t].todo
      BY <1>1, <2>2 DEF Typed, TaskRecs
    <2>4. task[t].create = {} /\ task[t].todo = {}
      BY <1>1 DEF Typed, Shape, Creators, Repairing
    <2>5. Shape(r) /\ Remembered(r) = r.delete /\ r.create = {}
      BY <2>2, <2>3, <2>4 DEF Shape, Remembered
    <2> HIDE DEF r
    <2> QED
      BY <1>1, <1>2, <1>4, <2>1, <2>3, <2>5 DEF Goes, Typed, del
  <1>5. CASE task[t].b = NoOne
    <2> DEFINE del == {s \in Ours : s.b \notin task[t].keep}
               more == (task[t].keep \X Types) \ On(Ours)
               r == [task[t] EXCEPT !.pc = "calls", !.create = more, !.delete = del]
    <2>1. Turns(t, r)
      BY <1>2, <1>5 DEF Plan
    <2>2. del \subseteq SubRecs /\ \A s \in del : IsOverlaySub(s)
      BY <1>3
    <2>3. more \subseteq Broadcasters \X Types
      BY <1>1 DEF Typed, TaskRecs
    <2> HIDE DEF del, more
    <2>4. /\ r \in TaskRecs /\ r.op = "overlay" /\ r.pc = "calls" /\ r.delete = del
          /\ r.create = more /\ r.todo = task[t].todo
      BY <1>1, <2>2, <2>3 DEF Typed, TaskRecs
    <2>5. task[t].todo = {}
      BY <1>1 DEF Typed, Shape, Creators, Repairing
    <2>6. Shape(r) /\ Remembered(r) = r.delete
      BY <2>2, <2>3, <2>4, <2>5 DEF Shape, Remembered
    <2> HIDE DEF r
    <2> QED
      BY <1>1, <1>2, <1>5, <2>1, <2>4, <2>6 DEF Goes, Typed, del, more
  <1> QED
    BY <1>4, <1>5

\* The tasks that only call: a create or a delete less.
Calling(t) == task[t].pc = "calls" /\ task[t].op \in {"overlay", "banish", "prune"} \cup Creators \cup Repairing

LEMMA Fewer ==
  ASSUME Shapes, NEW t \in Tasks, task[t].pc = "calls",
         NEW w, NEW r, r = [task[t] EXCEPT !.create = @ \ {w}]
  PROVE  /\ Typed(r) /\ r.op = task[t].op /\ r.pc = "calls" /\ r.b = task[t].b /\ r.keep = task[t].keep
         /\ r.create = task[t].create \ {w} /\ r.delete = task[t].delete /\ r.todo = task[t].todo
         /\ Remembered(r) = task[t].delete /\ Remembered(task[t]) = task[t].delete
  <1>1. Typed(task[t]) /\ task[t].todo = {}
    BY TaskTyped
  <1>2. /\ r \in TaskRecs /\ r.op = task[t].op /\ r.pc = "calls" /\ r.b = task[t].b /\ r.keep = task[t].keep
        /\ r.create = task[t].create \ {w} /\ r.delete = task[t].delete /\ r.todo = task[t].todo
    BY <1>1 DEF Typed, TaskRecs
  <1>3. Shape(r)
    BY <1>1, <1>2 DEF Typed, Shape
  <1>4. Remembered(r) = task[t].delete /\ Remembered(task[t]) = task[t].delete
    BY <1>1, <1>2 DEF Remembered
  <1> QED
    BY <1>2, <1>3, <1>4 DEF Typed

LEMMA FewerDeletes ==
  ASSUME Shapes, NEW t \in Tasks, task[t].pc = "calls",
         NEW s, NEW r, r = [task[t] EXCEPT !.delete = @ \ {s}]
  PROVE  /\ Typed(r) /\ r.op = task[t].op /\ r.pc = "calls" /\ r.b = task[t].b /\ r.keep = task[t].keep
         /\ r.create = task[t].create /\ r.delete = task[t].delete \ {s} /\ r.todo = task[t].todo
         /\ Remembered(r) = task[t].delete \ {s} /\ Remembered(task[t]) = task[t].delete
  <1>1. Typed(task[t]) /\ task[t].todo = {}
    BY TaskTyped
  <1>2. /\ r \in TaskRecs /\ r.op = task[t].op /\ r.pc = "calls" /\ r.b = task[t].b /\ r.keep = task[t].keep
        /\ r.create = task[t].create /\ r.delete = task[t].delete \ {s} /\ r.todo = task[t].todo
    BY <1>1 DEF Typed, TaskRecs
  <1>3. Shape(r)
    BY <1>1, <1>2 DEF Typed, Shape
  <1>4. Remembered(r) = task[t].delete \ {s} /\ Remembered(task[t]) = task[t].delete
    BY <1>1, <1>2 DEF Remembered
  <1> QED
    BY <1>2, <1>3, <1>4 DEF Typed

LEMMA CreateIs ==
  ASSUME Shapes, NEW t \in Tasks, Create(t)
  PROVE  \E r : \E want \in task[t].create :
           /\ Goes(t, r) /\ r.op = task[t].op /\ r.pc = "calls" /\ r.b = task[t].b /\ r.keep = task[t].keep
           /\ r.create = task[t].create \ {want} /\ r.delete = task[t].delete /\ r.todo = task[t].todo
           /\ Remembered(r) = Remembered(task[t]) /\ task[t].pc = "calls"
           /\ AttemptNewSubscription(want, FreshIds) /\ UNCHANGED <<paired, booted, failures, clean>>
  <1>1. PICK want \in task[t].create :
           /\ task' = [task EXCEPT ![t].create = @ \ {want}] /\ AttemptNewSubscription(want, FreshIds)
    BY DEF Create
  <1>2. task[t].pc = "calls" /\ UNCHANGED <<paired, booted, failures, clean>>
    BY DEF Create
  <1> DEFINE r == [task[t] EXCEPT !.create = @ \ {want}]
  <1>3. Turns(t, r)
    BY <1>1 DEF Turns
  <1>4. /\ Typed(r) /\ r.op = task[t].op /\ r.pc = "calls" /\ r.b = task[t].b /\ r.keep = task[t].keep
        /\ r.create = task[t].create \ {want} /\ r.delete = task[t].delete /\ r.todo = task[t].todo
        /\ Remembered(r) = task[t].delete /\ Remembered(task[t]) = task[t].delete
    <2> HIDE DEF r
    <2> QED
      BY <1>2, Fewer DEF r
  <1> HIDE DEF r
  <1> QED
    BY <1>1, <1>2, <1>3, <1>4 DEF Goes

LEMMA DeleteIs ==
  ASSUME Shapes, NEW t \in Tasks, Delete(t)
  PROVE  \E r : \E s \in task[t].delete :
           /\ Goes(t, r) /\ r.op = task[t].op /\ r.pc = "calls" /\ r.b = task[t].b /\ r.keep = task[t].keep
           /\ r.create = {} /\ r.delete = task[t].delete \ {s} /\ r.todo = task[t].todo
           /\ Remembered(r) = Remembered(task[t]) \ {s} /\ s \in Remembered(task[t])
           /\ task[t].pc = "calls" /\ task[t].create = {}
           /\ DeleteEventSubSubscription(s) /\ UNCHANGED <<paired, booted, failures, clean>>
  <1>1. PICK s \in task[t].delete :
           task' = [task EXCEPT ![t].delete = @ \ {s}] /\ DeleteEventSubSubscription(s)
    BY DEF Delete
  <1>2. task[t].pc = "calls" /\ task[t].create = {} /\ UNCHANGED <<paired, booted, failures, clean>>
    BY DEF Delete
  <1> DEFINE r == [task[t] EXCEPT !.delete = @ \ {s}]
  <1>3. Turns(t, r)
    BY <1>1 DEF Turns
  <1>4. /\ Typed(r) /\ r.op = task[t].op /\ r.pc = "calls" /\ r.b = task[t].b /\ r.keep = task[t].keep
        /\ r.create = task[t].create /\ r.delete = task[t].delete \ {s} /\ r.todo = task[t].todo
        /\ Remembered(r) = task[t].delete \ {s} /\ Remembered(task[t]) = task[t].delete
    <2> HIDE DEF r
    <2> QED
      BY <1>2, FewerDeletes DEF r
  <1> HIDE DEF r
  <1> QED
    BY <1>1, <1>2, <1>3, <1>4 DEF Goes

\* A task that ends has nothing left to do, whatever it was.
LEMMA EndIs ==
  ASSUME Shapes, NEW t \in Tasks, Finish(t) \/ RepairDone(t) \/ OptOut(t)
  PROVE  /\ Goes(t, Done) /\ Remembered(task[t]) = {} /\ task[t].pc # "done"
         /\ task[t].delete = {} /\ task[t].create = {} /\ task[t].todo = {}
         /\ task[t].pc \in {"calls", "repair"}
         /\ UNCHANGED <<paired, subs, booted, failures, clean>>
  <1>1. Turns(t, Done) /\ UNCHANGED <<paired, subs, booted, failures, clean>>
    BY DEF Finish, RepairDone, OptOut, Turns
  <1>2. task[t].pc = "calls" => task[t].todo = {}
    BY TaskTyped
  <1>3. task[t].pc = "repair" => task[t].delete = {} /\ task[t].create = {}
    BY TaskTyped DEF Typed, Shape, Creators
  <1>4. task[t].op = "banish" => task[t].create = {}
    BY TaskTyped DEF Typed, Shape, Creators, Repairing
  <1>5. /\ task[t].delete = {} /\ task[t].create = {} /\ task[t].todo = {}
        /\ task[t].pc \in {"calls", "repair"}
    BY <1>2, <1>3, <1>4 DEF Finish, RepairDone, OptOut
  <1>6. Remembered(task[t]) = {}
    BY <1>5 DEF Remembered
  <1> QED
    BY <1>1, <1>5, <1>6, DoneTyped DEF Goes

\* A failed call takes nothing new upon itself.
LEMMA CallFailsIs ==
  ASSUME Shapes, NEW t \in Tasks, CallFails(t)
  PROVE  /\ \E r : Goes(t, r) /\ Remembered(r) \subseteq Remembered(task[t]) /\ r.op = task[t].op
         /\ failures' = failures + 1 /\ failures < MaxFailures /\ clean' = FALSE
         /\ UNCHANGED <<paired, subs, booted>>
  <1>1. /\ failures' = failures + 1 /\ failures < MaxFailures /\ clean' = FALSE
        /\ UNCHANGED <<paired, subs, booted>>
    BY DEF CallFails
  <1>2. CASE task[t].pc = "list" /\ task' = [task EXCEPT ![t] = Done]
    <2>1. task[t].op = "overlay" /\ Done.op = "overlay"
      BY <1>2, TaskTyped DEF Done
    <2> QED
      BY <1>1, <1>2, <2>1, DoneTyped DEF Goes, Turns
  <1>3. ASSUME task[t].pc = "calls", NEW w \in task[t].create, task' = [task EXCEPT ![t].create = @ \ {w}]
        PROVE  \E r : Goes(t, r) /\ Remembered(r) \subseteq Remembered(task[t]) /\ r.op = task[t].op
    <2>0. PICK r : r = [task[t] EXCEPT !.create = @ \ {w}]
      OBVIOUS
    <2>1. Turns(t, r)
      BY <1>3, <2>0 DEF Turns
    <2>2. Typed(r) /\ Remembered(r) = Remembered(task[t]) /\ r.op = task[t].op
      BY <1>3, <2>0, Fewer
    <2> QED
      BY <2>1, <2>2 DEF Goes
  <1>4. ASSUME task[t].pc = "calls", NEW s \in task[t].delete, task' = [task EXCEPT ![t].delete = @ \ {s}]
        PROVE  \E r : Goes(t, r) /\ Remembered(r) \subseteq Remembered(task[t]) /\ r.op = task[t].op
    <2> DEFINE r == [task[t] EXCEPT !.delete = @ \ {s}]
    <2>1. Turns(t, r)
      BY <1>4 DEF Turns
    <2> HIDE DEF r
    <2>2. /\ Typed(r) /\ r.op = task[t].op /\ r.pc = "calls" /\ r.b = task[t].b /\ r.keep = task[t].keep
          /\ r.create = task[t].create /\ r.delete = task[t].delete \ {s} /\ r.todo = task[t].todo
          /\ Remembered(r) = task[t].delete \ {s} /\ Remembered(task[t]) = task[t].delete
      BY <1>4, FewerDeletes DEF r
    <2>3. Remembered(r) \subseteq Remembered(task[t])
      BY <2>2
    <2> QED
      BY <2>1, <2>2, <2>3 DEF Goes
  <1> QED
    BY <1>1, <1>2, <1>3, <1>4 DEF CallFails

-----------------------------------------------------------------------------
(* What the bot's listers plan, and the steps of a repair.                 *)

\* A plan leaves one enabled subscription, the first, or none and makes one.
LEMMA PlanIs ==
  ASSUME Shapes, NEW r, r.keep \subseteq Broadcasters, NEW p \in r.keep \X Required, NEW q,
         q = PlanPair(p, r, KeepFirst)
  PROVE  /\ q \in Plans /\ q.pair = p /\ q.delete \subseteq Have(p)
         /\ q.make => q.delete = Have(p) /\ (r.op = "force" \/ \A s \in Have(p) : ~s.on)
         /\ ~q.make => \E f \in Have(p) : /\ f.on /\ q.delete = Have(p) \ {f}
                                          /\ r.op # "force" /\ \A o \in Have(p) : o.on => f.id <= o.id
  <1> DEFINE have == {s \in BotSubs : <<s.b, s.type>> = p}
             good == {s \in have : s.on /\ r.op # "force"}
  <1>1. q = [pair |-> p, make |-> good = {}, delete |-> (have \ good) \cup (good \ KeepFirst(good))]
    BY DEF PlanPair
  <1>2. q.pair = p /\ (q.make <=> good = {}) /\ q.make \in BOOLEAN
        /\ q.delete = (have \ good) \cup (good \ KeepFirst(good))
    <2> DEFINE none == good = {}
               del == (have \ good) \cup (good \ KeepFirst(good))
    <2>1. q = [pair |-> p, make |-> none, delete |-> del] /\ none \in BOOLEAN
      BY <1>1
    <2> HIDE DEF none, del
    <2>2. q.pair = p /\ q.make = none /\ q.delete = del
      BY <2>1
    <2> QED
      BY <2>1, <2>2 DEF none, del
  <1>3. have = Have(p) /\ have \subseteq SubRecs /\ good \subseteq have
    BY DEF Have, Pair, Shapes, BotSubs
  <1>4. q \in Plans
    <2>1. p \in Broadcasters \X Required
      OBVIOUS
    <2>2. q.delete \in SUBSET SubRecs
      BY <1>2, <1>3
    <2> HIDE DEF have, good
    <2> QED
      BY <1>1, <1>2, <2>1, <2>2 DEF Plans
  <1>5. CASE good = {}
    <2>1. q.delete = have
      BY <1>2, <1>5 DEF KeepFirst
    <2>2. r.op = "force" \/ \A s \in have : ~s.on
      BY <1>5
    <2> QED
      BY <1>2, <1>3, <1>4, <1>5, <2>1, <2>2
  <1>6. CASE good # {}
    <2>1. PICK f \in good : First(good) = {f} /\ \A o \in good : f.id <= o.id
      <3>1. good \subseteq SubRecs
        BY <1>3
      <3> HIDE DEF good
      <3> QED
        BY <1>6, <3>1, FirstIs
    <2>2. KeepFirst(good) = {f}
      BY <1>6, <2>1 DEF KeepFirst
    <2>3. q.delete = have \ {f} /\ f \in have /\ f.on /\ r.op # "force"
      BY <1>2, <2>2
    <2>4. \A o \in have : o.on => f.id <= o.id
      BY <2>1, <2>3
    <2> QED
      BY <1>2, <1>3, <1>4, <1>6, <2>3, <2>4
  <1> QED
    BY <1>5, <1>6

Unfolds(r, old) == r.op = old.op /\ r.b = old.b /\ r.keep = old.keep

LEMMA ListBotIs ==
  ASSUME Shapes, NEW t \in Tasks, ListBotSubs(t)
  PROVE  \E r : /\ Goes(t, r) /\ Unfolds(r, task[t]) /\ task[t].pc = "botlist"
                /\ Remembered(r) \subseteq subs
                /\ UNCHANGED <<paired, subs, booted, failures, clean, botVars, left, expect, settled>>
                /\ \/ /\ r.op = "banish" /\ r.pc = "calls" /\ r.delete = {s \in subs : s.b = r.b}
                      /\ Remembered(r) = r.delete
                   \/ /\ r.op = "prune" /\ r.pc = "calls" /\ r.delete = {s \in subs : s.b \notin r.keep}
                      /\ Remembered(r) = r.delete
                   \/ /\ r.op \in Repairing /\ r.pc = "repair"
                      /\ r.todo = {p \in Repairs(task[t]) : Unhealthy(p)}
                      /\ Remembered(r) = UNION {p.delete : p \in r.todo}
  <1>1. Typed(task[t]) /\ task[t].pc = "botlist" /\ task[t].op \in {"banish", "prune"} \cup Repairing
    BY TaskTyped DEF ListBotSubs, ListForBot
  <1>2. /\ UNCHANGED <<paired, subs, booted, failures, clean, botVars, left, expect, settled>>
        /\ subs \subseteq SubRecs
    BY DEF ListBotSubs, ListForBot, Shapes
  <1>3. task[t].create = {} /\ task[t].todo = {} /\ (task[t].op \in Repairing => task[t].delete = {})
    BY <1>1 DEF Typed, Shape, Creators, Repairing
  <1>4. CASE task[t].op = "banish"
    <2> DEFINE del == {s \in subs : s.b = task[t].b}
               r == [task[t] EXCEPT !.pc = "calls", !.delete = del]
    <2>1. Turns(t, r)
      BY <1>4 DEF ListBotSubs, ListForBot, Turns
    <2>2. del \subseteq SubRecs /\ del \subseteq subs /\ \A s \in del : s.b = task[t].b
      BY <1>2
    <2> HIDE DEF del
    <2>3. /\ r \in TaskRecs /\ r.op = "banish" /\ r.pc = "calls" /\ r.delete = del
          /\ r.create = {} /\ r.todo = {} /\ r.b = task[t].b /\ r.keep = task[t].keep
      BY <1>1, <1>3, <1>4, <2>2 DEF Typed, TaskRecs
    <2>4. Shape(r) /\ Remembered(r) = r.delete
      BY <2>2, <2>3 DEF Shape, Remembered
    <2> HIDE DEF r
    <2>5. r.delete = {s \in subs : s.b = r.b}
      BY <2>3 DEF del
    <2> QED
      BY <1>1, <1>2, <1>4, <2>1, <2>2, <2>3, <2>4, <2>5 DEF Goes, Typed, Unfolds
  <1>5. CASE task[t].op = "prune"
    <2> DEFINE del == {s \in subs : s.b \notin task[t].keep}
               r == [task[t] EXCEPT !.pc = "calls", !.delete = del]
    <2>1. Turns(t, r)
      BY <1>5 DEF ListBotSubs, ListForBot, Turns, Orphans
    <2>2. del \subseteq SubRecs /\ del \subseteq subs /\ \A s \in del : s.b \notin task[t].keep
      BY <1>2
    <2> HIDE DEF del
    <2>3. /\ r \in TaskRecs /\ r.op = "prune" /\ r.pc = "calls" /\ r.delete = del
          /\ r.create = {} /\ r.todo = {} /\ r.b = task[t].b /\ r.keep = task[t].keep
      BY <1>1, <1>3, <1>5, <2>2 DEF Typed, TaskRecs
    <2>4. Shape(r) /\ Remembered(r) = r.delete
      BY <2>2, <2>3 DEF Shape, Remembered
    <2> HIDE DEF r
    <2>5. r.delete = {s \in subs : s.b \notin r.keep}
      BY <2>3 DEF del
    <2> QED
      BY <1>1, <1>2, <1>5, <2>1, <2>2, <2>3, <2>4, <2>5 DEF Goes, Typed, Unfolds
  <1>6. CASE task[t].op \in Repairing
    <2> DEFINE plans == {p \in Repairs(task[t]) : Unhealthy(p)}
               r == [task[t] EXCEPT !.pc = "repair", !.todo = plans]
    <2>1. Turns(t, r)
      BY <1>6 DEF ListBotSubs, ListForBot, Turns, Repairing
    <2>2. task[t].keep \subseteq Broadcasters
      BY <1>1 DEF Typed, TaskRecs
    <2>3. ASSUME NEW q \in plans
          PROVE  /\ q \in Plans /\ q.pair \in task[t].keep \X Required /\ q.delete \subseteq Have(q.pair)
                 /\ Unhealthy(q) /\ q = PlanPair(q.pair, task[t], KeepFirst)
      <3>1. PICK p \in task[t].keep \X Required : q = PlanPair(p, task[t], KeepFirst)
        BY DEF Repairs
      <3>2. q \in Plans /\ q.pair = p /\ q.delete \subseteq Have(p)
        BY <2>2, <3>1, PlanIs
      <3> QED
        BY <3>1, <3>2
    <2>4. \A p, q \in plans : p.pair = q.pair => p = q
      BY <2>3
    <2>5. \A q \in plans : /\ q.pair[1] \in task[t].keep /\ q.delete \subseteq subs
                           /\ \A s \in q.delete : Pair(s) = q.pair
      <3>1. \A p : Have(p) \subseteq subs /\ \A s \in Have(p) : Pair(s) = p
        BY DEF Have, BotSubs
      <3>2. \A p \in task[t].keep \X Required : p[1] \in task[t].keep
        OBVIOUS
      <3> HIDE DEF plans
      <3> QED
        BY <2>3, <3>1, <3>2
    <2>6. \A q \in plans : q \in Plans /\ Unhealthy(q)
      BY <2>3
    <2> HIDE DEF plans
    <2>7. /\ r \in TaskRecs /\ r.op = task[t].op /\ r.pc = "repair" /\ r.delete = {}
          /\ r.create = {} /\ r.todo = plans /\ r.b = task[t].b /\ r.keep = task[t].keep
      BY <1>1, <1>3, <1>6, <2>6 DEF Typed, TaskRecs
    <2>8. Shape(r)
      BY <1>6, <2>4, <2>5, <2>6, <2>7 DEF Shape
    <2>9. Remembered(r) = UNION {p.delete : p \in r.todo} /\ Remembered(r) \subseteq subs
      BY <2>5, <2>7 DEF Remembered
    <2> HIDE DEF r
    <2>10. r.op \in Repairing /\ r.pc = "repair" /\ r.todo = {p \in Repairs(task[t]) : Unhealthy(p)}
      BY <1>6, <2>7 DEF plans
    <2> QED
      BY <1>1, <1>2, <2>1, <2>7, <2>8, <2>9, <2>10 DEF Goes, Typed, Unfolds
  <1> QED
    BY <1>1, <1>4, <1>5, <1>6

\* A plan with one subscription less to delete.
Shorter(p, s) == [p EXCEPT !.delete = @ \ {s}]

LEMMA ShorterIs ==
  ASSUME NEW p \in Plans, NEW s
  PROVE  /\ Shorter(p, s) \in Plans /\ Shorter(p, s).pair = p.pair /\ Shorter(p, s).make = p.make
         /\ Shorter(p, s).delete = p.delete \ {s}
  BY DEF Plans, Shorter

RestOf(todo, rest) ==
  /\ \A q \in rest : q \in Plans /\ Unhealthy(q)
                     /\ \E p \in todo : q.pair = p.pair /\ q.delete \subseteq p.delete
  /\ \A p, q \in rest : p.pair = q.pair => p = q

LEMMA RepairTodo ==
  ASSUME Shapes, NEW t \in Tasks, task[t].pc = "repair", NEW rest, RestOf(task[t].todo, rest),
         NEW r, r = [task[t] EXCEPT !.todo = rest]
  PROVE  /\ Typed(r) /\ Unfolds(r, task[t]) /\ r.pc = "repair" /\ r.todo = rest /\ r.delete = {} /\ r.create = {}
         /\ Remembered(r) = UNION {p.delete : p \in rest}
         /\ Remembered(task[t]) = UNION {p.delete : p \in task[t].todo}
         /\ Remembered(r) \subseteq Remembered(task[t])
  <1>0. /\ \A q \in rest : q \in Plans /\ Unhealthy(q)
                           /\ \E p \in task[t].todo : q.pair = p.pair /\ q.delete \subseteq p.delete
        /\ \A p, q \in rest : p.pair = q.pair => p = q
    BY DEF RestOf
  <1>1. Typed(task[t]) /\ task[t].op \in Repairing
    BY TaskTyped
  <1>2. task[t].delete = {} /\ task[t].create = {}
        /\ \A p \in task[t].todo : p.pair[1] \in task[t].keep /\ \A s \in p.delete : Pair(s) = p.pair
    BY <1>1 DEF Typed, Shape, Repairing, Creators
  <1>3. /\ r \in TaskRecs /\ r.op = task[t].op /\ r.pc = "repair" /\ r.delete = {}
        /\ r.create = {} /\ r.todo = rest /\ r.b = task[t].b /\ r.keep = task[t].keep
    BY <1>0, <1>1, <1>2 DEF Typed, TaskRecs
  <1>4. \A q \in rest : q.pair[1] \in task[t].keep /\ \A s \in q.delete : Pair(s) = q.pair
    BY <1>0, <1>2
  <1>5. Shape(r)
    BY <1>0, <1>1, <1>3, <1>4 DEF Shape
  <1>6. Remembered(r) = UNION {p.delete : p \in rest}
        /\ Remembered(task[t]) = UNION {p.delete : p \in task[t].todo}
    BY <1>2, <1>3 DEF Remembered
  <1> QED
    BY <1>0, <1>3, <1>5, <1>6 DEF Typed, Unfolds

\* A delete of a pair's plan, which is then shorter or over; or its create.
Repaired(p, s) == {q \in {Shorter(p, s)} : Unhealthy(q)}

LEMMA RepairIs ==
  ASSUME Shapes, NEW t \in Tasks, Repair(t)
  PROVE  \E r : \E p \in task[t].todo :
           /\ Goes(t, r) /\ Unfolds(r, task[t]) /\ task[t].pc = "repair" /\ r.pc = "repair"
           /\ Remembered(r) \subseteq Remembered(task[t])
           /\ Remembered(task[t]) = UNION {q.delete : q \in task[t].todo}
           /\ UNCHANGED <<paired, booted, failures, clean, botVars, left, expect, settled>>
           /\ \/ \E s \in p.delete :
                   /\ DeleteEventSubSubscription(s) /\ r.todo = (task[t].todo \ {p}) \cup Repaired(p, s)
                   /\ Remembered(r) = Remembered(task[t]) \ {s}
              \/ /\ p.delete = {} /\ p.make /\ r.todo = task[t].todo \ {p}
                 /\ AttemptNewSubscription(p.pair, FreshIds)
                 /\ Remembered(r) = Remembered(task[t])
  <1>1. task[t].pc = "repair" /\ Typed(task[t]) /\ task[t].op \in Repairing
    BY TaskTyped DEF Repair, RepairStep
  <1>2. UNCHANGED <<paired, booted, failures, clean, botVars, left, expect, settled>>
    BY DEF Repair, RepairStep
  <1>3. /\ \A q \in task[t].todo : q \in Plans /\ Unhealthy(q) /\ \A s \in q.delete : Pair(s) = q.pair
        /\ \A p, q \in task[t].todo : p.pair = q.pair => p = q
    BY <1>1 DEF Typed, TaskRecs, Shape, Repairing, Creators
  <1>4. ASSUME NEW p \in task[t].todo, NEW s \in p.delete, DeleteEventSubSubscription(s),
               task' = [task EXCEPT ![t].todo = (@ \ {p}) \cup {q \in {[p EXCEPT !.delete = @ \ {s}]} : ~ ~Unhealthy(q)}]
        PROVE  \E r : /\ Goes(t, r) /\ Unfolds(r, task[t]) /\ r.pc = "repair"
                      /\ Remembered(r) \subseteq Remembered(task[t])
                      /\ Remembered(task[t]) = UNION {q.delete : q \in task[t].todo}
                      /\ r.todo = (task[t].todo \ {p}) \cup Repaired(p, s)
                      /\ Remembered(r) = Remembered(task[t]) \ {s}
    <2> DEFINE rest == (task[t].todo \ {p}) \cup Repaired(p, s)
               r == [task[t] EXCEPT !.todo = rest]
    <2>1. {q \in {[p EXCEPT !.delete = @ \ {s}]} : ~ ~Unhealthy(q)} = Repaired(p, s)
      BY DEF Repaired, Shorter
    <2>2. Turns(t, r)
      BY <1>4, <2>1 DEF Turns
    <2>3. /\ Shorter(p, s) \in Plans /\ Shorter(p, s).pair = p.pair /\ Shorter(p, s).make = p.make
          /\ Shorter(p, s).delete = p.delete \ {s}
      BY <1>3, <1>4, ShorterIs
    <2>4. RestOf(task[t].todo, rest)
      <3>1. \A q \in rest : q \in Plans /\ Unhealthy(q)
                            /\ \E o \in task[t].todo : q.pair = o.pair /\ q.delete \subseteq o.delete
        BY <1>3, <1>4, <2>3 DEF Repaired
      <3>2. \A o, q \in rest : o.pair = q.pair => o = q
        BY <1>3, <1>4, <2>3 DEF Repaired
      <3> HIDE DEF rest
      <3> QED
        BY <3>1, <3>2 DEF RestOf
    <2>6. \A q \in task[t].todo \ {p} : s \notin q.delete
      BY <1>3, <1>4
    <2>7. UNION {q.delete : q \in rest} = (UNION {q.delete : q \in task[t].todo}) \ {s}
      <3>1. ASSUME NEW x \in p.delete \ {s} PROVE \E q \in rest : x \in q.delete
        BY <2>3, <3>1 DEF Repaired, Unhealthy
      <3>2. ASSUME NEW q \in rest, NEW x \in q.delete
            PROVE  x # s /\ \E o \in task[t].todo : x \in o.delete
        BY <2>3, <2>6, <1>4 DEF Repaired
      <3>3. ASSUME NEW q \in task[t].todo, NEW x \in q.delete, x # s
            PROVE  \E o \in rest : x \in o.delete
        <4>1. CASE q = p
          BY <3>1, <3>3, <4>1
        <4>2. CASE q # p
          BY <3>3, <4>2
        <4> QED
          BY <4>1, <4>2
      <3> HIDE DEF rest
      <3>4. UNION {q.delete : q \in rest} \subseteq (UNION {q.delete : q \in task[t].todo}) \ {s}
        <4>1. ASSUME NEW x \in UNION {q.delete : q \in rest}
              PROVE  x \in UNION {q.delete : q \in task[t].todo} /\ x # s
          <5>1. PICK q \in rest : x \in q.delete
            OBVIOUS
          <5>2. x # s /\ \E o \in task[t].todo : x \in o.delete
            BY <3>2, <5>1
          <5> QED
            BY <5>2
        <4> QED
          BY <4>1
      <3>5. (UNION {q.delete : q \in task[t].todo}) \ {s} \subseteq UNION {q.delete : q \in rest}
        <4>1. ASSUME NEW x \in UNION {q.delete : q \in task[t].todo}, x # s
              PROVE  x \in UNION {q.delete : q \in rest}
          <5>1. PICK q \in task[t].todo : x \in q.delete
            OBVIOUS
          <5>2. \E o \in rest : x \in o.delete
            BY <3>3, <4>1, <5>1
          <5> QED
            BY <5>2
        <4> QED
          BY <4>1
      <3> QED
        BY <3>4, <3>5
    <2> HIDE DEF rest
    <2>8. /\ Typed(r) /\ Unfolds(r, task[t]) /\ r.pc = "repair" /\ r.todo = rest
          /\ Remembered(r) = UNION {q.delete : q \in rest}
          /\ Remembered(task[t]) = UNION {q.delete : q \in task[t].todo}
          /\ Remembered(r) \subseteq Remembered(task[t])
      <3> HIDE DEF r
      <3> QED
        BY <1>1, <2>4, RepairTodo DEF r
    <2> HIDE DEF r
    <2>9. r.todo = (task[t].todo \ {p}) \cup Repaired(p, s)
      BY <2>8 DEF rest
    <2>10. Remembered(r) = Remembered(task[t]) \ {s}
      BY <2>7, <2>8
    <2> QED
      BY <2>2, <2>8, <2>9, <2>10 DEF Goes
  <1>5. ASSUME NEW p \in task[t].todo, p.delete = {}, task' = [task EXCEPT ![t].todo = @ \ {p}]
        PROVE  \E r : /\ Goes(t, r) /\ Unfolds(r, task[t]) /\ r.pc = "repair"
                      /\ Remembered(r) \subseteq Remembered(task[t])
                      /\ Remembered(task[t]) = UNION {q.delete : q \in task[t].todo}
                      /\ r.todo = task[t].todo \ {p}
                      /\ Remembered(r) = Remembered(task[t])
    <2> DEFINE rest == task[t].todo \ {p}
               r == [task[t] EXCEPT !.todo = rest]
    <2>1. Turns(t, r)
      BY <1>5 DEF Turns
    <2>2. RestOf(task[t].todo, rest)
      BY <1>3 DEF RestOf
    <2>3. UNION {q.delete : q \in rest} = UNION {q.delete : q \in task[t].todo}
      BY <1>5
    <2> HIDE DEF rest
    <2>4. /\ Typed(r) /\ Unfolds(r, task[t]) /\ r.pc = "repair" /\ r.todo = rest
          /\ Remembered(r) = UNION {q.delete : q \in rest}
          /\ Remembered(task[t]) = UNION {q.delete : q \in task[t].todo}
          /\ Remembered(r) \subseteq Remembered(task[t])
      <3> HIDE DEF r
      <3> QED
        BY <1>1, <2>2, RepairTodo DEF r
    <2> HIDE DEF r
    <2> QED
      BY <2>1, <2>3, <2>4 DEF Goes, rest
  <1>6. \E p \in task[t].todo :
          \/ \E s \in p.delete :
               /\ DeleteEventSubSubscription(s)
               /\ task' = [task EXCEPT ![t].todo = (@ \ {p}) \cup {q \in {[p EXCEPT !.delete = @ \ {s}]} : ~ ~Unhealthy(q)}]
          \/ /\ p.delete = {} /\ p.make
             /\ task' = [task EXCEPT ![t].todo = @ \ {p}]
             /\ AttemptNewSubscription(p.pair, FreshIds)
    BY DEF Repair, RepairStep
  <1>7. PICK p \in task[t].todo :
          \/ \E s \in p.delete :
               /\ DeleteEventSubSubscription(s)
               /\ task' = [task EXCEPT ![t].todo = (@ \ {p}) \cup {q \in {[p EXCEPT !.delete = @ \ {s}]} : ~ ~Unhealthy(q)}]
          \/ /\ p.delete = {} /\ p.make
             /\ task' = [task EXCEPT ![t].todo = @ \ {p}]
             /\ AttemptNewSubscription(p.pair, FreshIds)
    BY <1>6
  <1>8. CASE \E s \in p.delete :
               /\ DeleteEventSubSubscription(s)
               /\ task' = [task EXCEPT ![t].todo = (@ \ {p}) \cup {q \in {[p EXCEPT !.delete = @ \ {s}]} : ~ ~Unhealthy(q)}]
    <2>1. PICK s \in p.delete :
               /\ DeleteEventSubSubscription(s)
               /\ task' = [task EXCEPT ![t].todo = (@ \ {p}) \cup {q \in {[p EXCEPT !.delete = @ \ {s}]} : ~ ~Unhealthy(q)}]
      BY <1>8
    <2>2. \E r : /\ Goes(t, r) /\ Unfolds(r, task[t]) /\ r.pc = "repair"
                 /\ Remembered(r) \subseteq Remembered(task[t])
                 /\ Remembered(task[t]) = UNION {q.delete : q \in task[t].todo}
                 /\ r.todo = (task[t].todo \ {p}) \cup Repaired(p, s)
                 /\ Remembered(r) = Remembered(task[t]) \ {s}
      BY <1>4, <2>1
    <2> QED
      BY <1>1, <1>2, <2>1, <2>2
  <1>9. CASE /\ p.delete = {} /\ p.make
             /\ task' = [task EXCEPT ![t].todo = @ \ {p}]
             /\ AttemptNewSubscription(p.pair, FreshIds)
    BY <1>1, <1>2, <1>5, <1>9
  <1> QED
    BY <1>7, <1>8, <1>9

LEMMA RepairFailsIs ==
  ASSUME Shapes, NEW t \in Tasks, RepairFails(t)
  PROVE  /\ \E r : /\ Goes(t, r) /\ Remembered(r) \subseteq Remembered(task[t])
                   /\ \/ /\ Unfolds(r, task[t]) /\ r.create = {} /\ task[t].op \in Ops
                         /\ r.pc # "done" /\ task[t].pc # "done"
                      \/ r.op = "overlay" /\ r.pc = "done" /\ task[t].op = "banish" /\ task[t].pc = "calls"
         /\ failures' = failures + 1 /\ failures < MaxFailures /\ settled' = {}
         /\ UNCHANGED <<paired, subs, booted, clean, botVars, left, expect>>
  <1>1. /\ failures' = failures + 1 /\ failures < MaxFailures /\ settled' = {}
        /\ UNCHANGED <<paired, subs, booted, clean, botVars, left, expect>>
    BY DEF RepairFails
  <1> DEFINE Goal == \E r : /\ Goes(t, r) /\ Remembered(r) \subseteq Remembered(task[t])
                   /\ \/ /\ Unfolds(r, task[t]) /\ r.create = {} /\ task[t].op \in Ops
                         /\ r.pc # "done" /\ task[t].pc # "done"
                      \/ r.op = "overlay" /\ r.pc = "done" /\ task[t].op = "banish" /\ task[t].pc = "calls"
  <1>2. Typed(task[t])
    BY TaskTyped
  <1>3. ASSUME task[t].pc = "botlist", task' = [task EXCEPT ![t] = [@ EXCEPT !.pc = "calls"]] PROVE Goal
    <2> DEFINE r == [task[t] EXCEPT !.pc = "calls"]
    <2>1. Turns(t, r)
      BY <1>3 DEF Turns
    <2>2. task[t].op \in {"banish", "prune"} \cup Repairing /\ task[t].create = {} /\ task[t].todo = {}
      BY <1>2, <1>3, TaskTyped DEF Typed, Shape, Repairing, Creators
    <2>3. /\ r \in TaskRecs /\ r.op = task[t].op /\ r.pc = "calls" /\ r.delete = task[t].delete
          /\ r.create = {} /\ r.todo = {} /\ r.b = task[t].b /\ r.keep = task[t].keep
      BY <1>2, <2>2 DEF Typed, TaskRecs
    <2> HIDE DEF r
    <2>4. Shape(r) /\ Remembered(r) \subseteq Remembered(task[t])
      BY <1>2, <2>2, <2>3 DEF Typed, Shape, Remembered, Repairing, Creators
    <2>5. task[t].op \in Ops
      BY <2>2 DEF Repairing, Ops
    <2> QED
      BY <1>3, <2>1, <2>3, <2>4, <2>5 DEF Goes, Typed, Unfolds
  <1>4. ASSUME NEW p \in task[t].todo, task' = [task EXCEPT ![t].todo = @ \ {p}] PROVE Goal
    <2> DEFINE rest == task[t].todo \ {p}
    <2>0. PICK r : r = [task[t] EXCEPT !.todo = rest]
      OBVIOUS
    <2>1. Turns(t, r)
      BY <1>4, <2>0 DEF Turns
    <2>2. task[t].pc = "repair" /\ task[t].op \in Repairing
      BY <1>2, <1>4 DEF Typed, Shape, Repairing, Creators
    <2>3. RestOf(task[t].todo, rest)
      BY <1>2, <2>2 DEF RestOf, Typed, TaskRecs, Shape, Repairing, Creators
    <2> HIDE DEF rest
    <2>4. /\ Typed(r) /\ Unfolds(r, task[t]) /\ r.pc = "repair" /\ r.todo = rest
          /\ r.create = {} /\ Remembered(r) \subseteq Remembered(task[t])
      <3>1. Typed(r)
        BY <2>0, <2>2, <2>3, RepairTodo
      <3>2. Unfolds(r, task[t])
        BY <2>0, <2>2, <2>3, RepairTodo
      <3>3. Remembered(r) \subseteq Remembered(task[t])
        BY <2>0, <2>2, <2>3, RepairTodo
      <3>4. r.pc = "repair" /\ r.todo = rest
        BY <1>2, <2>0, <2>2 DEF Typed, TaskRecs
      <3>5. r.create = {}
        BY <1>2, <2>0, <2>2 DEF Typed, TaskRecs, Shape, Repairing, Creators
      <3> QED
        BY <3>1, <3>2, <3>3, <3>4, <3>5
    <2>5. task[t].op \in Ops
      BY <2>2 DEF Repairing, Ops
    <2> QED
      BY <2>1, <2>2, <2>4, <2>5 DEF Goes
  <1>5. ASSUME task[t].op = "banish", task[t].pc = "calls", task' = [task EXCEPT ![t] = Done] PROVE Goal
    <2>1. Done.op = "overlay" /\ Done.pc = "done"
      BY DEF Done
    <2> QED
      BY <1>5, <2>1, DoneTyped DEF Goes, Turns
  <1>6. Goal
    BY <1>3, <1>4, <1>5 DEF RepairFails
  <1> QED
    BY <1>1, <1>6

-----------------------------------------------------------------------------
(* Types, and whose an id is.                                              *)

LEMMA AttemptIs ==
  ASSUME NEW want \in Broadcasters \X (Types \cup Required), AttemptNewSubscription(want, FreshIds)
  PROVE  \/ want \in On(subs) /\ subs' = subs
         \/ /\ want \notin On(subs)
            /\ \E n \in SubRecs : subs' = subs \cup {n} /\ n.on = TRUE /\ Pair(n) = want /\ n.id \in FreshIds
  <1>1. CASE want \in On(subs)
    BY <1>1 DEF AttemptNewSubscription
  <1>2. CASE want \notin On(subs)
    <2> DEFINE n == [b |-> want[1], type |-> want[2], on |-> TRUE, id |-> CHOOSE id \in FreshIds : TRUE]
    <2>1. FreshIds # {} /\ subs' = subs \cup {n}
      BY <1>2 DEF AttemptNewSubscription
    <2>2. n.id \in FreshIds /\ n.id \in Ids
      BY <2>1 DEF FreshIds
    <2>3. n.b = want[1] /\ n.type = want[2] /\ n.on = TRUE /\ want = <<want[1], want[2]>>
      OBVIOUS
    <2>4. n \in SubRecs
      BY <2>2 DEF SubRecs
    <2> HIDE DEF n
    <2> QED
      BY <1>2, <2>1, <2>2, <2>3, <2>4 DEF Pair
  <1> QED
    BY <1>1, <1>2

LEMMA TurnTyped ==
  ASSUME Shapes, NEW t \in Tasks, NEW r, Goes(t, r)
  PROVE  task' \in [Tasks -> TaskRecs] /\ \A u \in Tasks : Shape(task'[u])
  <1>1. task'[t] = r /\ \A u \in Tasks \ {t} : task'[u] = task[u]
    BY TurnIs DEF Goes
  <1> QED
    BY <1>1 DEF Goes, Turns, Typed, Shapes

\* The list, and what is remembered of it, after each kind of step.
SameList == subs' = subs
Less == subs' \subseteq subs
More(n) == n \in SubRecs /\ subs' = subs \cup {n} /\ n.id \in FreshIds

LEMMA IdsOfTurn ==
  ASSUME Shapes, IdsKnow, NEW t \in Tasks, NEW r, Goes(t, r), Less, Remembered(r) \subseteq Remembered(task[t]) \cup subs,
         failures' = 0 => failures = 0
  PROVE  IdsKnow'
  <1>1. task'[t] = r /\ \A u \in Tasks \ {t} : task'[u] = task[u]
    BY TurnIs DEF Goes
  <1>2. \A s, o \in subs' : s.id = o.id => s = o
    BY DEF IdsKnow, Less
  <1>3. ASSUME NEW u \in Tasks, NEW s \in Remembered(task'[u]), NEW o \in subs', s.id = o.id
        PROVE  Pair(s) = Pair(o) /\ (failures' = 0 => s = o)
    <2>1. o \in subs /\ (s \in Remembered(task[u]) \/ s \in subs)
      BY <1>1, <1>3 DEF Less
    <2> QED
      BY <1>3, <2>1 DEF IdsKnow
  <1>4. \A u \in Tasks : Remembered(task[u])' = Remembered(task'[u])
    BY DEF Remembered
  <1>5. \A s : Pair(s)' = Pair(s)
    BY DEF Pair
  <1> QED
    BY <1>2, <1>3, <1>4, <1>5 DEF IdsKnow

LEMMA IdsOfCreate ==
  ASSUME Shapes, IdsKnow, NEW t \in Tasks, NEW r, Goes(t, r), NEW n, More(n),
         Remembered(r) \subseteq Remembered(task[t]), failures' = failures
  PROVE  IdsKnow'
  <1>1. task'[t] = r /\ \A u \in Tasks \ {t} : task'[u] = task[u]
    BY TurnIs DEF Goes
  <1>2. /\ \A s \in subs : s.id # n.id
        /\ \A u \in Tasks : \A s \in Remembered(task[u]) : s.id # n.id
    BY DEF More, FreshIds
  <1>3. \A s, o \in subs' : s.id = o.id => s = o
    BY <1>2 DEF IdsKnow, More
  <1>4. ASSUME NEW u \in Tasks, NEW s \in Remembered(task'[u]), NEW o \in subs', s.id = o.id
        PROVE  Pair(s) = Pair(o) /\ (failures' = 0 => s = o)
    <2>1. s \in Remembered(task[u])
      BY <1>1, <1>4
    <2>2. o \in subs
      BY <1>2, <1>4, <2>1 DEF More
    <2> QED
      BY <1>4, <2>1, <2>2 DEF IdsKnow
  <1>5. \A u \in Tasks : Remembered(task[u])' = Remembered(task'[u])
    BY DEF Remembered
  <1>6. \A s : Pair(s)' = Pair(s)
    BY DEF Pair
  <1> QED
    BY <1>3, <1>4, <1>5, <1>6 DEF IdsKnow

LEMMA IdsOfDisabled ==
  ASSUME Shapes, IdsKnow, NEW s \in subs, Disabled(s)
  PROVE  IdsKnow'
  <1> DEFINE off == [s EXCEPT !.on = FALSE]
  <1>1. off \in SubRecs /\ off.id = s.id /\ Pair(off) = Pair(s)
    BY DEF Shapes, SubRecs, Pair
  <1>2. subs' = (subs \ {s}) \cup {off} /\ task' = task /\ failures' = failures + 1 /\ failures \in Nat
    BY ConstantsAssumption DEF Disabled, Shapes
  <1> HIDE DEF off
  <1>3. \A p, o \in subs' : p.id = o.id => p = o
    BY <1>1, <1>2 DEF IdsKnow
  <1>4. ASSUME NEW u \in Tasks, NEW p \in Remembered(task[u]), NEW o \in subs', p.id = o.id
        PROVE  Pair(p) = Pair(o)
    <2>1. CASE o = off
      BY <1>1, <1>4, <2>1 DEF IdsKnow
    <2>2. CASE o # off
      BY <1>2, <1>4, <2>2 DEF IdsKnow
    <2> QED
      BY <2>1, <2>2
  <1>5. \A u \in Tasks : Remembered(task[u])' = Remembered(task[u])
    BY <1>2 DEF Remembered
  <1>6. \A p : Pair(p)' = Pair(p)
    BY DEF Pair
  <1> QED
    BY <1>2, <1>3, <1>4, <1>5, <1>6 DEF IdsKnow

LEMMA RestartIs ==
  ASSUME Shapes, Restart
  PROVE  /\ \A t \in Tasks : task'[t] = IF t \in CoreApi THEN Done ELSE task[t]
         /\ task' \in [Tasks -> TaskRecs] /\ \A t \in Tasks : Shape(task'[t])
         /\ \A t \in Tasks : Remembered(task'[t]) \subseteq Remembered(task[t])
         /\ booted' = FALSE /\ clean' \in BOOLEAN /\ UNCHANGED <<paired, subs, failures>>
  <1>1. task' = [t \in Tasks |-> IF t \in CoreApi THEN Done ELSE task[t]]
    BY DEF Restart
  <1>2. \A t \in Tasks : task'[t] = IF t \in CoreApi THEN Done ELSE task[t]
    BY <1>1
  <1>3. task' \in [Tasks -> TaskRecs] /\ \A t \in Tasks : Shape(task'[t])
    BY <1>1, <1>2, DoneTyped DEF Shapes, Typed
  <1>4. \A t \in Tasks : Remembered(task'[t]) \subseteq Remembered(task[t])
    BY <1>2, DoneTyped
  <1>5. booted' = FALSE /\ clean' \in BOOLEAN /\ UNCHANGED <<paired, subs, failures>>
    BY DEF Restart, Shapes
  <1> QED
    BY <1>2, <1>3, <1>4, <1>5

LEMMA IdsOfRestart ==
  ASSUME Shapes, IdsKnow, Restart
  PROVE  IdsKnow'
  <1>1. \A t \in Tasks : Remembered(task[t])' \subseteq Remembered(task[t])
    BY RestartIs DEF Remembered
  <1>2. subs' = subs /\ failures' = failures
    BY DEF Restart
  <1>3. \A p : Pair(p)' = Pair(p)
    BY DEF Pair
  <1> QED
    BY <1>1, <1>2, <1>3 DEF IdsKnow

LEMMA LessTyped ==
  ASSUME Shapes, Less
  PROVE  subs' \subseteq SubRecs /\ IsFiniteSet(subs')
  <1>1. subs' \in SUBSET subs /\ IsFiniteSet(subs)
    BY DEF Less, Shapes
  <1>2. IsFiniteSet(subs')
    BY <1>1, FS_Subset
  <1> QED
    BY <1>1, <1>2 DEF Shapes

LEMMA MoreTyped ==
  ASSUME Shapes, NEW n, More(n)
  PROVE  subs' \subseteq SubRecs /\ IsFiniteSet(subs')
  <1>1. IsFiniteSet(subs \cup {n})
    BY FS_AddElement DEF Shapes
  <1> QED
    BY <1>1 DEF Shapes, More

LEMMA DeletesOne ==
  ASSUME NEW s, DeleteEventSubSubscription(s)
  PROVE  Less /\ \A o \in subs : o \in subs' <=> o.id # s.id
  BY DEF DeleteEventSubSubscription, Less

\* What neither the list nor the tasks hold.
RestTyped ==
  /\ paired' \subseteq Broadcasters /\ booted' \in BOOLEAN /\ clean' \in BOOLEAN /\ failures' \in 0..MaxFailures
  /\ optIn' \subseteq known' /\ known' \subseteq Broadcasters /\ left' \in [Ops -> 0..Unlimited]
  /\ expect' \subseteq Broadcasters \X Required

LEMMA ShapesAre ==
  ASSUME subs' \subseteq SubRecs, IsFiniteSet(subs'), RestTyped,
         task' \in [Tasks -> TaskRecs], \A t \in Tasks : Shape(task'[t])
  PROVE  Shapes'
  <1>1. \A t \in Tasks : Shape(task[t])' <=> Shape(task'[t])
    BY DEF Shape, Unhealthy, Pair, IsOverlaySub
  <1> QED
    BY <1>1 DEF Shapes, RestTyped

LEMMA RestSame ==
  ASSUME Shapes, UNCHANGED <<paired, booted, failures, clean>>, UNCHANGED <<botVars, left, expect>>
  PROVE  RestTyped
  BY DEF Shapes, RestTyped, botVars

Based == Shapes /\ IdsKnow

LEMMA BaseOfAttempt ==
  ASSUME Based, NEW t \in Tasks, NEW r, Goes(t, r), Remembered(r) \subseteq Remembered(task[t]),
         NEW want \in Broadcasters \X (Types \cup Required), AttemptNewSubscription(want, FreshIds),
         failures' = failures, RestTyped
  PROVE  Based'
  <1>1. task' \in [Tasks -> TaskRecs] /\ \A u \in Tasks : Shape(task'[u])
    BY TurnTyped DEF Based
  <1>2. CASE subs' = subs
    <2>1. Less
      BY <1>2 DEF Less
    <2>2. subs' \subseteq SubRecs /\ IsFiniteSet(subs')
      BY <2>1, LessTyped DEF Based
    <2>3. Shapes'
      BY <1>1, <2>2, ShapesAre
    <2>4. IdsKnow'
      BY <2>1, IdsOfTurn DEF Based
    <2> QED
      BY <2>3, <2>4 DEF Based
  <1>3. CASE \E n : More(n)
    <2>1. PICK n : More(n)
      BY <1>3
    <2>2. subs' \subseteq SubRecs /\ IsFiniteSet(subs')
      BY <2>1, MoreTyped DEF Based
    <2>3. Shapes'
      BY <1>1, <2>2, ShapesAre
    <2>4. IdsKnow'
      BY <2>1, IdsOfCreate DEF Based
    <2> QED
      BY <2>3, <2>4 DEF Based
  <1> QED
    BY <1>2, <1>3, AttemptIs DEF More

LEMMA BaseOfTurn ==
  ASSUME Based, NEW t \in Tasks, NEW r, Goes(t, r), Less,
         Remembered(r) \subseteq Remembered(task[t]) \cup subs, failures' = 0 => failures = 0, RestTyped
  PROVE  Based'
  <1>1. task' \in [Tasks -> TaskRecs] /\ \A u \in Tasks : Shape(task'[u])
    BY TurnTyped DEF Based
  <1>2. subs' \subseteq SubRecs /\ IsFiniteSet(subs')
    BY LessTyped DEF Based
  <1>3. Shapes'
    BY <1>1, <1>2, ShapesAre
  <1>4. IdsKnow'
    BY IdsOfTurn DEF Based
  <1> QED
    BY <1>3, <1>4 DEF Based

LEMMA BaseOfTaskStep ==
  ASSUME Based, NEW t \in Tasks, TaskStep(t), Bystanders
  PROVE  Based'
  <1> USE DEF Based
  <1>0. UNCHANGED <<paired, booted, failures, clean>> => RestTyped /\ failures' = failures
    BY RestSame DEF Bystanders
  <1>1. CASE CountRemaining(t)
    <2>1. PICK r : Goes(t, r) /\ Remembered(r) = {} /\ UNCHANGED <<paired, subs, booted, failures, clean>>
      BY <1>1, CountIs
    <2> QED
      BY <1>0, <2>1, BaseOfTurn DEF Less
  <1>2. CASE ListSubs(t)
    <2>1. PICK r : /\ Goes(t, r) /\ Remembered(r) = r.delete /\ r.delete \subseteq subs
                   /\ UNCHANGED <<paired, subs, booted, failures, clean>>
      BY <1>2, ListIs DEF Ours
    <2> QED
      BY <1>0, <2>1, BaseOfTurn DEF Less
  <1>3. CASE Create(t)
    <2>1. PICK r : \E want \in task[t].create :
             /\ Goes(t, r) /\ Remembered(r) = Remembered(task[t])
             /\ AttemptNewSubscription(want, FreshIds) /\ UNCHANGED <<paired, booted, failures, clean>>
      BY <1>3, CreateIs
    <2>2. task[t].create \subseteq Broadcasters \X (Types \cup Required)
      BY DEF Shapes, TaskRecs
    <2> QED
      BY <1>0, <2>1, <2>2, BaseOfAttempt
  <1>4. CASE Delete(t)
    <2>1. PICK r : \E s : /\ Goes(t, r) /\ Remembered(r) = Remembered(task[t]) \ {s}
                          /\ DeleteEventSubSubscription(s) /\ UNCHANGED <<paired, booted, failures, clean>>
      BY <1>4, DeleteIs
    <2>2. Less
      BY <2>1, DeletesOne
    <2> QED
      BY <1>0, <2>1, <2>2, BaseOfTurn
  <1>5. CASE Finish(t)
    <2>1. Goes(t, Done) /\ UNCHANGED <<paired, subs, booted, failures, clean>>
      BY <1>5, EndIs
    <2> QED
      BY <1>0, <2>1, DoneTyped, BaseOfTurn DEF Less
  <1> QED
    BY <1>1, <1>2, <1>3, <1>4, <1>5 DEF TaskStep

LEMMA BaseOfBotTask ==
  ASSUME Based, NEW t \in Tasks, BotTask(t)
  PROVE  Based'
  <1> USE DEF Based
  <1>0. UNCHANGED <<paired, booted, failures, clean>> /\ UNCHANGED <<botVars, left, expect>>
          => RestTyped /\ failures' = failures
    BY RestSame
  <1>1. CASE ListBotSubs(t)
    <2>1. PICK r : /\ Goes(t, r) /\ Remembered(r) \subseteq subs
                   /\ UNCHANGED <<paired, subs, booted, failures, clean, botVars, left, expect, settled>>
      BY <1>1, ListBotIs
    <2> QED
      BY <1>0, <2>1, BaseOfTurn DEF Less
  <1>2. CASE Repair(t)
    <2>1. PICK r : \E p \in task[t].todo :
             /\ Goes(t, r) /\ Remembered(r) \subseteq Remembered(task[t])
             /\ UNCHANGED <<paired, booted, failures, clean, botVars, left, expect, settled>>
             /\ \/ \E s \in p.delete : DeleteEventSubSubscription(s)
                \/ AttemptNewSubscription(p.pair, FreshIds)
      BY <1>2, RepairIs
    <2>2. PICK p \in task[t].todo : \/ \E s \in p.delete : DeleteEventSubSubscription(s)
                                    \/ AttemptNewSubscription(p.pair, FreshIds)
      BY <2>1
    <2>3. p.pair \in Broadcasters \X (Types \cup Required)
      BY DEF Shapes, TaskRecs, Plans
    <2>4. CASE \E s \in p.delete : DeleteEventSubSubscription(s)
      <3>1. Less
        BY <2>4, DeletesOne
      <3> QED
        BY <1>0, <2>1, <3>1, BaseOfTurn
    <2>5. CASE AttemptNewSubscription(p.pair, FreshIds)
      BY <1>0, <2>1, <2>3, <2>5, BaseOfAttempt
    <2> QED
      BY <2>2, <2>4, <2>5
  <1>3. CASE RepairFails(t)
    <2>1. PICK r : Goes(t, r) /\ Remembered(r) \subseteq Remembered(task[t])
      BY <1>3, RepairFailsIs
    <2>2. /\ failures' = failures + 1 /\ failures < MaxFailures
          /\ UNCHANGED <<paired, subs, booted, clean, botVars, left, expect>>
      BY <1>3, RepairFailsIs
    <2>3. RestTyped /\ (failures' = 0 => failures = 0) /\ Less
      BY <2>2, ConstantsAssumption DEF Shapes, RestTyped, botVars, Less
    <2> QED
      BY <2>1, <2>3, BaseOfTurn
  <1>4. CASE RepairDone(t)
    <2>1. Goes(t, Done) /\ UNCHANGED <<paired, subs, booted, failures, clean>> /\ UNCHANGED <<botVars, left, expect>>
      BY <1>4, EndIs DEF RepairDone
    <2> QED
      BY <1>0, <2>1, DoneTyped, BaseOfTurn DEF Less
  <1>5. CASE OptOut(t)
    <2>1. Goes(t, Done) /\ UNCHANGED <<paired, subs, booted, failures, clean>>
      BY <1>5, EndIs
    <2>2. RestTyped
      BY <1>5, <2>1 DEF OptOut, Shapes, RestTyped
    <2> QED
      BY <2>1, <2>2, DoneTyped, BaseOfTurn DEF Less
  <1> QED
    BY <1>1, <1>2, <1>3, <1>4, <1>5 DEF BotTask

LEMMA BaseOfRequest ==
  ASSUME Based, NEW t \in Tasks, OverlayRequest(t) \/ BotRequest(t)
  PROVE  Based'
  <1> USE DEF Based
  <1>1. CASE OverlayRequest(t)
    <2>1. PICK r : Goes(t, r) /\ Remembered(r) = {}
      BY <1>1, OverlayStarts DEF Goes
    <2>2. left' \in [Ops -> 0..Unlimited]
      BY <1>1, SpendTyped DEF OverlayRequest, Shapes, Ops
    <2>3. /\ paired' \subseteq Broadcasters /\ booted' \in BOOLEAN /\ clean' \in BOOLEAN
          /\ failures' = failures /\ subs' = subs /\ UNCHANGED <<botVars, expect>>
      BY <1>1 DEF OverlayRequest, Mint, Revoke, Boot, Shapes
    <2>4. RestTyped /\ Less
      BY <2>2, <2>3 DEF RestTyped, Shapes, botVars, Less
    <2> QED
      BY <2>1, <2>3, <2>4, BaseOfTurn
  <1>2. CASE \E r, leaves : /\ Begins(t, r, leaves) /\ optIn' \subseteq known' /\ known' \subseteq Broadcasters
                            /\ clean' \in BOOLEAN /\ expect' \subseteq Broadcasters \X Required
    <2>1. PICK r, leaves : /\ Begins(t, r, leaves) /\ optIn' \subseteq known' /\ known' \subseteq Broadcasters
                           /\ clean' \in BOOLEAN /\ expect' \subseteq Broadcasters \X Required
      BY <1>2
    <2>2. Goes(t, r) /\ Remembered(r) = {}
      BY <2>1 DEF Begins, Goes
    <2>3. RestTyped /\ Less /\ failures' = failures
      BY <2>1 DEF Begins, RestTyped, Less, Shapes
    <2> QED
      BY <2>2, <2>3, BaseOfTurn
  <1>3. CASE Creates(t)
    BY <1>2, <1>3 DEF Creates, Shapes
  <1>4. CASE Banishes(t)
    BY <1>2, <1>4 DEF Banishes, Shapes, botVars
  <1>5. CASE Prunes(t)
    BY <1>2, <1>5 DEF Prunes, Shapes, botVars
  <1>6. CASE Audits(t)
    BY <1>2, <1>6 DEF Audits, Shapes, botVars
  <1> QED
    BY <1>1, <1>3, <1>4, <1>5, <1>6, RequestIs

LEMMA BaseStep ==
  ASSUME Based, [Next]_allVars
  PROVE  Based'
  <1> USE DEF Based
  <1>1. CASE UNCHANGED allVars
    BY <1>1 DEF Shapes, IdsKnow, Shape, Remembered, Pair, Unhealthy, IsOverlaySub, allVars, vars, botVars
  <1>2. ASSUME NEW t \in Tasks, CallFails(t), UNCHANGED <<botVars, left, expect>> PROVE Based'
    <2>1. PICK r : Goes(t, r) /\ Remembered(r) \subseteq Remembered(task[t])
      BY <1>2, CallFailsIs
    <2>2. /\ failures' = failures + 1 /\ failures < MaxFailures /\ clean' = FALSE
          /\ UNCHANGED <<paired, subs, booted>>
      BY <1>2, CallFailsIs
    <2>3. UNCHANGED <<optIn, known, left, expect>>
      BY <1>2 DEF botVars
    <2>4. failures' \in 0..MaxFailures /\ (failures' = 0 => failures = 0)
      BY <2>2, ConstantsAssumption DEF Shapes
    <2>5. RestTyped /\ Less
      BY <2>2, <2>3, <2>4 DEF RestTyped, Shapes, Less
    <2> QED
      BY <2>1, <2>4, <2>5, BaseOfTurn
  <1>3. ASSUME NEW s \in subs, Disabled(s), UNCHANGED <<botVars, left, expect>> PROVE Based'
    <2> DEFINE off == [s EXCEPT !.on = FALSE]
    <2>1. subs' = (subs \ {s}) \cup {off} /\ task' = task
      BY <1>3 DEF Disabled
    <2>2. off \in SubRecs
      BY DEF Shapes, SubRecs
    <2> HIDE DEF off
    <2>3. IsFiniteSet(subs')
      BY <2>1, FS_RemoveElement, FS_AddElement DEF Shapes
    <2>4. RestTyped
      BY <1>3, ConstantsAssumption DEF Disabled, RestTyped, Shapes, botVars
    <2>5. Shapes'
      BY <2>1, <2>2, <2>3, <2>4, ShapesAre DEF Shapes
    <2> QED
      BY <1>3, <2>5, IdsOfDisabled
  <1>4. CASE Restart /\ Spend("restart") /\ UNCHANGED <<botVars, expect>>
    <2>1. left' \in [Ops -> 0..Unlimited]
      BY <1>4, SpendTyped DEF Shapes, Ops
    <2>2. RestTyped /\ Less
      BY <1>4, <2>1, RestartIs DEF RestTyped, Shapes, botVars, Less
    <2>3. subs' \subseteq SubRecs /\ IsFiniteSet(subs')
      BY <2>2, LessTyped
    <2>4. Shapes'
      BY <1>4, <2>2, <2>3, RestartIs, ShapesAre
    <2> QED
      BY <1>4, <2>4, IdsOfRestart
  <1> QED
    BY <1>1, <1>2, <1>3, <1>4, BaseOfTaskStep, BaseOfBotTask, BaseOfRequest, NextIs

-----------------------------------------------------------------------------
(* Coverage: nobody takes the last of a pair but who takes it on purpose.  *)

Takers == {"banish", "prune", "force"}
Smaller(s, list) == \E o \in list : o.on /\ Pair(o) = Pair(s) /\ o.id < s.id

\* CoverageKnow of the next state, over what the tasks will remember then.
LEMMA CoverageIs ==
  ASSUME \A u \in Tasks : \A s, o \in subs' :
           /\ s.on /\ o.on /\ Pair(s) = Pair(o) /\ task'[u].op \in Takers /\ s \in Remembered(task'[u])
           => o \in Remembered(task'[u]),
         \A u \in Tasks : task'[u].op = "audit" =>
           \A p \in task'[u].todo : \A s \in p.delete \cap subs' : s.on =>
             Smaller(s, subs') \/ \E v \in Tasks : task'[v].op \in Takers /\ s \in Remembered(task'[v])
  PROVE  CoverageKnow'
  <1>1. \A u \in Tasks : \A s : Takes(u, s)' <=> task'[u].op \in Takers /\ s \in Remembered(task'[u])
    BY DEF Takes, Takers, Remembered
  <1>2. \A s : Pair(s)' = Pair(s)
    BY DEF Pair
  <1> QED
    BY <1>1, <1>2 DEF CoverageKnow, Smaller

\* Where nothing is failing, what CoverageKnow says.
Covering ==
  /\ \A u \in Tasks : \A s, o \in subs : s.on /\ o.on /\ Pair(s) = Pair(o) /\ Takes(u, s) => Takes(u, o)
  /\ \A u \in Tasks : task[u].op = "audit" =>
       \A p \in task[u].todo : \A s \in p.delete \cap subs : s.on =>
         Smaller(s, subs) \/ \E v \in Tasks : Takes(v, s)

LEMMA CoverageNow == ASSUME CoverageKnow, failures = 0 PROVE Covering
  BY DEF CoverageKnow, Covering, Smaller

\* A step that leaves the list, or adds to it what nothing enabled covers.
LEMMA CoverageOfTurn ==
  ASSUME Based, Covering, NEW t \in Tasks, NEW r, Goes(t, r),
         \/ subs' = subs
         \/ \E n : More(n) /\ n.on /\ Pair(n) \notin On(subs) /\ Remembered(r) \subseteq Remembered(task[t]),
         \A s \in subs : r.op \in Takers /\ s \in Remembered(r) <=> Takes(t, s),
         r.op = "audit" => \A p \in r.todo : \A s \in p.delete \cap subs : s.on =>
                             Smaller(s, subs) \/ \E v \in Tasks : Takes(v, s)
  PROVE  CoverageKnow'
  <1>1. task'[t] = r /\ \A u \in Tasks \ {t} : task'[u] = task[u]
    BY TurnIs DEF Goes, Based
  <1>2. \A u \in Tasks : \A s \in subs : task'[u].op \in Takers /\ s \in Remembered(task'[u]) <=> Takes(u, s)
    BY <1>1 DEF Takes, Takers
  <1>3. \A u \in Tasks : task'[u].op = "audit" =>
           \A p \in task'[u].todo : \A s \in p.delete \cap subs : s.on =>
             Smaller(s, subs) \/ \E v \in Tasks : Takes(v, s)
    BY <1>1 DEF Covering
  <1>4. CASE subs' = subs
    <2>1. \A u \in Tasks : \A s, o \in subs' :
           /\ s.on /\ o.on /\ Pair(s) = Pair(o) /\ task'[u].op \in Takers /\ s \in Remembered(task'[u])
           => o \in Remembered(task'[u])
      BY <1>2, <1>4 DEF Covering
    <2>2. \A u \in Tasks : task'[u].op = "audit" =>
           \A p \in task'[u].todo : \A s \in p.delete \cap subs' : s.on =>
             Smaller(s, subs') \/ \E v \in Tasks : task'[v].op \in Takers /\ s \in Remembered(task'[v])
      BY <1>2, <1>3, <1>4
    <2> QED
      BY <2>1, <2>2, CoverageIs
  <1>5. CASE \E n : More(n) /\ n.on /\ Pair(n) \notin On(subs) /\ Remembered(r) \subseteq Remembered(task[t])
    <2>1. PICK n : More(n) /\ n.on /\ Pair(n) \notin On(subs) /\ Remembered(r) \subseteq Remembered(task[t])
      BY <1>5
    <2>2. /\ \A u \in Tasks : n \notin Remembered(task[u])
          /\ \A o \in subs : o.on => Pair(o) # Pair(n)
      BY <2>1 DEF More, FreshIds, On, Pair
    <2>3. \A u \in Tasks : n \notin Remembered(task'[u])
      BY <1>1, <2>1, <2>2
    <2>4. \A u \in Tasks : task'[u].op = "audit" => \A p \in task'[u].todo : n \notin p.delete
      BY <2>3 DEF Remembered
    <2>5. subs' = subs \cup {n}
      BY <2>1 DEF More
    <2>6. \A u \in Tasks : \A s, o \in subs' :
           /\ s.on /\ o.on /\ Pair(s) = Pair(o) /\ task'[u].op \in Takers /\ s \in Remembered(task'[u])
           => o \in Remembered(task'[u])
      <3>1. SUFFICES ASSUME NEW u \in Tasks, NEW s \in subs', NEW o \in subs', s.on, o.on, Pair(s) = Pair(o),
                            task'[u].op \in Takers, s \in Remembered(task'[u])
                     PROVE  o \in Remembered(task'[u])
        OBVIOUS
      <3>2. s \in subs /\ o # n
        BY <2>2, <2>3, <2>5, <3>1
      <3>3. o \in subs
        BY <2>5, <3>2
      <3>4. Takes(u, s)
        BY <1>2, <3>1, <3>2
      <3>5. Takes(u, o)
        BY <3>1, <3>2, <3>3, <3>4 DEF Covering
      <3> QED
        BY <1>2, <3>3, <3>5
    <2>7. \A s : Smaller(s, subs) => Smaller(s, subs')
      BY <2>5 DEF Smaller
    <2>8. \A u \in Tasks : task'[u].op = "audit" =>
           \A p \in task'[u].todo : \A s \in p.delete \cap subs' : s.on =>
             Smaller(s, subs') \/ \E v \in Tasks : task'[v].op \in Takers /\ s \in Remembered(task'[v])
      <3>1. SUFFICES ASSUME NEW u \in Tasks, task'[u].op = "audit", NEW p \in task'[u].todo, NEW s \in p.delete \cap subs', s.on
                     PROVE  Smaller(s, subs') \/ \E v \in Tasks : task'[v].op \in Takers /\ s \in Remembered(task'[v])
        OBVIOUS
      <3>2. s \in subs
        BY <2>4, <2>5, <3>1
      <3>3. Smaller(s, subs) \/ \E v \in Tasks : Takes(v, s)
        BY <1>3, <3>1, <3>2
      <3> QED
        BY <1>2, <2>7, <3>2, <3>3
    <2> QED
      BY <2>6, <2>8, CoverageIs
  <1> QED
    BY <1>4, <1>5

\* A delete: if it was of the smallest, the task takes the whole pair.
LEMMA CoverageOfDelete ==
  ASSUME Based, Covering, failures = 0, NEW t \in Tasks, NEW r, Goes(t, r), r.op = task[t].op,
         NEW s \in Remembered(task[t]), DeleteEventSubSubscription(s), Remembered(r) = Remembered(task[t]) \ {s},
         task[t].op = "overlay" => IsOverlaySub(s),
         task[t].op = "audit" => \A p \in r.todo : \E q \in task[t].todo : p.delete \subseteq q.delete,
         task[t].op = "audit" => \E q \in task[t].todo : s \in q.delete,
         task[t].op \in {"overlay", "audit"} \cup Takers
  PROVE  CoverageKnow'
  <1>1. task'[t] = r /\ \A u \in Tasks \ {t} : task'[u] = task[u]
    BY TurnIs DEF Goes, Based
  <1>2. subs' \subseteq subs /\ \A o \in subs : o \in subs' <=> o.id # s.id
    BY DeletesOne DEF Less
  <1>3. \A u \in Tasks : \A o \in subs' : task'[u].op \in Takers /\ o \in Remembered(task'[u]) <=> Takes(u, o)
    BY <1>1, <1>2 DEF Takes, Takers
  <1>4. \A u \in Tasks : task'[u].op = "audit" =>
           task[u].op = "audit" /\ \A p \in task'[u].todo : \E q \in task[u].todo : p.delete \subseteq q.delete
    BY <1>1
  <1>5. \A u \in Tasks : \A p, o \in subs' :
           /\ p.on /\ o.on /\ Pair(p) = Pair(o) /\ task'[u].op \in Takers /\ p \in Remembered(task'[u])
           => o \in Remembered(task'[u])
    BY <1>2, <1>3 DEF Covering
  <1>6. \A u \in Tasks : task'[u].op = "audit" =>
           \A p \in task'[u].todo : \A x \in p.delete \cap subs' : x.on =>
             Smaller(x, subs') \/ \E v \in Tasks : task'[v].op \in Takers /\ x \in Remembered(task'[v])
    <2>1. SUFFICES ASSUME NEW u \in Tasks, task'[u].op = "audit", NEW p \in task'[u].todo, NEW x \in p.delete \cap subs', x.on
                   PROVE  Smaller(x, subs') \/ \E v \in Tasks : Takes(v, x)
      BY <1>3
    <2>2. PICK q \in task[u].todo : p.delete \subseteq q.delete /\ task[u].op = "audit"
      BY <1>4, <2>1
    <2>3. x \in subs /\ x.id # s.id
      BY <1>2
    <2>4. Smaller(x, subs) \/ \E v \in Tasks : Takes(v, x)
      BY <2>1, <2>2, <2>3 DEF Covering
    <2>5. ASSUME NEW o \in subs, o.on, Pair(o) = Pair(x), o.id < x.id, o.id = s.id
          PROVE  Smaller(x, subs') \/ \E v \in Tasks : Takes(v, x)
      <3>1. s = o /\ s \in subs
        BY <2>5 DEF Based, IdsKnow
      <3>2. CASE task[t].op \in Takers
        <4>1. Takes(t, s)
          BY <3>2 DEF Takes, Takers
        <4> QED
          BY <2>1, <2>3, <2>5, <3>1, <4>1 DEF Covering
      <3>3. CASE task[t].op = "overlay"
        <4>1. x.type \in Required
          <5>1. q \in Plans /\ \A y \in q.delete : Pair(y) = q.pair
            BY <2>2 DEF Based, Shapes, TaskRecs, Shape, Creators, Repairing
          <5> QED
            BY <2>1, <2>2, <5>1 DEF Plans, Pair
        <4> QED
          BY <2>5, <3>1, <3>3, <4>1, ConstantsAssumption DEF IsOverlaySub, Pair
      <3>4. CASE task[t].op = "audit"
        <4>1. Smaller(s, subs) \/ \E v \in Tasks : Takes(v, s)
          BY <2>5, <3>1, <3>4 DEF Covering
        <4>2. CASE Smaller(s, subs)
          <5>1. PICK y \in subs : y.on /\ Pair(y) = Pair(s) /\ y.id < s.id
            BY <4>2 DEF Smaller
          <5>2. y.id \in Nat /\ s.id \in Nat /\ x.id \in Nat
            BY <2>3, <3>1, StartsAssumption DEF Based, Shapes, SubRecs
          <5>3. y \in subs' /\ y.id < x.id
            BY <1>2, <2>5, <3>1, <5>1, <5>2
          <5> QED
            BY <2>5, <3>1, <5>1, <5>3 DEF Smaller
        <4>3. CASE \E v \in Tasks : Takes(v, s)
          BY <2>1, <2>3, <2>5, <3>1, <4>3 DEF Covering
        <4> QED
          BY <4>1, <4>2, <4>3
      <3> QED
        BY <3>2, <3>3, <3>4
    <2>6. ASSUME NEW o \in subs, o.on, Pair(o) = Pair(x), o.id < x.id, o.id # s.id
          PROVE  Smaller(x, subs')
      BY <1>2, <2>6 DEF Smaller
    <2> QED
      BY <2>4, <2>5, <2>6 DEF Smaller
  <1> QED
    BY <1>5, <1>6, CoverageIs

\* Nothing changes for the list, and the task takes nothing: a request, a count, an end.
LEMMA CoverageIdle ==
  ASSUME Based, Covering, NEW t \in Tasks, NEW r, Goes(t, r), subs' = subs,
         r.op \in Takers => Remembered(r) = {}, \A s \in subs : ~Takes(t, s),
         r.op = "audit" => r.todo = {}
  PROVE  CoverageKnow'
  BY CoverageOfTurn

\* A create: of what is covered nothing comes of it, and what comes of it covers.
LEMMA CoverageOfCreate ==
  ASSUME Based, Covering, NEW t \in Tasks, NEW r, Goes(t, r), r.op = task[t].op,
         NEW want \in Broadcasters \X (Types \cup Required), AttemptNewSubscription(want, FreshIds),
         Remembered(r) = Remembered(task[t]),
         r.op = "audit" => \A p \in r.todo : \E q \in task[t].todo : p.delete \subseteq q.delete
  PROVE  CoverageKnow'
  <1>1. \/ subs' = subs
        \/ \E n : More(n) /\ n.on /\ Pair(n) \notin On(subs) /\ Remembered(r) \subseteq Remembered(task[t])
    BY AttemptIs DEF More
  <1>2. \A s \in subs : r.op \in Takers /\ s \in Remembered(r) <=> Takes(t, s)
    BY DEF Takes, Takers
  <1>3. r.op = "audit" => \A p \in r.todo : \A s \in p.delete \cap subs : s.on =>
                             Smaller(s, subs) \/ \E v \in Tasks : Takes(v, s)
    BY DEF Covering
  <1> QED
    BY <1>1, <1>2, <1>3, CoverageOfTurn

\* What is not calling takes nothing, unless it is an audit's repair.
LEMMA CoverageOfTaskStep ==
  ASSUME Based, Covering, failures = 0, NEW t \in Tasks, TaskStep(t)
  PROVE  CoverageKnow'
  <1> USE DEF Based
  <1>1. CASE CountRemaining(t)
    <2>1. PICK r : Goes(t, r) /\ r.op = "overlay" /\ task[t].op = "overlay" /\ subs' = subs
      BY <1>1, CountIs
    <2> QED
      BY <2>1, CoverageIdle DEF Takes, Takers
  <1>2. CASE ListSubs(t)
    <2>1. PICK r : Goes(t, r) /\ r.op = "overlay" /\ task[t].op = "overlay" /\ subs' = subs
      BY <1>2, ListIs
    <2> QED
      BY <2>1, CoverageIdle DEF Takes, Takers
  <1>3. CASE Create(t)
    <2>1. PICK r : \E want \in task[t].create :
             /\ Goes(t, r) /\ r.op = task[t].op /\ r.todo = task[t].todo
             /\ Remembered(r) = Remembered(task[t]) /\ AttemptNewSubscription(want, FreshIds)
      BY <1>3, CreateIs
    <2>2. task[t].create \subseteq Broadcasters \X (Types \cup Required)
      BY DEF Shapes, TaskRecs
    <2> QED
      BY <2>1, <2>2, CoverageOfCreate
  <1>4. CASE Delete(t)
    <2>1. PICK r : \E s \in task[t].delete :
             /\ Goes(t, r) /\ r.op = task[t].op /\ r.todo = task[t].todo
             /\ Remembered(r) = Remembered(task[t]) \ {s} /\ s \in Remembered(task[t])
             /\ task[t].pc = "calls" /\ DeleteEventSubSubscription(s)
      BY <1>4, DeleteIs
    <2>2. PICK s \in task[t].delete :
             /\ Remembered(r) = Remembered(task[t]) \ {s} /\ s \in Remembered(task[t])
             /\ DeleteEventSubSubscription(s)
      BY <2>1
    <2>3. /\ task[t].op \in {"overlay", "banish", "prune"}
          /\ task[t].op = "overlay" => IsOverlaySub(s)
      BY <2>2, TaskTyped DEF Typed, Shape, Repairing, Creators
    <2> QED
      BY <2>1, <2>2, <2>3, CoverageOfDelete DEF Takers
  <1>5. CASE Finish(t)
    <2>1. Goes(t, Done) /\ Remembered(task[t]) = {} /\ subs' = subs
      BY <1>5, EndIs
    <2>2. Done.op = "overlay"
      BY DEF Done
    <2> QED
      BY <2>1, <2>2, CoverageIdle DEF Takes, Takers
  <1> QED
    BY <1>1, <1>2, <1>3, <1>4, <1>5 DEF TaskStep

LEMMA CoverageOfList ==
  ASSUME Based, Covering, NEW t \in Tasks, ListBotSubs(t)
  PROVE  CoverageKnow'
  <1> USE DEF Based
  <1>1. PICK r : /\ Goes(t, r) /\ Unfolds(r, task[t]) /\ task[t].pc = "botlist"
                 /\ Remembered(r) \subseteq subs
                 /\ UNCHANGED <<paired, subs, booted, failures, clean, botVars, left, expect, settled>>
                 /\ \/ /\ r.op = "banish" /\ r.pc = "calls" /\ r.delete = {s \in subs : s.b = r.b}
                       /\ Remembered(r) = r.delete
                    \/ /\ r.op = "prune" /\ r.pc = "calls" /\ r.delete = {s \in subs : s.b \notin r.keep}
                       /\ Remembered(r) = r.delete
                    \/ /\ r.op \in Repairing /\ r.pc = "repair"
                       /\ r.todo = {p \in Repairs(task[t]) : Unhealthy(p)}
                       /\ Remembered(r) = UNION {p.delete : p \in r.todo}
    BY ListBotIs
  <1>2. task'[t] = r /\ \A u \in Tasks \ {t} : task'[u] = task[u]
    BY <1>1, TurnIs DEF Goes
  <1>3. r.op = task[t].op /\ r.keep = task[t].keep /\ subs' = subs /\ task[t].keep \subseteq Broadcasters
    BY <1>1 DEF Unfolds, Shapes, TaskRecs
  <1>4. \A s : Takes(t, s) => s \in task[t].delete
    BY <1>1, TaskTyped DEF Typed, Shape, Takes, Remembered, Creators, Repairing
  <1>5. ASSUME NEW s, Takes(t, s), s \in subs PROVE s \in Remembered(r)
    <2>1. /\ task[t].op = "banish" => s.b = task[t].b
          /\ task[t].op = "prune" => s.b \notin task[t].keep
          /\ task[t].op \in Repairing => task[t].delete = {}
      BY <1>1, <1>4, <1>5, TaskTyped DEF Typed, Shape, Creators, Repairing
    <2> QED
      BY <1>1, <1>4, <1>5, <2>1 DEF Unfolds
  <1>6. ASSUME NEW q \in r.todo, r.op \in Repairing
        PROVE  /\ q \in Plans /\ q.delete \subseteq Have(q.pair) /\ q.pair \in task[t].keep \X Required
               /\ q.make => q.delete = Have(q.pair)
               /\ r.op = "force" => q.delete = Have(q.pair)
               /\ \A s \in q.delete : s.on /\ r.op # "force" => Smaller(s, subs)
    <2>1. PICK p \in task[t].keep \X Required : q = PlanPair(p, task[t], KeepFirst)
      BY <1>1, <1>6 DEF Repairs, Repairing
    <2>2. /\ q \in Plans /\ q.pair = p /\ q.delete \subseteq Have(p)
          /\ q.make => q.delete = Have(p) /\ (r.op = "force" \/ \A s \in Have(p) : ~s.on)
          /\ ~q.make => \E f \in Have(p) : /\ f.on /\ q.delete = Have(p) \ {f}
                                           /\ r.op # "force" /\ \A o \in Have(p) : o.on => f.id <= o.id
      BY <1>3, <2>1, PlanIs
    <2>3. ASSUME NEW s \in q.delete, s.on, r.op # "force" PROVE Smaller(s, subs)
      <3>1. ~q.make
        BY <2>2, <2>3
      <3>2. PICK f \in Have(p) : /\ f.on /\ q.delete = Have(p) \ {f}
                                 /\ \A o \in Have(p) : o.on => f.id <= o.id
        BY <2>2, <3>1
      <3>3. f \in subs /\ s \in subs /\ Pair(f) = p /\ Pair(s) = p /\ f # s /\ f.id <= s.id
        BY <2>3, <3>2 DEF Have, BotSubs
      <3>4. f.id # s.id /\ f.id \in Nat /\ s.id \in Nat
        BY <3>3, StartsAssumption DEF IdsKnow, Shapes, SubRecs
      <3> QED
        BY <3>2, <3>3, <3>4 DEF Smaller
    <2> QED
      BY <2>1, <2>2, <2>3
  <1>7. \A u \in Tasks : \A s, o \in subs' :
           /\ s.on /\ o.on /\ Pair(s) = Pair(o) /\ task'[u].op \in Takers /\ s \in Remembered(task'[u])
           => o \in Remembered(task'[u])
    <2>1. SUFFICES ASSUME NEW u \in Tasks, NEW s \in subs, NEW o \in subs, s.on, o.on, Pair(s) = Pair(o),
                          task'[u].op \in Takers, s \in Remembered(task'[u])
                   PROVE  o \in Remembered(task'[u])
      BY <1>3
    <2>2. CASE u # t
      <3>1. task'[u] = task[u]
        BY <1>2, <2>2
      <3> QED
        BY <2>1, <3>1 DEF Covering, Takes, Takers
    <2>3. CASE u = t /\ r.op \in {"banish", "prune"}
      <3>1. Remembered(r) = {x \in subs : x.b = r.b} \/ Remembered(r) = {x \in subs : x.b \notin r.keep}
        BY <1>1, <2>3 DEF Repairing
      <3>2. s \in Remembered(r) /\ s.b = o.b
        BY <1>2, <2>1, <2>3 DEF Pair
      <3> QED
        BY <1>2, <2>3, <3>1, <3>2
    <2>4. CASE u = t /\ r.op = "force"
      <3>1. Remembered(r) = UNION {p.delete : p \in r.todo} /\ s \in Remembered(r)
        BY <1>1, <1>2, <2>1, <2>4
      <3>2. PICK q \in r.todo : s \in q.delete
        BY <3>1
      <3>3. q.delete = Have(q.pair)
        BY <1>6, <2>4 DEF Repairing
      <3>4. o \in q.delete
        BY <2>1, <3>2, <3>3 DEF Have, BotSubs, Pair
      <3> QED
        BY <1>2, <2>4, <3>1, <3>4
    <2> QED
      BY <1>2, <2>1, <2>2, <2>3, <2>4 DEF Takers
  <1>8. \A u \in Tasks : task'[u].op = "audit" =>
           \A p \in task'[u].todo : \A s \in p.delete \cap subs' : s.on =>
             Smaller(s, subs') \/ \E v \in Tasks : task'[v].op \in Takers /\ s \in Remembered(task'[v])
    <2>1. SUFFICES ASSUME NEW u \in Tasks, task'[u].op = "audit", NEW p \in task'[u].todo, NEW s \in p.delete \cap subs, s.on
                   PROVE  Smaller(s, subs) \/ \E v \in Tasks : task'[v].op \in Takers /\ s \in Remembered(task'[v])
      BY <1>3
    <2>2. CASE u = t
      BY <1>2, <1>6, <2>1, <2>2 DEF Repairing
    <2>3. CASE u # t
      <3>1. task[u].op = "audit" /\ p \in task[u].todo
        BY <1>2, <2>1, <2>3
      <3>2. Smaller(s, subs) \/ \E v \in Tasks : Takes(v, s)
        BY <2>1, <3>1 DEF Covering
      <3>3. ASSUME NEW v \in Tasks, Takes(v, s) PROVE task'[v].op \in Takers /\ s \in Remembered(task'[v])
        <4>1. CASE v = t
          BY <1>2, <1>3, <1>5, <2>1, <3>3, <4>1 DEF Takes, Takers
        <4>2. CASE v # t
          BY <1>2, <3>3, <4>2 DEF Takes, Takers
        <4> QED
          BY <4>1, <4>2
      <3> QED
        BY <3>2, <3>3
    <2> QED
      BY <2>2, <2>3
  <1> QED
    BY <1>7, <1>8, CoverageIs

LEMMA CoverageOfBotTask ==
  ASSUME Based, Covering, failures = 0, NEW t \in Tasks, BotTask(t), ~RepairFails(t)
  PROVE  CoverageKnow'
  <1> USE DEF Based
  <1>1. CASE ListBotSubs(t)
    BY <1>1, CoverageOfList
  <1>2. CASE Repair(t)
    <2>1. PICK r : \E p \in task[t].todo :
           /\ Goes(t, r) /\ Unfolds(r, task[t]) /\ task[t].pc = "repair" /\ r.pc = "repair"
           /\ Remembered(r) \subseteq Remembered(task[t])
           /\ Remembered(task[t]) = UNION {q.delete : q \in task[t].todo}
           /\ \/ \E s \in p.delete :
                   /\ DeleteEventSubSubscription(s) /\ r.todo = (task[t].todo \ {p}) \cup Repaired(p, s)
                   /\ Remembered(r) = Remembered(task[t]) \ {s}
              \/ /\ p.delete = {} /\ p.make /\ r.todo = task[t].todo \ {p}
                 /\ AttemptNewSubscription(p.pair, FreshIds)
                 /\ Remembered(r) = Remembered(task[t])
      BY <1>2, RepairIs
    <2>2. PICK p \in task[t].todo :
              \/ \E s \in p.delete :
                   /\ DeleteEventSubSubscription(s) /\ r.todo = (task[t].todo \ {p}) \cup Repaired(p, s)
                   /\ Remembered(r) = Remembered(task[t]) \ {s}
              \/ /\ p.delete = {} /\ p.make /\ r.todo = task[t].todo \ {p}
                 /\ AttemptNewSubscription(p.pair, FreshIds)
                 /\ Remembered(r) = Remembered(task[t])
      BY <2>1
    <2>3. /\ r.op = task[t].op /\ task[t].op \in Repairing /\ p \in Plans
          /\ p.pair \in Broadcasters \X (Types \cup Required)
      BY <2>1, TaskTyped DEF Unfolds, Shapes, TaskRecs, Plans
    <2>4. CASE \E s \in p.delete :
                   /\ DeleteEventSubSubscription(s) /\ r.todo = (task[t].todo \ {p}) \cup Repaired(p, s)
                   /\ Remembered(r) = Remembered(task[t]) \ {s}
      <3>1. PICK s \in p.delete :
                   /\ DeleteEventSubSubscription(s) /\ r.todo = (task[t].todo \ {p}) \cup Repaired(p, s)
                   /\ Remembered(r) = Remembered(task[t]) \ {s}
        BY <2>4
      <3>2. s \in Remembered(task[t])
        BY <2>1
      <3>3. \A q \in r.todo : \E o \in task[t].todo : q.delete \subseteq o.delete
        <4>1. Shorter(p, s).delete \subseteq p.delete
          BY <2>3, ShorterIs
        <4> QED
          BY <3>1, <4>1 DEF Repaired
      <3>4. Goes(t, r) /\ task[t].op \in {"audit"} \cup Takers /\ task[t].op # "overlay"
        BY <2>1, <2>3 DEF Takers, Repairing
      <3> QED
        BY <2>3, <3>1, <3>2, <3>3, <3>4, CoverageOfDelete
    <2>5. CASE /\ p.delete = {} /\ p.make /\ r.todo = task[t].todo \ {p}
               /\ AttemptNewSubscription(p.pair, FreshIds)
               /\ Remembered(r) = Remembered(task[t])
      BY <2>1, <2>3, <2>5, CoverageOfCreate
    <2> QED
      BY <2>2, <2>4, <2>5
  <1>3. CASE RepairDone(t) \/ OptOut(t)
    <2>1. Goes(t, Done) /\ Remembered(task[t]) = {} /\ subs' = subs
      BY <1>3, EndIs
    <2>2. Done.op = "overlay"
      BY DEF Done
    <2> QED
      BY <2>1, <2>2, CoverageIdle DEF Takes, Takers
  <1> QED
    BY <1>1, <1>2, <1>3 DEF BotTask

LEMMA CoverageOfRequest ==
  ASSUME Based, Covering, NEW t \in Tasks, OverlayRequest(t) \/ BotRequest(t)
  PROVE  CoverageKnow'
  <1> USE DEF Based
  <1>1. CASE OverlayRequest(t)
    <2>1. PICK r : Goes(t, r) /\ r.op = "overlay" /\ task[t].op = "overlay"
      BY <1>1, OverlayStarts DEF Goes
    <2>2. subs' = subs
      BY <1>1 DEF OverlayRequest, Mint, Revoke, Boot
    <2> QED
      BY <2>1, <2>2, CoverageIdle DEF Takes, Takers
  <1>2. CASE \E r, leaves : Begins(t, r, leaves)
    <2>1. PICK r, leaves : Begins(t, r, leaves)
      BY <1>2
    <2>2. Goes(t, r) /\ Remembered(r) = {} /\ r.op \in Ops /\ task[t].op = "overlay" /\ subs' = subs
      BY <2>1 DEF Begins, Goes
    <2>3. \A p \in r.todo : p.delete = {}
      BY <2>2 DEF Remembered
    <2> QED
      BY <2>2, <2>3, CoverageOfTurn DEF Takes, Takers
  <1>3. Creates(t) \/ Banishes(t) \/ Prunes(t) \/ Audits(t) => \E r, leaves : Begins(t, r, leaves)
    BY DEF Creates, Banishes, Prunes, Audits
  <1> QED
    BY <1>1, <1>2, <1>3, RequestIs

LEMMA CoverageOfRestart ==
  ASSUME Based, Covering, Restart
  PROVE  CoverageKnow'
  <1> USE DEF Based
  <1>1. /\ \A t \in Tasks : task'[t] = IF t \in CoreApi THEN Done ELSE task[t]
        /\ subs' = subs
    BY RestartIs
  <1>2. Done.op = "overlay"
    BY DEF Done
  <1>3. \A u \in Tasks : task[u].op \in Takers \cup {"audit"} => task'[u] = task[u]
    BY <1>1 DEF CoreApi, Takers
  <1>4. \A u \in Tasks : task'[u].op \in Takers \cup {"audit"} => task'[u] = task[u]
    BY <1>1, <1>2 DEF Takers
  <1>5. \A u \in Tasks : \A s : task'[u].op \in Takers /\ s \in Remembered(task'[u]) <=> Takes(u, s)
    BY <1>3, <1>4 DEF Takes, Takers
  <1>6. \A u \in Tasks : \A s, o \in subs' :
           /\ s.on /\ o.on /\ Pair(s) = Pair(o) /\ task'[u].op \in Takers /\ s \in Remembered(task'[u])
           => o \in Remembered(task'[u])
    BY <1>1, <1>5 DEF Covering
  <1>7. \A u \in Tasks : task'[u].op = "audit" =>
           \A p \in task'[u].todo : \A s \in p.delete \cap subs' : s.on =>
             Smaller(s, subs') \/ \E v \in Tasks : task'[v].op \in Takers /\ s \in Remembered(task'[v])
    BY <1>1, <1>4, <1>5 DEF Covering
  <1> QED
    BY <1>6, <1>7, CoverageIs

\* Failures are counted, and never forgotten.
LEMMA FailuresGrow ==
  ASSUME Based, Next
  PROVE  /\ failures' = 0 => failures = 0
         /\ \A t \in Tasks : failures' = 0 => ~CallFails(t) /\ ~RepairFails(t)
         /\ \A s : failures' = 0 => ~Disabled(s)
  <1>0. failures \in Nat
    BY ConstantsAssumption DEF Based, Shapes
  <1>1. \A t \in Tasks : CallFails(t) \/ RepairFails(t) => failures' # 0
    BY <1>0 DEF CallFails, RepairFails
  <1>2. \A s : Disabled(s) => failures' # 0
    BY <1>0 DEF Disabled
  <1>3. ASSUME NEW t \in Tasks, TaskStep(t) PROVE failures' = failures
    BY <1>3 DEF TaskStep, CountRemaining, UnsubscribeIf, ListSubs, ListThen, Create, Delete, Finish
  <1>4. ASSUME NEW t \in Tasks, BotTask(t), ~RepairFails(t) PROVE failures' = failures
    BY <1>4 DEF BotTask, ListBotSubs, ListForBot, Repair, RepairStep, RepairDone, OptOut
  <1>5. ASSUME NEW t \in Tasks, OverlayRequest(t) PROVE failures' = failures
    BY <1>5 DEF OverlayRequest, Mint, Revoke, Boot
  <1>6. ASSUME NEW t \in Tasks, BotRequest(t) PROVE failures' = failures
    BY <1>6, RequestIs DEF Based, Creates, Banishes, Prunes, Audits, Begins
  <1>7. Restart => failures' = failures
    BY DEF Restart
  <1>8. \/ \E t \in Tasks : TaskStep(t) \/ CallFails(t) \/ OverlayRequest(t) \/ BotRequest(t) \/ BotTask(t)
        \/ (\E s \in subs : Disabled(s)) \/ Restart
    BY NextIs
  <1> QED
    BY <1>1, <1>2, <1>3, <1>4, <1>5, <1>6, <1>7, <1>8

LEMMA CoverageStep ==
  ASSUME Based, CoverageKnow, [Next]_allVars
  PROVE  CoverageKnow'
  <1>1. CASE UNCHANGED allVars
    BY <1>1 DEF CoverageKnow, Takes, Remembered, Pair, allVars, vars
  <1>2. CASE failures' # 0
    BY <1>2 DEF CoverageKnow
  <1>3. CASE Next /\ failures' = 0
    <2>1. /\ failures = 0 /\ \A t \in Tasks : ~CallFails(t) /\ ~RepairFails(t)
          /\ \A s : ~Disabled(s)
      BY <1>3, FailuresGrow
    <2>2. Covering
      BY <2>1, CoverageNow
    <2> QED
      BY <1>3, <2>1, <2>2, NextIs, CoverageOfTaskStep, CoverageOfBotTask, CoverageOfRequest, CoverageOfRestart
  <1> QED
    BY <1>1, <1>2, <1>3

-----------------------------------------------------------------------------
(* And so nobody loses a last subscription.                                *)

\* What a task of the overlay's, or of a banish, a prune or a repair, deletes.
LEMMA WhoDeletes ==
  ASSUME Based, NEW t \in Tasks, NEW s \in Remembered(task[t])
  PROVE  \/ task[t].op = "overlay" /\ IsOverlaySub(s)
         \/ task[t].op \in Takers \cup {"audit"}
            /\ (task[t].op \in {"banish", "prune", "force"} => Doomed(s.b))
            /\ (task[t].op = "audit" => \E q \in task[t].todo : s \in q.delete)
  <1>1. Typed(task[t]) /\ s \in task[t].delete \cup UNION {p.delete : p \in task[t].todo}
    BY TaskTyped DEF Based, Remembered
  <1>2. CASE task[t].op = "overlay"
    BY <1>1, <1>2 DEF Typed, Shape, Creators, Repairing
  <1>3. CASE task[t].op \in Creators
    BY <1>1, <1>3 DEF Typed, Shape, Creators, Repairing
  <1>4. CASE task[t].op \in {"banish", "prune"}
    <2>1. IF task[t].op = "banish" THEN s.b = task[t].b ELSE s.b \notin task[t].keep
      BY <1>1, <1>4 DEF Typed, Shape, Creators, Repairing
    <2>2. Doomed(s.b)
      BY <1>4, <2>1 DEF Doomed
    <2> QED
      BY <1>4, <2>2 DEF Takers
  <1>5. CASE task[t].op \in Repairing
    <2>1. task[t].delete = {}
      BY <1>1, <1>5 DEF Typed, Shape, Creators, Repairing
    <2>2. task[t].op = "force" => Doomed(s.b)
      BY DEF Doomed
    <2> QED
      BY <1>1, <1>5, <2>1, <2>2 DEF Takers, Repairing
  <1> QED
    BY <1>1, <1>2, <1>3, <1>4, <1>5 DEF Typed, Shape

LEMMA Deletes ==
  ASSUME Based, CoverageKnow, failures = 0, NEW t \in Tasks, NEW s \in Remembered(task[t]),
         DeleteEventSubSubscription(s), NEW p \in On(BotSubs), ~Doomed(p[1])
  PROVE  p \in On(BotSubs)'
  <1> USE DEF Based
  <1>1. PICK x \in subs : x.on /\ Pair(x) = p /\ x.type \in Required
    BY DEF On, BotSubs, Pair
  <1>2. \A o \in subs : o \in subs' <=> o.id # s.id
    BY DeletesOne
  <1>3. ASSUME NEW o \in subs', o.on, Pair(o) = p PROVE p \in On(BotSubs)'
    BY <1>1, <1>3 DEF On, BotSubs, Pair
  <1>4. CASE x.id # s.id
    BY <1>1, <1>2, <1>3, <1>4
  <1>5. CASE x.id = s.id
    <2>1. x = s /\ x.b = p[1]
      BY <1>1, <1>5 DEF IdsKnow, Pair
    <2>2. task[t].op = "audit" /\ \E q \in task[t].todo : s \in q.delete
      BY <1>1, <2>1, WhoDeletes, ConstantsAssumption DEF IsOverlaySub, Takers
    <2>3. \A v \in Tasks : ~Takes(v, s)
      <3>1. SUFFICES ASSUME NEW v \in Tasks, Takes(v, s) PROVE FALSE
        OBVIOUS
      <3>2. s \in Remembered(task[v]) /\ task[v].op \in {"banish", "prune", "force"}
        BY <3>1 DEF Takes
      <3> QED
        BY <2>1, <3>2, WhoDeletes
    <2>4. Smaller(s, subs)
      BY <1>1, <2>1, <2>2, <2>3, CoverageNow DEF Covering
    <2>5. PICK o \in subs : o.on /\ Pair(o) = Pair(s) /\ o.id < s.id
      BY <2>4 DEF Smaller
    <2>6. o.id \in Nat /\ s.id \in Nat
      BY <2>1, StartsAssumption DEF Shapes, SubRecs
    <2> QED
      BY <1>1, <1>2, <1>3, <2>1, <2>5, <2>6
  <1> QED
    BY <1>4, <1>5

LEMMA KeptOrDeleted ==
  ASSUME Based, Next, failures' = 0
  PROVE  \/ subs \subseteq subs'
         \/ \E t \in Tasks : \E s \in Remembered(task[t]) : DeleteEventSubSubscription(s)
  <1> USE DEF Based
  <1>0. /\ failures = 0 /\ \A t \in Tasks : ~CallFails(t) /\ ~RepairFails(t)
        /\ \A s : ~Disabled(s)
    BY FailuresGrow
  <1>1. ASSUME NEW want, AttemptNewSubscription(want, FreshIds) PROVE subs \subseteq subs'
    BY <1>1 DEF AttemptNewSubscription
  <1>2. ASSUME NEW t \in Tasks, TaskStep(t) PROVE subs \subseteq subs' \/ \E s \in Remembered(task[t]) : DeleteEventSubSubscription(s)
    <2>1. CASE Create(t)
      BY <1>1, <2>1, CreateIs
    <2>2. CASE Delete(t)
      BY <2>2, DeleteIs
    <2>3. CASE CountRemaining(t) \/ ListSubs(t) \/ Finish(t)
      BY <2>3 DEF CountRemaining, UnsubscribeIf, ListSubs, ListThen, Finish
    <2> QED
      BY <1>2, <2>1, <2>2, <2>3 DEF TaskStep
  <1>3. ASSUME NEW t \in Tasks, BotTask(t) PROVE subs \subseteq subs' \/ \E s \in Remembered(task[t]) : DeleteEventSubSubscription(s)
    <2>1. CASE Repair(t)
      <3>1. \E p \in task[t].todo : (\E s \in p.delete : DeleteEventSubSubscription(s)) \/ AttemptNewSubscription(p.pair, FreshIds)
        BY <2>1 DEF Repair, RepairStep
      <3>2. \A p \in task[t].todo : p.delete \subseteq Remembered(task[t])
        BY DEF Remembered
      <3> QED
        BY <1>1, <3>1, <3>2
    <2>2. CASE ListBotSubs(t) \/ RepairDone(t) \/ OptOut(t)
      BY <2>2 DEF ListBotSubs, ListForBot, RepairDone, OptOut
    <2> QED
      BY <1>0, <1>3, <2>1, <2>2 DEF BotTask
  <1>4. ASSUME NEW t \in Tasks, OverlayRequest(t) PROVE subs' = subs
    BY <1>4 DEF OverlayRequest, Mint, Revoke, Boot
  <1>5. ASSUME NEW t \in Tasks, BotRequest(t) PROVE subs' = subs
    BY <1>5, RequestIs DEF Creates, Banishes, Prunes, Audits, Begins
  <1>6. Restart => subs' = subs
    BY DEF Restart
  <1> QED
    BY <1>0, <1>2, <1>3, <1>4, <1>5, <1>6, NextIs

LEMMA CoverageKeeps ==
  ASSUME Based, CoverageKnow, [Next]_allVars
  PROVE  \A p \in On(BotSubs) :
           failures = 0 /\ failures' = 0 /\ ~Doomed(p[1]) => p \in On(BotSubs)'
  <1>1. SUFFICES ASSUME NEW p \in On(BotSubs), failures = 0, failures' = 0, ~Doomed(p[1])
                 PROVE  p \in On(BotSubs)'
    OBVIOUS
  <1>2. CASE subs \subseteq subs'
    BY <1>2 DEF On, BotSubs
  <1>3. CASE UNCHANGED allVars
    BY <1>2, <1>3 DEF allVars, vars
  <1>4. CASE \E t \in Tasks : \E s \in Remembered(task[t]) : DeleteEventSubSubscription(s)
    BY <1>1, <1>4, Deletes
  <1> QED
    BY <1>1, <1>2, <1>3, <1>4, KeptOrDeleted

-----------------------------------------------------------------------------
(* The overlay's: whole, or one task is about to make them so.             *)

Touchers == {"overlay", "banish", "prune"}
Touched(tasks) == {t \in Tasks : tasks[t].pc # "done" /\ tasks[t].op \in Touchers}
Whole(list, pd) == pd \X Types \subseteq On(list) /\ \A s \in list : s.b \in pd
Calls(r, list, pd) ==
  /\ r.create \subseteq pd \X Types /\ pd \X Types \subseteq On(list) \cup r.create
  /\ \A s \in list : s.b \in pd \/ s \in r.delete
  /\ \A s \in r.delete : s.b \notin pd
Unpairs(r, list, pd) ==
  IF r.b = NoOne
  THEN r.pc = "list" /\ r.keep = pd
  ELSE r.b \notin pd /\ pd \X Types \subseteq On(list) /\ \A s \in list : s.b \in pd \cup {r.b}
Does(r, list, pd) ==
  /\ r.op = "banish" => r.b \notin pd /\ Whole(list, pd)
  /\ r.op = "prune" => pd \subseteq r.keep /\ Whole(list, pd)
  /\ r.op = "overlay" /\ r.pc = "calls" => Calls(r, list, pd)
  /\ r.op = "overlay" /\ r.pc # "calls" => Unpairs(r, list, pd)
Clean(tasks, list, pd) ==
  \/ Touched(tasks) = {} /\ Whole(list, pd)
  \/ \E t \in Tasks : Touched(tasks) = {t} /\ Does(tasks[t], list, pd)

LEMMA CompletesIs ==
  ASSUME NEW r, r.op \in Touchers
  PROVE  Completes(r) <=> Does(r, Ours, paired)
  <1>1. CASE r.op = "banish"
    BY <1>1 DEF Completes, Does, Whole, OnlyOf
  <1>2. CASE r.op = "prune"
    BY <1>2 DEF Completes, Does, Whole, OnlyOf
  <1>3. CASE r.op = "overlay" /\ r.pc = "calls"
    BY <1>3 DEF Completes, Does, Calls
  <1>4. CASE r.op = "overlay" /\ r.pc # "calls"
    BY <1>4 DEF Completes, Does, Unpairs, OnlyOf
  <1> QED
    BY <1>1, <1>2, <1>3, <1>4 DEF Touchers

LEMMA CleanNow == ASSUME CleanKnow, booted, clean PROVE Clean(task, Ours, paired)
  <1>1. Touching = Touched(task)
    BY DEF Touching, Touched, Running, Touchers
  <1>2. OnlyOf(paired) <=> \A s \in Ours : s.b \in paired
    BY DEF OnlyOf
  <1>3. CASE Touching = {} /\ paired \X Types \subseteq On(Ours) /\ OnlyOf(paired)
    BY <1>1, <1>2, <1>3 DEF Clean, Whole
  <1>4. CASE \E t \in Tasks : Touching = {t} /\ Completes(task[t])
    <2>1. PICK t \in Tasks : Touching = {t} /\ Completes(task[t])
      BY <1>4
    <2>2. task[t].op \in Touchers
      BY <1>1, <2>1 DEF Touched
    <2>3. Does(task[t], Ours, paired)
      BY <2>1, <2>2, CompletesIs
    <2> QED
      BY <1>1, <2>1, <2>3 DEF Clean
  <1> QED
    BY <1>3, <1>4 DEF CleanKnow

LEMMA CleanThen == ASSUME booted' /\ clean' => Clean(task', Ours', paired') PROVE CleanKnow'
  <1>1. Touching' = Touched(task')
    BY DEF Touching, Touched, Running, Touchers
  <1>2. OnlyOf(paired)' <=> \A s \in Ours' : s.b \in paired'
    BY DEF OnlyOf, Ours
  <1>3. CASE Touched(task') = {} /\ Whole(Ours', paired')
    <2>1. paired' \X Types \subseteq On(Ours)' /\ OnlyOf(paired)'
      BY <1>2, <1>3 DEF Whole, On, Ours
    <2> QED
      BY <1>1, <1>3, <2>1 DEF CleanKnow, On
  <1>4. CASE \E t \in Tasks : Touched(task') = {t} /\ Does(task'[t], Ours', paired')
    <2>1. PICK t \in Tasks : Touched(task') = {t} /\ Does(task'[t], Ours', paired')
      BY <1>4
    <2>2. task'[t].op \in Touchers
      BY <2>1 DEF Touched
    <2>3. Completes(task[t])'
      <3> DEFINE r == task[t]'
      <3>0. r.op \in Touchers /\ Does(r, Ours', paired')
        BY <2>1, <2>2
      <3>1. CASE r.op = "banish"
        BY <3>0, <3>1 DEF Completes, Does, Whole, OnlyOf, On, Ours
      <3>2. CASE r.op = "prune"
        BY <3>0, <3>2 DEF Completes, Does, Whole, OnlyOf, On, Ours
      <3>3. CASE r.op = "overlay" /\ r.pc = "calls"
        BY <3>0, <3>3 DEF Completes, Does, Calls, On, Ours
      <3>4. CASE r.op = "overlay" /\ r.pc # "calls"
        BY <3>0, <3>4 DEF Completes, Does, Unpairs, OnlyOf, On, Ours
      <3> QED
        BY <3>0, <3>1, <3>2, <3>3, <3>4 DEF Touchers
    <2> QED
      BY <1>1, <2>1, <2>3 DEF CleanKnow
  <1> QED
    BY <1>3, <1>4 DEF Clean, CleanKnow

\* A step of a task that is not at them leaves them.
LEMMA CleanAside ==
  ASSUME Based, CleanKnow, NEW t \in Tasks, NEW r, Goes(t, r), task[t].pc = "done" \/ task[t].op \notin Touchers,
         r.pc = "done" \/ r.op \notin Touchers,
         Ours' = Ours, paired' = paired, booted' /\ clean' => booted /\ clean
  PROVE  CleanKnow'
  <1>1. task'[t] = r /\ \A u \in Tasks \ {t} : task'[u] = task[u]
    BY TurnIs DEF Goes, Based
  <1>2. Touched(task') = Touched(task) /\ t \notin Touched(task)
    BY <1>1 DEF Touched
  <1>3. Clean(task, Ours, paired) => Clean(task', Ours', paired')
    <2>1. ASSUME NEW u \in Tasks, Touched(task) = {u}, Does(task[u], Ours, paired)
          PROVE  Touched(task') = {u} /\ Does(task'[u], Ours', paired')
      <3>1. task'[u] = task[u]
        BY <1>1, <1>2, <2>1
      <3> QED
        BY <1>2, <2>1, <3>1
    <2> QED
      BY <1>2, <2>1 DEF Clean
  <1> QED
    BY <1>3, CleanNow, CleanThen

\* A task that is at them goes on, or ends.
LEMMA CleanOwn ==
  ASSUME Based, CleanKnow, NEW t \in Tasks, NEW r, Goes(t, r), task[t].pc # "done", task[t].op \in Touchers,
         r.op \in Touchers, booted' /\ clean' => booted /\ clean,
         Does(task[t], Ours, paired) =>
           IF r.pc = "done" THEN Whole(Ours', paired') ELSE Does(r, Ours', paired')
  PROVE  CleanKnow'
  <1>1. task'[t] = r /\ \A u \in Tasks \ {t} : task'[u] = task[u]
    BY TurnIs DEF Goes, Based
  <1>2. t \in Touched(task)
    BY DEF Touched
  <1>3. SUFFICES ASSUME Clean(task, Ours, paired) PROVE Clean(task', Ours', paired')
    BY CleanNow, CleanThen
  <1>4. Touched(task) = {t} /\ Does(task[t], Ours, paired)
    BY <1>2, <1>3 DEF Clean
  <1>5. Touched(task') \subseteq {t} /\ (t \in Touched(task') <=> r.pc # "done")
    BY <1>1, <1>4 DEF Touched
  <1>6. Touched(task') = IF r.pc = "done" THEN {} ELSE {t}
    BY <1>5
  <1> QED
    BY <1>1, <1>4, <1>6 DEF Clean

\* A task begins alone.
LEMMA CleanStart ==
  ASSUME Based, NEW t \in Tasks, NEW r, Goes(t, r), r.pc # "done", r.op \in Touchers,
         booted' /\ clean' => Running = {} /\ Does(r, Ours', paired')
  PROVE  CleanKnow'
  <1>1. task'[t] = r /\ \A u \in Tasks \ {t} : task'[u] = task[u]
    BY TurnIs DEF Goes, Based
  <1>2. Running = {} => Touched(task') = {t}
    BY <1>1 DEF Running, Touched
  <1>3. booted' /\ clean' => Clean(task', Ours', paired')
    BY <1>1, <1>2 DEF Clean
  <1> QED
    BY <1>3, CleanThen

\* Whose list a create or a delete is at.
LEMMA OursOfCreate ==
  ASSUME NEW want \in Broadcasters \X (Types \cup Required), AttemptNewSubscription(want, FreshIds)
  PROVE  /\ want[2] \notin Types => Ours' = Ours
         /\ want[2] \in Types =>
              /\ On(Ours') = On(Ours) \cup {want}
              /\ \A s \in Ours' : s \in Ours \/ s.b = want[1]
  <1> DEFINE Was == Ours
  <1>1. CASE want \in On(subs) /\ subs' = subs
    <2>1. Ours' = Ours
      BY <1>1 DEF Ours, IsOverlaySub
    <2>2. want[2] \in Types => want \in On(Ours)
      BY <1>1 DEF On, Ours, IsOverlaySub
    <2> QED
      BY <2>1, <2>2
  <1>2. CASE \E n \in SubRecs : subs' = subs \cup {n} /\ n.on = TRUE /\ Pair(n) = want /\ n.id \in FreshIds
    <2>1. PICK n \in SubRecs : subs' = subs \cup {n} /\ n.on = TRUE /\ Pair(n) = want
      BY <1>2
    <2>2. n.b = want[1] /\ n.type = want[2]
      BY <2>1 DEF Pair
    <2>3. Ours' = IF want[2] \in Types THEN Ours \cup {n} ELSE Ours
      BY <2>1, <2>2 DEF Ours, IsOverlaySub
    <2>4. On(Ours \cup {n}) = On(Ours) \cup {want}
      BY <2>1 DEF On, Pair
    <2> QED
      BY <2>2, <2>3, <2>4
  <1> QED
    BY <1>1, <1>2, AttemptIs

LEMMA OursOfDelete ==
  ASSUME Based, NEW t \in Tasks, NEW s \in Remembered(task[t]), DeleteEventSubSubscription(s)
  PROVE  /\ s.type \notin Types => Ours' = Ours
         /\ Ours' \subseteq Ours /\ s \notin Ours'
         /\ \A pd : s.b \notin pd => \A p \in pd \X Types : p \in On(Ours) => p \in On(Ours')
  <1>1. \A o \in subs : o \in subs' <=> o.id # s.id
    BY DeletesOne
  <1>2. subs' \subseteq subs
    BY DeletesOne DEF Less
  <1>3. \A o \in subs : o.id = s.id => o.b = s.b /\ o.type = s.type
    BY DEF Based, IdsKnow, Pair
  <1>4. Ours' \subseteq Ours
    BY <1>2 DEF Ours, IsOverlaySub
  <1>5. \A o \in Ours : o.b # s.b \/ o.type # s.type => o \in Ours'
    BY <1>1, <1>3 DEF Ours, IsOverlaySub
  <1>6. s.type \notin Types => Ours' = Ours
    BY <1>4, <1>5 DEF Ours, IsOverlaySub
  <1>7. s \notin Ours'
    BY <1>1, <1>2 DEF Ours
  <1>8. ASSUME NEW pd, s.b \notin pd, NEW p \in pd \X Types, p \in On(Ours) PROVE p \in On(Ours')
    <2>1. PICK o \in Ours : o.on /\ p = <<o.b, o.type>>
      BY <1>8 DEF On
    <2>2. o \in Ours'
      BY <1>5, <1>8, <2>1
    <2> QED
      BY <2>1, <2>2 DEF On
  <1> QED
    BY <1>4, <1>6, <1>7, <1>8

LEMMA CleanOfRequest ==
  ASSUME Based, CleanKnow, NEW t \in Tasks, OverlayRequest(t)
  PROVE  CleanKnow'
  <1> USE DEF Based
  <1>0. Running = {} /\ booted /\ clean => Whole(Ours, paired)
    <2>1. Running = {} => Touched(task) = {}
      BY DEF Running, Touched
    <2> QED
      BY <2>1, CleanNow DEF Clean
  <1>1. task[t].pc = "done" /\ Ours' = Ours
    <2>1. subs' = subs
      BY DEF OverlayRequest, Mint, Revoke, Boot
    <2> QED
      BY <2>1, OverlayStarts DEF Ours, IsOverlaySub
  <1>2. ASSUME NEW b \in Broadcasters, Mint(t, b) PROVE CleanKnow'
    <2> DEFINE r == [Done EXCEPT !.pc = "calls", !.b = b, !.create = {b} \X Types]
    <2>1. Start(t, r) /\ paired' = paired \cup {b} /\ booted' = booted /\ clean' = (clean /\ Running = {})
      BY <1>2 DEF Mint
    <2>2. Typed(r) /\ r.pc = "calls" /\ r.op = "overlay" /\ r.create = {b} \X Types /\ r.delete = {}
      BY DEF Typed, Done, TaskRecs, Shape
    <2> HIDE DEF r
    <2>3. Goes(t, r)
      BY <2>1, <2>2, StartTyped DEF Goes
    <2>4. clean' => clean /\ Running = {}
      BY <2>1
    <2>5. Whole(Ours, paired) => Does(r, Ours', paired')
      BY <1>1, <2>1, <2>2 DEF Whole, Does, Calls
    <2> QED
      BY <1>0, <2>1, <2>2, <2>3, <2>4, <2>5, CleanStart DEF Touchers
  <1>3. ASSUME NEW b \in Broadcasters, Revoke(t, b) PROVE CleanKnow'
    <2> DEFINE r == [Done EXCEPT !.pc = "remaining", !.b = b]
    <2>1. Start(t, r) /\ paired' = paired \ {b} /\ booted' = booted /\ clean' = (clean /\ Running = {})
      BY <1>3 DEF Revoke
    <2>2. Typed(r) /\ r.pc = "remaining" /\ r.op = "overlay" /\ r.b = b /\ b # NoOne
      BY ConstantsAssumption DEF Typed, Done, TaskRecs, Shape
    <2> HIDE DEF r
    <2>3. Goes(t, r)
      BY <2>1, <2>2, StartTyped DEF Goes
    <2>4. clean' => clean /\ Running = {}
      BY <2>1
    <2>5. Whole(Ours, paired) => Does(r, Ours', paired')
      BY <1>1, <2>1, <2>2 DEF Whole, Does, Unpairs
    <2> QED
      BY <1>0, <2>1, <2>2, <2>3, <2>4, <2>5, CleanStart DEF Touchers
  <1>4. CASE Boot(t)
    <2> DEFINE r == [Done EXCEPT !.pc = "list", !.keep = paired]
    <2>1. Start(t, r) /\ paired' = paired /\ clean' = (Running = {})
      BY <1>4 DEF Boot
    <2>2. Typed(r) /\ r.pc = "list" /\ r.op = "overlay" /\ r.b = NoOne /\ r.keep = paired
      BY DEF Typed, Done, TaskRecs, Shape, Shapes
    <2> HIDE DEF r
    <2>3. Goes(t, r)
      BY <2>1, <2>2, StartTyped DEF Goes
    <2>4. Does(r, Ours', paired')
      BY <2>1, <2>2 DEF Does, Unpairs
    <2> QED
      BY <2>1, <2>2, <2>3, <2>4, CleanStart DEF Touchers
  <1> QED
    BY <1>2, <1>3, <1>4 DEF OverlayRequest

LEMMA CleanOfBotRequest ==
  ASSUME Based, CleanKnow, NEW t \in Tasks, BotRequest(t)
  PROVE  CleanKnow'
  <1> USE DEF Based
  <1>0. Running = {} /\ booted /\ clean => Whole(Ours, paired)
    <2>1. Running = {} => Touched(task) = {}
      BY DEF Running, Touched
    <2> QED
      BY <2>1, CleanNow DEF Clean
  <1>1. ASSUME NEW r, NEW leaves, Begins(t, r, leaves)
        PROVE  /\ Goes(t, r) /\ task[t].pc = "done" /\ Ours' = Ours /\ paired' = paired /\ booted' = booted
    BY <1>1 DEF Begins, Goes, Ours, IsOverlaySub
  <1>2. CASE Creates(t)
    <2>1. PICK r : Begins(t, r, {}) /\ r.op \in Creators /\ clean' = clean
      BY <1>2 DEF Creates
    <2> QED
      BY <1>1, <2>1, CleanAside DEF Creators, Touchers
  <1>3. CASE Audits(t)
    <2>1. PICK r : Begins(t, r, optIn) /\ r.op \in Repairing /\ clean' = clean
      BY <1>3 DEF Audits
    <2> QED
      BY <1>1, <2>1, CleanAside DEF Repairing, Touchers
  <1>4. CASE Banishes(t)
    <2>1. PICK r : \E b \in Broadcasters :
            /\ Begins(t, r, {b}) /\ r.op = "banish" /\ r.b = b /\ r.pc = "botlist"
            /\ clean' = (clean /\ Running = {} /\ b \notin paired)
      BY <1>4 DEF Banishes
    <2>2. clean' => clean /\ Running = {} /\ r.b \notin paired
      BY <2>1
    <2>3. Whole(Ours, paired) /\ r.b \notin paired => Does(r, Ours', paired')
      BY <1>1, <2>1 DEF Does
    <2> QED
      BY <1>0, <1>1, <2>1, <2>2, <2>3, CleanStart DEF Touchers
  <1>5. CASE Prunes(t)
    <2>1. PICK r : /\ Begins(t, r, Broadcasters \ optIn) /\ r.op = "prune" /\ r.keep = optIn /\ r.pc = "botlist"
                   /\ clean' = (clean /\ Running = {} /\ paired \subseteq optIn)
      BY <1>5 DEF Prunes
    <2>2. clean' => clean /\ Running = {} /\ paired \subseteq r.keep
      BY <2>1
    <2>3. Whole(Ours, paired) /\ paired \subseteq r.keep => Does(r, Ours', paired')
      BY <1>1, <2>1 DEF Does
    <2> QED
      BY <1>0, <1>1, <2>1, <2>2, <2>3, CleanStart DEF Touchers
  <1> QED
    BY <1>2, <1>3, <1>4, <1>5, RequestIs

LEMMA CleanOfTaskStep ==
  ASSUME Based, CleanKnow, NEW t \in Tasks, TaskStep(t)
  PROVE  CleanKnow'
  <1> USE DEF Based
  <1>1. CASE CountRemaining(t)
    <2>1. PICK r : /\ Goes(t, r) /\ task[t].op = "overlay" /\ task[t].pc = "remaining"
                   /\ r.op = "overlay"
                   /\ IF task[t].b \notin paired
                      THEN r.pc = "list" /\ r.b = task[t].b ELSE r.pc = "done"
                   /\ UNCHANGED <<paired, subs, booted, failures, clean>>
      BY <1>1, CountIs
    <2>2. Ours' = Ours
      BY <2>1 DEF Ours, IsOverlaySub
    <2>3. Does(task[t], Ours, paired) => r.pc # "done" /\ Does(r, Ours', paired')
      BY <2>1, <2>2 DEF Does, Unpairs
    <2> QED
      BY <2>1, <2>3, CleanOwn DEF Touchers
  <1>2. CASE ListSubs(t)
    <2>1. PICK r : /\ Goes(t, r) /\ task[t].op = "overlay" /\ task[t].pc = "list"
                   /\ r.op = "overlay" /\ r.pc = "calls"
                   /\ IF task[t].b # NoOne
                      THEN r.delete = {s \in Ours : s.b = task[t].b} /\ r.create = {}
                      ELSE /\ r.create = (task[t].keep \X Types) \ On(Ours)
                           /\ r.delete = {s \in Ours : s.b \notin task[t].keep}
                   /\ UNCHANGED <<paired, subs, booted, failures, clean>>
      BY <1>2, ListIs
    <2>2. Ours' = Ours
      BY <2>1 DEF Ours, IsOverlaySub
    <2>3. SUFFICES ASSUME Does(task[t], Ours, paired) PROVE Does(r, Ours', paired')
      BY <2>1, CleanOwn DEF Touchers
    <2>4. Unpairs(task[t], Ours, paired)
      BY <2>1, <2>3 DEF Does
    <2>5. CASE task[t].b # NoOne
      BY <2>1, <2>2, <2>4, <2>5 DEF Does, Unpairs, Calls
    <2>6. CASE task[t].b = NoOne
      BY <2>1, <2>2, <2>4, <2>6 DEF Does, Unpairs, Calls
    <2> QED
      BY <2>5, <2>6
  <1>3. CASE Create(t)
    <2>1. PICK r : \E want \in task[t].create :
             /\ Goes(t, r) /\ r.op = task[t].op /\ r.pc = "calls" /\ r.b = task[t].b /\ r.keep = task[t].keep
             /\ r.create = task[t].create \ {want} /\ r.delete = task[t].delete
             /\ task[t].pc = "calls"
             /\ AttemptNewSubscription(want, FreshIds) /\ UNCHANGED <<paired, booted, failures, clean>>
      BY <1>3, CreateIs
    <2>2. PICK want \in task[t].create : r.create = task[t].create \ {want} /\ AttemptNewSubscription(want, FreshIds)
      BY <2>1
    <2>3. /\ want \in Broadcasters \X (Types \cup Required)
          /\ \/ task[t].op = "overlay" /\ want[2] \in Types
             \/ task[t].op \in Creators /\ want[2] \in Required
      BY <2>1, <2>2, TaskTyped DEF Typed, Shape, Creators, Repairing
    <2>4. CASE task[t].op = "overlay"
      <3>1. /\ On(Ours') = On(Ours) \cup {want}
            /\ \A s \in Ours' : s \in Ours \/ s.b = want[1]
        BY <2>2, <2>3, <2>4, OursOfCreate DEF Creators
      <3>2. SUFFICES ASSUME Calls(task[t], Ours, paired) PROVE Calls(r, Ours', paired')
        BY <2>1, <2>4, CleanOwn DEF Touchers, Does
      <3>3. want[1] \in paired
        BY <2>2, <3>2 DEF Calls
      <3> QED
        BY <2>1, <2>2, <3>1, <3>2, <3>3 DEF Calls
    <2>5. CASE task[t].op \in Creators
      <3>1. Ours' = Ours
        <4>1. want[2] \notin Types
          BY <2>3, <2>5, ConstantsAssumption DEF Creators
        <4> QED
          BY <2>2, <2>3, <4>1, OursOfCreate
      <3> QED
        BY <2>1, <2>5, <3>1, CleanAside DEF Touchers, Creators
    <2> QED
      BY <2>3, <2>4, <2>5
  <1>4. CASE Delete(t)
    <2>1. PICK r : \E s \in task[t].delete :
             /\ Goes(t, r) /\ r.op = task[t].op /\ r.pc = "calls" /\ r.b = task[t].b /\ r.keep = task[t].keep
             /\ r.create = {} /\ r.delete = task[t].delete \ {s} /\ s \in Remembered(task[t])
             /\ task[t].pc = "calls" /\ task[t].create = {}
             /\ DeleteEventSubSubscription(s) /\ UNCHANGED <<paired, booted, failures, clean>>
      BY <1>4, DeleteIs
    <2>2. PICK s \in task[t].delete : /\ r.delete = task[t].delete \ {s} /\ s \in Remembered(task[t])
                                      /\ DeleteEventSubSubscription(s)
      BY <2>1
    <2>3. /\ task[t].op \in Touchers
          /\ task[t].op = "banish" => s.b = task[t].b
          /\ task[t].op = "prune" => s.b \notin task[t].keep
      BY <2>1, <2>2, TaskTyped DEF Typed, Shape, Creators, Repairing, Touchers
    <2>4. SUFFICES ASSUME Does(task[t], Ours, paired) PROVE Does(r, Ours', paired')
      BY <2>1, <2>3, CleanOwn
    <2>5. s.b \notin paired
      BY <2>1, <2>2, <2>3, <2>4 DEF Does, Calls, Touchers
    <2>6. /\ Ours' \subseteq Ours /\ s \notin Ours'
          /\ \A p \in paired \X Types : p \in On(Ours) => p \in On(Ours')
      BY <2>2, <2>5, OursOfDelete
    <2>7. Whole(Ours, paired) => Whole(Ours', paired')
      BY <2>1, <2>6 DEF Whole
    <2>8. CASE task[t].op = "overlay"
      <3>1. Calls(task[t], Ours, paired)
        BY <2>1, <2>4, <2>8 DEF Does
      <3>2. Calls(r, Ours', paired')
        BY <2>1, <2>2, <2>6, <3>1 DEF Calls
      <3> QED
        BY <2>1, <2>8, <3>2 DEF Does
    <2>9. CASE task[t].op # "overlay"
      BY <2>1, <2>4, <2>7, <2>9 DEF Does
    <2> QED
      BY <2>8, <2>9
  <1>5. CASE Finish(t)
    <2>1. /\ Goes(t, Done) /\ task[t].pc = "calls" /\ task[t].op # "banish"
          /\ task[t].delete = {} /\ task[t].create = {} /\ UNCHANGED <<paired, subs, booted, failures, clean>>
      BY <1>5, EndIs DEF Finish
    <2>2. Ours' = Ours /\ Done.pc = "done" /\ Done.op = "overlay"
      BY <2>1 DEF Ours, IsOverlaySub, Done
    <2>3. CASE task[t].op \in Touchers
      <3>1. Does(task[t], Ours, paired) => Whole(Ours', paired')
        BY <2>1, <2>2, <2>3 DEF Does, Calls, Whole, Touchers
      <3> QED
        BY <2>1, <2>2, <2>3, <3>1, CleanOwn DEF Touchers
    <2>4. CASE task[t].op \notin Touchers
      BY <2>1, <2>2, <2>4, CleanAside
    <2> QED
      BY <2>3, <2>4
  <1> QED
    BY <1>1, <1>2, <1>3, <1>4, <1>5 DEF TaskStep

LEMMA CleanOfBotTask ==
  ASSUME Based, CleanKnow, NEW t \in Tasks, BotTask(t)
  PROVE  CleanKnow'
  <1> USE DEF Based
  <1>0. subs' = subs => Ours' = Ours
    BY DEF Ours, IsOverlaySub
  <1>1. ASSUME NEW r, Goes(t, r), Unfolds(r, task[t]), task[t].op \in Ops, task[t].pc # "done", r.pc # "done",
               Ours' = Ours, UNCHANGED <<paired, booted, clean>>
        PROVE  CleanKnow'
    <2>1. r.op = task[t].op /\ r.b = task[t].b /\ r.keep = task[t].keep /\ task[t].op # "overlay"
      BY <1>1 DEF Unfolds, Ops
    <2>2. CASE task[t].op \in Touchers
      <3>1. Does(task[t], Ours, paired) => Does(r, Ours', paired')
        BY <1>1, <2>1 DEF Does
      <3> QED
        BY <1>1, <2>1, <2>2, <3>1, CleanOwn
    <2>3. CASE task[t].op \notin Touchers
      BY <1>1, <2>1, <2>3, CleanAside
    <2> QED
      BY <2>2, <2>3
  <1>2. task[t].op \in Ops \/ task[t].op = "overlay"
    BY DEF Shapes, TaskRecs
  <1>3. CASE ListBotSubs(t)
    <2>1. PICK r : /\ Goes(t, r) /\ Unfolds(r, task[t]) /\ task[t].pc = "botlist" /\ r.pc \in {"calls", "repair"}
                   /\ UNCHANGED <<paired, subs, booted, failures, clean, botVars, left, expect, settled>>
      BY <1>3, ListBotIs
    <2>2. task[t].op \in Ops
      BY <2>1, TaskTyped DEF Ops, Repairing
    <2> QED
      BY <1>0, <1>1, <2>1, <2>2
  <1>4. CASE Repair(t)
    <2>1. PICK r : \E p \in task[t].todo :
           /\ Goes(t, r) /\ Unfolds(r, task[t]) /\ task[t].pc = "repair" /\ r.pc = "repair"
           /\ Remembered(task[t]) = UNION {q.delete : q \in task[t].todo}
           /\ UNCHANGED <<paired, booted, failures, clean, botVars, left, expect, settled>>
           /\ \/ \E s \in p.delete : DeleteEventSubSubscription(s)
              \/ AttemptNewSubscription(p.pair, FreshIds)
      BY <1>4, RepairIs
    <2>2. PICK p \in task[t].todo : \/ \E s \in p.delete : DeleteEventSubSubscription(s)
                                    \/ AttemptNewSubscription(p.pair, FreshIds)
      BY <2>1
    <2>3. /\ task[t].op \in Repairing /\ p.pair \in Broadcasters \X Required
          /\ p.pair[2] \notin Types /\ \A s \in p.delete : Pair(s) = p.pair
      <3>1. task[t].op \in Repairing
        BY <2>1, TaskTyped
      <3>2. p.pair \in Broadcasters \X Required
        BY DEF Shapes, TaskRecs, Plans
      <3>3. \A s \in p.delete : Pair(s) = p.pair
        BY <3>1, TaskTyped DEF Typed, Shape, Creators, Repairing
      <3> QED
        BY <3>1, <3>2, <3>3, ConstantsAssumption
    <2>4. Ours' = Ours
      <3>1. CASE \E s \in p.delete : DeleteEventSubSubscription(s)
        <4>1. PICK s \in p.delete : DeleteEventSubSubscription(s)
          BY <3>1
        <4>2. s \in Remembered(task[t]) /\ s.type \notin Types
          BY <2>1, <2>3 DEF Pair
        <4> QED
          BY <4>1, <4>2, OursOfDelete
      <3>2. CASE AttemptNewSubscription(p.pair, FreshIds)
        BY <2>3, <3>2, OursOfCreate
      <3> QED
        BY <2>2, <3>1, <3>2
    <2>5. task[t].op \in Ops
      BY <2>3 DEF Ops, Repairing
    <2> QED
      BY <1>1, <2>1, <2>4, <2>5
  <1>5. CASE RepairFails(t)
    <2>1. PICK r : /\ Goes(t, r)
                   /\ \/ /\ Unfolds(r, task[t]) /\ task[t].op \in Ops
                         /\ r.pc # "done" /\ task[t].pc # "done"
                      \/ r.op = "overlay" /\ r.pc = "done" /\ task[t].op = "banish" /\ task[t].pc = "calls"
      BY <1>5, RepairFailsIs
    <2>2. UNCHANGED <<paired, booted, clean>> /\ Ours' = Ours
      BY <1>0, <1>5, RepairFailsIs
    <2>3. CASE /\ Unfolds(r, task[t]) /\ task[t].op \in Ops
               /\ r.pc # "done" /\ task[t].pc # "done"
      BY <1>1, <2>1, <2>2, <2>3
    <2>4. CASE r.op = "overlay" /\ r.pc = "done" /\ task[t].op = "banish" /\ task[t].pc = "calls"
      <3>1. Does(task[t], Ours, paired) => Whole(Ours', paired')
        BY <2>2, <2>4 DEF Does
      <3> QED
        BY <2>1, <2>2, <2>4, <3>1, CleanOwn DEF Touchers
    <2> QED
      BY <2>1, <2>3, <2>4
  <1>6. CASE RepairDone(t)
    <2>1. Goes(t, Done) /\ task[t].op \in Repairing /\ UNCHANGED <<paired, subs, booted, failures, clean>>
      BY <1>6, EndIs, TaskTyped DEF RepairDone
    <2>2. Done.pc = "done"
      BY DEF Done
    <2> QED
      BY <1>0, <2>1, <2>2, CleanAside DEF Repairing, Touchers
  <1>7. CASE OptOut(t)
    <2>1. Goes(t, Done) /\ task[t].op = "banish" /\ task[t].pc = "calls" /\ UNCHANGED <<paired, subs, booted, failures, clean>>
      BY <1>7, EndIs DEF OptOut
    <2>2. Done.pc = "done" /\ Done.op = "overlay"
      BY DEF Done
    <2>3. Does(task[t], Ours, paired) => Whole(Ours', paired')
      BY <1>0, <2>1 DEF Does
    <2> QED
      BY <1>0, <2>1, <2>2, <2>3, CleanOwn DEF Touchers
  <1> QED
    BY <1>3, <1>4, <1>5, <1>6, <1>7 DEF BotTask

LEMMA CleanSame ==
  ASSUME CleanKnow, task' = task, Ours' = Ours, paired' = paired, booted' /\ clean' => booted /\ clean
  PROVE  CleanKnow'
  <1>1. Clean(task, Ours, paired) => Clean(task', Ours', paired')
    OBVIOUS
  <1> QED
    BY <1>1, CleanNow, CleanThen

LEMMA CleanStep ==
  ASSUME Based, CleanKnow, [Next]_allVars
  PROVE  CleanKnow'
  <1> USE DEF Based
  <1>1. CASE UNCHANGED allVars
    <2>1. Ours' = Ours
      BY <1>1 DEF Ours, IsOverlaySub, allVars, vars
    <2> QED
      BY <1>1, <2>1, CleanSame DEF allVars, vars
  <1>2. ASSUME NEW t \in Tasks, CallFails(t) PROVE CleanKnow'
    BY <1>2 DEF CallFails, CleanKnow
  <1>3. ASSUME NEW s \in subs, Disabled(s) PROVE CleanKnow'
    <2> DEFINE off == [s EXCEPT !.on = FALSE]
    <2>1. /\ subs' = (subs \ {s}) \cup {off} /\ task' = task /\ paired' = paired /\ booted' = booted
          /\ clean' = (clean /\ ~IsOverlaySub(s))
      BY <1>3 DEF Disabled
    <2>2. off.type = s.type
      BY DEF Shapes, SubRecs
    <2> HIDE DEF off
    <2>3. clean' => Ours' = Ours
      BY <2>1, <2>2 DEF Ours, IsOverlaySub
    <2>4. CASE clean'
      BY <2>1, <2>3, <2>4, CleanSame
    <2>5. CASE ~clean'
      BY <2>5 DEF CleanKnow
    <2> QED
      BY <2>4, <2>5
  <1>4. CASE Restart
    BY <1>4 DEF Restart, CleanKnow
  <1> QED
    BY <1>1, <1>2, <1>3, <1>4, CleanOfTaskStep, CleanOfBotTask, CleanOfRequest, CleanOfBotRequest, NextIs

LEMMA CleanSays ==
  ASSUME CleanKnow, Quiet, clean
  PROVE  Converged /\ \A s \in Ours : s.b \in paired
  <1>1. Touched(task) = {}
    BY DEF Quiet, Running, Touched
  <1>2. Whole(Ours, paired)
    BY <1>1, CleanNow DEF Quiet, Clean
  <1>3. On(Ours) \subseteq paired \X Types
    BY <1>2 DEF On, Whole, Ours, IsOverlaySub
  <1> QED
    BY <1>2, <1>3 DEF Converged, Whole

-----------------------------------------------------------------------------
(* The bot's: a settled broadcaster's are as asked, or about to be.        *)

\* The strengthenings of SubscriptionRepair over a list and a set of pairs asked for.
HaveIn(list, p) == {s \in list : Pair(s) = p}
AskedIn(b, more, list, ask) ==
  \A type \in Required :
    IF HaveIn(list, <<b, type>>) = {} THEN <<b, type>> \in ask <=> <<b, type>> \in more
                                      ELSE One(HaveIn(list, <<b, type>>)) /\ <<b, type>> \in ask
MendsIn(r, p, list) ==
  /\ (\A q \in r.todo : q.pair # p) => One(HaveIn(list, p))
  /\ \A q \in r.todo : q.pair = p =>
       /\ q.delete \subseteq HaveIn(list, p)
       /\ q.make => HaveIn(list, p) = q.delete
       /\ ~q.make => One(HaveIn(list, p) \ q.delete)
EmptiedIn(r, b, list, ask) ==
  \A type \in Required : <<b, type>> \notin ask /\ (r.pc = "calls" => HaveIn(list, <<b, type>>) \subseteq r.delete)
SettlesIn(r, b, list, ask) ==
  /\ r.op = "banish" => IF r.b = b THEN EmptiedIn(r, b, list, ask) ELSE AskedIn(b, {}, list, ask)
  /\ r.op = "prune" => IF b \notin r.keep THEN EmptiedIn(r, b, list, ask) ELSE AskedIn(b, {}, list, ask)
  /\ r.op \in Repairing =>
       /\ r.pc \in {"botlist", "repair"}
       /\ IF b \in r.keep
          THEN \A type \in Required : <<b, type>> \in ask /\ (r.pc = "repair" => MendsIn(r, <<b, type>>, list))
          ELSE AskedIn(b, {}, list, ask)
  /\ r.op \in Creators => AskedIn(b, r.create, list, ask)
BotsIn(tasks) == {t \in Tasks : tasks[t].pc # "done" /\ tasks[t].op # "overlay"}
SettledIn(tasks, set, list, ask) ==
  \/ set = {}
  \/ BotsIn(tasks) = {} /\ \A b \in set : AskedIn(b, {}, list, ask)
  \/ \E t \in Tasks : BotsIn(tasks) = {t} /\ \A b \in set : SettlesIn(tasks[t], b, list, ask)

LEMMA OpIs ==
  ASSUME NEW r \in TaskRecs
  PROVE  r.op # "overlay" /\ Shape(r) => r.op \in {"banish", "prune"} \cup Repairing \cup Creators
  BY DEF Shape

LEMMA AskedInIs ==
  ASSUME NEW b, NEW more
  PROVE  AskedIn(b, more, BotSubs, expect) <=> AsAsked(b, more)
  <1>1. \A p : HaveIn(BotSubs, p) = Have(p)
    BY DEF HaveIn, Have
  <1> QED
    BY <1>1 DEF AskedIn, AsAsked

LEMMA SettlesInIs ==
  ASSUME NEW r, NEW b, r.op \in {"banish", "prune"} \cup Repairing \cup Creators
  PROVE  SettlesIn(r, b, BotSubs, expect) <=> Settles(r, b)
  <1>1. \A p : HaveIn(BotSubs, p) = Have(p)
    BY DEF HaveIn, Have
  <1>2. \A more : AskedIn(b, more, BotSubs, expect) <=> AsAsked(b, more)
    BY AskedInIs
  <1>3. EmptiedIn(r, b, BotSubs, expect) <=> Emptied(r, b)
    BY <1>1 DEF EmptiedIn, Emptied
  <1>4. \A p : MendsIn(r, p, BotSubs) <=> Mends(r, p)
    BY <1>1 DEF MendsIn, Mends
  <1>5. CASE r.op = "banish"
    BY <1>2, <1>3, <1>5 DEF SettlesIn, Settles, Repairing, Creators
  <1>6. CASE r.op = "prune"
    BY <1>2, <1>3, <1>6 DEF SettlesIn, Settles, Repairing, Creators
  <1>7. CASE r.op \in Repairing
    BY <1>2, <1>4, <1>7 DEF SettlesIn, Settles, Repairing, Creators
  <1>8. CASE r.op \in Creators
    BY <1>2, <1>8 DEF SettlesIn, Settles, Repairing, Creators
  <1> QED
    BY <1>5, <1>6, <1>7, <1>8

LEMMA SettledNow == ASSUME Shapes, SettledKnow PROVE SettledIn(task, settled, BotSubs, expect)
  <1>1. BotRunning = BotsIn(task)
    BY DEF BotRunning, BotsIn, Running
  <1>2. ASSUME NEW t \in Tasks, t \in BotsIn(task)
        PROVE  task[t].op \in {"banish", "prune"} \cup Repairing \cup Creators
    BY <1>2, OpIs, TaskTyped DEF BotsIn, Typed
  <1>3. CASE \E t \in Tasks : BotRunning = {t} /\ \A b \in settled : Settles(task[t], b)
    BY <1>1, <1>2, <1>3, SettlesInIs DEF SettledIn
  <1>4. CASE BotRunning = {} /\ \A b \in settled : AsAsked(b, {})
    BY <1>1, <1>4, AskedInIs DEF SettledIn
  <1> QED
    BY <1>3, <1>4 DEF SettledKnow, SettledIn

LEMMA SettledThen ==
  ASSUME \A t \in Tasks : task'[t] \in TaskRecs /\ Shape(task'[t]),
         SettledIn(task', settled', BotSubs', expect')
  PROVE  SettledKnow'
  <1>1. BotRunning' = BotsIn(task')
    BY DEF BotRunning, BotsIn, Running
  <1>2. ASSUME NEW t \in Tasks, t \in BotsIn(task')
        PROVE  task'[t].op \in {"banish", "prune"} \cup Repairing \cup Creators
    BY <1>2, OpIs DEF BotsIn
  <1>3. \A p : HaveIn(BotSubs', p) = Have(p)'
    BY DEF HaveIn, Have, Pair, BotSubs
  <1>4. \A b, more : AskedIn(b, more, BotSubs', expect') => AsAsked(b, more)'
    BY <1>3 DEF AskedIn, AsAsked, One
  <1>5. ASSUME NEW t \in Tasks, t \in BotsIn(task'), NEW b, SettlesIn(task'[t], b, BotSubs', expect')
        PROVE  Settles(task[t], b)'
    <2>0. task'[t].op \in {"banish", "prune"} \cup Repairing \cup Creators
      BY <1>2, <1>5
    <2>1. EmptiedIn(task'[t], b, BotSubs', expect') => Emptied(task[t], b)'
      BY <1>3 DEF EmptiedIn, Emptied
    <2>2. \A p : MendsIn(task'[t], p, BotSubs') => Mends(task[t], p)'
      BY <1>3 DEF MendsIn, Mends, One
    <2>3. CASE task'[t].op = "banish"
      BY <1>4, <1>5, <2>1, <2>3 DEF SettlesIn, Settles, Repairing, Creators
    <2>4. CASE task'[t].op = "prune"
      BY <1>4, <1>5, <2>1, <2>4 DEF SettlesIn, Settles, Repairing, Creators
    <2>5. CASE task'[t].op \in Repairing
      BY <1>4, <1>5, <2>2, <2>5 DEF SettlesIn, Settles, Repairing, Creators
    <2>6. CASE task'[t].op \in Creators
      BY <1>4, <1>5, <2>6 DEF SettlesIn, Settles, Repairing, Creators
    <2> QED
      BY <2>0, <2>3, <2>4, <2>5, <2>6
  <1>6. CASE BotsIn(task') = {} /\ \A b \in settled' : AskedIn(b, {}, BotSubs', expect')
    BY <1>1, <1>4, <1>6 DEF SettledKnow
  <1>7. CASE \E t \in Tasks : BotsIn(task') = {t} /\ \A b \in settled' : SettlesIn(task'[t], b, BotSubs', expect')
    BY <1>1, <1>5, <1>7 DEF SettledKnow
  <1> QED
    BY <1>6, <1>7 DEF SettledIn, SettledKnow

LEMMA SettledEnds ==
  ASSUME \A t \in Tasks : task'[t] \in TaskRecs /\ Shape(task'[t]), settled' = {}
  PROVE  SettledKnow'
  BY SettledThen DEF SettledIn

\* A step of a task that is not the bot's leaves the bot's.
LEMMA SettledAside ==
  ASSUME Shapes, SettledKnow, NEW t \in Tasks, NEW r, Goes(t, r),
         task[t].pc = "done" \/ task[t].op = "overlay", r.pc = "done" \/ r.op = "overlay",
         BotSubs' = BotSubs, expect' = expect, settled' = settled
  PROVE  SettledKnow'
  <1>1. task'[t] = r /\ \A u \in Tasks \ {t} : task'[u] = task[u]
    BY TurnIs DEF Goes
  <1>2. BotsIn(task') = BotsIn(task) /\ t \notin BotsIn(task)
    BY <1>1 DEF BotsIn
  <1>3. SettledIn(task, settled, BotSubs, expect)
    BY SettledNow
  <1>4. SettledIn(task', settled', BotSubs', expect')
    <2>1. ASSUME NEW u \in Tasks, BotsIn(task) = {u} PROVE task'[u] = task[u]
      BY <1>1, <1>2, <2>1
    <2> QED
      BY <1>2, <1>3, <2>1 DEF SettledIn
  <1>5. \A u \in Tasks : task'[u] \in TaskRecs /\ Shape(task'[u])
    BY TurnTyped
  <1> QED
    BY <1>4, <1>5, SettledThen

\* A bot task begins.
LEMMA SettledStart ==
  ASSUME Shapes, SettledKnow, NEW t \in Tasks, NEW r, NEW leaves, Begins(t, r, leaves), r.pc # "done",
         ASSUME BotRunning = {}, \A b \in settled : AskedIn(b, {}, BotSubs, expect)
         PROVE  \A b \in settled \cup leaves : SettlesIn(r, b, BotSubs, expect')
  PROVE  SettledKnow'
  <1>1. Goes(t, r) /\ r.op # "overlay" /\ task[t].pc = "done"
    BY DEF Begins, Goes, Ops
  <1>2. task'[t] = r /\ \A u \in Tasks \ {t} : task'[u] = task[u]
    BY <1>1, TurnIs DEF Goes
  <1>3. \A u \in Tasks : task'[u] \in TaskRecs /\ Shape(task'[u])
    BY <1>1, TurnTyped
  <1>4. CASE BotRunning # {}
    BY <1>3, <1>4, SettledEnds DEF Begins
  <1>5. CASE BotRunning = {}
    <2>1. settled' = settled \cup leaves /\ BotSubs' = BotSubs
      BY <1>5 DEF Begins, BotSubs
    <2>2. BotsIn(task) = {}
      BY <1>5 DEF BotsIn, BotRunning, Running
    <2>3. BotsIn(task') = {t}
      BY <1>1, <1>2, <2>2 DEF BotsIn
    <2>4. \A b \in settled : AskedIn(b, {}, BotSubs, expect)
      BY <2>2, SettledNow DEF SettledIn
    <2>5. \A b \in settled' : SettlesIn(task'[t], b, BotSubs', expect')
      BY <1>2, <1>5, <2>1, <2>4
    <2> QED
      BY <1>3, <2>3, <2>5, SettledThen DEF SettledIn
  <1> QED
    BY <1>4, <1>5

\* A bot task goes on, or ends.
LEMMA SettledOwn ==
  ASSUME Shapes, SettledKnow, NEW t \in Tasks, NEW r, Goes(t, r), task[t].pc # "done", task[t].op # "overlay",
         expect' = expect, settled' = settled, r.pc # "done" => r.op # "overlay",
         ASSUME NEW b \in settled, SettlesIn(task[t], b, BotSubs, expect)
         PROVE  IF r.pc = "done" THEN AskedIn(b, {}, BotSubs', expect) ELSE SettlesIn(r, b, BotSubs', expect)
  PROVE  SettledKnow'
  <1>1. task'[t] = r /\ \A u \in Tasks \ {t} : task'[u] = task[u]
    BY TurnIs DEF Goes
  <1>2. \A u \in Tasks : task'[u] \in TaskRecs /\ Shape(task'[u])
    BY TurnTyped
  <1>3. SettledIn(task, settled, BotSubs, expect) /\ t \in BotsIn(task)
    BY SettledNow DEF BotsIn
  <1>4. CASE settled = {}
    BY <1>2, <1>4, SettledEnds
  <1>5. CASE settled # {}
    <2>1. BotsIn(task) = {t} /\ \A b \in settled : SettlesIn(task[t], b, BotSubs, expect)
      BY <1>3, <1>5 DEF SettledIn
    <2>2. BotsIn(task') = IF r.pc = "done" THEN {} ELSE {t}
      <3>1. BotsIn(task') \subseteq {t} /\ (t \in BotsIn(task') <=> r.pc # "done")
        BY <1>1, <2>1 DEF BotsIn
      <3> QED
        BY <3>1
    <2>3. \A b \in settled : IF r.pc = "done" THEN AskedIn(b, {}, BotSubs', expect) ELSE SettlesIn(r, b, BotSubs', expect)
      BY <2>1
    <2>4. SettledIn(task', settled', BotSubs', expect')
      BY <1>1, <2>2, <2>3 DEF SettledIn
    <2> QED
      BY <1>2, <2>4, SettledThen
  <1> QED
    BY <1>4, <1>5

\* Whose subscriptions of the bot a create or a delete changes.
LEMMA BotOfCreate ==
  ASSUME NEW want \in Broadcasters \X (Types \cup Required), AttemptNewSubscription(want, FreshIds)
  PROVE  /\ want[2] \notin Required => BotSubs' = BotSubs
         /\ \A p : p # want => HaveIn(BotSubs', p) = HaveIn(BotSubs, p)
         /\ want[2] \in Required =>
              \/ BotSubs' = BotSubs /\ \E s \in HaveIn(BotSubs, want) : s.on
              \/ /\ \A s \in HaveIn(BotSubs, want) : ~s.on
                 /\ \E n : n.on /\ HaveIn(BotSubs', want) = HaveIn(BotSubs, want) \cup {n}
  <1>1. CASE want \in On(subs) /\ subs' = subs
    <2>1. BotSubs' = BotSubs
      BY <1>1 DEF BotSubs
    <2>2. want[2] \in Required => \E s \in HaveIn(BotSubs, want) : s.on
      BY <1>1 DEF On, BotSubs, HaveIn, Pair
    <2> QED
      BY <2>1, <2>2
  <1>2. CASE want \notin On(subs) /\ \E n \in SubRecs : subs' = subs \cup {n} /\ n.on = TRUE /\ Pair(n) = want
    <2>1. PICK n \in SubRecs : subs' = subs \cup {n} /\ n.on = TRUE /\ Pair(n) = want
      BY <1>2
    <2>2. n.b = want[1] /\ n.type = want[2]
      BY <2>1 DEF Pair
    <2>3. BotSubs' = IF want[2] \in Required THEN BotSubs \cup {n} ELSE BotSubs
      BY <2>1, <2>2 DEF BotSubs
    <2>4. \A p : p # want => HaveIn(BotSubs', p) = HaveIn(BotSubs, p)
      BY <2>1, <2>3 DEF HaveIn
    <2>5. \A s \in HaveIn(BotSubs, want) : ~s.on
      BY <1>2 DEF On, BotSubs, HaveIn, Pair
    <2>6. want[2] \in Required => HaveIn(BotSubs', want) = HaveIn(BotSubs, want) \cup {n}
      BY <2>1, <2>3 DEF HaveIn
    <2> QED
      BY <2>1, <2>3, <2>4, <2>5, <2>6
  <1> QED
    BY <1>1, <1>2, AttemptIs

LEMMA BotOfDelete ==
  ASSUME Based, NEW t \in Tasks, NEW s \in Remembered(task[t]), DeleteEventSubSubscription(s)
  PROVE  /\ s.type \notin Required => BotSubs' = BotSubs
         /\ \A p : p # Pair(s) => HaveIn(BotSubs', p) = HaveIn(BotSubs, p)
         /\ \A p : HaveIn(BotSubs', p) \subseteq HaveIn(BotSubs, p) \ {s}
         /\ \A p : s \in subs => HaveIn(BotSubs', p) = HaveIn(BotSubs, p) \ {s}
  <1>1. \A o \in subs : o \in subs' <=> o.id # s.id
    BY DeletesOne
  <1>2. subs' \subseteq subs
    BY DeletesOne DEF Less
  <1>3. \A o \in subs : o.id = s.id => Pair(o) = Pair(s) /\ o.type = s.type
    BY DEF Based, IdsKnow, Pair
  <1>4. \A o \in subs : o.id = s.id /\ s \in subs => o = s
    BY DEF Based, IdsKnow
  <1>5. BotSubs' \subseteq BotSubs \ {s}
    BY <1>1, <1>2 DEF BotSubs
  <1>6. s.type \notin Required => BotSubs' = BotSubs
    BY <1>1, <1>2, <1>3 DEF BotSubs
  <1>7. \A o \in BotSubs : Pair(o) # Pair(s) => o \in BotSubs'
    BY <1>1, <1>3 DEF BotSubs
  <1>8. \A p : p # Pair(s) => HaveIn(BotSubs', p) = HaveIn(BotSubs, p)
    BY <1>5, <1>7 DEF HaveIn
  <1>9. s \in subs => BotSubs' = BotSubs \ {s}
    BY <1>1, <1>2, <1>4 DEF BotSubs
  <1>10. \A p : HaveIn(BotSubs', p) \subseteq HaveIn(BotSubs, p) \ {s}
    BY <1>5 DEF HaveIn
  <1>11. s \in subs => \A p : HaveIn(BotSubs', p) = HaveIn(BotSubs, p) \ {s}
    BY <1>9 DEF HaveIn
  <1> QED
    BY <1>6, <1>8, <1>10, <1>11

\* Asked for as before, where neither the list nor what is asked changes.
LEMMA AskedSame ==
  ASSUME NEW b, NEW more, NEW list, NEW ask, AskedIn(b, more, list, ask), NEW more2, NEW list2, NEW ask2,
         \A type \in Required : /\ HaveIn(list2, <<b, type>>) = HaveIn(list, <<b, type>>)
                                /\ <<b, type>> \in ask2 <=> <<b, type>> \in ask
                                /\ <<b, type>> \in more2 <=> <<b, type>> \in more
  PROVE  AskedIn(b, more2, list2, ask2)
  BY DEF AskedIn

LEMMA SettledOfRequest ==
  ASSUME Shapes, SettledKnow, NEW t \in Tasks, BotRequest(t)
  PROVE  SettledKnow'
  <1>1. CASE Creates(t)
    <2>1. PICK r : \E more : /\ Begins(t, r, {}) /\ r.op \in Creators /\ r.pc = "calls" /\ r.create = more
                             /\ more \subseteq Broadcasters \X Required /\ expect' = expect \cup more
      BY <1>1 DEF Creates
    <2>2. expect' = expect \cup r.create
      BY <2>1
    <2>3. ASSUME \A b \in settled : AskedIn(b, {}, BotSubs, expect), NEW b \in settled \cup {}
          PROVE  SettlesIn(r, b, BotSubs, expect')
      <3>1. AskedIn(b, {}, BotSubs, expect)
        BY <2>3
      <3>2. AskedIn(b, r.create, BotSubs, expect')
        BY <2>2, <3>1 DEF AskedIn
      <3> QED
        BY <2>1, <3>2 DEF SettlesIn, Creators, Repairing
    <2> QED
      BY <2>1, <2>3, SettledStart
  <1>2. CASE Banishes(t)
    <2>1. PICK r : \E b \in Broadcasters :
            /\ Begins(t, r, {b}) /\ r.op = "banish" /\ r.b = b /\ r.pc = "botlist"
            /\ expect' = {p \in expect : p[1] # b}
      BY <1>2 DEF Banishes
    <2>2. Begins(t, r, {r.b}) /\ expect' = {p \in expect : p[1] # r.b}
      BY <2>1
    <2>3. ASSUME \A b \in settled : AskedIn(b, {}, BotSubs, expect), NEW b \in settled \cup {r.b}
          PROVE  SettlesIn(r, b, BotSubs, expect')
      <3>1. CASE b = r.b
        <4>1. EmptiedIn(r, b, BotSubs, expect')
          BY <2>1, <2>2, <3>1 DEF EmptiedIn
        <4> QED
          BY <2>1, <3>1, <4>1 DEF SettlesIn, Creators, Repairing
      <3>2. CASE b # r.b
        <4>1. AskedIn(b, {}, BotSubs, expect)
          BY <2>3, <3>2
        <4>2. AskedIn(b, {}, BotSubs, expect')
          BY <2>2, <3>2, <4>1, AskedSame
        <4> QED
          BY <2>1, <3>2, <4>2 DEF SettlesIn, Creators, Repairing
      <3> QED
        BY <3>1, <3>2
    <2> QED
      BY <2>1, <2>2, <2>3, SettledStart
  <1>3. CASE Prunes(t)
    <2>1. PICK r : /\ Begins(t, r, Broadcasters \ optIn) /\ r.op = "prune" /\ r.keep = optIn /\ r.pc = "botlist"
                   /\ expect' = {p \in expect : p[1] \in optIn}
      BY <1>3 DEF Prunes
    <2>2. ASSUME \A b \in settled : AskedIn(b, {}, BotSubs, expect), NEW b \in settled \cup (Broadcasters \ optIn)
          PROVE  SettlesIn(r, b, BotSubs, expect')
      <3>1. CASE b \notin r.keep
        <4>1. EmptiedIn(r, b, BotSubs, expect')
          BY <2>1, <3>1 DEF EmptiedIn
        <4> QED
          BY <2>1, <3>1, <4>1 DEF SettlesIn, Creators, Repairing
      <3>2. CASE b \in r.keep
        <4>1. AskedIn(b, {}, BotSubs, expect)
          BY <2>1, <2>2, <3>2
        <4>2. AskedIn(b, {}, BotSubs, expect')
          BY <2>1, <3>2, <4>1, AskedSame
        <4> QED
          BY <2>1, <3>2, <4>2 DEF SettlesIn, Creators, Repairing
      <3> QED
        BY <3>1, <3>2
    <2> QED
      BY <2>1, <2>2, SettledStart
  <1>4. CASE Audits(t)
    <2>1. PICK r : /\ Begins(t, r, optIn) /\ r.op \in Repairing /\ r.keep = optIn /\ r.pc = "botlist"
                   /\ expect' = expect \cup (optIn \X Required)
      BY <1>4 DEF Audits
    <2>2. ASSUME \A b \in settled : AskedIn(b, {}, BotSubs, expect), NEW b \in settled \cup optIn
          PROVE  SettlesIn(r, b, BotSubs, expect')
      <3>1. CASE b \in r.keep
        BY <2>1, <3>1 DEF SettlesIn, Creators, Repairing
      <3>2. CASE b \notin r.keep
        <4>1. AskedIn(b, {}, BotSubs, expect)
          BY <2>1, <2>2, <3>2
        <4>2. AskedIn(b, {}, BotSubs, expect')
          BY <2>1, <3>2, <4>1, AskedSame
        <4> QED
          BY <2>1, <3>2, <4>2 DEF SettlesIn, Creators, Repairing
      <3> QED
        BY <3>1, <3>2
    <2> QED
      BY <2>1, <2>2, SettledStart
  <1> QED
    BY <1>1, <1>2, <1>3, <1>4, RequestIs

\* A create of one of the operations that only create.
LEMMA SettledOfCreate ==
  ASSUME Based, SettledKnow, NEW t \in Tasks, Create(t), Bystanders
  PROVE  SettledKnow'
  <1> USE DEF Based
  <1>1. PICK r : \E want \in task[t].create :
             /\ Goes(t, r) /\ r.op = task[t].op /\ r.pc = "calls"
             /\ r.create = task[t].create \ {want} /\ task[t].pc = "calls"
             /\ AttemptNewSubscription(want, FreshIds)
    BY CreateIs
  <1>2. PICK want \in task[t].create : r.create = task[t].create \ {want} /\ AttemptNewSubscription(want, FreshIds)
    BY <1>1
  <1>3. /\ want \in Broadcasters \X (Types \cup Required)
        /\ \/ task[t].op = "overlay" /\ want[2] \in Types
           \/ task[t].op \in Creators /\ want[2] \in Required
    BY <1>1, <1>2, TaskTyped DEF Typed, Shape, Creators, Repairing
  <1>4. expect' = expect /\ settled' = settled
    BY DEF Bystanders
  <1>5. CASE task[t].op = "overlay"
    <2>1. want[2] \notin Required
      BY <1>3, <1>5, ConstantsAssumption DEF Creators
    <2>2. BotSubs' = BotSubs
      BY <1>2, <1>3, <2>1, BotOfCreate
    <2> QED
      BY <1>1, <1>4, <1>5, <2>2, SettledAside
  <1>6. CASE task[t].op \in Creators
    <2>1. want[2] \in Required
      BY <1>3, <1>6 DEF Creators
    <2>2. /\ \A p : p # want => HaveIn(BotSubs', p) = HaveIn(BotSubs, p)
          /\ \/ BotSubs' = BotSubs /\ \E s \in HaveIn(BotSubs, want) : s.on
             \/ /\ \A s \in HaveIn(BotSubs, want) : ~s.on
                /\ \E n : n.on /\ HaveIn(BotSubs', want) = HaveIn(BotSubs, want) \cup {n}
      BY <1>2, <1>3, <2>1, BotOfCreate
    <2>3. ASSUME NEW b, SettlesIn(task[t], b, BotSubs, expect) PROVE SettlesIn(r, b, BotSubs', expect)
      <3>1. AskedIn(b, task[t].create, BotSubs, expect)
        BY <1>6, <2>3 DEF SettlesIn
      <3>2. ASSUME NEW type \in Required
            PROVE  IF HaveIn(BotSubs', <<b, type>>) = {} THEN <<b, type>> \in expect <=> <<b, type>> \in r.create
                                      ELSE One(HaveIn(BotSubs', <<b, type>>)) /\ <<b, type>> \in expect
        <4>0. IF HaveIn(BotSubs, <<b, type>>) = {} THEN <<b, type>> \in expect <=> <<b, type>> \in task[t].create
                                      ELSE One(HaveIn(BotSubs, <<b, type>>)) /\ <<b, type>> \in expect
          BY <3>1 DEF AskedIn
        <4>1. CASE <<b, type>> # want
          BY <1>2, <2>2, <4>0, <4>1
        <4>2. CASE <<b, type>> = want /\ BotSubs' = BotSubs /\ \E s \in HaveIn(BotSubs, want) : s.on
          BY <4>0, <4>2
        <4>3. CASE /\ <<b, type>> = want /\ \A s \in HaveIn(BotSubs, want) : ~s.on
                   /\ \E n : n.on /\ HaveIn(BotSubs', want) = HaveIn(BotSubs, want) \cup {n}
          <5>1. HaveIn(BotSubs, want) = {}
            BY <4>0, <4>3 DEF One
          <5>2. <<b, type>> \in expect
            BY <1>2, <4>0, <4>3, <5>1
          <5> QED
            BY <4>3, <5>1, <5>2 DEF One
        <4> QED
          BY <2>2, <4>1, <4>2, <4>3
      <3>3. AskedIn(b, r.create, BotSubs', expect)
        BY <3>2 DEF AskedIn
      <3> QED
        BY <1>1, <1>6, <3>3 DEF SettlesIn, Creators, Repairing
    <2>4. task[t].op # "overlay"
      BY <1>6 DEF Creators
    <2> QED
      BY <1>1, <1>4, <2>3, <2>4, SettledOwn
  <1> QED
    BY <1>3, <1>5, <1>6

\* A delete of the overlay's, of a banish or of a prune.
LEMMA SettledOfDelete ==
  ASSUME Based, SettledKnow, NEW t \in Tasks, Delete(t), Bystanders
  PROVE  SettledKnow'
  <1> USE DEF Based
  <1>1. PICK r : \E s \in task[t].delete :
             /\ Goes(t, r) /\ r.op = task[t].op /\ r.pc = "calls" /\ r.b = task[t].b /\ r.keep = task[t].keep
             /\ r.delete = task[t].delete \ {s} /\ s \in Remembered(task[t])
             /\ task[t].pc = "calls" /\ DeleteEventSubSubscription(s)
    BY DeleteIs
  <1>2. PICK s \in task[t].delete : /\ r.delete = task[t].delete \ {s} /\ s \in Remembered(task[t])
                                    /\ DeleteEventSubSubscription(s)
    BY <1>1
  <1>3. /\ task[t].op \in {"overlay", "banish", "prune"}
        /\ task[t].op = "overlay" => s.type \in Types
        /\ task[t].op = "banish" => s.b = task[t].b
        /\ task[t].op = "prune" => s.b \notin task[t].keep
    BY <1>1, <1>2, TaskTyped DEF Typed, Shape, Creators, Repairing, IsOverlaySub
  <1>4. expect' = expect /\ settled' = settled
    BY DEF Bystanders
  <1>5. /\ s.type \notin Required => BotSubs' = BotSubs
        /\ \A p : p # Pair(s) => HaveIn(BotSubs', p) = HaveIn(BotSubs, p)
        /\ \A p : HaveIn(BotSubs', p) \subseteq HaveIn(BotSubs, p) \ {s}
    BY <1>2, BotOfDelete
  <1>6. CASE task[t].op = "overlay"
    <2>1. BotSubs' = BotSubs
      BY <1>3, <1>5, <1>6, ConstantsAssumption
    <2> QED
      BY <1>1, <1>4, <1>6, <2>1, SettledAside
  <1>7. CASE task[t].op \in {"banish", "prune"}
    <2>1. ASSUME NEW b, EmptiedIn(task[t], b, BotSubs, expect) PROVE EmptiedIn(r, b, BotSubs', expect)
      BY <1>1, <1>2, <1>5, <2>1 DEF EmptiedIn
    <2>2. ASSUME NEW b, b # s.b, AskedIn(b, {}, BotSubs, expect) PROVE AskedIn(b, {}, BotSubs', expect)
      <3>1. \A type \in Required : HaveIn(BotSubs', <<b, type>>) = HaveIn(BotSubs, <<b, type>>)
        BY <1>5, <2>2 DEF Pair
      <3> QED
        BY <2>2, <3>1, AskedSame
    <2>3. ASSUME NEW b, SettlesIn(task[t], b, BotSubs, expect) PROVE SettlesIn(r, b, BotSubs', expect)
      BY <1>1, <1>3, <1>7, <2>1, <2>2, <2>3 DEF SettlesIn, Creators, Repairing
    <2> QED
      BY <1>1, <1>4, <1>7, <2>3, SettledOwn
  <1> QED
    BY <1>3, <1>6, <1>7

\* The lists: everything a banish or a prune will delete, and a plan for every pair of an audit.
LEMMA SettledOfList ==
  ASSUME Based, SettledKnow, NEW t \in Tasks, ListBotSubs(t)
  PROVE  SettledKnow'
  <1> USE DEF Based
  <1>1. PICK r : /\ Goes(t, r) /\ Unfolds(r, task[t]) /\ task[t].pc = "botlist"
                 /\ UNCHANGED <<paired, subs, booted, failures, clean, botVars, left, expect, settled>>
                 /\ \/ r.op = "banish" /\ r.pc = "calls" /\ r.delete = {s \in subs : s.b = r.b}
                    \/ r.op = "prune" /\ r.pc = "calls" /\ r.delete = {s \in subs : s.b \notin r.keep}
                    \/ /\ r.op \in Repairing /\ r.pc = "repair"
                       /\ r.todo = {p \in Repairs(task[t]) : Unhealthy(p)}
    BY ListBotIs
  <1>2. r.op = task[t].op /\ r.b = task[t].b /\ r.keep = task[t].keep /\ task[t].keep \subseteq Broadcasters
    BY <1>1 DEF Unfolds, Shapes, TaskRecs
  <1>3. BotSubs' = BotSubs /\ expect' = expect /\ settled' = settled
    BY <1>1 DEF BotSubs
  <1>4. ASSUME NEW b, NEW type, r.b = b \/ b \notin r.keep, r.op \in {"banish", "prune"},
               r.op = "banish" => r.b = b, r.op = "prune" => b \notin r.keep
        PROVE  HaveIn(BotSubs, <<b, type>>) \subseteq r.delete
    BY <1>1, <1>4 DEF HaveIn, BotSubs, Pair, Repairing
  <1>5. ASSUME NEW b, b \in r.keep, NEW type \in Required, r.op \in Repairing
        PROVE  MendsIn(r, <<b, type>>, BotSubs)
    <2> DEFINE p == <<b, type>>
               q == PlanPair(p, task[t], KeepFirst)
    <2>1. p \in task[t].keep \X Required
      BY <1>2, <1>5
    <2>2. HaveIn(BotSubs, p) = Have(p)
      BY DEF HaveIn, Have
    <2> HIDE DEF p
    <2>3. /\ q \in Plans /\ q.pair = p /\ q.delete \subseteq Have(p)
          /\ q.make => q.delete = Have(p)
          /\ ~q.make => \E f \in Have(p) : f.on /\ q.delete = Have(p) \ {f}
      <3> HIDE DEF q
      <3>1. q = PlanPair(p, task[t], KeepFirst)
        BY DEF q
      <3> QED
        BY <1>2, <2>1, <3>1, PlanIs
    <2>4. r.todo = {o \in Repairs(task[t]) : Unhealthy(o)}
      BY <1>1, <1>5 DEF Repairing
    <2>5. ASSUME NEW o \in r.todo, o.pair = p PROVE o = q
      <3>1. PICK w \in task[t].keep \X Required : o = PlanPair(w, task[t], KeepFirst)
        BY <2>4 DEF Repairs
      <3>2. o.pair = w
        BY <1>2, <3>1, PlanIs
      <3> QED
        BY <2>5, <3>1, <3>2 DEF q
    <2>6. Unhealthy(q) => q \in r.todo
      BY <2>1, <2>4 DEF Repairs, q
    <2> HIDE DEF q
    <2>7. ~q.make => One(Have(p) \ q.delete)
      BY <2>3 DEF One
    <2>8. (\A o \in r.todo : o.pair # p) => One(Have(p))
      <3>1. SUFFICES ASSUME \A o \in r.todo : o.pair # p PROVE One(Have(p))
        OBVIOUS
      <3>2. ~q.make /\ q.delete = {}
        BY <2>3, <2>6, <3>1 DEF Unhealthy
      <3>3. Have(p) \ q.delete = Have(p)
        BY <3>2
      <3> QED
        BY <2>7, <3>2, <3>3
    <2>9. MendsIn(r, p, BotSubs)
      BY <2>2, <2>3, <2>5, <2>7, <2>8 DEF MendsIn
    <2> QED
      BY <2>9 DEF p
  <1>6. ASSUME NEW b, SettlesIn(task[t], b, BotSubs, expect) PROVE SettlesIn(r, b, BotSubs', expect)
    <2>1. CASE r.op = "banish"
      BY <1>2, <1>3, <1>4, <1>6, <2>1 DEF SettlesIn, EmptiedIn, Creators, Repairing
    <2>2. CASE r.op = "prune"
      BY <1>2, <1>3, <1>4, <1>6, <2>2 DEF SettlesIn, EmptiedIn, Creators, Repairing
    <2>3. CASE r.op \in Repairing
      <3>1. r.pc = "repair" /\ r.op \notin {"banish", "prune"} \cup Creators
        BY <1>1, <2>3 DEF Creators, Repairing
      <3> QED
        BY <1>2, <1>3, <1>5, <1>6, <2>3, <3>1 DEF SettlesIn
    <2> QED
      BY <1>1, <2>1, <2>2, <2>3
  <1>7. r.op # "overlay" /\ r.pc # "done"
    BY <1>1 DEF Repairing
  <1> QED
    BY <1>1, <1>2, <1>3, <1>6, <1>7, SettledOwn

\* A repair: what is left of a plan still mends its pair.
LEMMA SettledOfRepair ==
  ASSUME Based, SettledKnow, NEW t \in Tasks, Repair(t)
  PROVE  SettledKnow'
  <1> USE DEF Based
  <1>1. PICK r : \E p \in task[t].todo :
           /\ Goes(t, r) /\ Unfolds(r, task[t]) /\ task[t].pc = "repair" /\ r.pc = "repair"
           /\ Remembered(task[t]) = UNION {q.delete : q \in task[t].todo}
           /\ UNCHANGED <<paired, booted, failures, clean, botVars, left, expect, settled>>
           /\ \/ \E s \in p.delete :
                   DeleteEventSubSubscription(s) /\ r.todo = (task[t].todo \ {p}) \cup Repaired(p, s)
              \/ /\ p.delete = {} /\ p.make /\ r.todo = task[t].todo \ {p}
                 /\ AttemptNewSubscription(p.pair, FreshIds)
    BY RepairIs
  <1>2. PICK p \in task[t].todo :
              \/ \E s \in p.delete :
                   DeleteEventSubSubscription(s) /\ r.todo = (task[t].todo \ {p}) \cup Repaired(p, s)
              \/ /\ p.delete = {} /\ p.make /\ r.todo = task[t].todo \ {p}
                 /\ AttemptNewSubscription(p.pair, FreshIds)
    BY <1>1
  <1>3. /\ r.op = task[t].op /\ r.keep = task[t].keep /\ task[t].op \in Repairing
        /\ p \in Plans /\ p.pair \in Broadcasters \X Required
    BY <1>1, TaskTyped DEF Unfolds, Shapes, TaskRecs, Plans
  <1>4. /\ \A q, o \in task[t].todo : q.pair = o.pair => q = o
        /\ p.pair[1] \in task[t].keep /\ \A s \in p.delete : Pair(s) = p.pair
    BY <1>3, TaskTyped DEF Typed, Shape, Creators, Repairing
  <1> DEFINE pp == p.pair
  <1> HIDE DEF pp
  <1>5. /\ \A x : x # pp => HaveIn(BotSubs', x) = HaveIn(BotSubs, x)
        /\ \A x : x # pp => \A q : q.pair = x => (q \in r.todo <=> q \in task[t].todo)
        /\ MendsIn(task[t], pp, BotSubs) => MendsIn(r, pp, BotSubs')
    <2>1. CASE \E s \in p.delete :
                   DeleteEventSubSubscription(s) /\ r.todo = (task[t].todo \ {p}) \cup Repaired(p, s)
      <3>1. PICK s \in p.delete :
                   DeleteEventSubSubscription(s) /\ r.todo = (task[t].todo \ {p}) \cup Repaired(p, s)
        BY <2>1
      <3>2. s \in Remembered(task[t]) /\ Pair(s) = pp
        BY <1>1, <1>4 DEF pp
      <3>3. /\ \A x : x # pp => HaveIn(BotSubs', x) = HaveIn(BotSubs, x)
            /\ s \in subs => HaveIn(BotSubs', pp) = HaveIn(BotSubs, pp) \ {s}
        BY <3>1, <3>2, BotOfDelete
      <3> DEFINE sh == Shorter(p, s)
      <3>4. sh.pair = pp /\ sh.make = p.make /\ sh.delete = p.delete \ {s}
        BY <1>3, ShorterIs DEF pp
      <3> HIDE DEF sh
      <3>0. \A q : q \in Repaired(p, s) <=> q = sh /\ Unhealthy(sh)
        BY DEF Repaired, sh
      <3>8. \A q \in task[t].todo : q # p <=> q.pair # pp
        BY <1>4 DEF pp
      <3>5. /\ \A q \in r.todo : (q \in task[t].todo /\ q.pair # pp) \/ (q = sh /\ Unhealthy(sh))
            /\ \A q \in task[t].todo : q.pair # pp => q \in r.todo
            /\ Unhealthy(sh) => sh \in r.todo
        BY <3>0, <3>1, <3>8
      <3>6. \A x : x # pp => \A q : q.pair = x => (q \in r.todo <=> q \in task[t].todo)
        BY <3>4, <3>5
      <3>7. ASSUME MendsIn(task[t], pp, BotSubs) PROVE MendsIn(r, pp, BotSubs')
        <4>1. /\ p.delete \subseteq HaveIn(BotSubs, pp)
              /\ p.make => HaveIn(BotSubs, pp) = p.delete
              /\ ~p.make => One(HaveIn(BotSubs, pp) \ p.delete)
          BY <3>7 DEF MendsIn, pp
        <4>2. s \in subs
          BY <3>1, <4>1 DEF HaveIn, BotSubs
        <4>3. HaveIn(BotSubs', pp) = HaveIn(BotSubs, pp) \ {s}
          BY <3>3, <4>2
        <4>4. HaveIn(BotSubs', pp) \ sh.delete = HaveIn(BotSubs, pp) \ p.delete
          BY <3>1, <3>4, <4>3
        <4>5. /\ sh.delete \subseteq HaveIn(BotSubs', pp)
              /\ sh.make => HaveIn(BotSubs', pp) = sh.delete
              /\ ~sh.make => One(HaveIn(BotSubs', pp) \ sh.delete)
          BY <3>4, <4>1, <4>3, <4>4
        <4>6. (\A q \in r.todo : q.pair # pp) => One(HaveIn(BotSubs', pp))
          <5>1. SUFFICES ASSUME \A q \in r.todo : q.pair # pp PROVE One(HaveIn(BotSubs', pp))
            OBVIOUS
          <5>2. ~sh.make /\ sh.delete = {}
            BY <3>4, <3>5, <5>1 DEF Unhealthy
          <5>3. HaveIn(BotSubs', pp) \ sh.delete = HaveIn(BotSubs', pp)
            BY <5>2
          <5> QED
            BY <4>5, <5>2, <5>3
        <4> QED
          BY <3>5, <4>5, <4>6 DEF MendsIn
      <3> QED
        BY <3>3, <3>6, <3>7
    <2>2. CASE /\ p.delete = {} /\ p.make /\ r.todo = task[t].todo \ {p}
               /\ AttemptNewSubscription(p.pair, FreshIds)
      <3>1. /\ \A x : x # pp => HaveIn(BotSubs', x) = HaveIn(BotSubs, x)
            /\ \/ BotSubs' = BotSubs /\ \E s \in HaveIn(BotSubs, pp) : s.on
               \/ \E n : n.on /\ HaveIn(BotSubs', pp) = HaveIn(BotSubs, pp) \cup {n}
        <4>1. pp \in Broadcasters \X (Types \cup Required) /\ pp[2] \in Required
          BY <1>3 DEF pp
        <4> QED
          BY <2>2, <4>1, BotOfCreate DEF pp
      <3>2. \A x : x # pp => \A q : q.pair = x => (q \in r.todo <=> q \in task[t].todo)
        BY <2>2 DEF pp
      <3>3. \A q \in r.todo : q.pair # pp
        BY <1>4, <2>2 DEF pp
      <3>4. ASSUME MendsIn(task[t], pp, BotSubs) PROVE MendsIn(r, pp, BotSubs')
        <4>1. HaveIn(BotSubs, pp) = {}
          BY <2>2, <3>4 DEF MendsIn, pp
        <4>2. One(HaveIn(BotSubs', pp))
          BY <3>1, <4>1 DEF One
        <4> QED
          BY <3>3, <4>2 DEF MendsIn
      <3> QED
        BY <3>1, <3>2, <3>4
    <2> QED
      BY <1>2, <2>1, <2>2
  <1>6. \A x : MendsIn(task[t], x, BotSubs) => MendsIn(r, x, BotSubs')
    <2>1. SUFFICES ASSUME NEW x, x # pp, MendsIn(task[t], x, BotSubs) PROVE MendsIn(r, x, BotSubs')
      BY <1>5
    <2>2. HaveIn(BotSubs', x) = HaveIn(BotSubs, x) /\ \A q : q.pair = x => (q \in r.todo <=> q \in task[t].todo)
      BY <1>5, <2>1
    <2> QED
      BY <2>1, <2>2 DEF MendsIn
  <1>7. ASSUME NEW b, SettlesIn(task[t], b, BotSubs, expect) PROVE SettlesIn(r, b, BotSubs', expect)
    <2>1. r.op \in Repairing /\ r.op \notin {"banish", "prune"} \cup Creators
      BY <1>3 DEF Creators, Repairing
    <2>2. CASE b \in r.keep
      BY <1>1, <1>3, <1>6, <1>7, <2>1, <2>2 DEF SettlesIn
    <2>3. CASE b \notin r.keep
      <3>1. AskedIn(b, {}, BotSubs, expect)
        BY <1>3, <1>7, <2>3 DEF SettlesIn
      <3>2. \A type \in Required : <<b, type>> # pp
        BY <1>3, <1>4, <2>3 DEF pp
      <3>3. AskedIn(b, {}, BotSubs', expect)
        BY <1>5, <3>1, <3>2, AskedSame
      <3> QED
        BY <1>1, <2>1, <2>3, <3>3 DEF SettlesIn
    <2> QED
      BY <2>2, <2>3
  <1>8. task[t].op # "overlay"
    BY <1>3 DEF Repairing
  <1> QED
    BY <1>1, <1>3, <1>7, <1>8, SettledOwn

\* What has nothing left to do has done it.
LEMMA SettledOfEnd ==
  ASSUME Based, SettledKnow, NEW t \in Tasks, Finish(t) \/ RepairDone(t) \/ OptOut(t),
         expect' = expect, settled' = settled
  PROVE  SettledKnow'
  <1> USE DEF Based
  <1>1. /\ Goes(t, Done) /\ task[t].pc # "done" /\ task[t].delete = {} /\ task[t].create = {} /\ task[t].todo = {}
        /\ task[t].pc \in {"calls", "repair"} /\ subs' = subs
    BY EndIs
  <1>2. BotSubs' = BotSubs /\ Done.pc = "done"
    BY <1>1 DEF BotSubs, Done
  <1>3. CASE task[t].op = "overlay"
    BY <1>1, <1>2, <1>3, SettledAside
  <1>4. CASE task[t].op # "overlay"
    <2>1. task[t].op \in {"banish", "prune"} \cup Repairing \cup Creators
      BY <1>4, OpIs, TaskTyped DEF Typed
    <2>2. ASSUME NEW b, SettlesIn(task[t], b, BotSubs, expect) PROVE AskedIn(b, {}, BotSubs', expect)
      <3>1. ASSUME EmptiedIn(task[t], b, BotSubs, expect), task[t].pc = "calls" PROVE AskedIn(b, {}, BotSubs', expect)
        BY <1>1, <1>2, <3>1 DEF EmptiedIn, AskedIn
      <3>2. CASE task[t].op \in {"banish", "prune"}
        <4>1. task[t].pc = "calls"
          BY <1>1, <3>2, TaskTyped DEF Repairing
        <4> QED
          BY <1>2, <2>2, <3>1, <3>2, <4>1 DEF SettlesIn
      <3>3. CASE task[t].op \in Repairing
        <4>1. task[t].pc = "repair"
          BY <1>1, <2>2, <3>3 DEF SettlesIn
        <4>2. CASE b \in task[t].keep
          <5>1. \A type \in Required : <<b, type>> \in expect /\ One(HaveIn(BotSubs, <<b, type>>))
            BY <1>1, <2>2, <3>3, <4>1, <4>2 DEF SettlesIn, MendsIn
          <5> QED
            BY <1>2, <5>1 DEF AskedIn, One
        <4>3. CASE b \notin task[t].keep
          BY <1>2, <2>2, <3>3, <4>3 DEF SettlesIn
        <4> QED
          BY <4>2, <4>3
      <3>4. CASE task[t].op \in Creators
        BY <1>1, <1>2, <2>2, <3>4 DEF SettlesIn
      <3> QED
        BY <2>1, <3>2, <3>3, <3>4
    <2> QED
      BY <1>1, <1>2, <1>4, <2>2, SettledOwn
  <1> QED
    BY <1>3, <1>4

LEMMA SettledOfTaskStep ==
  ASSUME Based, SettledKnow, NEW t \in Tasks, TaskStep(t), Bystanders
  PROVE  SettledKnow'
  <1> USE DEF Based
  <1>1. expect' = expect /\ settled' = settled
    BY DEF Bystanders
  <1>2. CASE CountRemaining(t)
    <2>1. PICK r : Goes(t, r) /\ r.op = "overlay" /\ task[t].op = "overlay" /\ subs' = subs
      BY <1>2, CountIs
    <2> QED
      BY <1>1, <2>1, SettledAside DEF BotSubs
  <1>3. CASE ListSubs(t)
    <2>1. PICK r : Goes(t, r) /\ r.op = "overlay" /\ task[t].op = "overlay" /\ subs' = subs
      BY <1>3, ListIs
    <2> QED
      BY <1>1, <2>1, SettledAside DEF BotSubs
  <1>4. CASE Finish(t)
    BY <1>1, <1>4, SettledOfEnd
  <1> QED
    BY <1>2, <1>3, <1>4, SettledOfCreate, SettledOfDelete DEF TaskStep

LEMMA SettledOfBotTask ==
  ASSUME Based, SettledKnow, NEW t \in Tasks, BotTask(t)
  PROVE  SettledKnow'
  <1>1. CASE RepairFails(t)
    <2>1. PICK r : Goes(t, r) /\ settled' = {}
      BY <1>1, RepairFailsIs DEF Based
    <2> QED
      BY <2>1, TurnTyped, SettledEnds DEF Based
  <1>2. CASE RepairDone(t) \/ OptOut(t)
    <2>1. expect' = expect /\ settled' = settled
      BY <1>2 DEF RepairDone, OptOut
    <2> QED
      BY <1>2, <2>1, SettledOfEnd
  <1> QED
    BY <1>1, <1>2, SettledOfList, SettledOfRepair DEF BotTask

LEMMA SettledOfOverlay ==
  ASSUME Based, SettledKnow, NEW t \in Tasks, OverlayRequest(t)
  PROVE  SettledKnow'
  <1>1. PICK r : Goes(t, r) /\ r.op = "overlay" /\ task[t].op = "overlay"
    BY OverlayStarts DEF Goes, Based
  <1>2. subs' = subs /\ expect' = expect /\ settled' = settled
    BY DEF OverlayRequest, Mint, Revoke, Boot
  <1> QED
    BY <1>1, <1>2, SettledAside DEF BotSubs, Based

LEMMA SettledOfRestart ==
  ASSUME Based, SettledKnow, Restart, expect' = expect,
         settled' = IF CoreApi \cap BotRunning = {} THEN settled ELSE {}
  PROVE  SettledKnow'
  <1>1. /\ \A t \in Tasks : task'[t] = IF t \in CoreApi THEN Done ELSE task[t]
        /\ \A t \in Tasks : task'[t] \in TaskRecs /\ Shape(task'[t])
        /\ BotSubs' = BotSubs
    BY RestartIs DEF Based, BotSubs
  <1>2. CASE settled' = {}
    BY <1>1, <1>2, SettledEnds
  <1>3. CASE CoreApi \cap BotRunning = {} /\ settled' = settled
    <2>1. Done.pc = "done"
      BY DEF Done
    <2>2. \A t \in Tasks : task[t].pc # "done" /\ task[t].op # "overlay" => task'[t] = task[t]
      BY <1>1, <1>3 DEF BotRunning, Running
    <2>3. BotsIn(task') = BotsIn(task) /\ \A t \in BotsIn(task) : task'[t] = task[t]
      BY <1>1, <2>1, <2>2 DEF BotsIn
    <2>4. SettledIn(task, settled, BotSubs, expect)
      BY SettledNow DEF Based
    <2>5. SettledIn(task', settled', BotSubs', expect')
      BY <1>1, <1>3, <2>3, <2>4 DEF SettledIn
    <2> QED
      BY <1>1, <2>5, SettledThen
  <1> QED
    BY <1>2, <1>3

LEMMA SettledSame ==
  ASSUME Shapes, SettledKnow, task' = task, BotSubs' = BotSubs, expect' = expect, settled' = settled
  PROVE  SettledKnow'
  <1>1. SettledIn(task', settled', BotSubs', expect')
    BY SettledNow
  <1>2. \A t \in Tasks : task'[t] \in TaskRecs /\ Shape(task'[t])
    BY DEF Shapes
  <1> QED
    BY <1>1, <1>2, SettledThen

LEMMA SettledStep ==
  ASSUME Based, SettledKnow, [Next]_allVars
  PROVE  SettledKnow'
  <1>1. CASE UNCHANGED allVars
    BY <1>1, SettledSame DEF allVars, vars, BotSubs, Based
  <1>2. ASSUME NEW t \in Tasks, CallFails(t), UNCHANGED <<botVars, left, expect>>,
               settled' = IF task[t].op = "overlay" THEN settled ELSE {}
        PROVE  SettledKnow'
    <2>1. PICK r : Goes(t, r) /\ r.op = task[t].op /\ subs' = subs
      BY <1>2, CallFailsIs DEF Based
    <2>2. CASE task[t].op = "overlay"
      BY <1>2, <2>1, <2>2, SettledAside DEF BotSubs, Based
    <2>3. CASE task[t].op # "overlay"
      BY <1>2, <2>1, <2>3, TurnTyped, SettledEnds DEF Based
    <2> QED
      BY <2>2, <2>3
  <1>3. ASSUME NEW s \in subs, Disabled(s), UNCHANGED <<botVars, left, expect>>,
               settled' = IF IsOverlaySub(s) THEN settled ELSE {}
        PROVE  SettledKnow'
    <2> DEFINE off == [s EXCEPT !.on = FALSE]
    <2>1. subs' = (subs \ {s}) \cup {off} /\ task' = task
      BY <1>3 DEF Disabled
    <2>2. off.type = s.type
      BY DEF Based, Shapes, SubRecs
    <2> HIDE DEF off
    <2>3. CASE IsOverlaySub(s)
      <3>1. BotSubs' = BotSubs
        BY <2>1, <2>2, <2>3, ConstantsAssumption DEF BotSubs, IsOverlaySub
      <3> QED
        BY <1>3, <2>1, <2>3, <3>1, SettledSame DEF Based
    <2>4. CASE ~IsOverlaySub(s)
      <3>1. \A t \in Tasks : task'[t] \in TaskRecs /\ Shape(task'[t])
        BY <2>1 DEF Based, Shapes
      <3> QED
        BY <1>3, <2>4, <3>1, SettledEnds
    <2> QED
      BY <2>3, <2>4
  <1> QED
    BY <1>1, <1>2, <1>3, NextIs, SettledOfTaskStep, SettledOfRestart, SettledOfBotTask, SettledOfRequest,
       SettledOfOverlay DEF Based

\* Each asked for and enabled, and no two of a pair: as many subscriptions as pairs.
LEMMA AskedOnce ==
  ASSUME Shapes, NEW b, AskedIn(b, {}, BotSubs, expect)
  PROVE  LET have == {s \in BotSubs : s.b = b}
         IN /\ On(have) = {p \in expect : p[1] = b}
            /\ Cardinality(have) = Cardinality(On(have))
  <1> DEFINE have == {s \in BotSubs : s.b = b}
             once == [s \in have |-> Pair(s)]
  <1>1. \A s \in have : s.type \in Required /\ s \in HaveIn(BotSubs, <<b, s.type>>) /\ Pair(s) = <<b, s.type>>
    BY DEF HaveIn, BotSubs, Pair
  <1>2. \A s \in have : One(HaveIn(BotSubs, <<b, s.type>>)) /\ <<b, s.type>> \in expect
    BY <1>1 DEF AskedIn
  <1>3. \A s \in have : s.on /\ \A o \in have : Pair(o) = Pair(s) => o = s
    <2>1. SUFFICES ASSUME NEW s \in have PROVE s.on /\ \A o \in have : Pair(o) = Pair(s) => o = s
      OBVIOUS
    <2>2. PICK x : HaveIn(BotSubs, <<b, s.type>>) = {x} /\ x.on
      BY <1>2 DEF One
    <2>3. s = x /\ \A o \in have : Pair(o) = Pair(s) => o \in HaveIn(BotSubs, <<b, s.type>>)
      BY <1>1, <2>2 DEF HaveIn
    <2> QED
      BY <2>2, <2>3
  <1>4. On(have) = {Pair(s) : s \in have}
    BY <1>3 DEF On, Pair
  <1>5. On(have) \subseteq {p \in expect : p[1] = b}
    <2>1. ASSUME NEW p \in On(have) PROVE p \in expect /\ p[1] = b
      <3>1. PICK s \in have : p = Pair(s)
        BY <1>4
      <3>2. p = <<b, s.type>> /\ <<b, s.type>> \in expect
        BY <1>1, <1>2, <3>1
      <3> QED
        BY <3>2
    <2> HIDE DEF have
    <2> QED
      BY <2>1
  <1>6. ASSUME NEW p \in expect, p[1] = b PROVE p \in On(have)
    <2>1. p[2] \in Required /\ p = <<b, p[2]>>
      BY <1>6 DEF Shapes
    <2>2. HaveIn(BotSubs, p) # {}
      BY <2>1 DEF AskedIn
    <2>3. PICK s \in BotSubs : Pair(s) = p
      BY <2>2 DEF HaveIn
    <2>4. s \in have
      BY <1>6, <2>3 DEF Pair
    <2> QED
      BY <1>4, <2>3, <2>4
  <1>7. Cardinality(have) = Cardinality(On(have))
    <2>1. IsFiniteSet(have)
      <3>1. have \subseteq subs
        BY DEF BotSubs
      <3> QED
        BY <3>1, FS_Subset DEF Shapes
    <2>2. once \in Surjection(have, On(have))
      BY <1>4 DEF Surjection
    <2>3. once \in Injection(have, On(have))
      BY <1>3, <1>4 DEF Injection, IsInjective
    <2> HIDE DEF once, have
    <2> QED
      BY <2>1, <2>2, <2>3, FS_Surjection
  <1> HIDE DEF once
  <1> QED
    BY <1>5, <1>6, <1>7

LEMMA SettledSays == ASSUME Shapes, SettledKnow PROVE BotSettles
  <1>1. BotRunning = BotsIn(task)
    BY DEF BotRunning, BotsIn, Running
  <1>2. SUFFICES ASSUME BotRunning = {}, NEW b \in settled
                 PROVE  LET have == {s \in BotSubs : s.b = b}
                        IN /\ On(have) = {p \in expect : p[1] = b}
                           /\ Cardinality(have) = Cardinality(On(have))
    BY DEF BotSettles
  <1>3. AskedIn(b, {}, BotSubs, expect)
    BY <1>1, <1>2, SettledNow DEF SettledIn
  <1> QED
    BY <1>3, AskedOnce

-----------------------------------------------------------------------------
(* The invariant holds at first and after every step.                      *)

LEMMA InitRepair == ASSUME Init PROVE RepairInv
  <1>1. PICK s \in Starts : /\ subs = s.subs /\ optIn = s.optIn /\ left = s.left
                            /\ known = s.optIn \cup {o.b : o \in s.subs}
    BY DEF Init
  <1>2. /\ paired = {} /\ task = [t \in Tasks |-> Done] /\ booted = FALSE /\ failures = 0 /\ clean = TRUE
        /\ expect = {} /\ settled = {b \in Broadcasters : \A o \in BotSubs : o.b # b} \ optIn
    BY DEF Init, OverlayInit
  <1>3. /\ subs \subseteq SubRecs /\ IsFiniteSet(subs) /\ \A o, p \in subs : o.id = p.id => o = p
        /\ optIn \subseteq Broadcasters /\ left \in [Ops -> 0..Unlimited]
    BY <1>1, StartsAssumption
  <1>4. known \subseteq Broadcasters /\ optIn \subseteq known
    BY <1>1, <1>3 DEF SubRecs
  <1>5. Done \in TaskRecs /\ Shape(Done) /\ Remembered(Done) = {} /\ Done.op = "overlay" /\ Done.pc = "done"
    BY DoneTyped DEF Typed, Done
  <1>6. \A t \in Tasks : task[t] = Done
    BY <1>2
  <1>7. Shapes
    <2>1. task \in [Tasks -> TaskRecs] /\ \A t \in Tasks : Shape(task[t])
      BY <1>2, <1>5
    <2>2. failures \in 0..MaxFailures
      BY <1>2, ConstantsAssumption
    <2> QED
      BY <1>2, <1>3, <1>4, <2>1, <2>2 DEF Shapes
  <1>8. IdsKnow
    BY <1>3, <1>5, <1>6 DEF IdsKnow
  <1>9. CoverageKnow
    BY <1>5, <1>6 DEF CoverageKnow, Takes
  <1>10. SettledKnow
    <2>1. BotRunning = {}
      BY <1>5, <1>6 DEF BotRunning, Running
    <2>2. \A b \in settled : \A type \in Required : Have(<<b, type>>) = {}
      BY <1>2 DEF Have, Pair
    <2>3. \A b \in settled : AsAsked(b, {})
      BY <1>2, <2>2 DEF AsAsked
    <2> QED
      BY <2>1, <2>3 DEF SettledKnow
  <1>11. CleanKnow
    BY <1>2 DEF CleanKnow
  <1> QED
    BY <1>7, <1>8, <1>9, <1>10, <1>11 DEF RepairInv

LEMMA StepRepair == ASSUME RepairInv, [Next]_allVars PROVE RepairInv'
  <1>1. Based /\ CoverageKnow /\ SettledKnow /\ CleanKnow
    BY DEF RepairInv, Based
  <1>2. Based'
    BY <1>1, BaseStep
  <1>3. CoverageKnow'
    BY <1>1, CoverageStep
  <1>4. SettledKnow'
    BY <1>1, SettledStep
  <1>5. CleanKnow'
    BY <1>1, CleanStep
  <1> QED
    BY <1>2, <1>3, <1>4, <1>5 DEF RepairInv, Based

LEMMA TypesOfRepair == ASSUME Shapes, IdsKnow PROVE TypeOK
  <1>1. /\ paired \subseteq Broadcasters /\ subs \subseteq SubRecs
        /\ \A s, o \in subs : s.id = o.id => s = o
        /\ {booted, clean} \subseteq BOOLEAN /\ failures \in 0..MaxFailures
        /\ optIn \subseteq known /\ left \in [Ops -> 0..Unlimited]
    BY DEF Shapes, IdsKnow
  <1>2. ASSUME NEW t \in Tasks
        PROVE  /\ task[t].pc \in {"done", "remaining", "list", "calls", "botlist", "repair"}
               /\ task[t].op \in Ops \cup {"overlay"}
               /\ task[t].b \in Broadcasters \cup {NoOne}
               /\ task[t].keep \subseteq Broadcasters /\ task[t].delete \subseteq SubRecs
               /\ task[t].create \subseteq Broadcasters \X (Types \cup Required)
    BY TaskTyped DEF Typed, TaskRecs
  <1>3. ASSUME NEW t \in Tasks, task[t].op = "overlay" PROVE \A s \in task[t].delete : IsOverlaySub(s)
    BY <1>3, TaskTyped DEF Typed, Shape, Creators, Repairing
  <1>4. ASSUME NEW t \in Tasks, NEW p \in task[t].todo PROVE p.delete \subseteq BotSubs \cup SubRecs /\ Unhealthy(p)
    <2>1. p \in Plans
      BY DEF Shapes, TaskRecs
    <2>2. Unhealthy(p)
      BY TaskTyped DEF Typed, Shape
    <2> QED
      BY <2>1, <2>2 DEF Plans
  <1> QED
    BY <1>1, <1>2, <1>3, <1>4 DEF TypeOK

\* The inductive invariant: who is about to do what to the list, and what that leaves of it.
THEOREM RepairInductive == Spec => []RepairInv
  BY InitRepair, StepRepair, PTL DEF Spec

\* Every id is one subscription's, the overlay's tasks delete only the overlay's, and what a
\* repair has left to do is something to do.
THEOREM RepairTypes == Spec => []TypeOK
  <1>1. RepairInv => TypeOK
    BY TypesOfRepair DEF RepairInv
  <1> QED
    BY <1>1, RepairInductive, PTL

\* However many broadcasters, types and tasks, and whatever the list was to begin with: an audit,
\* a -force, a prune or a !banish that runs alone leaves exactly what is asked for, each once and
\* enabled, until something of the bot's overlaps or fails.
THEOREM RepairSettles == Spec => []BotSettles
  <1>1. RepairInv => BotSettles
    BY SettledSays DEF RepairInv
  <1> QED
    BY <1>1, RepairInductive, PTL

\* The overlay's reconcile, mints and revocations leave every paired broadcaster every type and
\* nobody else any, as long as they do not overlap and no call fails.
THEOREM ReconcileConverges == Spec => []CleanConverges
  <1>1. RepairInv => CleanConverges
    BY CleanSays DEF RepairInv, CleanConverges
  <1> QED
    BY <1>1, RepairInductive, PTL

\* While no call fails no task, however tasks overlap, takes away the last enabled subscription of
\* a pair, but where somebody unsubscribes on purpose.
THEOREM RepairKeepsCoverage == Spec => CoverageKept
  <1>1. ASSUME RepairInv, [Next]_allVars
        PROVE  [\A p \in On(BotSubs) :
                  failures = 0 /\ failures' = 0 /\ ~Doomed(p[1]) => p \in On(BotSubs)']_allVars
    BY <1>1, CoverageKeeps DEF RepairInv, Based
  <1> QED
    BY <1>1, RepairInductive, PTL DEF Spec, CoverageKept
=============================================================================
