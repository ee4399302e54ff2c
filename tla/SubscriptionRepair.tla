------------------------- MODULE SubscriptionRepair -------------------------
(***************************************************************************)
(* Everyone who changes the one list of EventSub subscriptions: OverlaySubs*)
(* for core-api's overlay, and for the bot the sign-in callback, !joinme,  *)
(* the chat-read grant, !banish, eventsub-backfill and eventsub-healthcheck*)
(* (repair, -force, -prune-orphans).  Each is a task of OverlaySubs, with  *)
(* its calls to Twitch as steps; only the health check's repair needs its  *)
(* own, because it deletes before it creates and gives up a pair on errors.*)
(*                                                                         *)
(* A 403 (chat-read not granted) and a 401 on both attempts are failed     *)
(* calls: both leave the list as it was.                                   *)
(***************************************************************************)
EXTENDS OverlaySubs

CONSTANTS
  JoinTypes,  \* what !joinme subscribes: stream.online and stream.offline
  Chat,       \* channel.chat.message
  Starts      \* initial situations: [subs, optIn, left]; left bounds the operations

Ops == {"signin", "joinme", "grant", "banish", "backfill", "audit", "force", "prune",
        "mint", "revoke", "boot", "restart"}
Unlimited == 99
SubRecs == [b : Broadcasters, type : Types \cup Required, id : Ids, on : BOOLEAN]

ASSUME StartsAssumption ==
  /\ JoinTypes \subseteq Required /\ Chat \in Required /\ Ids \subseteq Nat
  /\ \A s \in Starts :
       /\ s.subs \subseteq SubRecs /\ IsFiniteSet(s.subs)
       /\ \A o, p \in s.subs : o.id = p.id => o = p
       /\ s.optIn \subseteq Broadcasters /\ s.left \in [Ops -> 0..Unlimited]

VARIABLES
  optIn,    \* broadcasters with bot_opt_in
  known,    \* broadcasters with a users row
  left,     \* bound: how often each operation may still start
  expect,   \* history: pairs of broadcaster and bot type that the operations ask for
  settled   \* history: broadcasters nothing has disturbed since an operation that ran alone

botVars == <<optIn, known>>
allVars == <<vars, botVars, left, expect, settled>>

BotSubs == {s \in subs : s.type \in Required}

Init ==
  /\ OverlayInit
  /\ \E s \in Starts :
       /\ subs = s.subs /\ optIn = s.optIn /\ left = s.left
       /\ known = s.optIn \cup {o.b : o \in s.subs}
  /\ expect = {}
  /\ settled = {b \in Broadcasters : \A s \in BotSubs : s.b # b} \ optIn

BotRunning == {t \in Running : task[t].op # "overlay"}
Spend(op) ==
  /\ left[op] > 0
  /\ left' = IF left[op] = Unlimited THEN left ELSE [left EXCEPT ![op] = @ - 1]

\* A bot task starts; undisturbed, it leaves the broadcasters of `leaves` as `expects` says.
StartJob(t, op, r, expects, leaves) ==
  /\ Spend(op)
  /\ Start(t, [r EXCEPT !.op = op])
  /\ expect' = expects
  /\ settled' = IF BotRunning = {} THEN settled \cup leaves ELSE {}
  /\ UNCHANGED <<paired, subs, booted, failures>>

\* NewTwitchCallbackEndpoint: only a new user is subscribed, and opted in.
SignIn(t, b) ==
  /\ b \notin known
  /\ known' = known \cup {b} /\ optIn' = optIn \cup {b}
  /\ StartJob(t, "signin", [Done EXCEPT !.pc = "calls", !.b = b, !.create = {b} \X Required],
              expect \cup ({b} \X Required), {})
  /\ UNCHANGED clean

\* joinNewUser: the row is written, opted in, before it subscribes.
JoinMe(t, b) ==
  /\ known' = known \cup {b} /\ optIn' = optIn \cup {b}
  /\ StartJob(t, "joinme", [Done EXCEPT !.pc = "calls", !.b = b, !.create = {b} \X JoinTypes],
              expect \cup ({b} \X JoinTypes), {})
  /\ UNCHANGED clean

\* tryGrantChatRead: the broadcaster has modded the bot.
GrantChatRead(t, b) ==
  /\ b \in optIn
  /\ StartJob(t, "grant", [Done EXCEPT !.pc = "calls", !.b = b, !.create = {<<b, Chat>>}],
              expect \cup {<<b, Chat>>}, {})
  /\ UNCHANGED <<botVars, clean>>

\* eventsub-backfill: one create of each type for each active channel.
Backfill(t) ==
  /\ StartJob(t, "backfill", [Done EXCEPT !.pc = "calls", !.create = optIn \X Required],
              expect \cup (optIn \X Required), {})
  /\ UNCHANGED <<botVars, clean>>

\* banishChannel deletes every subscription of the broadcaster, then opts the row out.
Banish(t, b) ==
  /\ b \in known
  /\ StartJob(t, "banish", [Done EXCEPT !.pc = "botlist", !.b = b],
              {p \in expect : p[1] # b}, {b})
  /\ clean' = (clean /\ Running = {} /\ b \notin paired)
  /\ UNCHANGED botVars

OptOut(t) ==
  /\ task[t].op = "banish" /\ task[t].pc = "calls" /\ task[t].delete = {}
  /\ task' = [task EXCEPT ![t] = Done]
  /\ optIn' = optIn \ {task[t].b}
  /\ UNCHANGED <<paired, subs, booted, failures, clean, known, left, expect, settled>>

\* The health check reads the opted-in users first (and refuses an empty answer).
Repairing == {"audit", "force"}
HealthCheck(t, op) ==
  /\ optIn # {}
  /\ StartJob(t, op, [Done EXCEPT !.pc = "botlist", !.keep = optIn],
       IF op \in Repairing THEN expect \cup (optIn \X Required)
                           ELSE {p \in expect : p[1] \in optIn},
       IF op \in Repairing THEN optIn ELSE Broadcasters \ optIn)
  /\ clean' = (clean /\ (op \in Repairing \/ (Running = {} /\ paired \subseteq optIn)))
  /\ UNCHANGED botVars

\* classify and repair: bad ones go, of the good all but the first, one is created if none
\* was good; nothing is done for a pair that is healthy.
PlanPair(p, r, kept(_)) ==
  LET have == {s \in BotSubs : <<s.b, s.type>> = p}
      good == {s \in have : s.on /\ r.op # "force"}
  IN [pair |-> p, make |-> good = {}, delete |-> (have \ good) \cup (good \ kept(good))]
First(set) == {CHOOSE s \in set : \A o \in set : s.id <= o.id}
\* Mutant: a subscription that is not alone is not kept.
KeepNone(good) == IF Cardinality(good) = 1 THEN good ELSE {}
KeepFirst(good) == IF good = {} THEN {} ELSE First(good)

Repairs(r) == {PlanPair(p, r, KeepFirst) : p \in r.keep \X Required}
Orphans(r) == {s \in subs : s.b \notin r.keep}
Unhealthy(plan) == plan.make \/ plan.delete # {}

\* ListEventSubSubscriptions for the bot: unfiltered, whatever callback and status.
ListForBot(t, ofBanished) ==
  /\ task[t].pc = "botlist"
  /\ LET r == task[t]
     IN task' = [task EXCEPT ![t] =
          CASE r.op = "banish" -> [r EXCEPT !.pc = "calls", !.delete = ofBanished]
            [] r.op = "prune" -> [r EXCEPT !.pc = "calls", !.delete = Orphans(r)]
            [] OTHER -> [r EXCEPT !.pc = "repair", !.todo = {p \in Repairs(r) : Unhealthy(p)}]]
  /\ UNCHANGED <<paired, subs, booted, failures, clean, botVars, left, expect, settled>>
\* Mutant: only what is enabled is deleted, as if the rest were gone.
ListEnabledOnly(t) == ListForBot(t, {s \in subs : s.b = task[t].b /\ s.on})
ListBotSubs(t) == ListForBot(t, {s \in subs : s.b = task[t].b})

\* repair, one call at a time; a failing one gives the pair up.
RepairStep(t, leave(_)) ==
  /\ task[t].pc = "repair"
  /\ \E p \in task[t].todo :
       \/ \E s \in p.delete :
            /\ DeleteEventSubSubscription(s)
            /\ task' = [task EXCEPT ![t].todo =
                 (@ \ {p}) \cup {q \in {[p EXCEPT !.delete = @ \ {s}]} : ~leave(q)}]
       \/ /\ p.delete = {} /\ p.make
          /\ task' = [task EXCEPT ![t].todo = @ \ {p}]
          /\ AttemptNewSubscription(p.pair, FreshIds)
  /\ UNCHANGED <<paired, booted, failures, clean, botVars, left, expect, settled>>
\* Mutant: having deleted, the repair is done.
RepairDeletes(t) == RepairStep(t, LAMBDA q : q.delete = {})
Repair(t) == RepairStep(t, LAMBDA q : ~Unhealthy(q))

RepairFails(t) ==
  /\ failures < MaxFailures
  /\ failures' = failures + 1
  /\ \/ task[t].pc = "botlist" /\ task' = [task EXCEPT ![t] = [@ EXCEPT !.pc = "calls"]]
     \/ \E p \in task[t].todo : task' = [task EXCEPT ![t].todo = @ \ {p}]
     \/ /\ task[t].op = "banish" /\ task[t].pc = "calls" /\ task[t].delete = {}
        /\ task' = [task EXCEPT ![t] = Done]
  /\ settled' = {}
  /\ UNCHANGED <<paired, subs, booted, clean, botVars, left, expect>>

RepairDone(t) ==
  /\ task[t].pc = "repair" /\ task[t].todo = {}
  /\ task' = [task EXCEPT ![t] = Done]
  /\ UNCHANGED <<paired, subs, booted, failures, clean, botVars, left, expect, settled>>

BotTask(t) == ListBotSubs(t) \/ Repair(t) \/ RepairFails(t) \/ RepairDone(t) \/ OptOut(t)

OverlayRequest(t) ==
  /\ \/ \E b \in Broadcasters : Mint(t, b) /\ Spend("mint")
     \/ \E b \in Broadcasters : Revoke(t, b) /\ Spend("revoke")
     \/ Boot(t) /\ Spend("boot")
  /\ UNCHANGED <<botVars, expect, settled>>

\* What the overlay's steps leave of `settled`: nothing when a bot call failed.
SharedStep ==
  /\ \/ \E t \in Tasks : TaskStep(t) /\ UNCHANGED <<left, settled>>
     \/ \E t \in Tasks : /\ CallFails(t) /\ UNCHANGED left
                         /\ settled' = IF task[t].op = "overlay" THEN settled ELSE {}
     \/ \E s \in subs : /\ Disabled(s) /\ UNCHANGED left
                        /\ settled' = IF IsOverlaySub(s) THEN settled ELSE {}
     \/ /\ Restart /\ Spend("restart")
        /\ settled' = IF CoreApi \cap BotRunning = {} THEN settled ELSE {}
  /\ UNCHANGED <<botVars, expect>>

BotRequest(t) ==
  \/ \E b \in Broadcasters : \/ SignIn(t, b) \/ JoinMe(t, b) \/ GrantChatRead(t, b)
                             \/ Banish(t, b)
  \/ Backfill(t)
  \/ \E op \in Repairing \cup {"prune"} : HealthCheck(t, op)

Next == SharedStep \/ \E t \in Tasks : OverlayRequest(t) \/ BotRequest(t) \/ BotTask(t)

Spec == Init /\ [][Next]_allVars
-----------------------------------------------------------------------------
\* Types; one subscription per id; the overlay's tasks delete only what is the overlay's.
TypeOK ==
  /\ paired \subseteq Broadcasters /\ subs \subseteq SubRecs
  /\ \A s, o \in subs : s.id = o.id => s = o
  /\ \A t \in Tasks :
       /\ task[t].pc \in {"done", "remaining", "list", "calls", "botlist", "repair"}
       /\ task[t].op \in Ops \cup {"overlay"}
       /\ task[t].op = "overlay" => \A s \in task[t].delete : IsOverlaySub(s)
       /\ task[t].b \in Broadcasters \cup {NoOne}
       /\ task[t].keep \subseteq Broadcasters /\ task[t].delete \subseteq SubRecs
       /\ task[t].create \subseteq Broadcasters \X (Types \cup Required)
       /\ \A p \in task[t].todo : p.delete \subseteq BotSubs \cup SubRecs /\ Unhealthy(p)
  /\ {booted, clean} \subseteq BOOLEAN /\ failures \in 0..MaxFailures
  /\ optIn \subseteq known /\ left \in [Ops -> 0..Unlimited]

\* An audit (or -force, or a prune, or !banish) that runs alone and meets no failure leaves
\* exactly the subscriptions asked for, one enabled of each ("healthy: exactly one good
\* subscription and nothing to clean up"), and everything after it that does not overlap
\* keeps it so, whatever the overlay's tasks do to the same list meanwhile.
BotSettles ==
  BotRunning = {} =>
    \A b \in settled :
      LET have == {s \in BotSubs : s.b = b}
      IN /\ On(have) = {p \in expect : p[1] = b}
         /\ Cardinality(have) = Cardinality(On(have))

\* Who is unsubscribed on purpose: the banished, and for a prune whoever was not opted in
\* when it read the users; -force replaces everything.
Doomed(b) == \E t \in Tasks : \/ task[t].op = "banish" /\ task[t].b = b
                              \/ task[t].op = "prune" /\ b \notin task[t].keep
                              \/ task[t].op = "force"
\* No task ever takes away a broadcaster's last enabled subscription of one of the bot's
\* types, however tasks overlap: audits that drop surplus ones keep one ("Keep at most one
\* healthy subscription"), and the overlay's tasks "never touch the bot's".
CoverageKept ==
  [][\A p \in On(BotSubs) :
       failures = 0 /\ failures' = 0 /\ ~Doomed(p[1]) => p \in On(BotSubs)']_allVars

\* "leftovers from channels that opted out" (eventsub-healthcheck): pruning and banishing
\* are about the bot; a paired broadcaster keeps the overlay's subscriptions.
OverlaySurvivesBot ==
  [][\A p \in On(Ours) : p[1] \in paired /\ failures' = failures
       => p \in On(Ours)' \/ \E t \in Running : task[t].op = "overlay"]_allVars
-----------------------------------------------------------------------------
(* Inductive strengthenings, for SubscriptionRepairProofs.                 *)

Creators == {"signin", "joinme", "grant", "backfill"}
Pair(s) == <<s.b, s.type>>
Plans == [pair : Broadcasters \X Required, make : BOOLEAN, delete : SUBSET SubRecs]
TaskRecs == [pc : {"done", "remaining", "list", "calls", "botlist", "repair"}, op : Ops \cup {"overlay"},
             b : Broadcasters \cup {NoOne}, keep : SUBSET Broadcasters,
             create : SUBSET (Broadcasters \X (Types \cup Required)), delete : SUBSET SubRecs,
             todo : SUBSET Plans]

\* What each operation has under way, and whose subscriptions it may delete.
Shape(r) ==
  \/ /\ r.op = "overlay" /\ r.pc \in {"done", "remaining", "list", "calls"} /\ r.todo = {}
     /\ r.create \subseteq Broadcasters \X Types /\ \A s \in r.delete : IsOverlaySub(s)
     /\ r.pc # "calls" => r.create = {} /\ r.delete = {}
  \/ /\ r.op \in Creators /\ r.pc = "calls" /\ r.todo = {} /\ r.delete = {}
     /\ r.create \subseteq Broadcasters \X Required
  \/ /\ r.op \in {"banish", "prune"} /\ r.pc \in {"botlist", "calls"} /\ r.todo = {} /\ r.create = {}
     /\ \A s \in r.delete : IF r.op = "banish" THEN s.b = r.b ELSE s.b \notin r.keep
  \/ /\ r.op \in Repairing /\ r.pc \in {"botlist", "repair", "calls"} /\ r.delete = {} /\ r.create = {}
     /\ r.pc # "repair" => r.todo = {}
     /\ \A p, q \in r.todo : p.pair = q.pair => p = q
     /\ \A p \in r.todo : /\ Unhealthy(p) /\ p.pair[1] \in r.keep
                           /\ \A s \in p.delete : Pair(s) = p.pair

\* An id is one subscription's, also while somebody is about to delete it.
IdsKnow ==
  /\ \A s, o \in subs : s.id = o.id => s = o
  /\ \A t \in Tasks : \A s \in Remembered(task[t]) : \A o \in subs :
       s.id = o.id => Pair(s) = Pair(o) /\ (failures = 0 => s = o)

Shapes ==
  /\ paired \subseteq Broadcasters /\ subs \subseteq SubRecs /\ IsFiniteSet(subs)
  /\ task \in [Tasks -> TaskRecs] /\ \A t \in Tasks : Shape(task[t])
  /\ booted \in BOOLEAN /\ clean \in BOOLEAN /\ failures \in 0..MaxFailures
  /\ optIn \subseteq known /\ known \subseteq Broadcasters /\ left \in [Ops -> 0..Unlimited]
  /\ expect \subseteq Broadcasters \X Required

\* Without failures, who unsubscribes on purpose takes all of a pair or nothing; and a surplus one
\* that an audit is about to delete has another before it in the list, or goes with all.
Takes(t, s) == /\ task[t].op \in {"banish", "prune", "force"}
               /\ s \in Remembered(task[t])
CoverageKnow ==
  failures = 0 =>
    /\ \A t \in Tasks : \A s, o \in subs :
         s.on /\ o.on /\ Pair(s) = Pair(o) /\ Takes(t, s) => Takes(t, o)
    /\ \A t \in Tasks : task[t].op = "audit" =>
         \A p \in task[t].todo : \A s \in p.delete \cap subs : s.on =>
           \/ \E o \in subs : o.on /\ Pair(o) = Pair(s) /\ o.id < s.id
           \/ \E u \in Tasks : Takes(u, s)

\* Of a settled broadcaster: what is asked for, each once and enabled; or one task, alone, is
\* about to bring that about.
Have(p) == {s \in BotSubs : Pair(s) = p}
One(set) == \E s \in set : set = {s} /\ s.on
AsAsked(b, more) ==
  \A type \in Required :
    IF Have(<<b, type>>) = {} THEN <<b, type>> \in expect <=> <<b, type>> \in more
                              ELSE One(Have(<<b, type>>)) /\ <<b, type>> \in expect
Mends(r, p) ==
  /\ (\A q \in r.todo : q.pair # p) => One(Have(p))
  /\ \A q \in r.todo : q.pair = p =>
       /\ q.delete \subseteq Have(p)
       /\ IF q.make THEN Have(p) = q.delete ELSE One(Have(p) \ q.delete)
Emptied(r, b) ==
  \A type \in Required : <<b, type>> \notin expect /\ (r.pc = "calls" => Have(<<b, type>>) \subseteq r.delete)
Settles(r, b) ==
  CASE r.op = "banish" -> IF r.b = b THEN Emptied(r, b) ELSE AsAsked(b, {})
    [] r.op = "prune" -> IF b \notin r.keep THEN Emptied(r, b) ELSE AsAsked(b, {})
    [] r.op \in Repairing ->
         /\ r.pc \in {"botlist", "repair"}
         /\ IF b \in r.keep
            THEN \A type \in Required : <<b, type>> \in expect /\ (r.pc = "repair" => Mends(r, <<b, type>>))
            ELSE AsAsked(b, {})
    [] OTHER -> AsAsked(b, r.create)
SettledKnow ==
  \/ settled = {}
  \/ BotRunning = {} /\ \A b \in settled : AsAsked(b, {})
  \/ \E t \in Tasks : BotRunning = {t} /\ \A b \in settled : Settles(task[t], b)

\* While nothing disturbs the overlay's: at most one task is at them, and it is completing them.
Touching == {t \in Running : task[t].op \in {"overlay", "banish", "prune"}}
OnlyOf(set) == \A s \in Ours : s.b \in set
Completes(r) ==
  CASE r.op = "banish" -> r.b \notin paired /\ paired \X Types \subseteq On(Ours) /\ OnlyOf(paired)
    [] r.op = "prune" -> paired \subseteq r.keep /\ paired \X Types \subseteq On(Ours) /\ OnlyOf(paired)
    [] r.op = "overlay" /\ r.pc = "calls" ->
         /\ r.create \subseteq paired \X Types /\ paired \X Types \subseteq On(Ours) \cup r.create
         /\ \A s \in Ours : s.b \in paired \/ s \in r.delete
         /\ \A s \in r.delete : s.b \notin paired
    [] r.op = "overlay" /\ r.pc # "calls" ->
         IF r.b = NoOne
         THEN r.pc = "list" /\ r.keep = paired
         ELSE r.b \notin paired /\ paired \X Types \subseteq On(Ours) /\ OnlyOf(paired \cup {r.b})
CleanKnow ==
  booted /\ clean =>
    \/ Touching = {} /\ paired \X Types \subseteq On(Ours) /\ OnlyOf(paired)
    \/ \E t \in Tasks : Touching = {t} /\ Completes(task[t])

RepairInv == Shapes /\ IdsKnow /\ CoverageKnow /\ SettledKnow /\ CleanKnow
=============================================================================
