----------------------------- MODULE BotChannel -----------------------------
(***************************************************************************)
(* The bot in one channel: go-live and go-offline webhooks, !joinme,       *)
(* !banish, the chat-read grant, a restart, and what belongs to a stream:  *)
(* its key, the per-stream loads and one chatter's !dad allotment.         *)
(*                                                                         *)
(* core-api keeps the users row; it is read in one statement and written   *)
(* back whole in another, so what happens between the two is lost.  Each   *)
(* handler and each goroutine it starts is a job.  Twitch, outside src/:   *)
(* events of the stream are numbered (odd: it begins), sent while there    *)
(* are subscriptions, and delivered late, again, or in any order.          *)
(***************************************************************************)
EXTENDS Bags, FiniteSets, Naturals, Sequences

CONSTANTS
  Limit,      \* dadPerStreamLimit
  Starts      \* initial situations: [row, permanent, loads, left]

Requests == {"turn", "hook", "join", "banish", "signin", "restart", "roll", "mod", "grant", "fail"}

NoRow == [exists |-> FALSE, live |-> FALSE, key |-> 0, optIn |-> FALSE]
Users == [exists : {TRUE}, live : BOOLEAN, key : 0..1, optIn : BOOLEAN]
ASSUME ConstantsAssumption ==
  /\ Limit \in Nat \ {0}
  /\ \A s \in Starts :
       /\ s.left \in [Requests -> Nat] /\ s.permanent \in BOOLEAN /\ s.loads \subseteq {"custom", "stalk"}
       /\ s.row = NoRow \/ s.row \in Users

VARIABLES
  twitch,   \* [events, sent, hears, modded, chatSub, revoked]
  row,      \* users: [exists, live, key, optIn]
  usage,    \* dad_usage of the chatter: [key, count]
  bot,      \* memory: [live, joined, channels, joining, granting, loaded, rolls]
  jobs,     \* bag of handlers and goroutines: [op, pc, row, n, alive]
  channel,  \* what does not change: [permanent, loads], loads being what is configured
  left,     \* bound: how many more of each request
  hist      \* history: [heard, member, keys, served, refused, reset, mishaps]

vars == <<twitch, row, usage, bot, jobs, channel, left, hist>>

Go(op, pc) == [op |-> op, pc |-> pc, row |-> NoRow, n |-> 0, alive |-> TRUE]
Streaming == twitch.events % 2 = 1
StreamNo == (twitch.events + 1) \div 2
Larger(m, n) == IF m > n THEN m ELSE n

Boot(r) ==
  [live |-> r.optIn /\ r.live, joined |-> channel.permanent \/ (r.optIn /\ r.live),
   channels |-> IF r.optIn THEN <<FALSE>> ELSE <<>>,
   joining |-> FALSE, granting |-> FALSE, loaded |-> {}, rolls |-> 0]

Init ==
  /\ \E s \in Starts :
       /\ row = s.row /\ left = s.left
       /\ channel = [permanent |-> s.permanent, loads |-> s.loads]
  /\ twitch = [events |-> 0, sent |-> {}, hears |-> row.optIn,
               modded |-> FALSE, chatSub |-> FALSE, revoked |-> 0]
  /\ usage = [key |-> row.key, count |-> row.key]
  /\ bot = Boot(row)
  /\ jobs = EmptyBag
  /\ hist = [heard |-> 0, member |-> row.optIn, keys |-> IF row.key = 0 THEN <<>> ELSE <<0>>, served |-> 0, refused |-> 0,
             reset |-> 0, mishaps |-> IF row.live THEN {{"skipped"}} ELSE {}]
-----------------------------------------------------------------------------
Running == BagToSet(jobs)
Quiet == Running = {}
Tracked == bot.channels # <<>>

One(o) == SetToBag({o})
Starting(new) == jobs' = jobs (+) SetToBag(new)
End(o) == jobs' = jobs (-) One(o)
Become(o, next) == jobs' = (jobs (-) One(o)) (+) One(next)
StepTo(o, pc) == Become(o, [o EXCEPT !.pc = pc])

Spend(request) == left[request] > 0 /\ left' = [left EXCEPT ![request] = @ - 1]

\* History: which kinds of work that may disturb each other overlapped, and what failed.
RowWork == {"online", "offline", "join", "banish", "signin", "restart"}
Disturbs == {{"offline", "load"}, {"revocation", "grant"}, {"revocation", "hydrate"}, {"online", "rehydrate"},
             {"banish", "grant"}, {"banish", "hydrate"}, {"restart", "persist"}}
Beside(kind) ==
  {pair \in {{kind, o.op} : o \in Running} : pair \subseteq RowWork \/ pair \in Disturbs}
Mishap(set) == hist' = [hist EXCEPT !.mishaps = @ \cup set]
Fails(what) == Spend("fail") /\ Mishap({{what}})
-----------------------------------------------------------------------------
\* Twitch: the stream begins or ends; the event is sent to whoever is subscribed.
StreamTurns ==
  /\ Spend("turn")
  /\ LET e == twitch.events + 1
     IN /\ twitch' = [twitch EXCEPT !.events = e,
                                    !.sent = IF twitch.hears THEN @ \cup {e} ELSE @]
        /\ hist' = [hist EXCEPT !.served = IF e % 2 = 1 THEN 0 ELSE @,
                                !.refused = IF e % 2 = 1 THEN 0 ELSE @,
                                !.mishaps = IF twitch.hears THEN @ ELSE @ \cup {{"missed"}}]
  /\ UNCHANGED <<row, usage, bot, jobs, channel>>

\* An event is late after a later one, past when another stream has begun since.
Delivered(e, op, mishaps) ==
  hist' = [hist EXCEPT !.heard = Larger(@, e),
             !.mishaps = @ \cup Beside(op) \cup mishaps
                           \cup (IF (e + 1) \div 2 < StreamNo THEN {{"past"}} ELSE {})
                           \cup (CASE e < hist.heard -> {{"late"}}
                                   [] e > hist.heard + 1 -> {{"skipped"}} [] OTHER -> {})]

\* handleGoLive, up to its first call.
GoLive(e) ==
  /\ e \in twitch.sent /\ e % 2 = 1
  /\ Spend("hook")
  /\ Starting({Go("online", "start")})
  /\ Delivered(e, "online", {})
  /\ UNCHANGED <<twitch, row, usage, bot, channel>>

\* Permanent and tracked channels go on; for others core-api's opt-in decides.
GoLiveGuard(o) ==
  /\ o.op = "online" /\ o.pc = "start"
  /\ IF channel.permanent \/ Tracked
     THEN StepTo(o, "read") /\ bot' = [bot EXCEPT !.live = TRUE]
     ELSE StepTo(o, "ask") /\ UNCHANGED bot
  /\ UNCHANGED <<twitch, row, usage, channel, left, hist>>

AskAnswers(o, optedIn) ==
  /\ o.pc = "ask"
  /\ IF optedIn THEN StepTo(o, "read") /\ bot' = [bot EXCEPT !.live = TRUE]
                ELSE End(o) /\ UNCHANGED bot
\* Mutant: whoever has a row is joined.
AskForRow(o) == AskAnswers(o, row.exists) /\ UNCHANGED <<twitch, row, usage, channel, left, hist>>
AskOptIn(o) == AskAnswers(o, row.optIn) /\ UNCHANGED <<twitch, row, usage, channel, left, hist>>
\* "Fail open (join) on error".
AskFails(o) ==
  /\ AskAnswers(o, TRUE)
  /\ Fails("ask")
  /\ UNCHANGED <<twitch, row, usage, channel>>

GoLiveJoins(o) ==
  /\ o.op = "online" /\ o.pc = "join"
  /\ bot' = [bot EXCEPT !.joined = TRUE]
  /\ StepTo(o, "fresh")
  /\ UNCHANGED <<twitch, row, usage, channel, left, hist>>

\* loadCustomCommands, loadStalkTarget, of what is configured.
Loads == {Go("load", what) : what \in channel.loads}

\* After `say` and fetchAutoShoutChatters: the loads, and startDadStream.
GoLiveFresh(o) ==
  /\ o.op = "online" /\ o.pc = "fresh"
  /\ jobs' = (jobs (-) One(o)) (+) SetToBag(Loads)
  /\ bot' = [bot EXCEPT !.rolls = 0]
  /\ hist' = [hist EXCEPT !.reset = (hist.heard + 1) \div 2,
                          !.mishaps = IF Streaming /\ hist.served > 0 THEN @ \cup {{"again"}} ELSE @]
  /\ UNCHANGED <<twitch, row, usage, channel, left>>

\* handleGoOffline has no call in it; the push of the state is a goroutine.
OfflineThen(e, loaded) ==
  /\ e \in twitch.sent /\ e % 2 = 0
  /\ Spend("hook")
  /\ bot' = [bot EXCEPT !.live = FALSE, !.joined = channel.permanent, !.rolls = 0, !.loaded = loaded]
  /\ Starting({Go("offline", "read")})
  /\ Delivered(e, "offline", IF Streaming THEN {{"late"}} ELSE {})
  /\ UNCHANGED <<twitch, row, usage, channel>>
\* Mutant: the stalk watch is not dropped.
OfflineKeepsWatch(e) == OfflineThen(e, bot.loaded \cap {"stalk"})
GoOffline(e) == OfflineThen(e, {})

Load(o) ==
  /\ o.op = "load"
  /\ bot' = [bot EXCEPT !.loaded = @ \cup {o.pc}]
  /\ End(o)
  /\ UNCHANGED <<twitch, row, usage, channel, left, hist>>
-----------------------------------------------------------------------------
\* The users row: PutChannelState, SetBotOptIn and NewPutNewUser read it, then write all of it.
ReadRow(o) ==
  /\ o.pc = "read"
  /\ Become(o, [o EXCEPT !.row = row, !.pc = "write"])
  /\ UNCHANGED <<twitch, row, usage, bot, channel, left, hist>>

NewKey == Len(hist.keys) + 1
PutLive(r, mint) == [r EXCEPT !.live = TRUE, !.key = IF mint THEN NewKey ELSE @]
\* Mutant: every go-live mints a key.
MintAlways(r) == PutLive(r, TRUE)
MintOnTransition(r) == PutLive(r, ~r.live)

OptedIn(r, live) == IF r.exists THEN [r EXCEPT !.optIn = TRUE]
                    ELSE [exists |-> TRUE, live |-> live, key |-> 0, optIn |-> TRUE]
Written(o) ==
  CASE o.op = "online"  -> MintOnTransition(o.row)
    [] o.op = "offline" -> [o.row EXCEPT !.live = FALSE]
    [] o.op = "banish"  -> [o.row EXCEPT !.optIn = FALSE]
    [] o.op = "join"    -> OptedIn(o.row, o.n = 1)
AfterWrite(op) == CASE op = "online" -> "join" [] op = "banish" -> "filter"
                    [] op = "join" -> "append" [] OTHER -> "over"
\* A job whose call is over goes on, unless the bot that made it is gone.
GoesOn(o) == IF o.alive /\ o.op # "offline" THEN StepTo(o, AfterWrite(o.op)) ELSE End(o)

\* Without a row there is nothing to update; with one there is nothing to insert.
CanWrite(o) == o.row.exists \/ (o.op = "join" /\ ~row.exists)
Midstream(op) == IF Streaming /\ op \in {"join", "signin"} THEN {{"midstream"}} ELSE {}
WriteRow(o) ==
  /\ o.pc = "write" /\ CanWrite(o)
  /\ row' = Written(o)
  /\ hist' = [hist EXCEPT !.keys = IF row'.key = NewKey THEN Append(@, StreamNo) ELSE @,
                          !.member = CASE o.op = "join" -> TRUE
                                       [] o.op = "banish" -> FALSE [] OTHER -> @,
                          !.mishaps = @ \cup Midstream(o.op)]
  /\ GoesOn(o)
  /\ UNCHANGED <<twitch, usage, bot, channel, left>>

\* The call fails: all but !joinme go on, which leaves joinInFlight.
GivesUpWith(o, joining) ==
  IF o.op = "join" /\ o.alive
  THEN End(o) /\ bot' = [bot EXCEPT !.joining = joining]
  ELSE GoesOn(o) /\ UNCHANGED bot
\* Mutant: only a join that succeeds leaves joinInFlight.
GivesUpHolding(o) == GivesUpWith(o, bot.joining)
GivesUp(o) == GivesUpWith(o, FALSE)
WriteRefused(o) ==
  /\ o.pc = "write" /\ ~CanWrite(o)
  /\ GivesUp(o)
  /\ Mishap({{"refused"}})
  /\ UNCHANGED <<twitch, row, usage, channel, left>>
CallFails(o) ==
  /\ o.pc = "read"
  /\ GivesUp(o)
  /\ Fails(o.op)
  /\ UNCHANGED <<twitch, row, usage, channel>>
-----------------------------------------------------------------------------
\* joinNewUser by the broadcaster: nothing if tracked, or another one is in flight.
JoinWhen(free) ==
  /\ ~Tracked /\ free
  /\ Spend("join")
  /\ bot' = [bot EXCEPT !.joining = TRUE, !.joined = TRUE]
  /\ Starting({Go("join", "profile")})
  /\ Mishap(Beside("join"))
  /\ UNCHANGED <<twitch, row, usage, channel>>
\* Mutant: joinInFlight is not consulted.
JoinMeAgain == JoinWhen(TRUE)
JoinMe == JoinWhen(~bot.joining)

\* FetchTwitchProfile, and IsStreamLive, whose error counts as "not live".
JoinLooksUp(o) ==
  /\ o.pc = "profile"
  /\ Become(o, [o EXCEPT !.pc = "read", !.n = IF Streaming THEN 1 ELSE 0])
  /\ UNCHANGED <<twitch, row, usage, bot, channel, left, hist>>
ProfileFails(o) ==
  /\ o.pc = "profile"
  /\ GivesUp(o)
  /\ Fails("profile")
  /\ UNCHANGED <<twitch, row, usage, channel>>

\* Subscribes, then appends to the tracked channels and leaves joinInFlight.
JoinAppends(o) ==
  /\ o.pc = "append"
  /\ twitch' = [twitch EXCEPT !.hears = TRUE]
  /\ bot' = [bot EXCEPT !.channels = Append(@, FALSE), !.joining = FALSE]
  /\ End(o)
  /\ UNCHANGED <<row, usage, channel, left, hist>>

\* banishChannel: depart; delete the subscriptions; not live; opt out; forget.
Banish ==
  /\ ~channel.permanent /\ (bot.joined \/ Tracked)
  /\ Spend("banish")
  /\ bot' = [bot EXCEPT !.joined = FALSE]
  /\ Starting({Go("banish", "unsubscribe")})
  /\ hist' = [hist EXCEPT !.mishaps = @ \cup Beside("banish")]
  /\ UNCHANGED <<twitch, row, usage, channel>>
BanishUnsubscribes(o) ==
  /\ o.pc = "unsubscribe"
  /\ twitch' = [twitch EXCEPT !.hears = FALSE, !.chatSub = FALSE]
  /\ bot' = [bot EXCEPT !.live = FALSE]
  /\ StepTo(o, "read")
  /\ UNCHANGED <<row, usage, channel, left, hist>>
BanishFilters(o) ==
  /\ o.pc = "filter"
  /\ bot' = [bot EXCEPT !.channels = <<>>]
  /\ End(o)
  /\ UNCHANGED <<twitch, row, usage, channel, left, hist>>

\* Somebody new signs in on the web: a row, subscriptions, nothing in the bot.
SignIn ==
  /\ ~row.exists
  /\ Spend("signin")
  /\ row' = [NoRow EXCEPT !.exists = TRUE, !.optIn = TRUE]
  /\ twitch' = [twitch EXCEPT !.hears = TRUE]
  /\ hist' = [hist EXCEPT !.member = TRUE, !.mishaps = @ \cup Beside("signin") \cup Midstream("signin")]
  /\ UNCHANGED <<usage, bot, jobs, channel>>

\* The bot stops and starts again; a write core-api has begun is finished all the same.
Restart ==
  /\ Spend("restart")
  /\ bot' = Boot(row)
  /\ LET writes == {o \in Running : o.pc = "write"}
         new == (IF bot'.live THEN {Go("rehydrate", "get")} \cup Loads ELSE {})
                \cup (IF Tracked' /\ twitch.chatSub THEN {Go("hydrate", "seed")} ELSE {})
     IN jobs' = SetToBag({[o EXCEPT !.alive = FALSE] : o \in writes} \cup new)
  /\ Mishap(Beside("restart") \cup IF Streaming /\ hist.served > 0 /\ ~bot'.live THEN {{"unseeded"}} ELSE {})
  /\ UNCHANGED <<twitch, row, usage, channel>>
-----------------------------------------------------------------------------
\* checkDadLimit: serve, refuse once, then silence; what is counted is persisted later.
RollUpTo(limit) ==
  /\ bot.rolls <= limit
  /\ Spend("roll")
  /\ bot' = [bot EXCEPT !.rolls = @ + 1]
  /\ Starting({[Go("persist", "persist") EXCEPT !.n = IF Streaming THEN StreamNo ELSE 0]})
  /\ hist' = [hist EXCEPT
       !.served = IF Streaming /\ bot.rolls < limit THEN @ + 1 ELSE @,
       !.refused = IF Streaming /\ bot.rolls = limit THEN @ + 1 ELSE @,
       !.mishaps = @ \cup (IF \E o \in Running : o.op = "rehydrate" THEN {{"early roll"}} ELSE {})
                     \cup (IF Streaming /\ hist.reset # StreamNo THEN {{"unreset"}} ELSE {})]
  /\ UNCHANGED <<twitch, row, usage, channel>>
\* Mutant: the limit itself is served.
RollPastLimit == RollUpTo(Limit + 1)
Roll == RollUpTo(Limit)

KeyStream(key) == IF key = 0 THEN 0 ELSE hist.keys[key]

\* IncrementRoll stamps the key of the moment, and starts at 1 under a new one.
Stamped(u, key) == [key |-> key, count |-> IF u.key # key THEN 1 ELSE u.count + 1]
PersistStamps(o, after) ==
  /\ o.pc = "persist"
  /\ usage' = IF Tracked /\ row.exists THEN after ELSE usage
  /\ Mishap(IF Streaming /\ ~(Tracked /\ (o.n = StreamNo) = (KeyStream(row.key) = StreamNo))
            THEN {{"stamp"}} ELSE {})
  /\ End(o)
  /\ UNCHANGED <<twitch, row, bot, channel, left>>
\* Mutant: the count goes on under a new key.
PersistAddsUp(o) == PersistStamps(o, [key |-> row.key, count |-> usage.count + 1])
PersistRoll(o) == PersistStamps(o, Stamped(usage, row.key))

\* GetCurrentStreamUsage, then merged by maximum.
RehydrateReads(o) ==
  /\ o.op = "rehydrate" /\ o.pc = "get"
  /\ Become(o, [o EXCEPT !.pc = "merge", !.n = IF usage.key = row.key THEN usage.count ELSE 0])
  /\ Mishap(IF KeyStream(row.key) = StreamNo THEN {} ELSE {{"stamp"}})
  /\ UNCHANGED <<twitch, row, usage, bot, channel, left>>
Merging(o, n) ==
  /\ o.pc = "merge"
  /\ bot' = [bot EXCEPT !.rolls = n]
  /\ End(o)
  /\ UNCHANGED <<twitch, row, usage, channel, left, hist>>
\* Mutant: only counters there already are merged.
MergeKnown(o) == Merging(o, IF bot.rolls = 0 THEN 0 ELSE Larger(bot.rolls, o.n))
RehydrateMerges(o) == Merging(o, Larger(bot.rolls, o.n))

\* Best effort: loads, persists and rehydrations that fail are only logged.
BestEffortFails(o) ==
  /\ o.pc \in {"persist", "get"} \/ o.op \in {"load", "hydrate"}
  /\ End(o)
  /\ Fails(o.op)
  /\ UNCHANGED <<twitch, row, usage, bot, channel>>
-----------------------------------------------------------------------------
\* Chat-read: the broadcaster mods or unmods the bot; then Twitch sends a revocation.
Mod ==
  /\ Spend("mod")
  /\ LET on == ~twitch.modded
     IN twitch' = [twitch EXCEPT !.modded = on, !.chatSub = @ /\ on,
                                 !.revoked = IF @ = 0 /\ twitch.chatSub /\ ~on THEN 1 ELSE @]
  /\ UNCHANGED <<row, usage, bot, jobs, channel, hist>>
WithPrivs(v) == [i \in DOMAIN bot.channels |-> v]
Revocation ==
  /\ twitch.revoked > 0
  /\ twitch' = [twitch EXCEPT !.revoked = @ - 1]
  /\ bot' = [bot EXCEPT !.channels = WithPrivs(FALSE)]
  /\ Mishap(Beside("revocation"))
  /\ UNCHANGED <<row, usage, jobs, channel, left>>

\* tryGrantChatRead: one at a time, only for a tracked channel without the flag.
GrantStarts ==
  /\ ~bot.granting /\ Tracked /\ ~bot.channels[1]
  /\ Spend("grant")
  /\ bot' = [bot EXCEPT !.granting = TRUE]
  /\ Starting({Go("grant", "subscribe")})
  /\ Mishap(Beside("grant"))
  /\ UNCHANGED <<twitch, row, usage, channel>>
GrantSubscribes(o, accepted) ==
  /\ o.pc = "subscribe"
  /\ twitch' = [twitch EXCEPT !.chatSub = @ \/ twitch.modded]
  /\ IF accepted THEN StepTo(o, "grant") /\ UNCHANGED bot
                 ELSE End(o) /\ bot' = [bot EXCEPT !.granting = FALSE]
  /\ UNCHANGED <<row, usage, channel, left, hist>>
\* Mutant: any answer of Twitch counts as accepted.
GrantTakesAnyAnswer(o) == GrantSubscribes(o, TRUE)
GrantAsks(o) == GrantSubscribes(o, twitch.modded)
GrantSets(o) ==
  /\ o.pc = "grant"
  /\ bot' = [bot EXCEPT !.granting = FALSE, !.channels = WithPrivs(TRUE)]
  /\ End(o)
  /\ UNCHANGED <<twitch, row, usage, channel, left, hist>>

\* hydrateChatReadPrivs, listed at boot: what is enabled at Twitch has been granted.
HydrateSeeds(o) ==
  /\ o.pc = "seed"
  /\ bot' = [bot EXCEPT !.channels = WithPrivs(TRUE)]
  /\ End(o)
  /\ UNCHANGED <<twitch, row, usage, channel, left, hist>>
-----------------------------------------------------------------------------
RowStep(o) == ReadRow(o) \/ WriteRow(o) \/ WriteRefused(o) \/ CallFails(o)
GoLiveStep(o) == GoLiveGuard(o) \/ AskOptIn(o) \/ AskFails(o) \/ GoLiveJoins(o) \/ GoLiveFresh(o)
MemberStep(o) == \/ JoinLooksUp(o) \/ ProfileFails(o) \/ JoinAppends(o)
                 \/ BanishUnsubscribes(o) \/ BanishFilters(o)
DadStep(o) == PersistRoll(o) \/ RehydrateReads(o) \/ RehydrateMerges(o)
PrivStep(o) == GrantAsks(o) \/ GrantSets(o) \/ HydrateSeeds(o)
JobStep(o) == \/ RowStep(o) \/ GoLiveStep(o) \/ MemberStep(o) \/ Load(o) \/ DadStep(o)
              \/ BestEffortFails(o) \/ PrivStep(o)

Next ==
  \/ StreamTurns \/ Mod
  \/ \E e \in twitch.sent : GoLive(e) \/ GoOffline(e)
  \/ JoinMe \/ Banish \/ SignIn \/ Restart \/ Roll \/ Revocation \/ GrantStarts
  \/ \E o \in Running : JobStep(o)

Spec == Init /\ [][Next]_vars
-----------------------------------------------------------------------------
Rows == [exists : BOOLEAN, live : BOOLEAN, key : Nat, optIn : BOOLEAN]
\* The types; and joinInFlight and grantInFlight are held exactly while their job runs,
\* so a failure on the way never keeps the next !joinme or grant out.
InFlight(op) == \E o \in Running : o.op = op /\ o.alive
TypeOK ==
  /\ row \in Rows /\ usage \in [key : Nat, count : Nat]
  /\ {row.key, usage.key} \subseteq 0..Len(hist.keys)
  /\ twitch.sent \subseteq 1..twitch.events
  /\ bot.rolls \in Nat /\ bot.loaded \subseteq {"custom", "stalk"}
  /\ \A o \in Running : o.row \in Rows /\ o.n \in Nat

Settled == Quiet /\ hist.heard = twitch.events
Without(mishaps) == hist.mishaps \cap mishaps = {}
With(kind, others) == {{kind, other} : other \in others}

\* isTrackedChannel and joinInFlight: config.Channels holds the channel at most once, and
\* the claims of a join and of a grant are given back on every return.
TrackedOnce ==
  /\ Len(bot.channels) <= 1
  /\ bot.joining = InFlight("join") /\ bot.granting = InFlight("grant")

\* Once the last event of the stream is handled, bot and row agree with Twitch, the
\* stream has a key of its own, and the per-stream state of the bot is gone with it;
\* unless a push failed, was late, or raced another writer of the row.
LiveConverges ==
  Settled /\ hist.member
  /\ Without({{"online"}, {"offline"}, {"banish"}, {"late"}, {"skipped"}, {"midstream"}}
             \cup With("offline", {"online", "join", "banish", "restart", "load"})
             \cup With("online", {"join", "restart"})) =>
    /\ bot.live = Streaming /\ row.live = Streaming
    /\ Streaming => bot.joined /\ KeyStream(row.key) = StreamNo
    /\ Streaming \/ bot.loaded = {}

\* Restarts and failed calls included, "Twitch's duplicate go-live webhooks don't spawn
\* a second key mid-stream", as long as the pushes of the state do not overlap.
KeyPerStream ==
  Without({{"online"}, {"late"}, {"past"}} \cup With("online", {"offline", "banish", "join"})) =>
    \A m, n \in DOMAIN hist.keys : hist.keys[m] = hist.keys[n] => m = n

\* !banish opts the channel out "permanently": once it is over, nothing of the channel
\* stays or comes back, unless something else wrote the row or joined meanwhile.
BanishSticks ==
  Quiet /\ ~hist.member /\ ~channel.permanent /\ row.exists
  /\ Without({{"banish"}, {"profile"}, {"join"}, {"ask"}} \cup With("banish", {"online", "offline", "join", "restart"})) =>
    ~row.optIn /\ ~bot.live /\ ~bot.joined /\ ~Tracked

\* In one stream a chatter is served up to the limit, warned once, and not before:
\* "so a restart mid-stream doesn't hand every chatter a fresh allotment".
DadAllotment ==
  Without({{"again"}, {"late"}, {"stamp"}, {"early roll"}, {"unreset"}, {"unseeded"}, {"persist"}, {"rehydrate"}}
          \cup With("restart", {"persist", "online"})
          \cup With("online", {"offline", "banish", "join", "rehydrate"})) =>
    /\ hist.served <= Limit /\ hist.refused <= 1
    /\ hist.refused = 1 => hist.served = Limit

\* hasPrivs is what Twitch says, once every revocation has been received; unless a
\* revocation or a !banish overtook the grant.
PrivsAreReal ==
  Quiet /\ twitch.revoked = 0 /\ Tracked /\ bot.channels[1]
  /\ Without(With("grant", {"revocation", "banish"}) \cup With("hydrate", {"revocation", "banish"})) =>
    twitch.chatSub
-----------------------------------------------------------------------------
(* Inductive strengthenings, for BotChannelProofs.                         *)

Kinds == RowWork \cup {"load", "persist", "rehydrate", "grant", "hydrate", "revocation"}
Words == Kinds \cup {"ask", "profile", "missed", "late", "skipped", "past", "again", "midstream", "refused",
                    "stamp", "early roll", "unreset", "unseeded"}
Shapes ==
  /\ twitch \in [events : Nat, sent : SUBSET Nat, hears : BOOLEAN, modded : BOOLEAN,
                  chatSub : BOOLEAN, revoked : Nat]
  /\ bot \in [live : BOOLEAN, joined : BOOLEAN, channels : Seq(BOOLEAN), joining : BOOLEAN,
               granting : BOOLEAN, loaded : SUBSET {"custom", "stalk"}, rolls : Nat]
  /\ hist \in [heard : Nat, member : BOOLEAN, keys : Seq(Nat), served : Nat, refused : Nat,
                reset : Nat, mishaps : SUBSET SUBSET Words]
  /\ channel \in [permanent : BOOLEAN, loads : SUBSET {"custom", "stalk"}]
  /\ left \in [Requests -> Nat]

\* A job is at a step of its kind; one whose process is gone is a write core-api finishes.
Steps == {<<"online", "start">>, <<"online", "ask">>, <<"online", "read">>, <<"online", "write">>,
          <<"online", "join">>, <<"online", "fresh">>, <<"offline", "read">>, <<"offline", "write">>,
          <<"join", "profile">>, <<"join", "read">>, <<"join", "write">>, <<"join", "append">>,
          <<"banish", "unsubscribe">>, <<"banish", "read">>, <<"banish", "write">>,
          <<"banish", "filter">>, <<"load", "custom">>, <<"load", "stalk">>, <<"persist", "persist">>,
          <<"rehydrate", "get">>, <<"rehydrate", "merge">>, <<"grant", "subscribe">>,
          <<"grant", "grant">>, <<"hydrate", "seed">>}
Jobs == [op : Kinds, pc : {step[2] : step \in Steps}, row : Rows, n : Nat, alive : BOOLEAN]
IsJob(o) ==
  /\ o \in Jobs /\ <<o.op, o.pc>> \in Steps /\ o.row.key <= Len(hist.keys)
  /\ o.alive \/ o.pc = "write"
JobsKnow == jobs \in [Running -> Nat \ {0}] /\ \A o \in Running : IsJob(o)

Ranges ==
  /\ row \in Rows /\ usage \in [key : Nat, count : Nat]
  /\ {row.key, usage.key} \subseteq 0..Len(hist.keys)
  /\ twitch.sent \subseteq 1..twitch.events

BaseInv == Shapes /\ JobsKnow /\ Ranges

\* A claim is one job's, and the channel is not tracked while one of joining is held.
Held(op) == {o \in Running : o.op = op /\ o.alive}
Single(op) == \A o, p \in Held(op) : o = p /\ jobs[o] = 1
ClaimsKnow ==
  /\ TrackedOnce /\ Single("join") /\ Single("grant")
  /\ Held("join") # {} => ~Tracked

\* Unless something disturbed them, what grants and hydrations are about to set is so, and
\* a flag is only wrong until a revocation arrives or a !banish is over.
Granted == twitch.chatSub \/ twitch.revoked > 0
PrivsKnow ==
  Without(With("grant", {"revocation", "banish"}) \cup With("hydrate", {"revocation", "banish"})) =>
    /\ \A o \in Running : (o.op = "grant" /\ o.pc = "grant") \/ o.op = "hydrate" => Granted
    /\ \A o, p \in Running : o.op \in {"grant", "hydrate"} /\ p.op = "banish" => ~p.alive
    /\ Tracked /\ bot.channels[1] => Granted \/ Held("banish") # {}

\* An undisturbed !banish is alone with the row; once it is written, nobody takes up the
\* channel but a !joinme, which is under way for as long as the bot is in the channel.
Undisturbed ==
  Without({{"banish"}, {"profile"}, {"join"}, {"ask"}} \cup With("banish", {"online", "offline", "join", "restart"}))
BanishKnow ==
  ~channel.permanent /\ Undisturbed =>
    /\ \A o \in Running : o.op = "banish" =>
         /\ o.alive /\ jobs[o] = 1 /\ ~bot.joined
         /\ \A p \in Running : p.op \in RowWork => p = o
         /\ o.pc # "unsubscribe" => ~bot.live
    /\ ~hist.member /\ row.exists =>
         /\ ~row.optIn /\ ~bot.live
         /\ bot.joined => Held("join") # {}
         /\ Tracked => \E o \in Running : o.op = "banish" /\ o.pc = "filter"
         /\ \A o \in Running :
              /\ o.op = "online" => o.pc \in {"start", "ask"}
              /\ o.op = "offline" /\ o.pc = "write" => ~o.row.optIn
              /\ o.op = "join" => o.pc # "append" /\ (o.pc = "write" => o.row.exists)

\* What a job read of a row that exists stays so: users are not deleted.
RowStays == \A o \in Running : o.row.exists => row.exists

\* Where KeyPerStream excepts nothing: the push of a go-live is alone; the running stream has a
\* key only while the row is live or the stream's end was heard; and no push that would make
\* the row not live, or mint, is of the time before that key.
Pushes == {"online", "offline", "banish", "join"}
Minted == \E m \in DOMAIN hist.keys : hist.keys[m] = StreamNo
EndHeard == hist.heard = 2 * StreamNo
KeysHeld == /\ hist.heard <= twitch.events
            /\ \A m \in DOMAIN hist.keys : hist.keys[m] <= StreamNo
            /\ hist.keys # <<>> => row.exists
KeysWatched == Without({{"online"}, {"late"}, {"past"}} \cup With("online", {"offline", "banish", "join"}))
PushAlone(o) == /\ jobs[o] = 1 /\ hist.heard < 2 * StreamNo
                /\ \A p \in Running : p.op \in Pushes => p = o
KeysKnow ==
  /\ KeysHeld
  /\ KeysWatched =>
       /\ \A m, n \in DOMAIN hist.keys : hist.keys[m] = hist.keys[n] => m = n
       /\ Minted => row.live \/ EndHeard
       /\ \A o \in Running :
            /\ o.op = "online" => PushAlone(o) /\ (o.pc = "write" /\ ~o.row.live => ~Minted)
            /\ \/ o.op = "offline"
               \/ o.op \in {"banish", "join"} /\ o.pc = "write" /\ o.row.exists /\ ~o.row.live
               => (Minted => EndHeard)

\* Where DadAllotment excepts nothing: in a stream the bot has reset for, memory counts the rolls,
\* or a rehydration is about to; what is stored under the stream's key, and what is still to be
\* persisted, add up to them, until a repeated go-live is about to be noted.
Persisting(n) == [Go("persist", "persist") EXCEPT !.n = n]
Rolled == hist.served + hist.refused
Pending == IF Persisting(StreamNo) \in Running THEN jobs[Persisting(StreamNo)] ELSE 0
Stored == IF KeyStream(usage.key) = StreamNo THEN usage.count ELSE 0
Rejoining == \E o \in Running : o.op = "online" /\ o.pc \in {"join", "fresh"}
Rehydrating == \E o \in Running : o.op = "rehydrate"
DadWatched ==
  Without({{"again"}, {"late"}, {"stamp"}, {"early roll"}, {"unreset"}, {"unseeded"}, {"persist"}, {"rehydrate"}}
          \cup With("restart", {"persist", "online"})
          \cup With("online", {"offline", "banish", "join", "rehydrate"}))
RollsHeld == /\ hist.reset <= (hist.heard + 1) \div 2
             /\ \A o \in Running : o.op = "persist" => o = Persisting(o.n) /\ o.n <= StreamNo
Tally == hist.served <= Limit /\ hist.refused <= 1 /\ (hist.refused = 1 => hist.served = Limit)
DadJob(o) ==
  /\ o.op = "online" => o.alive /\ \A p \in Running : p.op \notin {"offline", "banish", "join", "rehydrate"}
  /\ o.op \in {"offline", "banish", "join"} /\ o.pc = "write" /\ o.row.exists => o.row.key = row.key
  /\ o.op = "rehydrate" =>
       /\ jobs[o] = 1 /\ bot.rolls = 0
       /\ \A p \in Running : p.op # "persist" /\ (p.op = "rehydrate" => p = o)
       /\ o.pc = "merge" /\ Streaming /\ hist.reset = StreamNo => o.n = Rolled
Accounts ==
  /\ hist.reset # StreamNo => Rolled = 0
  /\ hist.reset = StreamNo /\ ~Rehydrating => bot.rolls = Rolled
  /\ Rolled = 0 \/ ~Rejoining =>
       /\ Pending + Stored = Rolled
       /\ KeyStream(usage.key) = StreamNo => usage.count >= 1 /\ usage.key = row.key
DadKnow ==
  /\ RollsHeld
  /\ DadWatched => Tally /\ (\A o \in Running : DadJob(o)) /\ (Streaming => Accounts)

\* Where LiveConverges excepts nothing, and no event was missed: the pushes are apart; whoever is a
\* member is opted in, also in an image that is about to be written. Between streams nothing is live,
\* but for what an offline push is about to write. While the stream's go-live is the last event, the
\* row has the stream's key, or a go-live, alone, is about to see to it; and the bot is live in the
\* channel, but for a !banish that is about to opt it out.
LiveExcepted == {{"online"}, {"offline"}, {"banish"}, {"late"}, {"skipped"}, {"midstream"}}
                \cup With("offline", {"online", "join", "banish", "restart", "load"})
                \cup With("online", {"join", "restart"})
LiveWatched == Without(LiveExcepted)
HeardAll == 1..twitch.events \subseteq twitch.sent
LiveApart == \A o, p \in Running : {o.op, p.op} \in LiveExcepted => o = p /\ jobs[o] = 1
Opted == hist.member => row.optIn
Present(o) ==
  /\ o.op \in {"online", "offline"} =>
       row.exists /\ (o.pc = "write" => o.row.exists /\ (hist.member => o.row.optIn))
  /\ o.op = "online" => o.alive
  /\ o.op = "offline" => hist.heard % 2 = 0
  /\ o.op = "join" => /\ o.pc = "append" => row.exists
                      /\ o.n = 1 /\ o.pc \in {"read", "write"} => row.exists
                      /\ o.n = 1 /\ o.pc = "write" => o.row.exists
Aligned == /\ LiveApart /\ Opted /\ \A o \in Running : Present(o)
           /\ twitch.hears \/ twitch.events > 0 => row.exists
Between ==
  /\ ~bot.live /\ bot.loaded = {} /\ \A o \in Running : o.op \notin {"online", "load"}
  /\ \/ \E o \in Running : o.op = "offline"
     \/ ~row.live /\ \A o \in Running : o.pc = "write" => ~o.row.live
Dooms(o) == o.op = "banish" /\ o.alive /\ o.pc # "filter" /\ (o.pc = "write" => o.row.exists)
Doomed == \E o \in Running : Dooms(o)
OfStream(r) == r.live => KeyStream(r.key) = StreamNo
GoesLive(o) ==
  /\ o.pc = "write" => OfStream(o.row)
  /\ o.pc \in {"join", "fresh"} => row.live
  /\ o.pc \notin {"start", "ask"} => bot.live \/ Doomed
  /\ o.pc = "fresh" => bot.joined \/ Doomed
During ==
  /\ OfStream(row) /\ \A o \in Running : o.op = "online" => GoesLive(o)
  /\ (\E o \in Running : o.op = "online") \/ (row.live /\ ((bot.live /\ bot.joined) \/ Doomed))
Airing == Streaming /\ hist.heard = twitch.events /\ hist.member
LiveGood ==
  /\ 1..hist.heard \subseteq twitch.sent
  /\ HeardAll => Aligned /\ (hist.heard % 2 = 0 => Between) /\ (Airing => During)
LiveKnow == LiveWatched => LiveGood

ChannelInv == BaseInv /\ RowStays /\ ClaimsKnow /\ PrivsKnow /\ BanishKnow /\ KeysKnow /\ DadKnow /\ LiveKnow
=============================================================================
