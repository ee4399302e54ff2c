------------------------------ MODULE SayQueue ------------------------------
(***************************************************************************)
(* What the bot posts (twitchbot/bot_send_message.go): goroutines that say *)
(* something, among them the promo scheduler (bot.go), the bounded channel *)
(* they share, the one sender with its app token and user token, and the   *)
(* refresh token (twitchauth/refresher.go) it shares with the IRC loop.    *)
(***************************************************************************)
EXTENDS Integers, Sequences

CONSTANTS
  Callers,     \* goroutines that say something, the promo loop excluded
  Promo,       \* the promo loop, with one promo
  Capacity,    \* of sayQueue
  Interval,    \* the promo's interval, in ticks of promoPollInterval
  Boots,       \* what a life may start from: tick, request number, refresh tokens
  MaxChat, MaxSays, MaxTicks, MaxRotations  \* bounds, of the callers' requests and of all

ASSUME ConstantsAssumption ==
  /\ Promo \notin Callers
  /\ Capacity \in Nat \ {0} /\ Interval \in Nat \ {0}
  /\ MaxChat \in Nat /\ MaxSays \in Nat /\ MaxTicks \in Nat /\ MaxRotations \in Nat
  /\ Boots \subseteq [tick : 0..MaxTicks, n : 0..MaxSays,
                      token : 1..(MaxRotations + 1), valid : 1..(MaxRotations + 1)]
  /\ \A b \in Boots : b.token <= b.valid

VARIABLES
  queue,    \* sayQueue's buffer, of requests numbered in the order they were sent
  waiting,  \* the goroutines blocked in a send, with their requests
  asked,    \* how many requests there were
  doing,    \* what the sender and the IRC loop are at
  req,      \* the sender's request
  posted,   \* the request Twitch posted last, and how often in a row
  holder,   \* who holds the Refresher's mutex
  access,   \* its accessToken: usable, or missing or expired
  token,    \* its refreshToken
  answer,   \* the refresh token Twitch answers with; 0: an error
  valid,    \* the refresh token Twitch takes
  lost,     \* did a rotated refresh token never reach this process?
  tick, pending,  \* time, and the tick in ticker.C (0: none)
  scan,     \* the scheduler: step, tick, was the promo enabled?
  last,     \* lastPosted (0: unknown)
  recent    \* when the promo's last three messages entered the buffer, latest first (the boot: none)

channel == <<queue, waiting, asked>>
sending == <<req, posted>>
refresher == <<holder, access, token, answer, valid, lost>>
clock == <<tick, pending>>
promo == <<scan, last, recent>>
vars == <<channel, doing, sending, refresher, clock, promo>>

Users == {"sender", "irc"}
Nobody == "nobody"
NoScan == [pc |-> "wait", now |-> 0, seen |-> FALSE]

\* A boot, which starts from the refresh token of the environment: an earlier life may have
\* been given a newer one.  Ticks and requests are numbered on from those of earlier lives.
Init == \E b \in Boots :
  /\ queue = << >> /\ waiting = << >> /\ asked = b.n
  /\ doing = [u \in Users |-> IF u = "irc" THEN "want" ELSE "idle"]
  /\ req = [n |-> b.n, what |-> "chat"] /\ posted = [n |-> 0, times |-> 0]
  /\ holder = Nobody /\ access = "stale" /\ token = b.token /\ answer = 0
  /\ valid = b.valid /\ lost = (valid # token)
  /\ tick = b.tick /\ pending = 0
  /\ scan = NoScan /\ last = 0 /\ recent = <<tick, tick, tick>>
-----------------------------------------------------------------------------
(* sayQueue.                                                               *)

\* A send enters the buffer, or blocks behind the senders that wait for room.
SendIf(who, what, room) ==
  LET r == [n |-> asked + 1, what |-> what] IN
  /\ asked < MaxSays /\ asked' = asked + 1
  /\ \/ room /\ queue' = Append(queue, r) /\ UNCHANGED waiting
     \/ /\ ~room
        /\ waiting' = Append(waiting, [who |-> who, r |-> r])
        /\ UNCHANGED queue

\* Mutant: the buffer has room for one request more.
SendBeyond(who, what) == SendIf(who, what, Len(queue) <= Capacity)
Send(who, what) == SendIf(who, what, Len(queue) < Capacity)

Blocked(who) == \E i \in DOMAIN waiting : waiting[i].who = who

\* say and announce
Say(c, what) ==
  /\ asked < MaxChat /\ ~Blocked(c) /\ Send(c, what)
  /\ UNCHANGED <<doing, sending, refresher, clock, promo>>

\* The promo loop's send is through.
PromoSent == recent' = <<tick, recent[1], recent[2]>>

\* senderLoop takes a request, and the first goroutine in line gets its place.  An
\* announcement needs the user token.
Take ==
  /\ doing["sender"] = "idle" /\ queue # << >>
  /\ req' = Head(queue)
  /\ doing' = [doing EXCEPT !["sender"] = IF Head(queue).what = "chat" THEN "app" ELSE "want"]
  /\ \/ waiting = << >> /\ queue' = Tail(queue) /\ UNCHANGED <<waiting, recent>>
     \/ /\ waiting # << >>
        /\ queue' = Append(Tail(queue), Head(waiting).r) /\ waiting' = Tail(waiting)
        /\ IF Head(waiting).who = Promo THEN PromoSent ELSE UNCHANGED recent
  /\ UNCHANGED <<asked, posted, refresher, clock, scan, last>>

SenderGoes(to) == doing' = [doing EXCEPT !["sender"] = to]
Posts == posted' = [n |-> req.n, times |-> IF posted.n = req.n THEN posted.times + 1 ELSE 1]

\* sayChatMessage: without an app token, or when Twitch rejects it with a 401 or 403, the
\* message was not posted, and the user token is tried.
NotPosted ==
  /\ doing["sender"] = "app" /\ SenderGoes("want")
  /\ UNCHANGED <<channel, sending, refresher, clock, promo>>

\* Any other outcome, a post or an error that leaves it open whether there was one, is final.
AppPostThen(after) ==
  /\ doing["sender"] = "app"
  /\ \/ Posts /\ (SenderGoes("idle") \/ SenderGoes(after))
     \/ UNCHANGED posted /\ SenderGoes(after)
  /\ UNCHANGED <<channel, req, refresher, clock, promo>>

\* Mutants: every failure is retried with the user token; a failure ends the loop.
AppPostRetried == AppPostThen("want")
AppPostEndsLoop == AppPostThen("ended")
AppPost == AppPostThen("idle")

\* The user token's attempt is the last one.
UserPost ==
  /\ doing["sender"] = "post" /\ SenderGoes("idle")
  /\ Posts \/ UNCHANGED posted
  /\ UNCHANGED <<channel, req, refresher, clock, promo>>
-----------------------------------------------------------------------------
(* Refresher.Token, called by the sender and by the IRC loop.              *)

\* The sender posts with its token; without one the send fails.  The IRC loop connects
\* with what it has.
Returns(u, ok) ==
  doing' = [doing EXCEPT ![u] = IF u = "irc" THEN "connected" ELSE IF ok THEN "post" ELSE "idle"]

Cached(u) ==
  /\ doing[u] = "want" /\ holder = Nobody /\ access = "valid"
  /\ Returns(u, TRUE)
  /\ UNCHANGED <<channel, sending, refresher, clock, promo>>

\* The request, which Twitch refuses, or answers with the same refresh token or a new one.
Refresh(u) ==
  /\ doing[u] = "want" /\ holder = Nobody /\ access = "stale"
  /\ holder' = u /\ doing' = [doing EXCEPT ![u] = "asked"]
  /\ \/ answer' = 0 /\ UNCHANGED valid
     \/ token = valid /\ answer' = valid /\ UNCHANGED valid
     \/ token = valid /\ valid <= MaxRotations /\ answer' = valid + 1 /\ valid' = valid + 1
  /\ UNCHANGED <<channel, sending, access, token, lost, clock, promo>>

RefreshedKeeping(u, kept) ==
  /\ doing[u] = "asked" /\ answer # 0
  /\ token' = kept /\ access' = "valid" /\ answer' = 0 /\ holder' = Nobody
  /\ Returns(u, TRUE)
  /\ UNCHANGED <<channel, sending, valid, lost, clock, promo>>

\* Mutant: the answer's refresh token is not kept.
RefreshedOnce(u) == RefreshedKeeping(u, token)
Refreshed(u) == RefreshedKeeping(u, answer)

\* An error, a timeout or an answer that cannot be read: the old tokens are kept.
RefreshFails(u) ==
  /\ doing[u] = "asked"
  /\ lost' = (lost \/ answer \notin {0, token})
  /\ answer' = 0 /\ holder' = Nobody /\ Returns(u, FALSE)
  /\ UNCHANGED <<channel, sending, access, token, valid, clock, promo>>

Expire ==
  /\ access = "valid" /\ access' = "stale"
  /\ UNCHANGED <<channel, doing, sending, holder, token, answer, valid, lost, clock, promo>>

\* connectWithPanicRecovery: Connect has returned.
Disconnect ==
  /\ doing["irc"] = "connected" /\ doing' = [doing EXCEPT !["irc"] = "want"]
  /\ UNCHANGED <<channel, sending, refresher, clock, promo>>
-----------------------------------------------------------------------------
(* runPromotionMessageLoop.                                                *)

\* time.Ticker drops a tick that finds its channel full.
Tick ==
  /\ tick < MaxTicks /\ tick' = tick + 1
  /\ pending' = IF pending = 0 THEN tick + 1 ELSE pending
  /\ UNCHANGED <<channel, doing, sending, refresher, promo>>

\* GetActivePromos, with the promo unless it is paused by now; an error ends the scan.  The
\* loop may come to a tick late: the sends of other promos hold it up, too.
Fetch ==
  /\ scan.pc = "wait" /\ pending # 0 /\ ~Blocked(Promo)
  /\ pending' = 0
  /\ \/ UNCHANGED scan
     \/ \E enabled \in BOOLEAN : scan' = [pc |-> "scan", now |-> pending, seen |-> enabled]
  /\ UNCHANGED <<channel, doing, sending, refresher, tick, last, recent>>

\* A promo that is gone is forgotten; a new one, or one whose channel is offline by now,
\* starts its interval.
Forget == ~scan.seen /\ last' = 0
Start == scan.seen /\ last' = scan.now
Wait == scan.seen /\ last # 0 /\ scan.now - last < Interval /\ UNCHANGED last
NothingDue ==
  /\ scan.pc = "scan" /\ scan' = NoScan
  /\ Forget \/ Start \/ Wait
  /\ UNCHANGED <<channel, doing, sending, refresher, clock, recent>>

\* A promo that is due is sent, which may block: the next tick waits for that, and
\* lastPosted, set afterwards, is the tick the scan began with.
PostFrom(time) ==
  /\ scan.pc = "scan" /\ scan.seen
  /\ last # 0 /\ scan.now - last >= Interval
  /\ Send(Promo, "chat")
  /\ IF Len(queue) < Capacity THEN PromoSent ELSE UNCHANGED recent
  /\ last' = time /\ scan' = NoScan
  /\ UNCHANGED <<doing, sending, refresher, clock>>

\* Mutant: the time of the post is not kept.
PostForgets == PostFrom(last)
Post == PostFrom(scan.now)
-----------------------------------------------------------------------------
Sender == Take \/ NotPosted \/ AppPost \/ UserPost
Token(u) == Cached(u) \/ Refresh(u)
Answer(u) == Refreshed(u) \/ RefreshFails(u)

Next ==
  \/ \E c \in Callers, what \in {"chat", "announcement"} : Say(c, what)
  \/ Sender \/ (\E u \in Users : Token(u) \/ Answer(u)) \/ Expire \/ Disconnect
  \/ Tick \/ Fetch \/ NothingDue \/ Post

Spec == Init /\ [][Next]_vars

\* Every HTTP client has a timeout, and Go's mutex does not starve a waiter.
FairSpec == /\ Spec /\ WF_vars(Sender) /\ SF_vars(Token("sender"))
            /\ \A u \in Users : WF_vars(Answer(u))
-----------------------------------------------------------------------------
Requests == [n : Nat, what : {"chat", "announcement"}]

ChannelOK ==
  /\ asked \in 0..MaxSays
  /\ queue \in Seq(Requests) /\ Len(queue) <= Capacity
  /\ waiting \in Seq([who : Callers \cup {Promo}, r : Requests])
  /\ req \in Requests /\ posted \in [n : 0..asked, times : Nat]

DoingOK ==
  /\ doing \in [Users -> {"idle", "app", "want", "asked", "post", "connected"}]
  /\ doing["sender"] # "connected" /\ doing["irc"] \in {"want", "asked", "connected"}

RefresherOK ==
  /\ holder \in Users \cup {Nobody} /\ access \in {"valid", "stale"}
  /\ valid \in 1..(MaxRotations + 1) /\ token \in 1..valid /\ answer \in 0..valid
  /\ lost \in BOOLEAN

ClockOK ==
  /\ tick \in 0..MaxTicks /\ pending \in 0..tick
  /\ scan \in [pc : {"wait", "scan"}, now : 0..tick, seen : BOOLEAN]
  /\ last \in 0..tick /\ recent \in (0..tick) \X (0..tick) \X (0..tick)

TypeOK == ChannelOK /\ DoingOK /\ RefresherOK /\ ClockOK

\* "an ambiguous transport error can't produce a duplicate post" and "so they stay in
\* order" (bot_send_message.go:40-41, bot_read_message.go:166): Twitch posts a request at
\* most once, in the order the goroutines sent them, whichever token and failure each met.
PostedOnceInOrder == [][posted' # posted => posted'.n > posted.n]_vars

\* A goroutine blocked in say gets its place, whatever Twitch answers and whoever holds
\* the Refresher's mutex.
SayReturns == \A who \in Callers \cup {Promo} : Blocked(who) ~> ~Blocked(who)

\* "never a burst", "instead of firing a backlog all at once" (bot.go:395, 399): of any four
\* messages of a promo that enter the buffer one after the other, the last does so more than
\* an interval after the first, and none does in the first interval after the boot, however
\* long the loop was blocked meanwhile, whichever ticks it dropped or took late, and
\* whether the promo was paused or its channel went off and on.
NoPromoBacklog == [][recent' # recent => tick - recent[3] > Interval]_vars

\* "post the ones whose interval has elapsed" (bot.go:391-392), with lastPosted the time of the
\* last post: does not hold when a send or a scan was slow, for lastPosted is then too early.
IntervalElapsed == [][recent' # recent => tick - recent[1] >= Interval]_vars

\* "keep the newest so the next refresh (this process's lifetime) uses a still-valid one"
\* (refresher.go:110-111): between refreshes the token kept is the one Twitch takes, unless
\* its answer was lost or came to an earlier life.
NewestTokenKept == holder = Nobody /\ ~lost => token = valid
-----------------------------------------------------------------------------
\* Why these hold: the requests taken, buffered and waiting are numbered without a gap, and
\* nobody waits beside room in the buffer; what was not posted yet comes after what was;
InOrder ==
  /\ \A i \in DOMAIN queue : queue[i].n = req.n + i
  /\ \A i \in DOMAIN waiting : waiting[i].r.n = req.n + Len(queue) + i
  /\ asked = req.n + Len(queue) + Len(waiting)
  /\ waiting # << >> => Len(queue) = Capacity
  /\ posted.n <= req.n /\ (doing["sender"] # "idle" => posted.n < req.n)

\* a goroutine waits with one request;
WaitsOnce == \A i, j \in DOMAIN waiting : waiting[i].who = waiting[j].who => i = j

\* a scan is of a tick later than the last send but one, so that lastPosted is later than the
\* last but two; a tick that comes during a scan or a blocked send is later than all sends,
\* and of a blocked send's own scan the interval was found to have elapsed;
Paced ==
  /\ recent[3] <= recent[2] /\ recent[2] <= recent[1]
  /\ Blocked(Promo) =>
       /\ scan.pc = "wait" /\ last > recent[2] /\ last - recent[3] > Interval
       /\ pending # 0 => pending > recent[1]
  /\ ~Blocked(Promo) =>
       /\ last # 0 => last > recent[3]
       /\ pending # 0 => pending > recent[2]
       /\ scan.pc = "scan" => scan.now > recent[2] /\ (pending # 0 => pending > recent[1])

\* and while an answer is on its way it carries the token Twitch will take.
Rotation ==
  /\ \A u \in Users : doing[u] = "asked" <=> holder = u
  /\ answer # 0 => holder # Nobody /\ answer = valid
  /\ ~lost => answer = valid \/ token = valid

IInv == TypeOK /\ InOrder /\ WaitsOnce /\ Paced /\ Rotation
=============================================================================
