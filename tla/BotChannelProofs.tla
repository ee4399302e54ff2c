-------------------------- MODULE BotChannelProofs --------------------------
(***************************************************************************)
(* The bot in a channel, for any rows and requests it may begin with: the  *)
(* effects of each action on the bag of jobs and on memory, and from them  *)
(* who holds the claims, what hasPrivs says, what a !banish leaves, which  *)
(* key a stream has, how often a chatter is served in it, and what bot and *)
(* row have come to once the last event of the stream is handled.          *)
(***************************************************************************)
EXTENDS BotChannel, TLAPS

-----------------------------------------------------------------------------
(* Jobs: what adding, ending and replacing one does to the bag.            *)

JobsAdd(S) ==
  /\ Running' = Running \cup S
  /\ jobs' \in [Running' -> Nat \ {0}]
  /\ \A e \in Running : e \notin S => jobs'[e] = jobs[e]
  /\ \A e \in S : e \notin Running => jobs'[e] = 1

JobsMove(o, S) ==
  /\ Running' = (Running \ {o}) \cup S \cup (IF jobs[o] = 1 THEN {} ELSE {o})
  /\ jobs' \in [Running' -> Nat \ {0}]
  /\ \A e \in Running : e \notin S \cup {o} => jobs'[e] = jobs[e]
  /\ \A e \in S : e \notin Running => jobs'[e] = 1
  /\ jobs[o] = 1 /\ o \in S => jobs'[o] = 1

LEMMA AddsJobs ==
  ASSUME jobs \in [Running -> Nat \ {0}], NEW S, Starting(S)
  PROVE  JobsAdd(S)
  BY DEF JobsAdd, Running, Starting, BagToSet, SetToBag, (+)

LEMMA EndsJob ==
  ASSUME jobs \in [Running -> Nat \ {0}], NEW o \in Running, End(o)
  PROVE  JobsMove(o, {})
  BY DEF JobsMove, Running, End, One, BagToSet, SetToBag, (-)

LEMMA FreesJobs ==
  ASSUME jobs \in [Running -> Nat \ {0}], NEW o \in Running, NEW S,
         jobs' = (jobs (-) One(o)) (+) SetToBag(S)
  PROVE  JobsMove(o, S)
  <1> DEFINE left1 == jobs (-) One(o)
             kept == (Running \ {o}) \cup (IF jobs[o] = 1 THEN {} ELSE {o})
  <1>1. /\ left1 \in [kept -> Nat \ {0}] /\ DOMAIN left1 = kept
        /\ \A e \in kept : left1[e] = IF e = o THEN jobs[o] - 1 ELSE jobs[e]
    BY DEF Running, One, BagToSet, SetToBag, (-)
  <1> HIDE DEF left1
  <1>2. PICK l : l = left1
    OBVIOUS
  <1>3. jobs' = [e \in kept \cup S |-> (IF e \in kept THEN l[e] ELSE 0) + (IF e \in S THEN 1 ELSE 0)]
    BY <1>1, <1>2 DEF SetToBag, (+), left1
  <1> QED
    BY <1>1, <1>2, <1>3 DEF JobsMove, Running, BagToSet

LEMMA BecomesJob ==
  ASSUME jobs \in [Running -> Nat \ {0}], NEW o \in Running, NEW next, Become(o, next)
  PROVE  JobsMove(o, {next})
  BY FreesJobs DEF Become, One

\* One step on.
Moved(o, pc) == [op |-> o.op, pc |-> pc, row |-> o.row, n |-> o.n, alive |-> o.alive]

LEMMA StepsJob ==
  ASSUME JobsKnow, NEW o \in Running, NEW pc, StepTo(o, pc)
  PROVE  JobsMove(o, {Moved(o, pc)})
  <1>1. o \in Jobs /\ jobs \in [Running -> Nat \ {0}]
    BY DEF JobsKnow, IsJob
  <1>2. [o EXCEPT !.pc = pc] = Moved(o, pc)
    BY <1>1 DEF Jobs, Moved
  <1>3. Become(o, Moved(o, pc))
    BY <1>2 DEF StepTo
  <1> QED
    BY <1>1, <1>3, BecomesJob

LEMMA MovedIs ==
  ASSUME NEW o, IsJob(o), NEW pc, <<o.op, pc>> \in Steps, o.alive \/ pc = "write"
  PROVE  IsJob(Moved(o, pc))
  BY DEF IsJob, Moved, Jobs

\* A job that begins.
LEMMA GoIs ==
  ASSUME Shapes, NEW op \in Kinds, NEW pc, <<op, pc>> \in Steps
  PROVE  IsJob(Go(op, pc))
  <1>1. NoRow \in Rows /\ NoRow.key = 0
    BY DEF NoRow, Rows
  <1>2. Len(hist.keys) \in Nat
    BY DEF Shapes
  <1>3. Go(op, pc) = [op |-> op, pc |-> pc, row |-> NoRow, n |-> 0, alive |-> TRUE]
    BY DEF Go
  <1> QED
    BY <1>1, <1>2, <1>3 DEF IsJob, Jobs

LEMMA JobsAddKnow ==
  ASSUME JobsKnow, hist'.keys = hist.keys, NEW S, JobsAdd(S), \A e \in S : IsJob(e)
  PROVE  JobsKnow'
  BY DEF JobsKnow, JobsAdd, IsJob

LEMMA JobsMoveKnow ==
  ASSUME JobsKnow, hist'.keys = hist.keys, NEW o \in Running, NEW S, JobsMove(o, S), \A e \in S : IsJob(e)
  PROVE  JobsKnow'
  BY DEF JobsKnow, JobsMove, IsJob

LEMMA JobsSameKnow ==
  ASSUME JobsKnow, hist'.keys = hist.keys, jobs' = jobs
  PROVE  JobsKnow'
  BY DEF JobsKnow, IsJob, Running

LEMMA BaseTypes == BaseInv => TypeOK
  <1>1. JobsKnow => \A o \in Running : o.row \in Rows /\ o.n \in Nat
    BY DEF JobsKnow, IsJob, Jobs
  <1>2. Shapes => bot.rolls \in Nat /\ bot.loaded \subseteq {"custom", "stalk"}
    BY DEF Shapes
  <1> QED
    BY <1>1, <1>2 DEF BaseInv, TypeOK, Ranges

LEMMA BesideType == ASSUME JobsKnow, NEW kind \in Kinds PROVE Beside(kind) \in SUBSET SUBSET Words
  BY DEF JobsKnow, IsJob, Jobs, Beside, Words

-----------------------------------------------------------------------------
(* What each action does, with the types it keeps.                         *)

TwitchType == [events : Nat, sent : SUBSET Nat, hears : BOOLEAN, modded : BOOLEAN,
               chatSub : BOOLEAN, revoked : Nat]
BotType == [live : BOOLEAN, joined : BOOLEAN, channels : Seq(BOOLEAN), joining : BOOLEAN,
            granting : BOOLEAN, loaded : SUBSET {"custom", "stalk"}, rolls : Nat]
HistType == [heard : Nat, member : BOOLEAN, keys : Seq(Nat), served : Nat, refused : Nat,
             reset : Nat, mishaps : SUBSET SUBSET Words]
Typed == twitch \in TwitchType /\ bot \in BotType /\ hist \in HistType

LEMMA ShapesTyped ==
  Shapes <=> /\ Typed /\ left \in [Requests -> Nat]
             /\ channel \in [permanent : BOOLEAN, loads : SUBSET {"custom", "stalk"}]
  BY DEF Shapes, Typed, TwitchType, BotType, HistType

LEMMA SpendTypes ==
  ASSUME Shapes, NEW r \in Requests, Spend(r)
  PROVE  left' \in [Requests -> Nat]
  BY DEF Shapes, Spend

LEMMA BaseStep ==
  ASSUME BaseInv, twitch' \in TwitchType, bot' \in BotType, hist' \in HistType,
         left' = left \/ \E r \in Requests : Spend(r), channel' = channel, JobsKnow', Ranges'
  PROVE  BaseInv'
  <1>1. Shapes /\ left' \in [Requests -> Nat]
    BY SpendTypes DEF BaseInv, Shapes
  <1>2. Shapes'
    BY <1>1 DEF Shapes, TwitchType, BotType, HistType
  <1> QED
    BY <1>2 DEF BaseInv

\* What happened is only added to.
Noted(m) == /\ hist' \in HistType /\ hist'.keys = hist.keys /\ hist'.member = hist.member
            /\ hist.mishaps \cup m \subseteq hist'.mishaps

LEMMA MishapNotes ==
  ASSUME hist \in HistType, NEW m \in SUBSET SUBSET Words, Mishap(m)
  PROVE  Noted(m)
  <1>1. PICK all \in SUBSET SUBSET Words : all = hist.mishaps \cup m
    BY DEF HistType
  <1>2. hist' = [hist EXCEPT !.mishaps = all]
    BY <1>1 DEF Mishap, HistType
  <1> QED
    BY <1>1, <1>2 DEF HistType, Noted

LEMMA SameNotes == hist \in HistType /\ hist' = hist => Noted({})
  BY DEF Noted

LEMMA RangesSame ==
  ASSUME Ranges, hist'.keys = hist.keys, row' = row, usage' = usage, twitch' = twitch
  PROVE  Ranges'
  BY DEF Ranges

LEMMA DeliveredNotes ==
  ASSUME Shapes, JobsKnow, NEW e \in Nat, NEW op \in Kinds, NEW m \in SUBSET SUBSET Words,
         Delivered(e, op, m)
  PROVE  Noted(Beside(op))
  <1>1. PICK beside \in SUBSET SUBSET Words : beside = Beside(op)
    BY BesideType
  <1>2. PICK odd \in SUBSET SUBSET Words :
          odd = CASE e < hist.heard -> {{"late"}}
                  [] e > hist.heard + 1 -> {{"skipped"}} [] OTHER -> {}
    <2>1. {{"late"}} \in SUBSET SUBSET Words /\ {{"skipped"}} \in SUBSET SUBSET Words
      BY DEF Words
    <2> QED
      BY <2>1
  <1>3. PICK n \in Nat : n = Larger(hist.heard, e)
    BY DEF Larger, Shapes
  <1>a. PICK past \in SUBSET SUBSET Words : past = IF (e + 1) \div 2 < StreamNo THEN {{"past"}} ELSE {}
    <2>1. {{"past"}} \in SUBSET SUBSET Words
      BY DEF Words
    <2> QED
      BY <2>1
  <1>4. PICK all \in SUBSET SUBSET Words : all = hist.mishaps \cup beside \cup m \cup past \cup odd
    BY DEF Shapes
  <1>5. hist' = [hist EXCEPT !.heard = n, !.mishaps = all]
    BY <1>1, <1>2, <1>3, <1>a, <1>4 DEF Delivered, Shapes
  <1> QED
    BY <1>1, <1>4, <1>5 DEF Shapes, Noted, HistType

LEMMA StreamTurnsEffect ==
  ASSUME BaseInv, StreamTurns
  PROVE  /\ BaseInv' /\ Noted({}) /\ UNCHANGED <<row, bot, jobs, channel>>
         /\ twitch'.chatSub = twitch.chatSub /\ twitch'.revoked = twitch.revoked
  <1>1. Shapes /\ JobsKnow /\ Ranges /\ Typed
    BY ShapesTyped DEF BaseInv
  <1>2. PICK e \in Nat : e = twitch.events + 1
    BY <1>1 DEF Shapes
  <1>3. PICK s \in SUBSET Nat : s = IF twitch.hears THEN twitch.sent \cup {e} ELSE twitch.sent
    BY <1>1 DEF Shapes
  <1>4. twitch' = [twitch EXCEPT !.events = e, !.sent = s]
    BY <1>1, <1>2, <1>3 DEF StreamTurns, Shapes
  <1>5. /\ twitch' \in TwitchType /\ twitch'.sent = s /\ twitch'.events = e
        /\ twitch'.chatSub = twitch.chatSub /\ twitch'.revoked = twitch.revoked
    BY <1>1, <1>4 DEF Shapes, TwitchType
  <1>a. twitch'.sent \subseteq 1..twitch'.events
    BY <1>1, <1>2, <1>3, <1>5 DEF Ranges, Shapes
  <1>6. PICK i \in Nat, j \in Nat :
          i = (IF e % 2 = 1 THEN 0 ELSE hist.served) /\ j = (IF e % 2 = 1 THEN 0 ELSE hist.refused)
    BY <1>1 DEF Shapes
  <1>7. PICK m \in SUBSET SUBSET Words :
          m = IF twitch.hears THEN hist.mishaps ELSE hist.mishaps \cup {{"missed"}}
    BY <1>1 DEF Shapes, Words
  <1>8. hist' = [hist EXCEPT !.served = i, !.refused = j, !.mishaps = m]
    BY <1>1, <1>2, <1>6, <1>7 DEF StreamTurns, Shapes
  <1>9. Noted({})
    BY <1>1, <1>7, <1>8 DEF Shapes, HistType, Noted
  <1>10. UNCHANGED <<row, usage, bot, jobs, channel>> /\ Spend("turn")
    BY DEF StreamTurns
  <1>11. JobsKnow'
    BY <1>1, <1>9, <1>10, JobsSameKnow DEF Noted
  <1> QED
    BY <1>1, <1>5, <1>9, <1>10, <1>11, <1>a, BaseStep DEF Ranges, Typed, Noted, Requests

LEMMA ModEffect ==
  ASSUME BaseInv, Mod
  PROVE  /\ BaseInv' /\ UNCHANGED <<row, bot, jobs, channel, hist>>
         /\ Granted => Granted'
  <1>1. Shapes /\ JobsKnow /\ Ranges /\ Typed
    BY ShapesTyped DEF BaseInv
  <1>2. PICK on \in BOOLEAN, n \in Nat :
          on = ~twitch.modded /\ n = IF twitch.revoked = 0 /\ twitch.chatSub /\ ~on THEN 1 ELSE twitch.revoked
    BY <1>1 DEF Shapes
  <1>3. PICK sub \in BOOLEAN : sub = (twitch.chatSub /\ on)
    OBVIOUS
  <1>4. twitch' = [twitch EXCEPT !.modded = on, !.chatSub = sub, !.revoked = n]
    BY <1>1, <1>2, <1>3 DEF Mod, Shapes
  <1>5. /\ twitch' \in TwitchType /\ twitch'.sent = twitch.sent /\ twitch'.events = twitch.events
        /\ twitch'.chatSub = sub /\ twitch'.revoked = n
    BY <1>1, <1>4 DEF Shapes, TwitchType
  <1>6. UNCHANGED <<row, usage, bot, jobs, channel, hist>> /\ Spend("mod")
    BY DEF Mod
  <1>7. JobsKnow' /\ Ranges'
    BY <1>1, <1>5, <1>6, JobsSameKnow DEF Ranges
  <1>8. Granted => Granted'
    BY <1>1, <1>2, <1>3, <1>5 DEF Granted, Shapes
  <1> QED
    BY <1>1, <1>5, <1>6, <1>7, <1>8, BaseStep DEF Typed, Requests

LEMMA GoLiveEffect ==
  ASSUME BaseInv, NEW e \in twitch.sent, GoLive(e)
  PROVE  /\ BaseInv' /\ Noted(Beside("online")) /\ UNCHANGED <<twitch, row, bot, channel>>
         /\ JobsAdd({Go("online", "start")})
  <1>1. Shapes /\ JobsKnow /\ Ranges /\ Typed /\ e \in Nat
    BY ShapesTyped DEF BaseInv, Ranges
  <1>2. Noted(Beside("online"))
    BY <1>1, DeliveredNotes DEF GoLive, Kinds, RowWork
  <1>3. JobsAdd({Go("online", "start")})
    BY <1>1, AddsJobs DEF GoLive, JobsKnow
  <1>4. JobsKnow'
    BY <1>1, <1>2, <1>3, JobsAddKnow, GoIs DEF Noted, Steps, Kinds, RowWork
  <1> QED
    BY <1>1, <1>2, <1>3, <1>4, BaseStep, RangesSame DEF GoLive, Noted, Typed, Requests

LEMMA GoOfflineEffect ==
  ASSUME BaseInv, NEW e \in twitch.sent, GoOffline(e)
  PROVE  /\ BaseInv' /\ Noted(Beside("offline")) /\ UNCHANGED <<twitch, row, channel>>
         /\ JobsAdd({Go("offline", "read")})
         /\ ~bot'.live /\ bot'.joined = channel.permanent
         /\ bot'.channels = bot.channels /\ bot'.joining = bot.joining /\ bot'.granting = bot.granting
  <1>1. Shapes /\ JobsKnow /\ Ranges /\ Typed /\ e \in Nat
    BY ShapesTyped DEF BaseInv, Ranges
  <1>2. Noted(Beside("offline"))
    <2>1. PICK m \in SUBSET SUBSET Words : m = IF Streaming THEN {{"late"}} ELSE {}
      BY DEF Words
    <2>2. Delivered(e, "offline", m)
      BY <2>1 DEF GoOffline, OfflineThen
    <2> QED
      BY <1>1, <2>1, <2>2, DeliveredNotes DEF Kinds, RowWork
  <1>3. JobsAdd({Go("offline", "read")})
    BY <1>1, AddsJobs DEF GoOffline, OfflineThen, JobsKnow
  <1>4. JobsKnow'
    BY <1>1, <1>2, <1>3, JobsAddKnow, GoIs DEF Noted, Steps, Kinds, RowWork
  <1>5. PICK perm \in BOOLEAN : perm = channel.permanent
    BY <1>1 DEF Shapes
  <1>6. bot' = [bot EXCEPT !.live = FALSE, !.joined = perm, !.rolls = 0, !.loaded = {}]
    BY <1>5 DEF GoOffline, OfflineThen
  <1>7. /\ bot' \in BotType /\ ~bot'.live /\ bot'.joined = perm
        /\ bot'.channels = bot.channels /\ bot'.joining = bot.joining /\ bot'.granting = bot.granting
    BY <1>1, <1>6 DEF Typed, BotType
  <1> QED
    BY <1>1, <1>2, <1>3, <1>4, <1>5, <1>7, BaseStep, RangesSame
       DEF GoOffline, OfflineThen, Noted, Typed, Requests

LEMMA JoinMeEffect ==
  ASSUME BaseInv, JoinMe
  PROVE  /\ BaseInv' /\ Noted(Beside("join")) /\ UNCHANGED <<twitch, row, channel>>
         /\ JobsAdd({Go("join", "profile")})
         /\ ~Tracked /\ ~bot.joining /\ bot'.joining /\ bot'.joined
         /\ bot'.live = bot.live /\ bot'.channels = bot.channels /\ bot'.granting = bot.granting
  <1>1. Shapes /\ JobsKnow /\ Ranges /\ Typed
    BY ShapesTyped DEF BaseInv
  <1>2. Noted(Beside("join"))
    BY <1>1, BesideType, MishapNotes DEF JoinMe, JoinWhen, Kinds, RowWork, Typed
  <1>3. JobsAdd({Go("join", "profile")})
    BY <1>1, AddsJobs DEF JoinMe, JoinWhen, JobsKnow
  <1>4. JobsKnow'
    BY <1>1, <1>2, <1>3, JobsAddKnow, GoIs DEF Noted, Steps, Kinds, RowWork
  <1>5. bot' = [bot EXCEPT !.joining = TRUE, !.joined = TRUE]
    BY DEF JoinMe, JoinWhen
  <1>6. /\ bot' \in BotType /\ bot'.joining /\ bot'.joined /\ bot'.live = bot.live
        /\ bot'.channels = bot.channels /\ bot'.granting = bot.granting
    BY <1>1, <1>5 DEF Typed, BotType
  <1>7. /\ ~Tracked /\ ~bot.joining /\ Spend("join")
        /\ UNCHANGED <<twitch, row, usage, channel>>
    BY DEF JoinMe, JoinWhen
  <1> QED
    BY <1>1, <1>2, <1>3, <1>4, <1>6, <1>7, BaseStep, RangesSame DEF Noted, Typed, Requests

LEMMA BanishEffect ==
  ASSUME BaseInv, Banish
  PROVE  /\ BaseInv' /\ Noted(Beside("banish")) /\ UNCHANGED <<twitch, row, channel>>
         /\ JobsAdd({Go("banish", "unsubscribe")})
         /\ ~channel.permanent /\ ~bot'.joined /\ bot'.live = bot.live
         /\ bot'.channels = bot.channels /\ bot'.joining = bot.joining /\ bot'.granting = bot.granting
  <1>1. Shapes /\ JobsKnow /\ Ranges /\ Typed
    BY ShapesTyped DEF BaseInv
  <1>2. Noted(Beside("banish"))
    BY <1>1, BesideType, MishapNotes DEF Banish, Mishap, Kinds, RowWork, Typed
  <1>3. JobsAdd({Go("banish", "unsubscribe")})
    BY <1>1, AddsJobs DEF Banish, JobsKnow
  <1>4. JobsKnow'
    BY <1>1, <1>2, <1>3, JobsAddKnow, GoIs DEF Noted, Steps, Kinds, RowWork
  <1>5. bot' = [bot EXCEPT !.joined = FALSE]
    BY DEF Banish
  <1>6. /\ bot' \in BotType /\ ~bot'.joined /\ bot'.live = bot.live
        /\ bot'.channels = bot.channels /\ bot'.joining = bot.joining /\ bot'.granting = bot.granting
    BY <1>1, <1>5 DEF Typed, BotType
  <1>7. ~channel.permanent /\ Spend("banish") /\ UNCHANGED <<twitch, row, usage, channel>>
    BY DEF Banish
  <1> QED
    BY <1>1, <1>2, <1>3, <1>4, <1>6, <1>7, BaseStep, RangesSame DEF Noted, Typed, Requests

LEMMA SignInEffect ==
  ASSUME BaseInv, SignIn
  PROVE  /\ BaseInv' /\ UNCHANGED <<bot, jobs, channel>> /\ hist'.member
         /\ hist.mishaps \subseteq hist'.mishaps /\ ~row.exists
         /\ twitch'.chatSub = twitch.chatSub /\ twitch'.revoked = twitch.revoked
  <1>1. Shapes /\ JobsKnow /\ Ranges /\ Typed
    BY ShapesTyped DEF BaseInv
  <1>2. PICK more \in SUBSET SUBSET Words : more = Beside("signin") \cup Midstream("signin")
    BY <1>1, BesideType DEF Midstream, Words, Kinds, RowWork
  <1>3. PICK all \in SUBSET SUBSET Words : all = hist.mishaps \cup more
    BY <1>1 DEF Typed, HistType
  <1>4. hist' = [hist EXCEPT !.member = TRUE, !.mishaps = all]
    BY <1>1, <1>2, <1>3 DEF SignIn, Typed, HistType
  <1>5. /\ hist' \in HistType /\ hist'.keys = hist.keys /\ hist'.member
        /\ hist.mishaps \subseteq hist'.mishaps
    BY <1>1, <1>3, <1>4 DEF Typed, HistType
  <1>6. twitch' = [twitch EXCEPT !.hears = TRUE] /\ row' = [NoRow EXCEPT !.exists = TRUE, !.optIn = TRUE]
    BY DEF SignIn
  <1>7. /\ twitch' \in TwitchType /\ twitch'.sent = twitch.sent /\ twitch'.events = twitch.events
        /\ twitch'.chatSub = twitch.chatSub /\ twitch'.revoked = twitch.revoked
    BY <1>1, <1>6 DEF Typed, TwitchType
  <1>8. row' \in Rows /\ row'.key = 0
    BY <1>6 DEF NoRow, Rows
  <1>9. UNCHANGED <<usage, bot, jobs, channel>> /\ Spend("signin") /\ ~row.exists
    BY DEF SignIn
  <1>10. JobsKnow'
    BY <1>1, <1>5, <1>9, JobsSameKnow
  <1>11. Ranges'
    BY <1>1, <1>5, <1>7, <1>8, <1>9 DEF Ranges, Typed, HistType
  <1> QED
    BY <1>1, <1>5, <1>7, <1>9, <1>10, <1>11, BaseStep DEF Typed, Requests

LEMMA RollEffect ==
  ASSUME BaseInv, Roll
  PROVE  /\ BaseInv' /\ Noted({}) /\ UNCHANGED <<twitch, row, channel>>
         /\ \E q : IsJob(q) /\ q.op = "persist" /\ q.row = NoRow /\ JobsAdd({q})
         /\ bot'.live = bot.live /\ bot'.joined = bot.joined /\ bot'.channels = bot.channels
         /\ bot'.joining = bot.joining /\ bot'.granting = bot.granting
  <1>1. Shapes /\ JobsKnow /\ Ranges /\ Typed
    BY ShapesTyped DEF BaseInv
  <1>2. PICK n \in Nat : n = IF Streaming THEN StreamNo ELSE 0
    BY <1>1 DEF StreamNo, Typed, TwitchType
  <1>3. PICK p : p = Go("persist", "persist") /\ IsJob(p)
    BY <1>1, GoIs DEF Steps, Kinds
  <1>4. PICK q : q = [p EXCEPT !.n = n]
    OBVIOUS
  <1>5. IsJob(q) /\ q.op = "persist" /\ q.row = NoRow
    BY <1>3, <1>4 DEF IsJob, Jobs, Go
  <1>6. JobsAdd({q})
    <2>1. Starting({[Go("persist", "persist") EXCEPT !.n = IF Streaming THEN StreamNo ELSE 0]})
      BY DEF Roll, RollUpTo
    <2>2. Starting({q})
      BY <1>2, <1>3, <1>4, <2>1
    <2> QED
      BY <1>1, <2>2, AddsJobs DEF JobsKnow
  <1>7. PICK i \in Nat, j \in Nat :
          /\ i = (IF Streaming /\ bot.rolls < Limit THEN hist.served + 1 ELSE hist.served)
          /\ j = (IF Streaming /\ bot.rolls = Limit THEN hist.refused + 1 ELSE hist.refused)
    BY <1>1 DEF Typed, HistType
  <1>8. PICK m \in SUBSET SUBSET Words :
          m = hist.mishaps \cup (IF \E o \in Running : o.op = "rehydrate" THEN {{"early roll"}} ELSE {})
                           \cup (IF Streaming /\ hist.reset # StreamNo THEN {{"unreset"}} ELSE {})
    BY <1>1 DEF Typed, HistType, Words
  <1>9. hist' = [hist EXCEPT !.served = i, !.refused = j, !.mishaps = m]
    BY <1>1, <1>7, <1>8 DEF Roll, RollUpTo, Typed, HistType
  <1>10. Noted({})
    BY <1>1, <1>8, <1>9 DEF Noted, Typed, HistType
  <1>11. PICK r \in Nat : r = bot.rolls + 1
    BY <1>1 DEF Typed, BotType
  <1>12. bot' = [bot EXCEPT !.rolls = r]
    BY <1>1, <1>11 DEF Roll, RollUpTo, Typed, BotType
  <1>13. /\ bot' \in BotType /\ bot'.live = bot.live /\ bot'.joined = bot.joined /\ bot'.channels = bot.channels
         /\ bot'.joining = bot.joining /\ bot'.granting = bot.granting
    BY <1>1, <1>12 DEF Typed, BotType
  <1>14. Spend("roll") /\ UNCHANGED <<twitch, row, usage, channel>>
    BY DEF Roll, RollUpTo
  <1>15. JobsKnow'
    BY <1>1, <1>5, <1>6, <1>10, JobsAddKnow DEF Noted
  <1> QED
    BY <1>1, <1>5, <1>6, <1>10, <1>13, <1>14, <1>15, BaseStep, RangesSame DEF Noted, Typed, Requests

\* Flags are set one by one for the same channels.
LEMMA PrivsSet ==
  ASSUME Typed, NEW v \in BOOLEAN
  PROVE  WithPrivs(v) \in Seq(BOOLEAN) /\ Len(WithPrivs(v)) = Len(bot.channels)
         /\ \A i \in DOMAIN WithPrivs(v) : WithPrivs(v)[i] = v
  BY DEF Typed, BotType, WithPrivs

LEMMA PrivsEmpty ==
  ASSUME Typed, NEW v \in BOOLEAN, bot.channels = <<>>
  PROVE  WithPrivs(v) = <<>>
  <1>1. PICK d \in Seq(BOOLEAN) : d = WithPrivs(v)
    BY PrivsSet
  <1>2. Len(d) = 0
    <2>1. Len(WithPrivs(v)) = Len(bot.channels)
      BY PrivsSet
    <2> QED
      BY <1>1, <2>1
  <1> QED
    BY <1>1, <1>2

LEMMA RevocationEffect ==
  ASSUME BaseInv, Revocation
  PROVE  /\ BaseInv' /\ Noted(Beside("revocation")) /\ UNCHANGED <<row, jobs, channel>>
         /\ bot'.channels = WithPrivs(FALSE)
         /\ bot'.live = bot.live /\ bot'.joined = bot.joined
         /\ bot'.joining = bot.joining /\ bot'.granting = bot.granting
  <1>1. Shapes /\ JobsKnow /\ Ranges /\ Typed
    BY ShapesTyped DEF BaseInv
  <1>2. Noted(Beside("revocation"))
    BY <1>1, BesideType, MishapNotes DEF Revocation, Kinds, Typed
  <1>3. PICK n \in Nat : n = twitch.revoked - 1
    BY <1>1 DEF Revocation, Typed, TwitchType
  <1>4. twitch' = [twitch EXCEPT !.revoked = n]
    BY <1>1, <1>3 DEF Revocation, Typed, TwitchType
  <1>5. twitch' \in TwitchType /\ twitch'.sent = twitch.sent /\ twitch'.events = twitch.events
    BY <1>1, <1>4 DEF Typed, TwitchType
  <1>6. PICK ch \in Seq(BOOLEAN) : ch = WithPrivs(FALSE)
    BY <1>1, PrivsSet
  <1>7. bot' = [bot EXCEPT !.channels = ch]
    BY <1>6 DEF Revocation
  <1>8. /\ bot' \in BotType /\ bot'.channels = ch /\ bot'.live = bot.live /\ bot'.joined = bot.joined
        /\ bot'.joining = bot.joining /\ bot'.granting = bot.granting
    BY <1>1, <1>7 DEF Typed, BotType
  <1>9. UNCHANGED <<row, usage, jobs, channel, left>>
    BY DEF Revocation
  <1>10. JobsKnow' /\ Ranges'
    BY <1>1, <1>2, <1>5, <1>9, JobsSameKnow DEF Noted, Ranges
  <1> QED
    BY <1>2, <1>5, <1>6, <1>8, <1>9, <1>10, BaseStep DEF Noted

LEMMA GrantStartsEffect ==
  ASSUME BaseInv, GrantStarts
  PROVE  /\ BaseInv' /\ Noted(Beside("grant")) /\ UNCHANGED <<twitch, row, channel>>
         /\ JobsAdd({Go("grant", "subscribe")})
         /\ ~bot.granting /\ bot'.granting /\ bot'.live = bot.live /\ bot'.joined = bot.joined
         /\ bot'.channels = bot.channels /\ bot'.joining = bot.joining
  <1>1. Shapes /\ JobsKnow /\ Ranges /\ Typed
    BY ShapesTyped DEF BaseInv
  <1>2. Noted(Beside("grant"))
    BY <1>1, BesideType, MishapNotes DEF GrantStarts, Kinds, Typed
  <1>3. JobsAdd({Go("grant", "subscribe")})
    BY <1>1, AddsJobs DEF GrantStarts, JobsKnow
  <1>4. JobsKnow'
    BY <1>1, <1>2, <1>3, JobsAddKnow, GoIs DEF Noted, Steps, Kinds
  <1>5. bot' = [bot EXCEPT !.granting = TRUE]
    BY DEF GrantStarts
  <1>6. /\ bot' \in BotType /\ bot'.granting /\ bot'.live = bot.live /\ bot'.joined = bot.joined
        /\ bot'.channels = bot.channels /\ bot'.joining = bot.joining
    BY <1>1, <1>5 DEF Typed, BotType
  <1>7. ~bot.granting /\ Spend("grant") /\ UNCHANGED <<twitch, row, usage, channel>>
    BY DEF GrantStarts
  <1> QED
    BY <1>1, <1>2, <1>3, <1>4, <1>6, <1>7, BaseStep, RangesSame DEF Noted, Typed, Requests

-----------------------------------------------------------------------------
(* The steps of the jobs.                                                  *)

LEMMA JobBase ==
  ASSUME BaseInv, NEW o \in Running, NEW S, JobsMove(o, S), \A e \in S : IsJob(e),
         bot' \in BotType, Noted({}), left' = left \/ \E r \in Requests : Spend(r),
         UNCHANGED <<row, usage, channel>>, twitch' \in TwitchType,
         twitch'.sent = twitch.sent, twitch'.events = twitch.events
  PROVE  BaseInv'
  <1>1. JobsKnow' /\ Ranges'
    BY JobsMoveKnow DEF Noted, Ranges, BaseInv
  <1> QED
    BY <1>1, BaseStep DEF Noted

LEMMA EndBase ==
  ASSUME BaseInv, NEW o \in Running, JobsMove(o, {}), bot' \in BotType, Noted({}),
         left' = left, UNCHANGED <<row, usage, channel>>, twitch' \in TwitchType,
         twitch'.sent = twitch.sent, twitch'.events = twitch.events
  PROVE  BaseInv'
  <1>1. \A e \in {} : IsJob(e)
    OBVIOUS
  <1> QED
    BY <1>1, JobBase

\* Only the job moves on.
OnlyJob == bot' = bot /\ hist' = hist /\ left' = left /\ UNCHANGED <<twitch, row, usage, channel>>

LEMMA OnlyJobBase ==
  ASSUME BaseInv, NEW o \in Running, NEW S, JobsMove(o, S), \A e \in S : IsJob(e), OnlyJob
  PROVE  BaseInv' /\ Noted({})
  <1>1. Typed
    BY ShapesTyped DEF BaseInv
  <1>2. Noted({})
    BY <1>1, SameNotes DEF Typed, OnlyJob
  <1> QED
    BY <1>1, <1>2, JobBase DEF Typed, OnlyJob

Seen(o) == [op |-> o.op, pc |-> "write", row |-> row, n |-> o.n, alive |-> o.alive]

LEMMA ReadRowEffect ==
  ASSUME BaseInv, NEW o \in Running, ReadRow(o)
  PROVE  /\ BaseInv' /\ Noted({}) /\ OnlyJob /\ o.pc = "read"
         /\ JobsMove(o, {Seen(o)}) /\ IsJob(o) /\ IsJob(Seen(o))
  <1>1. JobsKnow /\ Ranges /\ IsJob(o) /\ o.pc = "read"
    BY DEF BaseInv, JobsKnow, ReadRow
  <1>2. [o EXCEPT !.row = row, !.pc = "write"] = Seen(o)
    <2>1. PICK j : j = [o EXCEPT !.row = row, !.pc = "write"]
      OBVIOUS
    <2>2. j \in [op : Kinds, pc : {step[2] : step \in Steps} \cup {"write"}, row : Rows, n : Nat, alive : BOOLEAN]
      BY <1>1, <2>1 DEF IsJob, Jobs, Ranges
    <2>3. j.op = o.op /\ j.pc = "write" /\ j.row = row /\ j.n = o.n /\ j.alive = o.alive
      BY <1>1, <2>1 DEF IsJob, Jobs
    <2>4. j = [op |-> j.op, pc |-> j.pc, row |-> j.row, n |-> j.n, alive |-> j.alive]
      BY <2>2
    <2> QED
      BY <2>1, <2>3, <2>4 DEF Seen
  <1>3. JobsMove(o, {Seen(o)})
    BY <1>1, <1>2, BecomesJob DEF ReadRow, JobsKnow
  <1>4. IsJob(Seen(o))
    <2>1. <<o.op, "write">> \in Steps
      BY <1>1 DEF IsJob, Steps
    <2>2. row \in Rows /\ row.key <= Len(hist.keys)
      BY <1>1 DEF Ranges
    <2> QED
      BY <1>1, <2>1, <2>2 DEF IsJob, Jobs, Seen
  <1>5. OnlyJob
    BY DEF OnlyJob, ReadRow
  <1> QED
    BY <1>1, <1>3, <1>4, <1>5, OnlyJobBase

\* The step after, and that it is one.
LEMMA StepIs ==
  ASSUME BaseInv, NEW o \in Running, NEW pc, StepTo(o, pc), <<o.op, pc>> \in Steps, o.pc # "write"
  PROVE  JobsMove(o, {Moved(o, pc)}) /\ IsJob(o) /\ o.alive /\ IsJob(Moved(o, pc))
  <1>1. JobsKnow /\ IsJob(o) /\ o.alive
    BY DEF BaseInv, JobsKnow, IsJob
  <1> QED
    BY <1>1, StepsJob, MovedIs

LEMMA EndIs ==
  ASSUME BaseInv, NEW o \in Running, End(o)
  PROVE  JobsMove(o, {}) /\ IsJob(o)
  BY EndsJob DEF BaseInv, JobsKnow

\* The bot is only told that the stream is live.
Lives == /\ bot' \in BotType /\ bot'.live /\ bot'.joined = bot.joined /\ bot'.channels = bot.channels
         /\ bot'.joining = bot.joining /\ bot'.granting = bot.granting
LEMMA LivesIs == Typed /\ bot' = [bot EXCEPT !.live = TRUE] => Lives
  BY DEF Typed, BotType, Lives

LEMMA GoLiveGuardEffect ==
  ASSUME BaseInv, NEW o \in Running, GoLiveGuard(o)
  PROVE  /\ BaseInv' /\ Noted({}) /\ UNCHANGED <<twitch, row, channel>>
         /\ o.op = "online" /\ o.pc = "start" /\ IsJob(o) /\ o.alive
         /\ \/ /\ channel.permanent \/ Tracked
               /\ Lives /\ JobsMove(o, {Moved(o, "read")})
            \/ bot' = bot /\ JobsMove(o, {Moved(o, "ask")})
  <1>1. Typed /\ o.op = "online" /\ o.pc = "start" /\ UNCHANGED <<twitch, row, usage, channel, left, hist>>
    BY ShapesTyped DEF BaseInv, GoLiveGuard
  <1>2. Noted({}) /\ twitch' \in TwitchType
    BY <1>1, SameNotes DEF Typed
  <1>3. CASE channel.permanent \/ Tracked
    <2>1. StepTo(o, "read") /\ bot' = [bot EXCEPT !.live = TRUE]
      BY <1>3 DEF GoLiveGuard
    <2>2. JobsMove(o, {Moved(o, "read")}) /\ IsJob(o) /\ o.alive /\ IsJob(Moved(o, "read"))
      BY <1>1, <2>1, StepIs DEF Steps
    <2>3. Lives
      BY <1>1, <2>1, LivesIs
    <2>4. BaseInv'
      BY <1>1, <1>2, <2>2, <2>3, JobBase DEF Lives
    <2> QED
      BY <1>1, <1>2, <1>3, <2>2, <2>3, <2>4
  <1>4. CASE ~(channel.permanent \/ Tracked)
    <2>1. StepTo(o, "ask") /\ bot' = bot
      BY <1>4 DEF GoLiveGuard
    <2>2. JobsMove(o, {Moved(o, "ask")}) /\ IsJob(o) /\ o.alive /\ IsJob(Moved(o, "ask"))
      BY <1>1, <2>1, StepIs DEF Steps
    <2>3. BaseInv'
      BY <1>1, <2>1, <2>2, OnlyJobBase DEF OnlyJob
    <2> QED
      BY <1>1, <1>2, <2>1, <2>2, <2>3
  <1> QED
    BY <1>3, <1>4

LEMMA AskOptInEffect ==
  ASSUME BaseInv, NEW o \in Running, AskOptIn(o)
  PROVE  /\ BaseInv' /\ Noted({}) /\ UNCHANGED <<twitch, row, channel>>
         /\ o.op = "online" /\ o.pc = "ask" /\ IsJob(o) /\ o.alive
         /\ \/ row.optIn /\ Lives /\ JobsMove(o, {Moved(o, "read")})
            \/ bot' = bot /\ JobsMove(o, {})
  <1>1. Typed /\ o.pc = "ask" /\ UNCHANGED <<twitch, row, usage, channel, left, hist>>
    BY ShapesTyped DEF BaseInv, AskOptIn, AskAnswers
  <1>2. Noted({}) /\ twitch' \in TwitchType
    BY <1>1, SameNotes DEF Typed
  <1>3. IsJob(o) /\ o.op = "online" /\ o.alive
    BY <1>1 DEF BaseInv, JobsKnow, IsJob, Steps
  <1>4. CASE row.optIn
    <2>1. StepTo(o, "read") /\ bot' = [bot EXCEPT !.live = TRUE]
      BY <1>4 DEF AskOptIn, AskAnswers
    <2>2. JobsMove(o, {Moved(o, "read")}) /\ IsJob(Moved(o, "read"))
      BY <1>1, <1>3, <2>1, StepIs DEF Steps
    <2>3. Lives
      BY <1>1, <2>1, LivesIs
    <2>4. BaseInv'
      BY <1>1, <1>2, <2>2, <2>3, JobBase DEF Lives
    <2> QED
      BY <1>1, <1>2, <1>3, <1>4, <2>2, <2>3, <2>4
  <1>5. CASE ~row.optIn
    <2>1. End(o) /\ bot' = bot
      BY <1>5 DEF AskOptIn, AskAnswers
    <2>2. JobsMove(o, {})
      BY <2>1, EndIs
    <2>3. BaseInv'
      BY <1>1, <2>1, <2>2, OnlyJobBase DEF OnlyJob
    <2> QED
      BY <1>1, <1>2, <1>3, <2>1, <2>2, <2>3
  <1> QED
    BY <1>4, <1>5

LEMMA AskFailsEffect ==
  ASSUME BaseInv, NEW o \in Running, AskFails(o)
  PROVE  /\ BaseInv' /\ Noted({{"ask"}}) /\ UNCHANGED <<twitch, row, channel>>
         /\ o.op = "online" /\ IsJob(o) /\ o.alive
         /\ Lives /\ JobsMove(o, {Moved(o, "read")})
  <1>1. /\ Typed /\ o.pc = "ask" /\ UNCHANGED <<twitch, row, usage, channel>> /\ Spend("fail")
        /\ Mishap({{"ask"}}) /\ StepTo(o, "read") /\ bot' = [bot EXCEPT !.live = TRUE]
    BY ShapesTyped DEF BaseInv, AskFails, AskAnswers, Fails
  <1>2. Noted({{"ask"}}) /\ Noted({})
    <2>1. {{"ask"}} \in SUBSET SUBSET Words
      BY DEF Words
    <2>2. Noted({{"ask"}})
      BY <1>1, <2>1, MishapNotes DEF Typed
    <2> QED
      BY <2>2 DEF Noted
  <1>3. IsJob(o) /\ o.op = "online"
    BY <1>1 DEF BaseInv, JobsKnow, IsJob, Steps
  <1>4. JobsMove(o, {Moved(o, "read")}) /\ o.alive /\ IsJob(Moved(o, "read"))
    BY <1>1, <1>3, StepIs DEF Steps
  <1>5. Lives
    BY <1>1, LivesIs
  <1>6. BaseInv'
    BY <1>1, <1>2, <1>4, <1>5, JobBase DEF Lives, Requests, Typed
  <1> QED
    BY <1>1, <1>2, <1>3, <1>4, <1>5, <1>6

\* What a step makes of the bot, the per-stream state apart.
BotIs(live, joined, channels, joining, granting) ==
  /\ bot' \in BotType /\ bot'.live = live /\ bot'.joined = joined /\ bot'.channels = channels
  /\ bot'.joining = joining /\ bot'.granting = granting

LEMMA GoLiveJoinsEffect ==
  ASSUME BaseInv, NEW o \in Running, GoLiveJoins(o)
  PROVE  /\ BaseInv' /\ Noted({}) /\ UNCHANGED <<twitch, row, channel>>
         /\ o.op = "online" /\ o.pc = "join" /\ IsJob(o) /\ o.alive
         /\ BotIs(bot.live, TRUE, bot.channels, bot.joining, bot.granting)
         /\ JobsMove(o, {Moved(o, "fresh")})
  <1>1. /\ Typed /\ o.op = "online" /\ o.pc = "join" /\ StepTo(o, "fresh")
        /\ UNCHANGED <<twitch, row, usage, channel, left, hist>> /\ bot' = [bot EXCEPT !.joined = TRUE]
    BY ShapesTyped DEF BaseInv, GoLiveJoins
  <1>2. JobsMove(o, {Moved(o, "fresh")}) /\ IsJob(o) /\ o.alive /\ IsJob(Moved(o, "fresh"))
    BY <1>1, StepIs DEF Steps
  <1>3. BotIs(bot.live, TRUE, bot.channels, bot.joining, bot.granting)
    BY <1>1 DEF Typed, BotType, BotIs
  <1>4. Noted({})
    BY <1>1, SameNotes DEF Typed
  <1>5. BaseInv'
    BY <1>1, <1>2, <1>3, <1>4, JobBase DEF Typed, BotIs
  <1> QED
    BY <1>1, <1>2, <1>3, <1>4, <1>5

LEMMA LoadsAreJobs ==
  ASSUME Shapes
  PROVE  \A e \in Loads : IsJob(e) /\ e.op = "load"
  <1> SUFFICES ASSUME NEW e \in Loads PROVE IsJob(e) /\ e.op = "load"
    OBVIOUS
  <1>1. PICK what \in {"custom", "stalk"} : e = Go("load", what)
    BY DEF Loads, Shapes
  <1>2. <<"load", what>> \in Steps /\ "load" \in Kinds
    BY DEF Steps, Kinds
  <1> QED
    BY <1>1, <1>2, GoIs DEF Go

LEMMA GoLiveFreshEffect ==
  ASSUME BaseInv, NEW o \in Running, GoLiveFresh(o)
  PROVE  /\ BaseInv' /\ Noted({}) /\ UNCHANGED <<twitch, row, channel>>
         /\ o.op = "online" /\ o.pc = "fresh" /\ IsJob(o) /\ o.alive
         /\ BotIs(bot.live, bot.joined, bot.channels, bot.joining, bot.granting)
         /\ JobsMove(o, Loads) /\ \A e \in Loads : e.op = "load" /\ IsJob(e)
  <1>1. /\ Typed /\ Shapes /\ o.op = "online" /\ o.pc = "fresh" /\ bot' = [bot EXCEPT !.rolls = 0]
        /\ UNCHANGED <<twitch, row, usage, channel, left>>
        /\ jobs' = (jobs (-) One(o)) (+) SetToBag(Loads)
    BY ShapesTyped DEF BaseInv, GoLiveFresh
  <1>2. JobsMove(o, Loads) /\ IsJob(o) /\ o.alive
    BY <1>1, FreesJobs DEF BaseInv, JobsKnow, IsJob
  <1>3. BotIs(bot.live, bot.joined, bot.channels, bot.joining, bot.granting)
    BY <1>1 DEF Typed, BotType, BotIs
  <1>4. PICK m \in SUBSET SUBSET Words :
          m = IF Streaming /\ hist.served > 0 THEN hist.mishaps \cup {{"again"}} ELSE hist.mishaps
    BY <1>1 DEF Typed, HistType, Words
  <1>5. PICK r \in Nat : r = (hist.heard + 1) \div 2
    BY <1>1 DEF Typed, HistType
  <1>6. hist' = [hist EXCEPT !.reset = r, !.mishaps = m]
    BY <1>1, <1>4, <1>5 DEF GoLiveFresh, Typed, HistType
  <1>7. Noted({})
    BY <1>1, <1>4, <1>6 DEF Noted, Typed, HistType
  <1>8. BaseInv'
    BY <1>1, <1>2, <1>3, <1>7, JobBase, LoadsAreJobs DEF Typed, BotIs
  <1> QED
    BY <1>1, <1>2, <1>3, <1>7, <1>8, LoadsAreJobs

LEMMA LoadEffect ==
  ASSUME BaseInv, NEW o \in Running, Load(o)
  PROVE  /\ BaseInv' /\ Noted({}) /\ UNCHANGED <<twitch, row, channel>>
         /\ o.op = "load" /\ IsJob(o)
         /\ BotIs(bot.live, bot.joined, bot.channels, bot.joining, bot.granting)
         /\ JobsMove(o, {})
  <1>1. /\ Typed /\ o.op = "load" /\ End(o) /\ UNCHANGED <<twitch, row, usage, channel, left, hist>>
        /\ bot' = [bot EXCEPT !.loaded = @ \cup {o.pc}]
    BY ShapesTyped DEF BaseInv, Load
  <1>2. JobsMove(o, {}) /\ IsJob(o)
    BY <1>1, EndIs
  <1>3. PICK l \in SUBSET {"custom", "stalk"} : l = bot.loaded \cup {o.pc}
    BY <1>1, <1>2 DEF Typed, BotType, IsJob, Steps
  <1>4. bot' = [bot EXCEPT !.loaded = l]
    BY <1>1, <1>3 DEF Typed, BotType
  <1>5. BotIs(bot.live, bot.joined, bot.channels, bot.joining, bot.granting)
    BY <1>1, <1>4 DEF Typed, BotType, BotIs
  <1>6. Noted({})
    BY <1>1, SameNotes DEF Typed
  <1>7. BaseInv'
    BY <1>1, <1>2, <1>5, <1>6, JobBase DEF Typed, BotIs
  <1> QED
    BY <1>1, <1>2, <1>5, <1>6, <1>7

\* A step that fails a call, or is refused: the job ends or goes on, a join leaves joinInFlight.
Gives(o) ==
  \/ /\ o.op = "join" /\ o.alive /\ JobsMove(o, {})
     /\ BotIs(bot.live, bot.joined, bot.channels, FALSE, bot.granting)
  \/ o.op = "online" /\ o.alive /\ bot' = bot /\ JobsMove(o, {Moved(o, "join")})
  \/ o.op = "banish" /\ o.alive /\ bot' = bot /\ JobsMove(o, {Moved(o, "filter")})
  \/ (o.op = "offline" \/ ~o.alive) /\ bot' = bot /\ JobsMove(o, {})

LEMMA GoesOnIs ==
  ASSUME BaseInv, NEW o \in Running, GoesOn(o), o.pc \in {"read", "write"}
  PROVE  /\ IsJob(o)
         /\ \/ o.op = "online" /\ o.alive /\ JobsMove(o, {Moved(o, "join")}) /\ IsJob(Moved(o, "join"))
            \/ o.op = "banish" /\ o.alive /\ JobsMove(o, {Moved(o, "filter")}) /\ IsJob(Moved(o, "filter"))
            \/ o.op = "join" /\ o.alive /\ JobsMove(o, {Moved(o, "append")}) /\ IsJob(Moved(o, "append"))
            \/ (o.op = "offline" \/ ~o.alive) /\ JobsMove(o, {})
  <1>1. JobsKnow /\ IsJob(o) /\ o.op \in {"online", "offline", "join", "banish"}
    BY DEF BaseInv, JobsKnow, IsJob, Steps
  <1>2. CASE o.op = "offline" \/ ~o.alive
    BY <1>1, <1>2, EndIs DEF GoesOn
  <1>3. CASE o.op # "offline" /\ o.alive
    <2>1. JobsMove(o, {Moved(o, AfterWrite(o.op))})
      BY <1>1, <1>3, StepsJob DEF GoesOn
    <2>2. <<o.op, AfterWrite(o.op)>> \in Steps
      BY <1>1, <1>3 DEF AfterWrite, Steps
    <2>3. IsJob(Moved(o, AfterWrite(o.op)))
      BY <1>1, <1>3, <2>2, MovedIs
    <2>4. \/ o.op = "online" /\ AfterWrite(o.op) = "join"
          \/ o.op = "banish" /\ AfterWrite(o.op) = "filter"
          \/ o.op = "join" /\ AfterWrite(o.op) = "append"
      BY <1>1, <1>3 DEF AfterWrite
    <2> QED
      BY <1>1, <1>3, <2>1, <2>3, <2>4
  <1> QED
    BY <1>2, <1>3

LEMMA GivesUpIs ==
  ASSUME BaseInv, NEW o \in Running, GivesUp(o), o.pc \in {"profile", "read", "write"},
         NEW m \in SUBSET SUBSET Words, Mishap(m), left' = left \/ Spend("fail"),
         UNCHANGED <<twitch, row, usage, channel>>
  PROVE  BaseInv' /\ Noted(m) /\ IsJob(o) /\ Gives(o)
  <1>1. Typed /\ JobsKnow /\ IsJob(o)
    BY ShapesTyped DEF BaseInv, JobsKnow
  <1>2. Noted(m) /\ Noted({})
    BY <1>1, MishapNotes DEF Noted, Typed
  <1>3. CASE o.op = "join" /\ o.alive
    <2>1. End(o) /\ bot' = [bot EXCEPT !.joining = FALSE]
      BY <1>3 DEF GivesUp, GivesUpWith
    <2>2. BotIs(bot.live, bot.joined, bot.channels, FALSE, bot.granting)
      BY <1>1, <2>1 DEF Typed, BotType, BotIs
    <2>3. JobsMove(o, {})
      BY <2>1, EndIs
    <2>4. BaseInv'
      BY <1>1, <1>2, <2>2, <2>3, JobBase DEF Typed, BotIs, Requests
    <2> QED
      BY <1>1, <1>2, <1>3, <2>2, <2>3, <2>4 DEF Gives
  <1>4. CASE ~(o.op = "join" /\ o.alive)
    <2>1. GoesOn(o) /\ bot' = bot
      BY <1>4 DEF GivesUp, GivesUpWith
    <2>2. o.pc \in {"read", "write"}
      BY <1>1, <1>4 DEF IsJob, Steps
    <2>3. \/ o.op = "online" /\ o.alive /\ JobsMove(o, {Moved(o, "join")}) /\ IsJob(Moved(o, "join"))
          \/ o.op = "banish" /\ o.alive /\ JobsMove(o, {Moved(o, "filter")}) /\ IsJob(Moved(o, "filter"))
          \/ (o.op = "offline" \/ ~o.alive) /\ JobsMove(o, {})
      BY <1>4, <2>1, <2>2, GoesOnIs
    <2>4. bot' \in BotType /\ twitch' \in TwitchType
      BY <1>1, <2>1 DEF Typed
    <2>5. ASSUME NEW S, JobsMove(o, S), \A e \in S : IsJob(e) PROVE BaseInv'
      BY <1>1, <1>2, <2>4, <2>5, JobBase DEF Requests
    <2>6. BaseInv'
      BY <2>3, <2>5
    <2> QED
      BY <1>1, <1>2, <2>1, <2>3, <2>6 DEF Gives
  <1> QED
    BY <1>3, <1>4

LEMMA WriteRefusedEffect ==
  ASSUME BaseInv, NEW o \in Running, WriteRefused(o)
  PROVE  /\ BaseInv' /\ Noted({}) /\ UNCHANGED <<twitch, row, channel>>
         /\ o.pc = "write" /\ ~CanWrite(o) /\ IsJob(o) /\ Gives(o)
  <1>1. {{"refused"}} \in SUBSET SUBSET Words
    BY DEF Words
  <1>2. o.pc = "write" /\ ~CanWrite(o) /\ UNCHANGED <<twitch, row, usage, channel, left>>
    BY DEF WriteRefused
  <1>3. BaseInv' /\ Noted({{"refused"}}) /\ IsJob(o) /\ Gives(o)
    BY <1>1, <1>2, GivesUpIs DEF WriteRefused
  <1> QED
    BY <1>2, <1>3 DEF Noted

LEMMA CallFailsEffect ==
  ASSUME BaseInv, NEW o \in Running, CallFails(o)
  PROVE  /\ BaseInv' /\ Noted({{o.op}}) /\ UNCHANGED <<twitch, row, channel>>
         /\ o.pc = "read" /\ IsJob(o) /\ Gives(o)
  <1>1. {{o.op}} \in SUBSET SUBSET Words
    BY DEF Words, BaseInv, JobsKnow, IsJob, Jobs
  <1>2. o.pc = "read" /\ UNCHANGED <<twitch, row, usage, channel>> /\ Spend("fail") /\ Mishap({{o.op}})
    BY DEF CallFails, Fails
  <1>3. BaseInv' /\ Noted({{o.op}}) /\ IsJob(o) /\ Gives(o)
    BY <1>1, <1>2, GivesUpIs DEF CallFails
  <1> QED
    BY <1>2, <1>3

LEMMA ProfileFailsEffect ==
  ASSUME BaseInv, NEW o \in Running, ProfileFails(o)
  PROVE  /\ BaseInv' /\ Noted({{"profile"}}) /\ UNCHANGED <<twitch, row, channel>>
         /\ o.pc = "profile" /\ IsJob(o) /\ Gives(o)
  <1>1. {{"profile"}} \in SUBSET SUBSET Words
    BY DEF Words
  <1>2. o.pc = "profile" /\ UNCHANGED <<twitch, row, usage, channel>> /\ Spend("fail") /\ Mishap({{"profile"}})
    BY DEF ProfileFails, Fails
  <1>3. BaseInv' /\ Noted({{"profile"}}) /\ IsJob(o) /\ Gives(o)
    BY <1>1, <1>2, GivesUpIs DEF ProfileFails
  <1> QED
    BY <1>2, <1>3

LEMMA JoinLooksUpEffect ==
  ASSUME BaseInv, NEW o \in Running, JoinLooksUp(o)
  PROVE  /\ BaseInv' /\ Noted({}) /\ UNCHANGED <<twitch, row, bot, channel>>
         /\ o.op = "join" /\ IsJob(o) /\ o.alive
         /\ \E q : q.op = "join" /\ q.pc = "read" /\ q.alive /\ q.row = o.row /\ JobsMove(o, {q})
  <1>1. Typed /\ o.pc = "profile" /\ UNCHANGED <<twitch, row, usage, bot, channel, left, hist>>
    BY ShapesTyped DEF BaseInv, JoinLooksUp
  <1>2. IsJob(o) /\ o.op = "join" /\ o.alive
    BY <1>1 DEF BaseInv, JobsKnow, IsJob, Steps
  <1>3. PICK n \in Nat : n = IF Streaming THEN 1 ELSE 0
    OBVIOUS
  <1>4. PICK q : q = [o EXCEPT !.pc = "read", !.n = n]
    OBVIOUS
  <1>5. <<"join", "read">> \in Steps /\ "read" \in {step[2] : step \in Steps}
    BY DEF Steps
  <1>6. IsJob(q) /\ q.op = "join" /\ q.pc = "read" /\ q.alive /\ q.row = o.row
    BY <1>2, <1>3, <1>4, <1>5 DEF IsJob, Jobs
  <1>7. Become(o, q)
    BY <1>3, <1>4 DEF JoinLooksUp
  <1>8. JobsMove(o, {q})
    BY <1>7, BecomesJob DEF BaseInv, JobsKnow
  <1>9. BaseInv' /\ Noted({})
    BY <1>1, <1>6, <1>8, OnlyJobBase DEF OnlyJob
  <1> QED
    BY <1>1, <1>2, <1>6, <1>8, <1>9

LEMMA JoinAppendsEffect ==
  ASSUME BaseInv, NEW o \in Running, JoinAppends(o)
  PROVE  /\ BaseInv' /\ Noted({}) /\ UNCHANGED <<row, channel>>
         /\ twitch'.chatSub = twitch.chatSub /\ twitch'.revoked = twitch.revoked
         /\ o.op = "join" /\ o.pc = "append" /\ IsJob(o) /\ o.alive
         /\ BotIs(bot.live, bot.joined, Append(bot.channels, FALSE), FALSE, bot.granting)
         /\ JobsMove(o, {})
  <1>1. /\ Typed /\ o.pc = "append" /\ End(o) /\ UNCHANGED <<row, usage, channel, left, hist>>
        /\ twitch' = [twitch EXCEPT !.hears = TRUE]
        /\ bot' = [bot EXCEPT !.channels = Append(@, FALSE), !.joining = FALSE]
    BY ShapesTyped DEF BaseInv, JoinAppends
  <1>2. JobsMove(o, {}) /\ IsJob(o) /\ o.op = "join" /\ o.alive
    BY <1>1, EndIs DEF IsJob, Steps
  <1>3. PICK ch \in Seq(BOOLEAN) : ch = Append(bot.channels, FALSE)
    <2>1. PICK c \in Seq(BOOLEAN) : c = bot.channels
      BY <1>1 DEF Typed, BotType
    <2>2. FALSE \in BOOLEAN
      OBVIOUS
    <2>3. ASSUME NEW S, NEW s \in Seq(S), NEW e \in S PROVE Append(s, e) \in Seq(S)
      OBVIOUS
    <2>4. Append(c, FALSE) \in Seq(BOOLEAN)
      BY <2>2, <2>3, Zenon
    <2> QED
      BY <2>1, <2>4
  <1>4. bot' = [bot EXCEPT !.channels = ch, !.joining = FALSE]
    BY <1>1, <1>3 DEF Typed, BotType
  <1>5. BotIs(bot.live, bot.joined, ch, FALSE, bot.granting)
    BY <1>1, <1>4 DEF Typed, BotType, BotIs
  <1>6. /\ twitch' \in TwitchType /\ twitch'.sent = twitch.sent /\ twitch'.events = twitch.events
        /\ twitch'.chatSub = twitch.chatSub /\ twitch'.revoked = twitch.revoked
    BY <1>1 DEF Typed, TwitchType
  <1>7. Noted({})
    BY <1>1, SameNotes DEF Typed
  <1>8. bot' \in BotType
    BY <1>5 DEF BotIs
  <1>9. BaseInv'
    BY <1>1, <1>2, <1>6, <1>7, <1>8, EndBase
  <1> QED
    BY <1>1, <1>2, <1>3, <1>5, <1>6, <1>7, <1>9

LEMMA BanishUnsubscribesEffect ==
  ASSUME BaseInv, NEW o \in Running, BanishUnsubscribes(o)
  PROVE  /\ BaseInv' /\ Noted({}) /\ UNCHANGED <<row, channel>>
         /\ o.op = "banish" /\ IsJob(o) /\ o.alive
         /\ BotIs(FALSE, bot.joined, bot.channels, bot.joining, bot.granting)
         /\ JobsMove(o, {Moved(o, "read")})
  <1>1. /\ Typed /\ o.pc = "unsubscribe" /\ StepTo(o, "read") /\ UNCHANGED <<row, usage, channel, left, hist>>
        /\ twitch' = [twitch EXCEPT !.hears = FALSE, !.chatSub = FALSE]
        /\ bot' = [bot EXCEPT !.live = FALSE]
    BY ShapesTyped DEF BaseInv, BanishUnsubscribes
  <1>2. o.op = "banish"
    BY <1>1 DEF BaseInv, JobsKnow, IsJob, Steps
  <1>3. JobsMove(o, {Moved(o, "read")}) /\ IsJob(o) /\ o.alive /\ IsJob(Moved(o, "read"))
    BY <1>1, <1>2, StepIs DEF Steps
  <1>4. BotIs(FALSE, bot.joined, bot.channels, bot.joining, bot.granting)
    BY <1>1 DEF Typed, BotType, BotIs
  <1>5. twitch' \in TwitchType /\ twitch'.sent = twitch.sent /\ twitch'.events = twitch.events
    BY <1>1 DEF Typed, TwitchType
  <1>6. Noted({})
    BY <1>1, SameNotes DEF Typed
  <1>7. BaseInv'
    BY <1>1, <1>3, <1>4, <1>5, <1>6, JobBase DEF BotIs
  <1> QED
    BY <1>1, <1>2, <1>3, <1>4, <1>6, <1>7

LEMMA BanishFiltersEffect ==
  ASSUME BaseInv, NEW o \in Running, BanishFilters(o)
  PROVE  /\ BaseInv' /\ Noted({}) /\ UNCHANGED <<twitch, row, channel>>
         /\ o.op = "banish" /\ IsJob(o)
         /\ BotIs(bot.live, bot.joined, <<>>, bot.joining, bot.granting)
         /\ JobsMove(o, {})
  <1>1. /\ Typed /\ o.pc = "filter" /\ End(o) /\ UNCHANGED <<twitch, row, usage, channel, left, hist>>
        /\ bot' = [bot EXCEPT !.channels = <<>>]
    BY ShapesTyped DEF BaseInv, BanishFilters
  <1>2. JobsMove(o, {}) /\ IsJob(o) /\ o.op = "banish"
    BY <1>1, EndIs DEF IsJob, Steps
  <1>3. BotIs(bot.live, bot.joined, <<>>, bot.joining, bot.granting)
    <2>1. <<>> \in Seq(BOOLEAN)
      OBVIOUS
    <2>2. PICK ch \in Seq(BOOLEAN) : ch = <<>>
      BY <2>1, Zenon
    <2> QED
      BY <1>1, <2>2 DEF Typed, BotType, BotIs
  <1>4. Noted({})
    BY <1>1, SameNotes DEF Typed
  <1>5. BaseInv'
    BY <1>1, <1>2, <1>3, <1>4, JobBase DEF BotIs, Typed
  <1> QED
    BY <1>1, <1>2, <1>3, <1>4, <1>5

\* Persisting and rehydrating what was rolled.
LEMMA PersistRollEffect ==
  ASSUME BaseInv, NEW o \in Running, PersistRoll(o)
  PROVE  /\ BaseInv' /\ Noted({}) /\ UNCHANGED <<twitch, row, bot, channel>>
         /\ o.op = "persist" /\ IsJob(o) /\ JobsMove(o, {})
  <1>1. /\ Typed /\ JobsKnow /\ Ranges /\ o.pc = "persist" /\ End(o)
        /\ UNCHANGED <<twitch, row, bot, channel, left>>
    BY ShapesTyped DEF BaseInv, PersistRoll, PersistStamps
  <1>2. JobsMove(o, {}) /\ IsJob(o) /\ o.op = "persist"
    BY <1>1, EndIs DEF IsJob, Steps
  <1>3. PICK m \in SUBSET SUBSET Words :
          m = IF Streaming /\ ~(Tracked /\ (o.n = StreamNo) = (KeyStream(row.key) = StreamNo))
              THEN {{"stamp"}} ELSE {}
    BY DEF Words
  <1>4. Noted(m) /\ Noted({})
    <2>1. Mishap(m)
      BY <1>3 DEF PersistRoll, PersistStamps
    <2> QED
      BY <1>1, <2>1, MishapNotes DEF Typed, Noted
  <1>5. usage' \in [key : Nat, count : Nat] /\ usage'.key \in 0..Len(hist.keys)
    <2>1. Stamped(usage, row.key) \in [key : Nat, count : Nat] /\ Stamped(usage, row.key).key = row.key
      BY <1>1 DEF Stamped, Ranges, Rows
    <2>2. usage' = Stamped(usage, row.key) \/ usage' = usage
      BY DEF PersistRoll, PersistStamps
    <2> QED
      BY <1>1, <2>1, <2>2 DEF Ranges
  <1>6. JobsKnow' /\ Ranges'
    BY <1>1, <1>2, <1>4, <1>5, JobsMoveKnow DEF Noted, Ranges
  <1>7. BaseInv'
    BY <1>1, <1>4, <1>6, BaseStep DEF Noted, Typed
  <1> QED
    BY <1>1, <1>2, <1>4, <1>7

LEMMA RehydrateReadsEffect ==
  ASSUME BaseInv, NEW o \in Running, RehydrateReads(o)
  PROVE  /\ BaseInv' /\ Noted({}) /\ UNCHANGED <<twitch, row, bot, channel>>
         /\ o.op = "rehydrate" /\ IsJob(o) /\ \E q : q.op = "rehydrate" /\ q.row = o.row /\ JobsMove(o, {q})
  <1>1. /\ Typed /\ JobsKnow /\ Ranges /\ o.op = "rehydrate" /\ o.pc = "get"
        /\ UNCHANGED <<twitch, row, usage, bot, channel, left>>
    BY ShapesTyped DEF BaseInv, RehydrateReads
  <1>2. IsJob(o)
    BY <1>1 DEF JobsKnow
  <1>3. PICK n \in Nat : n = IF usage.key = row.key THEN usage.count ELSE 0
    BY <1>1 DEF Ranges
  <1>4. PICK q : q = [o EXCEPT !.pc = "merge", !.n = n]
    OBVIOUS
  <1>5. <<"rehydrate", "merge">> \in Steps /\ "merge" \in {step[2] : step \in Steps}
    BY DEF Steps
  <1>6. IsJob(q) /\ q.op = "rehydrate" /\ q.row = o.row
    BY <1>1, <1>2, <1>3, <1>4, <1>5 DEF IsJob, Jobs
  <1>7. JobsMove(o, {q})
    <2>1. Become(o, q)
      BY <1>3, <1>4 DEF RehydrateReads
    <2> QED
      BY <1>1, <2>1, BecomesJob DEF JobsKnow
  <1>8. PICK m \in SUBSET SUBSET Words : m = IF KeyStream(row.key) = StreamNo THEN {} ELSE {{"stamp"}}
    BY DEF Words
  <1>9. Noted({})
    <2>1. Mishap(m)
      BY <1>8 DEF RehydrateReads
    <2> QED
      BY <1>1, <2>1, MishapNotes DEF Typed, Noted
  <1>10. BaseInv'
    BY <1>1, <1>6, <1>7, <1>9, JobBase DEF Typed
  <1> QED
    BY <1>1, <1>2, <1>6, <1>7, <1>9, <1>10

LEMMA RehydrateMergesEffect ==
  ASSUME BaseInv, NEW o \in Running, RehydrateMerges(o)
  PROVE  /\ BaseInv' /\ Noted({}) /\ UNCHANGED <<twitch, row, channel>>
         /\ o.op = "rehydrate" /\ IsJob(o)
         /\ BotIs(bot.live, bot.joined, bot.channels, bot.joining, bot.granting)
         /\ JobsMove(o, {})
  <1>1. Typed /\ o.pc = "merge" /\ End(o) /\ UNCHANGED <<twitch, row, usage, channel, left, hist>>
    BY ShapesTyped DEF BaseInv, RehydrateMerges, Merging
  <1>2. JobsMove(o, {}) /\ IsJob(o) /\ o.op = "rehydrate" /\ o.n \in Nat
    BY <1>1, EndIs DEF IsJob, Steps, Jobs
  <1>3. PICK n \in Nat : n = Larger(bot.rolls, o.n)
    BY <1>1, <1>2 DEF Larger, Typed, BotType
  <1>4. bot' = [bot EXCEPT !.rolls = n]
    BY <1>3 DEF RehydrateMerges, Merging
  <1>5. BotIs(bot.live, bot.joined, bot.channels, bot.joining, bot.granting)
    BY <1>1, <1>4 DEF Typed, BotType, BotIs
  <1>6. Noted({})
    BY <1>1, SameNotes DEF Typed
  <1>7. BaseInv'
    BY <1>1, <1>2, <1>5, <1>6, JobBase DEF Typed, BotIs
  <1> QED
    BY <1>1, <1>2, <1>5, <1>6, <1>7

LEMMA BestEffortFailsEffect ==
  ASSUME BaseInv, NEW o \in Running, BestEffortFails(o)
  PROVE  /\ BaseInv' /\ Noted({}) /\ UNCHANGED <<twitch, row, bot, channel>>
         /\ o.op \in {"persist", "rehydrate", "load", "hydrate"} /\ IsJob(o) /\ JobsMove(o, {})
  <1>1. /\ Typed /\ (o.pc \in {"persist", "get"} \/ o.op \in {"load", "hydrate"}) /\ End(o)
        /\ UNCHANGED <<twitch, row, usage, bot, channel>> /\ Spend("fail") /\ Mishap({{o.op}})
    BY ShapesTyped DEF BaseInv, BestEffortFails, Fails
  <1>2. JobsMove(o, {}) /\ IsJob(o) /\ o.op \in {"persist", "rehydrate", "load", "hydrate"}
    BY <1>1, EndIs DEF IsJob, Steps
  <1>3. {{o.op}} \in SUBSET SUBSET Words
    BY <1>2 DEF Words, Kinds
  <1>4. Noted({})
    BY <1>1, <1>3, MishapNotes DEF Typed, Noted
  <1>5. BaseInv'
    BY <1>1, <1>2, <1>4, JobBase DEF Typed, Requests
  <1> QED
    BY <1>1, <1>2, <1>4, <1>5

\* A grant asks Twitch: what it then sets is so.
LEMMA GrantAsksEffect ==
  ASSUME BaseInv, NEW o \in Running, GrantAsks(o)
  PROVE  /\ BaseInv' /\ Noted({}) /\ UNCHANGED <<row, channel>>
         /\ o.op = "grant" /\ o.pc = "subscribe" /\ IsJob(o) /\ o.alive /\ (Granted => Granted')
         /\ \/ Granted' /\ bot' = bot /\ JobsMove(o, {Moved(o, "grant")})
            \/ /\ BotIs(bot.live, bot.joined, bot.channels, bot.joining, FALSE)
               /\ JobsMove(o, {})
  <1>1. Typed /\ o.pc = "subscribe" /\ UNCHANGED <<row, usage, channel, left, hist>>
    BY ShapesTyped DEF BaseInv, GrantAsks, GrantSubscribes
  <1>2. IsJob(o) /\ o.op = "grant" /\ o.alive
    BY <1>1 DEF BaseInv, JobsKnow, IsJob, Steps
  <1>3. PICK s \in BOOLEAN : s = (twitch.chatSub \/ twitch.modded)
    OBVIOUS
  <1>4. twitch' = [twitch EXCEPT !.chatSub = s]
    BY <1>1, <1>3 DEF GrantAsks, GrantSubscribes, Typed, TwitchType
  <1>5. /\ twitch' \in TwitchType /\ twitch'.sent = twitch.sent /\ twitch'.events = twitch.events
        /\ twitch'.chatSub = s /\ twitch'.revoked = twitch.revoked
    BY <1>1, <1>4 DEF Typed, TwitchType
  <1>6. Noted({})
    BY <1>1, SameNotes DEF Typed
  <1>7. Granted => Granted'
    BY <1>3, <1>5 DEF Granted
  <1>8. CASE twitch.modded
    <2>1. StepTo(o, "grant") /\ bot' = bot
      BY <1>8 DEF GrantAsks, GrantSubscribes
    <2>2. JobsMove(o, {Moved(o, "grant")}) /\ IsJob(Moved(o, "grant"))
      BY <1>1, <1>2, <2>1, StepIs DEF Steps
    <2>3. BaseInv'
      BY <1>1, <1>5, <1>6, <2>1, <2>2, JobBase DEF Typed
    <2> QED
      BY <1>1, <1>2, <1>3, <1>5, <1>6, <1>7, <1>8, <2>1, <2>2, <2>3 DEF Granted
  <1>9. CASE ~twitch.modded
    <2>1. End(o) /\ bot' = [bot EXCEPT !.granting = FALSE]
      BY <1>9 DEF GrantAsks, GrantSubscribes
    <2>2. JobsMove(o, {})
      BY <2>1, EndIs
    <2>3. BotIs(bot.live, bot.joined, bot.channels, bot.joining, FALSE)
      BY <1>1, <2>1 DEF Typed, BotType, BotIs
    <2>4. BaseInv'
      BY <1>1, <1>5, <1>6, <2>2, <2>3, JobBase DEF BotIs
    <2> QED
      BY <1>1, <1>2, <1>6, <1>7, <2>2, <2>3, <2>4
  <1> QED
    BY <1>8, <1>9

LEMMA GrantSetsEffect ==
  ASSUME BaseInv, NEW o \in Running, GrantSets(o)
  PROVE  /\ BaseInv' /\ Noted({}) /\ UNCHANGED <<twitch, row, channel>>
         /\ o.op = "grant" /\ o.pc = "grant" /\ IsJob(o) /\ o.alive
         /\ BotIs(bot.live, bot.joined, WithPrivs(TRUE), bot.joining, FALSE)
         /\ JobsMove(o, {})
  <1>1. /\ Typed /\ o.pc = "grant" /\ End(o) /\ UNCHANGED <<twitch, row, usage, channel, left, hist>>
        /\ bot' = [bot EXCEPT !.granting = FALSE, !.channels = WithPrivs(TRUE)]
    BY ShapesTyped DEF BaseInv, GrantSets
  <1>2. JobsMove(o, {}) /\ IsJob(o) /\ o.op = "grant" /\ o.alive
    BY <1>1, EndIs DEF IsJob, Steps
  <1>3. PICK ch \in Seq(BOOLEAN) : ch = WithPrivs(TRUE)
    BY <1>1, PrivsSet
  <1>4. BotIs(bot.live, bot.joined, ch, bot.joining, FALSE)
    BY <1>1, <1>3 DEF Typed, BotType, BotIs
  <1>5. Noted({})
    BY <1>1, SameNotes DEF Typed
  <1>6. bot' \in BotType /\ twitch' \in TwitchType
    BY <1>1, <1>4 DEF Typed, BotIs
  <1>7. BaseInv'
    BY <1>1, <1>2, <1>5, <1>6, EndBase
  <1> QED
    BY <1>1, <1>2, <1>3, <1>4, <1>5, <1>7

LEMMA HydrateSeedsEffect ==
  ASSUME BaseInv, NEW o \in Running, HydrateSeeds(o)
  PROVE  /\ BaseInv' /\ Noted({}) /\ UNCHANGED <<twitch, row, channel>>
         /\ o.op = "hydrate" /\ IsJob(o)
         /\ BotIs(bot.live, bot.joined, WithPrivs(TRUE), bot.joining, bot.granting)
         /\ JobsMove(o, {})
  <1>1. /\ Typed /\ o.pc = "seed" /\ End(o) /\ UNCHANGED <<twitch, row, usage, channel, left, hist>>
        /\ bot' = [bot EXCEPT !.channels = WithPrivs(TRUE)]
    BY ShapesTyped DEF BaseInv, HydrateSeeds
  <1>2. JobsMove(o, {}) /\ IsJob(o) /\ o.op = "hydrate"
    BY <1>1, EndIs DEF IsJob, Steps
  <1>3. PICK ch \in Seq(BOOLEAN) : ch = WithPrivs(TRUE)
    BY <1>1, PrivsSet
  <1>4. BotIs(bot.live, bot.joined, ch, bot.joining, bot.granting)
    BY <1>1, <1>3 DEF Typed, BotType, BotIs
  <1>5. Noted({})
    BY <1>1, SameNotes DEF Typed
  <1>6. bot' \in BotType /\ twitch' \in TwitchType
    BY <1>1, <1>4 DEF Typed, BotIs
  <1>7. BaseInv'
    BY <1>1, <1>2, <1>5, <1>6, EndBase
  <1> QED
    BY <1>1, <1>2, <1>3, <1>4, <1>5, <1>7

\* A write of the row: what it makes of the row, of the keys, and of who is a member.
LEMMA WrittenIs ==
  ASSUME BaseInv, NEW o \in Running, WriteRow(o)
  PROVE  /\ IsJob(o) /\ o.pc = "write" /\ row' \in Rows /\ row'.exists
         /\ row'.key <= Len(hist.keys) \/ row'.key = NewKey
         /\ \/ o.op \in {"online", "offline"} /\ o.row.exists /\ row'.optIn = o.row.optIn
            \/ o.op = "banish" /\ o.row.exists /\ ~row'.optIn
            \/ o.op = "join" /\ row'.optIn
  <1>1. Shapes /\ IsJob(o) /\ o.pc = "write" /\ CanWrite(o) /\ row' = Written(o)
    BY DEF BaseInv, JobsKnow, WriteRow
  <1>2. o.op \in {"online", "offline", "join", "banish"} /\ o.row \in Rows
    BY <1>1 DEF IsJob, Steps, Jobs
  <1>3. PICK r \in Rows : r = o.row /\ r.key <= Len(hist.keys)
    BY <1>1, <1>2 DEF IsJob
  <1>4. NewKey \in Nat /\ Len(hist.keys) \in Nat
    BY <1>1 DEF Shapes, NewKey
  <1>5. CASE o.op = "online"
    <2>1. PICK k \in Nat : k = (IF ~r.live THEN NewKey ELSE r.key)
      BY <1>3, <1>4 DEF Rows
    <2>2. row' = [r EXCEPT !.live = TRUE, !.key = k]
      BY <1>1, <1>3, <1>5, <2>1 DEF Written, MintOnTransition, PutLive, Rows
    <2> QED
      BY <1>1, <1>3, <1>5, <2>1, <2>2 DEF Rows, CanWrite
  <1>6. CASE o.op = "offline"
    <2>1. row' = [r EXCEPT !.live = FALSE]
      BY <1>1, <1>3, <1>6 DEF Written
    <2> QED
      BY <1>1, <1>3, <1>6, <2>1 DEF Rows, CanWrite
  <1>7. CASE o.op = "banish"
    <2>1. row' = [r EXCEPT !.optIn = FALSE]
      BY <1>1, <1>3, <1>7 DEF Written
    <2> QED
      BY <1>1, <1>3, <1>7, <2>1 DEF Rows, CanWrite
  <1>8. CASE o.op = "join"
    <2>1. PICK l \in BOOLEAN : l = (o.n = 1)
      OBVIOUS
    <2>2. row' = IF r.exists THEN [r EXCEPT !.optIn = TRUE]
                 ELSE [exists |-> TRUE, live |-> l, key |-> 0, optIn |-> TRUE]
      BY <1>1, <1>3, <1>8, <2>1 DEF Written, OptedIn
    <2>3. CASE r.exists
      BY <1>1, <1>3, <1>8, <2>2, <2>3 DEF Rows
    <2>4. CASE ~r.exists
      BY <1>1, <1>4, <1>8, <2>2, <2>4 DEF Rows
    <2> QED
      BY <2>3, <2>4
  <1> QED
    BY <1>2, <1>5, <1>6, <1>7, <1>8

LEMMA WriteRowEffect ==
  ASSUME BaseInv, NEW o \in Running, WriteRow(o)
  PROVE  /\ BaseInv' /\ hist.mishaps \subseteq hist'.mishaps /\ UNCHANGED <<twitch, bot, channel>>
         /\ IsJob(o) /\ o.pc = "write" /\ row'.exists
         /\ \/ /\ o.op \in {"online", "offline"} /\ o.row.exists
               /\ row'.optIn = o.row.optIn /\ hist'.member = hist.member
            \/ o.op = "banish" /\ o.row.exists /\ ~row'.optIn /\ ~hist'.member
            \/ o.op = "join" /\ row'.optIn /\ hist'.member
         /\ \/ o.op = "online" /\ o.alive /\ JobsMove(o, {Moved(o, "join")})
            \/ o.op = "banish" /\ o.alive /\ JobsMove(o, {Moved(o, "filter")})
            \/ o.op = "join" /\ o.alive /\ JobsMove(o, {Moved(o, "append")})
            \/ (o.op = "offline" \/ ~o.alive) /\ JobsMove(o, {})
  <1>1. /\ Typed /\ Shapes /\ JobsKnow /\ Ranges /\ GoesOn(o) /\ o.pc = "write"
        /\ UNCHANGED <<twitch, usage, bot, channel, left>>
    BY ShapesTyped DEF BaseInv, WriteRow
  <1>2. /\ row' \in Rows /\ row'.exists
        /\ row'.key <= Len(hist.keys) \/ row'.key = NewKey
        /\ \/ o.op \in {"online", "offline"} /\ o.row.exists /\ row'.optIn = o.row.optIn
           \/ o.op = "banish" /\ o.row.exists /\ ~row'.optIn
           \/ o.op = "join" /\ row'.optIn
    BY WrittenIs
  <1>3. /\ IsJob(o)
        /\ \/ o.op = "online" /\ o.alive /\ JobsMove(o, {Moved(o, "join")}) /\ IsJob(Moved(o, "join"))
           \/ o.op = "banish" /\ o.alive /\ JobsMove(o, {Moved(o, "filter")}) /\ IsJob(Moved(o, "filter"))
           \/ o.op = "join" /\ o.alive /\ JobsMove(o, {Moved(o, "append")}) /\ IsJob(Moved(o, "append"))
           \/ (o.op = "offline" \/ ~o.alive) /\ JobsMove(o, {})
    BY <1>1, GoesOnIs
  <1>4. PICK ks \in Seq(Nat) : ks = IF row'.key = NewKey THEN Append(hist.keys, StreamNo) ELSE hist.keys
    <2>1. hist.keys \in Seq(Nat) /\ StreamNo \in Nat
      BY <1>1 DEF Typed, HistType, TwitchType, StreamNo
    <2>2. Append(hist.keys, StreamNo) \in Seq(Nat)
      BY <2>1
    <2> QED
      BY <2>1, <2>2
  <1>5. /\ Len(hist.keys) \in Nat /\ Len(ks) \in Nat /\ Len(hist.keys) <= Len(ks)
        /\ row'.key = NewKey => Len(ks) = NewKey
    BY <1>1, <1>4 DEF Typed, HistType, NewKey
  <1>6. PICK b \in BOOLEAN : b = CASE o.op = "join" -> TRUE [] o.op = "banish" -> FALSE [] OTHER -> hist.member
    BY <1>1 DEF Typed, HistType
  <1>7. PICK all \in SUBSET SUBSET Words : all = hist.mishaps \cup Midstream(o.op)
    BY <1>1 DEF Typed, HistType, Midstream, Words
  <1>8. hist' = [hist EXCEPT !.keys = ks, !.member = b, !.mishaps = all]
    BY <1>1, <1>4, <1>6, <1>7 DEF WriteRow, Typed, HistType
  <1>9. hist' \in HistType /\ hist'.keys = ks /\ hist'.member = b /\ hist'.mishaps = all
    BY <1>1, <1>8 DEF Typed, HistType
  <1>10. Ranges'
    <2>1. row.key \in Nat /\ row'.key \in Nat /\ usage.key \in Nat
      BY <1>1, <1>2 DEF Ranges, Rows
    <2>2. row'.key <= Len(ks) /\ usage.key <= Len(ks)
      BY <1>1, <1>2, <1>5, <2>1 DEF Ranges
    <2> QED
      BY <1>1, <1>2, <1>5, <1>9, <2>1, <2>2 DEF Ranges
  <1>11. ASSUME NEW S, JobsMove(o, S), \A e \in S : IsJob(e) PROVE JobsKnow'
    <2>1. \A e \in Running' : IsJob(e)
      BY <1>1, <1>11 DEF JobsMove, JobsKnow
    <2>2. \A e \in Running' : e.row.key \in Nat
      BY <2>1 DEF IsJob, Jobs, Rows
    <2>3. \A e \in Running' : e.row.key <= Len(hist'.keys)
      <3>1. PICK m \in Nat, n \in Nat : m = Len(hist.keys) /\ n = Len(hist'.keys) /\ m <= n
        BY <1>5, <1>9
      <3>2. \A e \in Running' : e.row.key <= m
        BY <2>1, <3>1 DEF IsJob
      <3> QED
        BY <2>2, <3>1, <3>2
    <2> QED
      BY <1>11, <2>1, <2>3 DEF JobsKnow, JobsMove, IsJob
  <1>12. JobsKnow'
    BY <1>3, <1>11
  <1>13. BaseInv'
    BY <1>1, <1>9, <1>10, <1>12, BaseStep DEF Typed
  <1>14. \/ o.op \in {"online", "offline"} /\ hist'.member = hist.member
         \/ o.op = "banish" /\ ~hist'.member
         \/ o.op = "join" /\ hist'.member
    BY <1>2, <1>6, <1>9
  <1> QED
    BY <1>1, <1>2, <1>3, <1>7, <1>9, <1>13, <1>14

\* After a restart: writes core-api finishes, and what booting starts.
AfterRestart(e) ==
  \/ ~e.alive /\ e.pc = "write" /\ \E o \in Running : e.op = o.op /\ o.pc = "write" /\ e.row = o.row
  \/ e.alive /\ e.row = NoRow /\ e.op \in {"rehydrate", "load"}
  \/ e.alive /\ e.row = NoRow /\ e.op = "hydrate" /\ twitch.chatSub

LEMMA RestartEffect ==
  ASSUME BaseInv, Restart
  PROVE  /\ BaseInv' /\ Noted(Beside("restart")) /\ UNCHANGED <<twitch, row, channel>>
         /\ BotIs(row.optIn /\ row.live, channel.permanent \/ (row.optIn /\ row.live),
                  IF row.optIn THEN <<FALSE>> ELSE <<>>, FALSE, FALSE)
         /\ \A e \in Running' : AfterRestart(e)
  <1>1. /\ Typed /\ Shapes /\ JobsKnow /\ Ranges /\ Spend("restart") /\ bot' = Boot(row)
        /\ UNCHANGED <<twitch, row, usage, channel>>
    BY ShapesTyped DEF BaseInv, Restart
  <1>2. Noted(Beside("restart"))
    <2>1. PICK m \in SUBSET SUBSET Words :
            m = Beside("restart") \cup IF Streaming /\ hist.served > 0 /\ ~bot'.live THEN {{"unseeded"}} ELSE {}
      <3>1. Beside("restart") \in SUBSET SUBSET Words /\ {{"unseeded"}} \in SUBSET SUBSET Words
        BY <1>1, BesideType DEF Kinds, RowWork, Words
      <3> QED
        BY <3>1
    <2>2. Noted(m)
      BY <1>1, <2>1, MishapNotes DEF Restart, Typed
    <2> QED
      BY <2>1, <2>2 DEF Noted
  <1>3. BotIs(row.optIn /\ row.live, channel.permanent \/ (row.optIn /\ row.live),
              IF row.optIn THEN <<FALSE>> ELSE <<>>, FALSE, FALSE)
    <2>1. <<>> \in Seq(BOOLEAN) /\ <<FALSE>> \in Seq(BOOLEAN)
      OBVIOUS
    <2>2. PICK ch \in Seq(BOOLEAN) : ch = IF row.optIn THEN <<FALSE>> ELSE <<>>
      BY <2>1, Zenon
    <2>3. PICK l \in BOOLEAN, j \in BOOLEAN :
            l = (row.optIn /\ row.live) /\ j = (channel.permanent \/ (row.optIn /\ row.live))
      OBVIOUS
    <2>4. bot' = [live |-> l, joined |-> j, channels |-> ch, joining |-> FALSE, granting |-> FALSE,
                  loaded |-> {}, rolls |-> 0]
      BY <1>1, <2>2, <2>3 DEF Boot
    <2>5. BotIs(l, j, ch, FALSE, FALSE)
      BY <2>4 DEF BotIs, BotType
    <2> QED
      BY <2>2, <2>3, <2>5
  <1> DEFINE dead == {[o EXCEPT !.alive = FALSE] : o \in {p \in Running : p.pc = "write"}}
             new == (IF bot'.live THEN {Go("rehydrate", "get")} \cup Loads ELSE {})
                    \cup (IF Tracked' /\ twitch.chatSub THEN {Go("hydrate", "seed")} ELSE {})
  <1>4. jobs' = SetToBag(dead \cup new)
    BY DEF Restart
  <1>5. Running' = dead \cup new /\ jobs' \in [Running' -> Nat \ {0}]
    BY <1>4 DEF Running, BagToSet, SetToBag
  <1>6. ASSUME NEW e \in dead PROVE IsJob(e) /\ AfterRestart(e)
    <2>1. PICK o \in Running : o.pc = "write" /\ e = [o EXCEPT !.alive = FALSE]
      OBVIOUS
    <2>2. IsJob(o)
      BY <1>1 DEF JobsKnow
    <2>3. e \in Jobs /\ e.op = o.op /\ e.pc = o.pc /\ e.row = o.row /\ e.alive = FALSE
      BY <2>1, <2>2 DEF IsJob, Jobs
    <2> QED
      BY <2>1, <2>2, <2>3 DEF IsJob, AfterRestart
  <1>7. ASSUME NEW e \in new PROVE IsJob(e) /\ AfterRestart(e)
    <2>1. \/ e = Go("rehydrate", "get") \/ e \in Loads
          \/ e = Go("hydrate", "seed") /\ twitch.chatSub
      OBVIOUS
    <2>2. <<"rehydrate", "get">> \in Steps /\ <<"hydrate", "seed">> \in Steps
      BY DEF Steps
    <2>3. IsJob(Go("rehydrate", "get")) /\ IsJob(Go("hydrate", "seed"))
      BY <1>1, <2>2, GoIs DEF Kinds
    <2>4. ASSUME e \in Loads PROVE IsJob(e) /\ e.op = "load" /\ e.alive /\ e.row = NoRow
      BY <1>1, <2>4, LoadsAreJobs DEF Loads, Go
    <2>5. ASSUME NEW op, NEW pc, e = Go(op, pc) PROVE e.op = op /\ e.alive /\ e.row = NoRow
      BY <2>5 DEF Go
    <2>6. CASE e = Go("rehydrate", "get")
      BY <2>3, <2>5, <2>6 DEF AfterRestart
    <2>7. CASE e \in Loads
      BY <2>4, <2>7 DEF AfterRestart
    <2>8. CASE e = Go("hydrate", "seed") /\ twitch.chatSub
      BY <2>3, <2>5, <2>8 DEF AfterRestart
    <2> QED
      BY <2>1, <2>6, <2>7, <2>8
  <1>8. JobsKnow'
    BY <1>2, <1>5, <1>6, <1>7 DEF JobsKnow, IsJob, Noted
  <1>9. Ranges' /\ bot' \in BotType
    BY <1>1, <1>2, <1>3, RangesSame DEF Noted, BotIs
  <1>10. BaseInv'
    BY <1>1, <1>2, <1>8, <1>9, BaseStep DEF Typed, Noted, Requests
  <1> QED
    BY <1>1, <1>2, <1>3, <1>5, <1>6, <1>7, <1>10

-----------------------------------------------------------------------------
(* The claims of a join and of a grant.                                    *)

Leaves(op) == Held(op)' = Held(op) /\ Single(op)'

LEMMA HeldInFlight == \A op : InFlight(op) <=> Held(op) # {}
  BY DEF InFlight, Held

LEMMA HeldSame ==
  ASSUME jobs' = jobs, NEW op, Single(op)
  PROVE  Leaves(op)
  BY DEF Leaves, Held, Single, Running

LEMMA HeldBeside ==
  ASSUME NEW e, JobsAdd({e}), NEW op, Single(op), e.op # op
  PROVE  Leaves(op)
  BY DEF JobsAdd, Leaves, Held, Single

LEMMA HeldTaken ==
  ASSUME NEW e, JobsAdd({e}), NEW op, e.op = op, e.alive, Held(op) = {}
  PROVE  Held(op)' # {} /\ Single(op)'
  <1>1. e \notin Running
    BY DEF Held
  <1>2. Held(op)' = {e}
    BY DEF JobsAdd, Held
  <1>3. jobs'[e] = 1
    BY <1>1 DEF JobsAdd
  <1> QED
    BY <1>2, <1>3 DEF Single

\* A step that is not of the holder, of the holder that ends, of the holder that goes on.
LEMMA HeldSpared ==
  ASSUME NEW o \in Running, NEW S, JobsMove(o, S), NEW op, Single(op),
         ~(o.op = op /\ o.alive), \A e \in S : ~(e.op = op /\ e.alive)
  PROVE  Leaves(op)
  <1>1. Held(op)' = Held(op)
    BY DEF JobsMove, Held
  <1>2. \A e \in Held(op) : e \in Running /\ e \notin S \cup {o}
    BY DEF Held
  <1>3. \A e \in Held(op) : jobs'[e] = jobs[e]
    BY <1>2 DEF JobsMove
  <1> QED
    BY <1>1, <1>3 DEF Leaves, Single

LEMMA HolderIs ==
  ASSUME NEW o \in Running, NEW op, Single(op), o.op = op, o.alive
  PROVE  jobs[o] = 1 /\ Held(op) = {o}
  BY DEF Single, Held

LEMMA HeldEnds ==
  ASSUME NEW o \in Running, NEW S, JobsMove(o, S), NEW op, Single(op),
         o.op = op, o.alive, \A e \in S : ~(e.op = op /\ e.alive)
  PROVE  Held(op)' = {} /\ Single(op)'
  <1>1. Held(op)' = {}
    BY HolderIs DEF JobsMove, Held
  <1> QED
    BY <1>1 DEF Single

LEMMA HeldBecomes ==
  ASSUME NEW o \in Running, NEW n, JobsMove(o, {n}), NEW op, Single(op),
         o.op = op, o.alive, n.op = op, n.alive
  PROVE  Held(op)' # {} /\ Single(op)'
  <1>1. Held(op)' = {n}
    BY HolderIs DEF JobsMove, Held
  <1>2. CASE n \in Running
    <2>1. n = o /\ jobs[o] = 1
      BY <1>2, HolderIs DEF Held
    <2>2. jobs'[n] = 1
      BY <2>1 DEF JobsMove
    <2> QED
      BY <1>1, <2>2 DEF Single
  <1>3. CASE n \notin Running
    <2>1. jobs'[n] = 1
      BY <1>3 DEF JobsMove
    <2> QED
      BY <1>1, <2>1 DEF Single
  <1> QED
    BY <1>2, <1>3

\* The claims, without InFlight.
LEMMA ClaimsAre ==
  ClaimsKnow <=> /\ Len(bot.channels) <= 1
                 /\ bot.joining = (Held("join") # {}) /\ bot.granting = (Held("grant") # {})
                 /\ Single("join") /\ Single("grant")
                 /\ Held("join") # {} => ~Tracked
  BY HeldInFlight DEF ClaimsKnow, TrackedOnce

\* Nothing that happens to the claims.
LEMMA ClaimsFrame ==
  ASSUME ClaimsKnow, Typed, bot' \in BotType, Leaves("join"), Leaves("grant"),
         Len(bot'.channels) <= Len(bot.channels), bot'.joining = bot.joining, bot'.granting = bot.granting
  PROVE  ClaimsKnow'
  <1>1. /\ Len(bot.channels) <= 1
        /\ bot.joining = (Held("join") # {}) /\ bot.granting = (Held("grant") # {})
        /\ Held("join") # {} => ~Tracked
    BY ClaimsAre
  <1>2. /\ Held("join")' = Held("join") /\ Held("grant")' = Held("grant")
        /\ Single("join")' /\ Single("grant")'
    BY DEF Leaves
  <1>3. bot.channels \in Seq(BOOLEAN) /\ bot'.channels \in Seq(BOOLEAN)
    BY DEF Typed, BotType
  <1>4. Len(bot'.channels) <= 1 /\ (Tracked' => Tracked)
    <2>1. PICK c \in Seq(BOOLEAN), d \in Seq(BOOLEAN) : c = bot.channels /\ d = bot'.channels
      BY <1>3
    <2>2. Len(c) \in Nat /\ Len(d) \in Nat /\ Len(d) <= Len(c) /\ Len(c) <= 1
      BY <1>1, <2>1
    <2>3. c = <<>> => d = <<>>
      BY <2>2
    <2> QED
      BY <2>1, <2>2, <2>3 DEF Tracked
  <1>5. /\ bot'.joining = (Held("join")' # {}) /\ bot'.granting = (Held("grant")' # {})
        /\ Held("join")' # {} => ~Tracked'
    BY <1>1, <1>2, <1>4
  <1> QED
    BY <1>2, <1>4, <1>5, HeldInFlight DEF ClaimsKnow, TrackedOnce, InFlight, Held

LEMMA ClaimsNext ==
  ASSUME Len(bot'.channels) <= 1,
         bot'.joining = (Held("join")' # {}), bot'.granting = (Held("grant")' # {}),
         Single("join")', Single("grant")', Held("join")' # {} => ~Tracked'
  PROVE  ClaimsKnow'
  BY DEF ClaimsKnow, TrackedOnce, InFlight, Held

\* Kinds of job no claim is made for, and what only the bot's own state is for.
Claimless == {"online", "offline", "banish", "load", "persist", "rehydrate", "hydrate"}
Side == {"persist", "rehydrate", "load", "hydrate"}
BotSame == BotIs(bot.live, bot.joined, bot.channels, bot.joining, bot.granting)

LEMMA BotSameIs == bot \in BotType /\ bot' = bot => BotSame
  BY DEF BotSame, BotIs

LEMMA SideStep ==
  ASSUME BaseInv, NEW o \in Running,
         Load(o) \/ PersistRoll(o) \/ RehydrateReads(o) \/ RehydrateMerges(o) \/ BestEffortFails(o)
  PROVE  /\ BaseInv' /\ Noted({}) /\ UNCHANGED <<twitch, row, channel>> /\ BotSame /\ IsJob(o) /\ o.op \in Side
         /\ \E S : JobsMove(o, S) /\ \A e \in S : e.op = "rehydrate" /\ o.op = "rehydrate" /\ e.row = o.row
  <1>1. bot \in BotType
    BY ShapesTyped DEF BaseInv, Typed
  <1>2. CASE Load(o)
    BY <1>2, LoadEffect DEF BotSame, Side
  <1>3. CASE PersistRoll(o)
    BY <1>1, <1>3, PersistRollEffect, BotSameIs DEF Side
  <1>4. CASE RehydrateReads(o)
    <2>1. PICK q : q.op = "rehydrate" /\ q.row = o.row /\ JobsMove(o, {q})
      BY <1>4, RehydrateReadsEffect
    <2>2. \A e \in {q} : e.op = "rehydrate" /\ e.row = o.row
      BY <2>1
    <2> QED
      BY <1>1, <1>4, <2>1, <2>2, RehydrateReadsEffect, BotSameIs DEF Side
  <1>5. CASE RehydrateMerges(o)
    BY <1>5, RehydrateMergesEffect DEF BotSame, Side
  <1>6. CASE BestEffortFails(o)
    BY <1>1, <1>6, BestEffortFailsEffect, BotSameIs DEF Side
  <1> QED
    BY <1>2, <1>3, <1>4, <1>5, <1>6

LEMMA OnlineStep ==
  ASSUME BaseInv, NEW o \in Running, GoLiveStep(o)
  PROVE  /\ BaseInv' /\ Noted({}) /\ UNCHANGED <<twitch, row, channel>> /\ IsJob(o) /\ o.op = "online" /\ o.alive
         /\ bot' \in BotType /\ bot'.channels = bot.channels
         /\ bot'.joining = bot.joining /\ bot'.granting = bot.granting
         /\ \E S : JobsMove(o, S) /\ \A e \in S : e.op \in {"online", "load"} /\ e.row \in {o.row, NoRow}
  <1>1. bot \in BotType
    BY ShapesTyped DEF BaseInv, Typed
  <1> DEFINE Others(S) == \A e \in S : e.op \in {"online", "load"} /\ e.row \in {o.row, NoRow}
  <1>a. o.op = "online" => \A pc : Others({Moved(o, pc)})
    BY DEF Moved
  <1>b. Others({})
    OBVIOUS
  <1> HIDE DEF Others
  <1> DEFINE Some == \E S : JobsMove(o, S) /\ Others(S)
  <1>c. \A S : JobsMove(o, S) /\ Others(S) => Some
    OBVIOUS
  <1> HIDE DEF Some
  <1> DEFINE Kept == bot' \in BotType /\ bot'.channels = bot.channels
                     /\ bot'.joining = bot.joining /\ bot'.granting = bot.granting
             Rest == /\ BaseInv' /\ Noted({}) /\ UNCHANGED <<twitch, row, channel>>
                     /\ IsJob(o) /\ o.op = "online" /\ o.alive
  <1>d. (bot' = bot \/ Lives) => Kept
    BY <1>1 DEF Lives
  <1> HIDE DEF Kept
  <1>2. ASSUME GoLiveGuard(o) PROVE Some /\ Kept /\ Rest
    BY <1>2, <1>a, <1>c, <1>d, GoLiveGuardEffect
  <1>3. ASSUME AskOptIn(o) PROVE Some /\ Kept /\ Rest
    BY <1>3, <1>a, <1>b, <1>c, <1>d, AskOptInEffect
  <1>4. ASSUME AskFails(o) PROVE Some /\ Kept /\ Rest
    <2>1. Noted({{"ask"}}) => Noted({})
      BY DEF Noted
    <2> QED
      BY <1>4, <1>a, <1>c, <1>d, <2>1, AskFailsEffect
  <1>5. ASSUME GoLiveJoins(o) PROVE Some /\ Kept /\ Rest
    <2>1. Kept
      BY <1>5, GoLiveJoinsEffect DEF BotIs, Kept
    <2> QED
      BY <1>5, <1>a, <1>c, <2>1, GoLiveJoinsEffect
  <1>6. ASSUME GoLiveFresh(o) PROVE Some /\ Kept /\ Rest
    <2>1. Kept
      BY <1>6, GoLiveFreshEffect DEF BotIs, Kept
    <2>2. Others(Loads)
      BY DEF Others, Loads, Go
    <2> QED
      BY <1>6, <1>c, <2>1, <2>2, GoLiveFreshEffect
  <1>7. Some /\ Kept /\ Rest
    BY <1>2, <1>3, <1>4, <1>5, <1>6 DEF GoLiveStep
  <1> QED
    BY <1>7 DEF Some, Kept, Others

LEMMA ClaimsOfOthers ==
  ASSUME BaseInv, ClaimsKnow, bot' \in BotType, Len(bot'.channels) <= Len(bot.channels),
         bot'.joining = bot.joining, bot'.granting = bot.granting,
         \/ jobs' = jobs
         \/ \E e : e.op \in Claimless /\ JobsAdd({e})
         \/ \E o \in Running : \E S : /\ JobsMove(o, S) /\ (o.op \in Claimless \/ ~o.alive)
                                  /\ \A e \in S : e.op \in Claimless \/ ~e.alive
  PROVE  ClaimsKnow'
  <1>1. Typed /\ Single("join") /\ Single("grant")
    BY ShapesTyped, ClaimsAre DEF BaseInv
  <1>2. Leaves("join") /\ Leaves("grant")
    <2>1. CASE jobs' = jobs
      BY <1>1, <2>1, HeldSame
    <2>2. CASE \E e : e.op \in Claimless /\ JobsAdd({e})
      <3>1. PICK e : e.op \in Claimless /\ JobsAdd({e})
        BY <2>2
      <3>2. e.op # "join" /\ e.op # "grant"
        BY <3>1 DEF Claimless
      <3> QED
        BY <1>1, <3>1, <3>2, HeldBeside
    <2>3. CASE \E o \in Running : \E S : /\ JobsMove(o, S) /\ (o.op \in Claimless \/ ~o.alive)
                                     /\ \A e \in S : e.op \in Claimless \/ ~e.alive
      <3>1. PICK o \in Running : \E S : /\ JobsMove(o, S) /\ (o.op \in Claimless \/ ~o.alive)
                                    /\ \A e \in S : e.op \in Claimless \/ ~e.alive
        BY <2>3
      <3>0. PICK S : /\ JobsMove(o, S) /\ (o.op \in Claimless \/ ~o.alive)
                     /\ \A e \in S : e.op \in Claimless \/ ~e.alive
        BY <3>1
      <3>2. ASSUME NEW op \in {"join", "grant"}
            PROVE  ~(o.op = op /\ o.alive) /\ \A e \in S : ~(e.op = op /\ e.alive)
        BY <3>0 DEF Claimless
      <3>3. Single("join") /\ ~(o.op = "join" /\ o.alive) /\ \A e \in S : ~(e.op = "join" /\ e.alive)
        BY <1>1, <3>2
      <3>4. Single("grant") /\ ~(o.op = "grant" /\ o.alive) /\ \A e \in S : ~(e.op = "grant" /\ e.alive)
        BY <1>1, <3>2
      <3>5. Leaves("join")
        BY <3>0, <3>3, HeldSpared
      <3> QED
        BY <3>0, <3>4, <3>5, HeldSpared
    <2> QED
      BY <2>1, <2>2, <2>3
  <1> QED
    BY <1>1, <1>2, ClaimsFrame

\* A job of joining or granting: it ends, and gives its claim back, or goes on with it.
LEMMA JoinEnds ==
  ASSUME BaseInv, ClaimsKnow, NEW o \in Running, o.op = "join", o.alive, JobsMove(o, {}),
         Len(bot'.channels) <= 1, ~bot'.joining, bot'.joining \in BOOLEAN, bot'.granting = bot.granting
  PROVE  ClaimsKnow'
  <1>1. Single("join") /\ Single("grant") /\ bot.granting = (Held("grant") # {})
    BY ClaimsAre
  <1>2. Held("join")' = {} /\ Single("join")'
    BY <1>1, HeldEnds
  <1>3. Leaves("grant")
    BY <1>1, HeldSpared
  <1> QED
    BY <1>1, <1>2, <1>3, ClaimsNext DEF Leaves

LEMMA JoinGoesOn ==
  ASSUME BaseInv, ClaimsKnow, NEW o \in Running, NEW n, o.op = "join", o.alive, n.op = "join", n.alive,
         JobsMove(o, {n}), bot' = bot
  PROVE  ClaimsKnow'
  <1>1. /\ Single("join") /\ Single("grant") /\ bot.granting = (Held("grant") # {})
        /\ bot.joining = (Held("join") # {}) /\ Len(bot.channels) <= 1 /\ (Held("join") # {} => ~Tracked)
    BY ClaimsAre
  <1>2. Held("join")' # {} /\ Single("join")' /\ Held("join") # {}
    BY <1>1, HeldBecomes DEF Held
  <1>3. Leaves("grant")
    BY <1>1, HeldSpared
  <1> QED
    BY <1>1, <1>2, <1>3, ClaimsNext DEF Leaves, Tracked

LEMMA GrantEnds ==
  ASSUME BaseInv, ClaimsKnow, NEW o \in Running, o.op = "grant", o.alive, JobsMove(o, {}),
         bot' \in BotType, Len(bot'.channels) = Len(bot.channels), ~bot'.granting, bot'.joining = bot.joining
  PROVE  ClaimsKnow'
  <1>1. /\ Single("join") /\ Single("grant") /\ bot.joining = (Held("join") # {})
        /\ Len(bot.channels) <= 1 /\ (Held("join") # {} => ~Tracked)
    BY ClaimsAre
  <1>2. Held("grant")' = {} /\ Single("grant")'
    BY <1>1, HeldEnds
  <1>3. Leaves("join")
    BY <1>1, HeldSpared
  <1>4. Tracked' => Tracked
    <2>1. PICK c \in Seq(BOOLEAN), d \in Seq(BOOLEAN) : c = bot.channels /\ d = bot'.channels
      BY ShapesTyped DEF BaseInv, Typed, BotType
    <2>2. c = <<>> => d = <<>>
      BY <2>1
    <2> QED
      BY <2>1, <2>2 DEF Tracked
  <1>5. bot'.granting = FALSE
    BY DEF BotType
  <1> QED
    BY <1>1, <1>2, <1>3, <1>4, <1>5, ClaimsNext DEF Leaves

LEMMA GivesClaims ==
  ASSUME BaseInv, ClaimsKnow, NEW o \in Running, Gives(o)
  PROVE  ClaimsKnow'
  <1>1. Typed /\ Len(bot.channels) <= 1
    BY ShapesTyped, ClaimsAre DEF BaseInv
  <1>2. CASE /\ o.op = "join" /\ o.alive /\ JobsMove(o, {})
             /\ BotIs(bot.live, bot.joined, bot.channels, FALSE, bot.granting)
    BY <1>1, <1>2, JoinEnds DEF BotIs
  <1>3. ASSUME NEW S, JobsMove(o, S), o.op \in Claimless \/ ~o.alive, bot' = bot,
               \A e \in S : e.op \in Claimless \/ ~e.alive
        PROVE  ClaimsKnow'
    <2>1. bot' \in BotType /\ Len(bot'.channels) <= Len(bot.channels)
      BY <1>1, <1>3 DEF Typed, BotType
    <2> QED
      BY <1>3, <2>1, ClaimsOfOthers
  <1>4. ASSUME NEW pc, o.op \in Claimless PROVE \A e \in {Moved(o, pc)} : e.op \in Claimless
    BY <1>4 DEF Moved
  <1>5. CASE o.op = "online" /\ o.alive /\ bot' = bot /\ JobsMove(o, {Moved(o, "join")})
    BY <1>3, <1>4, <1>5 DEF Claimless
  <1>6. CASE o.op = "banish" /\ o.alive /\ bot' = bot /\ JobsMove(o, {Moved(o, "filter")})
    BY <1>3, <1>4, <1>6 DEF Claimless
  <1>7. CASE (o.op = "offline" \/ ~o.alive) /\ bot' = bot /\ JobsMove(o, {})
    BY <1>3, <1>7 DEF Claimless
  <1> QED
    BY <1>2, <1>5, <1>6, <1>7 DEF Gives

LEMMA RowClaims ==
  ASSUME BaseInv, ClaimsKnow, NEW o \in Running, RowStep(o)
  PROVE  ClaimsKnow'
  <1>1. Typed /\ bot \in BotType /\ Len(bot.channels) \in Nat
    BY ShapesTyped DEF BaseInv, Typed, BotType
  <1>2. ASSUME NEW n, JobsMove(o, {n}), n.op = o.op, n.alive = o.alive, bot' = bot, IsJob(o), o.pc \in {"read", "write"}
        PROVE  ClaimsKnow'
    <2>1. CASE o.op = "join" /\ o.alive
      BY <1>2, <2>1, JoinGoesOn
    <2>2. CASE ~(o.op = "join" /\ o.alive)
      <3>1. o.op \in Claimless \/ ~o.alive
        BY <1>2, <2>2 DEF IsJob, Steps, Claimless
      <3>2. \A e \in {n} : e.op \in Claimless \/ ~e.alive
        BY <1>2, <3>1
      <3> QED
        BY <1>1, <1>2, <3>1, <3>2, ClaimsOfOthers
    <2> QED
      BY <2>1, <2>2
  <1>3. CASE ReadRow(o)
    BY <1>2, <1>3, ReadRowEffect DEF OnlyJob, Seen
  <1>4. CASE WriteRow(o)
    <2>1. /\ UNCHANGED bot /\ IsJob(o) /\ o.pc = "write"
          /\ \/ o.alive /\ \E pc : JobsMove(o, {Moved(o, pc)})
             \/ (o.op = "offline" \/ ~o.alive) /\ JobsMove(o, {})
      BY <1>4, WriteRowEffect
    <2>2. CASE \E pc : JobsMove(o, {Moved(o, pc)})
      BY <1>2, <2>1, <2>2 DEF Moved
    <2>3. CASE (o.op = "offline" \/ ~o.alive) /\ JobsMove(o, {})
      BY <1>1, <2>1, <2>3, ClaimsOfOthers DEF Claimless
    <2> QED
      BY <2>1, <2>2, <2>3
  <1>5. CASE WriteRefused(o)
    BY <1>5, WriteRefusedEffect, GivesClaims
  <1>6. CASE CallFails(o)
    BY <1>6, CallFailsEffect, GivesClaims
  <1> QED
    BY <1>3, <1>4, <1>5, <1>6 DEF RowStep

LEMMA MemberClaims ==
  ASSUME BaseInv, ClaimsKnow, NEW o \in Running, MemberStep(o)
  PROVE  ClaimsKnow'
  <1>1. /\ Typed /\ bot \in BotType /\ bot.channels \in Seq(BOOLEAN) /\ Len(bot.channels) \in Nat
        /\ Single("join") /\ (Held("join") # {} => ~Tracked)
    BY ShapesTyped, ClaimsAre DEF BaseInv, Typed, BotType
  <1>2. CASE JoinLooksUp(o)
    BY <1>2, JoinLooksUpEffect, JoinGoesOn
  <1>3. CASE ProfileFails(o)
    BY <1>3, ProfileFailsEffect, GivesClaims
  <1>4. CASE JoinAppends(o)
    <2>1. /\ o.op = "join" /\ o.alive /\ JobsMove(o, {})
          /\ BotIs(bot.live, bot.joined, Append(bot.channels, FALSE), FALSE, bot.granting)
      BY <1>4, JoinAppendsEffect
    <2>2. bot.channels = <<>>
      BY <1>1, <2>1 DEF Held, Tracked
    <2>3. Len(bot'.channels) <= 1
      BY <2>1, <2>2 DEF BotIs
    <2> QED
      BY <2>1, <2>3, JoinEnds DEF BotIs
  <1>5. CASE BanishUnsubscribes(o)
    <2>1. /\ o.op = "banish" /\ BotIs(FALSE, bot.joined, bot.channels, bot.joining, bot.granting)
          /\ JobsMove(o, {Moved(o, "read")})
      BY <1>5, BanishUnsubscribesEffect
    <2>2. \A e \in {Moved(o, "read")} : e.op \in Claimless
      BY <2>1 DEF Moved, Claimless
    <2> QED
      BY <1>1, <2>1, <2>2, ClaimsOfOthers DEF BotIs, Claimless
  <1>6. CASE BanishFilters(o)
    <2>1. /\ o.op = "banish" /\ BotIs(bot.live, bot.joined, <<>>, bot.joining, bot.granting)
          /\ JobsMove(o, {})
      BY <1>6, BanishFiltersEffect
    <2>2. Len(bot'.channels) <= Len(bot.channels)
      BY <1>1, <2>1 DEF BotIs
    <2> QED
      BY <2>1, <2>2, ClaimsOfOthers DEF BotIs, Claimless
  <1> QED
    BY <1>2, <1>3, <1>4, <1>5, <1>6 DEF MemberStep

LEMMA ClaimsStep ==
  ASSUME BaseInv, ClaimsKnow, [Next]_vars
  PROVE  BaseInv' /\ ClaimsKnow'
  <1>1. /\ Typed /\ bot \in BotType /\ bot.channels \in Seq(BOOLEAN) /\ Len(bot.channels) \in Nat
        /\ Single("join") /\ Single("grant") /\ Len(bot.channels) <= 1
        /\ bot.joining = (Held("join") # {}) /\ bot.granting = (Held("grant") # {})
        /\ (Held("join") # {} => ~Tracked)
    BY ShapesTyped, ClaimsAre DEF BaseInv, Typed, BotType
  <1>2. ASSUME NEW e, JobsAdd({e}), e.op \in Claimless, bot' \in BotType, bot'.channels = bot.channels,
               bot'.joining = bot.joining, bot'.granting = bot.granting
        PROVE  ClaimsKnow'
    <2>1. Len(bot'.channels) <= Len(bot.channels)
      BY <1>1, <1>2
    <2>2. \E q : q.op \in Claimless /\ JobsAdd({q})
      BY <1>2
    <2> QED
      BY <1>2, <2>1, <2>2, ClaimsOfOthers
  <1>3. \A op, pc : Go(op, pc).op = op /\ Go(op, pc).alive
    BY DEF Go
  <1>4. CASE StreamTurns
    BY <1>1, <1>4, StreamTurnsEffect, ClaimsOfOthers
  <1>5. CASE Mod
    BY <1>1, <1>5, ModEffect, ClaimsOfOthers
  <1>6. ASSUME NEW e \in twitch.sent, GoLive(e) PROVE BaseInv' /\ ClaimsKnow'
    <2>1. BaseInv' /\ bot' = bot /\ JobsAdd({Go("online", "start")})
      BY <1>6, GoLiveEffect
    <2>2. PICK q : q.op \in Claimless /\ JobsAdd({q})
      BY <1>3, <2>1 DEF Claimless
    <2>3. bot' \in BotType /\ bot'.channels = bot.channels /\ bot'.joining = bot.joining /\ bot'.granting = bot.granting
      BY <1>1, <2>1
    <2>4. ClaimsKnow'
      BY <1>2, <2>2, <2>3
    <2> QED
      BY <2>1, <2>4
  <1>7. ASSUME NEW e \in twitch.sent, GoOffline(e) PROVE BaseInv' /\ ClaimsKnow'
    <2>1. /\ BaseInv' /\ JobsAdd({Go("offline", "read")}) /\ bot'.channels = bot.channels
          /\ bot'.joining = bot.joining /\ bot'.granting = bot.granting
      BY <1>7, GoOfflineEffect
    <2>2. PICK q : q.op \in Claimless /\ JobsAdd({q})
      BY <1>3, <2>1 DEF Claimless
    <2>3. bot' \in BotType
      BY <2>1 DEF BaseInv, Shapes, BotType
    <2> QED
      BY <1>2, <2>1, <2>2, <2>3
  <1>8. CASE JoinMe
    <2>1. /\ BaseInv' /\ JobsAdd({Go("join", "profile")}) /\ ~Tracked /\ ~bot.joining /\ bot'.joining
          /\ bot'.channels = bot.channels /\ bot'.granting = bot.granting
      BY <1>8, JoinMeEffect
    <2>2. bot' \in BotType
      BY <2>1, ShapesTyped DEF BaseInv, Typed, Shapes, BotType
    <2>3. PICK q : q = Go("join", "profile") /\ q.op = "join" /\ q.alive /\ JobsAdd({q})
      BY <1>3, <2>1
    <2>4. Held("join") = {}
      BY <1>1, <2>1
    <2>5. Held("join")' # {} /\ Single("join")'
      BY <2>3, <2>4, HeldTaken
    <2>6. Leaves("grant")
      BY <1>1, <2>3, HeldBeside
    <2>7. bot'.joining = TRUE
      BY <2>1, <2>2 DEF BotType
    <2> QED
      BY <1>1, <2>1, <2>5, <2>6, <2>7, ClaimsNext DEF Leaves, Tracked
  <1>9. CASE Banish
    <2>1. BaseInv' /\ bot' \in BotType
      BY <1>9, BanishEffect DEF BaseInv, Shapes, BotType
    <2> QED
      BY <1>2, <1>3, <1>9, <2>1, BanishEffect DEF Claimless
  <1>10. CASE SignIn
    BY <1>1, <1>10, SignInEffect, ClaimsOfOthers
  <1>11. CASE Restart
    <2>1. /\ BaseInv' /\ \A e \in Running' : AfterRestart(e)
          /\ BotIs(row.optIn /\ row.live, channel.permanent \/ (row.optIn /\ row.live),
                   IF row.optIn THEN <<FALSE>> ELSE <<>>, FALSE, FALSE)
      BY <1>11, RestartEffect
    <2>2. Held("join")' = {} /\ Held("grant")' = {}
      BY <2>1 DEF AfterRestart, Held
    <2>3. Single("join")' /\ Single("grant")'
      BY <2>2 DEF Single
    <2>4. Len(bot'.channels) <= 1 /\ bot'.joining = FALSE /\ bot'.granting = FALSE
      BY <2>1 DEF BotIs
    <2> QED
      BY <2>1, <2>2, <2>3, <2>4, ClaimsNext
  <1>12. CASE Roll
    <2>1. BaseInv' /\ bot' \in BotType
      BY <1>12, RollEffect DEF BaseInv, Shapes, BotType
    <2>2. PICK q : q.op = "persist" /\ JobsAdd({q})
      BY <1>12, RollEffect
    <2> QED
      BY <1>2, <1>12, <2>1, <2>2, RollEffect DEF Claimless
  <1>13. CASE Revocation
    <2>1. BaseInv' /\ bot' \in BotType /\ Len(bot'.channels) = Len(bot.channels)
      BY <1>1, <1>13, RevocationEffect, PrivsSet DEF BaseInv, Shapes, BotType
    <2> QED
      BY <1>1, <1>13, <2>1, RevocationEffect, ClaimsOfOthers
  <1>14. CASE GrantStarts
    <2>1. /\ BaseInv' /\ JobsAdd({Go("grant", "subscribe")}) /\ ~bot.granting /\ bot'.granting
          /\ bot'.channels = bot.channels /\ bot'.joining = bot.joining
      BY <1>14, GrantStartsEffect
    <2>2. bot' \in BotType
      BY <2>1 DEF BaseInv, Shapes, BotType
    <2>3. PICK q : q = Go("grant", "subscribe") /\ q.op = "grant" /\ q.alive /\ JobsAdd({q})
      BY <1>3, <2>1
    <2>4. Held("grant") = {}
      BY <1>1, <2>1
    <2>5. Held("grant")' # {} /\ Single("grant")'
      BY <2>3, <2>4, HeldTaken
    <2>6. Leaves("join")
      BY <1>1, <2>3, HeldBeside
    <2>7. bot'.granting = TRUE
      BY <2>1, <2>2 DEF BotType
    <2> QED
      BY <1>1, <2>1, <2>5, <2>6, <2>7, ClaimsNext DEF Leaves, Tracked
  <1>15. ASSUME NEW o \in Running, RowStep(o) PROVE BaseInv' /\ ClaimsKnow'
    BY <1>15, RowClaims, ReadRowEffect, WriteRowEffect, WriteRefusedEffect, CallFailsEffect DEF RowStep
  <1>16. ASSUME NEW o \in Running, GoLiveStep(o) PROVE BaseInv' /\ ClaimsKnow'
    <2>1. PICK S : JobsMove(o, S) /\ \A e \in S : e.op \in {"online", "load"}
      BY <1>16, OnlineStep
    <2>2. \A e \in S : e.op \in Claimless
      BY <2>1 DEF Claimless
    <2> QED
      BY <1>1, <1>16, <2>1, <2>2, OnlineStep, ClaimsOfOthers DEF Claimless
  <1>17. ASSUME NEW o \in Running, MemberStep(o) PROVE BaseInv' /\ ClaimsKnow'
    BY <1>17, MemberClaims, JoinLooksUpEffect, ProfileFailsEffect, JoinAppendsEffect,
       BanishUnsubscribesEffect, BanishFiltersEffect DEF MemberStep
  <1>18. ASSUME NEW o \in Running, Load(o) \/ DadStep(o) \/ BestEffortFails(o) PROVE BaseInv' /\ ClaimsKnow'
    <2>1. Load(o) \/ PersistRoll(o) \/ RehydrateReads(o) \/ RehydrateMerges(o) \/ BestEffortFails(o)
      BY <1>18 DEF DadStep
    <2>2. PICK S : JobsMove(o, S) /\ \A e \in S : e.op = "rehydrate"
      BY <2>1, SideStep
    <2>3. /\ BaseInv' /\ o.op \in Claimless /\ bot' \in BotType /\ bot'.channels = bot.channels
          /\ bot'.joining = bot.joining /\ bot'.granting = bot.granting
      BY <2>1, SideStep DEF BotSame, BotIs, Side, Claimless
    <2>4. \A e \in S : e.op \in Claimless
      BY <2>2 DEF Claimless
    <2> QED
      BY <1>1, <2>2, <2>3, <2>4, ClaimsOfOthers
  <1>19. ASSUME NEW o \in Running, PrivStep(o) PROVE BaseInv' /\ ClaimsKnow'
    <2>1. CASE GrantAsks(o)
      <3>1. BaseInv' /\ o.op = "grant" /\ o.alive
        BY <2>1, GrantAsksEffect
      <3>2. CASE bot' = bot /\ JobsMove(o, {Moved(o, "grant")})
        <4>0. PICK n : n = Moved(o, "grant") /\ n.op = "grant" /\ n.alive /\ JobsMove(o, {n})
          BY <3>1, <3>2 DEF Moved
        <4>1. Held("grant")' # {} /\ Single("grant")' /\ Held("grant") # {}
          BY <1>1, <3>1, <4>0, HeldBecomes DEF Held
        <4>2. \A e \in {Moved(o, "grant")} : e.op = "grant"
          BY <3>1 DEF Moved
        <4>3. Leaves("join")
          BY <1>1, <3>1, <3>2, <4>2, HeldSpared
        <4> QED
          BY <1>1, <3>1, <3>2, <4>1, <4>3, ClaimsNext DEF Leaves, Tracked
      <3>3. CASE /\ BotIs(bot.live, bot.joined, bot.channels, bot.joining, FALSE)
                 /\ JobsMove(o, {})
        BY <3>1, <3>3, GrantEnds DEF BotIs
      <3> QED
        BY <2>1, <3>2, <3>3, GrantAsksEffect
    <2>2. CASE GrantSets(o)
      BY <1>1, <2>2, GrantSetsEffect, GrantEnds, PrivsSet DEF BotIs
    <2>3. CASE HydrateSeeds(o)
      <3>1. /\ BaseInv' /\ o.op \in Claimless /\ JobsMove(o, {})
            /\ BotIs(bot.live, bot.joined, WithPrivs(TRUE), bot.joining, bot.granting)
        BY <2>3, HydrateSeedsEffect DEF Claimless
      <3>2. Len(WithPrivs(TRUE)) = Len(bot.channels)
        BY <1>1, PrivsSet
      <3>3. Len(bot'.channels) <= Len(bot.channels)
        <4>1. bot'.channels = WithPrivs(TRUE)
          BY <3>1 DEF BotIs
        <4>2. Len(bot'.channels) = Len(bot.channels)
          BY <3>2, <4>1, Zenon
        <4> QED
          BY <1>1, <4>2
      <3> QED
        BY <3>1, <3>3, ClaimsOfOthers DEF BotIs
    <2> QED
      BY <1>19, <2>1, <2>2, <2>3 DEF PrivStep
  <1>20. CASE UNCHANGED vars
    <2>1. BaseInv'
      BY <1>20 DEF vars, BaseInv, Shapes, JobsKnow, IsJob, Running, Ranges
    <2> QED
      BY <1>1, <1>20, <2>1, ClaimsOfOthers DEF vars
  <1> QED
    BY <1>4, <1>5, <1>6, <1>7, <1>8, <1>9, <1>10, <1>11, <1>12, <1>13, <1>14, <1>15, <1>16, <1>17,
       <1>18, <1>19, <1>20 DEF Next, JobStep

-----------------------------------------------------------------------------
(* The chat-read flag.                                                     *)

Calm == Without(With("grant", {"revocation", "banish"}) \cup With("hydrate", {"revocation", "banish"}))
Ready(o) == (o.op = "grant" /\ o.pc = "grant") \/ o.op = "hydrate"
PrivWork == {"grant", "hydrate", "banish"}
Flagged == Tracked /\ bot.channels[1]

LEMMA PrivsAre ==
  PrivsKnow <=> (Calm => /\ \A o \in Running : Ready(o) => Granted
                         /\ \A o, p \in Running : o.op \in {"grant", "hydrate"} /\ p.op = "banish" => ~p.alive
                         /\ Flagged => Granted \/ Held("banish") # {})
  BY DEF PrivsKnow, Calm, Ready, Flagged

LEMMA PrivsNext ==
  ASSUME Calm' => /\ \A o \in Running' : Ready(o) => Granted'
                  /\ \A o, p \in Running' : o.op \in {"grant", "hydrate"} /\ p.op = "banish" => ~p.alive
                  /\ Flagged' => Granted' \/ Held("banish")' # {}
  PROVE  PrivsKnow'
  BY DEF PrivsKnow, Calm, Ready, Flagged

LEMMA Upset ==
  ASSUME NEW pair \in hist'.mishaps,
         pair \in {{"grant", "revocation"}, {"grant", "banish"}, {"hydrate", "revocation"}, {"hydrate", "banish"}}
  PROVE  ~Calm'
  BY DEF Calm, Without, With

LEMMA CalmBefore ==
  ASSUME hist.mishaps \subseteq hist'.mishaps, Calm'
  PROVE  Calm
  BY DEF Calm, Without

\* What a kind of work begins beside is noted.
LEMMA NotedBeside ==
  ASSUME NEW kind, Noted(Beside(kind)), NEW o \in Running, {kind, o.op} \subseteq RowWork \/ {kind, o.op} \in Disturbs
  PROVE  {kind, o.op} \in hist'.mishaps
  BY DEF Noted, Beside

LEMMA PrivsOfSame ==
  ASSUME PrivsKnow, hist.mishaps \subseteq hist'.mishaps, Granted => Granted',
         Flagged' => Flagged,
         jobs' = jobs \/ \E e : e.op \notin PrivWork /\ JobsAdd({e})
  PROVE  PrivsKnow'
  <1> SUFFICES ASSUME Calm'
               PROVE  /\ \A o \in Running' : Ready(o) => Granted'
                      /\ \A o, p \in Running' : o.op \in {"grant", "hydrate"} /\ p.op = "banish" => ~p.alive
                      /\ Flagged' => Granted' \/ Held("banish")' # {}
    BY PrivsNext
  <1>1. /\ \A o \in Running : Ready(o) => Granted
        /\ \A o, p \in Running : o.op \in {"grant", "hydrate"} /\ p.op = "banish" => ~p.alive
        /\ Flagged => Granted \/ Held("banish") # {}
    BY PrivsAre, CalmBefore
  <1>2. Running \subseteq Running' /\ \A e \in Running' : e \in Running \/ e.op \notin PrivWork
    BY DEF JobsAdd, Running
  <1>3. Held("banish") \subseteq Held("banish")'
    BY <1>2 DEF Held
  <1> QED
    BY <1>1, <1>2, <1>3 DEF Ready, PrivWork

LEMMA PrivsOfMove ==
  ASSUME PrivsKnow, NEW o \in Running, NEW S, JobsMove(o, S),
         hist.mishaps \subseteq hist'.mishaps, Granted => Granted',
         \A e \in S : e.op \in PrivWork =>
           e.op = o.op /\ (e.alive => o.alive) /\ (Ready(e) => Ready(o) \/ Granted'),
         o.op = "banish" /\ o.alive => ~Tracked' \/ \E e \in S : e.op = "banish" /\ e.alive,
         Flagged' => Flagged \/ Ready(o)
  PROVE  PrivsKnow'
  <1> SUFFICES ASSUME Calm'
               PROVE  /\ \A e \in Running' : Ready(e) => Granted'
                      /\ \A e, p \in Running' : e.op \in {"grant", "hydrate"} /\ p.op = "banish" => ~p.alive
                      /\ Flagged' => Granted' \/ Held("banish")' # {}
    BY PrivsNext
  <1>1. /\ \A e \in Running : Ready(e) => Granted
        /\ \A e, p \in Running : e.op \in {"grant", "hydrate"} /\ p.op = "banish" => ~p.alive
        /\ Flagged => Granted \/ Held("banish") # {}
    BY PrivsAre, CalmBefore
  <1>2. /\ \A e \in Running' : e \in Running \/ e \in S
        /\ \A e \in Running : e = o \/ e \in Running'
        /\ S \subseteq Running'
    BY DEF JobsMove
  <1>3. \A e \in S : Ready(e) => Granted'
    BY <1>1 DEF Ready, PrivWork
  <1>4. \A e \in Running' : e.op \in PrivWork => \E q \in Running : q.op = e.op /\ (e.alive => q.alive)
    BY <1>2
  <1>5. ASSUME NEW e \in Running', NEW p \in Running', e.op \in {"grant", "hydrate"}, p.op = "banish"
        PROVE  ~p.alive
    <2>1. PICK q \in Running : q.op = e.op
      BY <1>4, <1>5 DEF PrivWork
    <2>2. PICK r \in Running : r.op = p.op /\ (p.alive => r.alive)
      BY <1>4, <1>5 DEF PrivWork
    <2> QED
      BY <1>1, <1>5, <2>1, <2>2
  <1>6. Flagged' => Granted' \/ Held("banish")' # {}
    <2>1. Held("banish") # {} => Held("banish")' # {} \/ ~Tracked'
      BY <1>2 DEF Held
    <2> QED
      BY <1>1, <2>1 DEF Flagged
  <1>7. \A e \in Running' : Ready(e) => Granted'
    BY <1>1, <1>2, <1>3
  <1> QED
    BY <1>5, <1>6, <1>7

LEMMA PrivsOfRow ==
  ASSUME BaseInv, PrivsKnow, NEW o \in Running, IsJob(o), NEW n, JobsMove(o, {n}) \/ JobsMove(o, {}),
         n.op = o.op, n.alive = o.alive, ~Ready(n), twitch' = twitch, bot'.channels = bot.channels,
         hist.mishaps \subseteq hist'.mishaps, o.op = "banish" /\ o.alive => JobsMove(o, {n})
  PROVE  PrivsKnow'
  <1>1. Granted = Granted' /\ (Flagged' => Flagged)
    BY DEF Granted, Flagged, Tracked
  <1>2. CASE JobsMove(o, {n})
    <2>1. /\ \A e \in {n} : e.op = o.op /\ (e.alive => o.alive) /\ (Ready(e) => Ready(o) \/ Granted')
          /\ o.op = "banish" /\ o.alive => \E e \in {n} : e.op = "banish" /\ e.alive
      OBVIOUS
    <2> QED
      BY <1>1, <1>2, <2>1, PrivsOfMove
  <1>3. CASE ~JobsMove(o, {n}) /\ JobsMove(o, {})
    BY <1>1, <1>3, PrivsOfMove
  <1> QED
    BY <1>2, <1>3

LEMMA RowOpIs ==
  ASSUME NEW o, IsJob(o), o.pc \in {"read", "write", "profile"}
  PROVE  o.op \in {"online", "offline", "join", "banish"}
  BY DEF IsJob, Steps

LEMMA GivesPrivs ==
  ASSUME BaseInv, PrivsKnow, NEW o \in Running, IsJob(o), o.pc \in {"read", "write", "profile"}, Gives(o),
         twitch' = twitch, Noted({})
  PROVE  PrivsKnow'
  <1>1. hist.mishaps \subseteq hist'.mishaps /\ bot'.channels = bot.channels
    BY DEF Noted, Gives, BotIs
  <1>2. \A pc : Moved(o, pc).op = o.op /\ Moved(o, pc).alive = o.alive /\ ~Ready(Moved(o, pc))
    BY RowOpIs DEF Moved, Ready
  <1>3. (\E pc : JobsMove(o, {Moved(o, pc)})) \/ (JobsMove(o, {}) /\ (o.op # "banish" \/ ~o.alive))
    BY DEF Gives
  <1> QED
    BY <1>1, <1>2, <1>3, PrivsOfRow

LEMMA RowPrivs ==
  ASSUME BaseInv, PrivsKnow, NEW o \in Running, RowStep(o)
  PROVE  PrivsKnow'
  <1>1. CASE ReadRow(o)
    <2>1. IsJob(o) /\ o.pc = "read" /\ OnlyJob /\ JobsMove(o, {Seen(o)})
      BY <1>1, ReadRowEffect
    <2>2. Seen(o).op = o.op /\ Seen(o).alive = o.alive /\ ~Ready(Seen(o))
      BY <2>1, RowOpIs DEF Seen, Ready
    <2> QED
      BY <2>1, <2>2, PrivsOfRow DEF OnlyJob
  <1>2. CASE WriteRow(o)
    <2>1. IsJob(o) /\ o.pc = "write" /\ UNCHANGED <<twitch, bot>> /\ hist.mishaps \subseteq hist'.mishaps
      BY <1>2, WriteRowEffect
    <2>2. (\E pc : JobsMove(o, {Moved(o, pc)})) \/ (JobsMove(o, {}) /\ (o.op # "banish" \/ ~o.alive))
      BY <1>2, WriteRowEffect
    <2>3. \A pc : Moved(o, pc).op = o.op /\ Moved(o, pc).alive = o.alive /\ ~Ready(Moved(o, pc))
      BY <2>1, RowOpIs DEF Moved, Ready
    <2> QED
      BY <2>1, <2>2, <2>3, PrivsOfRow
  <1>3. CASE WriteRefused(o)
    BY <1>3, WriteRefusedEffect, GivesPrivs
  <1>4. CASE CallFails(o)
    BY <1>4, CallFailsEffect, GivesPrivs DEF Noted
  <1> QED
    BY <1>1, <1>2, <1>3, <1>4 DEF RowStep

LEMMA MemberPrivs ==
  ASSUME BaseInv, ClaimsKnow, PrivsKnow, NEW o \in Running, MemberStep(o)
  PROVE  PrivsKnow'
  <1>1. /\ Typed /\ bot.channels \in Seq(BOOLEAN) /\ (Held("join") # {} => ~Tracked)
    BY ShapesTyped, ClaimsAre DEF BaseInv, Typed, BotType
  <1>2. CASE JoinLooksUp(o)
    <2>1. PICK q : q.op = "join" /\ q.alive /\ JobsMove(o, {q})
      BY <1>2, JoinLooksUpEffect
    <2>2. IsJob(o) /\ o.op = "join" /\ o.alive /\ UNCHANGED <<twitch, bot>> /\ hist.mishaps \subseteq hist'.mishaps
      BY <1>2, JoinLooksUpEffect DEF Noted
    <2>3. ~Ready(q)
      BY <2>1 DEF Ready
    <2> QED
      BY <2>1, <2>2, <2>3, PrivsOfRow
  <1>3. CASE ProfileFails(o)
    BY <1>3, ProfileFailsEffect, GivesPrivs DEF Noted
  <1>4. CASE JoinAppends(o)
    <2>1. /\ o.op = "join" /\ o.alive /\ JobsMove(o, {}) /\ hist.mishaps \subseteq hist'.mishaps
          /\ twitch'.chatSub = twitch.chatSub /\ twitch'.revoked = twitch.revoked
          /\ bot'.channels = Append(bot.channels, FALSE)
      BY <1>4, JoinAppendsEffect DEF BotIs, Noted
    <2>2. bot.channels = <<>>
      BY <1>1, <2>1 DEF Held, Tracked
    <2>3. ~Flagged' /\ Granted = Granted'
      BY <2>1, <2>2 DEF Flagged, Granted
    <2> QED
      BY <2>1, <2>3, PrivsOfMove
  <1>5. CASE BanishUnsubscribes(o)
    <2>1. /\ o.op = "banish" /\ o.alive /\ bot'.channels = bot.channels /\ JobsMove(o, {Moved(o, "read")})
          /\ hist.mishaps \subseteq hist'.mishaps
      BY <1>5, BanishUnsubscribesEffect DEF BotIs, Noted
    <2>a. PICK n : n = Moved(o, "read")
      OBVIOUS
    <2>b. n.op = o.op /\ n.alive = o.alive
      BY <2>a DEF Moved
    <2>2. n = Moved(o, "read") /\ n.op = "banish" /\ n.alive
      BY <2>1, <2>a, <2>b
    <2>3. n \in Running' /\ \A e \in Running' : e \in Running \/ e = n
      BY <2>1, <2>2 DEF JobsMove
    <2>4. Held("banish")' # {}
      BY <2>2, <2>3 DEF Held
    <2>5. Calm' => \A e \in Running : e.op \notin {"grant", "hydrate"}
      BY <2>1, PrivsAre, CalmBefore
    <2>6. Calm' => \A e \in Running' : e.op \notin {"grant", "hydrate"}
      BY <2>2, <2>3, <2>5
    <2> QED
      BY <2>4, <2>6, PrivsNext DEF Ready
  <1>6. CASE BanishFilters(o)
    <2>1. /\ JobsMove(o, {}) /\ twitch' = twitch /\ bot'.channels = <<>> /\ hist.mishaps \subseteq hist'.mishaps
      BY <1>6, BanishFiltersEffect DEF BotIs, Noted
    <2>2. ~Tracked' /\ ~Flagged' /\ Granted = Granted'
      BY <2>1 DEF Tracked, Flagged, Granted
    <2> QED
      BY <2>1, <2>2, PrivsOfMove
  <1> QED
    BY <1>2, <1>3, <1>4, <1>5, <1>6 DEF MemberStep

LEMMA PrivPrivs ==
  ASSUME BaseInv, PrivsKnow, NEW o \in Running, PrivStep(o)
  PROVE  PrivsKnow'
  <1>1. CASE GrantAsks(o)
    <2>1. /\ o.op = "grant" /\ (Granted => Granted') /\ hist.mishaps \subseteq hist'.mishaps
          /\ bot'.channels = bot.channels
      BY <1>1, GrantAsksEffect DEF Noted, BotIs
    <2>2. Flagged' => Flagged
      BY <2>1 DEF Flagged, Tracked
    <2>3. CASE Granted' /\ JobsMove(o, {Moved(o, "grant")})
      <3>1. \A e \in {Moved(o, "grant")} : e.op = o.op /\ e.alive = o.alive
        BY DEF Moved
      <3> QED
        BY <2>1, <2>2, <2>3, <3>1, PrivsOfMove
    <2>4. CASE JobsMove(o, {})
      BY <2>1, <2>2, <2>4, PrivsOfMove
    <2> QED
      BY <1>1, <2>3, <2>4, GrantAsksEffect
  <1>2. ASSUME twitch' = twitch, Noted({}), JobsMove(o, {}), o.op # "banish", Ready(o)
        PROVE  PrivsKnow'
    <2>1. hist.mishaps \subseteq hist'.mishaps /\ Granted = Granted'
      BY <1>2 DEF Noted, Granted
    <2> QED
      BY <1>2, <2>1, PrivsOfMove
  <1>3. CASE GrantSets(o)
    BY <1>2, <1>3, GrantSetsEffect DEF Ready
  <1>4. CASE HydrateSeeds(o)
    BY <1>2, <1>4, HydrateSeedsEffect DEF Ready
  <1> QED
    BY <1>1, <1>3, <1>4 DEF PrivStep

\* Work of other kinds.
LEMMA OtherPrivs ==
  ASSUME BaseInv, PrivsKnow, NEW o \in Running, GoLiveStep(o) \/ Load(o) \/ DadStep(o) \/ BestEffortFails(o)
  PROVE  PrivsKnow'
  <1>1. ASSUME NEW S, JobsMove(o, S), \A e \in S : e.op \notin PrivWork, o.op # "banish", twitch' = twitch,
               bot'.channels = bot.channels, Noted({})
        PROVE  PrivsKnow'
    <2>1. hist.mishaps \subseteq hist'.mishaps /\ Granted = Granted' /\ (Flagged' => Flagged)
      BY <1>1 DEF Noted, Granted, Flagged, Tracked
    <2> QED
      BY <1>1, <2>1, PrivsOfMove
  <1>2. CASE GoLiveStep(o)
    <2>1. PICK S : JobsMove(o, S) /\ \A e \in S : e.op \in {"online", "load"}
      BY <1>2, OnlineStep
    <2>2. \A e \in S : e.op \notin PrivWork
      BY <2>1 DEF PrivWork
    <2> QED
      BY <1>1, <1>2, <2>1, <2>2, OnlineStep
  <1>3. CASE Load(o) \/ DadStep(o) \/ BestEffortFails(o)
    <2>1. Load(o) \/ PersistRoll(o) \/ RehydrateReads(o) \/ RehydrateMerges(o) \/ BestEffortFails(o)
      BY <1>3 DEF DadStep
    <2>2. PICK S : JobsMove(o, S) /\ \A e \in S : e.op = "rehydrate"
      BY <2>1, SideStep
    <2>3. o.op # "banish" /\ twitch' = twitch /\ bot'.channels = bot.channels /\ Noted({})
      BY <2>1, SideStep DEF BotSame, BotIs, Side
    <2>4. \A e \in S : e.op \notin PrivWork
      BY <2>2 DEF PrivWork
    <2> QED
      BY <1>1, <2>2, <2>3, <2>4
  <1> QED
    BY <1>2, <1>3

LEMMA PrivsStep ==
  ASSUME BaseInv, ClaimsKnow, PrivsKnow, [Next]_vars
  PROVE  PrivsKnow'
  <1>1. \A op, pc : Go(op, pc).op = op /\ Go(op, pc).alive /\ Go(op, pc).pc = pc
    BY DEF Go
  <1>2. ASSUME hist.mishaps \subseteq hist'.mishaps, Granted => Granted', bot'.channels = bot.channels,
               jobs' = jobs \/ \E e : e.op \notin PrivWork /\ JobsAdd({e})
        PROVE  PrivsKnow'
    <2>1. Flagged' => Flagged
      BY <1>2 DEF Flagged, Tracked
    <2> QED
      BY <1>2, <2>1, PrivsOfSame
  <1>3. twitch' = twitch => (Granted => Granted')
    BY DEF Granted
  <1>4. CASE StreamTurns
    BY <1>2, <1>4, StreamTurnsEffect DEF Noted, Granted
  <1>5. CASE Mod
    BY <1>2, <1>5, ModEffect
  <1>6. ASSUME NEW e \in twitch.sent, GoLive(e) PROVE PrivsKnow'
    <2>1. /\ JobsAdd({Go("online", "start")}) /\ twitch' = twitch /\ bot' = bot
          /\ hist.mishaps \subseteq hist'.mishaps
      BY <1>6, GoLiveEffect DEF Noted
    <2>2. Go("online", "start").op \notin PrivWork
      BY <1>1 DEF PrivWork
    <2> QED
      BY <1>2, <1>3, <2>1, <2>2
  <1>7. ASSUME NEW e \in twitch.sent, GoOffline(e) PROVE PrivsKnow'
    <2>1. /\ JobsAdd({Go("offline", "read")}) /\ twitch' = twitch /\ bot'.channels = bot.channels
          /\ hist.mishaps \subseteq hist'.mishaps
      BY <1>7, GoOfflineEffect DEF Noted
    <2>2. Go("offline", "read").op \notin PrivWork
      BY <1>1 DEF PrivWork
    <2> QED
      BY <1>2, <1>3, <2>1, <2>2
  <1>8. CASE JoinMe
    <2>1. /\ JobsAdd({Go("join", "profile")}) /\ twitch' = twitch /\ bot'.channels = bot.channels
          /\ hist.mishaps \subseteq hist'.mishaps
      BY <1>8, JoinMeEffect DEF Noted
    <2>2. Go("join", "profile").op \notin PrivWork
      BY <1>1 DEF PrivWork
    <2> QED
      BY <1>2, <1>3, <2>1, <2>2
  <1>9. CASE Banish
    <2>1. /\ JobsAdd({Go("banish", "unsubscribe")}) /\ twitch' = twitch /\ bot'.channels = bot.channels
          /\ hist.mishaps \subseteq hist'.mishaps /\ Noted(Beside("banish"))
      BY <1>9, BanishEffect DEF Noted
    <2>2. ASSUME NEW o \in Running, o.op \in {"grant", "hydrate"} PROVE ~Calm'
      <3>1. {"banish", o.op} \in Disturbs
        BY <2>2 DEF Disturbs
      <3>2. {"banish", o.op} \in hist'.mishaps
        BY <2>1, <3>1, NotedBeside
      <3> QED
        BY <2>2, <3>2, Upset
    <2>3. \A e \in Running' : e \in Running \/ e = Go("banish", "unsubscribe")
      BY <2>1 DEF JobsAdd
    <2>4. Calm' => \A e \in Running' : e.op \notin {"grant", "hydrate"}
      BY <1>1, <2>2, <2>3
    <2>5. Calm' /\ Flagged' => Granted' \/ Held("banish")' # {}
      <3>1. Calm' /\ Flagged' => Granted \/ Held("banish") # {}
        BY <2>1, PrivsAre, CalmBefore DEF Flagged, Tracked
      <3>2. Held("banish") \subseteq Held("banish")'
        BY <2>1 DEF JobsAdd, Held
      <3> QED
        BY <1>3, <2>1, <3>1, <3>2
    <2> QED
      BY <2>4, <2>5, PrivsNext DEF Ready
  <1>10. CASE SignIn
    BY <1>2, <1>10, SignInEffect DEF Granted
  <1>11. CASE Restart
    <2>1. /\ \A e \in Running' : AfterRestart(e)
          /\ twitch' = twitch /\ bot'.channels = IF row.optIn THEN <<FALSE>> ELSE <<>>
      BY <1>11, RestartEffect DEF BotIs
    <2>2. ~Flagged'
      BY <2>1 DEF Flagged, Tracked
    <2>3. \A e \in Running' : Ready(e) => Granted'
      <3>1. twitch.chatSub => Granted'
        BY <2>1 DEF Granted
      <3>2. ASSUME NEW o, IsJob(o), o.pc = "write" PROVE ~Ready(o) /\ o.op # "hydrate"
        BY <3>2, RowOpIs DEF Ready
      <3>3. \A o \in Running : IsJob(o)
        BY DEF BaseInv, JobsKnow
      <3> QED
        BY <2>1, <3>1, <3>2, <3>3 DEF AfterRestart, Ready
    <2>4. \A p \in Running' : p.op = "banish" => ~p.alive
      BY <2>1 DEF AfterRestart
    <2> QED
      BY <2>2, <2>3, <2>4, PrivsNext
  <1>12. CASE Roll
    <2>1. PICK q : q.op = "persist" /\ JobsAdd({q})
      BY <1>12, RollEffect
    <2>2. q.op \notin PrivWork
      BY <2>1 DEF PrivWork
    <2>3. twitch' = twitch /\ bot'.channels = bot.channels /\ hist.mishaps \subseteq hist'.mishaps
      BY <1>12, RollEffect DEF Noted
    <2> QED
      BY <1>2, <1>3, <2>1, <2>2, <2>3
  <1>13. CASE Revocation
    <2>1. /\ Noted(Beside("revocation")) /\ hist.mishaps \subseteq hist'.mishaps /\ jobs' = jobs
          /\ bot'.channels = WithPrivs(FALSE)
      BY <1>13, RevocationEffect DEF Noted
    <2>2. ASSUME NEW o \in Running, o.op \in {"grant", "hydrate"} PROVE ~Calm'
      <3>1. {"revocation", o.op} \in Disturbs
        BY <2>2 DEF Disturbs
      <3>2. {"revocation", o.op} \in hist'.mishaps
        BY <2>1, <3>1, NotedBeside
      <3> QED
        BY <2>2, <3>2, Upset
    <2>3. Running' = Running
      BY <2>1 DEF Running
    <2>4. ~Flagged'
      <3>1. PICK c \in Seq(BOOLEAN) : c = WithPrivs(FALSE) /\ \A i \in DOMAIN c : c[i] = FALSE
        BY PrivsSet, ShapesTyped DEF BaseInv
      <3>2. c # <<>> => 1 \in DOMAIN c
        OBVIOUS
      <3> QED
        BY <2>1, <3>1, <3>2 DEF Flagged, Tracked
    <2> QED
      BY <2>2, <2>3, <2>4, PrivsNext DEF Ready
  <1>14. CASE GrantStarts
    <2>1. /\ JobsAdd({Go("grant", "subscribe")}) /\ twitch' = twitch /\ bot'.channels = bot.channels
          /\ hist.mishaps \subseteq hist'.mishaps /\ Noted(Beside("grant"))
      BY <1>14, GrantStartsEffect DEF Noted
    <2>2. ASSUME NEW o \in Running, o.op = "banish" PROVE ~Calm'
      <3>1. {"grant", o.op} \in Disturbs
        BY <2>2 DEF Disturbs
      <3>2. {"grant", o.op} \in hist'.mishaps
        BY <2>1, <3>1, NotedBeside
      <3> QED
        BY <2>2, <3>2, Upset
    <2>3. \A e \in Running' : e \in Running \/ e = Go("grant", "subscribe")
      BY <2>1 DEF JobsAdd
    <2>4. Calm' => \A e \in Running' : e.op # "banish"
      BY <1>1, <2>2, <2>3
    <2>5. /\ Calm' => \A o \in Running : Ready(o) => Granted
          /\ Calm' /\ Flagged' => Granted \/ Held("banish") # {}
      BY <2>1, PrivsAre, CalmBefore DEF Flagged, Tracked
    <2>6. Held("banish") \subseteq Held("banish")'
      BY <2>1 DEF JobsAdd, Held
    <2>7. ~Ready(Go("grant", "subscribe"))
      BY <1>1 DEF Ready
    <2> QED
      BY <1>3, <2>1, <2>3, <2>4, <2>5, <2>6, <2>7, PrivsNext
  <1>15. CASE UNCHANGED vars
    BY <1>2, <1>15 DEF vars, Granted
  <1>16. ASSUME NEW o \in Running, JobStep(o) PROVE PrivsKnow'
    BY <1>16, RowPrivs, MemberPrivs, PrivPrivs, OtherPrivs DEF JobStep
  <1> QED
    BY <1>4, <1>5, <1>6, <1>7, <1>8, <1>9, <1>10, <1>11, <1>12, <1>13, <1>14, <1>15, <1>16 DEF Next

-----------------------------------------------------------------------------
(* What a job has read of the row.                                         *)

LEMMA RowStaysNext ==
  ASSUME RowStays, row'.exists \/ /\ row' = row
                                  /\ \A e \in Running' : e.row \in {NoRow, row} \/ \E p \in Running : e.row = p.row
  PROVE  RowStays'
  <1>1. NoRow.exists = FALSE
    BY DEF NoRow
  <1> QED
    BY <1>1 DEF RowStays

LEMMA RowStaysMove ==
  ASSUME RowStays, row' = row, NEW o \in Running, NEW S, JobsMove(o, S), \A e \in S : e.row \in {o.row, NoRow}
  PROVE  RowStays'
  <1>1. \A e \in Running' : e \in Running \/ e.row \in {o.row, NoRow}
    BY DEF JobsMove
  <1> QED
    BY <1>1, RowStaysNext

LEMMA RowStaysAdd ==
  ASSUME RowStays, row' = row, NEW e, JobsAdd({e}), e.row = NoRow
  PROVE  RowStays'
  <1>1. \A q \in Running' : q \in Running \/ q.row = NoRow
    BY DEF JobsAdd
  <1> QED
    BY <1>1, RowStaysNext

LEMMA RowStaysMoved ==
  ASSUME RowStays, row' = row, NEW o \in Running, NEW pc, JobsMove(o, {Moved(o, pc)})
  PROVE  RowStays'
  <1>1. \A e \in {Moved(o, pc)} : e.row \in {o.row, NoRow}
    BY DEF Moved
  <1> QED
    BY <1>1, RowStaysMove

LEMMA RowStaysGives ==
  ASSUME RowStays, row' = row, NEW o \in Running, Gives(o)
  PROVE  RowStays'
  <1>1. JobsMove(o, {}) \/ \E pc : JobsMove(o, {Moved(o, pc)})
    BY DEF Gives
  <1>2. CASE JobsMove(o, {})
    BY <1>2, RowStaysMove
  <1>3. CASE \E pc : JobsMove(o, {Moved(o, pc)})
    BY <1>3, RowStaysMoved
  <1> QED
    BY <1>1, <1>2, <1>3

LEMMA RowStaysJob ==
  ASSUME BaseInv, RowStays, NEW o \in Running, JobStep(o)
  PROVE  RowStays'
  <1>2. CASE ReadRow(o)
    <2>1. JobsMove(o, {Seen(o)}) /\ row' = row /\ Seen(o).row = row
      BY <1>2, ReadRowEffect DEF OnlyJob, Seen
    <2>2. \A e \in Running' : e \in Running \/ e.row = row
      BY <2>1 DEF JobsMove
    <2> QED
      BY <2>1, <2>2, RowStaysNext
  <1>3. CASE WriteRow(o)
    BY <1>3, WriteRowEffect, RowStaysNext
  <1>4. CASE WriteRefused(o) \/ CallFails(o) \/ ProfileFails(o)
    BY <1>4, WriteRefusedEffect, CallFailsEffect, ProfileFailsEffect, RowStaysGives
  <1>5. CASE GoLiveStep(o)
    BY <1>5, OnlineStep, RowStaysMove
  <1>6. CASE Load(o) \/ DadStep(o) \/ BestEffortFails(o)
    <2>1. Load(o) \/ PersistRoll(o) \/ RehydrateReads(o) \/ RehydrateMerges(o) \/ BestEffortFails(o)
      BY <1>6 DEF DadStep
    <2>2. row' = row /\ \E S : JobsMove(o, S) /\ \A e \in S : e.row = o.row
      BY <2>1, SideStep
    <2> QED
      BY <2>2, RowStaysMove
  <1>7. CASE JoinLooksUp(o)
    <2>1. row' = row /\ \E q : q.row = o.row /\ JobsMove(o, {q})
      BY <1>7, JoinLooksUpEffect
    <2> QED
      BY <2>1, RowStaysMove
  <1>8. CASE JoinAppends(o) \/ BanishFilters(o) \/ GrantSets(o) \/ HydrateSeeds(o)
    <2>1. row' = row /\ JobsMove(o, {})
      BY <1>8, JoinAppendsEffect, BanishFiltersEffect, GrantSetsEffect, HydrateSeedsEffect
    <2> QED
      BY <2>1, RowStaysMove
  <1>9. CASE BanishUnsubscribes(o)
    BY <1>9, BanishUnsubscribesEffect, RowStaysMoved
  <1>10. CASE GrantAsks(o)
    <2>1. row' = row /\ (JobsMove(o, {Moved(o, "grant")}) \/ JobsMove(o, {}))
      BY <1>10, GrantAsksEffect
    <2> QED
      BY <2>1, RowStaysMove, RowStaysMoved
  <1> QED
    BY <1>2, <1>3, <1>4, <1>5, <1>6, <1>7, <1>8, <1>9, <1>10 DEF JobStep, RowStep, MemberStep, PrivStep

LEMMA RowStaysStep ==
  ASSUME BaseInv, RowStays, [Next]_vars
  PROVE  RowStays'
  <1>1. \A op, pc : Go(op, pc).row = NoRow
    BY DEF Go
  <1>2. ASSUME jobs' = jobs, row' = row PROVE RowStays'
    BY <1>2 DEF RowStays, Running
  <1>3. CASE StreamTurns \/ Mod \/ Revocation \/ UNCHANGED vars
    BY <1>2, <1>3, StreamTurnsEffect, ModEffect, RevocationEffect DEF vars
  <1>4. ASSUME NEW e \in twitch.sent, GoLive(e) PROVE RowStays'
    BY <1>1, <1>4, GoLiveEffect, RowStaysAdd
  <1>5. ASSUME NEW e \in twitch.sent, GoOffline(e) PROVE RowStays'
    BY <1>1, <1>5, GoOfflineEffect, RowStaysAdd
  <1>6. CASE JoinMe
    BY <1>1, <1>6, JoinMeEffect, RowStaysAdd
  <1>7. CASE Banish
    BY <1>1, <1>7, BanishEffect, RowStaysAdd
  <1>8. CASE SignIn
    <2>1. row'.exists
      BY <1>8 DEF SignIn, NoRow
    <2> QED
      BY <2>1, RowStaysNext
  <1>9. CASE Restart
    <2>1. row' = row /\ \A e \in Running' : AfterRestart(e)
      BY <1>9, RestartEffect
    <2>2. \A e \in Running' : e.row = NoRow \/ \E p \in Running : e.row = p.row
      BY <2>1 DEF AfterRestart
    <2> QED
      BY <2>1, <2>2, RowStaysNext
  <1>10. CASE Roll
    BY <1>10, RollEffect, RowStaysAdd
  <1>11. CASE GrantStarts
    BY <1>1, <1>11, GrantStartsEffect, RowStaysAdd
  <1>12. ASSUME NEW o \in Running, JobStep(o) PROVE RowStays'
    BY <1>12, RowStaysJob
  <1> QED
    BY <1>3, <1>4, <1>5, <1>6, <1>7, <1>8, <1>9, <1>10, <1>11, <1>12 DEF Next

-----------------------------------------------------------------------------
(* A !banish that nothing disturbed.                                       *)

Open == ~channel.permanent /\ Undisturbed
Out == ~hist.member /\ row.exists
Alone(o) == /\ o.alive /\ jobs[o] = 1 /\ ~bot.joined
            /\ \A p \in Running : p.op \in RowWork => p = o
            /\ o.pc # "unsubscribe" => ~bot.live
Banishing == \A o \in Running : o.op = "banish" => Alone(o)
OutJob(o) == /\ o.op = "online" => o.pc \in {"start", "ask"}
             /\ o.op = "offline" /\ o.pc = "write" => ~o.row.optIn
             /\ o.op = "join" => o.pc # "append" /\ (o.pc = "write" => o.row.exists)
StaysOut == /\ ~row.optIn /\ ~bot.live
            /\ bot.joined => Held("join") # {}
            /\ Tracked => \E o \in Running : o.op = "banish" /\ o.pc = "filter"
            /\ \A o \in Running : OutJob(o)

LEMMA BanishAre == BanishKnow <=> (Open => Banishing /\ (Out => StaysOut))
  BY DEF BanishKnow, Open, Out, Banishing, Alone, StaysOut, OutJob

LEMMA BanishNext ==
  ASSUME Open' => Banishing' /\ (Out' => StaysOut')
  PROVE  BanishKnow'
  BY DEF BanishKnow, Open, Out, Banishing, Alone, StaysOut, OutJob

LEMMA OpenBefore ==
  ASSUME hist.mishaps \subseteq hist'.mishaps, channel' = channel, Open'
  PROVE  Open
  BY DEF Open, Undisturbed, Without

LEMMA Disturbed ==
  ASSUME NEW pair \in hist'.mishaps,
         pair \in {{"banish"}, {"profile"}, {"join"}, {"ask"}, {"banish", "online"}, {"banish", "offline"},
                   {"banish", "join"}, {"banish", "restart"}}
  PROVE  ~Open'
  BY DEF Open, Undisturbed, Without, With

\* Where a banish is at work, or begins or is cut short, other work on the row is noted.
LEMMA BanishMeets ==
  ASSUME BaseInv, NEW kind, Noted(Beside(kind)), NEW o \in Running,
         \/ kind = "banish" /\ o.op \in RowWork
         \/ o.op = "banish" /\ kind \in {"online", "offline", "join", "restart"}
  PROVE  ~Open'
  <1>1. IsJob(o)
    BY DEF BaseInv, JobsKnow
  <1>2. {kind, o.op} \in hist'.mishaps
    BY NotedBeside DEF RowWork
  <1>3. CASE o.op = "banish"
    <2>1. kind \in {"banish", "online", "offline", "join", "restart"}
      BY <1>3
    <2> QED
      BY <1>2, <1>3, <2>1, Disturbed
  <1>4. CASE o.op # "banish"
    <2>1. o.op \in {"online", "offline", "join"} /\ kind = "banish"
      BY <1>1, <1>4 DEF RowWork, IsJob, Steps
    <2> QED
      BY <1>2, <2>1, Disturbed
  <1> QED
    BY <1>3, <1>4

\* Work on nothing of this.
LEMMA BanishBeside ==
  ASSUME BanishKnow, hist.mishaps \subseteq hist'.mishaps, hist'.member = hist.member, row' = row, channel' = channel,
         bot'.live => bot.live, bot'.joined => bot.joined, Tracked' => Tracked,
         \A e \in Running' : e.op \in RowWork => e \in Running,
         \A e \in Running : e.op \in RowWork => e \in Running' /\ jobs'[e] = jobs[e]
  PROVE  BanishKnow'
  <1> SUFFICES ASSUME Open' PROVE Banishing' /\ (Out' => StaysOut')
    BY BanishNext
  <1>1. Banishing /\ (Out => StaysOut)
    BY BanishAre, OpenBefore
  <1>2. Banishing'
    <2> SUFFICES ASSUME NEW o \in Running', o.op = "banish" PROVE Alone(o)'
      BY DEF Banishing
    <2>1. o \in Running /\ Alone(o) /\ jobs'[o] = jobs[o]
      BY <1>1 DEF Banishing, RowWork
    <2> QED
      BY <2>1 DEF Alone
  <1>3. ASSUME Out' PROVE StaysOut'
    <2>1. StaysOut
      BY <1>1, <1>3 DEF Out
    <2>2. Held("join") \subseteq Held("join")'
      BY DEF Held, RowWork
    <2>3. \A o \in Running' : OutJob(o)
      BY <2>1 DEF StaysOut, OutJob, RowWork
    <2>4. Tracked' => \E o \in Running' : o.op = "banish" /\ o.pc = "filter"
      BY <2>1 DEF StaysOut, RowWork
    <2> QED
      BY <2>1, <2>2, <2>3, <2>4 DEF StaysOut, OutJob
  <1> QED
    BY <1>2, <1>3

\* A step of other work on the row: there is no banish then.
LEMMA BanishOfRow ==
  ASSUME BanishKnow, NEW o \in Running, NEW S, JobsMove(o, S), o.op \in RowWork, o.op # "banish",
         \A e \in S : e.op # "banish", hist.mishaps \subseteq hist'.mishaps, channel' = channel,
         Open /\ Open' /\ Out' => Out,
         Open /\ Open' /\ Out' /\ StaysOut /\ OutJob(o) /\ ~Tracked =>
           /\ ~row'.optIn /\ ~bot'.live /\ ~Tracked' /\ (bot'.joined => bot.joined)
           /\ \A e \in S : OutJob(e)
           /\ o.op = "join" /\ o.alive => \E e \in S : e.op = "join" /\ e.alive
  PROVE  BanishKnow'
  <1> SUFFICES ASSUME Open' PROVE Banishing' /\ (Out' => StaysOut')
    BY BanishNext
  <1>1. Open /\ Banishing /\ (Out => StaysOut)
    BY BanishAre, OpenBefore
  <1>2. \A p \in Running : p.op # "banish"
    BY <1>1 DEF Banishing, Alone
  <1>3. \A e \in Running' : e \in Running \/ e \in S
    BY DEF JobsMove
  <1>4. Banishing'
    BY <1>2, <1>3 DEF Banishing
  <1>5. ASSUME Out' PROVE StaysOut'
    <2>1. StaysOut /\ OutJob(o) /\ ~Tracked
      BY <1>1, <1>2, <1>5 DEF StaysOut
    <2>2. /\ ~row'.optIn /\ ~bot'.live /\ ~Tracked' /\ (bot'.joined => bot.joined)
          /\ \A e \in S : OutJob(e)
          /\ o.op = "join" /\ o.alive => \E e \in S : e.op = "join" /\ e.alive
      BY <1>1, <1>5, <2>1
    <2>3. \A e \in Running' : OutJob(e)
      BY <1>3, <2>1, <2>2 DEF StaysOut
    <2>4. Held("join") # {} => Held("join")' # {}
      BY <2>2 DEF JobsMove, Held
    <2> QED
      BY <2>1, <2>2, <2>3, <2>4 DEF StaysOut, OutJob
  <1> QED
    BY <1>4, <1>5

\* A step of a banish: it is alone.
LEMMA BanishOfBanish ==
  ASSUME BanishKnow, NEW o \in Running, NEW n, JobsMove(o, {n}), o.op = "banish",
         n.op = "banish", n.alive = o.alive, n.pc # "unsubscribe",
         hist.mishaps \subseteq hist'.mishaps, channel' = channel, bot'.joined = bot.joined,
         o.pc = "unsubscribe" \/ bot'.live = bot.live, o.pc # "unsubscribe" \/ ~bot'.live,
         Open' /\ Out' => (Out /\ row' = row) \/ ~row'.optIn,
         Tracked' => Tracked, o.pc # "filter",
         Open' /\ Out' /\ ~Out => n.pc = "filter"
  PROVE  BanishKnow'
  <1> SUFFICES ASSUME Open' PROVE Banishing' /\ (Out' => StaysOut')
    BY BanishNext
  <1>1. Open /\ Banishing /\ (Out => StaysOut)
    BY BanishAre, OpenBefore
  <1>2. Alone(o)
    BY <1>1 DEF Banishing
  <1>3. \A e \in Running' : e.op \in RowWork => e = n
    BY <1>2 DEF JobsMove, Alone, RowWork
  <1>4. n \in Running' /\ jobs'[n] = 1
    <2>1. n \in Running => n = o
      BY <1>2 DEF Alone, RowWork
    <2>2. n \notin Running => jobs'[n] = 1
      BY DEF JobsMove
    <2>3. n = o => jobs'[n] = 1
      BY <1>2 DEF JobsMove, Alone
    <2>4. n \in Running'
      BY DEF JobsMove
    <2> QED
      BY <2>1, <2>2, <2>3, <2>4
  <1>5. ~bot'.live /\ ~bot'.joined
    BY <1>2 DEF Alone
  <1>6. Banishing'
    <2> SUFFICES ASSUME NEW e \in Running', e.op = "banish" PROVE Alone(e)'
      BY DEF Banishing
    <2>1. e = n
      BY <1>3 DEF RowWork
    <2> QED
      BY <1>2, <1>3, <1>4, <1>5, <2>1 DEF Alone
  <1>7. ASSUME Out' PROVE StaysOut'
    <2>1. ~row'.optIn
      BY <1>1, <1>7 DEF StaysOut
    <2>2. Out => ~Tracked
      <3>1. Out /\ Tracked => \E q \in Running : q.op = "banish" /\ q.pc = "filter"
        BY <1>1 DEF StaysOut
      <3> QED
        BY <1>2, <3>1 DEF Alone, RowWork
    <2>3. Tracked' => \E q \in Running' : q.op = "banish" /\ q.pc = "filter"
      BY <1>4, <1>7, <2>2
    <2>4. \A e \in Running' : OutJob(e)
      BY <1>3 DEF OutJob, RowWork
    <2> QED
      BY <1>5, <2>1, <2>3, <2>4 DEF StaysOut, OutJob
  <1> QED
    BY <1>6, <1>7

LEMMA TrackedSame == bot'.channels = bot.channels => (Tracked' <=> Tracked)
  BY DEF Tracked

LEMMA OutSame == hist'.member = hist.member /\ row' = row => (Out' <=> Out)
  BY DEF Out

LEMMA OnlineBanish ==
  ASSUME BaseInv, BanishKnow, NEW o \in Running, GoLiveStep(o)
  PROVE  BanishKnow'
  <1>1. /\ Noted({}) /\ UNCHANGED <<twitch, row, channel>> /\ o.op = "online" /\ bot'.channels = bot.channels
        /\ hist.mishaps \subseteq hist'.mishaps /\ hist'.member = hist.member
    BY OnlineStep DEF Noted
  <1>2. PICK S : JobsMove(o, S) /\ \A e \in S : e.op \in {"online", "load"}
    BY OnlineStep
  <1>3. (Out' <=> Out) /\ (Tracked' <=> Tracked) /\ o.op \in RowWork /\ o.op # "banish"
    BY <1>1, OutSame, TrackedSame DEF RowWork
  <1>4. \A e \in S : e.op # "banish"
    BY <1>2
  <1>5. \A pc : Moved(o, pc).op = "online" /\ Moved(o, pc).pc = pc
    BY <1>1 DEF Moved
  <1>6. ASSUME Open /\ Open' /\ Out' /\ StaysOut /\ OutJob(o) /\ ~Tracked => FALSE PROVE BanishKnow'
    BY <1>1, <1>2, <1>3, <1>4, <1>6, BanishOfRow
  <1>7. CASE GoLiveGuard(o)
    <2>1. CASE channel.permanent \/ Tracked
      BY <1>6, <2>1 DEF Open
    <2>2. CASE ~(channel.permanent \/ Tracked)
      <3>1. bot' = bot /\ JobsMove(o, {Moved(o, "ask")})
        BY <1>7, <2>2, GoLiveGuardEffect
      <3>2. \A e \in {Moved(o, "ask")} : e.op # "banish" /\ OutJob(e)
        BY <1>5 DEF OutJob
      <3> QED
        BY <1>1, <1>3, <3>1, <3>2, BanishOfRow DEF StaysOut
    <2> QED
      BY <2>1, <2>2
  <1>8. CASE AskOptIn(o)
    <2>1. CASE row.optIn
      BY <1>6, <2>1 DEF StaysOut
    <2>2. CASE ~row.optIn
      <3>1. bot' = bot /\ JobsMove(o, {})
        BY <1>8, <2>2, AskOptInEffect
      <3> QED
        BY <1>1, <1>3, <3>1, BanishOfRow DEF StaysOut
    <2> QED
      BY <2>1, <2>2
  <1>9. CASE AskFails(o)
    <2>1. {"ask"} \in hist'.mishaps
      BY <1>9, AskFailsEffect DEF Noted
    <2>2. ~Open'
      BY <2>1, Disturbed
    <2> QED
      BY <2>2, BanishNext
  <1>10. CASE GoLiveJoins(o)
    BY <1>6, <1>10, GoLiveJoinsEffect DEF OutJob
  <1>11. CASE GoLiveFresh(o)
    BY <1>6, <1>11, GoLiveFreshEffect DEF OutJob
  <1> QED
    BY <1>7, <1>8, <1>9, <1>10, <1>11 DEF GoLiveStep

LEMMA OtherBanish ==
  ASSUME BaseInv, BanishKnow, NEW o \in Running, Load(o) \/ DadStep(o) \/ BestEffortFails(o) \/ PrivStep(o)
  PROVE  BanishKnow'
  <1>1. ASSUME NEW S, JobsMove(o, S), \A e \in S : e.op \notin RowWork, o.op \notin RowWork, UNCHANGED <<row, channel>>,
               bot'.live = bot.live, bot'.joined = bot.joined, Tracked' => Tracked, Noted({})
        PROVE  BanishKnow'
    <2>1. /\ \A e \in Running' : e.op \in RowWork => e \in Running
          /\ \A e \in Running : e.op \in RowWork => e \in Running' /\ jobs'[e] = jobs[e]
      BY <1>1 DEF JobsMove
    <2> QED
      BY <1>1, <2>1, BanishBeside DEF Noted
  <1>2. CASE Load(o) \/ DadStep(o) \/ BestEffortFails(o)
    <2>1. Load(o) \/ PersistRoll(o) \/ RehydrateReads(o) \/ RehydrateMerges(o) \/ BestEffortFails(o)
      BY <1>2 DEF DadStep
    <2>2. PICK S : JobsMove(o, S) /\ \A e \in S : e.op = "rehydrate"
      BY <2>1, SideStep
    <2>3. /\ UNCHANGED <<row, channel>> /\ Noted({}) /\ o.op \notin RowWork
          /\ bot'.live = bot.live /\ bot'.joined = bot.joined /\ bot'.channels = bot.channels
      BY <2>1, SideStep DEF BotSame, BotIs, Side, RowWork
    <2>4. \A e \in S : e.op \notin RowWork
      BY <2>2 DEF RowWork
    <2> QED
      BY <1>1, <2>2, <2>3, <2>4, TrackedSame
  <1>3. CASE GrantAsks(o)
    <2>1. /\ UNCHANGED <<row, channel>> /\ Noted({}) /\ o.op \notin RowWork /\ o.op = "grant"
          /\ bot'.live = bot.live /\ bot'.joined = bot.joined /\ bot'.channels = bot.channels
      BY <1>3, GrantAsksEffect DEF BotIs, RowWork
    <2>2. \A e \in {Moved(o, "grant")} : e.op \notin RowWork
      BY <2>1 DEF RowWork, Moved
    <2>3. JobsMove(o, {Moved(o, "grant")}) \/ JobsMove(o, {})
      BY <1>3, GrantAsksEffect
    <2> QED
      BY <1>1, <2>1, <2>2, <2>3, TrackedSame
  <1>4. CASE GrantSets(o) \/ HydrateSeeds(o)
    <2>1. /\ UNCHANGED <<row, channel>> /\ Noted({}) /\ o.op \notin RowWork /\ JobsMove(o, {})
          /\ bot'.live = bot.live /\ bot'.joined = bot.joined /\ bot'.channels = WithPrivs(TRUE)
      BY <1>4, GrantSetsEffect, HydrateSeedsEffect DEF BotIs, RowWork
    <2>2. Tracked' => Tracked
      <3>1. bot.channels = <<>> => WithPrivs(TRUE) = <<>>
        BY PrivsEmpty, ShapesTyped DEF BaseInv
      <3> QED
        BY <2>1, <3>1 DEF Tracked
    <2> QED
      BY <1>1, <2>1, <2>2
  <1> QED
    BY <1>2, <1>3, <1>4 DEF PrivStep

LEMMA RowBanish ==
  ASSUME BaseInv, RowStays, BanishKnow, NEW o \in Running, RowStep(o)
  PROVE  BanishKnow'
  <1>1. /\ hist.mishaps \subseteq hist'.mishaps /\ channel' = channel /\ twitch' = twitch
        /\ bot'.live = bot.live /\ bot'.joined = bot.joined /\ bot'.channels = bot.channels
        /\ IsJob(o) /\ o.pc \in {"read", "write"}
    <2>1. CASE ReadRow(o)
      BY <2>1, ReadRowEffect DEF OnlyJob, Noted
    <2>2. CASE WriteRow(o)
      BY <2>2, WriteRowEffect
    <2>3. CASE WriteRefused(o)
      BY <2>3, WriteRefusedEffect DEF Noted, Gives, BotIs
    <2>4. CASE CallFails(o)
      BY <2>4, CallFailsEffect DEF Noted, Gives, BotIs
    <2> QED
      BY <2>1, <2>2, <2>3, <2>4 DEF RowStep
  <1>2. o.op \in {"online", "offline", "join", "banish"} /\ o.op \in RowWork
    BY <1>1, RowOpIs DEF RowWork
  <1>3. Tracked' <=> Tracked
    BY <1>1, TrackedSame
  <1>4. o.op = "online" => ~OutJob(o)
    BY <1>1 DEF OutJob
  <1>5. \A pc : /\ Moved(o, pc).op = o.op /\ Moved(o, pc).pc = pc /\ Moved(o, pc).alive = o.alive
                /\ Moved(o, pc).row = o.row
    BY DEF Moved
  <1>6. CASE ReadRow(o)
    <2>1. /\ row' = row /\ hist'.member = hist.member /\ o.pc = "read"
      BY <1>6, ReadRowEffect DEF OnlyJob
    <2>2. PICK n : n = Seen(o)
      OBVIOUS
    <2>3. n.op = o.op /\ n.pc = "write" /\ n.alive = o.alive /\ n.row = row /\ JobsMove(o, {n})
      BY <1>6, <2>2, ReadRowEffect DEF Seen
    <2>4. Out' <=> Out
      BY <2>1, OutSame
    <2>5. CASE o.op = "banish"
      BY <1>1, <1>3, <2>1, <2>3, <2>4, <2>5, BanishOfBanish
    <2>6. CASE o.op # "banish"
      <3>1. Out /\ StaysOut /\ OutJob(o) => OutJob(n) /\ o.op # "online"
        BY <1>4, <2>3 DEF OutJob, Out, StaysOut
      <3>2. \A e \in {n} : e.op # "banish"
        BY <2>3, <2>6
      <3>3. o.op = "join" /\ o.alive => \E e \in {n} : e.op = "join" /\ e.alive
        BY <2>3
      <3> QED
        BY <1>1, <1>2, <1>3, <2>1, <2>3, <2>4, <2>6, <3>1, <3>2, <3>3, BanishOfRow DEF StaysOut
    <2> QED
      BY <2>5, <2>6
  <1>7. CASE WriteRow(o)
    <2>1. /\ row'.exists /\ o.pc = "write"
          /\ \/ /\ o.op \in {"online", "offline"} /\ o.row.exists
                /\ row'.optIn = o.row.optIn /\ hist'.member = hist.member
             \/ o.op = "banish" /\ o.row.exists /\ ~row'.optIn /\ ~hist'.member
             \/ o.op = "join" /\ row'.optIn /\ hist'.member
          /\ \/ o.op = "online" /\ o.alive /\ JobsMove(o, {Moved(o, "join")})
             \/ o.op = "banish" /\ o.alive /\ JobsMove(o, {Moved(o, "filter")})
             \/ o.op = "join" /\ o.alive /\ JobsMove(o, {Moved(o, "append")})
             \/ (o.op = "offline" \/ ~o.alive) /\ JobsMove(o, {})
      BY <1>7, WriteRowEffect
    <2>2. o.row.exists => row.exists
      BY DEF RowStays
    <2>3. CASE o.op = "banish"
      <3>1. CASE ~o.alive
        <4>1. ~Open'
          <5>1. Open' => Alone(o)
            BY <1>1, <2>3, BanishAre, OpenBefore DEF Banishing
          <5> QED
            BY <3>1, <5>1 DEF Alone
        <4> QED
          BY <4>1, BanishNext
      <3>2. CASE o.alive
        <4>1. PICK n : n = Moved(o, "filter")
          OBVIOUS
        <4>2. n.op = "banish" /\ n.pc = "filter" /\ n.alive = o.alive /\ JobsMove(o, {n})
          BY <1>5, <2>1, <2>3, <3>2, <4>1
        <4> QED
          BY <1>1, <1>3, <2>1, <2>3, <4>2, BanishOfBanish
      <3> QED
        BY <3>1, <3>2
    <2>4. CASE o.op = "join"
      <3>1. ~Out'
        BY <2>1, <2>4 DEF Out
      <3>2. PICK S : JobsMove(o, S) /\ S \in {{}, {Moved(o, "append")}}
        BY <2>1, <2>4
      <3>3. \A e \in S : e.op # "banish"
        BY <1>5, <2>4, <3>2
      <3> QED
        BY <1>1, <1>2, <2>4, <3>1, <3>2, <3>3, BanishOfRow
    <2>5. CASE o.op = "offline"
      <3>1. JobsMove(o, {}) /\ row'.optIn = o.row.optIn /\ (Out' <=> Out)
        BY <2>1, <2>2, <2>5 DEF Out
      <3>2. OutJob(o) => ~row'.optIn
        BY <2>1, <2>5, <3>1 DEF OutJob
      <3> QED
        BY <1>1, <1>2, <1>3, <2>5, <3>1, <3>2, BanishOfRow DEF StaysOut
    <2>6. CASE o.op = "online"
      <3>1. Out' <=> Out
        BY <2>1, <2>2, <2>6 DEF Out
      <3>2. PICK S : JobsMove(o, S) /\ S \in {{}, {Moved(o, "join")}}
        BY <2>1, <2>6
      <3>3. \A e \in S : e.op # "banish"
        BY <1>5, <2>6, <3>2
      <3> QED
        BY <1>1, <1>2, <1>4, <2>6, <3>1, <3>2, <3>3, BanishOfRow
    <2> QED
      BY <1>2, <2>3, <2>4, <2>5, <2>6
  <1>8. ASSUME WriteRefused(o) \/ CallFails(o) PROVE BanishKnow'
    <2>1. row' = row /\ hist'.member = hist.member /\ Gives(o)
      BY <1>8, WriteRefusedEffect, CallFailsEffect DEF Noted
    <2>2. Out' <=> Out
      BY <2>1, OutSame
    <2>3. ASSUME CallFails(o), o.op \in {"banish", "join"} PROVE ~Open'
      <3>1. {o.op} \in hist'.mishaps
        BY <2>3, CallFailsEffect DEF Noted
      <3>2. {o.op} = {"banish"} \/ {o.op} = {"join"}
        BY <2>3
      <3> QED
        BY <3>1, <3>2, Disturbed
    <2>4. ASSUME WriteRefused(o), o.op = "join" PROVE ~OutJob(o)
      <3>1. o.pc = "write" /\ ~CanWrite(o)
        BY <2>4, WriteRefusedEffect
      <3> QED
        BY <2>4, <3>1 DEF OutJob, CanWrite
    <2>5. CASE o.op = "banish"
      <3>1. CASE ~o.alive
        <4>1. ~Open'
          <5>1. Open' => Alone(o)
            BY <1>1, <2>5, BanishAre, OpenBefore DEF Banishing
          <5> QED
            BY <3>1, <5>1 DEF Alone
        <4> QED
          BY <4>1, BanishNext
      <3>2. CASE o.alive
        <4>1. PICK n : n = Moved(o, "filter")
          OBVIOUS
        <4>2. n.op = "banish" /\ n.pc = "filter" /\ n.alive = o.alive /\ JobsMove(o, {n})
          BY <1>5, <2>1, <2>5, <3>2, <4>1 DEF Gives
        <4> QED
          BY <1>1, <1>3, <2>1, <2>2, <2>5, <4>2, BanishOfBanish
      <3> QED
        BY <3>1, <3>2
    <2>6. CASE o.op \in {"join", "online"}
      <3>1. Open' => ~OutJob(o)
        BY <1>4, <1>8, <2>3, <2>4, <2>6
      <3>2. PICK S : JobsMove(o, S) /\ S \in {{}, {Moved(o, "join")}}
        BY <2>1, <2>6 DEF Gives
      <3>3. \A e \in S : e.op # "banish"
        BY <1>5, <2>6, <3>2
      <3> QED
        BY <1>1, <1>2, <2>2, <2>6, <3>1, <3>2, <3>3, BanishOfRow
    <2>7. CASE o.op = "offline"
      <3>1. JobsMove(o, {})
        BY <2>1, <2>7 DEF Gives
      <3> QED
        BY <1>1, <1>2, <1>3, <2>1, <2>2, <2>7, <3>1, BanishOfRow DEF StaysOut
    <2> QED
      BY <1>2, <2>5, <2>6, <2>7
  <1> QED
    BY <1>6, <1>7, <1>8 DEF RowStep

LEMMA MemberBanish ==
  ASSUME BaseInv, BanishKnow, NEW o \in Running, MemberStep(o)
  PROVE  BanishKnow'
  <1>1. CASE JoinLooksUp(o)
    <2>1. PICK q : q.op = "join" /\ q.pc = "read" /\ q.alive /\ JobsMove(o, {q})
      BY <1>1, JoinLooksUpEffect
    <2>2. /\ o.op = "join" /\ UNCHANGED <<row, bot, channel>> /\ hist.mishaps \subseteq hist'.mishaps
          /\ hist'.member = hist.member
      BY <1>1, JoinLooksUpEffect DEF Noted
    <2>3. OutJob(q) /\ (Out' <=> Out) /\ (Tracked' <=> Tracked) /\ o.op \in RowWork
      BY <2>1, <2>2, OutSame, TrackedSame DEF OutJob, RowWork
    <2>4. /\ \A e \in {q} : e.op # "banish" /\ OutJob(e)
          /\ \E e \in {q} : e.op = "join" /\ e.alive
      BY <2>1, <2>3
    <2> QED
      BY <2>1, <2>2, <2>3, <2>4, BanishOfRow DEF StaysOut
  <1>2. CASE ProfileFails(o)
    <2>1. {"profile"} \in hist'.mishaps
      BY <1>2, ProfileFailsEffect DEF Noted
    <2>2. ~Open'
      BY <2>1, Disturbed
    <2> QED
      BY <2>2, BanishNext
  <1>3. CASE JoinAppends(o)
    <2>1. /\ o.op = "join" /\ o.pc = "append" /\ JobsMove(o, {}) /\ UNCHANGED <<row, channel>>
          /\ hist.mishaps \subseteq hist'.mishaps /\ hist'.member = hist.member
      BY <1>3, JoinAppendsEffect DEF Noted
    <2>2. ~OutJob(o) /\ (Out' <=> Out) /\ o.op \in RowWork
      BY <2>1, OutSame DEF OutJob, RowWork
    <2> QED
      BY <2>1, <2>2, BanishOfRow
  <1>4. CASE BanishUnsubscribes(o)
    <2>1. /\ o.op = "banish" /\ JobsMove(o, {Moved(o, "read")}) /\ UNCHANGED <<row, channel>>
          /\ hist.mishaps \subseteq hist'.mishaps /\ hist'.member = hist.member
          /\ ~bot'.live /\ bot'.joined = bot.joined /\ bot'.channels = bot.channels
      BY <1>4, BanishUnsubscribesEffect DEF BotIs, Noted
    <2>2. o.pc = "unsubscribe"
      BY <1>4 DEF BanishUnsubscribes
    <2>3. PICK n : n = Moved(o, "read")
      OBVIOUS
    <2>4. n.op = "banish" /\ n.pc = "read" /\ n.alive = o.alive /\ JobsMove(o, {n})
      BY <2>1, <2>3 DEF Moved
    <2>5. (Out' <=> Out) /\ (Tracked' <=> Tracked)
      BY <2>1, OutSame, TrackedSame
    <2> QED
      BY <2>1, <2>2, <2>4, <2>5, BanishOfBanish
  <1>5. CASE BanishFilters(o)
    <2>1. /\ o.op = "banish" /\ JobsMove(o, {}) /\ UNCHANGED <<row, channel>>
          /\ hist.mishaps \subseteq hist'.mishaps /\ hist'.member = hist.member
          /\ bot'.live = bot.live /\ bot'.joined = bot.joined /\ bot'.channels = <<>>
      BY <1>5, BanishFiltersEffect DEF BotIs, Noted
    <2> SUFFICES ASSUME Open' PROVE Banishing' /\ (Out' => StaysOut')
      BY BanishNext
    <2>2. Banishing /\ (Out => StaysOut) /\ Alone(o)
      BY <2>1, BanishAre, OpenBefore DEF Banishing
    <2>3. \A e \in Running' : e.op \notin RowWork
      BY <2>1, <2>2 DEF JobsMove, Alone
    <2>4. Out' <=> Out
      BY <2>1, OutSame
    <2>5. ~Tracked' /\ ~bot'.joined
      BY <2>1, <2>2 DEF Tracked, Alone
    <2>6. Banishing' /\ \A e \in Running' : OutJob(e)
      BY <2>3 DEF Banishing, OutJob, RowWork
    <2> QED
      BY <2>1, <2>2, <2>4, <2>5, <2>6 DEF StaysOut, OutJob
  <1> QED
    BY <1>1, <1>2, <1>3, <1>4, <1>5 DEF MemberStep

\* Work on the row begins: beside a banish that is noted.
LEMMA BanishOfNew ==
  ASSUME BaseInv, BanishKnow, NEW e, JobsAdd({e}), e.op \in {"online", "offline", "join"}, Noted(Beside(e.op)),
         UNCHANGED <<row, channel>>, OutJob(e), Tracked' => Tracked, bot'.live => bot.live,
         Open => (bot'.joined => bot.joined \/ (e.op = "join" /\ e.alive))
  PROVE  BanishKnow'
  <1> SUFFICES ASSUME Open' PROVE Banishing' /\ (Out' => StaysOut')
    BY BanishNext
  <1>1. /\ hist.mishaps \subseteq hist'.mishaps /\ hist'.member = hist.member
        /\ (Out' <=> Out)
    BY OutSame DEF Noted
  <1>2. Open /\ (Out => StaysOut)
    BY <1>1, BanishAre, OpenBefore
  <1>3. \A o \in Running : o.op # "banish"
    BY BanishMeets
  <1>4. /\ \A q \in Running' : q \in Running \/ q = e
        /\ Held("join") \subseteq Held("join")' /\ (e.op = "join" /\ e.alive => e \in Held("join")')
    BY DEF JobsAdd, Held
  <1>5. Banishing'
    BY <1>3, <1>4 DEF Banishing
  <1>6. ASSUME Out' PROVE StaysOut'
    <2>1. StaysOut
      BY <1>1, <1>2, <1>6
    <2>2. ~Tracked'
      BY <1>3, <2>1 DEF StaysOut
    <2>3. \A q \in Running' : OutJob(q)
      BY <1>4, <2>1 DEF StaysOut
    <2> QED
      BY <1>2, <1>4, <2>1, <2>2, <2>3 DEF StaysOut, OutJob
  <1> QED
    BY <1>5, <1>6

LEMMA BanishStep ==
  ASSUME BaseInv, RowStays, BanishKnow, [Next]_vars
  PROVE  BanishKnow'
  <1>1. \A op, pc : /\ Go(op, pc).op = op /\ Go(op, pc).alive /\ Go(op, pc).pc = pc
                    /\ Go(op, pc).row = NoRow
    BY DEF Go
  <1>2. ASSUME jobs' = jobs, hist.mishaps \subseteq hist'.mishaps, hist'.member = hist.member, row' = row,
               channel' = channel, bot'.live = bot.live, bot'.joined = bot.joined, Tracked' => Tracked
        PROVE  BanishKnow'
    BY <1>2, BanishBeside DEF Running
  <1>3. ASSUME NEW e, JobsAdd({e}), e.op \notin RowWork, hist.mishaps \subseteq hist'.mishaps,
               hist'.member = hist.member, row' = row, channel' = channel, bot'.live = bot.live,
               bot'.joined = bot.joined, Tracked' => Tracked
        PROVE  BanishKnow'
    <2>1. /\ \A q \in Running' : q.op \in RowWork => q \in Running
          /\ \A q \in Running : q.op \in RowWork => q \in Running' /\ jobs'[q] = jobs[q]
      BY <1>3 DEF JobsAdd
    <2> QED
      BY <1>3, <2>1, BanishBeside
  <1>4. CASE StreamTurns
    BY <1>2, <1>4, StreamTurnsEffect, TrackedSame DEF Noted
  <1>5. CASE Mod
    BY <1>2, <1>5, ModEffect, TrackedSame
  <1>6. ASSUME NEW e \in twitch.sent, GoLive(e) PROVE BanishKnow'
    <2>1. PICK q : q = Go("online", "start") /\ q.op = "online" /\ q.pc = "start" /\ JobsAdd({q})
      BY <1>1, <1>6, GoLiveEffect
    <2>2. Noted(Beside(q.op)) /\ UNCHANGED <<row, bot, channel>>
      BY <1>6, <2>1, GoLiveEffect
    <2>3. OutJob(q)
      BY <2>1 DEF OutJob
    <2> QED
      BY <2>1, <2>2, <2>3, TrackedSame, BanishOfNew
  <1>7. ASSUME NEW e \in twitch.sent, GoOffline(e) PROVE BanishKnow'
    <2>1. PICK q : q = Go("offline", "read") /\ q.op = "offline" /\ q.pc = "read" /\ JobsAdd({q})
      BY <1>1, <1>7, GoOfflineEffect
    <2>2. /\ Noted(Beside(q.op)) /\ UNCHANGED <<row, channel>> /\ ~bot'.live /\ bot'.joined = channel.permanent
          /\ bot'.channels = bot.channels
      BY <1>7, <2>1, GoOfflineEffect
    <2>3. OutJob(q)
      BY <2>1 DEF OutJob
    <2> QED
      BY <2>1, <2>2, <2>3, TrackedSame, BanishOfNew DEF Open
  <1>8. CASE JoinMe
    <2>1. PICK q : q = Go("join", "profile") /\ q.op = "join" /\ q.pc = "profile" /\ q.alive /\ JobsAdd({q})
      BY <1>1, <1>8, JoinMeEffect
    <2>2. Noted(Beside(q.op)) /\ UNCHANGED <<row, channel>> /\ bot'.live = bot.live /\ bot'.channels = bot.channels
      BY <1>8, <2>1, JoinMeEffect
    <2>3. OutJob(q)
      BY <2>1 DEF OutJob
    <2> QED
      BY <2>1, <2>2, <2>3, TrackedSame, BanishOfNew
  <1>9. CASE Banish
    <2>1. PICK q : q = Go("banish", "unsubscribe") /\ q.op = "banish" /\ q.pc = "unsubscribe" /\ q.alive /\ JobsAdd({q})
      BY <1>1, <1>9, BanishEffect
    <2>2. /\ Noted(Beside("banish")) /\ UNCHANGED <<row, channel>> /\ ~bot'.joined /\ bot'.live = bot.live
          /\ bot'.channels = bot.channels /\ hist.mishaps \subseteq hist'.mishaps /\ hist'.member = hist.member
      BY <1>9, BanishEffect DEF Noted
    <2> SUFFICES ASSUME Open' PROVE Banishing' /\ (Out' => StaysOut')
      BY BanishNext
    <2>3. \A o \in Running : o.op \notin RowWork
      BY <2>2, BanishMeets
    <2>4. (Out => StaysOut) /\ (Out' <=> Out) /\ (Tracked' <=> Tracked)
      BY <2>2, BanishAre, OpenBefore, OutSame, TrackedSame
    <2>5. /\ \A e \in Running' : e.op \in RowWork => e = q
          /\ q \in Running' /\ jobs'[q] = 1
      BY <2>1, <2>3 DEF JobsAdd, RowWork
    <2>6. Banishing'
      <3> SUFFICES ASSUME NEW e \in Running', e.op = "banish" PROVE Alone(e)'
        BY DEF Banishing
      <3>1. e = q
        BY <2>5 DEF RowWork
      <3> QED
        BY <2>1, <2>2, <2>5, <3>1 DEF Alone
    <2>7. ASSUME Out' PROVE StaysOut'
      <3>1. StaysOut /\ ~Tracked
        BY <2>3, <2>4, <2>7 DEF StaysOut, RowWork
      <3>2. \A e \in Running' : OutJob(e)
        BY <2>1, <2>5 DEF OutJob, RowWork
      <3> QED
        BY <2>2, <2>4, <3>1, <3>2 DEF StaysOut, OutJob
    <2> QED
      BY <2>6, <2>7
  <1>10. CASE SignIn
    <2>1. UNCHANGED <<bot, jobs, channel>> /\ hist'.member /\ hist.mishaps \subseteq hist'.mishaps
      BY <1>10, SignInEffect
    <2> SUFFICES ASSUME Open' PROVE Banishing' /\ (Out' => StaysOut')
      BY BanishNext
    <2>2. Banishing
      BY <2>1, BanishAre, OpenBefore
    <2>3. Banishing' /\ ~Out'
      BY <2>1, <2>2 DEF Banishing, Alone, Out, Running
    <2> QED
      BY <2>3
  <1>11. CASE Restart
    <2>1. /\ Noted(Beside("restart")) /\ UNCHANGED <<row, channel>> /\ \A e \in Running' : AfterRestart(e)
          /\ hist.mishaps \subseteq hist'.mishaps /\ hist'.member = hist.member
          /\ bot'.live = (row.optIn /\ row.live) /\ bot'.joined = (channel.permanent \/ (row.optIn /\ row.live))
          /\ bot'.channels = IF row.optIn THEN <<FALSE>> ELSE <<>>
      BY <1>11, RestartEffect DEF Noted, BotIs
    <2> SUFFICES ASSUME Open' PROVE Banishing' /\ (Out' => StaysOut')
      BY BanishNext
    <2>2. \A o \in Running : o.op # "banish"
      BY <2>1, BanishMeets
    <2>3. Open /\ (Out => StaysOut) /\ (Out' <=> Out)
      BY <2>1, BanishAre, OpenBefore, OutSame
    <2>4. Banishing'
      BY <2>1, <2>2 DEF AfterRestart, Banishing
    <2>5. ASSUME Out' PROVE StaysOut'
      <3>1. StaysOut /\ ~row.optIn /\ ~channel.permanent
        BY <2>3, <2>5 DEF StaysOut, Open
      <3>2. ~bot'.live /\ ~bot'.joined /\ ~Tracked'
        BY <2>1, <3>1 DEF Tracked
      <3>3. ASSUME NEW e \in Running' PROVE OutJob(e)
        <4>1. CASE e.pc = "write" /\ \E o \in Running : e.op = o.op /\ o.pc = "write" /\ e.row = o.row
          <5>1. PICK o \in Running : e.op = o.op /\ o.pc = "write" /\ e.row = o.row
            BY <4>1
          <5>2. OutJob(o)
            BY <3>1 DEF StaysOut
          <5> QED
            BY <4>1, <5>1, <5>2 DEF OutJob
        <4>2. CASE e.op \in {"rehydrate", "load", "hydrate"}
          BY <4>2 DEF OutJob
        <4> QED
          BY <2>1, <4>1, <4>2 DEF AfterRestart
      <3> QED
        BY <2>1, <3>1, <3>2, <3>3 DEF StaysOut, OutJob
    <2> QED
      BY <2>4, <2>5
  <1>12. CASE Roll
    <2>1. PICK q : q.op = "persist" /\ JobsAdd({q})
      BY <1>12, RollEffect
    <2>2. q.op \notin RowWork
      BY <2>1 DEF RowWork
    <2> QED
      BY <1>3, <1>12, <2>1, <2>2, RollEffect, TrackedSame DEF Noted
  <1>13. CASE Revocation
    <2>1. bot.channels = <<>> => WithPrivs(FALSE) = <<>>
      BY PrivsEmpty, ShapesTyped DEF BaseInv
    <2>2. Tracked' => Tracked
      BY <1>13, <2>1, RevocationEffect DEF Tracked
    <2> QED
      BY <1>2, <1>13, <2>2, RevocationEffect DEF Noted
  <1>14. CASE GrantStarts
    <2>1. PICK q : q.op = "grant" /\ JobsAdd({q})
      BY <1>1, <1>14, GrantStartsEffect
    <2>2. q.op \notin RowWork
      BY <2>1 DEF RowWork
    <2> QED
      BY <1>3, <1>14, <2>1, <2>2, GrantStartsEffect, TrackedSame DEF Noted
  <1>15. CASE UNCHANGED vars
    BY <1>2, <1>15, TrackedSame DEF vars
  <1>16. ASSUME NEW o \in Running, JobStep(o) PROVE BanishKnow'
    BY <1>16, RowBanish, MemberBanish, OnlineBanish, OtherBanish DEF JobStep
  <1> QED
    BY <1>4, <1>5, <1>6, <1>7, <1>8, <1>9, <1>10, <1>11, <1>12, <1>13, <1>14, <1>15, <1>16 DEF Next

-----------------------------------------------------------------------------
(* Streams and events: what moves them on, and how they are counted.       *)

LEMMA StreamsAre ==
  ASSUME twitch \in TwitchType
  PROVE  StreamNo \in Nat /\ twitch.events \in Nat /\ twitch.events <= 2 * StreamNo /\ 2 * StreamNo <= twitch.events + 1
  BY DEF TwitchType, StreamNo

\* Nothing is sent, and nothing received of Twitch's events.
Calendar == twitch'.events = twitch.events /\ twitch'.sent = twitch.sent /\ hist'.heard = hist.heard

LEMMA CalendarSame ==
  ASSUME twitch' = twitch \/ (twitch'.events = twitch.events /\ twitch'.sent = twitch.sent),
         hist' = hist \/ hist'.heard = hist.heard
  PROVE  Calendar
  BY DEF Calendar

LEMMA CalendarMishap ==
  ASSUME hist \in HistType, NEW m, Mishap(m) \/ Fails(m)
  PROVE  hist'.heard = hist.heard
  BY DEF HistType, Mishap, Fails

LEMMA JobCalendar ==
  ASSUME BaseInv, NEW o \in Running, JobStep(o)
  PROVE  Calendar
  <1>1. Typed
    BY ShapesTyped DEF BaseInv
  <1>2. CASE RowStep(o)
    <2>1. CASE ReadRow(o)
      BY <2>1, CalendarSame DEF ReadRow
    <2>2. CASE WriteRow(o)
      <3>1. hist'.heard = hist.heard
        BY <1>1, <2>2 DEF WriteRow, Typed, HistType
      <3> QED
        BY <2>2, <3>1, CalendarSame DEF WriteRow
    <2>3. CASE WriteRefused(o)
      BY <1>1, <2>3, CalendarSame, CalendarMishap DEF WriteRefused, Typed
    <2>4. CASE CallFails(o)
      BY <1>1, <2>4, CalendarSame, CalendarMishap DEF CallFails, Typed
    <2> QED
      BY <1>2, <2>1, <2>2, <2>3, <2>4 DEF RowStep
  <1>3. CASE GoLiveStep(o)
    <2>1. CASE AskFails(o)
      BY <1>1, <2>1, CalendarSame, CalendarMishap DEF AskFails, Typed
    <2>2. CASE GoLiveFresh(o)
      <3>1. hist'.heard = hist.heard
        BY <1>1, <2>2 DEF GoLiveFresh, Typed, HistType
      <3> QED
        BY <2>2, <3>1, CalendarSame DEF GoLiveFresh
    <2>3. CASE GoLiveGuard(o) \/ AskOptIn(o) \/ GoLiveJoins(o)
      BY <2>3, CalendarSame DEF GoLiveGuard, AskOptIn, GoLiveJoins
    <2> QED
      BY <1>3, <2>1, <2>2, <2>3 DEF GoLiveStep
  <1>4. CASE MemberStep(o)
    <2>1. CASE ProfileFails(o)
      BY <1>1, <2>1, CalendarSame, CalendarMishap DEF ProfileFails, Typed
    <2>2. CASE JoinAppends(o)
      BY <1>1, <2>2, CalendarSame DEF JoinAppends, Typed, TwitchType
    <2>3. CASE BanishUnsubscribes(o)
      BY <1>1, <2>3, CalendarSame DEF BanishUnsubscribes, Typed, TwitchType
    <2>4. CASE JoinLooksUp(o) \/ BanishFilters(o)
      BY <2>4, CalendarSame DEF JoinLooksUp, BanishFilters
    <2> QED
      BY <1>4, <2>1, <2>2, <2>3, <2>4 DEF MemberStep
  <1>5. CASE DadStep(o)
    <2>1. CASE PersistRoll(o)
      BY <1>1, <2>1, CalendarSame, CalendarMishap DEF PersistRoll, PersistStamps, Typed
    <2>2. CASE RehydrateReads(o)
      BY <1>1, <2>2, CalendarSame, CalendarMishap DEF RehydrateReads, Typed
    <2>3. CASE RehydrateMerges(o)
      BY <2>3, CalendarSame DEF RehydrateMerges, Merging
    <2> QED
      BY <1>5, <2>1, <2>2, <2>3 DEF DadStep
  <1>6. CASE Load(o) \/ BestEffortFails(o)
    BY <1>1, <1>6, CalendarSame, CalendarMishap DEF Load, BestEffortFails, Typed
  <1>7. CASE PrivStep(o)
    <2>1. CASE GrantAsks(o)
      BY <1>1, <2>1, CalendarSame DEF GrantAsks, GrantSubscribes, Typed, TwitchType
    <2>2. CASE GrantSets(o) \/ HydrateSeeds(o)
      BY <2>2, CalendarSame DEF GrantSets, HydrateSeeds
    <2> QED
      BY <1>7, <2>1, <2>2 DEF PrivStep
  <1> QED
    BY <1>2, <1>3, <1>4, <1>5, <1>6, <1>7 DEF JobStep

LEMMA RequestCalendar ==
  ASSUME BaseInv, Mod \/ JoinMe \/ Banish \/ SignIn \/ Restart \/ Roll \/ Revocation \/ GrantStarts
  PROVE  Calendar
  <1>1. Typed
    BY ShapesTyped DEF BaseInv
  <1>2. CASE Mod \/ Revocation
    BY <1>1, <1>2, CalendarSame, CalendarMishap DEF Mod, Revocation, Typed, TwitchType
  <1>3. CASE JoinMe \/ Restart \/ GrantStarts
    BY <1>1, <1>3, CalendarSame, CalendarMishap DEF JoinMe, JoinWhen, Restart, GrantStarts, Typed
  <1>4. CASE Banish \/ Roll
    BY <1>1, <1>4, CalendarSame DEF Banish, Roll, RollUpTo, Typed, HistType
  <1>5. CASE SignIn
    BY <1>1, <1>5, CalendarSame DEF SignIn, Typed, HistType, TwitchType
  <1> QED
    BY <1>2, <1>3, <1>4, <1>5

LEMMA TurnIs ==
  ASSUME BaseInv, StreamTurns
  PROVE  /\ twitch'.events = twitch.events + 1 /\ hist'.heard = hist.heard
         /\ twitch'.sent = IF twitch.hears THEN twitch.sent \cup {twitch.events + 1} ELSE twitch.sent
  <1>1. Typed
    BY ShapesTyped DEF BaseInv
  <1> QED
    BY <1>1 DEF StreamTurns, Typed, TwitchType, HistType

\* An event in time: it is the last of its kind so far.
LEMMA DeliveredIs ==
  ASSUME BaseInv, NEW e \in twitch.sent, NEW op, NEW m, Delivered(e, op, m)
  PROVE  /\ e \in Nat /\ 1 <= e /\ e <= twitch.events
         /\ hist'.heard = Larger(hist.heard, e)
         /\ {"late"} \notin hist'.mishaps => hist.heard <= e /\ hist'.heard = e
         /\ {"skipped"} \notin hist'.mishaps => e <= hist.heard + 1
         /\ {"past"} \notin hist'.mishaps => StreamNo <= (e + 1) \div 2
         /\ m \subseteq hist'.mishaps
  <1>1. Typed /\ e \in Nat /\ 1 <= e /\ e <= twitch.events
    BY ShapesTyped DEF BaseInv, Ranges, Shapes
  <1>2. hist'.heard = Larger(hist.heard, e)
    BY <1>1 DEF Delivered, Typed, HistType
  <1>3. hist'.mishaps = hist.mishaps \cup Beside(op) \cup m
                           \cup (IF (e + 1) \div 2 < StreamNo THEN {{"past"}} ELSE {})
                           \cup (CASE e < hist.heard -> {{"late"}}
                                   [] e > hist.heard + 1 -> {{"skipped"}} [] OTHER -> {})
    BY <1>1 DEF Delivered, Typed, HistType
  <1>4. hist.heard \in Nat /\ StreamNo \in Nat
    BY <1>1, StreamsAre DEF Typed, HistType
  <1>5. {"late"} \notin hist'.mishaps => hist.heard <= e
    BY <1>1, <1>3, <1>4
  <1>6. {"skipped"} \notin hist'.mishaps => e <= hist.heard + 1
    BY <1>1, <1>3, <1>4
  <1>7. {"past"} \notin hist'.mishaps => StreamNo <= (e + 1) \div 2
    BY <1>1, <1>3, <1>4
  <1> QED
    BY <1>1, <1>2, <1>3, <1>4, <1>5, <1>6, <1>7 DEF Larger

-----------------------------------------------------------------------------
(* The stream key.                                                         *)

Issued == \A m, n \in DOMAIN hist.keys : hist.keys[m] = hist.keys[n] => m = n
Stale(o) == \/ o.op = "offline"
            \/ o.op \in {"banish", "join"} /\ o.pc = "write" /\ o.row.exists /\ ~o.row.live
PushIs(o) == /\ o.op = "online" => PushAlone(o) /\ (o.pc = "write" /\ ~o.row.live => ~Minted)
             /\ Stale(o) => (Minted => EndHeard)
KeysGood == Issued /\ (Minted => row.live \/ EndHeard) /\ \A o \in Running : PushIs(o)

LEMMA KeysAre == KeysKnow <=> KeysHeld /\ (KeysWatched => KeysGood)
  BY DEF KeysKnow, KeysGood, Issued, PushIs, Stale

LEMMA KeysNext ==
  ASSUME KeysHeld', KeysWatched' => KeysGood'
  PROVE  KeysKnow'
  BY DEF KeysKnow, KeysGood, Issued, PushIs, Stale

LEMMA WatchedBefore ==
  ASSUME hist.mishaps \subseteq hist'.mishaps, KeysWatched'
  PROVE  KeysWatched
  BY DEF KeysWatched, Without

LEMMA Unwatched ==
  ASSUME NEW w \in hist'.mishaps,
         w \in {{"online"}, {"late"}, {"past"}, {"online", "offline"}, {"online", "banish"}, {"online", "join"}}
  PROVE  ~KeysWatched'
  BY DEF KeysWatched, Without, With

\* Work that meets the push of a go-live, or a go-live that meets other work, is noted.
LEMMA PushesMeet ==
  ASSUME NEW kind, Noted(Beside(kind)), KeysWatched', NEW o \in Running, o.op \in Pushes,
         kind \in Pushes, kind = "online" \/ o.op = "online"
  PROVE  FALSE
  <1>1. {kind, o.op} \in hist'.mishaps
    BY NotedBeside DEF Pushes, RowWork
  <1>2. {kind, o.op} \in {{"online"}, {"online", "offline"}, {"online", "banish"}, {"online", "join"}}
    BY DEF Pushes
  <1> QED
    BY <1>1, <1>2, Unwatched

LEMMA MintedSame ==
  ASSUME hist'.keys = hist.keys, hist'.heard = hist.heard, twitch'.events = twitch.events
  PROVE  (Minted' <=> Minted) /\ (EndHeard' <=> EndHeard) /\ (Issued' <=> Issued) /\ StreamNo' = StreamNo
  BY DEF Minted, EndHeard, Issued, StreamNo

LEMMA HeldKeysSame ==
  ASSUME KeysHeld, hist'.keys = hist.keys, hist'.heard = hist.heard, twitch'.events = twitch.events,
         row'.exists \/ row' = row
  PROVE  KeysHeld'
  BY DEF KeysHeld, StreamNo

\* Work on nothing of this.
LEMMA KeysOfBeside ==
  ASSUME KeysKnow, hist'.keys = hist.keys, hist.mishaps \subseteq hist'.mishaps, Calendar, row' = row,
         \A e \in Running' : e.op \in Pushes => e \in Running /\ jobs'[e] = jobs[e]
  PROVE  KeysKnow'
  <1>1. KeysHeld'
    BY KeysAre, HeldKeysSame DEF Calendar
  <1>2. ASSUME KeysWatched' PROVE KeysGood'
    <2>1. KeysGood
      BY <1>2, KeysAre, WatchedBefore
    <2>2. (Minted' <=> Minted) /\ (EndHeard' <=> EndHeard) /\ (Issued' <=> Issued) /\ StreamNo' = StreamNo
      BY MintedSame DEF Calendar
    <2>3. ASSUME NEW e \in Running' PROVE PushIs(e)'
      <3>1. CASE e.op \in Pushes
        <4>1. PushIs(e) /\ e \in Running /\ jobs'[e] = jobs[e]
          BY <2>1, <3>1 DEF KeysGood
        <4> QED
          BY <2>2, <4>1 DEF PushIs, Stale, PushAlone, Calendar
      <3>2. CASE e.op \notin Pushes
        BY <3>2 DEF PushIs, Stale, Pushes
      <3> QED
        BY <3>1, <3>2
    <2> QED
      BY <2>1, <2>2, <2>3 DEF KeysGood, Calendar
  <1> QED
    BY <1>1, <1>2, KeysNext

\* A job goes on, or ends: what it then holds of the row is the row.
LEMMA KeysOfMove ==
  ASSUME KeysKnow, hist'.keys = hist.keys, hist.mishaps \subseteq hist'.mishaps, Calendar, row' = row,
         NEW o \in Running, NEW S, JobsMove(o, S), Typed,
         \A e \in S : e.op \in Pushes => S = {e} /\ e.op = o.op /\ (e.pc = "write" => e.row = row)
  PROVE  KeysKnow'
  <1>1. KeysHeld'
    BY KeysAre, HeldKeysSame DEF Calendar
  <1>2. ASSUME KeysWatched' PROVE KeysGood'
    <2>1. KeysGood
      BY <1>2, KeysAre, WatchedBefore
    <2>2. (Minted' <=> Minted) /\ (EndHeard' <=> EndHeard) /\ (Issued' <=> Issued) /\ StreamNo' = StreamNo
      BY MintedSame DEF Calendar
    <2>3. StreamNo \in Nat /\ hist.heard \in Nat
      BY StreamsAre DEF Typed, HistType
    <2>4. ASSUME NEW e \in Running', e.op = "online" PROVE PushAlone(e)'
      <3>1. CASE e \in S
        <4>1. S = {e} /\ o.op = "online" /\ PushAlone(o)
          BY <2>1, <2>4, <3>1 DEF KeysGood, PushIs, Pushes
        <4>2. \A p \in Running' : p.op \in Pushes => p = e
          BY <4>1 DEF PushAlone, JobsMove
        <4>3. jobs'[e] = 1
          BY <2>4, <4>1 DEF PushAlone, JobsMove, Pushes
        <4> QED
          BY <2>2, <4>1, <4>2, <4>3 DEF PushAlone, Calendar
      <3>2. CASE e \notin S
        <4>1. e \in Running /\ PushAlone(e)
          BY <2>1, <2>4, <3>2 DEF JobsMove, KeysGood, PushIs
        <4>2. e # o
          <5>1. e = o => jobs[o] = 1
            BY <4>1 DEF PushAlone
          <5> QED
            BY <2>4, <3>2, <5>1 DEF JobsMove
        <4>3. o.op \notin Pushes
          BY <4>1, <4>2 DEF PushAlone
        <4>4. \A p \in Running' : p.op \in Pushes => p = e
          BY <4>1, <4>3 DEF PushAlone, JobsMove
        <4>5. jobs'[e] = jobs[e]
          BY <3>2, <4>1, <4>2 DEF JobsMove
        <4> QED
          BY <2>2, <4>1, <4>4, <4>5 DEF PushAlone, Calendar
      <3> QED
        BY <3>1, <3>2
    <2>5. ASSUME NEW e \in Running' PROVE PushIs(e)'
      <3>1. CASE e \in Running
        <4>1. PushIs(e)
          BY <2>1, <3>1 DEF KeysGood
        <4> QED
          BY <2>2, <2>4, <4>1 DEF PushIs, Stale
      <3>2. CASE e \notin Running
        <4>1. e \in S /\ (e.op \in Pushes => e.op = o.op /\ (e.pc = "write" => e.row = row))
          BY <3>2 DEF JobsMove
        <4>2. Minted /\ ~row.live => EndHeard
          BY <2>1 DEF KeysGood
        <4>3. e.op = "online" => hist.heard < 2 * StreamNo
          BY <2>1, <4>1 DEF KeysGood, PushIs, PushAlone, Pushes
        <4>4. e.op = "offline" => (Minted => EndHeard)
          BY <2>1, <4>1 DEF KeysGood, PushIs, Stale, Pushes
        <4>5. e.op = "online" /\ e.pc = "write" /\ ~e.row.live => ~Minted
          BY <2>3, <4>1, <4>2, <4>3 DEF EndHeard, Pushes
        <4> QED
          BY <2>2, <2>4, <4>1, <4>2, <4>4, <4>5 DEF PushIs, Stale, Pushes
      <3> QED
        BY <3>1, <3>2
    <2> QED
      BY <2>1, <2>2, <2>5 DEF KeysGood
  <1> QED
    BY <1>1, <1>2, KeysNext

LEMMA KeysOfTurn ==
  ASSUME BaseInv, KeysKnow, StreamTurns
  PROVE  KeysKnow'
  <1>1. /\ Typed /\ UNCHANGED <<row, jobs>> /\ hist'.keys = hist.keys
        /\ hist.mishaps \subseteq hist'.mishaps
    BY StreamTurnsEffect, ShapesTyped DEF BaseInv, Noted
  <1>2. twitch'.events = twitch.events + 1 /\ hist'.heard = hist.heard
    BY TurnIs
  <1>3. PICK n \in Nat, k \in Nat, h \in Nat : n = StreamNo /\ k = StreamNo' /\ h = hist.heard /\ (k = n \/ k = n + 1)
    BY <1>1, <1>2 DEF StreamNo, Typed, TwitchType, HistType
  <1>4. hist.keys \in Seq(Nat)
    BY <1>1 DEF Typed, HistType
  <1>5. \A m \in DOMAIN hist.keys : hist.keys[m] \in Nat
    BY <1>4
  <1>6. KeysHeld
    BY KeysAre
  <1>7. KeysHeld'
    BY <1>1, <1>2, <1>3, <1>5, <1>6 DEF KeysHeld, Typed, TwitchType, HistType
  <1>8. ASSUME KeysWatched' PROVE KeysGood'
    <2>1. KeysGood
      BY <1>1, <1>8, KeysAre, WatchedBefore
    <2>2. Issued'
      BY <1>1, <2>1 DEF KeysGood, Issued
    <2>3. CASE k = n
      BY <1>1, <1>2, <1>3, <2>1, <2>2, <2>3 DEF KeysGood, PushIs, Stale, PushAlone, Minted, EndHeard, Running
    <2>4. CASE k = n + 1
      <3>1. ~Minted'
        BY <1>1, <1>3, <1>5, <1>6, <2>4 DEF KeysHeld, Minted
      <3>2. ASSUME NEW o \in Running, PushAlone(o) PROVE PushAlone(o)'
        BY <1>1, <1>2, <1>3, <2>4, <3>2 DEF PushAlone, Running
      <3> QED
        BY <1>1, <2>1, <2>2, <3>1, <3>2 DEF KeysGood, PushIs, Stale, Running
    <2> QED
      BY <1>3, <2>3, <2>4
  <1> QED
    BY <1>7, <1>8, KeysNext

\* A push begins, or what leads to one.
LEMMA KeysOfNew ==
  ASSUME BaseInv, KeysKnow, NEW e, JobsAdd({e}), Noted(Beside(e.op)), row' = row, e.op \in {"banish", "join"},
         e.pc # "write", Calendar
  PROVE  KeysKnow'
  <1>1. hist'.keys = hist.keys /\ hist.mishaps \subseteq hist'.mishaps
    BY DEF Noted
  <1>2. KeysHeld'
    BY <1>1, KeysAre, HeldKeysSame DEF Calendar
  <1>3. ASSUME KeysWatched' PROVE KeysGood'
    <2>1. KeysGood
      BY <1>1, <1>3, KeysAre, WatchedBefore
    <2>2. (Minted' <=> Minted) /\ (EndHeard' <=> EndHeard) /\ (Issued' <=> Issued) /\ StreamNo' = StreamNo
      BY <1>1, MintedSame DEF Calendar
    <2>3. \A o \in Running' : o.op # "online" /\ (o \in Running \/ o = e)
      BY <1>3, PushesMeet DEF JobsAdd, Pushes
    <2> QED
      BY <2>1, <2>2, <2>3 DEF KeysGood, PushIs, Stale
  <1> QED
    BY <1>2, <1>3, KeysNext

LEMMA KeysOfGoLive ==
  ASSUME BaseInv, KeysKnow, NEW e \in twitch.sent, GoLive(e)
  PROVE  KeysKnow'
  <1>1. /\ Noted(Beside("online")) /\ UNCHANGED <<twitch, row>> /\ JobsAdd({Go("online", "start")}) /\ Typed
        /\ hist'.keys = hist.keys /\ hist.mishaps \subseteq hist'.mishaps
    BY GoLiveEffect, ShapesTyped DEF Noted, BaseInv
  <1>2. e % 2 = 1 /\ Delivered(e, "online", {})
    BY DEF GoLive
  <1>3. /\ e \in Nat /\ e <= twitch.events /\ hist'.heard = Larger(hist.heard, e)
        /\ {"late"} \notin hist'.mishaps => hist.heard <= e /\ hist'.heard = e
        /\ {"past"} \notin hist'.mishaps => StreamNo <= (e + 1) \div 2
    BY <1>2, DeliveredIs
  <1>4. PICK n \in Nat, h \in Nat, v \in Nat : n = StreamNo /\ h = hist.heard /\ v = twitch.events /\ v <= 2 * n
    BY <1>1, StreamsAre DEF Typed, HistType
  <1>5. StreamNo' = StreamNo /\ (Minted' <=> Minted) /\ (Issued' <=> Issued)
    BY <1>1 DEF StreamNo, Minted, Issued
  <1>6. KeysHeld'
    BY <1>1, <1>3, <1>4, <1>5, KeysAre DEF KeysHeld, Larger
  <1>7. ASSUME KeysWatched' PROVE KeysGood'
    <2>1. KeysGood
      BY <1>1, <1>7, KeysAre, WatchedBefore
    <2>2. hist'.heard = e /\ h <= e /\ n <= (e + 1) \div 2
      BY <1>3, <1>4, <1>7, Unwatched
    <2>3. e < 2 * n /\ h < 2 * n /\ hist'.heard < 2 * StreamNo'
      BY <1>2, <1>3, <1>4, <1>5, <2>2
    <2>4. \A o \in Running : o.op \notin Pushes
      BY <1>1, <1>7, PushesMeet DEF Pushes
    <2>5. PICK q : q = Go("online", "start")
      OBVIOUS
    <2>6. q.op = "online" /\ q.pc = "start" /\ q \notin Running
      BY <2>4, <2>5 DEF Go, Pushes
    <2>7. \A o \in Running' : (o \in Running \/ o = q) /\ (o.op \in Pushes => o = q)
      BY <1>1, <2>4, <2>5 DEF JobsAdd
    <2>8. jobs'[q] = 1
      BY <1>1, <2>5, <2>6 DEF JobsAdd
    <2>9. \A o \in Running' : PushIs(o)'
      BY <2>3, <2>6, <2>7, <2>8 DEF PushIs, Stale, PushAlone, Pushes
    <2>10. Minted => row.live
      BY <1>4, <2>1, <2>3 DEF KeysGood, EndHeard
    <2> QED
      BY <1>1, <1>5, <2>1, <2>9, <2>10 DEF KeysGood
  <1> QED
    BY <1>6, <1>7, KeysNext

LEMMA KeysOfGoOffline ==
  ASSUME BaseInv, KeysKnow, NEW e \in twitch.sent, GoOffline(e)
  PROVE  KeysKnow'
  <1>1. /\ Noted(Beside("offline")) /\ UNCHANGED <<twitch, row>> /\ JobsAdd({Go("offline", "read")}) /\ Typed
        /\ hist'.keys = hist.keys /\ hist.mishaps \subseteq hist'.mishaps
    BY GoOfflineEffect, ShapesTyped DEF Noted, BaseInv
  <1>2. e % 2 = 0 /\ Delivered(e, "offline", IF Streaming THEN {{"late"}} ELSE {})
    BY DEF GoOffline, OfflineThen
  <1>3. /\ e \in Nat /\ 1 <= e /\ e <= twitch.events /\ hist'.heard = Larger(hist.heard, e)
        /\ {"late"} \notin hist'.mishaps => hist.heard <= e /\ hist'.heard = e
        /\ {"past"} \notin hist'.mishaps => StreamNo <= (e + 1) \div 2
    BY <1>2, DeliveredIs
  <1>4. PICK n \in Nat, h \in Nat, v \in Nat : n = StreamNo /\ h = hist.heard /\ v = twitch.events /\ v <= 2 * n
    BY <1>1, StreamsAre DEF Typed, HistType
  <1>5. StreamNo' = StreamNo /\ (Minted' <=> Minted) /\ (Issued' <=> Issued)
    BY <1>1 DEF StreamNo, Minted, Issued
  <1>6. KeysHeld'
    BY <1>1, <1>3, <1>4, <1>5, KeysAre DEF KeysHeld, Larger
  <1>7. ASSUME KeysWatched' PROVE KeysGood'
    <2>1. KeysGood
      BY <1>1, <1>7, KeysAre, WatchedBefore
    <2>2. hist'.heard = e /\ h <= e /\ n <= (e + 1) \div 2
      BY <1>3, <1>4, <1>7, Unwatched
    <2>3. EndHeard'
      BY <1>2, <1>3, <1>4, <1>5, <2>2 DEF EndHeard
    <2>4. \A o \in Running' : o.op # "online"
      BY <1>1, <1>7, PushesMeet DEF Pushes, JobsAdd, Go
    <2> QED
      BY <1>5, <2>1, <2>3, <2>4 DEF KeysGood, PushIs
  <1> QED
    BY <1>6, <1>7, KeysNext

LEMMA KeysOfSignIn ==
  ASSUME BaseInv, KeysKnow, SignIn
  PROVE  KeysKnow'
  <1>1. /\ Typed /\ jobs' = jobs /\ hist.mishaps \subseteq hist'.mishaps /\ ~row.exists /\ Calendar
    BY SignInEffect, ShapesTyped, RequestCalendar DEF BaseInv
  <1>2. hist'.keys = hist.keys /\ row' = [NoRow EXCEPT !.exists = TRUE, !.optIn = TRUE]
    BY <1>1 DEF SignIn, Typed, HistType
  <1>3. row'.exists
    BY <1>2 DEF NoRow
  <1>4. KeysHeld /\ KeysHeld'
    BY <1>1, <1>2, <1>3, KeysAre, HeldKeysSame DEF Calendar
  <1>5. ASSUME KeysWatched' PROVE KeysGood'
    <2>1. KeysGood
      BY <1>1, <1>5, KeysAre, WatchedBefore
    <2>2. (Minted' <=> Minted) /\ (EndHeard' <=> EndHeard) /\ (Issued' <=> Issued) /\ StreamNo' = StreamNo
      BY <1>1, <1>2, MintedSame DEF Calendar
    <2>3. ~Minted
      BY <1>1, <1>4 DEF KeysHeld, Minted
    <2> QED
      BY <1>1, <2>1, <2>2, <2>3 DEF KeysGood, PushIs, Stale, PushAlone, Running, Calendar
  <1> QED
    BY <1>4, <1>5, KeysNext

\* Of the row's work only writes outlive the bot.
LEMMA RestartJobs ==
  ASSUME Restart
  PROVE  /\ \A e \in Running' : jobs'[e] = 1
         /\ \A e \in Running' : e.op \in Pushes => \E o \in Running : o.pc = "write" /\ e = [o EXCEPT !.alive = FALSE]
  <1> DEFINE dead == {[o EXCEPT !.alive = FALSE] : o \in {p \in Running : p.pc = "write"}}
             new == (IF bot'.live THEN {Go("rehydrate", "get")} \cup Loads ELSE {})
                    \cup (IF Tracked' /\ twitch.chatSub THEN {Go("hydrate", "seed")} ELSE {})
  <1>1. jobs' = SetToBag(dead \cup new)
    BY DEF Restart
  <1>2. Running' = dead \cup new /\ \A e \in Running' : jobs'[e] = 1
    BY <1>1 DEF Running, BagToSet, SetToBag
  <1>3. \A e \in new : e.op \in {"rehydrate", "load", "hydrate"}
    BY DEF Go, Loads
  <1> QED
    BY <1>2, <1>3 DEF Pushes

LEMMA KeysOfRestart ==
  ASSUME BaseInv, KeysKnow, Restart
  PROVE  KeysKnow'
  <1>1. /\ Noted(Beside("restart")) /\ UNCHANGED <<twitch, row>> /\ Calendar
        /\ hist'.keys = hist.keys /\ hist.mishaps \subseteq hist'.mishaps
    BY RestartEffect, RequestCalendar DEF Noted
  <1>2. KeysHeld'
    BY <1>1, KeysAre, HeldKeysSame DEF Calendar
  <1>3. ASSUME KeysWatched' PROVE KeysGood'
    <2>1. KeysGood
      BY <1>1, <1>3, KeysAre, WatchedBefore
    <2>2. (Minted' <=> Minted) /\ (EndHeard' <=> EndHeard) /\ (Issued' <=> Issued) /\ StreamNo' = StreamNo
      BY <1>1, MintedSame DEF Calendar
    <2>3. ASSUME NEW e \in Running', e.op \in Pushes
          PROVE  \E o \in Running : o.pc = "write" /\ e = [o EXCEPT !.alive = FALSE] /\ e.op = o.op /\ e.pc = o.pc
                                    /\ e.row = o.row
      <3>1. PICK o \in Running : o.pc = "write" /\ e = [o EXCEPT !.alive = FALSE]
        BY <2>3, RestartJobs
      <3>2. o \in Jobs
        BY DEF BaseInv, JobsKnow, IsJob
      <3> QED
        BY <3>1, <3>2 DEF Jobs
    <2>4. ASSUME NEW e \in Running' PROVE PushIs(e)'
      <3>1. CASE e.op \notin Pushes
        BY <3>1 DEF PushIs, Stale, Pushes
      <3>2. CASE e.op \in Pushes
        <4>1. PICK o \in Running : o.pc = "write" /\ e = [o EXCEPT !.alive = FALSE] /\ e.op = o.op /\ e.pc = o.pc
                                   /\ e.row = o.row
          BY <2>3, <3>2
        <4>2. PushIs(o)
          BY <2>1 DEF KeysGood
        <4>3. ASSUME e.op = "online" PROVE PushAlone(e)'
          <5>1. PushAlone(o)
            BY <4>1, <4>2, <4>3 DEF PushIs
          <5>2. \A f \in Running' : f.op \in Pushes => f = e
            BY <2>3, <4>1, <5>1 DEF PushAlone
          <5> QED
            BY <1>1, <2>2, <5>1, <5>2, RestartJobs DEF PushAlone, Calendar
        <4> QED
          BY <2>2, <4>1, <4>2, <4>3 DEF PushIs, Stale
      <3> QED
        BY <3>1, <3>2
    <2> QED
      BY <1>1, <2>1, <2>2, <2>4 DEF KeysGood
  <1> QED
    BY <1>2, <1>3, KeysNext

\* What a write makes of the row and its key.
LEMMA WrittenKeys ==
  ASSUME BaseInv, NEW o \in Running, WriteRow(o)
  PROVE  /\ CanWrite(o) /\ o.pc = "write" /\ o.op \in Pushes /\ o.row.key <= Len(hist.keys) /\ Len(hist.keys) \in Nat
         /\ o.row.key \in Nat /\ o.row.live \in BOOLEAN /\ o.row.exists \in BOOLEAN
         /\ hist'.keys = IF row'.key = NewKey THEN Append(hist.keys, StreamNo) ELSE hist.keys
         /\ o.op = "online" => /\ row'.live /\ row'.key = (IF o.row.live THEN o.row.key ELSE NewKey)
                               /\ o.row.exists /\ row'.optIn = o.row.optIn
         /\ o.op = "offline" => ~row'.live /\ row'.key = o.row.key /\ o.row.exists /\ row'.optIn = o.row.optIn
         /\ o.op = "banish" \/ (o.op = "join" /\ o.row.exists) => row'.live = o.row.live /\ row'.key = o.row.key
         /\ o.op = "join" /\ ~o.row.exists => ~row.exists /\ row'.key = 0 /\ row'.live = (o.n = 1)
  <1>1. Shapes /\ IsJob(o) /\ o.pc = "write" /\ CanWrite(o) /\ row' = Written(o) /\ Typed
    BY ShapesTyped DEF BaseInv, JobsKnow, WriteRow
  <1>2. o.op \in Pushes /\ o.row \in Rows
    BY <1>1 DEF IsJob, Steps, Jobs, Pushes
  <1>3. PICK r \in Rows : r = o.row /\ r.key <= Len(hist.keys)
    BY <1>1, <1>2 DEF IsJob
  <1>4. NewKey \in Nat /\ Len(hist.keys) \in Nat
    BY <1>1 DEF Shapes, NewKey
  <1>5. hist'.keys = IF row'.key = NewKey THEN Append(hist.keys, StreamNo) ELSE hist.keys
    BY <1>1 DEF WriteRow, Typed, HistType
  <1>6. CASE o.op = "online"
    <2>1. PICK k \in Nat : k = (IF ~r.live THEN NewKey ELSE r.key)
      BY <1>3, <1>4 DEF Rows
    <2>2. row' = [r EXCEPT !.live = TRUE, !.key = k]
      BY <1>1, <1>3, <1>6, <2>1 DEF Written, MintOnTransition, PutLive, Rows
    <2> QED
      BY <1>1, <1>2, <1>3, <1>4, <1>5, <1>6, <2>1, <2>2 DEF Rows, CanWrite
  <1>7. CASE o.op = "offline"
    <2>1. row' = [r EXCEPT !.live = FALSE]
      BY <1>1, <1>3, <1>7 DEF Written
    <2> QED
      BY <1>1, <1>2, <1>3, <1>4, <1>5, <1>7, <2>1 DEF Rows, CanWrite
  <1>8. CASE o.op = "banish"
    <2>1. row' = [r EXCEPT !.optIn = FALSE]
      BY <1>1, <1>3, <1>8 DEF Written
    <2> QED
      BY <1>1, <1>2, <1>3, <1>4, <1>5, <1>8, <2>1 DEF Rows, CanWrite
  <1>9. CASE o.op = "join"
    <2>1. PICK l \in BOOLEAN : l = (o.n = 1)
      OBVIOUS
    <2>2. row' = IF r.exists THEN [r EXCEPT !.optIn = TRUE]
                 ELSE [exists |-> TRUE, live |-> l, key |-> 0, optIn |-> TRUE]
      BY <1>1, <1>3, <1>9, <2>1 DEF Written, OptedIn
    <2>3. CASE r.exists
      BY <1>1, <1>2, <1>3, <1>4, <1>5, <1>9, <2>2, <2>3 DEF Rows
    <2>4. CASE ~r.exists
      BY <1>1, <1>2, <1>3, <1>4, <1>5, <1>9, <2>1, <2>2, <2>4 DEF Rows, CanWrite
    <2> QED
      BY <2>3, <2>4
  <1> QED
    BY <1>2, <1>6, <1>7, <1>8, <1>9 DEF Pushes

LEMMA KeysOfWrite ==
  ASSUME BaseInv, RowStays, KeysKnow, NEW o \in Running, WriteRow(o)
  PROVE  KeysKnow'
  <1>1. /\ twitch' = twitch /\ hist.mishaps \subseteq hist'.mishaps /\ Calendar /\ row'.exists /\ Typed
        /\ \/ o.op = "online" /\ o.alive /\ JobsMove(o, {Moved(o, "join")})
           \/ o.op = "banish" /\ o.alive /\ JobsMove(o, {Moved(o, "filter")})
           \/ o.op = "join" /\ o.alive /\ JobsMove(o, {Moved(o, "append")})
           \/ (o.op = "offline" \/ ~o.alive) /\ JobsMove(o, {})
    BY WriteRowEffect, JobCalendar, ShapesTyped DEF JobStep, RowStep, BaseInv
  <1>2. PICK k \in Nat, n \in Nat : k = Len(hist.keys) /\ n = StreamNo /\ StreamNo' = n /\ NewKey = k + 1
    BY <1>1, StreamsAre DEF Typed, HistType, NewKey, StreamNo
  <1>3. hist.keys \in Seq(Nat) /\ DOMAIN hist.keys = 1..k /\ \A m \in 1..k : hist.keys[m] \in Nat
    BY <1>1, <1>2 DEF Typed, HistType
  <1>4. KeysHeld
    BY KeysAre
  <1>5. PICK mints \in BOOLEAN : mints = (o.op = "online" /\ ~o.row.live)
    OBVIOUS
  <1>6. o.op \in Pushes /\ (o.op = "join" /\ ~o.row.exists => k = 0)
    BY <1>2, <1>3, <1>4, WrittenKeys DEF KeysHeld
  <1>7. row'.key = NewKey => mints \/ k = 0
    BY <1>2, <1>5, WrittenKeys DEF Pushes
  <1>8. CASE mints
    <2>1. row'.key = NewKey /\ row'.live /\ o.op = "online"
      BY <1>5, <1>8, WrittenKeys
    <2>2. hist'.keys = Append(hist.keys, n)
      BY <1>2, <2>1, WrittenKeys
    <2>3. /\ DOMAIN hist'.keys = 1..k + 1 /\ hist'.keys[k + 1] = n
          /\ \A m \in 1..k : hist'.keys[m] = hist.keys[m]
      BY <1>2, <1>3, <2>2
    <2>4. KeysHeld'
      BY <1>1, <1>2, <1>3, <1>4, <2>3 DEF KeysHeld, Calendar
    <2>5. ASSUME KeysWatched' PROVE KeysGood'
      <3>1. KeysGood
        BY <1>1, <2>5, KeysAre, WatchedBefore
      <3>2. PushAlone(o) /\ ~Minted
        BY <1>5, <1>8, <2>1, <3>1, WrittenKeys DEF KeysGood, PushIs
      <3>3. \A m \in 1..k : hist.keys[m] # n
        BY <1>2, <1>3, <3>2 DEF Minted
      <3>4. Issued'
        BY <1>3, <2>3, <3>1, <3>3 DEF KeysGood, Issued
      <3>5. \A e \in Running' : e.op \in Pushes => e = Moved(o, "join")
        BY <1>1, <2>1, <3>2 DEF JobsMove, PushAlone
      <3>6. Moved(o, "join") \in Running' => jobs'[Moved(o, "join")] = 1
        <4>1. Moved(o, "join") # o /\ Moved(o, "join").op = "online"
          BY <2>1, WrittenKeys DEF Moved
        <4>2. Moved(o, "join") \notin Running
          BY <3>2, <4>1 DEF PushAlone, Pushes
        <4> QED
          BY <1>1, <2>1, <4>2 DEF JobsMove
      <3>7. \A e \in Running' : PushIs(e)'
        <4>1. Moved(o, "join").pc = "join"
          BY DEF Moved
        <4> QED
          BY <1>1, <1>2, <3>2, <3>5, <3>6, <4>1, <2>1 DEF PushIs, Stale, PushAlone, Pushes, Calendar, Moved
      <3> QED
        BY <2>1, <3>4, <3>7 DEF KeysGood
    <2> QED
      BY <2>4, <2>5, KeysNext
  <1>9. CASE ~mints /\ row'.key # NewKey
    <2>1. hist'.keys = hist.keys
      BY <1>9, WrittenKeys
    <2>2. KeysHeld'
      BY <1>1, <1>4, <2>1, HeldKeysSame DEF Calendar
    <2>3. ASSUME KeysWatched' PROVE KeysGood'
      <3>1. KeysGood
        BY <1>1, <2>3, KeysAre, WatchedBefore
      <3>2. (Minted' <=> Minted) /\ (EndHeard' <=> EndHeard) /\ (Issued' <=> Issued) /\ StreamNo' = StreamNo
        BY <1>1, <2>1, MintedSame DEF Calendar
      <3>3. Minted => row'.live \/ EndHeard
        <4>1. o.op = "online" => row'.live
          BY WrittenKeys
        <4>2. Stale(o) => (Minted => EndHeard)
          BY <3>1 DEF KeysGood, PushIs
        <4>3. o.op = "join" /\ ~o.row.exists => ~Minted
          BY <1>3, <1>6 DEF Minted
        <4>4. o.op \in {"banish", "join"} /\ o.row.exists => row'.live \/ Stale(o)
          BY WrittenKeys DEF Stale
        <4>5. o.op = "banish" => o.row.exists
          BY WrittenKeys DEF CanWrite
        <4>6. o.op = "offline" => Stale(o)
          BY DEF Stale
        <4> QED
          BY <1>6, <4>1, <4>2, <4>3, <4>4, <4>5, <4>6 DEF Pushes
      <3>4. PICK S : JobsMove(o, S) /\ \A e \in S : e.op = o.op /\ e.pc \in {"join", "filter", "append"} /\ S = {e}
        <4>1. \A pc : Moved(o, pc).op = o.op /\ Moved(o, pc).pc = pc
          BY DEF Moved
        <4> QED
          BY <1>1, <4>1
      <3>5. ASSUME NEW e \in Running' PROVE PushIs(e)'
        <4>1. CASE e \in S
          <5>1. e.op = o.op /\ e.pc \in {"join", "filter", "append"} /\ S = {e}
            BY <3>4, <4>1
          <5>2. ASSUME e.op = "online" PROVE PushAlone(e)'
            <6>1. PushAlone(o)
              BY <3>1, <5>1, <5>2 DEF KeysGood, PushIs
            <6>2. \A p \in Running' : p.op \in Pushes => p = e
              BY <3>4, <5>1, <6>1 DEF PushAlone, JobsMove
            <6>3. e # o
              BY <5>1, WrittenKeys
            <6>4. e \notin Running
              BY <5>2, <6>1, <6>3 DEF PushAlone, Pushes
            <6>5. jobs'[e] = 1
              BY <3>4, <4>1, <6>4 DEF JobsMove
            <6> QED
              BY <1>1, <3>2, <6>1, <6>2, <6>5 DEF PushAlone, Calendar
          <5>3. e.op = "offline" => (Minted => EndHeard)
            BY <3>1, <5>1 DEF KeysGood, PushIs, Stale
          <5> QED
            BY <3>2, <5>1, <5>2, <5>3 DEF PushIs, Stale
        <4>2. CASE e \notin S
          <5>1. e \in Running /\ PushIs(e)
            BY <3>1, <3>4, <4>2 DEF JobsMove, KeysGood
          <5>2. ASSUME e.op = "online" PROVE PushAlone(e)'
            <6>1. PushAlone(e)
              BY <5>1, <5>2 DEF PushIs
            <6>2. e = o
              BY <1>6, <6>1 DEF PushAlone
            <6> QED
              BY <3>4, <4>2, <6>1, <6>2 DEF PushAlone, JobsMove
          <5> QED
            BY <3>2, <5>1, <5>2 DEF PushIs, Stale
        <4> QED
          BY <4>1, <4>2
      <3> QED
        BY <3>1, <3>2, <3>3, <3>5 DEF KeysGood
    <2> QED
      BY <2>2, <2>3, KeysNext
  <1>10. ~mints => row'.key # NewKey
    BY <1>2, <1>5, <1>6, WrittenKeys DEF Pushes, CanWrite
  <1> QED
    BY <1>8, <1>9, <1>10

LEMMA GivesMoves ==
  ASSUME NEW o \in Running, Gives(o)
  PROVE  \E S : JobsMove(o, S) /\ \A e \in S : S = {e} /\ e.op = o.op /\ e.pc \in {"join", "filter"}
  <1>1. \A pc : Moved(o, pc).op = o.op /\ Moved(o, pc).pc = pc
    BY DEF Moved
  <1>2. \/ JobsMove(o, {Moved(o, "join")}) \/ JobsMove(o, {Moved(o, "filter")}) \/ JobsMove(o, {})
    BY DEF Gives
  <1>3. ASSUME NEW pc \in {"join", "filter"}, JobsMove(o, {Moved(o, pc)})
        PROVE  \E S : JobsMove(o, S) /\ \A e \in S : S = {e} /\ e.op = o.op /\ e.pc \in {"join", "filter"}
    <2>1. \A e \in {Moved(o, pc)} : {Moved(o, pc)} = {e} /\ e.op = o.op /\ e.pc \in {"join", "filter"}
      BY <1>1, <1>3
    <2> QED
      BY <1>3, <2>1
  <1> QED
    BY <1>2, <1>3

LEMMA KeysOfJob ==
  ASSUME BaseInv, RowStays, KeysKnow, NEW o \in Running, JobStep(o)
  PROVE  KeysKnow'
  <1>1. Typed /\ Calendar
    BY ShapesTyped, JobCalendar DEF BaseInv
  <1>2. ASSUME row' = row, Noted({}),
               \E S : JobsMove(o, S) /\ \A e \in S : e.op \in Pushes => S = {e} /\ e.op = o.op /\ (e.pc = "write" => e.row = row)
        PROVE  KeysKnow'
    BY <1>1, <1>2, KeysOfMove DEF Noted
  <1>3. \A pc : Moved(o, pc).op = o.op /\ Moved(o, pc).pc = pc
    BY DEF Moved
  <1>4. ASSUME NEW pc, pc # "write", row' = row, Noted({}), JobsMove(o, {Moved(o, pc)}) PROVE KeysKnow'
    BY <1>2, <1>3, <1>4
  <1>5. ASSUME row' = row, Noted({}), JobsMove(o, {}) PROVE KeysKnow'
    BY <1>2, <1>5
  <1>6. \A m : Noted(m) => Noted({})
    BY DEF Noted
  <1>7. CASE RowStep(o)
    <2>1. CASE ReadRow(o)
      <3>1. JobsMove(o, {Seen(o)}) /\ Noted({}) /\ row' = row
        BY <2>1, ReadRowEffect DEF OnlyJob
      <3>2. Seen(o).op = o.op /\ Seen(o).row = row
        BY DEF Seen
      <3> QED
        BY <1>2, <3>1, <3>2
    <2>2. CASE WriteRow(o)
      BY <2>2, KeysOfWrite
    <2>3. CASE WriteRefused(o) \/ CallFails(o)
      <3>1. row' = row /\ Noted({}) /\ Gives(o)
        BY <1>6, <2>3, WriteRefusedEffect, CallFailsEffect
      <3> QED
        BY <1>2, <3>1, GivesMoves
    <2> QED
      BY <1>7, <2>1, <2>2, <2>3 DEF RowStep
  <1>8. CASE GoLiveStep(o)
    <2>1. row' = row /\ Noted({})
      BY <1>8, OnlineStep
    <2>2. CASE GoLiveFresh(o)
      <3>1. JobsMove(o, Loads) /\ \A e \in Loads : e.op \notin Pushes
        BY <2>2, GoLiveFreshEffect DEF Pushes
      <3> QED
        BY <1>2, <2>1, <3>1
    <2>3. CASE GoLiveGuard(o) \/ AskOptIn(o) \/ AskFails(o) \/ GoLiveJoins(o)
      <3>1. \/ JobsMove(o, {Moved(o, "read")}) \/ JobsMove(o, {Moved(o, "ask")})
            \/ JobsMove(o, {Moved(o, "fresh")}) \/ JobsMove(o, {})
        BY <2>3, GoLiveGuardEffect, AskOptInEffect, AskFailsEffect, GoLiveJoinsEffect
      <3> QED
        BY <1>4, <1>5, <2>1, <3>1
    <2> QED
      BY <1>8, <2>2, <2>3 DEF GoLiveStep
  <1>9. CASE MemberStep(o)
    <2>1. CASE JoinLooksUp(o)
      <3>1. row' = row /\ Noted({}) /\ o.op = "join" /\ \E q : q.op = "join" /\ q.pc = "read" /\ JobsMove(o, {q})
        BY <2>1, JoinLooksUpEffect
      <3> QED
        BY <1>2, <3>1
    <2>2. CASE ProfileFails(o)
      <3>1. row' = row /\ Noted({}) /\ Gives(o)
        BY <1>6, <2>2, ProfileFailsEffect
      <3> QED
        BY <1>2, <3>1, GivesMoves
    <2>3. CASE JoinAppends(o) \/ BanishFilters(o)
      BY <1>5, <2>3, JoinAppendsEffect, BanishFiltersEffect
    <2>4. CASE BanishUnsubscribes(o)
      BY <1>4, <2>4, BanishUnsubscribesEffect
    <2> QED
      BY <1>9, <2>1, <2>2, <2>3, <2>4 DEF MemberStep
  <1>10. CASE Load(o) \/ DadStep(o) \/ BestEffortFails(o)
    <2>1. Load(o) \/ PersistRoll(o) \/ RehydrateReads(o) \/ RehydrateMerges(o) \/ BestEffortFails(o)
      BY <1>10 DEF DadStep
    <2>2. PICK S : JobsMove(o, S) /\ \A e \in S : e.op = "rehydrate"
      BY <2>1, SideStep
    <2>3. \A e \in S : e.op \notin Pushes
      BY <2>2 DEF Pushes
    <2> QED
      BY <1>2, <2>1, <2>2, <2>3, SideStep
  <1>11. CASE PrivStep(o)
    <2>1. row' = row /\ Noted({}) /\ (JobsMove(o, {Moved(o, "grant")}) \/ JobsMove(o, {}))
      BY <1>11, GrantAsksEffect, GrantSetsEffect, HydrateSeedsEffect DEF PrivStep
    <2> QED
      BY <1>4, <1>5, <2>1
  <1> QED
    BY <1>7, <1>8, <1>9, <1>10, <1>11 DEF JobStep

LEMMA KeysStep ==
  ASSUME BaseInv, RowStays, KeysKnow, [Next]_vars
  PROVE  KeysKnow'
  <1>1. \A op, pc : Go(op, pc).op = op /\ Go(op, pc).pc = pc
    BY DEF Go
  <1>2. ASSUME jobs' = jobs \/ \E q : JobsAdd({q}) /\ q.op \notin Pushes, row' = row, Calendar,
               hist'.keys = hist.keys, hist.mishaps \subseteq hist'.mishaps
        PROVE  KeysKnow'
    <2>1. \A e \in Running' : e.op \in Pushes => e \in Running /\ jobs'[e] = jobs[e]
      BY <1>2 DEF JobsAdd, Running
    <2> QED
      BY <1>2, <2>1, KeysOfBeside
  <1>3. CASE StreamTurns
    BY <1>3, KeysOfTurn
  <1>4. ASSUME NEW e \in twitch.sent, GoLive(e) \/ GoOffline(e) PROVE KeysKnow'
    BY <1>4, KeysOfGoLive, KeysOfGoOffline
  <1>5. CASE Mod \/ Revocation
    <2>1. Calendar
      BY <1>5, RequestCalendar
    <2>2. jobs' = jobs /\ row' = row /\ hist'.keys = hist.keys /\ hist.mishaps \subseteq hist'.mishaps
      BY <1>5, ModEffect, RevocationEffect DEF Noted
    <2> QED
      BY <1>2, <2>1, <2>2
  <1>6. CASE JoinMe
    <2>1. PICK q : q = Go("join", "profile") /\ q.op = "join" /\ q.pc = "profile" /\ JobsAdd({q})
      BY <1>1, <1>6, JoinMeEffect
    <2> QED
      BY <1>6, <2>1, JoinMeEffect, RequestCalendar, KeysOfNew
  <1>7. CASE Banish
    <2>1. PICK q : q = Go("banish", "unsubscribe") /\ q.op = "banish" /\ q.pc = "unsubscribe" /\ JobsAdd({q})
      BY <1>1, <1>7, BanishEffect
    <2> QED
      BY <1>7, <2>1, BanishEffect, RequestCalendar, KeysOfNew
  <1>8. CASE SignIn
    BY <1>8, KeysOfSignIn
  <1>9. CASE Restart
    BY <1>9, KeysOfRestart
  <1>10. CASE Roll \/ GrantStarts
    <2>1. \E q : JobsAdd({q}) /\ q.op \notin Pushes
      <3>1. \E q : JobsAdd({q}) /\ q.op \in {"persist", "grant"}
        BY <1>1, <1>10, RollEffect, GrantStartsEffect
      <3> QED
        BY <3>1 DEF Pushes
    <2>2. Calendar /\ row' = row /\ hist'.keys = hist.keys /\ hist.mishaps \subseteq hist'.mishaps
      BY <1>10, RequestCalendar, RollEffect, GrantStartsEffect DEF Noted
    <2> QED
      BY <1>2, <2>1, <2>2
  <1>11. CASE UNCHANGED vars
    BY <1>2, <1>11 DEF vars, Calendar
  <1>12. ASSUME NEW o \in Running, JobStep(o) PROVE KeysKnow'
    BY <1>12, KeysOfJob
  <1> QED
    BY <1>3, <1>4, <1>5, <1>6, <1>7, <1>8, <1>9, <1>10, <1>11, <1>12 DEF Next

-----------------------------------------------------------------------------
(* A chatter's rolls: what counts, stores and resets them.                 *)

Ledger == /\ usage' = usage /\ bot'.rolls = bot.rolls
          /\ hist'.served = hist.served /\ hist'.refused = hist.refused /\ hist'.reset = hist.reset

LEMMA LedgerIs ==
  ASSUME Typed, usage' = usage,
         \/ bot' = bot
         \/ \E v \in BOOLEAN : bot' = [bot EXCEPT !.live = v]
         \/ \E v \in BOOLEAN : bot' = [bot EXCEPT !.joined = v]
         \/ \E v \in BOOLEAN : bot' = [bot EXCEPT !.joining = v]
         \/ \E v \in BOOLEAN : bot' = [bot EXCEPT !.granting = v]
         \/ \E v : bot' = [bot EXCEPT !.channels = v]
         \/ \E v : bot' = [bot EXCEPT !.loaded = v]
         \/ \E v, w : bot' = [bot EXCEPT !.channels = v, !.joining = w]
         \/ \E v, w : bot' = [bot EXCEPT !.granting = w, !.channels = v]
         \/ \E v, w : bot' = [bot EXCEPT !.joining = v, !.joined = w],
         \/ hist' = hist
         \/ \E m : Mishap(m)
         \/ \E v, m : hist' = [hist EXCEPT !.member = v, !.mishaps = m]
         \/ \E k, v, m : hist' = [hist EXCEPT !.keys = k, !.member = v, !.mishaps = m]
         \/ \E v, m : hist' = [hist EXCEPT !.heard = v, !.mishaps = m]
  PROVE  Ledger
  <1>1. bot'.rolls = bot.rolls
    BY DEF Typed, BotType
  <1>2. hist'.served = hist.served /\ hist'.refused = hist.refused /\ hist'.reset = hist.reset
    BY DEF Typed, HistType, Mishap
  <1> QED
    BY <1>1, <1>2 DEF Ledger

LEMMA RowLedger ==
  ASSUME BaseInv, NEW o \in Running, RowStep(o) \/ ProfileFails(o)
  PROVE  Ledger
  <1>1. Typed
    BY ShapesTyped DEF BaseInv
  <1>2. GivesUp(o) => bot' = bot \/ \E v \in BOOLEAN : bot' = [bot EXCEPT !.joining = v]
    BY DEF GivesUp, GivesUpWith
  <1>3. CASE ReadRow(o)
    BY <1>1, <1>3, LedgerIs DEF ReadRow
  <1>4. CASE WriteRow(o)
    <2>1. \E k, v, m : hist' = [hist EXCEPT !.keys = k, !.member = v, !.mishaps = m]
      BY <1>4 DEF WriteRow
    <2> QED
      BY <1>1, <1>4, <2>1, LedgerIs DEF WriteRow
  <1>5. CASE WriteRefused(o) \/ CallFails(o) \/ ProfileFails(o)
    <2>1. GivesUp(o) /\ usage' = usage /\ \E m : Mishap(m)
      BY <1>5 DEF WriteRefused, CallFails, ProfileFails, Fails
    <2> QED
      BY <1>1, <1>2, <2>1, LedgerIs
  <1> QED
    BY <1>3, <1>4, <1>5 DEF RowStep

LEMMA JobLedger ==
  ASSUME BaseInv, NEW o \in Running, JobStep(o), ~DadStep(o), ~GoLiveFresh(o)
  PROVE  Ledger
  <1>1. Typed
    BY ShapesTyped DEF BaseInv
  <1>2. CASE RowStep(o)
    BY <1>2, RowLedger
  <1>3. CASE GoLiveStep(o)
    <2>1. CASE AskFails(o)
      BY <1>1, <2>1, LedgerIs DEF AskFails, AskAnswers, Fails
    <2>2. CASE GoLiveGuard(o) \/ AskOptIn(o) \/ GoLiveJoins(o)
      BY <1>1, <2>2, LedgerIs DEF GoLiveGuard, AskOptIn, AskAnswers, GoLiveJoins
    <2> QED
      BY <1>3, <2>1, <2>2 DEF GoLiveStep
  <1>4. CASE MemberStep(o)
    <2>1. CASE ProfileFails(o)
      BY <2>1, RowLedger
    <2>2. CASE JoinAppends(o)
      BY <1>1, <2>2, LedgerIs DEF JoinAppends
    <2>3. CASE BanishUnsubscribes(o) \/ JoinLooksUp(o) \/ BanishFilters(o)
      BY <1>1, <2>3, LedgerIs DEF BanishUnsubscribes, JoinLooksUp, BanishFilters
    <2> QED
      BY <1>4, <2>1, <2>2, <2>3 DEF MemberStep
  <1>5. CASE Load(o) \/ BestEffortFails(o)
    BY <1>1, <1>5, LedgerIs DEF Load, BestEffortFails, Fails
  <1>6. CASE PrivStep(o)
    BY <1>1, <1>6, LedgerIs DEF PrivStep, GrantAsks, GrantSubscribes, GrantSets, HydrateSeeds
  <1> QED
    BY <1>2, <1>3, <1>4, <1>5, <1>6 DEF JobStep

LEMMA RequestLedger ==
  ASSUME BaseInv, \/ Mod \/ JoinMe \/ Banish \/ SignIn \/ Revocation \/ GrantStarts
                  \/ \E e \in twitch.sent : GoLive(e)
  PROVE  Ledger
  <1>1. Typed
    BY ShapesTyped DEF BaseInv
  <1>2. CASE Mod \/ Revocation \/ GrantStarts
    BY <1>1, <1>2, LedgerIs DEF Mod, Revocation, GrantStarts
  <1>3. CASE JoinMe
    BY <1>1, <1>3, LedgerIs DEF JoinMe, JoinWhen
  <1>4. CASE Banish
    <2>1. \E m : Mishap(m)
      BY <1>4 DEF Banish, Mishap
    <2> QED
      BY <1>1, <1>4, <2>1, LedgerIs DEF Banish
  <1>5. CASE SignIn
    <2>1. \E v, m : hist' = [hist EXCEPT !.member = v, !.mishaps = m]
      BY <1>5 DEF SignIn
    <2> QED
      BY <1>1, <1>5, <2>1, LedgerIs DEF SignIn
  <1>6. ASSUME NEW e \in twitch.sent, GoLive(e) PROVE Ledger
    <2>1. \E v, m : hist' = [hist EXCEPT !.heard = v, !.mishaps = m]
      BY <1>6 DEF GoLive, Delivered
    <2> QED
      BY <1>1, <1>6, <2>1, LedgerIs DEF GoLive
  <1> QED
    BY <1>2, <1>3, <1>4, <1>5, <1>6

\* How many jobs of one kind there are.
LEMMA AddsCount ==
  ASSUME jobs \in [Running -> Nat \ {0}], NEW q, Starting({q})
  PROVE  /\ Running' = Running \cup {q} /\ jobs'[q] = IF q \in Running THEN jobs[q] + 1 ELSE 1
         /\ \A e \in Running : e # q => jobs'[e] = jobs[e]
  BY DEF Running, Starting, BagToSet, SetToBag, (+)

LEMMA EndsCount ==
  ASSUME jobs \in [Running -> Nat \ {0}], NEW o \in Running, End(o)
  PROVE  /\ Running' = IF jobs[o] = 1 THEN Running \ {o} ELSE Running
         /\ jobs[o] # 1 => jobs'[o] = jobs[o] - 1
         /\ \A e \in Running : e # o => jobs'[e] = jobs[e]
  BY DEF Running, End, One, BagToSet, SetToBag, (-)

LEMMA PersistingIs ==
  ASSUME NEW n
  PROVE  Persisting(n).op = "persist" /\ Persisting(n).n = n /\ Persisting(n).pc = "persist"
  BY DEF Persisting, Go

LEMMA PendingSame ==
  ASSUME StreamNo' = StreamNo,
         \A e : e.op = "persist" => (e \in Running' <=> e \in Running) /\ (e \in Running => jobs'[e] = jobs[e])
  PROVE  Pending' = Pending
  BY PersistingIs DEF Pending, Persisting, Go

LEMMA RolledIs ==
  ASSUME Typed, Ranges, JobsKnow
  PROVE  Rolled \in Nat /\ Pending \in Nat /\ Stored \in Nat /\ hist.served \in Nat /\ hist.refused \in Nat
         /\ hist.reset \in Nat /\ hist.heard \in Nat /\ bot.rolls \in Nat /\ usage.key \in Nat /\ usage.count \in Nat
  BY DEF Typed, HistType, BotType, Ranges, Rolled, Pending, Stored, JobsKnow

LEMMA LedgerSame ==
  ASSUME Ledger, twitch'.events = twitch.events, hist'.keys = hist.keys
  PROVE  /\ StreamNo' = StreamNo /\ (Streaming' <=> Streaming) /\ Rolled' = Rolled /\ Stored' = Stored
         /\ KeyStream(usage.key)' = KeyStream(usage.key) /\ (Tally' <=> Tally)
  BY DEF Ledger, StreamNo, Streaming, Rolled, Stored, KeyStream, Tally

-----------------------------------------------------------------------------
(* The allotment.                                                          *)

DadGood == Tally /\ (\A o \in Running : DadJob(o)) /\ (Streaming => Accounts)

LEMMA DadAre == DadKnow <=> RollsHeld /\ (DadWatched => DadGood)
  BY DEF DadKnow, DadGood

LEMMA DadNext ==
  ASSUME RollsHeld', DadWatched' => DadGood'
  PROVE  DadKnow'
  BY DEF DadKnow, DadGood

LEMMA DadBefore ==
  ASSUME hist.mishaps \subseteq hist'.mishaps, DadWatched'
  PROVE  DadWatched
  BY DEF DadWatched, Without

LEMMA Unaccounted ==
  ASSUME NEW w \in hist'.mishaps,
         \/ w \in {{"again"}, {"late"}, {"stamp"}, {"early roll"}, {"unreset"}, {"unseeded"}, {"persist"}, {"rehydrate"}}
         \/ w \in {{"restart", "persist"}, {"restart", "online"}, {"online", "offline"}, {"online", "banish"},
                   {"online", "join"}, {"online", "rehydrate"}}
  PROVE  ~DadWatched'
  BY DEF DadWatched, Without, With

\* A go-live and another writer or a rehydration, and a restart and a go-live or a persist.
LEMMA DadMeets ==
  ASSUME NEW kind, Noted(Beside(kind)), DadWatched', NEW o \in Running,
         \/ kind = "online" /\ o.op \in {"offline", "banish", "join", "rehydrate"}
         \/ kind \in {"offline", "banish", "join", "restart"} /\ o.op = "online"
         \/ kind = "restart" /\ o.op = "persist"
  PROVE  FALSE
  <1>1. {kind, o.op} \in {{"restart", "persist"}, {"restart", "online"}, {"online", "offline"}, {"online", "banish"},
                          {"online", "join"}, {"online", "rehydrate"}}
    OBVIOUS
  <1>2. {kind, o.op} \subseteq RowWork \/ {kind, o.op} \in Disturbs
    BY DEF RowWork, Disturbs
  <1>3. {kind, o.op} \in hist'.mishaps
    BY <1>2, NotedBeside
  <1> QED
    BY <1>1, <1>3, Unaccounted

LEMMA RollsHeldSame ==
  ASSUME RollsHeld, hist'.reset = hist.reset, hist.reset \in Nat,
         hist.heard \in Nat, hist'.heard \in Nat, hist.heard <= hist'.heard,
         StreamNo \in Nat, StreamNo' \in Nat, StreamNo <= StreamNo',
         \A e \in Running' : e.op = "persist" => e \in Running /\ e.n \in Nat
  PROVE  RollsHeld'
  <1>1. hist'.reset <= (hist'.heard + 1) \div 2
    BY DEF RollsHeld
  <1>2. \A e \in Running' : e.op = "persist" => e = Persisting(e.n) /\ e.n <= StreamNo'
    BY DEF RollsHeld
  <1> QED
    BY <1>1, <1>2 DEF RollsHeld, Persisting, Go

\* Nothing of the accounts, and of the jobs they depend on, changes.
LEMMA DadOfBeside ==
  ASSUME BaseInv, DadKnow, Ledger, Calendar, hist'.keys = hist.keys, hist.mishaps \subseteq hist'.mishaps,
         row'.key = row.key,
         \A e \in Running' : e \in Running \/ e.op \in {"load", "grant", "hydrate"},
         \A e \in Running : e.op \in {"online", "persist", "rehydrate"} => e \in Running' /\ jobs'[e] = jobs[e]
  PROVE  DadKnow'
  <1>1. Typed /\ Ranges /\ JobsKnow /\ hist.heard \in Nat /\ hist.reset \in Nat /\ StreamNo \in Nat
    BY ShapesTyped, StreamsAre DEF BaseInv, Typed, HistType
  <1>2. /\ StreamNo' = StreamNo /\ (Streaming' <=> Streaming) /\ Rolled' = Rolled /\ Stored' = Stored
        /\ KeyStream(usage.key)' = KeyStream(usage.key) /\ (Tally' <=> Tally)
    BY LedgerSame DEF Calendar
  <1>3. RollsHeld'
    <2>1. \A e \in Running' : e.op = "persist" => e \in Running /\ e.n \in Nat
      BY <1>1 DEF JobsKnow, IsJob, Jobs
    <2> QED
      BY <1>1, <1>2, <2>1, DadAre, RollsHeldSame DEF Ledger, Calendar
  <1>4. ASSUME DadWatched' PROVE DadGood'
    <2>1. DadGood
      BY <1>4, DadAre, DadBefore
    <2>2. ASSUME NEW e \in Running' PROVE DadJob(e)'
      <3>1. CASE e \in Running
        <4>1. DadJob(e)
          BY <2>1, <3>1 DEF DadGood
        <4>2. e.op = "rehydrate" => jobs'[e] = jobs[e]
          BY <3>1
        <4> QED
          BY <1>2, <4>1, <4>2 DEF DadJob, Ledger
      <3>2. CASE e \notin Running
        BY <3>2 DEF DadJob
      <3> QED
        BY <3>1, <3>2
    <2>3. ASSUME Streaming' PROVE Accounts'
      <3>1. Accounts
        BY <1>2, <2>1, <2>3 DEF DadGood
      <3>2. Pending' = Pending
        BY <1>2, PendingSame
      <3>3. (Rejoining' <=> Rejoining) /\ (Rehydrating' <=> Rehydrating)
        BY DEF Rejoining, Rehydrating
      <3> QED
        BY <1>2, <3>1, <3>2, <3>3 DEF Accounts, Ledger
    <2> QED
      BY <1>2, <2>1, <2>2, <2>3 DEF DadGood
  <1> QED
    BY <1>3, <1>4, DadNext

\* A job of other work goes on or ends.
LEMMA DadOfMove ==
  ASSUME BaseInv, DadKnow, Ledger, Calendar, hist'.keys = hist.keys, hist.mishaps \subseteq hist'.mishaps,
         row'.key = row.key, NEW o \in Running, NEW S, JobsMove(o, S), o.op \notin {"persist", "rehydrate"},
         \A e \in S : e.op \in {o.op, "load"} /\ (e.alive <=> o.alive) /\ (e.op # "load" /\ e.pc = "write" => e.row = row),
         o.op = "online" /\ o.pc \in {"join", "fresh"} => \E e \in S : e.op = "online" /\ e.pc \in {"join", "fresh"}
  PROVE  DadKnow'
  <1>1. Typed /\ Ranges /\ JobsKnow /\ hist.heard \in Nat /\ hist.reset \in Nat /\ StreamNo \in Nat
    BY ShapesTyped, StreamsAre DEF BaseInv, Typed, HistType
  <1>2. /\ StreamNo' = StreamNo /\ (Streaming' <=> Streaming) /\ Rolled' = Rolled /\ Stored' = Stored
        /\ KeyStream(usage.key)' = KeyStream(usage.key) /\ (Tally' <=> Tally)
    BY LedgerSame DEF Calendar
  <1>3. \A e \in Running' : e \in Running \/ e \in S
    BY DEF JobsMove
  <1>4. /\ \A e \in Running' : e.op \in {"persist", "rehydrate"} => e \in Running
        /\ \A e \in Running : e.op \in {"persist", "rehydrate"} => e \in Running' /\ jobs'[e] = jobs[e]
    BY DEF JobsMove
  <1>5. RollsHeld'
    <2>1. \A e \in Running' : e.op = "persist" => e \in Running /\ e.n \in Nat
      BY <1>1, <1>4 DEF JobsKnow, IsJob, Jobs
    <2> QED
      BY <1>1, <1>2, <2>1, DadAre, RollsHeldSame DEF Ledger, Calendar
  <1>6. ASSUME DadWatched' PROVE DadGood'
    <2>1. DadGood
      BY <1>6, DadAre, DadBefore
    <2>2. ASSUME NEW e \in Running' PROVE DadJob(e)'
      <3>1. ASSUME e.op = "online" PROVE e.alive /\ \A p \in Running' : p.op \notin {"offline", "banish", "join", "rehydrate"}
        <4>1. PICK f \in Running : f.op = "online" /\ (e.alive <=> f.alive)
          BY <1>3, <3>1
        <4>2. DadJob(f)
          BY <2>1 DEF DadGood
        <4>3. \A p \in Running' : p.op = "load" \/ \E q \in Running : p.op = q.op
          BY <1>3
        <4> QED
          BY <4>1, <4>2, <4>3 DEF DadJob
      <3>2. e.op \in {"offline", "banish", "join"} /\ e.pc = "write" /\ e.row.exists => e.row.key = row'.key
        <4>1. CASE e \in S
          BY <4>1
        <4>2. CASE e \in Running
          <5>1. DadJob(e)
            BY <2>1, <4>2 DEF DadGood
          <5> QED
            BY <5>1 DEF DadJob
        <4> QED
          BY <1>3, <4>1, <4>2
      <3>3. ASSUME e.op = "rehydrate"
            PROVE  /\ jobs'[e] = 1 /\ bot'.rolls = 0
                   /\ \A p \in Running' : p.op # "persist" /\ (p.op = "rehydrate" => p = e)
                   /\ e.pc = "merge" /\ Streaming' /\ hist'.reset = StreamNo' => e.n = Rolled'
        <4>1. e \in Running /\ jobs'[e] = jobs[e]
          BY <1>4, <3>3
        <4>2. DadJob(e)
          BY <2>1, <4>1 DEF DadGood
        <4> QED
          BY <1>2, <1>4, <3>3, <4>1, <4>2 DEF DadJob, Ledger
      <3> QED
        BY <3>1, <3>2, <3>3 DEF DadJob
    <2>3. ASSUME Streaming' PROVE Accounts'
      <3>1. Accounts
        BY <1>2, <2>1, <2>3 DEF DadGood
      <3>2. Pending' = Pending
        <4>1. \A e : e.op = "persist" => (e \in Running' <=> e \in Running) /\ (e \in Running => jobs'[e] = jobs[e])
          BY <1>4
        <4> QED
          BY <1>2, <4>1, PendingSame
      <3>3. (Rejoining => Rejoining') /\ (Rehydrating' <=> Rehydrating)
        BY <1>4 DEF Rejoining, Rehydrating, JobsMove
      <3> QED
        BY <1>2, <3>1, <3>2, <3>3 DEF Accounts, Ledger
    <2> QED
      BY <1>2, <2>1, <2>2, <2>3 DEF DadGood
  <1> QED
    BY <1>5, <1>6, DadNext

\* A job is stopped by what is excepted.
LEMMA DadOfMishap ==
  ASSUME BaseInv, DadKnow, Ledger, Calendar, NEW o \in Running, NEW S, JobsMove(o, S), \A e \in S : e.op # "persist",
         ~DadWatched'
  PROVE  DadKnow'
  <1>1. Typed /\ JobsKnow /\ hist.heard \in Nat /\ hist.reset \in Nat /\ StreamNo \in Nat
    BY ShapesTyped, StreamsAre DEF BaseInv, Typed, HistType
  <1>2. StreamNo' = StreamNo
    BY DEF Calendar, StreamNo
  <1>3. \A e \in Running' : e.op = "persist" => e \in Running /\ e.n \in Nat
    BY <1>1 DEF JobsKnow, IsJob, Jobs, JobsMove
  <1>4. RollsHeld'
    BY <1>1, <1>2, <1>3, DadAre, RollsHeldSame DEF Ledger, Calendar
  <1> QED
    BY <1>4, DadNext

LEMMA DadOfTurn ==
  ASSUME BaseInv, KeysKnow, DadKnow, StreamTurns
  PROVE  DadKnow'
  <1>1. /\ Typed /\ Ranges /\ JobsKnow /\ UNCHANGED <<row, jobs, bot, usage>> /\ hist'.keys = hist.keys
        /\ hist.mishaps \subseteq hist'.mishaps
    BY StreamTurnsEffect, ShapesTyped DEF BaseInv, Noted, StreamTurns
  <1>2. twitch'.events = twitch.events + 1 /\ hist'.heard = hist.heard
    BY TurnIs
  <1>3. /\ hist'.reset = hist.reset
        /\ (twitch.events + 1) % 2 = 1 => hist'.served = 0 /\ hist'.refused = 0
        /\ (twitch.events + 1) % 2 # 1 => hist'.served = hist.served /\ hist'.refused = hist.refused
    BY <1>1 DEF StreamTurns, Typed, HistType
  <1>4. PICK n \in Nat, v \in Nat : n = StreamNo /\ v = twitch.events
    BY <1>1, StreamsAre DEF Typed, TwitchType
  <1>5. StreamNo' = n \/ StreamNo' = n + 1
    BY <1>2, <1>4 DEF StreamNo
  <1>6. (Streaming' <=> (v + 1) % 2 = 1) /\ (Streaming' => StreamNo' = n + 1)
    BY <1>2, <1>4 DEF Streaming, StreamNo
  <1>7. PICK h \in Nat, r \in Nat : h = hist.heard /\ r = hist.reset
    BY <1>1 DEF Typed, HistType
  <1>8. RollsHeld'
    <2>1. \A e \in Running' : e.op = "persist" => e \in Running /\ e.n \in Nat
      BY <1>1 DEF JobsKnow, IsJob, Jobs, Running
    <2> QED
      BY <1>2, <1>3, <1>4, <1>5, <1>7, <2>1, DadAre, RollsHeldSame
  <1>9. r <= n
    <2>1. h <= v /\ r <= (h + 1) \div 2
      BY <1>4, <1>7, DadAre, KeysAre DEF RollsHeld, KeysHeld
    <2>2. n = (v + 1) \div 2
      BY <1>4 DEF StreamNo
    <2> QED
      BY <2>1, <2>2
  <1>10. ASSUME DadWatched' PROVE DadGood'
    <2>1. DadGood
      BY <1>1, <1>10, DadAre, DadBefore
    <2>2. Tally'
      BY <1>3, <1>4, <2>1, ConstantsAssumption DEF DadGood, Tally
    <2>3. ASSUME NEW e \in Running' PROVE DadJob(e)'
      <3>1. DadJob(e) /\ Running' = Running
        BY <1>1, <2>1 DEF DadGood, Running
      <3>2. Streaming' => hist'.reset # StreamNo'
        BY <1>3, <1>4, <1>6, <1>7, <1>9
      <3> QED
        BY <1>1, <3>1, <3>2 DEF DadJob
    <2>4. ASSUME Streaming' PROVE Accounts'
      <3>1. Rolled' = 0 /\ StreamNo' = n + 1 /\ hist'.reset # StreamNo'
        BY <1>3, <1>4, <1>6, <1>7, <1>9, <2>4 DEF Rolled
      <3>2. KeyStream(usage.key)' # n + 1
        <4>1. KeyStream(usage.key)' = KeyStream(usage.key)
          BY <1>1 DEF KeyStream
        <4>2. \A m \in DOMAIN hist.keys : hist.keys[m] \in Nat /\ hist.keys[m] <= n
          <5>1. hist.keys \in Seq(Nat)
            BY <1>1 DEF Typed, HistType
          <5> QED
            BY <1>4, <5>1, KeysAre DEF KeysHeld
        <4>3. usage.key = 0 \/ usage.key \in DOMAIN hist.keys
          BY <1>1 DEF Ranges, Typed, HistType
        <4> QED
          BY <1>4, <4>1, <4>2, <4>3 DEF KeyStream
      <3>3. Stored' = 0
        BY <3>1, <3>2 DEF Stored
      <3>4. Pending' = 0
        <4>1. \A e \in Running : e.op = "persist" => e.n <= n
          BY <1>4, DadAre DEF RollsHeld
        <4>2. Persisting(n + 1) \notin Running
          BY <1>4, <4>1, PersistingIs
        <4> QED
          BY <1>1, <3>1, <4>2 DEF Pending, Running, Persisting, Go
      <3> QED
        BY <3>1, <3>2, <3>3, <3>4 DEF Accounts
    <2> QED
      BY <2>2, <2>3, <2>4 DEF DadGood
  <1> QED
    BY <1>8, <1>10, DadNext

\* A webhook, a !joinme or a !banish begins its work.
LEMMA DadOfNew ==
  ASSUME BaseInv, DadKnow, Ledger, UNCHANGED <<twitch, row>>, hist'.keys = hist.keys, hist'.heard \in Nat,
         hist.heard <= hist'.heard, NEW q, JobsAdd({q}), Noted(Beside(q.op)), q.op \in {"online", "join", "banish"},
         q.pc \in {"start", "profile", "unsubscribe"}, q.alive
  PROVE  DadKnow'
  <1>1. Typed /\ Ranges /\ JobsKnow /\ hist.heard \in Nat /\ hist.reset \in Nat /\ StreamNo \in Nat
    BY ShapesTyped, StreamsAre DEF BaseInv, Typed, HistType
  <1>2. /\ StreamNo' = StreamNo /\ (Streaming' <=> Streaming) /\ Rolled' = Rolled /\ Stored' = Stored
        /\ KeyStream(usage.key)' = KeyStream(usage.key) /\ (Tally' <=> Tally)
    BY LedgerSame
  <1>3. /\ \A e \in Running' : e \in Running \/ e = q
        /\ \A e \in Running : e \in Running' /\ (e # q => jobs'[e] = jobs[e])
        /\ hist.mishaps \subseteq hist'.mishaps
    BY DEF JobsAdd, Noted
  <1>4. RollsHeld'
    <2>1. \A e \in Running' : e.op = "persist" => e \in Running /\ e.n \in Nat
      BY <1>1, <1>3 DEF JobsKnow, IsJob, Jobs
    <2> QED
      BY <1>1, <1>2, <2>1, DadAre, RollsHeldSame DEF Ledger
  <1>5. ASSUME DadWatched' PROVE DadGood'
    <2>1. DadGood
      BY <1>3, <1>5, DadAre, DadBefore
    <2>2. ASSUME NEW e \in Running', e.op = "online"
          PROVE  q.op = "online" /\ e.alive /\ \A p \in Running' : p.op \notin {"offline", "banish", "join", "rehydrate"}
      <3>1. q.op = "online"
        BY <1>3, <1>5, <2>2, DadMeets
      <3>2. \A p \in Running : p.op \notin {"offline", "banish", "join", "rehydrate"}
        BY <1>5, <3>1, DadMeets
      <3>3. e \in Running => e.alive
        BY <2>1, <2>2 DEF DadGood, DadJob
      <3> QED
        BY <1>3, <3>1, <3>2, <3>3
    <2>3. ASSUME NEW e \in Running' PROVE DadJob(e)'
      <3>1. e = q => e.pc # "write" /\ e.op # "rehydrate"
        OBVIOUS
      <3>2. CASE e # q
        <4>1. e \in Running /\ DadJob(e) /\ jobs'[e] = jobs[e]
          BY <1>3, <2>1, <3>2 DEF DadGood
        <4>2. e.op = "rehydrate" =>
                \A p \in Running' : p.op # "persist" /\ (p.op = "rehydrate" => p = e)
          BY <1>3, <4>1 DEF DadJob
        <4> QED
          BY <1>2, <2>2, <4>1, <4>2 DEF DadJob, Ledger
      <3> QED
        BY <2>2, <3>1, <3>2 DEF DadJob
    <2>4. ASSUME Streaming' PROVE Accounts'
      <3>1. Accounts
        BY <1>2, <2>1, <2>4 DEF DadGood
      <3>2. Pending' = Pending
        BY <1>2, <1>3, PendingSame
      <3>3. (Rejoining' <=> Rejoining) /\ (Rehydrating' <=> Rehydrating)
        BY <1>3 DEF Rejoining, Rehydrating
      <3> QED
        BY <1>2, <3>1, <3>2, <3>3 DEF Accounts, Ledger
    <2> QED
      BY <1>2, <2>1, <2>3, <2>4 DEF DadGood
  <1> QED
    BY <1>4, <1>5, DadNext

LEMMA DadOfRequest ==
  ASSUME BaseInv, DadKnow, JoinMe \/ Banish \/ \E e \in twitch.sent : GoLive(e)
  PROVE  DadKnow'
  <1>1. Ledger /\ Typed
    BY RequestLedger, ShapesTyped DEF BaseInv
  <1>2. \A op, pc : Go(op, pc).op = op /\ Go(op, pc).pc = pc /\ Go(op, pc).alive = TRUE
    BY DEF Go
  <1>3. hist.heard \in Nat
    BY <1>1 DEF Typed, HistType
  <1>4. CASE JoinMe
    <2>1. PICK q : q = Go("join", "profile") /\ q.op = "join" /\ q.pc = "profile" /\ q.alive
      BY <1>2
    <2> QED
      BY <1>1, <1>3, <1>4, <2>1, JoinMeEffect, RequestCalendar, DadOfNew DEF Noted, Calendar
  <1>5. CASE Banish
    <2>1. PICK q : q = Go("banish", "unsubscribe") /\ q.op = "banish" /\ q.pc = "unsubscribe" /\ q.alive
      BY <1>2
    <2> QED
      BY <1>1, <1>3, <1>5, <2>1, BanishEffect, RequestCalendar, DadOfNew DEF Noted, Calendar
  <1>6. ASSUME NEW e \in twitch.sent, GoLive(e) PROVE DadKnow'
    <2>1. PICK q : q = Go("online", "start") /\ q.op = "online" /\ q.pc = "start" /\ q.alive
      BY <1>2
    <2>2. Noted(Beside("online")) /\ UNCHANGED <<twitch, row>> /\ JobsAdd({q})
      BY <1>6, <2>1, GoLiveEffect
    <2>3. Delivered(e, "online", {})
      BY <1>6 DEF GoLive
    <2>4. hist'.heard \in Nat /\ hist.heard <= hist'.heard
      BY <1>3, <2>3, DeliveredIs DEF Larger
    <2> QED
      BY <1>1, <1>3, <2>1, <2>2, <2>4, DadOfNew DEF Noted
  <1> QED
    BY <1>4, <1>5, <1>6

\* The end of a stream while one runs is late: there is nothing to account for.
LEMMA DadOfGoOffline ==
  ASSUME BaseInv, DadKnow, NEW e \in twitch.sent, GoOffline(e)
  PROVE  DadKnow'
  <1>1. /\ Noted(Beside("offline")) /\ UNCHANGED <<twitch, row>> /\ JobsAdd({Go("offline", "read")}) /\ Typed
        /\ hist'.keys = hist.keys /\ hist.mishaps \subseteq hist'.mishaps /\ JobsKnow
    BY GoOfflineEffect, ShapesTyped DEF Noted, BaseInv
  <1>2. Delivered(e, "offline", IF Streaming THEN {{"late"}} ELSE {}) /\ bot'.rolls = 0
    BY <1>1 DEF GoOffline, OfflineThen, Typed, BotType
  <1>3. hist.heard \in Nat /\ hist.reset \in Nat /\ StreamNo \in Nat
    BY <1>1, StreamsAre DEF Typed, HistType
  <1>4. hist'.heard \in Nat /\ hist.heard <= hist'.heard
    BY <1>2, <1>3, DeliveredIs DEF Larger
  <1>5. hist'.reset = hist.reset /\ hist'.served = hist.served /\ hist'.refused = hist.refused
    <2>1. PICK v, m : hist' = [hist EXCEPT !.heard = v, !.mishaps = m]
      BY <1>2 DEF Delivered
    <2>2. hist \in HistType
      BY <1>1 DEF Typed
    <2> QED
      BY <2>1, <2>2 DEF HistType
  <1>6. StreamNo' = StreamNo /\ (Streaming' <=> Streaming)
    BY <1>1 DEF StreamNo, Streaming
  <1>7. PICK q : q = Go("offline", "read") /\ q.op = "offline" /\ q.pc = "read"
    <2>1. Go("offline", "read").op = "offline" /\ Go("offline", "read").pc = "read"
      BY DEF Go
    <2> QED
      BY <2>1
  <1>8. /\ \A o \in Running' : o \in Running \/ o = q
        /\ \A o \in Running : o # q => jobs'[o] = jobs[o]
    BY <1>1, <1>7 DEF JobsAdd
  <1>9. RollsHeld'
    <2>1. \A o \in Running' : o.op = "persist" => o \in Running /\ o.n \in Nat
      BY <1>1, <1>7, <1>8 DEF JobsKnow, IsJob, Jobs
    <2> QED
      BY <1>3, <1>4, <1>5, <1>6, <2>1, DadAre, RollsHeldSame
  <1>10. ASSUME DadWatched' PROVE DadGood'
    <2>1. DadGood
      BY <1>1, <1>10, DadAre, DadBefore
    <2>2. ~Streaming
      <3>1. Streaming => {"late"} \in hist'.mishaps
        BY <1>2, DeliveredIs
      <3> QED
        BY <1>10, <3>1, Unaccounted
    <2>3. \A o \in Running' : o.op # "online"
      BY <1>1, <1>7, <1>8, <1>10, DadMeets
    <2>4. ASSUME NEW o \in Running' PROVE DadJob(o)'
      <3>1. CASE o = q
        BY <1>7, <3>1 DEF DadJob
      <3>2. CASE o # q
        <4>1. o \in Running /\ DadJob(o) /\ jobs'[o] = jobs[o]
          BY <1>8, <2>1, <3>2 DEF DadGood
        <4>2. o.op = "rehydrate" =>
                \A p \in Running' : p.op # "persist" /\ (p.op = "rehydrate" => p = o)
          BY <1>7, <1>8, <4>1 DEF DadJob
        <4> QED
          BY <1>1, <1>2, <1>6, <2>2, <2>3, <4>1, <4>2 DEF DadJob
      <3> QED
        BY <3>1, <3>2
    <2> QED
      BY <1>5, <1>6, <2>1, <2>2, <2>4 DEF DadGood, Tally
  <1> QED
    BY <1>9, <1>10, DadNext

LEMMA DadOfSignIn ==
  ASSUME BaseInv, KeysKnow, DadKnow, SignIn
  PROVE  DadKnow'
  <1>1. /\ Ledger /\ Calendar /\ Typed /\ Ranges /\ jobs' = jobs /\ hist.mishaps \subseteq hist'.mishaps /\ ~row.exists
    BY RequestLedger, RequestCalendar, SignInEffect, ShapesTyped DEF BaseInv
  <1>2. hist'.keys = hist.keys /\ row' = [NoRow EXCEPT !.exists = TRUE, !.optIn = TRUE]
    BY <1>1 DEF SignIn, Typed, HistType
  <1>3. row'.key = 0
    BY <1>2 DEF NoRow
  <1>4. row.key = 0
    BY <1>1, KeysAre DEF KeysHeld, Ranges, Rows
  <1>5. \A e \in Running' : e \in Running /\ jobs'[e] = jobs[e]
    BY <1>1 DEF Running
  <1>6. \A e \in Running : e \in Running' /\ jobs'[e] = jobs[e]
    BY <1>1 DEF Running
  <1> QED
    BY <1>1, <1>2, <1>3, <1>4, <1>5, <1>6, DadOfBeside

\* Of the work under way, only writes outlive the bot; what begins is alone of its kind.
LEMMA RestartIs ==
  ASSUME Restart
  PROVE  /\ \A e \in Running' : jobs'[e] = 1
         /\ \A e \in Running' :
              \/ \E o \in Running : o.pc = "write" /\ e = [o EXCEPT !.alive = FALSE]
              \/ e.op \in {"load", "hydrate"}
              \/ e = Go("rehydrate", "get")
         /\ bot'.live => Go("rehydrate", "get") \in Running'
  <1> DEFINE dead == {[o EXCEPT !.alive = FALSE] : o \in {p \in Running : p.pc = "write"}}
             new == (IF bot'.live THEN {Go("rehydrate", "get")} \cup Loads ELSE {})
                    \cup (IF Tracked' /\ twitch.chatSub THEN {Go("hydrate", "seed")} ELSE {})
  <1>1. jobs' = SetToBag(dead \cup new)
    BY DEF Restart
  <1>2. Running' = dead \cup new /\ \A e \in Running' : jobs'[e] = 1
    BY <1>1 DEF Running, BagToSet, SetToBag
  <1>3. \A e \in new : e.op \in {"load", "hydrate"} \/ e = Go("rehydrate", "get")
    BY DEF Go, Loads
  <1> QED
    BY <1>2, <1>3

LEMMA DadOfRestart ==
  ASSUME BaseInv, DadKnow, Restart
  PROVE  DadKnow'
  <1>1. /\ Noted(Beside("restart")) /\ UNCHANGED <<twitch, row>> /\ Calendar /\ usage' = usage /\ Typed /\ JobsKnow /\ Ranges
        /\ hist'.keys = hist.keys /\ hist.mishaps \subseteq hist'.mishaps
    BY RestartEffect, RequestCalendar, ShapesTyped DEF Noted, BaseInv, Restart
  <1>2. bot'.rolls = 0
    BY DEF Restart, Boot
  <1>3. /\ hist'.reset = hist.reset /\ hist'.served = hist.served /\ hist'.refused = hist.refused
        /\ Streaming /\ hist.served > 0 /\ ~bot'.live => {"unseeded"} \in hist'.mishaps
    <2>1. Mishap(Beside("restart") \cup IF Streaming /\ hist.served > 0 /\ ~bot'.live THEN {{"unseeded"}} ELSE {})
      BY DEF Restart
    <2>2. hist \in HistType
      BY <1>1 DEF Typed
    <2> QED
      BY <2>1, <2>2 DEF Mishap, HistType
  <1>4. /\ StreamNo' = StreamNo /\ (Streaming' <=> Streaming) /\ Rolled' = Rolled /\ Stored' = Stored
        /\ KeyStream(usage.key)' = KeyStream(usage.key) /\ (Tally' <=> Tally)
    BY <1>1, <1>3 DEF StreamNo, Streaming, Rolled, Stored, KeyStream, Tally
  <1>5. hist.heard \in Nat /\ hist.reset \in Nat /\ StreamNo \in Nat /\ hist.served \in Nat /\ hist.refused \in Nat
    BY <1>1, StreamsAre DEF Typed, HistType
  <1>6. PICK g : g = Go("rehydrate", "get") /\ g.op = "rehydrate" /\ g.pc = "get"
    <2>1. Go("rehydrate", "get").op = "rehydrate" /\ Go("rehydrate", "get").pc = "get"
      BY DEF Go
    <2> QED
      BY <2>1
  <1>7. ASSUME NEW e \in Running'
        PROVE  \/ /\ e.op \in {"online", "offline", "banish", "join"}
                  /\ \E o \in Running : o.op = e.op /\ o.row = e.row /\ o.pc = e.pc /\ e.pc = "write"
               \/ e.op \in {"load", "hydrate"} \/ e = g
    <2>1. ASSUME NEW o \in Running, o.pc = "write", e = [o EXCEPT !.alive = FALSE]
          PROVE  o.op = e.op /\ o.row = e.row /\ o.pc = e.pc /\ e.op \in {"online", "offline", "banish", "join"}
      <3>1. o \in Jobs /\ <<o.op, "write">> \in Steps
        BY <1>1, <2>1 DEF JobsKnow, IsJob
      <3> QED
        BY <2>1, <3>1 DEF Jobs, Steps
    <2> QED
      BY <1>6, <2>1, RestartIs
  <1>8. RollsHeld'
    <2>1. \A e \in Running' : e.op = "persist" => e \in Running /\ e.n \in Nat
      BY <1>6, <1>7
    <2> QED
      BY <1>1, <1>3, <1>4, <1>5, <2>1, DadAre, RollsHeldSame DEF Calendar
  <1>9. ASSUME DadWatched' PROVE DadGood'
    <2>1. DadGood
      BY <1>1, <1>9, DadAre, DadBefore
    <2>2. \A o \in Running : o.op \notin {"online", "persist"}
      BY <1>1, <1>9, DadMeets
    <2>3. \A e \in Running' : e.op \notin {"online", "persist"}
      BY <1>6, <1>7, <2>2
    <2>4. ASSUME NEW e \in Running' PROVE DadJob(e)'
      <3>1. ASSUME e.op \in {"offline", "banish", "join"}, e.pc = "write", e.row.exists PROVE e.row.key = row'.key
        <4>1. PICK o \in Running : o.op = e.op /\ o.row = e.row /\ o.pc = e.pc
          BY <1>6, <1>7, <3>1
        <4>2. DadJob(o)
          BY <2>1 DEF DadGood
        <4> QED
          BY <1>1, <3>1, <4>1, <4>2 DEF DadJob
      <3>2. e.op = "rehydrate" => e = g
        BY <1>7
      <3>3. \A p \in Running' : p.op = "rehydrate" => p = g
        BY <1>7
      <3>4. jobs'[e] = 1
        BY RestartIs
      <3> QED
        BY <1>2, <1>6, <2>3, <3>1, <3>2, <3>3, <3>4 DEF DadJob
    <2>5. ASSUME Streaming' PROVE Accounts'
      <3>1. Accounts /\ Tally
        BY <1>4, <2>1, <2>5 DEF DadGood
      <3>2. ~Rehydrating' => Rolled = 0
        <4>1. ~Rehydrating' => ~bot'.live
          BY <1>6, RestartIs DEF Rehydrating
        <4>2. ~Rehydrating' => ~(hist.served > 0)
          BY <1>3, <1>4, <1>9, <2>5, <4>1, Unaccounted
        <4> QED
          BY <1>5, <3>1, <4>2, ConstantsAssumption DEF Tally, Rolled
      <3>3. Pending = 0 /\ Pending' = 0
        BY <2>2, <2>3, PersistingIs DEF Pending, Persisting, Go
      <3>4. ~Rejoining
        BY <2>2 DEF Rejoining
      <3> QED
        BY <1>1, <1>2, <1>3, <1>4, <3>1, <3>2, <3>3, <3>4 DEF Accounts
    <2> QED
      BY <1>4, <2>1, <2>4, <2>5 DEF DadGood
  <1> QED
    BY <1>8, <1>9, DadNext

LEMMA RollIs ==
  ASSUME BaseInv, Roll
  PROVE  /\ bot.rolls <= Limit /\ bot'.rolls = bot.rolls + 1 /\ hist'.reset = hist.reset
         /\ Starting({Persisting(IF Streaming THEN StreamNo ELSE 0)})
         /\ hist'.served = IF Streaming /\ bot.rolls < Limit THEN hist.served + 1 ELSE hist.served
         /\ hist'.refused = IF Streaming /\ bot.rolls = Limit THEN hist.refused + 1 ELSE hist.refused
         /\ Rehydrating => {"early roll"} \in hist'.mishaps
         /\ Streaming /\ hist.reset # StreamNo => {"unreset"} \in hist'.mishaps
  <1>1. Typed
    BY ShapesTyped DEF BaseInv
  <1>2. Starting({Persisting(IF Streaming THEN StreamNo ELSE 0)})
    BY DEF Roll, RollUpTo, Persisting
  <1>3. bot.rolls <= Limit /\ bot'.rolls = bot.rolls + 1
    BY <1>1 DEF Roll, RollUpTo, Typed, BotType
  <1>4. hist' = [hist EXCEPT
            !.served = IF Streaming /\ bot.rolls < Limit THEN @ + 1 ELSE @,
            !.refused = IF Streaming /\ bot.rolls = Limit THEN @ + 1 ELSE @,
            !.mishaps = @ \cup (IF Rehydrating THEN {{"early roll"}} ELSE {})
                          \cup (IF Streaming /\ hist.reset # StreamNo THEN {{"unreset"}} ELSE {})]
    BY DEF Roll, RollUpTo, Rehydrating
  <1> QED
    BY <1>1, <1>2, <1>3, <1>4 DEF Typed, HistType

LEMMA DadOfRoll ==
  ASSUME BaseInv, DadKnow, Roll
  PROVE  DadKnow'
  <1>1. /\ Typed /\ Ranges /\ JobsKnow /\ UNCHANGED <<twitch, row, usage>> /\ Calendar /\ hist'.keys = hist.keys
        /\ hist.mishaps \subseteq hist'.mishaps
    BY RollEffect, RequestCalendar, ShapesTyped DEF Noted, BaseInv, Roll, RollUpTo
  <1>2. /\ StreamNo' = StreamNo /\ (Streaming' <=> Streaming) /\ Stored' = Stored
        /\ KeyStream(usage.key)' = KeyStream(usage.key)
    BY <1>1 DEF StreamNo, Streaming, Stored, KeyStream
  <1>3. PICK q : q = Persisting(IF Streaming THEN StreamNo ELSE 0)
    OBVIOUS
  <1>4. /\ Running' = Running \cup {q} /\ jobs'[q] = IF q \in Running THEN jobs[q] + 1 ELSE 1
        /\ \A e \in Running : e # q => jobs'[e] = jobs[e]
    BY <1>1, <1>3, RollIs, AddsCount DEF JobsKnow
  <1>5. q.op = "persist" /\ q.n = (IF Streaming THEN StreamNo ELSE 0) /\ q.pc = "persist"
    BY <1>3, PersistingIs
  <1>6. /\ Rolled \in Nat /\ Pending \in Nat /\ Stored \in Nat /\ hist.served \in Nat /\ hist.refused \in Nat
        /\ hist.reset \in Nat /\ hist.heard \in Nat /\ bot.rolls \in Nat /\ StreamNo \in Nat
    BY <1>1, RolledIs, StreamsAre DEF Typed
  <1>7. RollsHeld'
    <2>1. \A e \in Running' : e.op = "persist" => e = Persisting(e.n) /\ e.n <= StreamNo
      BY <1>3, <1>4, <1>5, <1>6, DadAre DEF RollsHeld
    <2> QED
      BY <1>1, <1>2, <2>1, RollIs, DadAre DEF RollsHeld, Calendar, Persisting, Go
  <1>8. ASSUME DadWatched' PROVE DadGood'
    <2>1. DadGood
      BY <1>1, <1>8, DadAre, DadBefore
    <2>2. ~Rehydrating /\ (Streaming => hist.reset = StreamNo)
      BY <1>8, RollIs, Unaccounted
    <2>3. ASSUME NEW e \in Running' PROVE DadJob(e)'
      <3>1. CASE e = q
        BY <1>5, <3>1 DEF DadJob
      <3>2. CASE e # q
        <4>1. e \in Running /\ DadJob(e) /\ e.op # "rehydrate"
          BY <1>4, <2>1, <2>2, <3>2 DEF DadGood, Rehydrating
        <4> QED
          BY <1>1, <1>4, <1>5, <4>1 DEF DadJob
      <3> QED
        BY <3>1, <3>2
    <2>4. CASE ~Streaming
      BY <1>2, <2>1, <2>3, <2>4, RollIs DEF DadGood, Tally
    <2>5. CASE Streaming
      <3>1. Accounts /\ Tally /\ bot.rolls = Rolled
        BY <2>1, <2>2, <2>5 DEF DadGood, Accounts
      <3>2. Tally' /\ Rolled' = Rolled + 1
        <4>1. PICK s \in Nat, f \in Nat, r \in Nat, lim \in Nat :
                s = hist.served /\ f = hist.refused /\ r = bot.rolls /\ lim = Limit
          BY <1>6, ConstantsAssumption
        <4>2. /\ r <= lim /\ s <= lim /\ f <= 1 /\ (f = 1 => s = lim) /\ r = s + f
          BY <3>1, <4>1, RollIs DEF Tally, Rolled
        <4>3. /\ hist'.served = IF r < lim THEN s + 1 ELSE s
              /\ hist'.refused = IF r = lim THEN f + 1 ELSE f
          BY <2>5, <4>1, RollIs
        <4>4. CASE r < lim
          BY <4>1, <4>2, <4>3, <4>4 DEF Tally, Rolled
        <4>5. CASE r = lim
          BY <4>1, <4>2, <4>3, <4>5 DEF Tally, Rolled
        <4> QED
          BY <4>2, <4>4, <4>5
      <3>3. Pending' = Pending + 1
        <4>1. q = Persisting(StreamNo) /\ q \in Running'
          BY <1>3, <1>4, <2>5
        <4>2. Pending' = jobs'[q]
          <5>1. Persisting(StreamNo)' = q
            BY <1>2, <4>1 DEF Persisting, Go
          <5> QED
            BY <4>1, <5>1 DEF Pending
        <4>3. Pending = IF q \in Running THEN jobs[q] ELSE 0
          BY <4>1 DEF Pending
        <4>4. q \in Running => jobs[q] \in Nat
          BY <1>1 DEF JobsKnow
        <4> QED
          BY <1>4, <4>2, <4>3, <4>4
      <3>4. Rejoining' <=> Rejoining
        BY <1>4, <1>5 DEF Rejoining
      <3>5. Accounts'
        <4>1. hist'.reset = StreamNo' /\ bot'.rolls = Rolled' /\ Rolled' # 0
          <5>1. hist'.reset = hist.reset /\ bot'.rolls = bot.rolls + 1
            BY RollIs
          <5> QED
            BY <1>2, <1>6, <2>2, <2>5, <3>1, <3>2, <5>1
        <4>2. ~Rejoining' => Pending' + Stored' = Rolled'
          BY <1>2, <1>6, <3>1, <3>2, <3>3, <3>4 DEF Accounts
        <4> QED
          BY <1>1, <1>2, <3>1, <3>4, <4>1, <4>2 DEF Accounts
      <3> QED
        BY <2>3, <3>2, <3>5 DEF DadGood
    <2> QED
      BY <2>4, <2>5
  <1> QED
    BY <1>7, <1>8, DadNext

\* The push of a go-live may mint a key, and goes on to join; other writes keep the row's key.
LEMMA DadOfWrite ==
  ASSUME BaseInv, KeysKnow, DadKnow, NEW o \in Running, WriteRow(o)
  PROVE  DadKnow'
  <1>1. /\ Ledger /\ Calendar /\ Typed /\ Ranges /\ JobsKnow /\ hist.mishaps \subseteq hist'.mishaps /\ o.pc = "write"
        /\ \/ o.op = "online" /\ o.alive /\ JobsMove(o, {Moved(o, "join")})
           \/ o.op = "banish" /\ o.alive /\ JobsMove(o, {Moved(o, "filter")})
           \/ o.op = "join" /\ o.alive /\ JobsMove(o, {Moved(o, "append")})
           \/ (o.op = "offline" \/ ~o.alive) /\ JobsMove(o, {})
    <2>1. JobStep(o) /\ RowStep(o) /\ Typed
      BY ShapesTyped DEF JobStep, RowStep, BaseInv
    <2> QED
      BY <2>1, RowLedger, JobCalendar, WriteRowEffect DEF BaseInv
  <1>2. o.op \in Pushes /\ o.row.key \in Nat /\ Len(hist.keys) \in Nat /\ o.row.key <= Len(hist.keys)
    BY WrittenKeys
  <1>3. CASE o.op # "online"
    <2>1. row'.key = o.row.key \/ (~o.row.exists /\ ~row.exists /\ row'.key = 0)
      BY <1>2, <1>3, WrittenKeys DEF Pushes, CanWrite
    <2>2. ~row.exists => row.key = 0 /\ row'.key # NewKey
      BY <1>1, <1>2, <2>1, KeysAre DEF KeysHeld, Ranges, Rows, NewKey
    <2>3. hist'.keys = hist.keys
      <3>1. row'.key # NewKey
        BY <1>2, <2>1, <2>2 DEF NewKey
      <3> QED
        BY <3>1, WrittenKeys
    <2>4. PICK S : JobsMove(o, S) /\ \A e \in S : e.op = o.op /\ e.pc # "write" /\ (e.alive <=> o.alive)
      <3>1. \A pc : Moved(o, pc).op = o.op /\ Moved(o, pc).pc = pc /\ Moved(o, pc).alive = o.alive
        BY DEF Moved
      <3> QED
        BY <1>1, <3>1
    <2>5. CASE row'.key = row.key
      BY <1>1, <1>2, <1>3, <2>3, <2>4, <2>5, DadOfMove DEF Pushes
    <2>6. CASE row'.key # row.key
      <3>1. ~DadWatched'
        <4>1. SUFFICES ASSUME DadWatched' PROVE FALSE
          OBVIOUS
        <4>2. DadJob(o)
          BY <1>1, <4>1, DadAre, DadBefore DEF DadGood
        <4>3. o.row.exists => o.row.key = row.key
          BY <1>1, <1>2, <1>3, <4>2 DEF DadJob, Pushes
        <4>4. ~o.row.exists => ~row.exists /\ row'.key = 0
          BY <1>2, <1>3, WrittenKeys DEF Pushes, CanWrite
        <4>5. o.row.exists => row'.key = o.row.key
          BY <1>2, <1>3, WrittenKeys DEF Pushes
        <4> QED
          BY <2>2, <2>6, <4>3, <4>4, <4>5
      <3>2. \A e \in S : e.op # "persist"
        BY <1>2, <2>4 DEF Pushes
      <3> QED
        BY <1>1, <2>3, <2>4, <3>1, <3>2, DadOfMishap
    <2> QED
      BY <2>5, <2>6
  <1>4. CASE o.op = "online"
    <2>1. PICK S : JobsMove(o, S) /\ (\A e \in S : e.op # "persist") /\ (o.alive => S = {Moved(o, "join")})
      <3>1. Moved(o, "join").op = "online"
        BY <1>4 DEF Moved
      <3> QED
        BY <1>1, <1>4, <3>1
    <2>2. CASE ~DadWatched'
      BY <1>1, <2>1, <2>2, DadOfMishap
    <2>3. CASE DadWatched'
      <3>1. DadGood
        BY <1>1, <2>3, DadAre, DadBefore
      <3>2. PICK q : q = Moved(o, "join") /\ q.op = "online" /\ q.pc = "join" /\ (q.alive <=> o.alive)
        <4>1. Moved(o, "join").op = "online" /\ Moved(o, "join").pc = "join" /\ Moved(o, "join").alive = o.alive
          BY <1>4 DEF Moved
        <4> QED
          BY <4>1
      <3>3. JobsMove(o, {q}) /\ q.alive /\ \A p \in Running : p.op \notin {"offline", "banish", "join", "rehydrate"}
        BY <1>4, <2>1, <3>1, <3>2 DEF DadGood, DadJob
      <3>4. /\ \A e \in Running' : e \in Running \/ e = q
            /\ q \in Running' /\ \A e \in Running : e # o /\ e # q => e \in Running' /\ jobs'[e] = jobs[e]
        BY <3>3 DEF JobsMove
      <3>5. \A e \in Running' : DadJob(e)'
        BY <3>1, <3>2, <3>3, <3>4 DEF DadGood, DadJob
      <3>6. /\ StreamNo' = StreamNo /\ (Streaming' <=> Streaming) /\ Rolled' = Rolled /\ Tally'
        BY <1>1, <3>1 DEF Ledger, Calendar, StreamNo, Streaming, Rolled, Tally, DadGood
      <3>7. KeyStream(usage.key)' = KeyStream(usage.key)
        <4>1. hist'.keys = hist.keys \/ hist'.keys = Append(hist.keys, StreamNo)
          BY WrittenKeys
        <4>2. usage.key \in Nat /\ usage.key <= Len(hist.keys) /\ hist.keys \in Seq(Nat) /\ StreamNo \in Nat
          BY <1>1, StreamsAre DEF Ranges, Typed, HistType
        <4>3. usage.key # 0 => hist'.keys[usage.key] = hist.keys[usage.key]
          BY <4>1, <4>2
        <4> QED
          BY <1>1, <4>3 DEF KeyStream, Ledger
      <3>8. Stored' = Stored
        BY <1>1, <3>6, <3>7 DEF Stored, Ledger
      <3>9. Pending' = Pending
        BY <1>4, <3>2, <3>4, <3>6, PendingSame
      <3>10. ASSUME Streaming' PROVE Accounts'
        <4>1. Accounts
          BY <3>1, <3>6, <3>10 DEF DadGood
        <4>2. Rejoining' /\ ~Rehydrating /\ ~Rehydrating'
          BY <3>2, <3>3, <3>4 DEF Rejoining, Rehydrating
        <4>3. Rolled = 0 => Pending + Stored = 0 /\ KeyStream(usage.key) # StreamNo
          <5>1. Rolled \in Nat /\ Pending \in Nat /\ Stored \in Nat /\ usage.count \in Nat
            BY <1>1, RolledIs
          <5> QED
            BY <4>1, <5>1 DEF Accounts, Stored
        <4> QED
          BY <1>1, <3>6, <3>7, <3>8, <3>9, <4>1, <4>2, <4>3 DEF Accounts, Ledger
      <3>11. RollsHeld'
        <4>1. \A e \in Running' : e.op = "persist" => e \in Running /\ e.n \in Nat
          BY <1>1, <3>2, <3>4 DEF JobsKnow, IsJob, Jobs
        <4>2. hist.heard \in Nat /\ hist.reset \in Nat /\ StreamNo \in Nat
          BY <1>1, StreamsAre DEF Typed, HistType
        <4> QED
          BY <1>1, <3>6, <4>1, <4>2, DadAre, RollsHeldSame DEF Ledger, Calendar
      <3> QED
        BY <3>5, <3>6, <3>10, <3>11, DadNext DEF DadGood
    <2> QED
      BY <2>2, <2>3
  <1> QED
    BY <1>3, <1>4

LEMMA FreshIs ==
  ASSUME BaseInv, NEW o \in Running, GoLiveFresh(o)
  PROVE  /\ bot'.rolls = 0 /\ hist'.reset = (hist.heard + 1) \div 2 /\ usage' = usage
         /\ hist'.served = hist.served /\ hist'.refused = hist.refused
         /\ Streaming /\ hist.served > 0 => {"again"} \in hist'.mishaps
  <1>1. Typed
    BY ShapesTyped DEF BaseInv
  <1> QED
    BY <1>1 DEF GoLiveFresh, Typed, HistType, BotType

\* handleGoLive counts anew: a second time in a stream, what was rolled is forgotten.
LEMMA DadOfFresh ==
  ASSUME BaseInv, DadKnow, NEW o \in Running, GoLiveFresh(o)
  PROVE  DadKnow'
  <1>1. /\ Typed /\ Ranges /\ JobsKnow /\ UNCHANGED <<twitch, row>> /\ hist'.keys = hist.keys
        /\ hist.mishaps \subseteq hist'.mishaps /\ o.op = "online" /\ JobsMove(o, Loads) /\ \A e \in Loads : e.op = "load"
    BY GoLiveFreshEffect, ShapesTyped DEF Noted, BaseInv
  <1>2. Calendar
    BY JobCalendar DEF JobStep, GoLiveStep
  <1>3. /\ StreamNo' = StreamNo /\ (Streaming' <=> Streaming) /\ Rolled' = Rolled /\ Stored' = Stored
        /\ KeyStream(usage.key)' = KeyStream(usage.key) /\ (Tally' <=> Tally)
    BY <1>1, FreshIs DEF StreamNo, Streaming, Rolled, Stored, KeyStream, Tally
  <1>4. \A e \in Running' : e \in Running \/ e.op = "load"
    BY <1>1 DEF JobsMove
  <1>5. RollsHeld'
    <2>1. \A e \in Running' : e.op = "persist" => e = Persisting(e.n) /\ e.n <= StreamNo'
      BY <1>3, <1>4, DadAre DEF RollsHeld
    <2>2. hist'.reset <= (hist'.heard + 1) \div 2
      BY <1>1, <1>2, FreshIs DEF Calendar, Typed, HistType
    <2> QED
      BY <2>1, <2>2 DEF RollsHeld, Persisting, Go
  <1>6. ASSUME DadWatched' PROVE DadGood'
    <2>1. DadGood
      BY <1>1, <1>6, DadAre, DadBefore
    <2>2. \A p \in Running : p.op \notin {"offline", "banish", "join", "rehydrate"}
      BY <1>1, <2>1 DEF DadGood, DadJob
    <2>3. \A e \in Running' : DadJob(e)'
      BY <1>1, <1>4, <2>1, <2>2 DEF DadGood, DadJob
    <2>4. ASSUME Streaming' PROVE Accounts'
      <3>1. Accounts /\ Tally
        BY <1>3, <2>1, <2>4 DEF DadGood
      <3>2. Rolled = 0
        <4>1. ~(hist.served > 0)
          BY <1>3, <1>6, <2>4, FreshIs, Unaccounted
        <4>2. hist.served \in Nat /\ hist.refused \in Nat
          BY <1>1 DEF Typed, HistType
        <4> QED
          BY <3>1, <4>1, <4>2, ConstantsAssumption DEF Tally, Rolled
      <3>3. Pending' = Pending
        <4>1. \A e : e.op = "persist" => (e \in Running' <=> e \in Running) /\ (e \in Running => jobs'[e] = jobs[e])
          BY <1>1 DEF JobsMove
        <4> QED
          BY <1>3, <4>1, PendingSame
      <3> QED
        BY <1>1, <1>3, <3>1, <3>2, <3>3, FreshIs DEF Accounts
    <2> QED
      BY <1>3, <2>1, <2>3, <2>4 DEF DadGood
  <1> QED
    BY <1>5, <1>6, DadNext

LEMMA PersistIs ==
  ASSUME BaseInv, NEW o \in Running, PersistRoll(o)
  PROVE  /\ usage' = IF Tracked /\ row.exists THEN Stamped(usage, row.key) ELSE usage
         /\ hist'.reset = hist.reset /\ hist'.served = hist.served /\ hist'.refused = hist.refused
         /\ Streaming /\ ~(Tracked /\ (o.n = StreamNo) = (KeyStream(row.key) = StreamNo)) => {"stamp"} \in hist'.mishaps
  <1>1. hist \in HistType
    BY ShapesTyped DEF BaseInv, Typed
  <1>2. /\ usage' = IF Tracked /\ row.exists THEN Stamped(usage, row.key) ELSE usage
        /\ Mishap(IF Streaming /\ ~(Tracked /\ (o.n = StreamNo) = (KeyStream(row.key) = StreamNo))
                  THEN {{"stamp"}} ELSE {})
    BY DEF PersistRoll, PersistStamps
  <1> QED
    BY <1>1, <1>2 DEF Mishap, HistType

\* A roll is stored: it was to be persisted, and is stored under the stream's key.
LEMMA DadOfPersist ==
  ASSUME BaseInv, KeysKnow, DadKnow, NEW o \in Running, PersistRoll(o)
  PROVE  DadKnow'
  <1>1. /\ Typed /\ Ranges /\ JobsKnow /\ UNCHANGED <<twitch, row, bot>> /\ hist'.keys = hist.keys
        /\ hist.mishaps \subseteq hist'.mishaps /\ o.op = "persist" /\ JobsMove(o, {}) /\ Calendar
    BY PersistRollEffect, ShapesTyped, JobCalendar DEF Noted, BaseInv, JobStep, DadStep
  <1>2. /\ Running' = IF jobs[o] = 1 THEN Running \ {o} ELSE Running
        /\ jobs[o] # 1 => jobs'[o] = jobs[o] - 1
        /\ \A e \in Running : e # o => jobs'[e] = jobs[e]
    BY <1>1, EndsCount DEF JobsKnow, PersistRoll, PersistStamps
  <1>3. /\ StreamNo' = StreamNo /\ (Streaming' <=> Streaming) /\ Rolled' = Rolled /\ (Tally' <=> Tally)
        /\ hist'.reset = hist.reset
    BY <1>1, PersistIs DEF StreamNo, Streaming, Rolled, Tally
  <1>4. /\ Rolled \in Nat /\ Pending \in Nat /\ Stored \in Nat /\ usage.count \in Nat /\ usage.key \in Nat
        /\ hist.heard \in Nat /\ hist.reset \in Nat /\ StreamNo \in Nat /\ jobs[o] \in Nat \ {0}
    BY <1>1, RolledIs, StreamsAre DEF Typed, HistType, JobsKnow
  <1>5. \A e \in Running' : e \in Running
    BY <1>2
  <1>6. RollsHeld'
    <2>1. \A e \in Running' : e.op = "persist" => e \in Running /\ e.n \in Nat
      BY <1>1, <1>5 DEF JobsKnow, IsJob, Jobs
    <2> QED
      BY <1>1, <1>3, <1>4, <2>1, DadAre, RollsHeldSame DEF Calendar
  <1>7. ASSUME DadWatched' PROVE DadGood'
    <2>1. DadGood
      BY <1>1, <1>7, DadAre, DadBefore
    <2>2. \A e \in Running : e.op # "rehydrate"
      BY <1>1, <2>1 DEF DadGood, DadJob
    <2>3. \A e \in Running' : DadJob(e)'
      BY <1>1, <1>5, <2>1, <2>2 DEF DadGood, DadJob
    <2>4. ASSUME Streaming' PROVE Accounts'
      <3>1. Accounts /\ Streaming
        BY <1>3, <2>1, <2>4 DEF DadGood
      <3>2. Tracked /\ (o.n = StreamNo <=> KeyStream(row.key) = StreamNo)
        BY <1>7, <3>1, PersistIs, Unaccounted
      <3>3. StreamNo # 0
        BY <1>1, <3>1 DEF Streaming, StreamNo, Typed, TwitchType
      <3>4. KeyStream(row.key) = StreamNo => row.exists
        BY <1>1, <3>3, KeysAre DEF KeyStream, KeysHeld, Ranges, Rows
      <3>5. (Rejoining' <=> Rejoining) /\ ~Rehydrating /\ ~Rehydrating'
        BY <1>1, <1>2, <1>5, <2>2 DEF Rejoining, Rehydrating
      <3>6. \A k : KeyStream(k)' = KeyStream(k)
        BY <1>1 DEF KeyStream
      <3>7. o = Persisting(o.n)
        BY <1>1, DadAre DEF RollsHeld
      <3>8. Persisting(StreamNo)' = Persisting(StreamNo)
        BY <1>3 DEF Persisting, Go
      <3>9. ASSUME Rolled = 0 \/ ~Rejoining
            PROVE  /\ Pending' + Stored' = Rolled
                   /\ KeyStream(usage'.key) = StreamNo => usage'.count >= 1 /\ usage'.key = row.key
        <4>1. /\ Pending + Stored = Rolled
              /\ KeyStream(usage.key) = StreamNo => usage.count >= 1 /\ usage.key = row.key
          BY <3>1, <3>9 DEF Accounts
        <4>2. CASE o.n = StreamNo
          <5>1. o = Persisting(StreamNo) /\ usage' = Stamped(usage, row.key) /\ KeyStream(row.key) = StreamNo
            BY <3>2, <3>4, <3>7, <4>2, PersistIs
          <5>2. Pending = jobs[o] /\ Pending' = jobs[o] - 1
            <6>1. Pending = jobs[o]
              BY <5>1 DEF Pending
            <6>2. Pending' = IF o \in Running' THEN jobs'[o] ELSE 0
              BY <3>8, <5>1 DEF Pending
            <6> QED
              BY <1>2, <1>4, <6>1, <6>2
          <5>3. usage'.key = row.key /\ usage'.count = IF usage.key # row.key THEN 1 ELSE usage.count + 1
            BY <5>1 DEF Stamped
          <5>4. Stored' = usage'.count
            BY <1>3, <3>6, <5>1, <5>3 DEF Stored
          <5>5. Stored = IF usage.key = row.key THEN usage.count ELSE 0
            BY <4>1, <5>1 DEF Stored
          <5> QED
            BY <1>4, <4>1, <5>2, <5>3, <5>4, <5>5
        <4>3. CASE o.n # StreamNo
          <5>1. Pending' = Pending
            <6>1. Persisting(StreamNo) # o
              BY <4>3, PersistingIs
            <6>2. Persisting(StreamNo) \in Running' <=> Persisting(StreamNo) \in Running
              BY <1>2, <6>1
            <6> QED
              BY <1>2, <3>8, <6>1, <6>2 DEF Pending
          <5>2. KeyStream(row.key) # StreamNo
            BY <3>2, <4>3
          <5>3. KeyStream(usage.key) # StreamNo
            BY <4>1, <5>2
          <5>4. usage'.key = usage.key \/ usage'.key = row.key
            BY PersistIs DEF Stamped
          <5>5. KeyStream(usage'.key) # StreamNo
            BY <5>2, <5>3, <5>4
          <5>6. Stored = 0 /\ Stored' = 0
            <6>1. KeyStream(usage.key)' # StreamNo'
              BY <1>3, <3>6, <5>5
            <6> QED
              BY <5>3, <6>1 DEF Stored
          <5> QED
            BY <4>1, <5>1, <5>5, <5>6
        <4> QED
          BY <4>2, <4>3
      <3>10. bot' = bot /\ row' = row
        BY <1>1
      <3>11. KeyStream(usage.key)' = KeyStream(usage'.key)
        BY <3>6
      <3> QED
        BY <1>3, <3>1, <3>5, <3>9, <3>10, <3>11 DEF Accounts
    <2> QED
      BY <1>3, <2>1, <2>3, <2>4 DEF DadGood
  <1> QED
    BY <1>6, <1>7, DadNext

\* A rehydration reads what is stored, which is all there is: nothing is to be persisted.
LEMMA DadOfReads ==
  ASSUME BaseInv, DadKnow, NEW o \in Running, RehydrateReads(o)
  PROVE  DadKnow'
  <1>1. /\ Typed /\ Ranges /\ JobsKnow /\ UNCHANGED <<twitch, row, usage, bot>> /\ hist'.keys = hist.keys
        /\ hist.mishaps \subseteq hist'.mishaps /\ o.op = "rehydrate" /\ o.pc = "get" /\ Calendar
    BY RehydrateReadsEffect, ShapesTyped, JobCalendar DEF Noted, BaseInv, JobStep, DadStep, RehydrateReads
  <1>2. /\ hist'.reset = hist.reset /\ hist'.served = hist.served /\ hist'.refused = hist.refused
        /\ KeyStream(row.key) # StreamNo => {"stamp"} \in hist'.mishaps
    <2>1. hist \in HistType /\ Mishap(IF KeyStream(row.key) = StreamNo THEN {} ELSE {{"stamp"}})
      BY <1>1 DEF RehydrateReads, Typed
    <2> QED
      BY <2>1 DEF Mishap, HistType
  <1>3. PICK k \in Nat : k = IF usage.key = row.key THEN usage.count ELSE 0
    BY <1>1 DEF Ranges
  <1>4. PICK q : q = [o EXCEPT !.pc = "merge", !.n = k] /\ JobsMove(o, {q})
    BY <1>1, <1>3, BecomesJob DEF RehydrateReads, JobsKnow
  <1>5. q.op = "rehydrate" /\ q.pc = "merge" /\ q.n = k
    <2>1. o \in Jobs
      BY <1>1 DEF JobsKnow, IsJob
    <2> QED
      BY <1>1, <1>4, <2>1 DEF Jobs
  <1>6. /\ StreamNo' = StreamNo /\ (Streaming' <=> Streaming) /\ Rolled' = Rolled /\ Stored' = Stored
        /\ KeyStream(usage.key)' = KeyStream(usage.key) /\ (Tally' <=> Tally)
    BY <1>1, <1>2 DEF StreamNo, Streaming, Rolled, Stored, KeyStream, Tally
  <1>7. \A e \in Running' : e \in Running \/ e = q
    BY <1>4 DEF JobsMove
  <1>8. RollsHeld'
    <2>1. \A e \in Running' : e.op = "persist" => e \in Running /\ e.n \in Nat
      BY <1>1, <1>5, <1>7 DEF JobsKnow, IsJob, Jobs
    <2>2. hist.heard \in Nat /\ hist.reset \in Nat /\ StreamNo \in Nat
      BY <1>1, StreamsAre DEF Typed, HistType
    <2> QED
      BY <1>1, <1>2, <1>6, <2>1, <2>2, DadAre, RollsHeldSame DEF Calendar
  <1>9. ASSUME DadWatched' PROVE DadGood'
    <2>1. DadGood
      BY <1>1, <1>9, DadAre, DadBefore
    <2>2. /\ jobs[o] = 1 /\ bot.rolls = 0
          /\ \A p \in Running : p.op \notin {"online", "persist"} /\ (p.op = "rehydrate" => p = o)
      BY <1>1, <2>1 DEF DadGood, DadJob
    <2>3. q \in Running' /\ jobs'[q] = 1 /\ \A p \in Running' : p.op = "rehydrate" => p = q
      <3>1. q \notin Running /\ q # o
        BY <1>1, <1>5, <2>2
      <3> QED
        BY <1>4, <2>2, <3>1 DEF JobsMove
    <2>4. ASSUME Streaming PROVE Stored = Rolled /\ k = Rolled
      <3>1. Accounts /\ ~Rejoining /\ Pending = 0
        BY <2>1, <2>2, <2>4, PersistingIs DEF DadGood, Rejoining, Pending
      <3>2. Stored \in Nat /\ Rolled \in Nat
        BY <1>1, RolledIs
      <3>3. Stored = Rolled
        BY <3>1, <3>2 DEF Accounts
      <3>4. KeyStream(row.key) = StreamNo
        BY <1>2, <1>9, Unaccounted
      <3> QED
        BY <1>3, <3>1, <3>3, <3>4 DEF Accounts, Stored
    <2>5. ASSUME NEW e \in Running' PROVE DadJob(e)'
      <3>1. CASE e = q
        BY <1>1, <1>5, <1>6, <1>7, <2>2, <2>3, <2>4, <3>1 DEF DadJob
      <3>2. CASE e # q
        <4>1. e \in Running /\ DadJob(e) /\ e.op \notin {"online", "rehydrate"}
          BY <1>7, <2>1, <2>2, <2>3, <3>2 DEF DadGood
        <4> QED
          BY <1>1, <4>1 DEF DadJob
      <3> QED
        BY <3>1, <3>2
    <2>6. ASSUME Streaming' PROVE Accounts'
      <3>1. Accounts
        BY <1>6, <2>1, <2>6 DEF DadGood
      <3>2. Rehydrating /\ Rehydrating' /\ ~Rejoining /\ ~Rejoining'
        BY <1>1, <1>5, <1>7, <2>2, <2>3 DEF Rehydrating, Rejoining
      <3>3. Pending = 0 /\ Pending' = 0
        <4>1. \A p \in Running' : p.op # "persist"
          BY <1>5, <1>7, <2>2
        <4> QED
          BY <2>2, <4>1, PersistingIs DEF Pending, Persisting, Go
      <3> QED
        BY <1>1, <1>2, <1>6, <3>1, <3>2, <3>3 DEF Accounts
    <2> QED
      BY <1>6, <2>1, <2>5, <2>6 DEF DadGood
  <1> QED
    BY <1>8, <1>9, DadNext

LEMMA DadOfMerges ==
  ASSUME BaseInv, DadKnow, NEW o \in Running, RehydrateMerges(o)
  PROVE  DadKnow'
  <1>1. /\ Typed /\ Ranges /\ JobsKnow /\ UNCHANGED <<twitch, row, usage, hist>>
        /\ o.op = "rehydrate" /\ o.pc = "merge" /\ JobsMove(o, {}) /\ Calendar
    BY RehydrateMergesEffect, ShapesTyped, JobCalendar DEF BaseInv, JobStep, DadStep, RehydrateMerges, Merging
  <1>2. bot'.rolls = Larger(bot.rolls, o.n) /\ o.n \in Nat
    BY <1>1 DEF RehydrateMerges, Merging, Typed, BotType, JobsKnow, IsJob, Jobs
  <1>3. /\ StreamNo' = StreamNo /\ (Streaming' <=> Streaming) /\ Rolled' = Rolled /\ Stored' = Stored
        /\ KeyStream(usage.key)' = KeyStream(usage.key) /\ (Tally' <=> Tally) /\ (DadWatched' <=> DadWatched)
    BY <1>1 DEF StreamNo, Streaming, Rolled, Stored, KeyStream, Tally, DadWatched, Without
  <1>4. \A e \in Running' : e \in Running
    BY <1>1 DEF JobsMove
  <1>5. RollsHeld'
    BY <1>1, <1>3, <1>4, DadAre DEF RollsHeld, Persisting, Go
  <1>6. ASSUME DadWatched' PROVE DadGood'
    <2>1. DadGood
      BY <1>3, <1>6, DadAre
    <2>2. /\ jobs[o] = 1 /\ bot.rolls = 0
          /\ \A p \in Running : p.op \notin {"online", "persist"} /\ (p.op = "rehydrate" => p = o)
          /\ Streaming /\ hist.reset = StreamNo => o.n = Rolled
      BY <1>1, <2>1 DEF DadGood, DadJob
    <2>3. \A p \in Running' : p.op \notin {"online", "persist", "rehydrate"}
      BY <1>1, <1>4, <2>2 DEF JobsMove
    <2>4. \A e \in Running' : DadJob(e)'
      BY <1>1, <1>4, <2>1, <2>3 DEF DadGood, DadJob
    <2>5. ASSUME Streaming' PROVE Accounts'
      <3>1. Accounts
        BY <1>3, <2>1, <2>5 DEF DadGood
      <3>2. bot'.rolls = o.n
        BY <1>2, <2>2 DEF Larger
      <3>3. ~Rejoining
        BY <2>2 DEF Rejoining
      <3>4. Pending = 0 /\ Pending' = 0
        BY <2>2, <2>3, PersistingIs DEF Pending, Persisting, Go
      <3> QED
        BY <1>1, <1>3, <2>2, <2>5, <3>1, <3>2, <3>3, <3>4 DEF Accounts
    <2> QED
      BY <1>3, <2>1, <2>4, <2>5 DEF DadGood
  <1> QED
    BY <1>5, <1>6, DadNext

LEMMA DadOfFails ==
  ASSUME BaseInv, DadKnow, Ledger, NEW o \in Running, BestEffortFails(o)
  PROVE  DadKnow'
  <1>1. /\ Noted({}) /\ {o.op} \in hist'.mishaps /\ row' = row /\ o.op \in {"persist", "rehydrate", "load", "hydrate"} /\ JobsMove(o, {}) /\ Calendar
    <2>1. Calendar
      BY JobCalendar DEF JobStep
    <2>2. Mishap({{o.op}}) /\ row' = row
      BY DEF BestEffortFails, Fails
    <2>3. hist \in HistType
      BY ShapesTyped DEF BaseInv, Typed
    <2>4. {o.op} \in hist'.mishaps
      BY <2>2, <2>3 DEF Mishap, HistType
    <2> QED
      BY <2>1, <2>2, <2>4, BestEffortFailsEffect
  <1>2. hist'.keys = hist.keys /\ hist.mishaps \subseteq hist'.mishaps /\ {o.op} \in hist'.mishaps
    BY <1>1 DEF Noted
  <1>3. CASE o.op \in {"persist", "rehydrate"}
    <2>1. ~DadWatched'
      <3>1. {o.op} \in {{"persist"}, {"rehydrate"}}
        BY <1>3
      <3> QED
        BY <1>2, <3>1, Unaccounted
    <2> QED
      BY <1>1, <1>2, <2>1, DadOfMishap
  <1>4. CASE o.op \notin {"persist", "rehydrate"}
    BY <1>1, <1>2, <1>4, DadOfMove
  <1> QED
    BY <1>3, <1>4

LEMMA GivesOn ==
  ASSUME NEW o \in Running, Gives(o), o.pc \in {"profile", "read", "write"}
  PROVE  \E S : JobsMove(o, S) /\ \A e \in S : e.op = o.op /\ (e.alive <=> o.alive) /\ e.pc \in {"join", "filter"}
  <1>1. \A pc : Moved(o, pc).op = o.op /\ Moved(o, pc).pc = pc /\ Moved(o, pc).alive = o.alive
    BY DEF Moved
  <1>2. \/ JobsMove(o, {Moved(o, "join")}) \/ JobsMove(o, {Moved(o, "filter")}) \/ JobsMove(o, {})
    BY DEF Gives
  <1>3. ASSUME NEW pc \in {"join", "filter"}, JobsMove(o, {Moved(o, pc)})
        PROVE  \E S : JobsMove(o, S) /\ \A e \in S : e.op = o.op /\ (e.alive <=> o.alive) /\ e.pc \in {"join", "filter"}
    <2>1. \A e \in {Moved(o, pc)} : e.op = o.op /\ (e.alive <=> o.alive) /\ e.pc \in {"join", "filter"}
      BY <1>1, <1>3
    <2> QED
      BY <1>3, <2>1
  <1> QED
    BY <1>2, <1>3

LEMMA DadOfJob ==
  ASSUME BaseInv, KeysKnow, DadKnow, NEW o \in Running, JobStep(o)
  PROVE  DadKnow'
  <1>1. CASE PersistRoll(o) \/ RehydrateReads(o) \/ RehydrateMerges(o)
    BY <1>1, DadOfPersist, DadOfReads, DadOfMerges
  <1>2. CASE GoLiveFresh(o)
    BY <1>2, DadOfFresh
  <1>3. CASE ~DadStep(o) /\ ~GoLiveFresh(o)
    <2>1. Ledger /\ Calendar
      BY <1>3, JobLedger, JobCalendar
    <2>2. ASSUME row' = row, Noted({}), o.op \notin {"persist", "rehydrate"},
                 \E S : /\ JobsMove(o, S)
                        /\ \A e \in S : e.op = o.op /\ (e.alive <=> o.alive) /\ (e.pc = "write" => e.row = row)
                        /\ o.op = "online" /\ o.pc \in {"join", "fresh"} => \E e \in S : e.pc \in {"join", "fresh"}
          PROVE  DadKnow'
      <3>1. PICK S : /\ JobsMove(o, S)
                     /\ \A e \in S : e.op = o.op /\ (e.alive <=> o.alive) /\ (e.pc = "write" => e.row = row)
                     /\ o.op = "online" /\ o.pc \in {"join", "fresh"} => \E e \in S : e.pc \in {"join", "fresh"}
        BY <2>2
      <3>2. /\ \A e \in S : e.op \in {o.op, "load"} /\ (e.alive <=> o.alive) /\ (e.op # "load" /\ e.pc = "write" => e.row = row)
            /\ o.op = "online" /\ o.pc \in {"join", "fresh"} => \E e \in S : e.op = "online" /\ e.pc \in {"join", "fresh"}
            /\ row'.key = row.key /\ hist'.keys = hist.keys /\ hist.mishaps \subseteq hist'.mishaps
        BY <2>2, <3>1 DEF Noted
      <3> QED
        BY <2>1, <2>2, <3>1, <3>2, DadOfMove
    <2>3. \A pc : Moved(o, pc).op = o.op /\ Moved(o, pc).pc = pc /\ Moved(o, pc).alive = o.alive
      BY DEF Moved
    <2>4. ASSUME NEW pc, pc # "write", row' = row, Noted({}), o.op \notin {"persist", "rehydrate"}, JobsMove(o, {Moved(o, pc)}),
                 o.op = "online" /\ o.pc \in {"join", "fresh"} => pc \in {"join", "fresh"}
          PROVE  DadKnow'
      BY <2>2, <2>3, <2>4
    <2>5. ASSUME row' = row, Noted({}), o.op \notin {"persist", "rehydrate"}, JobsMove(o, {}),
                 o.op = "online" => o.pc \notin {"join", "fresh"}
          PROVE  DadKnow'
      BY <2>2, <2>5
    <2>6. \A m : Noted(m) => Noted({})
      BY DEF Noted
    <2>7. <<o.op, o.pc>> \in Steps
      BY DEF BaseInv, JobsKnow, IsJob
    <2>8. ASSUME row' = row, Noted({}), Gives(o), o.pc \in {"profile", "read", "write"} PROVE DadKnow'
      <3>1. o.op \notin {"persist", "rehydrate"}
        BY <2>7, <2>8 DEF Steps
      <3>2. PICK S : JobsMove(o, S) /\ \A e \in S : e.op = o.op /\ (e.alive <=> o.alive) /\ e.pc \in {"join", "filter"}
        BY <2>8, GivesOn
      <3> QED
        BY <2>2, <2>8, <3>1, <3>2
    <2>9. CASE RowStep(o)
      <3>1. CASE ReadRow(o)
        <4>1. JobsMove(o, {Seen(o)}) /\ Noted({}) /\ row' = row /\ o.pc = "read"
          BY <3>1, ReadRowEffect DEF OnlyJob
        <4>2. Seen(o).op = o.op /\ Seen(o).row = row /\ Seen(o).alive = o.alive
          BY DEF Seen
        <4>3. o.op \notin {"persist", "rehydrate"}
          BY <2>7, <4>1 DEF Steps
        <4> QED
          BY <2>2, <4>1, <4>2, <4>3
      <3>2. CASE WriteRow(o)
        BY <3>2, DadOfWrite
      <3>3. CASE WriteRefused(o) \/ CallFails(o)
        <4>1. row' = row /\ Noted({}) /\ Gives(o) /\ o.pc \in {"read", "write"}
          BY <2>6, <3>3, WriteRefusedEffect, CallFailsEffect
        <4> QED
          BY <2>8, <4>1
      <3> QED
        BY <2>9, <3>1, <3>2, <3>3 DEF RowStep
    <2>10. CASE GoLiveStep(o)
      <3>1. row' = row /\ Noted({}) /\ o.op = "online"
        BY <2>10, OnlineStep
      <3>2. CASE GoLiveGuard(o)
        BY <2>4, <3>1, <3>2, GoLiveGuardEffect
      <3>3. CASE AskOptIn(o) \/ AskFails(o)
        <4>1. o.pc = "ask"
          BY <3>3 DEF AskOptIn, AskFails, AskAnswers
        <4>2. JobsMove(o, {Moved(o, "read")}) \/ JobsMove(o, {})
          BY <3>3, AskOptInEffect, AskFailsEffect
        <4> QED
          BY <2>4, <2>5, <3>1, <4>1, <4>2
      <3>4. CASE GoLiveJoins(o)
        BY <2>4, <3>1, <3>4, GoLiveJoinsEffect
      <3> QED
        BY <1>3, <2>10, <3>2, <3>3, <3>4 DEF GoLiveStep
    <2>11. CASE MemberStep(o)
      <3>1. CASE JoinLooksUp(o)
        <4>1. /\ row' = row /\ Noted({}) /\ o.op = "join" /\ o.alive
              /\ \E q : q.op = "join" /\ q.pc = "read" /\ q.alive /\ JobsMove(o, {q})
          BY <3>1, JoinLooksUpEffect
        <4> QED
          BY <2>2, <4>1
      <3>2. CASE ProfileFails(o)
        <4>1. row' = row /\ Noted({}) /\ Gives(o) /\ o.pc = "profile"
          BY <2>6, <3>2, ProfileFailsEffect
        <4> QED
          BY <2>8, <4>1
      <3>3. CASE JoinAppends(o) \/ BanishFilters(o)
        BY <2>5, <3>3, JoinAppendsEffect, BanishFiltersEffect
      <3>4. CASE BanishUnsubscribes(o)
        BY <2>4, <3>4, BanishUnsubscribesEffect
      <3> QED
        BY <2>11, <3>1, <3>2, <3>3, <3>4 DEF MemberStep
    <2>12. CASE Load(o)
      BY <2>5, <2>12, LoadEffect
    <2>13. CASE BestEffortFails(o)
      BY <2>1, <2>13, DadOfFails
    <2>14. CASE PrivStep(o)
      <3>1. row' = row /\ Noted({}) /\ (JobsMove(o, {Moved(o, "grant")}) \/ JobsMove(o, {})) /\ o.op \in {"grant", "hydrate"}
        BY <2>14, GrantAsksEffect, GrantSetsEffect, HydrateSeedsEffect DEF PrivStep
      <3> QED
        BY <2>4, <2>5, <3>1
    <2> QED
      BY <1>3, <2>9, <2>10, <2>11, <2>12, <2>13, <2>14 DEF JobStep
  <1> QED
    BY <1>1, <1>2, <1>3 DEF DadStep

LEMMA DadKeeps ==
  ASSUME BaseInv, KeysKnow, DadKnow, [Next]_vars
  PROVE  DadKnow'
  <1>1. CASE StreamTurns
    BY <1>1, DadOfTurn
  <1>2. CASE JoinMe \/ Banish \/ \E e \in twitch.sent : GoLive(e)
    BY <1>2, DadOfRequest
  <1>3. CASE \E e \in twitch.sent : GoOffline(e)
    BY <1>3, DadOfGoOffline
  <1>4. CASE SignIn \/ Restart \/ Roll
    BY <1>4, DadOfSignIn, DadOfRestart, DadOfRoll
  <1>5. CASE Mod \/ Revocation \/ GrantStarts
    <2>1. Ledger /\ Calendar
      BY <1>5, RequestLedger, RequestCalendar
    <2>2. /\ row' = row /\ hist'.keys = hist.keys /\ hist.mishaps \subseteq hist'.mishaps
          /\ jobs' = jobs \/ JobsAdd({Go("grant", "subscribe")})
      BY <1>5, ModEffect, RevocationEffect, GrantStartsEffect DEF Noted
    <2>3. Go("grant", "subscribe").op = "grant"
      BY DEF Go
    <2>4. /\ \A e \in Running' : e \in Running \/ e.op = "grant"
          /\ \A e \in Running : e.op # "grant" => e \in Running' /\ jobs'[e] = jobs[e]
      BY <2>2, <2>3 DEF JobsAdd, Running
    <2> QED
      BY <2>1, <2>2, <2>4, DadOfBeside
  <1>6. CASE UNCHANGED vars
    <2>1. Ledger /\ Calendar
      BY <1>6 DEF vars, Calendar, Ledger
    <2>2. \A e : (e \in Running' <=> e \in Running) /\ jobs'[e] = jobs[e]
      BY <1>6 DEF vars, Running
    <2> QED
      BY <1>6, <2>1, <2>2, DadOfBeside DEF vars
  <1>7. ASSUME NEW o \in Running, JobStep(o) PROVE DadKnow'
    BY <1>7, DadOfJob
  <1> QED
    BY <1>1, <1>2, <1>3, <1>4, <1>5, <1>6, <1>7 DEF Next

-----------------------------------------------------------------------------
(* The channel converges: which work keeps apart.                          *)

Working == {step[1] : step \in Steps}
Clash(a, b) ==
  \/ a = b /\ a \in {"online", "offline", "banish"}
  \/ a = "offline" /\ b \in {"online", "join", "banish", "load"}
  \/ b = "offline" /\ a \in {"online", "join", "banish", "load"}
  \/ a = "online" /\ b = "join"
  \/ b = "online" /\ a = "join"
Apart == \A o, p \in Running : Clash(o.op, p.op) => o = p /\ jobs[o] = 1

LEMMA WorkingIs ==
  Working = {"online", "offline", "join", "banish", "load", "persist", "rehydrate", "grant", "hydrate"}
  <1>1. Working \subseteq {"online", "offline", "join", "banish", "load", "persist", "rehydrate", "grant", "hydrate"}
    BY DEF Working, Steps
  <1>2. \A step \in Steps : step[1] \in Working
    BY DEF Working
  <1>3. /\ <<"online", "start">> \in Steps /\ <<"offline", "read">> \in Steps /\ <<"join", "read">> \in Steps
        /\ <<"banish", "read">> \in Steps /\ <<"load", "stalk">> \in Steps /\ <<"persist", "persist">> \in Steps
        /\ <<"rehydrate", "get">> \in Steps /\ <<"grant", "grant">> \in Steps /\ <<"hydrate", "seed">> \in Steps
    BY DEF Steps
  <1>4. /\ "online" \in Working /\ "offline" \in Working /\ "join" \in Working /\ "banish" \in Working
        /\ "load" \in Working /\ "persist" \in Working /\ "rehydrate" \in Working /\ "grant" \in Working
        /\ "hydrate" \in Working
    <2>1. \A a, b : <<a, b>> \in Steps => a \in Working
      <3>1. \A a, b : <<a, b>>[1] = a
        OBVIOUS
      <3> QED
        BY <1>2, <3>1
    <2> QED
      BY <1>3, <2>1
  <1> QED
    BY <1>1, <1>4

LEMMA WorkIs ==
  ASSUME JobsKnow, NEW o \in Running
  PROVE  o.op \in Working
  <1>1. <<o.op, o.pc>> \in Steps /\ <<o.op, o.pc>>[1] = o.op
    BY DEF JobsKnow, IsJob
  <1> QED
    BY <1>1 DEF Working

LEMMA ExceptedIs ==
  LiveExcepted = {{"online"}, {"offline"}, {"banish"}, {"late"}, {"skipped"}, {"midstream"},
                  {"offline", "online"}, {"offline", "join"}, {"offline", "banish"}, {"offline", "restart"},
                  {"offline", "load"}, {"online", "join"}, {"online", "restart"}}
  BY DEF LiveExcepted, With

LEMMA ClashIs ==
  ASSUME NEW a \in Working, NEW b \in Working
  PROVE  {a, b} \in LiveExcepted <=> Clash(a, b)
  <1>1. CASE a = b
    <2>1. {a, b} = {a}
      BY <1>1
    <2>2. {a} \in LiveExcepted <=> a \in {"online", "offline", "banish", "late", "skipped", "midstream"}
      <3>1. \A c, d, e : {c} = {d, e} => d = e
        OBVIOUS
      <3>2. \A c, d : {c} = {d} <=> c = d
        OBVIOUS
      <3> HIDE DEF LiveExcepted
      <3> QED
        BY <3>1, <3>2, ExceptedIs
    <2> QED
      BY <1>1, <2>1, <2>2, WorkingIs DEF Clash
  <1>2. CASE a # b
    <2>1. \A c : {a, b} # {c}
      BY <1>2
    <2>2. \A c, d : {a, b} = {c, d} <=> (a = c /\ b = d) \/ (a = d /\ b = c)
      BY <1>2
    <2>3. {a, b} \in LiveExcepted <=>
            \E c, d : /\ {a, b} = {c, d}
                      /\ \/ c = "offline" /\ d \in {"online", "join", "banish", "restart", "load"}
                         \/ c = "online" /\ d \in {"join", "restart"}
      BY <2>1, ExceptedIs
    <2> QED
      BY <1>2, <2>2, <2>3, WorkingIs DEF Clash
  <1> QED
    BY <1>1, <1>2

LEMMA ApartIs ==
  ASSUME JobsKnow
  PROVE  LiveApart <=> Apart
  <1>1. \A o, p \in Running : {o.op, p.op} \in LiveExcepted <=> Clash(o.op, p.op)
    BY WorkIs, ClashIs
  <1> QED
    BY <1>1 DEF LiveApart, Apart

\* Apart of a later state: the same, primed.
LEMMA ApartNext ==
  ASSUME JobsKnow', \A o, p \in Running' : Clash(o.op, p.op) => o = p /\ jobs'[o] = 1
  PROVE  LiveApart'
  <1>1. \A o \in Running' : o.op \in Working
    <2>1. ASSUME NEW o \in Running' PROVE o.op \in Working
      <3>1. <<o.op, o.pc>> \in Steps /\ <<o.op, o.pc>>[1] = o.op
        BY DEF JobsKnow, IsJob
      <3> QED
        BY <3>1 DEF Working
    <2> QED
      BY <2>1
  <1>2. \A o, p \in Running' : {o.op, p.op} \in LiveExcepted <=> Clash(o.op, p.op)
    BY <1>1, ClashIs
  <1> QED
    BY <1>2 DEF LiveApart

LEMMA LiveBefore ==
  ASSUME hist.mishaps \subseteq hist'.mishaps, LiveWatched'
  PROVE  LiveWatched
  BY DEF LiveWatched, Without

LEMMA Unheard ==
  ASSUME NEW w \in hist'.mishaps, w \in LiveExcepted
  PROVE  ~LiveWatched'
  BY DEF LiveWatched, Without

\* What begins beside what it should be apart from is noted.
LEMMA ClashesNoted ==
  ASSUME JobsKnow, NEW kind \in {"online", "offline", "join", "banish"}, Noted(Beside(kind)), LiveWatched',
         NEW o \in Running, Clash(kind, o.op)
  PROVE  FALSE
  <1>1. kind \in Working /\ o.op \in Working
    BY WorkIs, WorkingIs
  <1>2. {kind, o.op} \in LiveExcepted
    BY <1>1, ClashIs
  <1>3. {kind, o.op} \subseteq RowWork \/ {kind, o.op} \in Disturbs
    <2>1. CASE o.op = "load"
      <3>1. kind = "offline"
        BY <2>1 DEF Clash
      <3> QED
        BY <2>1, <3>1 DEF Disturbs
    <2>2. CASE o.op # "load"
      BY <2>2 DEF Clash, RowWork
    <2> QED
      BY <2>1, <2>2
  <1>4. {kind, o.op} \in hist'.mishaps
    BY <1>3, NotedBeside
  <1> QED
    BY <1>2, <1>4, Unheard

\* A restart beside a push.
LEMMA RestartClashes ==
  ASSUME Noted(Beside("restart")), LiveWatched', NEW o \in Running
  PROVE  o.op \notin {"online", "offline"}
  <1> SUFFICES ASSUME o.op \in {"online", "offline"} PROVE FALSE
    OBVIOUS
  <1>1. {"restart", o.op} \subseteq RowWork
    BY DEF RowWork
  <1>2. {"restart", o.op} \in hist'.mishaps
    BY <1>1, NotedBeside
  <1>3. {"restart", o.op} \in LiveExcepted
    <2>1. {"restart", o.op} = {o.op, "restart"}
      OBVIOUS
    <2> QED
      BY <2>1, ExceptedIs
  <1> QED
    BY <1>2, <1>3, Unheard


\* A job goes on as one, or starts loads that nothing clashes with.
Follows(o, S) ==
  \A e \in S : \/ S = {e} /\ e.op = o.op
               \/ e.op = "load" /\ o.op = "online"
               \/ e.op \in {"persist", "rehydrate", "grant", "hydrate"}

LEMMA ApartOfMove ==
  ASSUME Apart, JobsKnow', NEW o \in Running, NEW S, JobsMove(o, S), Follows(o, S)
  PROVE  LiveApart'
  <1>1. ASSUME NEW e \in Running', NEW p \in Running', Clash(e.op, p.op)
        PROVE  e = p /\ jobs'[e] = 1
    <2>1. \A f \in Running' : f \in S \/ f \in Running
      BY DEF JobsMove
    <2>2. ASSUME NEW f \in S, Clash(f.op, e.op) \/ Clash(f.op, p.op), ~(S = {f} /\ f.op = o.op)
          PROVE  f.op = "load" /\ o.op = "online"
      BY <2>2 DEF Follows, Clash
    <2>3. CASE e \in S /\ p \in S
      <3>1. S = {e} /\ e.op = o.op
        BY <1>1, <2>3 DEF Follows, Clash
      <3>2. e = p /\ Clash(o.op, o.op)
        BY <1>1, <2>3, <3>1
      <3>3. jobs[o] = 1
        BY <3>2 DEF Apart
      <3>4. e \in Running => e = o
        BY <3>1, <3>2 DEF Apart
      <3> QED
        BY <3>1, <3>2, <3>3, <3>4 DEF JobsMove
    <2>4. ASSUME NEW f \in S, NEW q \in Running', q \notin S, Clash(f.op, q.op)
          PROVE  FALSE
      <3>1. q \in Running
        BY <2>1, <2>4
      <3>2. CASE S = {f} /\ f.op = o.op
        <4>1. o = q /\ jobs[o] = 1
          BY <2>4, <3>1, <3>2 DEF Apart
        <4> QED
          BY <2>4, <4>1 DEF JobsMove
      <3>3. CASE ~(S = {f} /\ f.op = o.op)
        <4>1. f.op = "load" /\ o.op = "online"
          BY <2>4, <3>3 DEF Follows, Clash
        <4>2. q.op = "offline"
          BY <2>4, <4>1 DEF Clash
        <4>3. o = q
          BY <3>1, <4>1, <4>2 DEF Apart, Clash
        <4> QED
          BY <4>1, <4>2, <4>3
      <3> QED
        BY <3>2, <3>3
    <2>5. CASE e \notin S /\ p \notin S
      <3>1. e \in Running /\ p \in Running
        BY <2>1, <2>5
      <3>2. e = p /\ jobs[e] = 1
        BY <1>1, <3>1 DEF Apart
      <3>3. e # o
        BY <2>5, <3>2 DEF JobsMove
      <3> QED
        BY <2>5, <3>1, <3>2, <3>3 DEF JobsMove
    <2>6. Clash(p.op, e.op)
      BY <1>1 DEF Clash
    <2> QED
      BY <1>1, <2>3, <2>4, <2>5, <2>6
  <1> QED
    BY <1>1, ApartNext

\* Work begins that is noted if it clashes, or that nothing clashes with.
LEMMA ApartOfAdd ==
  ASSUME Apart, JobsKnow, JobsKnow', NEW q, JobsAdd({q}),
         \/ q.op \in {"persist", "grant"}
         \/ q.op \in {"online", "offline", "join", "banish"} /\ Noted(Beside(q.op)) /\ LiveWatched'
  PROVE  LiveApart' /\ \A o \in Running : ~Clash(q.op, o.op)
  <1>1. \A o \in Running : ~Clash(q.op, o.op)
    <2>1. CASE q.op \in {"persist", "grant"}
      BY <2>1 DEF Clash
    <2>2. CASE q.op \in {"online", "offline", "join", "banish"} /\ Noted(Beside(q.op)) /\ LiveWatched'
      BY <2>2, ClashesNoted
    <2> QED
      BY <2>1, <2>2
  <1>2. ASSUME NEW e \in Running', NEW p \in Running', Clash(e.op, p.op)
        PROVE  e = p /\ jobs'[e] = 1
    <2>1. \A f \in Running' : f \in Running \/ f = q
      BY DEF JobsAdd
    <2>2. Clash(p.op, e.op)
      BY <1>2 DEF Clash
    <2>3. CASE e \in Running /\ p \in Running
      <3>1. e = p /\ jobs[e] = 1
        BY <1>2, <2>3 DEF Apart
      <3>2. e # q
        <4>1. Clash(e.op, e.op)
          BY <1>2, <3>1
        <4> QED
          BY <1>1, <2>3, <4>1
      <3> QED
        BY <2>3, <3>1, <3>2 DEF JobsAdd
    <2>4. CASE e = q \/ p = q
      <3>1. e = q /\ p = q /\ q \notin Running
        <4>1. CASE e = q
          <5>1. p \notin Running
            BY <1>1, <1>2, <4>1
          <5> QED
            BY <2>1, <4>1, <5>1
        <4>2. CASE p = q
          <5>1. e \notin Running
            BY <1>1, <2>2, <4>2
          <5> QED
            BY <2>1, <4>2, <5>1
        <4> QED
          BY <2>4, <4>1, <4>2
      <3> QED
        BY <3>1 DEF JobsAdd
    <2> QED
      BY <2>1, <2>3, <2>4
  <1> QED
    BY <1>1, <1>2, ApartNext

\* What outlives the bot.
LEMMA Outlives ==
  ASSUME JobsKnow, Restart, NEW e \in Running', e.op \in {"online", "offline", "join", "banish"}
  PROVE  \E o \in Running : /\ o.pc = "write" /\ e = [o EXCEPT !.alive = FALSE] /\ e.op = o.op /\ e.pc = "write"
                            /\ e.row = o.row /\ e.n = o.n
  <1>1. PICK o \in Running : o.pc = "write" /\ e = [o EXCEPT !.alive = FALSE]
    BY RestartJobs DEF Pushes
  <1>2. o \in Jobs
    BY DEF JobsKnow, IsJob
  <1> QED
    BY <1>1, <1>2 DEF Jobs

LEMMA ApartOfRestart ==
  ASSUME Apart, JobsKnow, JobsKnow', Restart, Noted(Beside("restart")), LiveWatched'
  PROVE  LiveApart' /\ \A e \in Running' : e.op \notin {"online", "offline"}
  <1>1. \A e \in Running' : e.op \notin {"online", "offline"}
    BY Outlives, RestartClashes
  <1>2. ASSUME NEW e \in Running', NEW p \in Running', Clash(e.op, p.op)
        PROVE  e = p /\ jobs'[e] = 1
    <2>1. e.op = "banish" /\ p.op = "banish"
      BY <1>1, <1>2 DEF Clash
    <2>2. PICK o \in Running : e = [o EXCEPT !.alive = FALSE] /\ e.op = o.op
      BY <2>1, Outlives
    <2>3. PICK q \in Running : p = [q EXCEPT !.alive = FALSE] /\ p.op = q.op
      BY <2>1, Outlives
    <2>4. Clash(o.op, q.op)
      BY <1>2, <2>2, <2>3
    <2>5. o = q
      BY <2>4 DEF Apart
    <2> QED
      BY <2>2, <2>3, <2>5, RestartJobs
  <1> QED
    BY <1>1, <1>2, ApartNext

-----------------------------------------------------------------------------
(* The channel converges: what an action leaves alone.                     *)

LEMMA LiveNext ==
  ASSUME LiveWatched' => LiveGood'
  PROVE  LiveKnow'
  BY DEF LiveKnow

LEMMA HeardSame ==
  ASSUME Calendar
  PROVE  (HeardAll' <=> HeardAll) /\ (Streaming' <=> Streaming) /\ StreamNo' = StreamNo
  BY DEF Calendar, HeardAll, Streaming, StreamNo

LEMMA LiveOfCalendar ==
  ASSUME LiveKnow, Calendar, hist.mishaps \subseteq hist'.mishaps,
         LiveWatched' /\ HeardAll /\ Aligned /\ (hist.heard % 2 = 0 => Between) /\ (Airing => During)
           => Aligned' /\ (hist.heard % 2 = 0 => Between') /\ (Airing' => During')
  PROVE  LiveKnow'
  <1> SUFFICES ASSUME LiveWatched' PROVE LiveGood'
    BY LiveNext
  <1>1. LiveGood
    BY LiveBefore DEF LiveKnow
  <1>2. HeardAll' <=> HeardAll
    BY HeardSame
  <1>3. hist'.heard = hist.heard /\ twitch'.sent = twitch.sent
    BY DEF Calendar
  <1>4. (1..hist.heard \subseteq twitch.sent)'
    BY <1>1, <1>3 DEF LiveGood
  <1>5. HeardAll => Aligned' /\ (hist.heard % 2 = 0 => Between') /\ (Airing' => During')
    BY <1>1 DEF LiveGood
  <1> QED
    BY <1>2, <1>3, <1>4, <1>5 DEF LiveGood

RowSame == row' = row /\ hist'.member = hist.member /\ hist'.keys = hist.keys

LEMMA PresentSame ==
  ASSUME Calendar, RowSame, NEW e
  PROVE  Present(e)' <=> Present(e)
  BY DEF Present, Calendar, RowSame

LEMMA StreamsSame ==
  ASSUME Calendar, RowSame, NEW r
  PROVE  OfStream(r)' <=> OfStream(r)
  BY DEF OfStream, KeyStream, StreamNo, Calendar, RowSame

LEMMA AiringSame ==
  ASSUME Calendar, RowSame
  PROVE  Airing' <=> Airing
  BY DEF Airing, Streaming, Calendar, RowSame

LEMMA AlignedNext ==
  ASSUME Aligned, Calendar, RowSame, LiveApart', \A e \in Running' : e \in Running \/ Present(e),
         twitch'.hears => twitch.hears \/ row.exists
  PROVE  Aligned'
  <1>1. \A e \in Running' : Present(e)
    BY DEF Aligned
  <1>2. \A e \in Running' : Present(e)'
    BY <1>1, PresentSame
  <1>3. Opted'
    BY DEF Aligned, Opted, RowSame
  <1>4. (twitch.hears \/ twitch.events > 0 => row.exists)'
    BY DEF Aligned, RowSame, Calendar
  <1> QED
    BY <1>2, <1>3, <1>4 DEF Aligned

LEMMA AlignedOfMove ==
  ASSUME BaseInv, BaseInv', Aligned, Calendar, RowSame, NEW o \in Running, NEW S, JobsMove(o, S), Follows(o, S),
         \A e \in S : Present(e), twitch'.hears => twitch.hears \/ row.exists
  PROVE  Aligned'
  <1>1. Apart
    BY ApartIs DEF BaseInv, Aligned
  <1>2. LiveApart'
    BY <1>1, ApartOfMove DEF BaseInv
  <1>3. \A e \in Running' : e \in Running \/ Present(e)
    BY DEF JobsMove
  <1> QED
    BY <1>2, <1>3, AlignedNext

LEMMA BetweenNext ==
  ASSUME Between, RowSame, bot'.live => bot.live, bot'.loaded \subseteq bot.loaded,
         \A e \in Running' : e \in Running \/ (e.op \notin {"online", "load"} /\ (e.pc = "write" => e.row = row)),
         (\E p \in Running : p.op = "offline") => \E p \in Running' : p.op = "offline"
  PROVE  Between'
  <1>1. ~bot'.live /\ bot'.loaded = {} /\ \A e \in Running' : e.op \notin {"online", "load"}
    BY DEF Between
  <1>2. CASE \E p \in Running : p.op = "offline"
    BY <1>1, <1>2 DEF Between
  <1>3. CASE ~row.live /\ \A p \in Running : p.pc = "write" => ~p.row.live
    <2>1. ~row'.live /\ \A e \in Running' : e.pc = "write" => ~e.row.live
      BY <1>3 DEF RowSame
    <2> QED
      BY <1>1, <2>1 DEF Between
  <1> QED
    BY <1>2, <1>3 DEF Between

LEMMA BetweenOfMove ==
  ASSUME Between, RowSame, bot'.live => bot.live, NEW o \in Running, NEW S, JobsMove(o, S), Follows(o, S),
         bot'.loaded \subseteq bot.loaded \/ o.op = "load",
         \A e \in S : e.pc = "write" => e.row = row,
         o.op = "offline" => \E e \in S : e.op = "offline"
  PROVE  Between'
  <1>1. o.op \notin {"online", "load"}
    BY DEF Between
  <1>2. \A e \in S : e.op \notin {"online", "load"}
    BY <1>1 DEF Follows
  <1>3. \A e \in Running' : e \in Running \/ (e.op \notin {"online", "load"} /\ (e.pc = "write" => e.row = row))
    BY <1>2 DEF JobsMove
  <1>4. (\E p \in Running : p.op = "offline") => \E p \in Running' : p.op = "offline"
    BY DEF JobsMove
  <1> QED
    BY <1>1, <1>3, <1>4, BetweenNext

LEMMA DoomsNext ==
  ASSUME NEW e \in Running', Dooms(e)
  PROVE  Doomed'
  BY DEF Doomed, Dooms

LEMMA DuringNext ==
  ASSUME During, Calendar, RowSame, Doomed => Doomed',
         \A e : e.op = "online" => (e \in Running' <=> e \in Running),
         bot.live => bot'.live \/ Doomed', bot.joined => bot'.joined \/ Doomed'
  PROVE  During'
  <1>1. OfStream(row)'
    BY StreamsSame DEF During, OfStream, RowSame, KeyStream, StreamNo, Calendar
  <1>2. ASSUME NEW e \in Running', e.op = "online" PROVE GoesLive(e)'
    <2>1. GoesLive(e)
      BY <1>2 DEF During
    <2>2. OfStream(e.row) => OfStream(e.row)'
      BY StreamsSame
    <2>3. row'.live = row.live
      BY DEF RowSame
    <2> QED
      BY <2>1, <2>2, <2>3 DEF GoesLive
  <1>3. (\E e \in Running' : e.op = "online") \/ (row'.live /\ ((bot'.live /\ bot'.joined) \/ Doomed'))
    BY DEF During, RowSame
  <1> QED
    BY <1>1, <1>2, <1>3 DEF During

LEMMA DuringOfMove ==
  ASSUME During, Calendar, RowSame, NEW o \in Running, o.op # "online", NEW S, JobsMove(o, S),
         \A e \in S : e.op # "online", Dooms(o) => \E e \in S : Dooms(e),
         bot.live => bot'.live \/ \E e \in S : Dooms(e), bot.joined => bot'.joined \/ \E e \in S : Dooms(e)
  PROVE  During'
  <1>1. (\E e \in S : Dooms(e)) => Doomed'
    BY DoomsNext DEF JobsMove
  <1>2. Doomed => Doomed'
    <2>1. ASSUME NEW p \in Running, Dooms(p) PROVE Doomed'
      <3>1. CASE p = o
        BY <1>1, <2>1, <3>1
      <3>2. CASE p # o
        BY <2>1, <3>2, DoomsNext DEF JobsMove
      <3> QED
        BY <3>1, <3>2
    <2> QED
      BY <2>1 DEF Doomed
  <1>3. \A e : e.op = "online" => (e \in Running' <=> e \in Running)
    BY DEF JobsMove
  <1> QED
    BY <1>1, <1>2, <1>3, DuringNext

LEMMA DuringOfOnline ==
  ASSUME During, Apart, Calendar, RowSame, NEW o \in Running, o.op = "online", NEW S, JobsMove(o, S),
         \A e \in S : e.op = "online" => GoesLive(e)',
         (\E e \in S : e.op = "online") \/ (row.live /\ ((bot'.live /\ bot'.joined) \/ Doomed))
  PROVE  During' /\ (Doomed => Doomed')
  <1>1. OfStream(row)'
    BY StreamsSame DEF During, OfStream, RowSame, KeyStream, StreamNo, Calendar
  <1>2. jobs[o] = 1 /\ \A e \in Running : e.op = "online" => e = o
    BY DEF Apart, Clash
  <1>3. \A e \in Running' : e.op = "online" => GoesLive(e)'
    BY <1>2 DEF JobsMove
  <1>4. Doomed => Doomed'
    <2>1. ASSUME NEW p \in Running, Dooms(p) PROVE Doomed'
      <3>1. p # o
        BY <2>1 DEF Dooms
      <3> QED
        BY <2>1, <3>1, DoomsNext DEF JobsMove
    <2> QED
      BY <2>1 DEF Doomed
  <1>5. (\E e \in Running' : e.op = "online") \/ (row'.live /\ ((bot'.live /\ bot'.joined) \/ Doomed'))
    BY <1>4 DEF JobsMove, RowSame
  <1> QED
    BY <1>1, <1>3, <1>4, <1>5 DEF During

\* Work begins, or none does.
LEMMA BeginsNone == ASSUME jobs \in [Running -> Nat \ {0}], jobs' = jobs PROVE JobsAdd({})
  BY DEF JobsAdd, Running

LEMMA AlignedOfAdd ==
  ASSUME Aligned, Calendar, RowSame, LiveApart', NEW S, JobsAdd(S), \A e \in S : Present(e),
         twitch'.hears => twitch.hears \/ row.exists
  PROVE  Aligned'
  <1>1. \A e \in Running' : e \in Running \/ Present(e)
    BY DEF JobsAdd
  <1> QED
    BY <1>1, AlignedNext

LEMMA BetweenOfAdd ==
  ASSUME Between, RowSame, bot'.live => bot.live, bot'.loaded \subseteq bot.loaded, NEW S, JobsAdd(S),
         \A e \in S : e.op \notin {"online", "load"} /\ e.pc # "write"
  PROVE  Between'
  <1>1. \A e \in Running' : e \in Running \/ (e.op \notin {"online", "load"} /\ (e.pc = "write" => e.row = row))
    BY DEF JobsAdd
  <1>2. (\E p \in Running : p.op = "offline") => \E p \in Running' : p.op = "offline"
    BY DEF JobsAdd
  <1> QED
    BY <1>1, <1>2, BetweenNext

LEMMA DuringOfAdd ==
  ASSUME During, Calendar, RowSame, NEW S, JobsAdd(S), \A e \in S : e.op # "online",
         bot.live => bot'.live, bot.joined => bot'.joined \/ \E e \in S : Dooms(e)
  PROVE  During'
  <1>1. (\E e \in S : Dooms(e)) \/ Doomed => Doomed'
    BY DoomsNext DEF JobsAdd, Doomed
  <1>2. \A e : e.op = "online" => (e \in Running' <=> e \in Running)
    BY DEF JobsAdd
  <1> QED
    BY <1>1, <1>2, DuringNext

-----------------------------------------------------------------------------
(* The channel converges: the steps of the jobs that leave the row alone.  *)

LEMMA LoadedSame ==
  ASSUME Typed,
         \/ bot' = bot
         \/ \E v \in BOOLEAN : bot' = [bot EXCEPT !.live = v]
         \/ \E v \in BOOLEAN : bot' = [bot EXCEPT !.joined = v]
         \/ \E v \in BOOLEAN : bot' = [bot EXCEPT !.joining = v]
         \/ \E v \in BOOLEAN : bot' = [bot EXCEPT !.granting = v]
         \/ \E v : bot' = [bot EXCEPT !.channels = v]
         \/ \E v : bot' = [bot EXCEPT !.rolls = v]
         \/ \E v, w : bot' = [bot EXCEPT !.channels = v, !.joining = w]
         \/ \E v, w : bot' = [bot EXCEPT !.granting = w, !.channels = v]
         \/ \E v, w : bot' = [bot EXCEPT !.joining = v, !.joined = w]
  PROVE  bot'.loaded = bot.loaded
  BY DEF Typed, BotType

LEMMA LoadedOfJob ==
  ASSUME BaseInv, NEW o \in Running, JobStep(o), o.op # "load"
  PROVE  bot'.loaded = bot.loaded
  <1>1. Typed
    BY ShapesTyped DEF BaseInv
  <1>2. CASE RowStep(o) \/ ProfileFails(o)
    <2>1. GivesUp(o) => bot' = bot \/ \E v \in BOOLEAN : bot' = [bot EXCEPT !.joining = v]
      BY DEF GivesUp, GivesUpWith
    <2>2. bot' = bot \/ GivesUp(o)
      BY <1>2 DEF RowStep, ReadRow, WriteRow, WriteRefused, CallFails, ProfileFails
    <2> QED
      BY <1>1, <2>1, <2>2, LoadedSame
  <1>3. CASE GoLiveStep(o)
    <2>1. \/ bot' = bot
          \/ \E v \in BOOLEAN : bot' = [bot EXCEPT !.live = v]
          \/ \E v \in BOOLEAN : bot' = [bot EXCEPT !.joined = v]
          \/ \E v : bot' = [bot EXCEPT !.rolls = v]
      BY <1>3 DEF GoLiveStep, GoLiveGuard, AskOptIn, AskFails, AskAnswers, GoLiveJoins, GoLiveFresh
    <2> QED
      BY <1>1, <2>1, LoadedSame
  <1>4. CASE MemberStep(o) /\ ~ProfileFails(o)
    <2>1. CASE JoinAppends(o)
      BY <1>1, <2>1, LoadedSame DEF JoinAppends
    <2>2. CASE JoinLooksUp(o) \/ BanishUnsubscribes(o) \/ BanishFilters(o)
      BY <1>1, <2>2, LoadedSame DEF JoinLooksUp, BanishUnsubscribes, BanishFilters
    <2> QED
      BY <1>4, <2>1, <2>2 DEF MemberStep
  <1>5. CASE Load(o)
    BY <1>5 DEF Load
  <1>6. CASE DadStep(o) \/ BestEffortFails(o)
    BY <1>1, <1>6, LoadedSame
       DEF DadStep, PersistRoll, PersistStamps, RehydrateReads, RehydrateMerges, Merging, BestEffortFails
  <1>7. CASE PrivStep(o)
    BY <1>1, <1>7, LoadedSame DEF PrivStep, GrantAsks, GrantSubscribes, GrantSets, HydrateSeeds
  <1> QED
    BY <1>2, <1>3, <1>4, <1>5, <1>6, <1>7 DEF JobStep

LEMMA HearsOfJob ==
  ASSUME BaseInv, NEW o \in Running, JobStep(o), ~JoinAppends(o)
  PROVE  twitch'.hears => twitch.hears
  <1>1. twitch \in TwitchType
    BY ShapesTyped DEF BaseInv, Typed
  <1>2. CASE BanishUnsubscribes(o)
    BY <1>1, <1>2 DEF BanishUnsubscribes, TwitchType
  <1>3. CASE GrantAsks(o)
    BY <1>1, <1>3 DEF GrantAsks, GrantSubscribes, TwitchType
  <1>4. CASE ~BanishUnsubscribes(o) /\ ~GrantAsks(o)
    <2>1. CASE RowStep(o) \/ MemberStep(o)
      BY <1>4, <2>1 DEF RowStep, ReadRow, WriteRow, WriteRefused, CallFails, MemberStep, JoinLooksUp, ProfileFails,
                        BanishFilters
    <2>2. CASE GoLiveStep(o)
      BY <2>2 DEF GoLiveStep, GoLiveGuard, AskOptIn, AskFails, GoLiveJoins, GoLiveFresh
    <2>3. CASE Load(o) \/ DadStep(o) \/ BestEffortFails(o) \/ PrivStep(o)
      BY <1>4, <2>3 DEF Load, DadStep, PersistRoll, PersistStamps, RehydrateReads, RehydrateMerges, Merging,
                        BestEffortFails, PrivStep, GrantSets, HydrateSeeds
    <2> QED
      BY <2>1, <2>2, <2>3 DEF JobStep
  <1> QED
    BY <1>2, <1>3, <1>4

LEMMA WritersAre ==
  ASSUME NEW e, IsJob(e), e.pc = "write"
  PROVE  e.op \in {"online", "offline", "join", "banish"}
  BY DEF IsJob, Steps

\* What an airing stream says of the row.
LEMMA AiringIs ==
  ASSUME Aligned, Airing, BaseInv
  PROVE  row.exists /\ row.optIn
  <1>1. twitch.events \in Nat /\ twitch.events % 2 = 1
    BY DEF Airing, Streaming, BaseInv, Shapes
  <1>2. twitch.events > 0
    BY <1>1
  <1> QED
    BY <1>2 DEF Aligned, Airing, Opted

\* The side jobs: loads, persists, rehydrations, grants and hydrations.
LEMMA LiveOfSide ==
  ASSUME BaseInv, BaseInv', LiveKnow, NEW o \in Running, NEW S, JobsMove(o, S), o.op \in Side \cup {"grant"},
         \A e \in S : e.op \in {"rehydrate", "grant"}, row' = row, Noted({}), Calendar,
         bot'.live = bot.live, bot'.joined = bot.joined, bot'.loaded = bot.loaded \/ o.op = "load",
         twitch'.hears => twitch.hears
  PROVE  LiveKnow'
  <1>1. RowSame /\ hist.mishaps \subseteq hist'.mishaps
    BY DEF Noted, RowSame
  <1>2. Follows(o, S)
    BY DEF Follows
  <1>3. \A e \in S : Present(e)
    BY DEF Present
  <1>4. \A e \in S : e.pc # "write"
    <2>1. \A e \in S : IsJob(e)'
      BY DEF JobsMove, BaseInv, JobsKnow
    <2>2. ASSUME NEW e \in S, e.pc = "write" PROVE FALSE
      <3>1. <<e.op, e.pc>> \in Steps
        BY <2>1 DEF IsJob
      <3> QED
        BY <2>2, <3>1 DEF Steps
    <2> QED
      BY <2>2
  <1>5. o.op # "online" /\ o.op # "offline" /\ ~Dooms(o) /\ \A e \in S : e.op # "online"
    BY DEF Side, Dooms
  <1> SUFFICES ASSUME Aligned, hist.heard % 2 = 0 => Between, Airing => During
               PROVE  Aligned' /\ (hist.heard % 2 = 0 => Between') /\ (Airing' => During')
    BY <1>1, LiveOfCalendar
  <1>6. Aligned'
    BY <1>1, <1>2, <1>3, AlignedOfMove
  <1>7. hist.heard % 2 = 0 => Between'
    BY <1>1, <1>2, <1>4, <1>5, BetweenOfMove
  <1>8. Airing' => During'
    BY <1>1, <1>5, AiringSame, DuringOfMove
  <1> QED
    BY <1>6, <1>7, <1>8

LEMMA LiveOfRead ==
  ASSUME BaseInv, BaseInv', LiveKnow, NEW o \in Running, ReadRow(o)
  PROVE  LiveKnow'
  <1> DEFINE S == {Seen(o)}
  <1>1. Noted({}) /\ OnlyJob /\ o.pc = "read" /\ JobsMove(o, S) /\ IsJob(o)
    BY ReadRowEffect
  <1>2. /\ Seen(o).op = o.op /\ Seen(o).pc = "write" /\ Seen(o).row = row /\ Seen(o).n = o.n
        /\ Seen(o).alive = o.alive
    BY DEF Seen
  <1>3. PICK s : s = Seen(o)
    OBVIOUS
  <1>4. S = {s}
    BY <1>3
  <1> HIDE DEF S
  <1>5. RowSame /\ Calendar /\ hist.mishaps \subseteq hist'.mishaps /\ bot' = bot /\ twitch' = twitch
    BY <1>1 DEF Noted, OnlyJob, RowSame, Calendar
  <1>6. Follows(o, S)
    BY <1>2, <1>3, <1>4 DEF Follows
  <1> SUFFICES ASSUME Aligned, hist.heard % 2 = 0 => Between, Airing => During
               PROVE  Aligned' /\ (hist.heard % 2 = 0 => Between') /\ (Airing' => During')
    BY <1>5, LiveOfCalendar
  <1>7. Present(s)
    <2>1. Present(o) /\ Opted
      BY DEF Aligned
    <2> QED
      BY <1>1, <1>2, <1>3, <2>1 DEF Present, Opted
  <1>8. Aligned'
    BY <1>1, <1>4, <1>5, <1>6, <1>7, AlignedOfMove
  <1>9. hist.heard % 2 = 0 => Between'
    <2>1. \A e \in S : e.row = row
      BY <1>2, <1>3, <1>4
    <2>2. o.op = "offline" => \E e \in S : e.op = "offline"
      BY <1>2, <1>3, <1>4
    <2>3. bot'.loaded \subseteq bot.loaded
      BY <1>5
    <2> QED
      BY <1>1, <1>5, <1>6, <2>1, <2>2, <2>3, BetweenOfMove
  <1>10. Airing' => During'
    <2> SUFFICES ASSUME Airing PROVE During'
      BY <1>5, AiringSame
    <2>1. row.exists
      BY AiringIs
    <2>2. CASE o.op = "online"
      <3>1. GoesLive(o) /\ OfStream(row) /\ Apart
        BY <2>2, ApartIs DEF During, Aligned, BaseInv
      <3>2. Doomed => Doomed'
        <4>1. ASSUME NEW p \in Running, Dooms(p) PROVE p \in Running'
          BY <1>1, <2>2, <4>1 DEF JobsMove, Dooms
        <4> QED
          BY <4>1, DoomsNext DEF Doomed
      <3>3. OfStream(s.row)'
        BY <1>2, <1>3, <1>5, <3>1, StreamsSame
      <3>4. bot'.live \/ Doomed'
        BY <1>1, <1>5, <3>1, <3>2 DEF GoesLive
      <3>5. GoesLive(s)'
        BY <1>2, <1>3, <3>3, <3>4 DEF GoesLive
      <3>6. (\E e \in S : e.op = "online") /\ \A e \in S : GoesLive(e)'
        BY <1>2, <1>3, <1>4, <2>2, <3>5
      <3> QED
        BY <1>1, <1>5, <2>2, <3>1, <3>6, DuringOfOnline
    <2>3. CASE o.op # "online"
      <3>1. \A e \in S : e.op # "online"
        BY <1>2, <1>3, <1>4, <2>3
      <3>2. Dooms(o) => Dooms(s)
        BY <1>2, <1>3, <2>1 DEF Dooms
      <3>3. Dooms(o) => \E e \in S : Dooms(e)
        BY <1>4, <3>2
      <3> QED
        BY <1>1, <1>5, <2>3, <3>1, <3>3, DuringOfMove
    <2> QED
      BY <2>2, <2>3
  <1> QED
    BY <1>8, <1>9, <1>10

\* A call that fails or is refused, of a !joinme, or of a !banish without a row.
LEMMA LiveOfGives ==
  ASSUME BaseInv, BaseInv', LiveKnow, NEW o \in Running, Gives(o), Noted({}), row' = row, Calendar,
         bot'.loaded = bot.loaded, twitch' = twitch,
         LiveWatched' /\ Aligned => o.op \in {"join", "banish"} /\ ~Dooms(o)
  PROVE  LiveKnow'
  <1>1. RowSame /\ hist.mishaps \subseteq hist'.mishaps
    BY DEF Noted, RowSame
  <1>2. bot'.live = bot.live /\ bot'.joined = bot.joined
    BY DEF Gives, BotIs
  <1>3. PICK S : JobsMove(o, S) /\ \A e \in S : S = {e} /\ e.op = o.op /\ e.pc \in {"join", "filter"}
    BY GivesMoves
  <1>4. Follows(o, S)
    BY <1>3 DEF Follows
  <1> SUFFICES ASSUME LiveWatched', Aligned, hist.heard % 2 = 0 => Between, Airing => During
               PROVE  Aligned' /\ (hist.heard % 2 = 0 => Between') /\ (Airing' => During')
    BY <1>1, LiveOfCalendar
  <1>5. \A e \in S : e.op \in {"join", "banish"} /\ e.pc \in {"join", "filter"}
    BY <1>3
  <1>6. \A e \in S : Present(e)
    BY <1>5 DEF Present
  <1>7. Aligned'
    BY <1>1, <1>3, <1>4, <1>6, AlignedOfMove
  <1>8. hist.heard % 2 = 0 => Between'
    BY <1>1, <1>2, <1>3, <1>4, <1>5, BetweenOfMove
  <1>9. Airing' => During'
    BY <1>1, <1>2, <1>3, <1>5, AiringSame, DuringOfMove
  <1> QED
    BY <1>7, <1>8, <1>9

LEMMA LiveOfFailing ==
  ASSUME BaseInv, BaseInv', LiveKnow, NEW o \in Running, JobStep(o),
         WriteRefused(o) \/ CallFails(o) \/ ProfileFails(o)
  PROVE  LiveKnow'
  <1>1. \E m : Noted(m) /\ Gives(o) /\ UNCHANGED <<twitch, row, channel>>
    BY WriteRefusedEffect, CallFailsEffect, ProfileFailsEffect
  <1>2. Noted({})
    BY <1>1 DEF Noted
  <1>3. IsJob(o)
    BY DEF BaseInv, JobsKnow
  <1>4. o.op \in {"online", "offline", "join", "banish"}
    BY <1>3, RowOpIs DEF WriteRefused, CallFails, ProfileFails
  <1>5. Calendar /\ bot'.loaded = bot.loaded
    BY <1>4, JobCalendar, LoadedOfJob
  <1>6. ASSUME LiveWatched', Aligned PROVE o.op \in {"join", "banish"} /\ ~Dooms(o)
    <2>1. CASE WriteRefused(o)
      <3>1. o.pc = "write" /\ ~o.row.exists
        BY <2>1 DEF WriteRefused, CanWrite
      <3>2. Present(o)
        BY <1>6 DEF Aligned
      <3> QED
        BY <1>4, <3>1, <3>2 DEF Present, Dooms
    <2>2. CASE CallFails(o)
      <3>1. {o.op} \in hist'.mishaps
        BY <2>2, CallFailsEffect DEF Noted
      <3>2. o.op \notin {"online", "offline", "banish"}
        BY <1>6, <3>1, Unheard, ExceptedIs
      <3> QED
        BY <1>4, <3>2 DEF Dooms
    <2>3. CASE ProfileFails(o)
      <3>1. o.op = "join"
        BY <1>3, <2>3 DEF ProfileFails, IsJob, Steps
      <3> QED
        BY <3>1 DEF Dooms
    <2> QED
      BY <2>1, <2>2, <2>3
  <1> QED
    BY <1>1, <1>2, <1>5, <1>6, LiveOfGives

\* A go-live, from its guard to the loads.
LEMMA OnlineMoves ==
  ASSUME BaseInv, BaseInv', NEW o \in Running, GoLiveStep(o), Aligned, hist.heard % 2 = 0 => Between, Airing => During,
         NEW S, JobsMove(o, S),
         \A e \in S : (S = {e} /\ e.op = "online" /\ e.alive /\ e.pc # "write") \/ e.op = "load",
         Airing /\ During => /\ \A e \in S : e.op = "online" => GoesLive(e)'
                             /\ (\E e \in S : e.op = "online") \/ (row.live /\ ((bot'.live /\ bot'.joined) \/ Doomed))
  PROVE  Aligned' /\ (hist.heard % 2 = 0 => Between') /\ (Airing' => During')
  <1>1. Noted({}) /\ UNCHANGED <<twitch, row, channel>> /\ o.op = "online"
    BY OnlineStep
  <1>2. Calendar /\ RowSame
    BY <1>1, JobCalendar DEF JobStep, Noted, RowSame
  <1>3. Follows(o, S)
    BY <1>1 DEF Follows
  <1>4. ASSUME NEW e \in S PROVE Present(e)
    <2>1. Present(o)
      BY DEF Aligned
    <2> QED
      BY <1>1, <2>1 DEF Present
  <1>5. Aligned'
    BY <1>1, <1>2, <1>3, <1>4, AlignedOfMove
  <1>6. hist.heard % 2 # 0
    BY <1>1 DEF Between
  <1>7. Apart
    BY ApartIs DEF Aligned, BaseInv
  <1>8. Airing' => During'
    BY <1>1, <1>2, <1>7, AiringSame, DuringOfOnline
  <1> QED
    BY <1>5, <1>6, <1>8

LEMMA OnlineEnds ==
  ASSUME BaseInv, BaseInv', NEW o \in Running, GoLiveStep(o), Aligned, hist.heard % 2 = 0 => Between, Airing => During,
         JobsMove(o, {}), ~Airing
  PROVE  Aligned' /\ (hist.heard % 2 = 0 => Between') /\ (Airing' => During')
  <1>1. \A e \in {} : ({} = {e} /\ e.op = "online" /\ e.alive /\ e.pc # "write") \/ e.op = "load"
    OBVIOUS
  <1> QED
    BY <1>1, OnlineMoves

LEMMA OnlineGoes ==
  ASSUME BaseInv, BaseInv', NEW o \in Running, GoLiveStep(o), Aligned, hist.heard % 2 = 0 => Between, Airing => During,
         NEW pc, pc # "write", JobsMove(o, {Moved(o, pc)}), Airing /\ During => GoesLive(Moved(o, pc))'
  PROVE  Aligned' /\ (hist.heard % 2 = 0 => Between') /\ (Airing' => During')
  <1>1. PICK e : e = Moved(o, pc)
    OBVIOUS
  <1>2. e.op = "online" /\ e.alive /\ e.pc = pc
    BY <1>1, OnlineStep DEF Moved
  <1>3. JobsMove(o, {e}) /\ (Airing /\ During => GoesLive(e)')
    BY <1>1
  <1> QED
    BY <1>2, <1>3, OnlineMoves

LEMMA GoesLiveNext ==
  ASSUME NEW o \in Running, o.op = "online", NEW pc \in {"read", "ask", "fresh"}, JobsMove(o, {Moved(o, pc)}),
         pc = "read" => bot'.live,
         pc = "fresh" => row'.live /\ bot'.joined /\ (bot'.live \/ Doomed)
  PROVE  GoesLive(Moved(o, pc))'
  <1>1. Moved(o, pc).pc = pc
    BY DEF Moved
  <1>2. Doomed => Doomed'
    <2>1. ASSUME NEW p \in Running, Dooms(p) PROVE p \in Running'
      BY <2>1 DEF JobsMove, Dooms
    <2> QED
      BY <2>1, DoomsNext DEF Doomed
  <1>3. PICK e : e = Moved(o, pc)
    OBVIOUS
  <1>4. e.pc = pc
    BY <1>1, <1>3
  <1>5. GoesLive(e)'
    BY <1>2, <1>4 DEF GoesLive
  <1> QED
    BY <1>3, <1>5

LEMMA LiveOfOnline ==
  ASSUME BaseInv, BaseInv', LiveKnow, NEW o \in Running, GoLiveStep(o)
  PROVE  LiveKnow'
  <1>1. Noted({}) /\ UNCHANGED <<twitch, row, channel>> /\ IsJob(o) /\ o.op = "online" /\ o.alive
    BY OnlineStep
  <1>2. Calendar /\ hist.mishaps \subseteq hist'.mishaps
    BY <1>1, JobCalendar DEF JobStep, Noted
  <1> SUFFICES ASSUME Aligned, hist.heard % 2 = 0 => Between, Airing => During
               PROVE  Aligned' /\ (hist.heard % 2 = 0 => Between') /\ (Airing' => During')
    BY <1>2, LiveOfCalendar
  <1>3. CASE GoLiveGuard(o)
    <2>1. CASE Lives /\ JobsMove(o, {Moved(o, "read")})
      BY <1>1, <2>1, OnlineGoes, GoesLiveNext DEF Lives
    <2>2. CASE JobsMove(o, {Moved(o, "ask")})
      BY <1>1, <2>2, OnlineGoes, GoesLiveNext
    <2> QED
      BY <1>3, <2>1, <2>2, GoLiveGuardEffect
  <1>4. CASE AskOptIn(o) \/ AskFails(o)
    <2>1. CASE Lives /\ JobsMove(o, {Moved(o, "read")})
      BY <1>1, <2>1, OnlineGoes, GoesLiveNext DEF Lives
    <2>2. CASE AskOptIn(o) /\ row.optIn
      <3>1. StepTo(o, "read") /\ bot' = [bot EXCEPT !.live = TRUE] /\ o.pc = "ask"
        BY <2>2 DEF AskOptIn, AskAnswers
      <3>2. Lives
        BY <3>1, LivesIs, ShapesTyped DEF BaseInv
      <3>3. JobsMove(o, {Moved(o, "read")})
        BY <3>1, StepsJob DEF BaseInv
      <3> QED
        BY <2>1, <3>2, <3>3
    <2>3. CASE JobsMove(o, {}) /\ ~row.optIn
      <3>1. ~Airing
        BY <2>3, AiringIs
      <3> QED
        BY <2>3, <3>1, OnlineEnds
    <2> QED
      BY <1>4, <2>1, <2>2, <2>3, AskOptInEffect, AskFailsEffect
  <1>5. CASE GoLiveJoins(o)
    <2>1. JobsMove(o, {Moved(o, "fresh")}) /\ bot'.joined /\ bot'.live = bot.live /\ o.pc = "join"
      BY <1>5, GoLiveJoinsEffect DEF BotIs
    <2>2. During => row.live /\ (bot.live \/ Doomed)
      BY <1>1, <2>1 DEF During, GoesLive
    <2> QED
      BY <1>1, <2>1, <2>2, OnlineGoes, GoesLiveNext
  <1>6. CASE GoLiveFresh(o)
    <2>1. /\ JobsMove(o, Loads) /\ \A e \in Loads : e.op = "load"
          /\ bot'.live = bot.live /\ bot'.joined = bot.joined /\ o.pc = "fresh"
      BY <1>6, GoLiveFreshEffect DEF BotIs
    <2>2. During => row.live /\ ((bot'.live /\ bot'.joined) \/ Doomed)
      BY <1>1, <2>1 DEF During, GoesLive
    <2>3. PICK S : S = Loads
      OBVIOUS
    <2>4. JobsMove(o, S) /\ \A e \in S : e.op = "load"
      BY <2>1, <2>3
    <2> QED
      BY <2>2, <2>4, OnlineMoves
  <1> QED
    BY <1>3, <1>4, <1>5, <1>6 DEF GoLiveStep

LEMMA LiveOfMember ==
  ASSUME BaseInv, BaseInv', LiveKnow, NEW o \in Running, MemberStep(o), ~ProfileFails(o)
  PROVE  LiveKnow'
  <1>1. Noted({}) /\ UNCHANGED <<row, channel>> /\ IsJob(o) /\ o.op \in {"join", "banish"}
    BY JoinLooksUpEffect, JoinAppendsEffect, BanishUnsubscribesEffect, BanishFiltersEffect DEF MemberStep
  <1>2. Calendar /\ RowSame /\ hist.mishaps \subseteq hist'.mishaps /\ bot'.loaded = bot.loaded
    BY <1>1, JobCalendar, LoadedOfJob DEF JobStep, Noted, RowSame
  <1>3. twitch'.hears => twitch.hears \/ JoinAppends(o)
    BY HearsOfJob DEF JobStep
  <1> SUFFICES ASSUME Aligned, hist.heard % 2 = 0 => Between, Airing => During
               PROVE  Aligned' /\ (hist.heard % 2 = 0 => Between') /\ (Airing' => During')
    BY <1>2, LiveOfCalendar
  <1>4. twitch'.hears => twitch.hears \/ row.exists
    <2>1. JoinAppends(o) => row.exists
      <3>1. Present(o)
        BY DEF Aligned
      <3> QED
        BY <3>1, JoinAppendsEffect DEF Present
    <2> QED
      BY <1>3, <2>1
  <1>5. ASSUME NEW S, JobsMove(o, S), bot'.live => bot.live,
               \A e \in S : S = {e} /\ e.op = o.op /\ e.pc # "write" /\ Present(e),
               Dooms(o) => \E e \in S : Dooms(e),
               bot.live => bot'.live \/ \E e \in S : Dooms(e), bot.joined => bot'.joined
        PROVE  Aligned' /\ (hist.heard % 2 = 0 => Between') /\ (Airing' => During')
    <2>1. Follows(o, S)
      BY <1>5 DEF Follows
    <2>2. Aligned'
      BY <1>2, <1>4, <1>5, <2>1, AlignedOfMove
    <2>3. hist.heard % 2 = 0 => Between'
      BY <1>1, <1>2, <1>5, <2>1, BetweenOfMove
    <2>4. Airing' => During'
      <3>1. \A e \in S : e.op # "online"
        BY <1>1, <1>5
      <3> QED
        BY <1>1, <1>2, <1>5, <3>1, AiringSame, DuringOfMove
    <2> QED
      BY <2>2, <2>3, <2>4
  <1>6. CASE JoinLooksUp(o)
    <2>1. o \in Jobs /\ JobsKnow
      BY DEF BaseInv, JobsKnow, IsJob
    <2>2. PICK n \in Nat : n = IF Streaming THEN 1 ELSE 0
      OBVIOUS
    <2>3. PICK q : q = [o EXCEPT !.pc = "read", !.n = n]
      OBVIOUS
    <2>4. q.op = o.op /\ q.pc = "read" /\ q.n = n
      BY <2>1, <2>3 DEF Jobs
    <2>5. JobsMove(o, {q})
      BY <1>6, <2>1, <2>2, <2>3, BecomesJob DEF JoinLooksUp, JobsKnow
    <2>6. o.op = "join" /\ bot' = bot
      BY <1>6, JoinLooksUpEffect
    <2>7. n = 1 => row.exists
      <3>1. ASSUME Streaming PROVE twitch.events > 0
        <4>1. twitch.events \in Nat /\ twitch.events % 2 = 1
          BY <3>1 DEF Streaming, BaseInv, Shapes
        <4> QED
          BY <4>1
      <3> QED
        BY <2>2, <3>1 DEF Aligned
    <2>8. Present(q)
      BY <2>4, <2>6, <2>7 DEF Present
    <2>9. ~Dooms(o)
      BY <2>6 DEF Dooms
    <2> QED
      BY <1>5, <2>4, <2>5, <2>6, <2>8, <2>9
  <1>7. CASE JoinAppends(o)
    <2>1. JobsMove(o, {}) /\ o.op = "join" /\ bot'.live = bot.live /\ bot'.joined = bot.joined
      BY <1>7, JoinAppendsEffect DEF BotIs
    <2>2. ~Dooms(o)
      BY <2>1 DEF Dooms
    <2> QED
      BY <1>5, <2>1, <2>2
  <1>8. CASE BanishUnsubscribes(o)
    <2>1. /\ JobsMove(o, {Moved(o, "read")}) /\ o.op = "banish" /\ o.alive /\ ~bot'.live /\ bot'.joined = bot.joined
      BY <1>8, BanishUnsubscribesEffect DEF BotIs
    <2>2. PICK q : q = Moved(o, "read")
      OBVIOUS
    <2>3. q.op = "banish" /\ q.alive /\ q.pc = "read"
      BY <2>1, <2>2 DEF Moved
    <2>4. Dooms(q) /\ Present(q)
      BY <2>3 DEF Dooms, Present
    <2> QED
      BY <1>5, <2>1, <2>2, <2>3, <2>4
  <1>9. CASE BanishFilters(o)
    <2>1. JobsMove(o, {}) /\ bot'.live = bot.live /\ bot'.joined = bot.joined
      BY <1>9, BanishFiltersEffect DEF BotIs
    <2>2. ~Dooms(o)
      BY <1>9 DEF BanishFilters, Dooms
    <2> QED
      BY <1>5, <2>1, <2>2
  <1> QED
    BY <1>6, <1>7, <1>8, <1>9 DEF MemberStep

-----------------------------------------------------------------------------
(* The channel converges: the row is written.                              *)

LEMMA WrittenMoves ==
  ASSUME BaseInv, NEW o \in Running, WriteRow(o)
  PROVE  \E S : JobsMove(o, S) /\ \A e \in S : S = {e} /\ e.op = o.op /\ e.alive /\ e.pc \in {"join", "filter", "append"}
                                               /\ (o.op = "online" => e.pc = "join")
  <1>1. \A pc : Moved(o, pc).op = o.op /\ Moved(o, pc).pc = pc /\ Moved(o, pc).alive = o.alive
    BY DEF Moved
  <1>2. \/ o.op = "online" /\ o.alive /\ JobsMove(o, {Moved(o, "join")})
        \/ o.op = "banish" /\ o.alive /\ JobsMove(o, {Moved(o, "filter")})
        \/ o.op = "join" /\ o.alive /\ JobsMove(o, {Moved(o, "append")})
        \/ JobsMove(o, {})
    BY WriteRowEffect
  <1>3. ASSUME NEW pc \in {"join", "filter", "append"}, JobsMove(o, {Moved(o, pc)}), o.alive, o.op = "online" => pc = "join"
        PROVE  \E S : JobsMove(o, S) /\ \A e \in S : S = {e} /\ e.op = o.op /\ e.alive /\ e.pc \in {"join", "filter", "append"}
                                                     /\ (o.op = "online" => e.pc = "join")
    <2>1. \A e \in {Moved(o, pc)} : /\ {Moved(o, pc)} = {e} /\ e.op = o.op /\ e.alive
                                    /\ e.pc \in {"join", "filter", "append"} /\ (o.op = "online" => e.pc = "join")
      BY <1>1, <1>3
    <2> QED
      BY <1>3, <2>1
  <1> QED
    BY <1>2, <1>3

LEMMA WriteSame ==
  ASSUME BaseInv, NEW o \in Running, WriteRow(o)
  PROVE  /\ Calendar /\ bot' = bot /\ twitch' = twitch /\ hist.mishaps \subseteq hist'.mishaps
         /\ IsJob(o) /\ o.pc = "write" /\ row'.exists
         /\ o.op \in {"online", "offline"} => hist'.member = hist.member /\ o.row.exists /\ row'.optIn = o.row.optIn
         /\ o.op = "banish" => ~hist'.member
         /\ o.op = "join" => row'.optIn
         /\ o.op \in {"online", "offline", "banish", "join"}
         /\ o.op = "join" /\ Streaming => {"midstream"} \in hist'.mishaps
  <1>1. Calendar
    BY JobCalendar DEF JobStep, RowStep
  <1>2. o.op = "join" /\ Streaming => {"midstream"} \in hist'.mishaps
    <2>1. Typed
      BY ShapesTyped DEF BaseInv
    <2>2. hist'.mishaps = hist.mishaps \cup Midstream(o.op)
      BY <2>1 DEF WriteRow, Typed, HistType
    <2> QED
      BY <2>2 DEF Midstream
  <1> QED
    BY <1>1, <1>2, WriteRowEffect

LEMMA AlignedOfWrite ==
  ASSUME BaseInv, BaseInv', Aligned, NEW o \in Running, WriteRow(o), NEW S, JobsMove(o, S),
         \A e \in S : S = {e} /\ e.op = o.op /\ e.alive /\ e.pc \in {"join", "filter", "append"}
                      /\ (o.op = "online" => e.pc = "join")
  PROVE  Aligned'
  <1>1. Apart
    BY ApartIs DEF BaseInv, Aligned
  <1>2. LiveApart'
    <2>1. Follows(o, S)
      BY DEF Follows
    <2> QED
      BY <1>1, <2>1, ApartOfMove DEF BaseInv
  <1>3. Present(o) /\ Opted
    BY DEF Aligned
  <1>4. Opted'
    BY <1>3, WriteSame DEF Opted, Present
  <1>5. ASSUME NEW e \in Running' PROVE Present(e)'
    <2>1. hist'.heard = hist.heard /\ row'.exists
      BY WriteSame DEF Calendar
    <2>2. CASE e \in S
      <3>1. e.op = "offline" => hist.heard % 2 = 0
        BY <1>3, <2>2 DEF Present
      <3> QED
        BY <2>1, <2>2, <3>1 DEF Present
    <2>3. CASE e \notin S
      <3>1. e \in Running /\ Present(e)
        BY <2>3 DEF JobsMove, Aligned
      <3>2. e.op \in {"online", "offline"} /\ e.pc = "write" /\ hist'.member => hist.member
        <4>1. CASE o.op = "join"
          BY <1>1, <3>1, <4>1 DEF Apart, Clash
        <4>2. CASE o.op # "join"
          BY <4>2, WriteSame
        <4> QED
          BY <4>1, <4>2
      <3> QED
        BY <2>1, <3>1, <3>2 DEF Present
    <2> QED
      BY <2>2, <2>3
  <1> QED
    BY <1>2, <1>4, <1>5, WriteSame DEF Aligned

LEMMA BetweenOfWrite ==
  ASSUME BaseInv, BaseInv', Aligned, Between, NEW o \in Running, WriteRow(o), NEW S, JobsMove(o, S),
         \A e \in S : S = {e} /\ e.op = o.op /\ e.alive /\ e.pc \in {"join", "filter", "append"}
                      /\ (o.op = "online" => e.pc = "join")
  PROVE  Between'
  <1>1. Apart /\ Present(o)
    BY ApartIs DEF BaseInv, Aligned
  <1>2. o.op \in {"offline", "banish", "join"} /\ bot' = bot
    BY WriteSame DEF Between
  <1>3. ~bot'.live /\ bot'.loaded = {} /\ \A e \in Running' : e.op \notin {"online", "load"}
    BY <1>2 DEF Between, JobsMove
  <1>4. CASE o.op = "offline"
    <2>1. ~row'.live
      BY <1>4, WrittenKeys
    <2>2. jobs[o] = 1 /\ \A p \in Running : p.op \in {"online", "offline", "join", "banish"} => p = o
      BY <1>1, <1>4 DEF Apart, Clash
    <2>3. \A p \in Running : p.pc = "write" => p = o
      <3>1. \A p \in Running : IsJob(p)
        BY DEF BaseInv, JobsKnow
      <3> QED
        BY <2>2, <3>1, WritersAre
    <2>4. \A e \in Running' : e.pc # "write"
      BY <2>2, <2>3 DEF JobsMove
    <2> QED
      BY <1>3, <2>1, <2>4 DEF Between
  <1>5. CASE o.op \in {"banish", "join"}
    <2>1. \A p \in Running : p.op # "offline"
      BY <1>1, <1>5 DEF Apart, Clash
    <2>2. ~o.row.live /\ \A p \in Running : p.pc = "write" => ~p.row.live
      BY <2>1, WriteSame DEF Between
    <2>3. ~row'.live
      <3>1. CASE o.op = "banish" \/ o.row.exists
        BY <1>5, <2>2, <3>1, WrittenKeys
      <3>2. CASE o.op = "join" /\ ~o.row.exists
        BY <1>1, <3>2, WrittenKeys DEF Present
      <3> QED
        BY <1>5, <3>1, <3>2
    <2>4. \A e \in Running' : e.pc = "write" => ~e.row.live
      BY <2>2 DEF JobsMove
    <2> QED
      BY <1>3, <2>3, <2>4 DEF Between
  <1> QED
    BY <1>2, <1>4, <1>5

LEMMA DuringOfWrite ==
  ASSUME BaseInv, BaseInv', Aligned, During, NEW o \in Running, WriteRow(o), o.op = "online", NEW S, JobsMove(o, S),
         \A e \in S : S = {e} /\ e.op = o.op /\ e.alive /\ e.pc \in {"join", "filter", "append"}
                      /\ (o.op = "online" => e.pc = "join")
  PROVE  During'
  <1>1. Apart /\ Present(o) /\ GoesLive(o)
    BY ApartIs DEF BaseInv, Aligned, During
  <1>2. /\ o.row.key <= Len(hist.keys) /\ Len(hist.keys) \in Nat /\ o.row.key \in Nat
        /\ hist'.keys = IF row'.key = NewKey THEN Append(hist.keys, StreamNo) ELSE hist.keys
        /\ row'.live /\ row'.key = (IF o.row.live THEN o.row.key ELSE NewKey)
    BY WrittenKeys
  <1>3. Calendar /\ bot' = bot /\ o.pc = "write"
    BY WriteSame
  <1>4. StreamNo' = StreamNo
    BY <1>3, HeardSame
  <1>5. KeyStream(row.key)' = StreamNo
    <2>1. CASE o.row.live
      <3>1. row'.key = o.row.key /\ hist'.keys = hist.keys
        BY <1>2, <2>1 DEF NewKey
      <3>2. KeyStream(o.row.key) = StreamNo
        BY <1>1, <1>3, <2>1 DEF GoesLive, OfStream
      <3> QED
        BY <3>1, <3>2 DEF KeyStream
    <2>2. CASE ~o.row.live
      <3>1. row'.key = NewKey /\ hist'.keys = Append(hist.keys, StreamNo) /\ NewKey = Len(hist.keys) + 1
        BY <1>2, <2>2 DEF NewKey
      <3>2. hist.keys \in Seq(Nat)
        BY DEF BaseInv, Shapes
      <3>3. hist'.keys[Len(hist.keys) + 1] = StreamNo
        BY <3>1, <3>2
      <3>4. row'.key # 0
        BY <1>2, <3>1
      <3> QED
        BY <3>1, <3>3, <3>4 DEF KeyStream
    <2> QED
      BY <2>1, <2>2
  <1>6. OfStream(row)'
    BY <1>4, <1>5 DEF OfStream, KeyStream
  <1>7. jobs[o] = 1 /\ \A p \in Running : p.op = "online" => p = o
    BY <1>1 DEF Apart, Clash
  <1>8. Doomed => Doomed'
    <2>1. ASSUME NEW p \in Running, Dooms(p) PROVE p \in Running'
      BY <2>1 DEF JobsMove, Dooms
    <2> QED
      BY <2>1, DoomsNext DEF Doomed
  <1>9. ASSUME NEW e \in Running', e.op = "online" PROVE GoesLive(e)'
    <2>1. e \in S /\ e.pc = "join"
      BY <1>7, <1>9 DEF JobsMove
    <2>2. bot.live \/ Doomed
      BY <1>1, <1>3 DEF GoesLive
    <2> QED
      BY <1>2, <1>3, <1>8, <2>1, <2>2 DEF GoesLive
  <1>10. \E e \in Running' : e.op = "online"
    <2>1. JobsMove(o, {Moved(o, "join")}) 
      BY <1>1, WriteRowEffect DEF Present
    <2>2. Moved(o, "join") \in Running' /\ Moved(o, "join").op = "online"
      BY <2>1 DEF JobsMove, Moved
    <2> QED
      BY <2>2
  <1> QED
    BY <1>6, <1>9, <1>10 DEF During

LEMMA LiveOfWrite ==
  ASSUME BaseInv, BaseInv', LiveKnow, NEW o \in Running, WriteRow(o)
  PROVE  LiveKnow'
  <1>1. Calendar /\ hist.mishaps \subseteq hist'.mishaps
    BY WriteSame
  <1> SUFFICES ASSUME LiveWatched', Aligned, hist.heard % 2 = 0 => Between, Airing => During
               PROVE  Aligned' /\ (hist.heard % 2 = 0 => Between') /\ (Airing' => During')
    BY <1>1, LiveOfCalendar
  <1>2. PICK S : JobsMove(o, S) /\ \A e \in S : S = {e} /\ e.op = o.op /\ e.alive /\ e.pc \in {"join", "filter", "append"}
                                               /\ (o.op = "online" => e.pc = "join")
    BY WrittenMoves
  <1>3. Aligned'
    BY <1>2, AlignedOfWrite
  <1>4. hist.heard % 2 = 0 => Between'
    BY <1>2, BetweenOfWrite
  <1>5. ASSUME Airing' PROVE During'
    <2>1. Streaming /\ hist.heard = twitch.events /\ hist'.member
      BY <1>1, <1>5, HeardSame DEF Airing, Calendar
    <2>2. hist.heard % 2 = 1
      BY <2>1 DEF Streaming
    <2>3. o.op # "offline"
      <3>1. Present(o)
        BY DEF Aligned
      <3> QED
        BY <2>2, <3>1 DEF Present
    <2>4. o.op # "banish"
      BY <2>1, WriteSame
    <2>5. o.op # "join"
      BY <2>1, WriteSame, Unheard, ExceptedIs
    <2>6. o.op = "online"
      BY <2>3, <2>4, <2>5, WriteSame
    <2>7. Airing
      BY <2>1, <2>6, WriteSame DEF Airing
    <2> QED
      BY <1>2, <2>6, <2>7, DuringOfWrite
  <1> QED
    BY <1>3, <1>4, <1>5

LEMMA LiveOfJob ==
  ASSUME BaseInv, BaseInv', LiveKnow, NEW o \in Running, JobStep(o)
  PROVE  LiveKnow'
  <1>1. Calendar /\ (o.op # "load" => bot'.loaded = bot.loaded)
    BY JobCalendar, LoadedOfJob
  <1>2. CASE RowStep(o)
    BY <1>2, LiveOfRead, LiveOfWrite, LiveOfFailing DEF RowStep
  <1>3. CASE GoLiveStep(o)
    BY <1>3, LiveOfOnline
  <1>4. CASE MemberStep(o)
    BY <1>4, LiveOfMember, LiveOfFailing
  <1>5. CASE Load(o) \/ DadStep(o) \/ BestEffortFails(o)
    <2>1. Load(o) \/ PersistRoll(o) \/ RehydrateReads(o) \/ RehydrateMerges(o) \/ BestEffortFails(o)
      BY <1>5 DEF DadStep
    <2>2. /\ Noted({}) /\ UNCHANGED <<twitch, row, channel>> /\ BotSame /\ o.op \in Side
      BY <2>1, SideStep
    <2>3. PICK S : JobsMove(o, S) /\ \A e \in S : e.op = "rehydrate"
      BY <2>1, SideStep
    <2> QED
      BY <1>1, <2>2, <2>3, LiveOfSide DEF BotSame, BotIs
  <1>6. CASE PrivStep(o)
    <2>1. /\ Noted({}) /\ UNCHANGED <<row, channel>> /\ bot'.live = bot.live /\ bot'.joined = bot.joined
          /\ o.op \in Side \cup {"grant"}
      BY <1>6, GrantAsksEffect, GrantSetsEffect, HydrateSeedsEffect DEF PrivStep, BotIs, Side
    <2>2. twitch'.hears => twitch.hears
      <3>1. ~JoinAppends(o)
        <4>1. IsJob(o)
          BY DEF BaseInv, JobsKnow
        <4>2. JoinAppends(o) => o.op = "join"
          BY JoinAppendsEffect
        <4> QED
          BY <2>1, <4>2 DEF Side
      <3> QED
        BY <3>1, HearsOfJob
    <2>3. (o.op = "grant" /\ JobsMove(o, {Moved(o, "grant")})) \/ JobsMove(o, {})
      BY <1>6, GrantAsksEffect, GrantSetsEffect, HydrateSeedsEffect DEF PrivStep
    <2>4. CASE JobsMove(o, {})
      BY <1>1, <2>1, <2>2, <2>4, LiveOfSide DEF Side
    <2>5. CASE o.op = "grant" /\ JobsMove(o, {Moved(o, "grant")})
      <3>1. PICK S : S = {Moved(o, "grant")}
        OBVIOUS
      <3>2. \A e \in S : e.op = "grant"
        BY <2>5, <3>1 DEF Moved
      <3> QED
        BY <1>1, <2>1, <2>2, <2>5, <3>1, <3>2, LiveOfSide
    <2> QED
      BY <2>3, <2>4, <2>5
  <1> QED
    BY <1>2, <1>3, <1>4, <1>5, <1>6 DEF JobStep

-----------------------------------------------------------------------------
(* The channel converges: what begins.                                     *)

LEMMA LiveOfAdd ==
  ASSUME BaseInv, BaseInv', LiveKnow, Calendar, Noted({}), row' = row, NEW S, JobsAdd(S),
         \/ S = {}
         \/ \E q : S = {q} /\ \/ q.op \in {"persist", "grant"}
                              \/ q.op \in {"join", "banish"} /\ Noted(Beside(q.op)),
         \A e \in S : Present(e) /\ e.pc # "write", twitch'.hears => twitch.hears,
         bot'.live = bot.live, bot'.loaded = bot.loaded, bot.joined => bot'.joined \/ \E e \in S : Dooms(e)
  PROVE  LiveKnow'
  <1>1. RowSame /\ hist.mishaps \subseteq hist'.mishaps
    BY DEF RowSame, Noted
  <1> SUFFICES ASSUME LiveWatched', Aligned, hist.heard % 2 = 0 => Between, Airing => During
               PROVE  Aligned' /\ (hist.heard % 2 = 0 => Between') /\ (Airing' => During')
    BY <1>1, LiveOfCalendar
  <1>2. Apart
    BY ApartIs DEF BaseInv, Aligned
  <1>3. LiveApart'
    <2>1. CASE S = {}
      <3>1. Running' = Running /\ \A e \in Running : jobs'[e] = jobs[e]
        BY <2>1 DEF JobsAdd
      <3> QED
        BY <1>2, <3>1, ApartNext DEF Apart, BaseInv
    <2>2. CASE S # {}
      <3>1. PICK q : S = {q} /\ \/ q.op \in {"persist", "grant"}
                                \/ q.op \in {"join", "banish"} /\ Noted(Beside(q.op))
        BY <2>2
      <3> QED
        BY <1>2, <3>1, ApartOfAdd DEF BaseInv
    <2> QED
      BY <2>1, <2>2
  <1>4. \A e \in S : e.op \notin {"online", "load"}
    OBVIOUS
  <1>5. Aligned'
    BY <1>1, <1>3, AlignedOfAdd
  <1>6. hist.heard % 2 = 0 => Between'
    BY <1>1, <1>4, BetweenOfAdd
  <1>7. Airing' => During'
    BY <1>1, <1>4, AiringSame, DuringOfAdd
  <1> QED
    BY <1>5, <1>6, <1>7

LEMMA LiveOfRequest ==
  ASSUME BaseInv, BaseInv', LiveKnow, Mod \/ Revocation \/ GrantStarts \/ Roll \/ JoinMe \/ Banish \/ UNCHANGED vars
  PROVE  LiveKnow'
  <1>1. Typed /\ JobsKnow
    BY ShapesTyped DEF BaseInv
  <1>2. Calendar
    BY RequestCalendar DEF vars, Calendar
  <1>3. Noted({}) /\ row' = row
    <2>1. UNCHANGED vars => hist' = hist /\ row' = row
      BY DEF vars
    <2> QED
      BY <1>1, <2>1, SameNotes, ModEffect, RevocationEffect, GrantStartsEffect, RollEffect, JoinMeEffect, BanishEffect
         DEF Noted, Typed
  <1>4. bot'.loaded = bot.loaded
    <2>1. CASE Mod \/ Revocation \/ GrantStarts \/ UNCHANGED vars
      BY <1>1, <2>1, LoadedSame DEF Mod, Revocation, GrantStarts, vars
    <2>2. CASE JoinMe \/ Banish \/ Roll
      BY <1>1, <2>2, LoadedSame DEF JoinMe, JoinWhen, Banish, Roll, RollUpTo
    <2> QED
      BY <2>1, <2>2
  <1>5. twitch'.hears = twitch.hears
    <2>1. CASE Mod \/ Revocation
      BY <1>1, <2>1 DEF Mod, Revocation, Typed, TwitchType
    <2>2. CASE GrantStarts \/ Roll \/ JoinMe \/ Banish \/ UNCHANGED vars
      BY <2>2, GrantStartsEffect, RollEffect, JoinMeEffect, BanishEffect DEF vars
    <2> QED
      BY <2>1, <2>2
  <1>6. bot'.live = bot.live
    BY ModEffect, RevocationEffect, GrantStartsEffect, RollEffect, JoinMeEffect, BanishEffect DEF vars
  <1>7. CASE Mod \/ Revocation \/ UNCHANGED vars
    <2>1. jobs' = jobs /\ bot'.joined = bot.joined
      BY <1>7, ModEffect, RevocationEffect DEF vars
    <2>2. JobsAdd({})
      BY <1>1, <2>1, BeginsNone DEF JobsKnow
    <2> QED
      BY <1>2, <1>3, <1>4, <1>5, <1>6, <2>1, <2>2, LiveOfAdd
  <1>8. ASSUME NEW q, JobsAdd({q}), q.op \in {"persist", "grant"}, q.pc # "write", bot'.joined = bot.joined PROVE LiveKnow'
    <2>1. Present(q)
      BY <1>8 DEF Present
    <2> QED
      BY <1>2, <1>3, <1>4, <1>5, <1>6, <1>8, <2>1, LiveOfAdd
  <1>9. CASE GrantStarts
    <2>1. Go("grant", "subscribe").op = "grant" /\ Go("grant", "subscribe").pc = "subscribe"
      BY DEF Go
    <2> QED
      BY <1>8, <1>9, <2>1, GrantStartsEffect
  <1>10. CASE Roll
    <2>1. PICK q : IsJob(q) /\ q.op = "persist" /\ JobsAdd({q})
      BY <1>10, RollEffect
    <2> QED
      BY <1>8, <1>10, <2>1, WritersAre, RollEffect
  <1>11. CASE JoinMe
    <2>1. PICK q : q = Go("join", "profile")
      OBVIOUS
    <2>2. q.op = "join" /\ q.pc = "profile" /\ q.n = 0 /\ JobsAdd({q}) /\ Noted(Beside("join")) /\ bot'.joined
      BY <1>11, <2>1, JoinMeEffect DEF Go
    <2>3. Present(q)
      BY <2>2 DEF Present
    <2> QED
      BY <1>2, <1>3, <1>4, <1>5, <1>6, <2>2, <2>3, LiveOfAdd
  <1>12. CASE Banish
    <2>1. PICK q : q = Go("banish", "unsubscribe")
      OBVIOUS
    <2>2. q.op = "banish" /\ q.pc = "unsubscribe" /\ q.alive /\ JobsAdd({q}) /\ Noted(Beside("banish"))
      BY <1>12, <2>1, BanishEffect DEF Go
    <2>3. Present(q) /\ Dooms(q)
      BY <2>2 DEF Present, Dooms
    <2> QED
      BY <1>2, <1>3, <1>4, <1>5, <1>6, <2>2, <2>3, LiveOfAdd
  <1> QED
    BY <1>7, <1>9, <1>10, <1>11, <1>12

\* The stream begins or ends.
LEMMA LiveOfTurn ==
  ASSUME BaseInv, BaseInv', KeysHeld, LiveKnow, StreamTurns
  PROVE  LiveKnow'
  <1>1. /\ Noted({}) /\ UNCHANGED <<row, bot, jobs, channel>> /\ twitch'.events = twitch.events + 1
        /\ hist'.heard = hist.heard
        /\ twitch'.sent = IF twitch.hears THEN twitch.sent \cup {twitch.events + 1} ELSE twitch.sent
    BY StreamTurnsEffect, TurnIs
  <1>2. /\ twitch.events \in Nat /\ hist.heard \in Nat /\ hist.heard <= twitch.events
        /\ twitch.sent \subseteq 1..twitch.events /\ hist.mishaps \subseteq hist'.mishaps /\ hist'.member = hist.member
    BY <1>1 DEF BaseInv, Shapes, Ranges, KeysHeld, Noted
  <1>3. twitch'.hears = twitch.hears
    <2>1. twitch \in TwitchType
      BY ShapesTyped DEF BaseInv, Typed
    <2> QED
      BY <2>1 DEF StreamTurns, TwitchType
  <1> SUFFICES ASSUME LiveWatched' PROVE LiveGood'
    BY LiveNext
  <1>4. LiveGood
    BY <1>2, LiveBefore DEF LiveKnow
  <1>5. (1..hist.heard \subseteq twitch.sent)'
    BY <1>1, <1>4 DEF LiveGood
  <1>6. ~Airing'
    BY <1>1, <1>2 DEF Airing
  <1> SUFFICES ASSUME HeardAll' PROVE Aligned' /\ (hist.heard % 2 = 0 => Between')
    BY <1>1, <1>5, <1>6 DEF LiveGood
  <1>7. twitch.hears /\ HeardAll
    <2>1. twitch.events + 1 \in twitch'.sent
      BY <1>1, <1>2 DEF HeardAll
    <2>2. twitch.hears
      BY <1>1, <1>2, <2>1
    <2>3. 1..twitch.events \subseteq twitch.sent
      BY <1>1, <1>2, <2>2 DEF HeardAll
    <2> QED
      BY <2>2, <2>3 DEF HeardAll
  <1>8. Aligned /\ row.exists
    BY <1>4, <1>7 DEF LiveGood, Aligned
  <1>9. Running' = Running
    BY <1>1 DEF Running
  <1>10. Aligned'
    <2>1. LiveApart' /\ Opted'
      BY <1>1, <1>2, <1>8, <1>9 DEF Aligned, LiveApart, Opted
    <2>2. ASSUME NEW e \in Running' PROVE Present(e)'
      <3>1. Present(e)
        BY <1>8, <1>9 DEF Aligned
      <3> QED
        BY <1>1, <1>2, <3>1 DEF Present
    <2> QED
      BY <1>1, <1>8, <2>1, <2>2 DEF Aligned
  <1>11. hist.heard % 2 = 0 => Between'
    <2>1. hist.heard % 2 = 0 => Between
      BY <1>4, <1>7 DEF LiveGood
    <2>2. Between => Between'
      BY <1>1, <1>9 DEF Between
    <2> QED
      BY <2>1, <2>2
  <1> QED
    BY <1>10, <1>11

\* A webhook: the next event of the stream, or the last one once more.
LEMMA HookIs ==
  ASSUME BaseInv, KeysHeld, NEW e \in twitch.sent, NEW op, NEW m, Delivered(e, op, m), LiveWatched',
         twitch' = twitch, 1..hist.heard \subseteq twitch.sent
  PROVE  /\ e \in Nat /\ 1 <= e /\ e <= twitch.events /\ hist'.heard = e /\ (e = hist.heard \/ e = hist.heard + 1)
         /\ (1..hist.heard \subseteq twitch.sent)' /\ (HeardAll' <=> HeardAll) /\ (Streaming' <=> Streaming)
         /\ StreamNo' = StreamNo
  <1>1. {"late"} \notin hist'.mishaps /\ {"skipped"} \notin hist'.mishaps
    BY Unheard, ExceptedIs
  <1>2. e \in Nat /\ 1 <= e /\ e <= twitch.events /\ hist.heard <= e /\ hist'.heard = e /\ e <= hist.heard + 1
    BY <1>1, DeliveredIs
  <1>3. hist.heard \in Nat
    BY DEF BaseInv, Shapes
  <1>4. e = hist.heard \/ e = hist.heard + 1
    BY <1>2, <1>3
  <1>5. 1..e \subseteq twitch.sent
    BY <1>2, <1>3, <1>4
  <1> QED
    BY <1>2, <1>4, <1>5 DEF HeardAll, Streaming, StreamNo

LEMMA AlignedOfHook ==
  ASSUME BaseInv, BaseInv', Aligned, UNCHANGED <<twitch, row>>, hist'.member = hist.member, LiveWatched',
         twitch.events > 0, NEW q, JobsAdd({q}), q.op \in {"online", "offline"}, q.pc # "write", q.alive,
         Noted(Beside(q.op)), q.op = "offline" => hist'.heard % 2 = 0
  PROVE  Aligned' /\ \A p \in Running : ~Clash(q.op, p.op)
  <1>1. Apart /\ row.exists
    BY ApartIs DEF BaseInv, Aligned
  <1>2. LiveApart' /\ \A p \in Running : ~Clash(q.op, p.op)
    BY <1>1, ApartOfAdd DEF BaseInv
  <1>3. ASSUME NEW e \in Running' PROVE Present(e)'
    <2>1. CASE e = q
      BY <1>1, <2>1 DEF Present
    <2>2. CASE e # q
      <3>1. e \in Running
        BY <2>2 DEF JobsAdd
      <3>2. Present(e)
        BY <3>1 DEF Aligned
      <3>3. e.op # "offline"
        BY <1>2, <3>1 DEF Clash
      <3> QED
        BY <3>2, <3>3 DEF Present
    <2> QED
      BY <2>1, <2>2
  <1>4. Opted' /\ (twitch.hears \/ twitch.events > 0 => row.exists)'
    BY <1>1 DEF Opted, Aligned
  <1> QED
    BY <1>2, <1>3, <1>4 DEF Aligned

LEMMA LiveOfGoLive ==
  ASSUME BaseInv, BaseInv', KeysHeld, LiveKnow, NEW e \in twitch.sent, GoLive(e)
  PROVE  LiveKnow'
  <1>1. /\ Noted(Beside("online")) /\ UNCHANGED <<twitch, row, bot, channel>> /\ JobsAdd({Go("online", "start")})
        /\ Delivered(e, "online", {}) /\ e % 2 = 1
    BY GoLiveEffect DEF GoLive
  <1>2. PICK q : q = Go("online", "start")
    OBVIOUS
  <1>3. q.op = "online" /\ q.pc = "start" /\ q.alive /\ JobsAdd({q})
    BY <1>1, <1>2 DEF Go
  <1>4. hist.mishaps \subseteq hist'.mishaps /\ hist'.member = hist.member /\ hist'.keys = hist.keys
    BY <1>1 DEF Noted
  <1> SUFFICES ASSUME LiveWatched' PROVE LiveGood'
    BY LiveNext
  <1>5. LiveGood
    BY <1>4, LiveBefore DEF LiveKnow
  <1>6. /\ e \in Nat /\ 1 <= e /\ e <= twitch.events /\ hist'.heard = e /\ (e = hist.heard \/ e = hist.heard + 1)
        /\ (1..hist.heard \subseteq twitch.sent)' /\ (HeardAll' <=> HeardAll) /\ (Streaming' <=> Streaming)
        /\ StreamNo' = StreamNo
    BY <1>1, <1>5, HookIs DEF LiveGood
  <1> SUFFICES ASSUME HeardAll PROVE Aligned' /\ (Airing' => During')
    BY <1>1, <1>6 DEF LiveGood
  <1>7. Aligned /\ (hist.heard % 2 = 0 => Between) /\ (Airing => During)
    BY <1>5 DEF LiveGood
  <1>8. twitch.events > 0
    BY <1>6 DEF BaseInv, Shapes
  <1>9. Aligned' /\ \A p \in Running : ~Clash("online", p.op)
    BY <1>1, <1>3, <1>4, <1>7, <1>8, AlignedOfHook
  <1>10. ASSUME Airing' PROVE During'
    <2>1. Streaming /\ e = twitch.events /\ hist.member
      BY <1>1, <1>4, <1>6, <1>10 DEF Airing
    <2>2. OfStream(row)
      <3>1. CASE e = hist.heard
        BY <1>7, <2>1, <3>1 DEF Airing, During
      <3>2. CASE e = hist.heard + 1
        <4>1. hist.heard % 2 = 0
          <5>1. hist.heard \in Nat /\ (hist.heard + 1) % 2 = 1
            BY <1>1, <3>2 DEF BaseInv, Shapes
          <5>2. \A n \in Nat : (n + 1) % 2 = 1 => n % 2 = 0
            OBVIOUS
          <5> QED
            BY <5>1, <5>2
        <4>2. Between /\ \A p \in Running : p.op # "offline"
          BY <1>7, <1>9, <4>1 DEF Clash
        <4> QED
          BY <4>2 DEF Between, OfStream
      <3> QED
        BY <1>6, <3>1, <3>2
    <2>3. OfStream(row)'
      BY <1>1, <1>4, <1>6, <2>2 DEF OfStream, KeyStream
    <2>4. \A p \in Running : p.op # "online"
      BY <1>9 DEF Clash
    <2>5. ASSUME NEW p \in Running', p.op = "online" PROVE GoesLive(p)'
      <3>1. p = q
        BY <1>3, <2>4, <2>5 DEF JobsAdd
      <3> QED
        BY <1>3, <3>1 DEF GoesLive
    <2>6. q \in Running'
      BY <1>3 DEF JobsAdd
    <2> QED
      BY <1>3, <2>3, <2>5, <2>6 DEF During
  <1> QED
    BY <1>9, <1>10

LEMMA LiveOfGoOffline ==
  ASSUME BaseInv, BaseInv', KeysHeld, LiveKnow, NEW e \in twitch.sent, GoOffline(e)
  PROVE  LiveKnow'
  <1>1. /\ Noted(Beside("offline")) /\ UNCHANGED <<twitch, row, channel>> /\ JobsAdd({Go("offline", "read")})
        /\ e % 2 = 0 /\ ~bot'.live
    BY GoOfflineEffect DEF GoOffline, OfflineThen
  <1>2. PICK m : Delivered(e, "offline", m)
    BY DEF GoOffline, OfflineThen
  <1>3. PICK q : q = Go("offline", "read")
    OBVIOUS
  <1>4. q.op = "offline" /\ q.pc = "read" /\ q.alive /\ JobsAdd({q})
    BY <1>1, <1>3 DEF Go
  <1>5. bot'.loaded = {}
    <2>1. bot \in BotType
      BY ShapesTyped DEF BaseInv, Typed
    <2> QED
      BY <2>1 DEF GoOffline, OfflineThen, BotType
  <1>6. hist.mishaps \subseteq hist'.mishaps /\ hist'.member = hist.member
    BY <1>1 DEF Noted
  <1> SUFFICES ASSUME LiveWatched' PROVE LiveGood'
    BY LiveNext
  <1>7. LiveGood
    BY <1>6, LiveBefore DEF LiveKnow
  <1>8. /\ e \in Nat /\ 1 <= e /\ e <= twitch.events /\ hist'.heard = e
        /\ (1..hist.heard \subseteq twitch.sent)' /\ (HeardAll' <=> HeardAll) /\ (Streaming' <=> Streaming)
    BY <1>1, <1>2, <1>7, HookIs DEF LiveGood
  <1>9. ~Airing'
    BY <1>1, <1>8 DEF Airing, Streaming
  <1> SUFFICES ASSUME HeardAll PROVE Aligned' /\ Between'
    BY <1>8, <1>9 DEF LiveGood
  <1>10. Aligned
    BY <1>7 DEF LiveGood
  <1>11. twitch.events > 0
    BY <1>8 DEF BaseInv, Shapes
  <1>12. Aligned' /\ \A p \in Running : ~Clash("offline", p.op)
    BY <1>1, <1>4, <1>6, <1>8, <1>10, <1>11, AlignedOfHook
  <1>13. Between'
    <2>1. \A p \in Running' : p.op \notin {"online", "load"}
      BY <1>4, <1>12 DEF Clash, JobsAdd
    <2>2. \E p \in Running' : p.op = "offline"
      BY <1>4 DEF JobsAdd
    <2> QED
      BY <1>1, <1>5, <2>1, <2>2 DEF Between
  <1> QED
    BY <1>12, <1>13

LEMMA LiveOfSignIn ==
  ASSUME BaseInv, BaseInv', RowStays, KeysHeld, LiveKnow, SignIn
  PROVE  LiveKnow'
  <1>1. /\ UNCHANGED <<bot, jobs, channel>> /\ hist'.member /\ hist.mishaps \subseteq hist'.mishaps /\ ~row.exists
        /\ Calendar
    BY SignInEffect, RequestCalendar
  <1>2. row' = [NoRow EXCEPT !.exists = TRUE, !.optIn = TRUE]
    BY DEF SignIn
  <1>3. row'.exists /\ row'.optIn /\ ~row'.live
    BY <1>2 DEF NoRow
  <1> SUFFICES ASSUME Aligned, hist.heard % 2 = 0 => Between
               PROVE  Aligned' /\ (hist.heard % 2 = 0 => Between') /\ (Airing' => During')
    BY <1>1, LiveOfCalendar
  <1>4. Running' = Running
    BY <1>1 DEF Running
  <1>5. twitch.events = 0
    BY <1>1 DEF Aligned, BaseInv, Shapes
  <1>6. ~Airing'
    BY <1>1, <1>5 DEF Airing, Streaming, Calendar
  <1>7. \A p \in Running : Present(p) /\ p.op \notin {"online", "offline"} /\ ~p.row.exists
    BY <1>1 DEF Aligned, Present, RowStays
  <1>8. Aligned'
    <2>1. LiveApart' /\ Opted'
      BY <1>1, <1>3, <1>4 DEF Aligned, LiveApart, Opted
    <2>2. ASSUME NEW p \in Running' PROVE Present(p)'
      BY <1>3, <1>4, <1>7 DEF Present
    <2> QED
      BY <1>3, <2>1, <2>2 DEF Aligned
  <1>9. ASSUME Between PROVE Between'
    BY <1>1, <1>3, <1>4, <1>7, <1>9 DEF Between
  <1> QED
    BY <1>6, <1>8, <1>9

LEMMA RestartLoads ==
  ASSUME Restart, NEW e \in Running', e.op = "load"
  PROVE  bot'.live \/ \E o \in Running : o.pc = "write" /\ e = [o EXCEPT !.alive = FALSE]
  <1> DEFINE dead == {[o EXCEPT !.alive = FALSE] : o \in {p \in Running : p.pc = "write"}}
             new == (IF bot'.live THEN {Go("rehydrate", "get")} \cup Loads ELSE {})
                    \cup (IF Tracked' /\ twitch.chatSub THEN {Go("hydrate", "seed")} ELSE {})
  <1>1. jobs' = SetToBag(dead \cup new)
    BY DEF Restart
  <1>2. Running' = dead \cup new
    BY <1>1 DEF Running, BagToSet, SetToBag
  <1>3. Go("hydrate", "seed").op = "hydrate"
    BY DEF Go
  <1>4. CASE e \in dead
    BY <1>4
  <1>5. CASE e \in new
    BY <1>3, <1>5
  <1> QED
    BY <1>2, <1>4, <1>5

LEMMA LiveOfRestart ==
  ASSUME BaseInv, BaseInv', LiveKnow, Restart
  PROVE  LiveKnow'
  <1>1. /\ Noted(Beside("restart")) /\ UNCHANGED <<twitch, row, channel>> /\ Calendar
        /\ bot'.live = (row.optIn /\ row.live) /\ bot'.joined = (channel.permanent \/ (row.optIn /\ row.live))
    BY RestartEffect, RequestCalendar DEF BotIs
  <1>2. bot'.loaded = {}
    BY DEF Restart, Boot
  <1>3. RowSame /\ hist.mishaps \subseteq hist'.mishaps
    BY <1>1 DEF Noted, RowSame
  <1> SUFFICES ASSUME LiveWatched', Aligned, hist.heard % 2 = 0 => Between, Airing => During
               PROVE  Aligned' /\ (hist.heard % 2 = 0 => Between') /\ (Airing' => During')
    BY <1>1, <1>3, LiveOfCalendar
  <1>4. Apart /\ JobsKnow /\ JobsKnow'
    BY ApartIs DEF BaseInv, Aligned
  <1>5. LiveApart' /\ \A e \in Running' : e.op \notin {"online", "offline"}
    BY <1>1, <1>4, ApartOfRestart
  <1>6. \A o \in Running : o.op \notin {"online", "offline"}
    BY <1>1, RestartClashes
  <1>7. Aligned'
    <2>1. ASSUME NEW e \in Running' PROVE Present(e)'
      <3>1. CASE e.op = "join"
        <4>1. PICK o \in Running : o.pc = "write" /\ e.op = o.op /\ e.pc = "write" /\ e.row = o.row /\ e.n = o.n
          BY <1>4, <3>1, Outlives
        <4>2. Present(o)
          BY DEF Aligned
        <4>3. Present(e)
          BY <3>1, <4>1, <4>2 DEF Present
        <4> QED
          BY <1>1, <1>3, <4>3, PresentSame
      <3>2. CASE e.op # "join"
        BY <1>5, <3>2 DEF Present
      <3> QED
        BY <3>1, <3>2
    <2>2. Opted' /\ (twitch.hears \/ twitch.events > 0 => row.exists)'
      BY <1>1, <1>3 DEF Aligned, Opted, RowSame
    <2> QED
      BY <1>5, <2>1, <2>2 DEF Aligned
  <1>8. ASSUME Between PROVE Between'
    <2>1. ~row.live /\ \A p \in Running : p.pc = "write" => ~p.row.live
      BY <1>6, <1>8 DEF Between
    <2>2. ~bot'.live
      BY <1>1, <2>1
    <2>3. ASSUME NEW e \in Running', e.op = "load" PROVE FALSE
      <3>1. PICK o \in Running : o.pc = "write" /\ e = [o EXCEPT !.alive = FALSE]
        BY <2>2, <2>3, RestartLoads
      <3>2. o \in Jobs /\ IsJob(o)
        BY <1>4 DEF JobsKnow, IsJob
      <3>3. e.op = o.op
        BY <3>1, <3>2 DEF Jobs
      <3> QED
        BY <2>3, <3>1, <3>2, <3>3, WritersAre
    <2>4. ASSUME NEW e \in Running', e.pc = "write" PROVE ~e.row.live
      <3>1. <<e.op, e.pc>> \in Steps
        BY <1>4 DEF JobsKnow, IsJob
      <3>2. e.op \in {"online", "offline", "join", "banish"}
        BY <2>4, <3>1 DEF Steps
      <3>3. PICK o \in Running : o.pc = "write" /\ e.row = o.row
        BY <1>4, <3>2, Outlives
      <3> QED
        BY <2>1, <3>3
    <2>5. \A e \in Running' : e.op \notin {"online", "load"}
      BY <1>5, <2>3
    <2> QED
      BY <1>1, <1>2, <2>1, <2>2, <2>4, <2>5 DEF Between
  <1>9. ASSUME Airing PROVE During'
    <2>1. row.optIn /\ row.live /\ OfStream(row)
      BY <1>6, <1>9, AiringIs DEF During
    <2>2. bot'.live /\ bot'.joined /\ row'.live
      BY <1>1, <2>1
    <2>3. OfStream(row)'
      BY <1>1, <1>3, <2>1 DEF OfStream, KeyStream, StreamNo, RowSame
    <2> QED
      BY <1>5, <2>2, <2>3 DEF During
  <1> QED
    BY <1>1, <1>3, <1>7, <1>8, <1>9, AiringSame

LEMMA LiveStep ==
  ASSUME BaseInv, BaseInv', RowStays, KeysKnow, LiveKnow, [Next]_vars
  PROVE  LiveKnow'
  <1>1. KeysHeld
    BY DEF KeysKnow
  <1>2. CASE StreamTurns
    BY <1>1, <1>2, LiveOfTurn
  <1>3. CASE Mod \/ Revocation \/ GrantStarts \/ Roll \/ JoinMe \/ Banish \/ UNCHANGED vars
    BY <1>3, LiveOfRequest
  <1>4. ASSUME NEW e \in twitch.sent, GoLive(e) \/ GoOffline(e) PROVE LiveKnow'
    BY <1>1, <1>4, LiveOfGoLive, LiveOfGoOffline
  <1>5. CASE SignIn
    BY <1>1, <1>5, LiveOfSignIn
  <1>6. CASE Restart
    BY <1>6, LiveOfRestart
  <1>7. ASSUME NEW o \in Running, JobStep(o) PROVE LiveKnow'
    BY <1>7, LiveOfJob
  <1> QED
    BY <1>2, <1>3, <1>4, <1>5, <1>6, <1>7 DEF Next

LEMMA LiveSettled ==
  ASSUME BaseInv, LiveKnow
  PROVE  LiveConverges
  <1> SUFFICES ASSUME Settled, hist.member, LiveWatched
               PROVE  /\ bot.live = Streaming /\ row.live = Streaming
                      /\ Streaming => bot.joined /\ KeyStream(row.key) = StreamNo
                      /\ Streaming \/ bot.loaded = {}
    BY DEF LiveConverges, LiveWatched, LiveExcepted
  <1>1. Running = {} /\ hist.heard = twitch.events /\ LiveGood
    BY DEF Settled, Quiet, LiveKnow
  <1>2. Aligned /\ (hist.heard % 2 = 0 => Between) /\ (Airing => During)
    BY <1>1 DEF LiveGood, HeardAll
  <1>3. bot.live \in BOOLEAN /\ row.live \in BOOLEAN /\ twitch.events \in Nat
    BY DEF BaseInv, Shapes, Ranges, Rows
  <1>4. CASE Streaming
    <2>1. During
      BY <1>1, <1>2, <1>4 DEF Airing
    <2>2. ~Doomed
      BY <1>1 DEF Doomed
    <2> QED
      BY <1>1, <1>3, <1>4, <2>1, <2>2 DEF During, OfStream, Streaming
  <1>5. CASE ~Streaming
    <2>1. hist.heard % 2 = 0
      BY <1>1, <1>3, <1>5 DEF Streaming
    <2>2. ~bot.live /\ ~row.live /\ bot.loaded = {}
      BY <1>1, <1>2, <2>1 DEF Between
    <2> QED
      BY <1>3, <1>5, <2>2 DEF Streaming
  <1> QED
    BY <1>4, <1>5

LEMMA LiveAtFirst ==
  ASSUME BaseInv, Running = {}, twitch.events = 0, twitch.hears = row.optIn, hist.heard = 0, hist.member = row.optIn,
         row.live => {"skipped"} \in hist.mishaps, bot.live => row.live, bot.loaded = {}, row.optIn => row.exists
  PROVE  LiveKnow
  <1> SUFFICES ASSUME LiveWatched PROVE LiveGood
    BY DEF LiveKnow
  <1>1. ~row.live
    BY ExceptedIs DEF LiveWatched, Without
  <1>2. Aligned
    BY DEF Aligned, LiveApart, Opted
  <1>3. Between
    BY <1>1 DEF Between
  <1>4. ~Airing
    BY DEF Airing, Streaming
  <1> QED
    BY <1>2, <1>3, <1>4 DEF LiveGood

-----------------------------------------------------------------------------
(* The beginning, and the theorems.                                        *)

LEMMA InitChannel == Init => ChannelInv
  <1> SUFFICES ASSUME Init PROVE ChannelInv
    OBVIOUS
  <1>1. PICK s \in Starts : row = s.row /\ left = s.left /\ channel = [permanent |-> s.permanent, loads |-> s.loads]
    BY DEF Init
  <1>2. /\ s.left \in [Requests -> Nat] /\ s.permanent \in BOOLEAN /\ s.loads \subseteq {"custom", "stalk"}
        /\ s.row \in [exists : BOOLEAN, live : BOOLEAN, key : 0..1, optIn : BOOLEAN]
    <2>1. s.left \in [Requests -> Nat] /\ s.permanent \in BOOLEAN /\ s.loads \subseteq {"custom", "stalk"}
      BY ConstantsAssumption
    <2>2. s.row = NoRow \/ s.row \in Users
      BY ConstantsAssumption
    <2>3. NoRow \in [exists : BOOLEAN, live : BOOLEAN, key : 0..1, optIn : BOOLEAN]
      BY DEF NoRow
    <2>4. Users \subseteq [exists : BOOLEAN, live : BOOLEAN, key : 0..1, optIn : BOOLEAN]
      BY DEF Users
    <2> QED
      BY <2>1, <2>2, <2>3, <2>4
  <1>3. /\ row \in Rows /\ row.key \in 0..1 /\ row.optIn \in BOOLEAN
        /\ channel \in [permanent : BOOLEAN, loads : SUBSET {"custom", "stalk"}]
        /\ left \in [Requests -> Nat] /\ (row.key # 0 => row.exists)
    <2>1. NoRow.key = 0 /\ \A r \in Users : r.exists
      BY DEF NoRow, Users
    <2> QED
      BY <1>1, <1>2, <2>1, ConstantsAssumption DEF Rows
  <1>4. jobs = EmptyBag /\ Running = {} /\ jobs \in [Running -> Nat \ {0}]
    BY DEF Init, Running, EmptyBag, BagToSet, SetToBag
  <1>5. /\ bot \in BotType /\ ~bot.joining /\ ~bot.granting /\ bot.joining = FALSE /\ bot.granting = FALSE
        /\ bot.live = (row.optIn /\ row.live) /\ bot.joined = (channel.permanent \/ (row.optIn /\ row.live))
        /\ bot.channels = IF row.optIn THEN <<FALSE>> ELSE <<>>
    <2>1. <<>> \in Seq(BOOLEAN) /\ <<FALSE>> \in Seq(BOOLEAN)
      OBVIOUS
    <2>2. PICK ch \in Seq(BOOLEAN) : ch = IF row.optIn THEN <<FALSE>> ELSE <<>>
      BY <2>1, Zenon
    <2>3. PICK l \in BOOLEAN, j \in BOOLEAN :
            l = (row.optIn /\ row.live) /\ j = (channel.permanent \/ (row.optIn /\ row.live))
      OBVIOUS
    <2>4. bot = [live |-> l, joined |-> j, channels |-> ch, joining |-> FALSE, granting |-> FALSE,
                 loaded |-> {}, rolls |-> 0]
      BY <2>2, <2>3 DEF Init, Boot
    <2>5. /\ bot \in BotType /\ bot.live = l /\ bot.joined = j /\ bot.channels = ch
          /\ bot.joining = FALSE /\ bot.granting = FALSE
      BY <2>4 DEF BotType
    <2> QED
      BY <2>2, <2>3, <2>5
  <1>6. /\ hist \in HistType /\ hist.member = row.optIn
        /\ row.key <= Len(hist.keys) /\ usage = [key |-> row.key, count |-> row.key]
    <2>1. <<>> \in Seq(Nat) /\ <<0>> \in Seq(Nat)
      OBVIOUS
    <2>2. PICK ks \in Seq(Nat) : ks = IF row.key = 0 THEN <<>> ELSE <<0>>
      BY <2>1
    <2>3. row.key <= Len(ks)
      BY <1>3, <2>2
    <2>4. PICK m \in SUBSET SUBSET Words : m = IF row.live THEN {{"skipped"}} ELSE {}
      <3>1. {{"skipped"}} \in SUBSET SUBSET Words
        BY DEF Words
      <3> QED
        BY <3>1
    <2>5. hist = [heard |-> 0, member |-> row.optIn, keys |-> ks, served |-> 0, refused |-> 0,
                  reset |-> 0, mishaps |-> m]
      BY <2>2, <2>4 DEF Init
    <2>6. hist \in HistType /\ hist.keys = ks /\ hist.member = row.optIn
      BY <1>3, <2>5 DEF HistType
    <2> QED
      BY <2>3, <2>6 DEF Init
  <1>7. twitch \in TwitchType /\ twitch.sent = {}
    BY <1>3 DEF Init, TwitchType
  <1>8. BaseInv
    <2>1. Shapes
      BY <1>3, <1>5, <1>6, <1>7, ShapesTyped DEF Typed
    <2>2. JobsKnow
      BY <1>4 DEF JobsKnow
    <2>3. Ranges
      BY <1>3, <1>6, <1>7 DEF Ranges, Rows, HistType
    <2> QED
      BY <2>1, <2>2, <2>3 DEF BaseInv
  <1>9. ClaimsKnow
    <2>1. Held("join") = {} /\ Held("grant") = {}
      BY <1>4 DEF Held
    <2>2. InFlight("join") = FALSE /\ InFlight("grant") = FALSE
      BY <1>4 DEF InFlight
    <2>3. Len(bot.channels) <= 1
      <3>1. Len(<<FALSE>>) = 1 /\ Len(<<>>) = 0
        OBVIOUS
      <3>2. CASE row.optIn
        BY <1>5, <3>1, <3>2
      <3>3. CASE ~row.optIn
        BY <1>5, <3>1, <3>3
      <3> QED
        BY <3>2, <3>3
    <2>4. TrackedOnce
      BY <1>5, <2>2, <2>3 DEF TrackedOnce
    <2>5. Single("join") /\ Single("grant")
      BY <2>1 DEF Single
    <2> QED
      BY <2>1, <2>4, <2>5 DEF ClaimsKnow
  <1>10. PrivsKnow
    <2>1. ~Flagged
      BY <1>5 DEF Flagged, Tracked
    <2> QED
      BY <1>4, <2>1, PrivsAre
  <1>11. BanishKnow
    <2>1. ASSUME Open, Out PROVE StaysOut
      <3>1. ~row.optIn /\ ~channel.permanent
        BY <1>6, <2>1 DEF Out, Open
      <3> QED
        BY <1>4, <1>5, <3>1 DEF StaysOut, Tracked
    <2> QED
      BY <1>4, <2>1, BanishAre DEF Banishing
  <1>12. KeysKnow
    <2>1. twitch.events = 0 /\ hist.heard = 0 /\ StreamNo = 0
      BY DEF Init, StreamNo
    <2>2. hist.keys = <<>> \/ (row.key # 0 /\ hist.keys = <<0>>)
      BY DEF Init
    <2>3. KeysHeld
      BY <1>3, <2>1, <2>2 DEF KeysHeld
    <2>4. KeysGood
      BY <1>4, <2>1, <2>2 DEF KeysGood, Issued, EndHeard
    <2> QED
      BY <2>3, <2>4, KeysAre
  <1>13. DadKnow
    <2>1. /\ twitch.events = 0 /\ hist.heard = 0 /\ hist.reset = 0 /\ hist.served = 0 /\ hist.refused = 0
      BY DEF Init
    <2>2. ~Streaming
      BY <2>1 DEF Streaming
    <2>3. RollsHeld
      BY <1>4, <2>1 DEF RollsHeld
    <2>4. DadGood
      BY <1>4, <2>1, <2>2, ConstantsAssumption DEF DadGood, Tally
    <2> QED
      BY <2>3, <2>4, DadAre
  <1>14. LiveKnow
    <2>1. twitch.events = 0 /\ twitch.hears = row.optIn /\ hist.heard = 0 /\ bot.loaded = {}
      BY DEF Init, Boot
    <2>2. row.live => {"skipped"} \in hist.mishaps
      BY DEF Init
    <2>3. bot.live => row.live
      BY <1>5
    <2>4. row.optIn => row.exists
      <3>1. ~NoRow.optIn /\ \A r \in Users : r.exists
        BY DEF NoRow, Users
      <3> QED
        BY <1>1, <3>1, ConstantsAssumption
    <2> QED
      BY <1>4, <1>6, <1>8, <2>1, <2>2, <2>3, <2>4, LiveAtFirst
  <1> QED
    BY <1>4, <1>8, <1>9, <1>10, <1>11, <1>12, <1>13, <1>14 DEF ChannelInv, RowStays

\* The strengthening is inductive: whatever the requests, failures, restarts and the order of
\* the handlers and goroutines of the bot in the channel.
THEOREM ChannelInductive == Spec => []ChannelInv
  <1>1. ChannelInv /\ [Next]_vars => ChannelInv'
    BY ClaimsStep, RowStaysStep, PrivsStep, BanishStep, KeysStep, DadKeeps, LiveStep DEF ChannelInv
  <1> QED
    BY <1>1, InitChannel, PTL DEF Spec

\* The types of the bot's memory, of the row, and of what each handler and goroutine has read.
THEOREM ChannelTypes == Spec => []TypeOK
  <1>1. ChannelInv => TypeOK
    BY BaseTypes DEF ChannelInv
  <1> QED
    BY <1>1, ChannelInductive, PTL

\* config.Channels holds the channel at most once, and joinInFlight and grantInFlight are held
\* exactly while a !joinme or a grant is under way: isTrackedChannel and tryGrantChatRead.
THEOREM ClaimsAreGivenBack == Spec => []TrackedOnce
  <1>1. ChannelInv => TrackedOnce
    BY DEF ChannelInv, ClaimsKnow
  <1> QED
    BY <1>1, ChannelInductive, PTL

\* hasPrivs is what Twitch says: tryGrantChatRead, handleRevocation and hydrateChatReadPrivs.
THEOREM PrivsReal == Spec => []PrivsAreReal
  <1>1. ASSUME ChannelInv PROVE PrivsAreReal
    <2>1. Quiet => Held("banish") = {}
      BY DEF Quiet, Held
    <2>2. PrivsKnow /\ twitch.revoked \in Nat
      BY <1>1 DEF ChannelInv, BaseInv, Shapes
    <2> QED
      BY <2>1, <2>2 DEF PrivsAreReal, PrivsKnow, Granted
  <1> QED
    BY <1>1, ChannelInductive, PTL

\* banishChannel: once it is over nothing of the channel stays or comes back.
THEOREM BanishIsKept == Spec => []BanishSticks
  <1>1. ASSUME ChannelInv PROVE BanishSticks
    <2>1. Quiet => Held("join") = {} /\ ~\E o \in Running : o.op = "banish" /\ o.pc = "filter"
      BY DEF Quiet, Held
    <2>2. BanishKnow
      BY <1>1 DEF ChannelInv
    <2> QED
      BY <2>1, <2>2 DEF BanishSticks, BanishKnow, Undisturbed
  <1> QED
    BY <1>1, ChannelInductive, PTL

\* PutChannelState: no two keys are of one stream.
THEOREM KeyIsTheStreams == Spec => []KeyPerStream
  <1>1. ChannelInv => KeyPerStream
    BY DEF ChannelInv, KeysKnow, KeysWatched, KeyPerStream
  <1> QED
    BY <1>1, ChannelInductive, PTL

\* checkDadLimit: in one stream a chatter is served up to the limit and warned once, restarts included.
THEOREM AllotmentIsKept == Spec => []DadAllotment
  <1>1. ASSUME ChannelInv PROVE DadAllotment
    <2>1. DadWatched => Tally
      BY <1>1 DEF ChannelInv, DadKnow
    <2> QED
      BY <2>1 DEF DadAllotment, DadWatched, Tally
  <1> QED
    BY <1>1, ChannelInductive, PTL

\* handleGoLive and handleGoOffline: once the last event of the stream is handled, bot and row
\* agree with Twitch, and the stream has a key of its own.
THEOREM ChannelConverges == Spec => []LiveConverges
  <1>1. ChannelInv => LiveConverges
    BY LiveSettled DEF ChannelInv
  <1> QED
    BY <1>1, ChannelInductive, PTL
=============================================================================
