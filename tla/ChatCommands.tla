---------------------------- MODULE ChatCommands ----------------------------
(***************************************************************************)
(* The commands in a chat message, run by the goroutine that handles it    *)
(* (ChatMessages) through core-api (api/core_api_client.go), next to the   *)
(* dashboard's requests, over the rows of one channel: !fish, !lurk and    *)
(* !bread counts, the !stalk target with its last line, and the promo.     *)
(* A service that finds a row and saves it writes all of its columns.      *)
(***************************************************************************)
EXTENDS ChatMessages

CONSTANTS
  Scripts, \* the chats explored: what is said, asked on the dashboard, and already stored
  Mods,    \* chatters who are moderators, or the broadcaster
  None     \* no line, no target

VARIABLES
  says,    \* the commands of each message, in order
  asks,    \* dashboard requests not sent yet
  slips,   \* failures and timeouts still to come
  todo,    \* what each goroutine has still to run
  calls,   \* requests in core-api, by caller, and what it does with the answer
  rows,    \* the tables: row by key
  nextId,  \* the next row's id
  watch,   \* stalk[channel]: who is watched and that chatter's last line
  quoted,  \* history: what !stalk said
  paused,  \* history: the dashboard paused the promo last
  met,     \* history: kinds of requests that were under way at once, by row
  slipped  \* history: rows a request about which failed or timed out

tables == <<rows, nextId>>
histories == <<quoted, paused, met, slipped>>
commandOnly == <<says, asks, slips, todo, calls, tables, watch, histories>>
commandVars == <<chatVars, commandOnly>>

Counters == {"fish", "lurk", "bread"}
Stalks == {"get", "set", "unset", "last"}
Promos == {"create", "edit", "drop", "update", "remove"}
ForMods == {"set", "unset", "create", "edit", "drop"}

\* A request: whose it is and about whom; a counter has a row per chatter.
Asks(op, who, arg) == [op |-> op, who |-> who, arg |-> arg]
Stalk == <<"stalk">>
Promo == <<"promo">>
Key(o) == CASE o.op \in Counters -> <<o.op, o.who>>
            [] o.op \in Stalks -> Stalk
            [] OTHER -> Promo
NoRow == [id |-> 0]
Put(f, k, v) == [j \in DOMAIN f \cup {k} |-> IF j = k THEN v ELSE f[j]]
RowOf(k) == IF k \in DOMAIN rows THEN rows[k] ELSE NoRow
NoWatch == [target |-> None, last |-> None]

\* The bot's goroutines and its boot wait for the answer; a dashboard, the goroutine that
\* persists a line, and a request its caller gave up on do not.
Waiting == Goroutines \cup {"boot"}
Free(g) == hand[g].pc = "contains" /\ g \notin DOMAIN calls
At(c, op, pc) == calls[c].op = op /\ calls[c].pc = pc
Row(c) == RowOf(Key(calls[c]))
AtCore(c) == calls[c].pc \in {"find", "insert", "upsert", "save", "again", "delete"}
UnderWay(c) == AtCore(c) \/ (calls[c].op \in Stalks /\ calls[c].pc \in {"done", "hydrate", "quote"})

Elsewhere == <<chatVars, says, asks, slips, todo, met, slipped>>

First(op) == CASE op = "bread" -> "upsert" [] op = "create" -> "insert"
               [] op = "remove" -> "delete" [] OTHER -> "find"
\* The dashboard names the promo its page shows.
Sent(c, o) ==
  Put(calls, c, [op |-> o.op, who |-> o.who, arg |-> o.arg, pc |-> First(o.op),
                 row |-> IF c = "dashboard" THEN RowOf(Key(o)) ELSE NoRow])
Meeting(c, o) ==
  met \cup {<<Key(o), {o.op, calls[d].op}>> :
              d \in {e \in DOMAIN calls : UnderWay(e) /\ Key(calls[e]) = Key(o)}}
Over(c) == Restrict(calls, DOMAIN calls \ {c})
Moved(c, pc, row) ==
  IF pc \in {"done", "error"} /\ c \notin Waiting THEN Over(c)
  ELSE [calls EXCEPT ![c] = [@ EXCEPT !.pc = pc, !.row = row]]

\* A chat about the auto-shout list, or one of commands in which nobody is due a shoutout.
CommandInit ==
  /\ \E s \in Scripts :
       /\ says = s.says /\ asks = s.asks /\ slips = s.slips
       /\ rows = s.rows
       /\ calls = IF s.boot THEN [c \in {"boot"} |-> [op |-> "get", who |-> None, arg |-> None,
                                                     pc |-> "find", row |-> NoRow]]
                  ELSE << >>
       /\ IF DOMAIN s.says = {} THEN ChatInit ELSE ChatInitShouted(s.again)
  /\ todo = [g \in Goroutines |-> << >>] /\ nextId = 2 /\ watch = NoWatch
  /\ quoted = {} /\ met = {} /\ slipped = {}
  /\ paused = (Promo \in DOMAIN rows /\ ~rows[Promo].enabled)
-----------------------------------------------------------------------------
(* The message's goroutine.                                                *)

\* Twitch delivers what the script says; a message that passes the filter is read.
DeliverScript(g, m) ==
  /\ DOMAIN says # {} => m \in DOMAIN says
  /\ Deliver(g, m)
  /\ UNCHANGED commandOnly

AskScript(g) ==
  LET m == hand[g].msg passed == Len(taken') > Len(taken) IN
  /\ Ask(g)
  /\ passed /\ m \in DOMAIN says => hand'[g].pc = "contains"
  /\ todo' = IF passed /\ m \in DOMAIN says THEN [todo EXCEPT ![g] = says[m]] ELSE todo
  /\ UNCHANGED <<says, asks, slips, calls, tables, watch, histories>>

\* The next command is sent to core-api; one for moderators gets anybody else a reply only.
Dispatch(g) ==
  LET o == Head(todo[g]) IN
  /\ Free(g) /\ todo[g] # << >> /\ o.op # "line"
  /\ todo' = [todo EXCEPT ![g] = Tail(@)]
  /\ IF o.op \in ForMods /\ o.who \notin Mods THEN UNCHANGED <<calls, met>>
     ELSE calls' = Sent(g, o) /\ met' = Meeting(g, o)
  /\ UNCHANGED <<chatVars, says, asks, slips, tables, watch, quoted, paused, slipped>>

\* A line of the watched chatter is remembered, and a goroutine stores it.
Remember(g) ==
  LET m == hand[g].msg  o == Asks("last", Author[m], m) IN
  /\ Free(g) /\ todo[g] # << >> /\ Head(todo[g]).op = "line"
  /\ todo' = [todo EXCEPT ![g] = Tail(@)]
  /\ IF watch.target = Author[m] /\ watch.last # m
     THEN watch' = [watch EXCEPT !.last = m] /\ calls' = Sent(m, o) /\ met' = Meeting(m, o)
     ELSE UNCHANGED <<watch, calls, met>>
  /\ UNCHANGED <<chatVars, says, asks, slips, tables, quoted, paused, slipped>>

\* The answer, or the failure, is said, and the goroutine goes on.
Replied(g) ==
  /\ calls[g].pc = "error" \/ (calls[g].pc = "done" /\ calls[g].op \notin Stalks)
  /\ calls' = Over(g)
  /\ UNCHANGED <<chatVars, says, asks, slips, todo, tables, watch, histories>>

\* !newpromo and !stalk return; what other messages hold is followed by the auto-shout list.
Prefixed(m) == m \in DOMAIN says /\ \E i \in DOMAIN says[m] : says[m][i].op \in Stalks \cup Promos
Finish(g) ==
  /\ Free(g) /\ todo[g] = << >>
  /\ IF Prefixed(hand[g].msg)
     THEN Ends(g) /\ UNCHANGED <<cache, up, taken, list, fetch, key, stamped, stamps, shouts, twitch>>
     ELSE IsListed(g)
  /\ UNCHANGED commandOnly

\* The HTTP client stops waiting after 10 s; core-api does not.
TimesOut(c) ==
  /\ slips > 0 /\ c \in Waiting /\ AtCore(c) /\ "orphan" \notin DOMAIN calls
  /\ slips' = slips - 1 /\ slipped' = slipped \cup {Key(calls[c])}
  /\ calls' = Put([calls EXCEPT ![c].pc = "error"], "orphan", calls[c])
  /\ UNCHANGED <<chatVars, says, asks, todo, tables, watch, quoted, paused, met>>

Dashboard(o) ==
  /\ "dashboard" \notin DOMAIN calls
  /\ asks' = asks \ {o}
  /\ calls' = Sent("dashboard", o) /\ met' = Meeting("dashboard", o)
  /\ UNCHANGED <<chatVars, says, slips, todo, tables, watch, quoted, paused, slipped>>

\* setStalkWatch: another target forgets the line of the last one.
Watching(t) == IF watch.target = t THEN watch ELSE [target |-> t, last |-> None]
Holds(c) == UNCHANGED <<chatVars, says, asks, slips, todo, tables, paused, met, slipped>>

\* !stalk refreshes the watch from the row it got; the boot does not drop one.
InstallTarget(c) ==
  /\ At(c, "get", "done")
  /\ IF calls[c].row = NoRow
     THEN watch' = (IF c = "boot" THEN watch ELSE NoWatch) /\ calls' = Over(c)
     ELSE watch' = Watching(calls[c].row.target) /\ calls' = Moved(c, "hydrate", calls[c].row)
  /\ UNCHANGED quoted /\ Holds(c)

\* The stored line is taken when memory has none.
HydrateLast(c) ==
  /\ At(c, "get", "hydrate")
  /\ watch' = IF watch # NoWatch /\ watch.last = None
              THEN [watch EXCEPT !.last = calls[c].row.last] ELSE watch
  /\ calls' = IF c = "boot" THEN Over(c) ELSE Moved(c, "quote", calls[c].row)
  /\ UNCHANGED quoted /\ Holds(c)

Quote(g) ==
  /\ At(g, "get", "quote")
  /\ quoted' = IF watch.last # None THEN quoted \cup {<<watch.target, watch.last>>} ELSE quoted
  /\ calls' = Over(g)
  /\ UNCHANGED watch /\ Holds(g)

SetApplies(g) ==
  /\ At(g, "set", "done")
  /\ watch' = Watching(calls[g].arg) /\ calls' = Over(g)
  /\ UNCHANGED quoted /\ Holds(g)

UnsetApplies(g) ==
  /\ At(g, "unset", "done")
  /\ watch' = NoWatch /\ calls' = Over(g)
  /\ UNCHANGED quoted /\ Holds(g)
-----------------------------------------------------------------------------
(* What a service does to its row: an image of it, changed, is saved whole. *)

Finds(c, op, absent, present, Change(_)) ==
  /\ At(c, op, "find")
  /\ calls' = IF Row(c) = NoRow THEN Moved(c, absent, NoRow) ELSE Moved(c, present, Change(Row(c)))
  /\ UNCHANGED <<tables, paused, watch, quoted, Elsewhere>>

\* A second row of the channel, or of a chatter in it, violates a UNIQUE constraint.
Inserts(c, op, pc, row, image) ==
  /\ At(c, op, "insert")
  /\ IF Row(c) = NoRow
     THEN /\ rows' = Put(rows, Key(calls[c]), row) /\ nextId' = nextId + 1
          /\ calls' = Moved(c, pc, image)
     ELSE calls' = Moved(c, "error", NoRow) /\ UNCHANGED tables
  /\ UNCHANGED <<watch, quoted, Elsewhere>>

\* UpdateReturning fails when the row has gone; one inserted since has another id.
SavesImage(c, pc, image) ==
  /\ IF Row(c).id = image.id
     THEN rows' = Put(rows, Key(calls[c]), image) /\ calls' = Moved(c, pc, image)
     ELSE calls' = Moved(c, "error", NoRow) /\ UNCHANGED rows
  /\ UNCHANGED <<nextId, watch, quoted, Elsewhere>>
Saves(c, op, from, pc) == At(c, op, from) /\ SavesImage(c, pc, calls[c].row) /\ UNCHANGED paused

Deletes(c, op) ==
  /\ At(c, op, "delete")
  /\ rows' = IF Row(c).id = calls[c].row.id THEN Restrict(rows, DOMAIN rows \ {Key(calls[c])}) ELSE rows
  /\ calls' = Moved(c, "done", NoRow)
  /\ UNCHANGED <<nextId, paused, watch, quoted, Elsewhere>>

\* A query fails.  GoFishing goes on without the write.
Fails(c) ==
  /\ slips > 0 /\ AtCore(c)
  /\ slips' = slips - 1 /\ slipped' = slipped \cup {Key(calls[c])}
  /\ \E pc \in CASE At(c, "fish", "save") -> {"again", "done"} [] At(c, "fish", "again") -> {"done"}
                 [] OTHER -> {"error"} :
       calls' = Moved(c, pc, calls[c].row)
  /\ UNCHANGED <<chatVars, says, asks, todo, tables, watch, quoted, paused, met>>

Same(row) == row
Counted(row) == [row EXCEPT !.count = @ + 1]
NewCount(n) == [id |-> nextId, count |-> n]

\* GoFishing: a catch is saved before the leaderboard is read, and again after.
FindScore(c) == Finds(c, "fish", "insert", "save", Counted)
InsertScore(c) == Inserts(c, "fish", "save", NewCount(0), NewCount(1)) /\ UNCHANGED paused
SaveScore(c) == \E pc \in {"again", "done"} : Saves(c, "fish", "save", pc)
SaveAgainAs(c, Change(_)) ==
  At(c, "fish", "again") /\ SavesImage(c, "done", Change(calls[c].row)) /\ UNCHANGED paused
\* Mutant: the second save counts, too.
SaveScoreTwice(c) == SaveAgainAs(c, Counted)
SaveScoreAgain(c) == SaveAgainAs(c, Same)

FindLurker(c) == Finds(c, "lurk", "insert", "save", Counted)
InsertLurker(c) == Inserts(c, "lurk", "save", NewCount(0), NewCount(1)) /\ UNCHANGED paused
SaveLurker(c) == Saves(c, "lurk", "save", "done")

\* One statement inserts or adds.
BakeBread(c) ==
  /\ At(c, "bread", "upsert")
  /\ rows' = Put(rows, Key(calls[c]), IF Row(c) = NoRow THEN NewCount(1) ELSE Counted(Row(c)))
  /\ nextId' = nextId + 1 /\ calls' = Moved(c, "done", NoRow)
  /\ UNCHANGED <<paused, watch, quoted, Elsewhere>>

GetTarget(c) == Finds(c, "get", "done", "done", Same)
SetFindsWith(c, kept) ==
  Finds(c, "set", "insert", "save",
        LAMBDA row : [row EXCEPT !.target = calls[c].arg,
                                 !.last = IF row.target = calls[c].arg THEN @ ELSE kept])
\* Mutant: another target keeps the line.
SetFindsKeeping(c) == SetFindsWith(c, Row(c).last)
SetFinds(c) == SetFindsWith(c, None)
NewTarget(t) == [id |-> nextId, target |-> t, last |-> None]
SetInserts(c) ==
  Inserts(c, "set", "done", NewTarget(calls[c].arg), NoRow) /\ UNCHANGED paused
SetSaves(c) == Saves(c, "set", "save", "done")

\* A line is stored unless the target has changed.
LastFinds(c) ==
  Finds(c, "last", "done", IF Row(c).target = calls[c].who THEN "save" ELSE "done",
        LAMBDA row : [row EXCEPT !.last = calls[c].arg])
\* Mutant: only the line's column is written.
LastSavesColumn(c) ==
  /\ At(c, "last", "save") /\ Row(c) # NoRow
  /\ SavesImage(c, "done", [Row(c) EXCEPT !.last = calls[c].arg]) /\ UNCHANGED paused
LastSaves(c) == Saves(c, "last", "save", "done")
UnsetFinds(c) == Finds(c, "unset", "done", "delete", Same)
UnsetDeletes(c) == Deletes(c, "unset")

CreatePromo(c) ==
  /\ Inserts(c, "create", "done", [id |-> nextId, enabled |-> TRUE], NoRow)
  /\ paused' = IF rows' = rows THEN paused ELSE FALSE
\* Chat's edit keeps what the row says of enabled, the dashboard's says it.
EditAs(c, Change(_)) == Finds(c, "edit", "done", "save", Change)
\* Mutant: an edited promo is enabled.
EditEnables(c) == EditAs(c, LAMBDA row : [row EXCEPT !.enabled = TRUE])
EditFinds(c) == EditAs(c, Same)
EditSaves(c) == Saves(c, "edit", "save", "done")
DropFinds(c) == Finds(c, "drop", "done", "delete", Same)
DropDeletes(c) == Deletes(c, "drop")
UpdateFinds(c) ==
  Finds(c, "update", "error", IF Row(c).id = calls[c].row.id THEN "save" ELSE "error",
        LAMBDA row : [row EXCEPT !.enabled = calls[c].arg])
UpdateSaves(c) ==
  /\ At(c, "update", "save") /\ SavesImage(c, "done", calls[c].row)
  /\ paused' = IF Row(c).id = calls[c].row.id THEN ~calls[c].arg ELSE paused
RemoveDeletes(c) == Deletes(c, "remove")
-----------------------------------------------------------------------------
Counting(c) ==
  FindScore(c) \/ InsertScore(c) \/ SaveScore(c) \/ SaveScoreAgain(c)
    \/ FindLurker(c) \/ InsertLurker(c) \/ SaveLurker(c) \/ BakeBread(c)
Stalking(c) ==
  GetTarget(c) \/ SetFinds(c) \/ SetInserts(c) \/ SetSaves(c) \/ LastFinds(c) \/ LastSaves(c)
    \/ UnsetFinds(c) \/ UnsetDeletes(c)
Promoting(c) ==
  CreatePromo(c) \/ EditFinds(c) \/ EditSaves(c) \/ DropFinds(c) \/ DropDeletes(c)
    \/ UpdateFinds(c) \/ UpdateSaves(c) \/ RemoveDeletes(c)

CommandNext ==
  /\ up
  /\ \/ \E g \in Goroutines :
          \/ \E m \in Messages : DeliverScript(g, m)
          \/ AskScript(g) \/ Dispatch(g) \/ Remember(g) \/ Finish(g)
          \/ (Shout(g) \/ Index(g) \/ Delete(g) \/ Store(g)) /\ UNCHANGED commandOnly
     \/ \E c \in Waiting \cap DOMAIN calls : Replied(c) \/ TimesOut(c) \/ InstallTarget(c) \/ HydrateLast(c)
                                          \/ Quote(c) \/ SetApplies(c) \/ UnsetApplies(c)
     \/ \E c \in DOMAIN calls : Counting(c) \/ Stalking(c) \/ Promoting(c) \/ Fails(c)
     \/ \E o \in asks : Dashboard(o)
     \/ ListStep /\ UNCHANGED commandOnly

CommandSpec == CommandInit /\ [][CommandNext]_commandVars
-----------------------------------------------------------------------------
Resting == (\A g \in Goroutines : hand[g].pc = "idle") /\ DOMAIN calls = {}
Apart(k, ops) == <<k, ops>> \notin met

\* The commands about the row k that Twitch has delivered, and what the row counts.
People == {Author[m] : m \in Messages}
Sendings(k) == UNION {{<<m, i>> : i \in {j \in DOMAIN says[m] : Key(says[m][j]) = k}} :
                      m \in sent \cap DOMAIN says}
Tally(k) == IF RowOf(k) = NoRow THEN 0 ELSE RowOf(k).count

\* "command handlers do not run twice" (bot.go:175-176): a counter is never above the times
\* its chatter sent the command, however often Twitch delivers a message the filter remembers,
\* and core-api is asked in parallel or fails; it is exactly that, unless two requests about its row were under way at once (for
\* !bread even then) or one failed.
CountsTrue ==
  \A k \in Counters \X People :
    LET sentTimes == Cardinality(Sendings(k)) IN
    /\ Tally(k) <= sentTimes
    /\ Resting /\ k \notin slipped /\ (k[1] = "bread" \/ Apart(k, {k[1]})) => Tally(k) = sentTimes

\* "so we don't quote the previous chatter" (stalk/service.go:21-22): the stored line is always
\* one the stored target said, whatever writes of the row overlap; and what !stalk quotes was
\* said by the chatter it names, unless a target was being set while !stalk, or the boot, was
\* between its read of the row and its use, or while a line was being stored.
StalkIsTrue ==
  /\ LET row == RowOf(Stalk) IN row # NoRow /\ row.last # None => Author[row.last] = row.target
  /\ Apart(Stalk, {"get", "set"}) /\ Apart(Stalk, {"last", "set"}) =>
       \A q \in quoted : Author[q[2]] = q[1]

\* "Its enabled/paused state is preserved" (cmd_newpromo.go:93): a promo paused on the dashboard
\* stays paused, and an enabled one enabled, unless the dashboard's update overlapped an edit.
PausedSticks ==
  LET row == RowOf(Promo) IN
  row # NoRow /\ Apart(Promo, {"edit", "update"}) => row.enabled = ~paused
-----------------------------------------------------------------------------
(* What the chats explored begin with, and inductive strengthenings, for   *)
(* ChatCommandsProofs.                                                     *)

Targets == People \cup {None}
Said == [op : Counters \cup {"line", "get", "set", "unset", "create", "edit", "drop"},
         who : People, arg : Targets]
OnPage == [op : {"set", "unset", "create", "remove"}, who : {None}, arg : Targets]
            \cup [op : {"update"}, who : {None}, arg : BOOLEAN]

\* A row of each table; a stored line is one its target said.
RowRecs(k, last) ==
  CASE k = Stalk -> {r \in [id : 1..last, target : Targets, last : Messages \cup {None}] :
                       r.last # None => Author[r.last] = r.target}
    [] k = Promo -> [id : 1..last, enabled : BOOLEAN]
    [] OTHER -> [id : 1..last, count : Nat]

\* At first at most one row of each table is stored, by a service of its own.
ASSUME ScriptsAssumption ==
  /\ None \notin People
  /\ \A s \in Scripts :
       /\ s.asks \subseteq OnPage
       /\ \A m \in DOMAIN s.says : s.says[m] \in Seq(Said)
       /\ \A k \in DOMAIN s.rows : s.rows[k] \in RowRecs(k, 1)

\* What a request is: whoever sent it, its image is a row of the table it will be saved in.
IsCall(o) ==
  /\ o = [op |-> o.op, who |-> o.who, arg |-> o.arg, pc |-> o.pc, row |-> o.row]
  /\ o.op = "last" => o.arg \in Messages /\ o.who = Author[o.arg]
  /\ o.op = "set" => o.arg \in Targets
  /\ o.op = "update" => o.arg \in BOOLEAN
  /\ o.pc \in {"save", "again", "hydrate"} => o.row \in RowRecs(Key(o), nextId - 1)
  /\ o.op = "get" => o.row = NoRow \/ o.row \in RowRecs(Stalk, nextId - 1)

CallsKnow ==
  /\ nextId \in Nat \ {0}
  /\ \A k \in DOMAIN rows : rows[k] \in RowRecs(k, nextId - 1)
  /\ \A c \in DOMAIN calls : IsCall(calls[c])
  /\ asks \subseteq OnPage
  /\ \A m \in DOMAIN says : says[m] \in Seq(Said)
  /\ todo \in [Goroutines -> Seq(Said)]
  /\ watch \in [target : Targets, last : Messages \cup {None}] /\ paused \in BOOLEAN

\* Two requests about the row k, of these kinds, are never under way at once.
NotBoth(k, ops) ==
  Apart(k, ops) => \A c, d \in DOMAIN calls :
    UnderWay(c) /\ UnderWay(d) /\ c # d /\ Key(calls[c]) = k /\ Key(calls[d]) = k
      => {calls[c].op, calls[d].op} # ops

\* An image that will be saved says of enabled what the row says, or the dashboard.
PromoKnow ==
  /\ NotBoth(Promo, {"edit", "update"})
  /\ \A c \in DOMAIN calls : At(c, "update", "save") => calls[c].row.enabled = calls[c].arg
  /\ Apart(Promo, {"edit", "update"}) =>
       \A c \in DOMAIN calls : At(c, "edit", "save") /\ calls[c].row.id = RowOf(Promo).id
         => calls[c].row.enabled = RowOf(Promo).enabled
  /\ PausedSticks

\* No target is set while a row is read to be watched, or a line to be stored: what each has
\* read is of the target still stored, if any is.
Loaded(c) == calls[c].op = "get" /\ calls[c].pc \in {"done", "hydrate"} /\ calls[c].row # NoRow
WatchKnow ==
  /\ NotBoth(Stalk, {"get", "set"}) /\ NotBoth(Stalk, {"last", "set"})
  /\ Apart(Stalk, {"get", "set"}) /\ Apart(Stalk, {"last", "set"}) =>
       /\ watch.last # None => Author[watch.last] = watch.target
       /\ \A c \in DOMAIN calls : Loaded(c) =>
            /\ calls[c].pc = "hydrate" => watch = NoWatch \/ watch.target = calls[c].row.target
            /\ RowOf(Stalk) # NoRow => RowOf(Stalk).target = calls[c].row.target
            /\ \A d \in DOMAIN calls : Loaded(d) => calls[d].row.target = calls[c].row.target
       /\ \A c \in DOMAIN calls :
            At(c, "last", "save") /\ RowOf(Stalk).id = calls[c].row.id
              => RowOf(Stalk).target = calls[c].row.target
       /\ \A q \in quoted : Author[q[2]] = q[1]

CommandInv == CallsKnow /\ PromoKnow /\ WatchKnow

\* Whoever asks core-api has a name of their own.
ASSUME CallersAssumption == Messages \cap (Goroutines \cup {"boot", "dashboard", "orphan"}) = {}

\* No message with a command that counts has been pushed out of the filter and acted on again.
Tallied(s) == {m \in DOMAIN s : \E i \in DOMAIN s[m] : s[m][i].op \in Counters}
TakenOnce == \A i, j \in DOMAIN taken : i # j /\ taken[i] = taken[j] => taken[i] \notin Tallied(says)

\* A message delivered was acted on, or its goroutine will ask the filter; what a goroutine has
\* still to run is the rest of what its message says.
Busy(g) == todo[g] # << >>
Behind(g) == Len(says[hand[g].msg]) - Len(todo[g])
DeliveriesKnow ==
  /\ set \subseteq ToSet(taken) /\ ToSet(taken) \subseteq sent
  /\ \A g \in Goroutines : hand[g].pc = "dedupe" => hand[g].msg \in sent
  /\ \A m \in sent : m \in ToSet(taken)
       \/ \E g \in Goroutines : hand[g].pc = "dedupe" /\ hand[g].msg = m
  /\ \A g \in Goroutines : Busy(g) =>
       /\ hand[g].pc = "contains" /\ hand[g].msg \in DOMAIN says \cap ToSet(taken)
       /\ Behind(g) \in Nat
       /\ \A i \in DOMAIN todo[g] : todo[g][i] = says[hand[g].msg][Behind(g) + i]
  /\ TakenOnce => \A g, h \in Goroutines :
       Busy(g) /\ Busy(h) /\ hand[g].msg = hand[h].msg /\ hand[g].msg \in Tallied(says) => g = h

\* The commands of each row that were taken up, less the requests that have still to write it:
\* a count is never above that difference, and equals it while the requests come one at a time
\* and none fails.
Run(k) == {x \in Sendings(k) :
             /\ x[1] \in ToSet(taken)
             /\ \A g \in Goroutines : Busy(g) /\ hand[g].msg = x[1] => x[2] <= Behind(g)}
Uncounted(k) == {c \in DOMAIN calls : Key(calls[c]) = k
                                      /\ calls[c].pc \in {"find", "insert", "upsert", "save"}}
Room(k) == Cardinality(Run(k)) - Cardinality(Uncounted(k))
Undisturbed(k) == k \notin slipped /\ (k[1] = "bread" \/ Apart(k, {k[1]}))
FiniteKnow(k) ==
  IsFiniteSet(Sendings(k)) /\ IsFiniteSet(DOMAIN calls)
    /\ \A m \in DOMAIN calls \cap Messages : calls[m].op = "last"
CountKnow(k) ==
  /\ NotBoth(k, {k[1]}) /\ Tally(k) <= Room(k)
  /\ \A c \in DOMAIN calls : Key(calls[c]) = k =>
       /\ calls[c].pc = "save" => calls[c].row.count <= Room(k) + 1
       /\ calls[c].pc = "again" => calls[c].row.count <= Room(k)
  /\ Undisturbed(k) =>
       /\ Tally(k) = Room(k)
       /\ k[1] # "bread" => \A c \in DOMAIN calls : Key(calls[c]) = k =>
            /\ calls[c].pc = "insert" => RowOf(k) = NoRow
            /\ calls[c].pc \in {"save", "again"} => calls[c].row.id = RowOf(k).id
            /\ calls[c].pc = "save" => calls[c].row.count = Tally(k) + 1
            /\ calls[c].pc = "again" => calls[c].row.count = Tally(k)

CountInv ==
  /\ DeliveriesKnow
  /\ \A k \in Counters \X People : FiniteKnow(k) /\ (TakenOnce => CountKnow(k))

\* The chats of which CountsTrue is proved: no counter has a row yet, and in one with a command
\* that counts, the filter remembers all the messages.
FreshCounters == \A s \in Scripts : DOMAIN s.rows \subseteq {Stalk, Promo}
FewMessages(s) == IsFiniteSet(DOMAIN s) /\ Cardinality(DOMAIN s) <= N /\ Blank \notin DOMAIN s
FewCommands == \A s \in Scripts : Tallied(s.says) # {} => FewMessages(s.says)

\* In such a chat no message of a counting command is acted on twice.
TakenKnow ==
  Tallied(says) # {} => FewMessages(says) /\ sent \subseteq DOMAIN says /\ TakenOnce
=============================================================================
