# nivek in TLA+

Specifications, model checks and proofs for the Go services of nivek. Every
module is written from the code; `PROJECT.json` names, for each definition, the
lines it stands for. Source paths below are relative to the repository.

## The system

| Component | State | Operations | Talks to |
|---|---|---|---|
| **Overlay relay**, core-api (`internal/libraries/overlayrelay`, `cmd/core-api/endpoints/overlay`) | table `overlay_event` (one log per streamer, `seq` is the cursor), `Registry` (streamer -> attached `Conn` with its outbox), two `KeyedMutex`es | EventSub webhook, Bits receipt and command dispatch append to the log and push; the websocket handler replays the backlog, then forwards | Twitch (at least once), the extension, the bot, the streamer's overlay |
| **Overlay pairing**, core-api (same packages) | table `overlay_device` (active or revoked, `start_seq`) | mint (replaces every earlier device), revoke, authenticate in the handshake, disconnect | dashboard, registry |
| **Overlay subscriptions**, core-api (`eventsub_subs.go`) | none of its own: Twitch's list of EventSub subscriptions, shared with the bot | subscribe after a mint, unsubscribe after the last revocation, reconcile at boot | Twitch Helix |
| **Bot: stream lifecycle** (`twitchbot/bot_api.go`, `bot.go`, `cmd_join.go`, `cmd_banish.go`, `chat_privs.go`, `user/service.go`) | tracked channels, live channels, row `users` (`is_live`, `stream_key`, `bot_opt_in`) | go-live and go-offline webhooks, `!joinme`, `!banish`, chat-read grant and revocation | Twitch, core-api |
| **Bot: chat** (`bot_read_message.go`, `custom_commands.go`, `cmd_*.go`, `dad_limit.go`, `eventsub_dedupe.go`) | ring of message ids, auto-shout lists, custom commands, stalk watches, `!dad` counters | one goroutine per chat message | core-api's tables, the say queue |
| **Bot: output** (`bot_send_message.go`, promo loop) | say queue (64), IRC queue | say, announce, one paced sender | Helix, IRC |
| **Overseer link** (`twitchbot/cmd_df.go`, `overseer/client.go`, `server.go`, `cmd/df-executor`) | the client's connection and sequence numbers, the server's per connection | Send with one retry and a deadline; verify, run, acknowledge | dfhack-run |
| **Overseer verbs** (`parse.go`, `service.go`, `verbs/`, `wire/`) | none; the game has its pause flag | a line to an action (bot), an action to a script or a work order (executor) | dfhack-run |
| **Subscription tools** (`cmd/eventsub-healthcheck`, `eventsub-backfill`, `twitcheventsub`) | none | audit, repair, prune | Twitch Helix |
| **Chat counters** (`fishing`, `lurk`, `bread`, `dad`, `dadusage`, `autoshout`, `stalk`, `promo`) | one table each | read-modify-write, or one SQL statement | Postgres |
| **Tokens** (`twitchauth`) | cached access token, rotating refresh token | Token | Twitch id |
| **Snapshots** (`df-snapshot-pusher`, `endpoints/df`) | the last snapshot | push, get | DFHack's file |
| **Sign-in** (`endpoints/user`, `jwt`, `nivekmiddleware`, `twitchsig`, `twitchext`) | cookies | OAuth, session, request signatures | Twitch |

What is hard here: Twitch delivers webhooks at least once, concurrently and in
any order; each handler is a goroutine that reads, calls and writes without a
lock across the whole; the overlay's socket, the processes and single calls
fail between any two steps; and what the overlay runs on stream (paid
interactions) must neither be lost nor repeated. `PROJECT.json` lists each such
hazard at its line with the properties aimed at it.

## Modules

Naming: `X` is a component, `XMC` what TLC needs to instantiate it, `XProofs`
its theorems; a module nobody instantiates but through `INSTANCE` is an abstract
specification.

| Module | Models | Role |
|---|---|---|
| `KeyedLock` | what a per-key mutex promises | abstract |
| `KeyedMutex` | `keyedmutex.go`: `Lock` and its unlock closure | implements `KeyedLock` |
| `OverlayDelivery` | reliable delivery of paid events, in order, while the overlay can disappear | abstract |
| `OverlayRelay` | ingest handlers, registry, websocket handler, overlay | implements `OverlayDelivery` |
| `OverlayDevices` | minting, revoking, the handshake, the registry's part in it | |
| `OverlaySubs` | the three background tasks that keep Twitch's subscriptions | used by `SubscriptionRepair` |
| `SubscriptionRepair` | the bot's part in the same list: sign-in, `!joinme`, the chat-read grant, `!banish`, backfill, the health check | extends `OverlaySubs` |
| `BotChannel` | one channel's webhooks, users row, opt-in and out, per-stream state, restarts | |
| `RecentIDs` | a memory of the last N ids | abstract |
| `MessageIDCache` | `eventsub_dedupe.go` | implements `RecentIDs` |
| `ChatMessages` | one channel's `channel.chat.message` handlers, the auto-shout list and its rows | extends `MessageIDCache` |
| `ChatCommands` | the commands those handlers run in core-api, with the dashboard's requests, over the counters, the stalk row and the promo | extends `ChatMessages` |
| `SayQueue` | `sayQueue`, its callers and sender, the promo loop, the `Refresher` | |
| `OverseerLink` | `Client.Send`, `Server.ServeHTTP` and the connection between them | used by `OverseerCommands` |
| `OverseerGrammar` | `ParseCommand` and every verb's parser, `Submit` and every verb's submitter, as operators | |
| `OverseerCommands` | a `!df` line from chat to the game's answer | composes `OverseerLink` and `OverseerGrammar` |

### KeyedMutex

Callers are goroutines with a program counter: `Register` (find or create the
`refLock`, count up, under `k.mu`), `Acquire` (its inner mutex, outside `k.mu`),
`Unlock` and `Unregister` (the closure: release, then under `k.mu` count down and
delete at zero). Entries are identities, so that a `refLock` that has been deleted
while someone still holds it and its replacement under the same key are two
things, as in Go.

### OverlayRelay

One streamer: every table, map and lock is keyed by streamer and nothing crosses.

* A handler (`hand`) receives a message (`Deliver`: again and again, up to
  `MaxDeliveries`), takes the lock of *its endpoint* (EventSub and the extension
  have one each, dispatch none), reads `MAX(seq)+1`, inserts (a known message is
  a no-op, a taken `seq` is retried up to `SeqRetries` times), then looks the
  connection up and sends to its outbox in two steps, as `Registry.Push` does.
  `IngestFails` is any failing query; with `AmbiguousCommits` the row may be
  there although the caller got an error.
* A websocket handler (`conn`) registers and closes its predecessor in two steps,
  reads the backlog page by page, writes one event at a time and drains its outbox
  after each, writes `ready`, flushes what it set aside, then forwards live frames;
  each outbox overflow, spent budget, failed write or cancelled context ends in
  `Remove`.
* The overlay (outside the repository) reads one socket and persists the `seq` of
  each paid event it processes. A frame written to a socket it no longer reads is
  lost. A write under a cancelled context fails: that is the websocket library's
  contract.
* `Crash` is a restart of core-api: the log and the overlay's cursor survive.

### OverlayDevices

Requests of the dashboard and sessions of overlays. The mint's transaction is four
steps (snapshot of the active rows, update after waiting for row locks, floor and
insert with the commit, then the disconnect outside it) under Postgres' READ
COMMITTED, which is what the code opens. `LogEvent` lets the log grow meanwhile, so
that the floor of a new device means something. `Crash` rolls back. A commit or a
revocation's update may also take effect although its caller gets an error
(`MintCommitsUnseen`, `RevokesUnseen`): the handler then drops nobody, and `raced` marks
the sessions it leaves behind, as it marks those a registry lookup came too early for.

### OverlaySubs

Twitch's list is a set of subscriptions with status; ours are recognised by callback
and type. A task lists once and then creates or deletes one call at a time, from the
plan it made; calls fail, Twitch disables subscriptions, core-api restarts.

### SubscriptionRepair

`OverlaySubs` and the bot share one list and one app, so this module extends it: each of
the bot's operations is a task over the same `subs`, started by its own action and carried
out by the same `Create` and `Delete`, one call at a time. Only the health check's repair
has steps of its own, because it deletes before it creates and gives a pair up on the first
failed call. `expect` is what the operations have asked for, `settled` the broadcasters that
an undisturbed operation has dealt with; both are history. A 403 or a second 401 is a call
that fails.

### BotChannel

Every handler and every goroutine it starts is a *job* in a bag, with its program counter,
the users row it has read and whether the process it runs in is still alive; jobs of one
kind that do the same thing are interchangeable, which the bag expresses. The row is read
in one step and written back whole in another, as `user/service.go` does. The bot's memory
(`bot`) is lost in a restart, the row and `dad_usage` stay. Twitch numbers the stream's
turns and sends an event if a subscription hears it; an event is delivered late, again or
never. What fails uses up a budget and is recorded in `hist.mishaps`, and so is each pair of
jobs of kinds that may disturb each other when they overlap: the properties name the
overlaps they except.

### MessageIDCache

A call of `seen` is one step (it runs under the cache's mutex): empty id, known id,
new id with the forgetting of the oldest.

### ChatMessages

A goroutine per notification: it asks the filter (one step of `MessageIDCache`), looks
the chatter up in the auto-shout list, queues the shoutout (a step of its own, because
`say` may block), starts the stamp, finds the index, removes what is at that index
from the list it reads, stores the result (`slices.Delete` shifts the shared array before the
store; here the others see the removal with the store). No lock is held across or within these;
`MapFault` is the runtime stopping the process when a map write meets another access,
and a `slices.Delete` out of range ends the process as well. The list is refilled
at boot and at go-live from the rows whose stamp is not the stream's key; the stamp
takes whichever key is current when it runs. A behaviour is one life of the bot, so
that `ChatInit` is any boot into a running stream: no list, an empty filter, any rows
an earlier life stamped.

### ChatCommands

A message that passes the filter carries commands; its goroutine sends each to core-api and
waits, except that a watched chatter's line is stored by a goroutine of its own. In core-api
a request is a chain of statements: find, change the image in memory, save all of it (the
`UpdateReturning` of the services), or the single upsert of `bread`. Between two statements
everything else happens: another goroutine's request, the dashboard's, a failed query, the
bot's HTTP client giving up while core-api goes on. `met` and `slipped` remember which kinds
of requests about a row were under way at once and which failed. The whole is
`ChatMessages` with these steps in between, so that its properties are checked with them.

### SayQueue

`sayQueue` is a buffer and the line of goroutines blocked in a send; requests carry
their number. The sender takes one, tries the app token (a 401, a 403 or no app token
leads to the user token, any other outcome is final), or for an announcement the user
token only. The user token comes from the `Refresher`, which the IRC loop asks too:
its mutex is held across the request to Twitch, which may rotate the refresh token
although its answer is lost. The promo loop shares the queue: a tick it has no time for
is dropped, its clock is read before a send that may block for longer than an interval,
and that early reading is written after it. `recent` is history: when the promo's last
three messages really entered the buffer, at once (`Post`) or from the line (`Take`). The
1.5 s pause of the sender is no step, and `Init` is any boot from the token in the
environment; `Boots` says at which tick and request number it starts, so that each life a
run explores has its own budget of both.

### OverseerLink

The dispatch of `!df` from chat is commented out (`bot_read_message.go:182-191`, "DF commands
are suspended until further notice"), so that `handleDFCommand` has no caller; client, server,
executor and grammar are live code, and what is modelled is how they work when a line reaches
that handler.

Send is split at each point where something else can happen: mutex, connect, write,
read. `DeadlinePasses` may happen at any of them, also while waiting for the mutex.
The server receives, runs and acknowledges in three steps. A connection that is lost
keeps or loses what was under way in either direction; one that idled out takes a
write and loses it. The executor may stop before or after dfhack-run did its work.

### OverseerGrammar

A line is a sequence of tokens; a token is a text with what sets it apart, a leading `#`,
a trailing `s` or the punctuation of a list. The tables are the sets of their keys, with
`throne` for `chair` where a table gives both the same value. Ints wrap at `Word`. A script
or a work order is the operation it performs: kind, item, material, quantity, position or
the tiles of a rectangle.

### OverseerCommands

`handleDFCommand` parses on the bot; what is an error or answered there is never sent. The
rest goes through `OverseerLink`, and where its server submits, `Submit` of the grammar
decides: refused without running anything, or run, with a result that may be a failure
although the game did it. Of the game, only the pause flag is kept: it is what a late
repetition can falsify. `wish` is what the line's author means by it, given with the line
and not computed from it.

## Runs

| Run | Bounds | Question |
|---|---|---|
| `keyed_mutex` | 3 callers, 2 keys, 3 entries | Does a key have one holder while its entry is deleted and created? Does the map stay bounded? Is every waiter served? |
| `overlay_relay` | 2 cheers and a command, 2 requests at a time, 2 connections, 1 fault, outbox 1, page 1, replay budget 2 | Can any order of pushes, replays, takeovers and one failure lose, skip or reorder a paid event, or repeat a command? Does the relay implement `OverlayDelivery`? |
| `overlay_relay_live` | 2 cheers, one request at a time (a waiter for the lock is `KeyedMutex`'s matter), 2 connections, 1 fault | Is a logged paid event run in the end, and does a dead connection leave the registry? |
| `overlay_relay_lost` | a cheer and a receipt | The claim that live frames leave in `seq` order, whose consequence is that nothing logged is lost: refuted. |
| `overlay_devices` | 3 devices, one mint and one revocation at a time, 2 sessions | Is there at most one working token, none lost by a failure, none alive after revocation, no history replayed? |
| `overlay_devices_two` | 2 devices, 2 mints | The claim of one live token when two mints overlap: refuted. |
| `subscriptions` | 2 broadcasters, 2 tasks, 1 failed call or disabled subscription; six initial situations | Does what runs alone leave exactly the subscriptions asked for, the overlay's and the bot's, and does no overlap take away a last one? |
| `bot_channel` | one channel, a stream, its end and the next; thirteen initial situations | Which overlaps, failures and repetitions can falsify row, memory, stream key, opt-out, allotment and chat-read flag, and which cannot? |
| `chat_messages` | 3 messages and one without id, 2 goroutines, ring of 2, one retry, one `stream.online`; eleven scripts of commands, dashboard requests and one failure or timeout (among them a stored promo that is disabled and enabled again while it is edited in chat) | Is a message handled once in its window, is a chatter with this stream's stamp left alone after a restart, do counts, the stalk row and the promo say what happened? |
| `chat_messages_twice` | the same, two of the messages from the listed chatter | The claim that nobody is shouted out twice in a stream: refuted. |
| `say_queue` | the promo loop over a queue of one, interval of 2; a life of 5 ticks with another goroutine's 3 requests and one rotation, and one of 9 ticks with four messages of the promo alone | Is a message posted at most once and in order, does a blocked `say` return, is the newest refresh token kept? Can a promo loop that was held up send a burst? |
| `overseer_commands` | 250 lines alone with every deadline; pause alone with 2 faults; pause and unpause with 1; 3 connections | Does the executor do what the line asks, at most twice, once when nothing was lost under it; is the answer the command's own; does every Send return? |

**Why these bounds are enough.** Outbox, page and budget are the smallest at which
"full", "a full page that is also the last" and "budget spent" are different events
from each other, and two paid events suffice for a skip or an inversion, which is
about a pair. Two connections are one and its successor; a third would displace the
second the same way. A ring of two with three ids and a retry wraps, forgets and meets a
forgotten id again; two goroutines are enough for a race over one entry of the
list. A queue of one is full with one request waiting in it and one being sent; nine
ticks hold four promo messages, the least that a burst of four takes, with a blocked send and
dropped ticks between. Two commands on the overseer link are one given up and one that
could be given its answer; three connections and two faults let both attempts of a
command fail and a third, if there were one, run. Four runs are sums over initial
situations (`Starts`, `Scripts`, `Chats`, `Boots`), each with its own budget of requests and faults:
what two operations do to each other needs those two, not all at once, and each pair that
shares state occurs in some situation. `bot_channel` needs a stream and the next, because every
confusion is between a stream and the next; the allotment of two is used up, exceeded and
warned of in four rolls. The lines of `overseer_commands` use every verb and table, every
form of a list, rectangles from each of five corners to each other at, below and above the
cap (6 tiles for 100), and ints of 6 bits for 64. `MaxFaults`, `MaxDeliveries`,
`MaxTail` and the numbers of connections bound the state space only; runs of the
relay switch deadlock checking off because its messages, faults and deliveries are
used up in the end and the relay then rightly rests.

**Fairness.** `KeyedMutex`: callers that hold, release (every use in the code is
`defer unlock()`), and Go's `sync.Mutex` hands the lock to a waiter after 1 ms of
starvation: strong fairness of `Acquire`. `OverlayRelay`: runnable goroutines run
(weak fairness of handler and connection steps), a waiter on an ingest lock is served
(what `KeyedMutex` shows), and an overlay that has no socket dials again
(`docs/OVERLAY_RELAY.md`); nothing is assumed of deliveries, faults or crashes.
`SayQueue`: the sender runs; a request to Twitch ends, because every HTTP client has
a timeout of 10 or 15 s; the sender gets the `Refresher`'s mutex in the end although
the IRC loop wants it again and again (strong fairness: Go's mutex, as above).
`OverseerCommands`: the bot's goroutines run, `sync.Mutex` starves no waiter, deadlines pass; nothing is assumed of the
executor or the network. The other runs state safety only and use no fairness.

## Proofs

| Theorem | Says, for every value of the constants |
|---|---|
| `KeyedMutexProofs`: `TypeCorrect`, `MutualExclusionHolds`, `NoLeak`, `MutexImplementsLock` | no reference count below zero; one holder per key; no entry without a user; the mutex implements `KeyedLock` |
| `OverlayRelayProofs`: `TypeCorrect`, `LoggedAtMostOnce`, `ServingRegistered`, `CommandRunsAtMostOnce` | the state is well typed; one row per message; a serving connection is the registered one; the overlay runs a command at most once |
| the same, under `OneSource`: `DeliveryInductive`, `NothingPaidIsSkipped`, `StreamsAreOrdered`, `AttachedCatchesUp`, `RelayImplementsDelivery` | the overlay's cursor passes no paid event it has not run; a socket carries paid events in the order of the log; an overlay that has read its socket to the end has everything; the relay implements `OverlayDelivery` |
| `OverlayDevicesProofs`: `TypeCorrect`, `NoHistory`, `RevokedDropped`, `OnlyRevoke`, `OneToken`, `ValidDeviceKept` | no session below its device's floor, with any number of concurrent requests; once the requests are over no session lives under a revoked device; only a revocation leaves a streamer without a device; one active device, and none closed while valid, as long as mints do not overlap |
| `SubscriptionRepairProofs`: `RepairInductive`, `RepairTypes`, `RepairSettles`, `ReconcileConverges`, `RepairKeepsCoverage` | an id is one subscription's and a task remembers only what is of its kind; an audit, a force, a prune or a `!banish` that runs alone leaves exactly what is asked for, each once and enabled; the overlay's tasks leave every paired broadcaster every type and nobody else any; nobody's last enabled subscription of a pair goes but on purpose (with the exceptions below) |
| `ChatCommandsProofs`, of the filter alone: `TypeCorrect`, `RingHolds`, `CacheRefinesRecentIDs` | the ring matches its set for any size, and the filter implements `RecentIDs` |
| the same, with its users: `FilterInductive`, `HandledOnce`, `ChatFilterInductive`, `ChatHandledOnce`, `BotsFilterRemembers` | no chat message is handled twice within the filter's window, with any number of goroutines, also beside the commands; the bot's filter is still a `RecentIDs` |
| the same: `CommandInductive`, `PausedStays`, `StalkStaysTrue`, `RestartSpares` | the promo runs or rests as it was last told; the line stored for `!stalk`, and the one it quotes, was said by the chatter named (with the exceptions below); who has the stream's stamp at a boot gets no second shoutout in it |
| the same, under `FreshCounters`: `CountInductive`, `CountsStayTrue`, `CountsAreTrue` | a counter never passes the commands sent and at rest is exactly those (with the exceptions below), while the filter has let no counting message through again; under `FewCommands` it has not |
| `BotChannelProofs`: `ChannelInductive`, `ChannelTypes`, `ClaimsAreGivenBack`, `PrivsReal`, `BanishIsKept`, `KeyIsTheStreams`, `AllotmentIsKept`, `ChannelConverges` | the row, the bot's memory and what each job has read are well typed; the channel is tracked at most once and the claims of joining and granting are held exactly while a job has them; `hasPrivs` is what Twitch says; a !banish sticks; no two keys are of one stream; a chatter gets the `!dad` limit once in a stream, restarts included; once the last event is handled, bot and row agree with Twitch (with the exceptions below) |
| `SayQueueProofs`: `TypeCorrect`, `InOrderOnce`, `NoBacklog`, `NewestToken` | the buffer keeps its bound; posts are in the order of the sends and once each; four messages of a promo never enter the buffer within an interval; between refreshes the token kept is the one Twitch takes unless an answer was lost |
| `OverseerCommandsProofs`: `LinkInductive`, `AnswersMatch`, `RunsAtMostTwice`, `AnswersAreNew`, `CommandsInductive`, `CommandsAnswersMatch`, `PausedIsAsTold`, `GameDoesAsTold` | a Send is given its own command's answer; a command is run at most twice and once when nothing was lost under it; no answer is one the bot has had before; the game is paused as last told, unless a command failed or was repeated; what is done is what the line asks |

The assumptions are those named `ConstantsAssumption` in each component (disjoint
names, positive bounds; in `BotChannel` that what it starts with has the shape of a `users` row and of
what the database holds for the stream), `ScriptsAssumption` of `ChatCommands` (what a chat begins with: rows
of the right shape; TLC evaluates it on the scripts), `CallersAssumption` (a message, a goroutine, the boot and the
dashboard ask core-api each under a name of their own), `StartsAssumption` of `SubscriptionRepair` (that the
list an earlier run left is finite, with an id for each subscription, of any number, status and
owner; ids are numbers only because the list has an order; TLC evaluates it on the initial
situations), and five hypotheses of theorems:

* `SerialMints` in `OneToken` and `ValidDeviceKept`: the `overlay_devices_two` run shows it
  to be needed.
* `OneSource` in the relay's second group: no commit is ambiguous, and every paid event comes
  through the same endpoint. These are the constants of the run `overlay_relay`; the run
  `overlay_relay_lost` and `OverlayRelayAmbiguous.cfg` show that either is needed.
* `FreshCounters` in the last three of `ChatCommandsProofs`: a chat begins without counter rows, since
  `CountsTrue` compares a row with what was sent from then on.
* `FewCommands` in `CountsAreTrue`: a chat with a counting command has no more messages than the
  ring has slots. Where more messages come between two deliveries of one, the filter forgets it
  and it is counted again, as the code means it to be; `CountsStayTrue` covers those chats until that happens.
  The run's scripts satisfy both.
* `ReadAsMeant` in `GameDoesAsTold`: for each line, what the grammar makes of its tokens is
  what its author meant. The grammar recurs over the tokens, and induction over data is out of
  the prover's reach; the run evaluates it on its 250 lines, and the theorem adds that no
  deadline, retry or lost connection can then make the game do anything else.

Where a step changes several fields of one entry the definitions nest `EXCEPT`
(`![m] = [@ EXCEPT !.a = x, !.b = y]`): tlapm 1.4.5 translates several paths below one index
(`![m].a = x, ![m].b = y`) into contradictory facts for its SMT solver, from which it proves
anything.

### Why the invariants hold

*KeyedMutex.* Mutual exclusion is not inductive: it rests on an entry not leaving
the map while it is used. `IInv` adds that `refs` counts exactly the callers between
`Register` and `Unregister` of that entry, that each of them uses the entry the map
holds under its key, and that an entry's owner is one of them. Deleting at zero then
cannot strand a user. The refinement follows: two callers of one key use one entry, whose
owner is the abstract lock's holder; `Unregister` is a stutter, because the abstract lock is
free from `Unlock` on.

*OverlayRelay, the log.* That a message has one row (`LoggedOnce`) follows from the insert's
guard, but the type of the log's cursors needs what handlers and connections remember:
`HandlersKnow` (after the insert a handler's `next` is a row of the log) and that every frame
of an outbox, page or buffer is one. `ServingIsRegistered` needs `ConnsKnow`: only a connection
inside `Registry.Add` points to its predecessor, and a registered one has been added. Rows are
only appended, so what was a row stays one: lemma `TypeAppend`.

*OverlayRelay, delivery.* Until it is forwarded, a row is in one place,
with the handler that inserted it or once in one connection's queue (`HandledOnce`), and a
command that is there has not run (`CommandsWait`). For paid events the argument is about gaps. With one source
their pushes are serial (`Serial`: the lock's holder alone stands between insert and push, and its row is the last
paid one), so what a connection will still be given is ascending and comes after what it has
been given, but for rows its replay has covered (`InOrder`). A page is what follows the replay's
cursor, without a gap (`PageKnows`); once the last page has been read, the registered connection
has every paid row written, in its page or coming, but for one a handler is about to push
(`GapFree`). The overlay's cursor is how far its connection has got (`CursorKnows`), so no row
before the next frame has been passed over. The refinement keeps log and cursor and takes `ran`
for what has run; requests, connections and the registry are invisible.

*OverlayDevices.* `NoHistoryReplayed` speaks of a ghost, the tail when the mint
began; `FloorsKept` says a pending mint's floor, a stored device's `start_seq` and a
session's starting point are each at least that, and that a request revokes only devices
that were minted. `OneToken` adds `PriorKnown`: when
mints do not overlap, a mint in progress knows every active device. `RevokedDropped` needs to
know who will close each session: `DropsKnown` says a session under a device that is no longer
active is one that a request or a handshake under way `WillDrop`. `ValidDeviceKept` needs the
converse, that what a request is about to close has been revoked (`RevokedKnown`).

*SubscriptionRepair.* Every operation is list, plan, calls, so `Shapes` says what a task may have
under way at each point, and `IdsKnow` that an id it remembers is still that pair's subscription or
nobody's: Twitch gives an id again only when no task remembers it. Nothing there forbids two tasks
from holding plans made of old lists. `RepairKeepsCoverage` then rests on `CoverageKnow`: while
nothing fails, whoever deletes a broadcaster's enabled subscriptions (`!banish`, prune, force) has all
of the pair in its plan or none, and each surplus one that an audit will delete has one of a smaller
id beside it, or goes with all. The smallest therefore stays, although two audits may have chosen
from different lists; that there is one is the lemma `HasSmallest`, from the well-foundedness
of finite sets. `RepairSettles` needs `SettledKnow`: either the settled broadcasters' subscriptions are
as asked, or one task alone is at work and what is left of its plan `Settles` them. For each pair
the plan of a repair says why: what it deletes and the flag to create leave one enabled
subscription (`Mends`), what a prune or `!banish` still has to delete is all there is (`Emptied`). A
foreign call cannot disturb it, because the overlay's tasks delete only the overlay's, which is
part of `Shapes`. `ReconcileConverges` has the same form: `CleanKnow` says the overlay's subscriptions are whole, or
one task alone is about to make them so (`Completes`).

*MessageIDCache.* The refinement maps the ring, read from the oldest slot, to the
abstract sequence: `IF full THEN N ELSE next` long, slot `k` at `Oldest + k - 1`
modulo `N`. `MemoryAfterClaim` shows that claiming is `Append`, of `Tail` when full.

*BotChannel.* Jobs come and go in a bag, so everything begins with what a step does to it:
`JobsAdd` and `JobsMove`, and one lemma per action with all it writes. `TrackedOnce` needs
`ClaimsKnow`: the claim of a !joinme, and that of a grant, is one job's, alive and there once, and
while a !joinme is under way the channel is not tracked, so that its append adds the only
entry. After a restart only writes are left that core-api finishes, which hold no claim (`IsJob`).
The others except what met something else, and `mishaps` records that when the later of the two
begins; so where nothing is recorded nothing is beside. `PrivsKnow`: what a grant or a hydration is
about to set is granted, or its revocation is still to come, and no !banish of this life is beside
it. `BanishKnow`: an undisturbed !banish is the only job that writes the row; once it has
written, every image a job holds of the row says opted out, and the bot is in the channel only while a
!joinme is under way. A row once read stays (`RowStays`): no code deletes a user.

`KeyPerStream` needs to know what stands in the way of a second mint. `KeysKnow`: the push of a
go-live is alone and of a running stream; once the stream has its key the row is live until its end is
heard; and no image of the row that is about to be written not live, or minted under, was read before
that key. `DadAllotment` is an account: `DadKnow` says that in a stream the bot has reset for, memory
counts the rolls, or a rehydration, alone and with nothing left to persist, is about to make it; and
what is stored under the stream's key plus what is still to be persisted (`Pending`, a count of equal
jobs in the bag) add up to the rolls, until a repeated go-live is about to be noted. Since a restart
loses memory and keeps the row, the second account is what gives the first one back.

`LiveConverges` speaks of the moment when nothing is under way; `LiveKnow` says on what course the jobs are
until then. It reads nothing from a run in which Twitch did not send an event (`HeardAll`: then the
channel cannot settle either). The pushes of the row are apart (`LiveApart`), and whoever is a member is opted
in, also in every image a go-live or go-offline is about to write (`Aligned`). While the last event handled is an end,
nothing of a stream is in the bot, and the row is not live, nor any image of it that is about to be written,
but for an offline push that will see to it (`Between`). While it is the begin of the stream that runs, the
row, if live, has the stream's key, and so has the image a go-live holds; and either that go-live, alone, has
the rest before it, or row and bot are live already, unless a `!banish` that is about to opt the channel
out has taken the bot away (`During`, `Dooms`).

*ChatMessages.* `HandledOncePerWindow` speaks of the order in which messages were acted on;
the ring knows only slots. `RingInOrder` ties them: read from the oldest slot, what is behind a
message's slot was acted on since; so one that was acted on and is no longer in the ring has had
`N` others after it (`ForgottenLate`). A redelivered message that is let
through has therefore left the window. `Sated` follows a chatter with the stream's stamp: not on
the list, not in what a fetch or another goroutine is about to store as the list, and not being
shouted out. It needs `ChattersAssumption`, that the table's rows are finitely many.

*ChatCommands.* What a request has in memory between two statements is a row of the table it
will be saved in, a stored line one its target said (`CallsKnow`). `met` is only
worth reading because requests under way at once are always in it (`NotBoth`). From there
`PromoKnow`: unless the dashboard's update met an edit in chat, the image any request is about to
save says of `enabled` what the row says; and `WatchKnow`: what a goroutine has read for a watch,
or is about to store a line under, is of the target still stored, unless a target was set in
between.

`CountsTrue` relates two ends of a chain, what Twitch delivered and what a row counts, and `CountInv`
says what is under way between them. `DeliveriesKnow`: a message delivered was acted on or its goroutine will
still ask the filter, and what a goroutine has to run is the rest of what its message says; a message acted on
once has one goroutine. So a command enters `Run` once, when it is taken up, and in the same step its request
joins the `Uncounted`, those that have still to write the row. Their difference is the `Room` of the row
(`CountKnow`): the row is never above it, and an image about to be written at most one above, since whoever
writes it leaves the `Uncounted` by that. A failed query or a lost write only adds room, and a request whose
caller gave up is still as many. While requests about the row come one at a time and none fails, the row is
exactly its room, and the image its successor. `TakenKnow` says why in a chat of at most `N` messages none is
acted on twice: `ForgottenLate` asks for `N` others.

*SayQueue.* `PostedOnceInOrder` compares a step with the last post; `InOrder` supplies
what that needs: the request in hand, the buffer and the line of the waiting are
numbered without a gap, nobody waits beside room in the buffer, and while the sender is
busy its request is later than what was posted. `NoPromoBacklog` is about when messages
enter the buffer, and what the loop remembers is earlier: the tick of the scan. `Paced`
bounds how much earlier. The ticker's channel holds one tick, and a send that blocks holds
up the loop; so a scan is of a tick after the last message but one, `lastPosted` is after
the last but two, and while a message waits in line (`WaitsOnce`) its own scan found an
interval between `lastPosted` of then and its tick. One late message, the tick that waited
behind it and one more may come close together; the fourth has to wait. `Rotation` ties the mutex to the request under
way, whose answer, if there is one, carries the token Twitch takes.

*OverseerLink.* One Send is past the mutex at a time (`SendsKnow`). On the client's connection
there is nothing under way between two Sends and both ends have counted alike (`Idle`); during
one its request is in one place, or lost, under the last number sent (`Busy`). A connection the
client has left may still carry a request to an idle server (`LinksKnow`), but nothing is read
from it.
`AttemptsKnow` counts: what a command has run plus what is `Pending` of it on any connection is
at most the `Attempts` its Send has made, hence two. `FaultFree` says why it is one without
faults: a first attempt that reached the executor is given up only at the deadline, which leaves
no time for a second. `LinkNext` is the part of the next-state relation that `OverseerLink` and
`OverseerCommands` share, so that one proof serves both.

*OverseerCommands.* What is on the link is a parsed action of the line that was typed
(`TypedKnows`, `AskedKnows`), and the pause flag is what the last run told it (`GameKnows`),
which is also the last answered unless a command was lost or sent again.

### Only model-checked

Every liveness property (`WaiterIsServed`, `PaidEventRuns`,
`DeadIsRemoved`, `SendReturns`, `SayReturns`: TLAPS does not reason about fairness here). Type invariants that are
proved are not checked again by a run.

## What the code does otherwise than it says

Three claims are refuted by runs and listed as findings:

* **Live frames are not in `seq` order** (`extension.go:44`, `keyedmutex.go:13`): the
  endpoints do not share a mutex. The overlay's cursor can pass an event that was
  pushed late and lost with the connection (`overlay_relay_lost`).
* **Two mints leave two live tokens** (`service.go:288`): READ COMMITTED does not
  serialise them (`overlay_devices_two`).
* **A chatter can be shouted out twice in a stream** (`bot_read_message.go:157`): two
  messages handled at once both find the chatter on the unlocked list. The second
  removal then finds nothing, `slices.Index` returns -1 and `slices.Delete` panics in a
  goroutine nothing recovers (`chat_messages_twice`; the panic and the concurrent map
  access are why these runs switch deadlock checking off).

Further statements that do not hold, kept as properties with configurations of their own:

| Config | Property | Where |
|---|---|---|
| `OverlayRelayAmbiguous.cfg` | `CaughtUp` with ambiguous commits: a row committed behind an error is not pushed, and a later live event moves the cursor past it | `service.go:129` |
| `OverlayRelayTwice.cfg` | `PaidRunsOnce`: a frame written just before the socket was lost is replayed; the overlay's ledger has to recognise it | `service.go:78` |
| `OverlayRelayCommand.cfg` | `DeliveredCommandRan`: a command reported delivered is dropped from the outbox when the backlog has passed its `seq`, though the backlog has no commands | `connect.go:222` |
| `OverlayDevicesRace.cfg` | `RevocationIsImmediate`: a handshake between its lookup and its registration survives, and so does an overlay whose token was replaced behind an error | `device.go:144` |
| `SubscriptionRepairRace.cfg` | `QuietConverges`: a revocation's and a re-mint's tasks overlap | `device.go:153` |
| `SubscriptionRepairShared.cfg` | `OverlaySurvivesBot`: `!banish` and `-prune-orphans` delete a paired broadcaster's overlay subscriptions too, "permanently" until the next boot's reconcile | `cmd_banish.go:80` |
| `SayQueueInterval.cfg` | `IntervalElapsed`: each tick is to "post the ones whose interval has elapsed", but `lastPosted` is the tick the scan began with, and the send may come much later, behind a full queue (64 messages, 1.5 s each), another promo's send or a slow core-api; the next tick counts from the early time and may send again at once. Two messages, even three, may enter the queue within an interval, never four (`NoPromoBacklog`) | `bot.go:447` |
| `OverseerCommandsWrap.cfg` | `DoesAsTold`: the area is a product of ints; `mine 0,0,0 4294967295,4294967295` has area 0 and passes the cap that "keeps individual commands bounded" (`helpers.go:11-14`) | `helpers.go:69` |

`OverlayRelayRetries.cfg` is a configuration that passes: `LoggedOnce` with each message
delivered twice and ambiguous commits, which `OverlayRelayProofs` proves for all bounds.

### What the properties except

Properties about overlapping work say in their first conjunct which overlaps and failures
they leave out. Each exception is needed: without it TLC finds a behaviour of the code. A few of
those behaviours are longer than the runs: that a go-live overlapping `!banish`, a join or an offline
push costs `DadAllotment`, and a join `LiveConverges`, shows with five rolls, or three joins, in one
initial situation.

| Property | Does not hold when |
|---|---|
| `LiveConverges` | a call of the go-live, the go-offline or `!banish` fails; an event is late or lost; a channel joins or signs in during its stream; the offline push overlaps a go-live, `!banish`, a join, a restart or the loads started at go-live; a restart or a join overlaps a go-live |
| `KeyPerStream` | the push of a go-live fails or overlaps an offline push, `!banish` or a join, or an event is late, or comes when the next stream has begun |
| `BanishSticks` | a call of `!banish`, of the profile toggle or of a join fails, the go-live's opt-in question fails, or one of the row's writers (go-live, go-offline, join, restart) overlaps the `!banish` |
| `DadAllotment` | a go-live is delivered again in the stream, or late; the roll is made before the go-live is handled, or its stamp or reset is lost; the bot restarts without counting the rolls again, since the row says not live; a persist or the rehydration fails; a restart overlaps a persist or a go-live; a go-live overlaps the rehydration, an offline push, `!banish` or a join |
| `PrivsAreReal` | a revocation or `!banish` overlaps the grant or the start-up's question |
| `CountsTrue` (that nothing is too much) | a message is delivered again after the filter has forgotten it: `N` others were acted on in between |
| `CountsTrue` (that nothing is missing) | two requests about one counter row overlap, or one fails; `bread` is exact even then |
| `StalkIsTrue` (the quote) | a target is set between `!stalk`'s read of the row and its use, or while a line is being stored |
| `PausedSticks` | the dashboard's update overlaps an edit in chat |
| `PausedAsTold` | a command failed or was sent twice: an attempt given up may be done after what was answered since |
| `RevokedIsDropped` | the session's handshake was between its lookup and its registration, or the revocation took effect behind an error |
| `CleanConverges`, `BotSettles` | tasks overlap, a call fails or a subscription is disabled after the last undisturbed one |

That the stored stalk line is the last one said is false in so many ways (a target set while
a line is stored, two lines stored in the other order, a cleared target set again) that it is
not stated.

Smaller things met on the way, which no property is about: `bot_api.go:202` says of a
banished channel that it keeps its `stream.online` subscription, but `!banish` deletes it;
a failed `!joinme` leaves the bot in the IRC channel; `taskat` takes any material of the
vocabulary, also for items `make` restricts (`taskat #2 stone bed`), and parses workshop 0,
which its submitter refuses; `!newpromo`'s interval in minutes times `time.Minute` wraps for
a huge number (`cmd_newpromo.go:163`); the error of a failed first insert of a fish score is
not the one wrapped, and its second write resets `created_at`.

## Plan

What is left, in order:

1. **Smaller components**: the app token cache of `twitcheventsub`, the snapshot's
   overlapping POSTs, custom commands' add and remove against the go-live load.

## Not modelled

Envelope encoding and signatures, OAuth, sessions and CSRF (cryptographic, or one
stateless check per request); payload parsing and rate limits of the relay's endpoints;
what a command answers; the names Dwarf Fortress has for things and its numbering of
levels; several channels at once in `BotChannel` (tables, maps and locks are keyed by
channel and nothing crosses, but for the say queue, which `SayQueue` has); wiring and
configuration; the front end, scripts and deployment. `PROJECT.json` gives the reason for
each component.
