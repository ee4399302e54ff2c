--------------------------- MODULE OverlayRelay ---------------------------
(***************************************************************************)
(* The overlay relay of core-api for one streamer: HTTP handlers that      *)
(* append messages to the durable log and push them to the attached        *)
(* overlay, the connection registry, and the websocket handler that        *)
(* replays the backlog before it goes live.  Rows of different streamers   *)
(* never meet (every table, map and lock is keyed by streamer), so one     *)
(* stands for all.                                                         *)
(*                                                                         *)
(* Outside src/: the overlay.  It keeps one socket, reconnects when that   *)
(* is gone and, docs/OVERLAY_RELAY.md:73-74, persists the seq of each paid *)
(* event it processes and sends it as `since'.  A frame written to a       *)
(* socket it still reads is processed; once it has left the socket, frames *)
(* written there are lost.                                                 *)
(***************************************************************************)
EXTENDS Naturals, Sequences, FiniteSets

CONSTANTS
  EventSubMsgs,      \* Twitch notifications (endpoints/overlay/eventsub.go)
  ExtensionMsgs,     \* Bits receipts (endpoints/overlay/extension.go)
  CommandMsgs,       \* chat commands from the bot (endpoints/overlay/dispatch.go)
  Handlers,          \* requests core-api serves at a time
  Conns,             \* websocket handlers
  NoHandler, NoConn, NoMsg,
  OutboxDepth,       \* registry.go outboxDepth (64)
  MaxReplay,         \* service.go MaxReplay (500)
  MaxReplayPerConn,  \* connect.go maxReplayPerConn (5000)
  SeqRetries,        \* service.go seqRetries (5)
  MaxDeliveries,     \* bound: times one message is delivered
  MaxFaults,         \* bound: crashes, lost sockets, failed queries
  AmbiguousCommits   \* may an INSERT commit although its caller gets an error?

Paid == EventSubMsgs \cup ExtensionMsgs
Msgs == Paid \cup CommandMsgs

ASSUME ConstantsAssumption ==
  /\ Paid \cap CommandMsgs = {} /\ EventSubMsgs \cap ExtensionMsgs = {}
  /\ NoHandler \notin Handlers /\ NoConn \notin Conns /\ NoMsg \notin Msgs
  /\ {OutboxDepth, MaxReplay, MaxReplayPerConn, SeqRetries} \subseteq Nat \ {0}
  /\ {MaxDeliveries, MaxFaults} \subseteq Nat
  /\ AmbiguousCommits \in BOOLEAN

VARIABLES
  log,        \* the durable log: log[seq] is the message with that cursor position
  lock,       \* ingestLocks: [Sources -> Handlers \cup {NoHandler}]
  hand,       \* handlers' program counters and locals
  conn,       \* websocket handlers' program counters, locals and Conn objects
  registry,   \* Registry.m[user]: the attached connection
  overlay,    \* the connection the overlay is reading, or NoConn
  cursor,     \* the overlay's persisted cursor
  runs,       \* how often the overlay has run each message
  delivered,  \* commands the bot was told were delivered
  deliveries, \* how often each message has been handed to core-api
  faults

vars == <<log, lock, hand, conn, registry, overlay, cursor, runs, delivered,
          deliveries, faults>>

Sources == {"eventsub", "extension"}

IdleHandler == [pc |-> "idle", msg |-> NoMsg,
                next |-> 0, tries |-> 0, to |-> NoConn]

\* A Conn object nobody uses: the websocket handler has returned.
NoSession == [pc |-> "gone", open |-> FALSE, since |-> 0, page |-> {}, full |-> FALSE,
              last |-> 0, replayed |-> 0, out |-> << >>, pending |-> << >>,
              prev |-> NoConn, wrote |-> << >>]

Init ==
  /\ log = << >>
  /\ lock = [s \in Sources |-> NoHandler]
  /\ hand = [h \in Handlers |-> IdleHandler]
  /\ conn = [c \in Conns |-> NoSession]
  /\ registry = NoConn
  /\ overlay = NoConn
  /\ cursor = 0
  /\ runs = [m \in Msgs |-> 0]
  /\ delivered = {}
  /\ deliveries = [m \in Msgs |-> 0]
  /\ faults = 0

Logged == {log[i] : i \in DOMAIN log}
-----------------------------------------------------------------------------
(* Ingest handlers.  EventSub and extension requests each hold a lock of   *)
(* their own endpoint across append and push; dispatch holds none.         *)

\* Each endpoint makes its own KeyedMutex.
LocksOf(m) == CASE m \in EventSubMsgs -> {"eventsub"}
                [] m \in ExtensionMsgs -> {"extension"}
                [] OTHER -> {}

\* A request arrives, for the first time or again: Twitch and the bot retry.
Deliver(h, m) ==
  /\ hand[h].pc = "idle"
  /\ deliveries[m] < MaxDeliveries
  /\ deliveries' = [deliveries EXCEPT ![m] = @ + 1]
  /\ hand' = [hand EXCEPT ![h] = [IdleHandler EXCEPT !.pc = "lock", !.msg = m]]
  /\ UNCHANGED <<log, lock, conn, registry, overlay, cursor, runs, delivered, faults>>

LockKeys(h, sources) ==
  /\ hand[h].pc = "lock"
  /\ \A s \in sources : lock[s] = NoHandler
  /\ lock' = [s \in Sources |-> IF s \in sources THEN h ELSE lock[s]]
  /\ hand' = [hand EXCEPT ![h].pc = "snapshot"]
  /\ UNCHANGED <<log, conn, registry, overlay, cursor, runs, delivered, deliveries, faults>>

\* Mutant: append and push are not serialised at all.
IngestUnlocked(h) == LockKeys(h, {})
TakeIngestLock(h) == LockKeys(h, LocksOf(hand[h].msg))

\* The handler answers and its deferred unlock runs.
Answer(h) ==
  /\ hand' = [hand EXCEPT ![h] = IdleHandler]
  /\ lock' = [s \in Sources |-> IF lock[s] = h THEN NoHandler ELSE lock[s]]

\* appendEvent's one statement reads MAX(seq)+1 in its snapshot ...
ReadTailThen(h, pc) ==
  /\ hand[h].pc = "snapshot"
  /\ hand' = [hand EXCEPT ![h] = [@ EXCEPT !.pc = pc, !.next = Len(log) + 1]]
  /\ UNCHANGED <<log, lock, conn, registry, overlay, cursor, runs, delivered, deliveries, faults>>

\* Mutant: the frame is pushed before the event is committed.
PushBeforeCommit(h) == ReadTailThen(h, "push")
ReadTail(h) == ReadTailThen(h, "insert")

\* ... and inserts: a known message id does nothing, a taken seq is a unique
\* violation that Ingest retries up to seqRetries times.
InsertUnless(h, known) ==
  /\ hand[h].pc = "insert"
  /\ \/ known /\ Answer(h) /\ UNCHANGED log
     \/ /\ ~known /\ hand[h].next <= Len(log)
        /\ IF hand[h].tries + 1 < SeqRetries
           THEN /\ hand' = [hand EXCEPT ![h] = [@ EXCEPT !.pc = "snapshot", !.tries = hand[h].tries + 1]]
                /\ UNCHANGED lock
           ELSE Answer(h)
        /\ UNCHANGED log
     \/ /\ ~known /\ hand[h].next > Len(log)
        /\ log' = Append(log, hand[h].msg)
        /\ hand' = [hand EXCEPT ![h].pc = IF hand[h].msg \in CommandMsgs THEN "probe" ELSE "push"]
        /\ UNCHANGED lock
  /\ UNCHANGED <<conn, registry, overlay, cursor, runs, delivered, deliveries, faults>>

\* Mutant: no UNIQUE (user_id, twitch_message_id).
InsertDuplicate(h) == InsertUnless(h, FALSE)
InsertEvent(h) == InsertUnless(h, hand[h].msg \in Logged)

\* The lookup of the broadcaster or the INSERT fails: acknowledged or answered with
\* 5xx, the message is not logged.  With AmbiguousCommits the row is there anyway.
IngestFails(h) ==
  /\ hand[h].pc \in {"snapshot", "insert"}
  /\ Answer(h)
  /\ \/ UNCHANGED log
     \/ /\ AmbiguousCommits /\ hand[h].pc = "insert" /\ hand[h].next > Len(log)
        /\ hand[h].msg \notin Logged
        /\ log' = Append(log, hand[h].msg)
  /\ UNCHANGED <<conn, registry, overlay, cursor, runs, delivered, deliveries, faults>>

\* dispatch.go: the answer to the bot, from whether an overlay is attached.
ProbeConnected(h) ==
  /\ hand[h].pc = "probe"
  /\ delivered' = IF registry # NoConn THEN delivered \cup {hand[h].msg} ELSE delivered
  /\ hand' = [hand EXCEPT ![h].pc = "push"]
  /\ UNCHANGED <<log, lock, conn, registry, overlay, cursor, runs, deliveries, faults>>

\* Registry.Push reads the attached connection under the lock ...
PushLookup(h) ==
  /\ hand[h].pc = "push"
  /\ IF registry = NoConn
     THEN Answer(h)
     ELSE /\ hand' = [hand EXCEPT ![h] = [@ EXCEPT !.pc = "send", !.to = registry]]
          /\ UNCHANGED lock
  /\ UNCHANGED <<log, conn, registry, overlay, cursor, runs, delivered, deliveries, faults>>

\* ... and sends without it: a full outbox closes the connection and drops the frame.
SendTo(h, lossy) ==
  /\ hand[h].pc = "send"
  /\ LET c == hand[h].to IN
       conn' = IF conn[c].pc # "gone" /\ Len(conn[c].out) < OutboxDepth
               THEN [conn EXCEPT ![c].out = Append(@, hand[h].next)]
               ELSE IF lossy THEN conn
               ELSE [conn EXCEPT ![c].open = FALSE]
  /\ Answer(h)
  /\ UNCHANGED <<log, registry, overlay, cursor, runs, delivered, deliveries, faults>>

\* Mutant: a frame that does not fit is dropped, the connection stays.
PushSendLossy(h) == SendTo(h, TRUE)
PushSend(h) == SendTo(h, FALSE)

HandlerStep(h) == \/ TakeIngestLock(h) \/ ReadTail(h) \/ InsertEvent(h)
                  \/ ProbeConnected(h) \/ PushLookup(h) \/ PushSend(h)
-----------------------------------------------------------------------------
(* The websocket handler (connect.go) and the registry.                    *)

\* A Conn object and its goroutines are gone once nothing points to it.
Fresh(c) == /\ conn[c].pc = "gone"
            /\ \A h \in Handlers : hand[h].to # c
            /\ \A d \in Conns : conn[d].prev # c

\* The overlay dials and is authenticated (readHello); its hello carries its cursor.
Dial(c) ==
  /\ overlay = NoConn
  /\ Fresh(c)
  /\ overlay' = c
  /\ conn' = [conn EXCEPT ![c] = [NoSession EXCEPT !.pc = "add", !.open = TRUE, !.since = cursor]]
  /\ UNCHANGED <<log, lock, hand, registry, cursor, runs, delivered, deliveries, faults>>

\* Registry.Add swaps the map entry under the lock ...
RegistryAdd(c) ==
  /\ conn[c].pc = "add"
  /\ registry' = c
  /\ conn' = [conn EXCEPT ![c] = [@ EXCEPT !.pc = "displace", !.prev = registry]]
  /\ UNCHANGED <<log, lock, hand, overlay, cursor, runs, delivered, deliveries, faults>>

\* ... and closes the displaced connection after it.
CloseDisplaced(c) ==
  /\ conn[c].pc = "displace"
  /\ conn' = [d \in Conns |-> IF d = c THEN [conn[c] EXCEPT !.pc = "read", !.prev = NoConn]
                              ELSE IF d = conn[c].prev THEN [conn[d] EXCEPT !.open = FALSE]
                              ELSE conn[d]]
  /\ UNCHANGED <<log, lock, hand, registry, overlay, cursor, runs, delivered, deliveries, faults>>

\* EventsAfter(since, MaxReplay): the first page of the backlog, commands excluded.
FirstOf(S, n) == {i \in S : Cardinality({j \in S : j < i}) < n}
EventsAfter(since) ==
  FirstOf({i \in DOMAIN log : i > since /\ log[i] \notin CommandMsgs}, MaxReplay)

\* Mutant: KindCommand is replayed like every other kind.
EventsAfterAllKinds(since) == FirstOf({i \in DOMAIN log : i > since}, MaxReplay)

ReadPageOf(c, page) ==
  /\ conn[c].pc = "read"
  /\ conn' = [conn EXCEPT ![c] = [@ EXCEPT !.pc = "replay", !.page = page,
                                   !.full = Cardinality(page) = MaxReplay]]
  /\ UNCHANGED <<log, lock, hand, registry, overlay, cursor, runs, delivered, deliveries, faults>>

\* Mutants: commands are replayed; paging resumes one past the cursor.
ReadPageAllKinds(c) == ReadPageOf(c, EventsAfterAllKinds(conn[c].since))
ReadPageOffByOne(c) == ReadPageOf(c, EventsAfter(conn[c].since + 1))
ReadPage(c) == ReadPageOf(c, EventsAfter(conn[c].since))

Shed(s) == IF Len(s.pending) > MaxReplayPerConn THEN [s EXCEPT !.pc = "closing"] ELSE s

\* drainOutbox: what was pushed meanwhile is kept for after "ready"; too much of it
\* sheds the connection.
Drained(s) == Shed([s EXCEPT !.pending = @ \o s.out, !.out = << >>])

\* A frame reaches the overlay if it still reads this socket.
Write(c, i) ==
  IF overlay = c
  THEN /\ runs' = [runs EXCEPT ![log[i]] = @ + 1]
       /\ cursor' = IF log[i] \in Paid THEN i ELSE cursor
  ELSE UNCHANGED <<runs, cursor>>

\* One replayed event, in seq order: write it, advance, drain.
ReplayOne(c, i, last) ==
  /\ conn[c].pc = "replay" /\ conn[c].open
  /\ \A j \in conn[c].page : i <= j
  /\ Write(c, i)
  /\ conn' = [conn EXCEPT ![c] =
       Drained([conn[c] EXCEPT !.page = conn[c].page \ {i}, !.since = i, !.last = last,
                               !.replayed = conn[c].replayed + 1,
                               !.wrote = Append(conn[c].wrote, i)])]
  /\ UNCHANGED <<log, lock, hand, registry, overlay, delivered, deliveries, faults>>

\* Mutant: the dedup threshold does not follow the replay.
ReplayForgetsLast(c) == \E i \in conn[c].page : ReplayOne(c, i, 0)
ReplayEvent(c) == \E i \in conn[c].page : ReplayOne(c, i, i)

\* A short page means the tail is reached; a spent budget closes without "ready".
PageDone(c) ==
  /\ conn[c].pc = "replay" /\ conn[c].page = {}
  /\ conn' = [conn EXCEPT ![c].pc =
                IF ~conn[c].full THEN "ready"
                ELSE IF conn[c].replayed >= MaxReplayPerConn THEN "closing" ELSE "read"]
  /\ UNCHANGED <<log, lock, hand, registry, overlay, cursor, runs, delivered, deliveries, faults>>

\* Write "ready", drain once more.
Ready(c) ==
  /\ conn[c].pc = "ready" /\ conn[c].open
  /\ conn' = [conn EXCEPT ![c] = Drained([@ EXCEPT !.pc = "flush"])]
  /\ UNCHANGED <<log, lock, hand, registry, overlay, cursor, runs, delivered, deliveries, faults>>

\* A live frame at or below the last replayed seq is dropped, others are written.
Forward(c, i, s) ==
  IF i <= conn[c].last
  THEN /\ conn' = [conn EXCEPT ![c] = s]
       /\ UNCHANGED <<runs, cursor>>
  ELSE /\ conn[c].open
       /\ Write(c, i)
       /\ conn' = [conn EXCEPT ![c] = [s EXCEPT !.wrote = Append(@, i)]]

FlushPending(c) ==
  /\ conn[c].pc = "flush"
  /\ IF conn[c].pending = << >>
     THEN /\ conn' = [conn EXCEPT ![c].pc = "live"]
          /\ UNCHANGED <<runs, cursor>>
     ELSE Forward(c, Head(conn[c].pending), [conn[c] EXCEPT !.pending = Tail(@)])
  /\ UNCHANGED <<log, lock, hand, registry, overlay, delivered, deliveries, faults>>

LiveFrame(c) ==
  /\ conn[c].pc = "live" /\ conn[c].out # << >>
  /\ Forward(c, Head(conn[c].out), [conn[c] EXCEPT !.out = Tail(@)])
  /\ UNCHANGED <<log, lock, hand, registry, overlay, delivered, deliveries, faults>>

\* A write or a ping fails, or the live loop sees ctx.Done: the context is cancelled
\* (Close, or readPump losing the peer), or the peer is gone.
StopWritingIn(c, pcs) ==
  /\ \/ conn[c].pc \in pcs
     \/ conn[c].pc = "replay" /\ conn[c].page # {}
  /\ ~conn[c].open \/ overlay # c
  /\ conn' = [conn EXCEPT ![c].pc = "closing"]
  /\ UNCHANGED <<log, lock, hand, registry, overlay, cursor, runs, delivered, deliveries, faults>>

\* Mutant: the live loop waits on the outbox alone, not on ctx.Done.
StopWritingBeforeLive(c) == StopWritingIn(c, {"ready", "flush"})
StopWriting(c) == StopWritingIn(c, {"ready", "flush", "live"})

\* EventsAfter fails: "replay failed".
ReplayFails(c) ==
  /\ conn[c].pc = "read"
  /\ faults < MaxFaults
  /\ faults' = faults + 1
  /\ conn' = [conn EXCEPT ![c].pc = "closing"]
  /\ UNCHANGED <<log, lock, hand, registry, overlay, cursor, runs, delivered, deliveries>>

\* The deferred registry.Remove and the closing of the socket.
RemoveIf(c, mine) ==
  /\ conn[c].pc = "closing"
  /\ registry' = IF mine THEN NoConn ELSE registry
  /\ overlay' = IF overlay = c THEN NoConn ELSE overlay
  /\ conn' = [conn EXCEPT ![c] = NoSession]
  /\ UNCHANGED <<log, lock, hand, cursor, runs, delivered, deliveries, faults>>

\* Mutant: no identity check, a displaced connection evicts its replacement.
RemoveAny(c) == RemoveIf(c, TRUE)
Remove(c) == RemoveIf(c, registry = c)

\* A cancelled or closing socket is seen by the overlay before its handler returns.
SocketDropped(c) ==
  /\ overlay = c
  /\ ~conn[c].open \/ conn[c].pc = "closing"
  /\ overlay' = NoConn
  /\ UNCHANGED <<log, lock, hand, conn, registry, cursor, runs, delivered, deliveries, faults>>

ConnStep(c) == \/ RegistryAdd(c) \/ CloseDisplaced(c) \/ ReadPage(c) \/ ReplayEvent(c)
               \/ PageDone(c) \/ Ready(c) \/ FlushPending(c) \/ LiveFrame(c)
               \/ StopWriting(c) \/ Remove(c)
-----------------------------------------------------------------------------
\* The overlay quits or loses its network; core-api notices later, or not at all.
OverlayLeaves ==
  /\ overlay # NoConn /\ faults < MaxFaults
  /\ overlay' = NoConn
  /\ faults' = faults + 1
  /\ UNCHANGED <<log, lock, hand, conn, registry, cursor, runs, delivered, deliveries>>

\* core-api stops: requests, locks, connections and the registry are in its memory.
Crash ==
  /\ faults < MaxFaults
  /\ faults' = faults + 1
  /\ hand' = [h \in Handlers |-> IdleHandler]
  /\ lock' = [s \in Sources |-> NoHandler]
  /\ conn' = [c \in Conns |-> NoSession]
  /\ registry' = NoConn
  /\ overlay' = NoConn
  /\ UNCHANGED <<log, cursor, runs, delivered, deliveries>>

Next ==
  \/ \E h \in Handlers : \/ \E m \in Msgs : Deliver(h, m)
                         \/ HandlerStep(h) \/ IngestFails(h)
  \/ \E c \in Conns : Dial(c) \/ ConnStep(c) \/ ReplayFails(c) \/ SocketDropped(c)
  \/ OverlayLeaves \/ Crash

Spec == Init /\ [][Next]_vars

\* Goroutines run on; a mutex waiter is served (KeyedMutex!WaiterIsServed); an overlay
\* without a socket dials again.
Fairness ==
  /\ \A h \in Handlers : WF_vars(HandlerStep(h)) /\ SF_vars(TakeIngestLock(h))
  /\ \A c \in Conns : WF_vars(ConnStep(c))
  /\ WF_vars(\E c \in Conns : Dial(c))

FairSpec == Spec /\ Fairness
-----------------------------------------------------------------------------
HandlerPCs == {"idle", "lock", "snapshot", "insert", "probe", "push", "send"}
ConnPCs == {"gone", "add", "displace", "read", "replay", "ready", "flush", "live", "closing"}

HandlerRecs == [pc : HandlerPCs, msg : Msgs \cup {NoMsg}, next : Nat, tries : Nat,
                to : Conns \cup {NoConn}]
SessionRecs(seqs) ==
  [pc : ConnPCs, open : BOOLEAN, full : BOOLEAN, since : {0} \cup seqs, last : {0} \cup seqs,
   replayed : Nat, page : SUBSET seqs, prev : Conns \cup {NoConn},
   out : Seq(seqs), pending : Seq(seqs), wrote : Seq(seqs)]

TypeOK ==
  /\ log \in Seq(Msgs)
  /\ lock \in [Sources -> Handlers \cup {NoHandler}]
  /\ hand \in [Handlers -> HandlerRecs]
  /\ conn \in [Conns -> SessionRecs(DOMAIN log)]
  /\ registry \in Conns \cup {NoConn} /\ overlay \in Conns \cup {NoConn}
  /\ cursor \in 0..Len(log)
  /\ runs \in [Msgs -> Nat] /\ delivered \subseteq CommandMsgs
  /\ deliveries \in [Msgs -> 0..MaxDeliveries] /\ faults \in 0..MaxFaults

\* "acting on it twice is the one failure that cannot be undone": however often and
\* however concurrently a message is delivered, one row of the log has it.
LoggedOnce == \A i, j \in DOMAIN log : log[i] = log[j] => i = j

\* "a cheer that lands during a restart is replayed on reconnect rather than lost": no
\* paid event the overlay has not run is behind the cursor it would reconnect with.
NoPaidEventSkipped ==
  \A i \in DOMAIN log : log[i] \in Paid /\ i <= cursor => runs[log[i]] > 0

\* "the overlay ... can treat the stream as ordered": on one connection, replay, flush
\* and live frames together, paid events are written in strictly increasing order.
StreamInOrder ==
  \A c \in Conns : \A a, b \in DOMAIN conn[c].wrote :
    a < b /\ {log[conn[c].wrote[a]], log[conn[c].wrote[b]]} \subseteq Paid
      => conn[c].wrote[a] < conn[c].wrote[b]

\* "a command is never delivered twice across a reconnect".
CommandAtMostOnce == \A m \in CommandMsgs : runs[m] <= 1

\* The registry holds the newest connection: one that serves frames and is not being
\* displaced is the one pushes find, so its events do not wait for a reconnect.
Serving(c) == /\ conn[c].pc \in {"displace", "read", "replay", "ready", "flush", "live"}
              /\ conn[c].open
              /\ \A d \in Conns : conn[d].prev # c
ServingIsRegistered == \A c \in Conns : Serving(c) => registry = c

\* "picked up from the cursor on the next connect": with nothing in flight, an overlay
\* that is attached and live has run every paid event of the log.
Quiet == /\ \A h \in Handlers : hand[h].pc = "idle"
         /\ \A c \in Conns : conn[c].out = << >> /\ conn[c].pending = << >>
         /\ \A c \in Conns : conn[c].pc \in {"gone", "live"}
Attached == overlay # NoConn /\ conn[overlay].pc = "live" /\ conn[overlay].open
CaughtUp == Quiet /\ Attached => \A m \in Paid \cap Logged : runs[m] > 0

\* A paid event that reached the log is run, whatever fails finitely often.
PaidEventRuns == \A m \in Paid : m \in Logged ~> runs[m] > 0

\* A connection that was cancelled, or whose peer is gone, ends: its handler returns and
\* the registry lets go of it, so it does not go on absorbing pushes nobody reads.
Dead(c) == conn[c].pc # "gone" /\ (~conn[c].open \/ overlay # c)
DeadIsRemoved == \A c \in Conns : Dead(c) ~> (conn[c].pc = "gone" /\ registry # c)

Delivery == INSTANCE OverlayDelivery WITH
  Commands <- CommandMsgs, ran <- {m \in Msgs : runs[m] > 0}

\* The relay is a reliable ordered delivery of paid events.
ImplementsDelivery == Delivery!Spec
-----------------------------------------------------------------------------
(* What the code's comments say and the code does not do.                  *)

\* "live frames reach the outbox in seq order" (extension.go:44-45, eventsub.go:32-34,
\* keyedmutex.go:13-14).
OutboxInSeqOrder ==
  \A c \in Conns : \A a, b \in DOMAIN conn[c].out :
    a < b => conn[c].out[a] < conn[c].out[b]

\* "Deduplication therefore lives here, at the durable boundary, rather than anywhere
\* downstream" (service.go:78-80): the overlay is sent a paid event once.
PaidRunsOnce == \A m \in Paid : runs[m] <= 1

\* "drop any live event at or below the last one we replayed", "that the backlog
\* already covered" (connect.go:192-193, 217-221): with nothing failing and nothing in
\* flight, a command reported delivered has run.
DeliveredCommandRan == Quiet /\ faults = 0 => \A m \in delivered : runs[m] > 0
-----------------------------------------------------------------------------
(* Inductive strengthenings, for OverlayRelayProofs.                       *)

HandlersKnow == \A h \in Handlers :
  /\ hand[h].pc # "idle" => hand[h].msg \in Msgs
  /\ hand[h].pc = "probe" => hand[h].msg \in CommandMsgs
  /\ hand[h].pc = "insert" => hand[h].next \in 1..(Len(log) + 1)
  /\ hand[h].pc \in {"probe", "push", "send"} => hand[h].next \in DOMAIN log
  /\ hand[h].pc = "send" => hand[h].to \in Conns

\* Only a connection inside Registry.Add points to the one it displaced, and only one
\* that has been added is registered.
ConnsKnow == \A c \in Conns :
  /\ conn[c].prev # NoConn => conn[c].pc = "displace"
  /\ conn[c].prev # c
  /\ registry = c => conn[c].pc \notin {"gone", "add"}

IInv == TypeOK /\ HandlersKnow /\ LoggedOnce /\ ConnsKnow /\ ServingIsRegistered

\* Until it is forwarded, a row of the log is in one place: with the handler that inserted
\* it, or once in one connection's queue.
Inserted == {"probe", "push", "send"}
Queue(c) == conn[c].pending \o conn[c].out
HandledOnce ==
  /\ \A h \in Handlers : hand[h].pc \in Inserted =>
       /\ log[hand[h].next] = hand[h].msg
       /\ \A g \in Handlers : hand[g].pc \in Inserted /\ hand[g].next = hand[h].next => g = h
       /\ \A c \in Conns : \A a \in DOMAIN Queue(c) : Queue(c)[a] # hand[h].next
  /\ \A c, d \in Conns : \A a \in DOMAIN Queue(c), b \in DOMAIN Queue(d) :
       Queue(c)[a] = Queue(d)[b] => c = d /\ a = b

\* ... and a command in one of these has not run.
CommandsWait ==
  /\ \A m \in CommandMsgs : runs[m] > 0 => m \in Logged
  /\ \A h \in Handlers : hand[h].pc \in Inserted /\ hand[h].msg \in CommandMsgs => runs[hand[h].msg] = 0
  /\ \A c \in Conns : \A a \in DOMAIN Queue(c) :
       log[Queue(c)[a]] \in CommandMsgs => runs[log[Queue(c)[a]]] = 0
  /\ \A c \in Conns : \A i \in conn[c].page : log[i] \in Paid

\* Nothing is left of the first part of the queue in the live loop.
Flushed == \A c \in Conns : conn[c].pc = "live" => conn[c].pending = << >>

OnceInv == IInv /\ Flushed /\ HandledOnce /\ CommandsWait /\ CommandAtMostOnce

\* Paid events come from one endpoint, whose lock serialises them.
OneSource == ~AmbiguousCommits /\ (EventSubMsgs = {} \/ ExtensionMsgs = {})

\* A handler of a paid event holds its lock until it has pushed, so its event is the last.
IsPaid(i) == i \in DOMAIN log /\ log[i] \in Paid
Serial == \A h \in Handlers : hand[h].msg \in Paid =>
  /\ hand[h].pc \notin {"idle", "lock"} => \A s \in LocksOf(hand[h].msg) : lock[s] = h
  /\ hand[h].pc \in Inserted => \A i \in DOMAIN log : IsPaid(i) => i <= hand[h].next

\* The rows a connection will still be given, and those it has been given.
Coming(c, i) == \/ \E a \in DOMAIN Queue(c) : Queue(c)[a] = i
                \/ \E h \in Handlers : hand[h].pc = "send" /\ hand[h].to = c /\ hand[h].next = i
Written(c, i) == \E a \in DOMAIN conn[c].wrote : conn[c].wrote[a] = i

\* The replay: a page is what follows `since', without a gap, and it does not reach beyond
\* "ready"; until then nothing but replayed rows is written.
Replaying == {"add", "displace", "read", "replay", "ready"}
PageKnows(c) ==
  /\ conn[c].since = 0 \/ IsPaid(conn[c].since)
  /\ conn[c].last <= conn[c].since
  /\ conn[c].pc \notin {"replay", "closing"} => conn[c].page = {}
  /\ conn[c].pc = "replay" => \A i \in conn[c].page :
       i > conn[c].since /\ \A j \in DOMAIN log : IsPaid(j) /\ conn[c].since < j /\ j < i => j \in conn[c].page
  /\ conn[c].pc \in Replaying => \A i \in DOMAIN log : Written(c, i) => i <= conn[c].last

\* What comes is in order, and after what was replayed and written.
InOrder(c) ==
  /\ \A a, b \in DOMAIN Queue(c) :
       a < b /\ IsPaid(Queue(c)[a]) /\ IsPaid(Queue(c)[b]) => Queue(c)[a] < Queue(c)[b]
  /\ \A i \in DOMAIN log : IsPaid(i) /\ Coming(c, i) => i >= conn[c].since \/ i <= conn[c].last
  /\ \A i \in DOMAIN log : IsPaid(i) /\ Written(c, i) => \/ i <= conn[c].last
       \/ /\ \A j \in DOMAIN log : IsPaid(j) /\ Coming(c, j) => i < j
          /\ \A h \in Handlers : hand[h].pc \in Inserted => hand[h].next # i

\* Once the last page has been read, what comes has no gap, and while the connection is the
\* registered one nothing is missing but what is about to be pushed.
Covered(c, i) == i <= conn[c].since \/ i \in conn[c].page \/ Written(c, i) \/ Coming(c, i)
Complete(c) == /\ conn[c].open
               /\ conn[c].pc \in {"ready", "flush", "live"} \/ (conn[c].pc = "replay" /\ ~conn[c].full)
AtPush(i) == \E h \in Handlers : hand[h].pc = "push" /\ hand[h].next = i
GapFree(c) == Complete(c) =>
  /\ \A i, j \in DOMAIN log : IsPaid(i) /\ IsPaid(j) /\ Coming(c, j) /\ i < j => Covered(c, i)
  /\ registry = c => \A i \in DOMAIN log : IsPaid(i) => Covered(c, i) \/ AtPush(i)

StreamsKnow == \A c \in Conns : PageKnows(c) /\ InOrder(c) /\ GapFree(c)

\* The overlay's cursor is where the connection it reads has got to.
CursorKnows ==
  /\ cursor = 0 \/ IsPaid(cursor)
  /\ overlay # NoConn =>
       /\ conn[overlay].pc # "gone"
       /\ conn[overlay].since <= cursor
       /\ \A i \in DOMAIN log : IsPaid(i) /\ Written(overlay, i) => i <= cursor
       /\ cursor = conn[overlay].since \/ Written(overlay, cursor)

DeliveryInv == /\ OnceInv /\ Serial /\ StreamsKnow /\ CursorKnows
               /\ NoPaidEventSkipped /\ StreamInOrder
=============================================================================
