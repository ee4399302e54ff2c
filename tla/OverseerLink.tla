--------------------------- MODULE OverseerLink ---------------------------
(***************************************************************************)
(* The command link from the bot to the Dwarf Fortress host:               *)
(* internal/libraries/overseer/client.go on the bot's side, server.go on   *)
(* the executor's.  Every !df command is one Send with a deadline of its   *)
(* own (cmd_df.go); the executor runs what it receives through dfhack-run. *)
(*                                                                         *)
(* A connection carries both directions in order until it is lost.  What   *)
(* was under way then may or may not still arrive, and a write to a lost   *)
(* connection may succeed locally and vanish.  Signing and encoding are    *)
(* left out: both ends hold the key and send well-formed envelopes.        *)
(***************************************************************************)
EXTENDS Naturals, Sequences, FiniteSets

CONSTANTS
  Cmds,      \* commands, by id; one Send each
  Links,     \* websocket connections, one server goroutine each
  NoCmd, NoLink,
  MaxFaults  \* bound: connections lost, executor stops, failed dials

ASSUME ConstantsAssumption ==
  /\ NoCmd \notin Cmds /\ NoLink \notin Links
  /\ {"none", "connect", "transport", "replay"} \cap Cmds = {}
  /\ MaxFaults \in Nat

VARIABLES
  send,     \* Send's program counter, attempt and deadline
  mu,       \* Client.mu: the Send that holds it
  client,   \* Client.conn, sentSeq, lastAckSeq
  link,     \* the connections and the server's goroutines
  runs,     \* how often the executor has run each command
  report,   \* what Send returned: the id and the result in the acknowledgement, or the error
  faults

vars == <<send, mu, client, link, runs, report, faults>>

\* A connection nobody uses.
NoConnection == [open |-> FALSE, server |-> "gone", cmd |-> NoCmd, ok |-> FALSE, lastReq |-> 0,
                 ackSeq |-> 0, toServer |-> << >>, toClient |-> << >>]

NoReport == [id |-> "none", ok |-> FALSE]

\* Some commands are sent; so many faults are behind us.
LinkInit(cmds, past) ==
  /\ send = [c \in Cmds |-> [pc |-> IF c \in cmds THEN "start" ELSE "done", attempt |-> 1,
                             expired |-> FALSE]]
  /\ mu = NoCmd
  /\ client = [conn |-> NoLink, sentSeq |-> 0, lastAckSeq |-> 0]
  /\ link = [l \in Links |-> NoConnection]
  /\ runs = [c \in Cmds |-> 0]
  /\ report = [c \in Cmds |-> NoReport]
  /\ faults = past

Init == LinkInit(Cmds, 0)
-----------------------------------------------------------------------------
(* Client.Send.                                                            *)

Lock(c) ==
  /\ send[c].pc = "start" /\ mu = NoCmd
  /\ mu' = c
  /\ send' = [send EXCEPT ![c].pc = "connect"]
  /\ UNCHANGED <<client, link, runs, report, faults>>

\* cmd_df.go's 15 seconds, which run while Send waits for the mutex too.
DeadlinePasses(c) ==
  /\ send[c].pc # "done" /\ ~send[c].expired
  /\ send' = [send EXCEPT ![c].expired = TRUE]
  /\ UNCHANGED <<mu, client, link, runs, report, faults>>

\* Send returns and unlocks.
Return(c, id, ok) ==
  /\ report' = [report EXCEPT ![c] = [id |-> id, ok |-> ok]]
  /\ send' = [send EXCEPT ![c].pc = "done"]
  /\ mu' = NoCmd

\* A failed attempt drops the connection and is repeated once.
DropAndRetry(c, attempts) ==
  /\ client' = [client EXCEPT !.conn = NoLink]
  /\ link' = [link EXCEPT ![client.conn].open = FALSE]
  /\ IF send[c].attempt < attempts
     THEN /\ send' = [send EXCEPT ![c] = [@ EXCEPT !.pc = "connect", !.attempt = send[c].attempt + 1]]
          /\ UNCHANGED <<report, mu>>
     ELSE Return(c, "transport", FALSE)

\* ensureConnectedLocked: keep the connection, or dial one and start its numbering.
Connected(c) ==
  /\ send[c].pc = "connect" /\ client.conn # NoLink
  /\ send' = [send EXCEPT ![c].pc = "write"]
  /\ UNCHANGED <<mu, client, link, runs, report, faults>>

DialWith(c, late, ackSeq) ==
  /\ send[c].pc = "connect" /\ client.conn = NoLink
  /\ ~send[c].expired \/ late
  /\ \E l \in Links :
       /\ link[l].server = "gone"
       /\ client' = [conn |-> l, sentSeq |-> 0, lastAckSeq |-> ackSeq]
       /\ link' = [link EXCEPT ![l] = [NoConnection EXCEPT !.open = TRUE, !.server = "read"]]
  /\ send' = [send EXCEPT ![c].pc = "write"]
  /\ UNCHANGED <<mu, runs, report, faults>>

\* Mutants: the acknowledgements of the new connection are compared with those of the
\* old one; the repeated attempt is given a deadline of its own.
DialKeepsAckSeq(c) == DialWith(c, FALSE, client.lastAckSeq)
DialIgnoresDeadline(c) == DialWith(c, TRUE, 0)
Dial(c) == DialWith(c, FALSE, 0)

DialFails(c) ==
  /\ send[c].pc = "connect" /\ client.conn = NoLink
  /\ \/ send[c].expired /\ UNCHANGED faults
     \/ ~send[c].expired /\ faults < MaxFaults /\ faults' = faults + 1
  /\ Return(c, "connect", FALSE)
  /\ UNCHANGED <<client, link, runs>>

\* The next envelope is written; on a lost connection it may vanish.
Write(c) ==
  /\ send[c].pc = "write"
  /\ client' = [client EXCEPT !.sentSeq = @ + 1]
  /\ link' = IF link[client.conn].open
             THEN [link EXCEPT ![client.conn].toServer =
                     Append(@, [seq |-> client.sentSeq + 1, cmd |-> c])]
             ELSE link
  /\ send' = [send EXCEPT ![c].pc = "read"]
  /\ UNCHANGED <<mu, runs, report, faults>>

WriteFails(c) ==
  /\ send[c].pc = "write"
  /\ send[c].expired \/ ~link[client.conn].open
  /\ DropAndRetry(c, 2)
  /\ UNCHANGED <<runs, faults>>

\* The acknowledgement is the next envelope on the connection.
ReadAck(c) ==
  /\ send[c].pc = "read" /\ link[client.conn].toClient # << >>
  /\ LET ack == Head(link[client.conn].toClient) IN
       IF ack.seq <= client.lastAckSeq
       THEN Return(c, "replay", FALSE) /\ UNCHANGED client
       ELSE Return(c, ack.cmd, ack.ok) /\ client' = [client EXCEPT !.lastAckSeq = ack.seq]
  /\ link' = [link EXCEPT ![client.conn].toClient = Tail(@)]
  /\ UNCHANGED <<runs, faults>>

\* The connection is lost, or the deadline passes while the executor is at work.
ReadFailsWhen(c, gaveUp) ==
  /\ send[c].pc = "read"
  /\ \/ gaveUp
     \/ ~link[client.conn].open /\ link[client.conn].toClient = << >>
  /\ UNCHANGED <<runs, faults>>

\* Mutants: the connection is kept when the deadline passes; the read has no deadline;
\* the attempt is repeated more than once.
ReadFailsKeepingConn(c) == ReadFailsWhen(c, send[c].expired) /\ Return(c, "transport", FALSE)
                                                         /\ UNCHANGED <<client, link>>
ReadFailsOnLossOnly(c) == ReadFailsWhen(c, FALSE) /\ DropAndRetry(c, 2)
ReadFailsTwice(c) == ReadFailsWhen(c, send[c].expired) /\ DropAndRetry(c, 3)
ReadFails(c) == ReadFailsWhen(c, send[c].expired) /\ DropAndRetry(c, 2)

SendStep(c) == \/ Connected(c) \/ Dial(c) \/ DialFails(c) \/ Write(c) \/ WriteFails(c)
               \/ ReadAck(c) \/ ReadFails(c)
-----------------------------------------------------------------------------
(* Server.ServeHTTP, one goroutine per connection.                         *)

\* The next envelope, unless its number is not above the last one's.
Receive(l) ==
  /\ link[l].server = "read" /\ link[l].toServer # << >>
  /\ LET env == Head(link[l].toServer) IN
       link' = [link EXCEPT ![l] =
         IF env.seq <= link[l].lastReq
         THEN [NoConnection EXCEPT !.toClient = link[l].toClient]
         ELSE [link[l] EXCEPT !.server = "submit", !.cmd = env.cmd,
                              !.lastReq = env.seq, !.toServer = Tail(@)]]
  /\ UNCHANGED <<send, mu, client, runs, report, faults>>

\* dfhack-run, however long it takes and whatever it answers.
SubmitThen(l, ranAs, ok) ==
  /\ link[l].server = "submit"
  /\ runs' = IF ranAs = NoCmd THEN runs ELSE [runs EXCEPT ![ranAs] = @ + 1]
  /\ link' = [link EXCEPT ![l] = [@ EXCEPT !.server = "ack", !.ok = ok]]
  /\ UNCHANGED <<send, mu, client, report, faults>>

Submit(l) == \E ok \in BOOLEAN : SubmitThen(l, link[l].cmd, ok)

\* The acknowledgement; if its write fails the goroutine returns.
Acknowledge(l) ==
  /\ link[l].server = "ack"
  /\ link' = [link EXCEPT ![l] =
       IF link[l].open
       THEN [link[l] EXCEPT !.server = "read", !.cmd = NoCmd, !.ok = FALSE, !.ackSeq = @ + 1,
               !.toClient = Append(@, [seq |-> link[l].ackSeq + 1, cmd |-> link[l].cmd, ok |-> link[l].ok])]
       ELSE NoConnection]
  /\ UNCHANGED <<send, mu, client, runs, report, faults>>

\* The read ends: the client has closed, or nothing came for five minutes.
StopReading(l) ==
  /\ link[l].server = "read" /\ link[l].toServer = << >>
  /\ link' = [link EXCEPT ![l] = [NoConnection EXCEPT !.toClient = link[l].toClient]]
  /\ UNCHANGED <<send, mu, client, runs, report, faults>>
-----------------------------------------------------------------------------
\* The connection is lost with what is under way on it, or after that has arrived.
LinkLost(l) ==
  /\ link[l].open /\ faults < MaxFaults
  /\ faults' = faults + 1
  /\ \E requests \in {<< >>, link[l].toServer}, acks \in {<< >>, link[l].toClient} :
       link' = [link EXCEPT ![l] = [@ EXCEPT !.open = FALSE, !.toServer = requests, !.toClient = acks]]
  /\ UNCHANGED <<send, mu, client, runs, report>>

\* The executor stops, before or after each dfhack-run has done what it was running: two
\* connections may be running the same command.
ExecutorStops ==
  /\ faults < MaxFaults
  /\ faults' = faults + 1
  /\ \E done \in SUBSET {l \in Links : link[l].server = "submit"} :
       /\ IsFiniteSet(done)
       /\ runs' = [c \in Cmds |-> runs[c] + Cardinality({l \in done : link[l].cmd = c})]
  /\ link' = [l \in Links |-> NoConnection]
  /\ UNCHANGED <<send, mu, client, report>>

Next ==
  \/ \E c \in Cmds : Lock(c) \/ DeadlinePasses(c) \/ SendStep(c)
  \/ \E l \in Links : Receive(l) \/ Submit(l) \/ Acknowledge(l) \/ StopReading(l) \/ LinkLost(l)
  \/ ExecutorStops

Spec == Init /\ [][Next]_vars

\* Goroutines of the bot run on, sync.Mutex does not starve a waiter, and deadlines
\* pass.  Nothing is assumed of the executor.
Fairness == \A c \in Cmds : SF_vars(Lock(c)) /\ WF_vars(SendStep(c)) /\ WF_vars(DeadlinePasses(c))

FairSpec == Spec /\ Fairness
-----------------------------------------------------------------------------
Requests == [seq : Nat, cmd : Cmds]
Acks == [seq : Nat, cmd : Cmds, ok : BOOLEAN]
SendRecs == [pc : {"start", "connect", "write", "read", "done"}, attempt : 1..2, expired : BOOLEAN]
LinkRecs == [open : BOOLEAN, server : {"gone", "read", "submit", "ack"}, cmd : Cmds \cup {NoCmd},
             ok : BOOLEAN, lastReq : Nat, ackSeq : Nat, toServer : Seq(Requests), toClient : Seq(Acks)]

TypeOK ==
  /\ send \in [Cmds -> SendRecs]
  /\ mu \in Cmds \cup {NoCmd}
  /\ client \in [conn : Links \cup {NoLink}, sentSeq : Nat, lastAckSeq : Nat]
  /\ link \in [Links -> LinkRecs]
  /\ runs \in [Cmds -> Nat]
  /\ report \in [Cmds -> [id : Cmds \cup {"none", "connect", "transport", "replay"}, ok : BOOLEAN]]
  /\ faults \in 0..MaxFaults

\* What the chatter is told of a command is the executor's answer to that command, and
\* a success only of one the executor has run.
AnswerIsForCommand ==
  \A c \in Cmds : report[c].id \in Cmds => report[c].id = c /\ (report[c].ok => runs[c] > 0)

\* "At-most-twice on the wire", and "stale connections (the common case) drop the bytes
\* before the server sees them, so no duplication": without a connection lost under a
\* command or an executor that stops, a command runs once, whatever connections idle out
\* and deadlines pass.
AtMostTwice == \A c \in Cmds : runs[c] <= IF faults = 0 THEN 1 ELSE 2

\* The numbers of the two ends never disagree: an honest answer is not taken for a replay.
NoFalseReplay == \A c \in Cmds : report[c].id # "replay"

\* Send returns, even if the executor never answers.
SendReturns == \A c \in Cmds : send[c].pc = "start" ~> send[c].pc = "done"
-----------------------------------------------------------------------------
(* Inductive strengthenings, for OverseerCommandsProofs.                   *)

\* The mutex belongs to the one Send that works on the connection; a success is an answer.
SendsKnow == \A c \in Cmds :
  /\ send[c].pc \in {"connect", "write", "read"} <=> mu = c
  /\ send[c].pc \in {"write", "read"} => client.conn # NoLink
  /\ report[c] = NoReport \/ send[c].pc = "done"
  /\ report[c].ok => report[c].id \in Cmds

\* At most one request waits on a connection, only for an idle server, and a success is of
\* a command that has run.
LinkKnows(l) ==
  /\ link[l].server = "gone" => ~link[l].open
  /\ link[l].toServer # << >> => link[l].server = "read" /\ Len(link[l].toServer) = 1
  /\ link[l].server \in {"submit", "ack"} => link[l].cmd \in Cmds
  /\ link[l].server = "ack" /\ link[l].ok => runs[link[l].cmd] > 0
LinksKnow == \A l \in Links : LinkKnows(l)

\* Between two Sends the client's connection is empty and both ends have counted alike.
Idle(l) ==
  /\ link[l].toServer = << >> /\ link[l].toClient = << >> /\ link[l].server \in {"read", "gone"}
  /\ client.lastAckSeq = client.sentSeq
  /\ link[l].server = "read" => link[l].lastReq <= client.sentSeq /\ link[l].ackSeq = client.sentSeq

\* While one waits for its answer, its request is in one place, or lost.
AtServer(l) == link[l].toServer # << >> \/ link[l].server \in {"submit", "ack"}
Busy(c, l) ==
  /\ client.sentSeq = client.lastAckSeq + 1
  /\ AtServer(l) => link[l].toClient = << >> /\ link[l].ackSeq = client.lastAckSeq
  /\ link[l].toServer # << >> => /\ Head(link[l].toServer) = [seq |-> client.sentSeq, cmd |-> c]
                                 /\ link[l].lastReq < client.sentSeq
  /\ link[l].server \in {"submit", "ack"} => link[l].cmd = c
  /\ link[l].server # "gone" => link[l].lastReq <= client.sentSeq
  /\ link[l].toClient # << >> =>
       /\ Len(link[l].toClient) = 1
       /\ Head(link[l].toClient).seq = client.sentSeq /\ Head(link[l].toClient).cmd = c
       /\ Head(link[l].toClient).ok => runs[c] > 0
       /\ link[l].server = "read" => link[l].ackSeq = client.sentSeq
  /\ link[l].open => AtServer(l) \/ link[l].toClient # << >>

ClientKnows == \A l \in Links : client.conn = l =>
  /\ \A c \in Cmds : send[c].pc = "read" => Busy(c, l)
  /\ (\A c \in Cmds : send[c].pc # "read") => Idle(l)

\* Every attempt puts a command into at most one place where it will still be run.
Pending(c) == {l \in Links :
  \/ link[l].toServer # << >> /\ Head(link[l].toServer).cmd = c
  \/ link[l].server = "submit" /\ link[l].cmd = c}
Used(c) == runs[c] + Cardinality(Pending(c))
Attempts(c) == IF report[c] = NoReport /\ send[c].pc \in {"start", "done"} THEN 0
               ELSE IF send[c].pc \in {"connect", "write"} THEN send[c].attempt - 1
               ELSE send[c].attempt
AttemptsKnow == \A c \in Cmds :
  /\ send[c].pc = "start" => send[c].attempt = 1
  /\ IsFiniteSet(Pending(c)) /\ Used(c) <= Attempts(c)
  /\ send[c].pc = "read" /\ send[c].attempt = 1 => \A l \in Pending(c) : l = client.conn

\* Without faults a connection only idles out, and a first attempt that reached the executor
\* is given up only at the deadline, which leaves no time for a second.
FaultFree == faults = 0 =>
  /\ \A c \in Cmds : Used(c) <= 1
  /\ \A c \in Cmds : Used(c) > 0 /\ send[c].pc \in {"connect", "write"} =>
       send[c].expired /\ client.conn = NoLink
  /\ \A l \in Links : client.conn = l =>
       /\ link[l].open \/ link[l].server = "gone"
       /\ \A c \in Cmds : Used(c) > 0 /\ send[c].pc = "read" /\ ~send[c].expired =>
            link[l].open \/ link[l].toClient # << >>

LinkInv == /\ TypeOK /\ SendsKnow /\ LinksKnow /\ ClientKnows /\ AttemptsKnow /\ FaultFree
           /\ AnswerIsForCommand /\ NoFalseReplay
=============================================================================
