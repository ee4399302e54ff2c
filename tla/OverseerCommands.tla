-------------------------- MODULE OverseerCommands --------------------------
(***************************************************************************)
(* A !df line from chat to the game: handleDFCommand (cmd_df.go) parses it *)
(* on the bot, sends what it asks for over OverseerLink, and the executor's*)
(* Submit (overseer/service.go) has dfhack-run do it.  Of the game, only   *)
(* its pause flag is kept.  dfhack-run may fail, with or without effect.   *)
(***************************************************************************)
EXTENDS OverseerLink, OverseerGrammar

CONSTANT
  Chats  \* what is typed: a line and what its author wants of each command, and the faults behind us

ASSUME ChatsAssumption ==
  \A s \in Chats : DOMAIN s.line \subseteq Cmds /\ s.past \in 0..MaxFaults

VARIABLES
  action,  \* by command, what ParseCommand makes of the line
  wish,    \* by command, the operation its author wants
  asked,   \* by command, the operations dfhack-run has been told to do
  paused,  \* df.global.pause_state
  told     \* the pause state of the last success that Send returned

game == <<asked, paused, told>>
cvars == <<vars, action, wish, game>>

CommandsInit ==
  /\ \E s \in Chats : /\ action = [c \in DOMAIN s.line |-> ParseCommand(s.line[c])]
                      /\ wish = s.wish
                      /\ LinkInit(DOMAIN s.line, s.past)
  /\ asked = [c \in Cmds |-> {}]
  /\ paused = FALSE /\ told = FALSE
-----------------------------------------------------------------------------
Operation(c) == Submitted(action[c])

\* What the operation leaves of the pause flag.  Mutant: unpause writes true as well.
AfterTrueBoth(op, flag) == IF op.kind \in {"pause", "unpause"} THEN TRUE ELSE flag
After(op, flag) == IF op.kind \in {"pause", "unpause"} THEN op.kind = "pause" ELSE flag

\* What a success tells chat of it.
SuccessReply(a, flag) == IF a.kind \in {"pause", "unpause"} THEN a.kind = "pause" ELSE flag

\* An error or help: nothing is sent.
Rejected(c) ==
  /\ send[c].pc = "start" /\ action[c] \in {Silence, Reply}
  /\ send' = [send EXCEPT ![c].pc = "done"]
  /\ UNCHANGED <<mu, client, link, runs, report, faults, action, wish, game>>

Locks(c) ==
  /\ action[c] \notin {Silence, Reply} /\ Lock(c)
  /\ UNCHANGED <<action, wish, game>>

\* A step of Send, and the reply when it returns.
Sends(c) ==
  /\ SendStep(c)
  /\ told' = IF report'[c].ok THEN SuccessReply(action[c], told) ELSE told
  /\ UNCHANGED <<action, wish, asked, paused>>

Deadline(c) == DeadlinePasses(c) /\ UNCHANGED <<action, wish, game>>

\* Submit refuses, or has dfhack-run do it.
Refuses(l) ==
  /\ link[l].server = "submit" /\ Operation(link[l].cmd) = Refused
  /\ SubmitThen(l, NoCmd, FALSE)
  /\ UNCHANGED <<action, wish, game>>

Runs(l) ==
  LET c == link[l].cmd IN
  /\ link[l].server = "submit" /\ Operation(c) # Refused
  /\ asked' = [asked EXCEPT ![c] = @ \cup {Operation(c)}]
  /\ \/ SubmitThen(l, c, TRUE) /\ paused' = After(Operation(c), paused)
     \/ SubmitThen(l, c, FALSE) /\ paused' \in {paused, After(Operation(c), paused)}
  /\ UNCHANGED <<action, wish, told>>

Transports(l) ==
  /\ Receive(l) \/ Acknowledge(l) \/ StopReading(l) \/ LinkLost(l)
  /\ UNCHANGED <<action, wish, game>>

\* The executor stops; what dfhack-run was told before it did takes effect or not.
Stops ==
  /\ ExecutorStops
  /\ LET done == {c \in Cmds : runs'[c] > runs[c]} IN
       /\ \A c \in done : Operation(c) # Refused
       /\ asked' = [c \in Cmds |-> asked[c] \cup IF c \in done THEN {Operation(c)} ELSE {}]
       /\ paused' \in {paused} \cup {After(Operation(c), paused) : c \in done}
  /\ UNCHANGED <<action, wish, told>>

CommandsNext ==
  \/ \E c \in DOMAIN action : Rejected(c) \/ Locks(c) \/ Sends(c) \/ Deadline(c)
  \/ \E l \in Links : Refuses(l) \/ Runs(l) \/ Transports(l)
  \/ Stops

\* As for the link; parsing needs nothing but the bot.
CommandsFairness ==
  \A c \in Cmds : /\ WF_cvars(c \in DOMAIN action /\ Rejected(c))
                  /\ SF_cvars(c \in DOMAIN action /\ Locks(c))
                  /\ WF_cvars(c \in DOMAIN action /\ Sends(c))
                  /\ WF_cvars(c \in DOMAIN action /\ Deadline(c))

CommandsSpec == CommandsInit /\ [][CommandsNext]_cvars /\ CommandsFairness
-----------------------------------------------------------------------------
\* The game is asked for what the author of a line wants and for nothing else, however
\* often the command is sent; a line is dropped only if it asks for nothing, and refused by
\* the executor, untried, only if it asks for what the verb does not do.
DoesAsTold ==
  \A c \in DOMAIN action :
    /\ asked[c] \subseteq {wish[c]}
    /\ send[c].pc = "done" /\ report[c].id = "none" => wish[c].kind = "nothing"
    /\ report[c].id = c /\ asked[c] = {} => wish[c] = Refused

\* Between commands the game is paused if the last success of a pause or unpause said so,
\* as long as none failed and none was sent twice: an attempt given up may still be done
\* later and undo what was answered since.
PausedAsTold ==
  \/ paused = told
  \/ mu # NoCmd
  \/ \E c \in DOMAIN action : send[c].attempt = 2 \/ (send[c].pc = "done" /\ ~report[c].ok)
-----------------------------------------------------------------------------
(* Inductive strengthenings, for OverseerCommandsProofs.                   *)

\* Only what was typed is sent.
TypedKnows ==
  /\ DOMAIN action \subseteq Cmds /\ DOMAIN asked = Cmds
  /\ \A c \in DOMAIN action : "kind" \in DOMAIN action[c]
  /\ \A c \in Cmds \ DOMAIN action : send[c].pc = "done" /\ report[c] = NoReport

\* dfhack-run is told what the line says, before the executor's answer leaves it.
AskedKnows == \A c \in DOMAIN action :
  /\ asked[c] \subseteq {Operation(c)} \ {Refused}
  /\ action[c] \in {Silence, Reply} => report[c] = NoReport
  /\ send[c].pc \in {"connect", "write", "read"} => action[c] \notin {Silence, Reply}
  /\ send[c].pc = "done" /\ report[c].id = "none" => action[c] \in {Silence, Reply}
  /\ asked[c] = {} /\ Operation(c) # Refused =>
       /\ report[c].id # c
       /\ \A l \in Links : /\ ~(link[l].server = "ack" /\ link[l].cmd = c)
                           /\ send[c].pc = "read" /\ client.conn = l => link[l].toClient = << >>

\* As long as none has failed and none was sent twice, the game has done what was answered,
\* and the answer under way says what the game has just done.
Clean == \A c \in DOMAIN action : send[c].attempt = 1 /\ (send[c].pc = "done" => report[c].ok)
Answered(l) == \/ link[l].server = "ack" /\ link[l].ok
               \/ link[l].toClient # << >> /\ Head(link[l].toClient).ok
GameKnows == Clean =>
  /\ mu = NoCmd => paused = told
  /\ \A c \in DOMAIN action : mu = c =>
       /\ send[c].pc # "read" => paused = told
       /\ \A l \in Links : send[c].pc = "read" /\ client.conn = l =>
            /\ link[l].toServer # << >> \/ link[l].server = "submit" => paused = told
            /\ Answered(l) => paused = After(Operation(c), told)

CommandsInv == LinkInv /\ TypedKnows /\ AskedKnows /\ GameKnows

\* The grammar reads every line as its author means it: what DoesAsTold needs of it.
Means(a, w) == IF a \in {Silence, Reply} THEN w.kind = "nothing" ELSE Submitted(a) = w
ReadAsMeant == \A s \in Chats : \A c \in DOMAIN s.line : Means(ParseCommand(s.line[c]), s.wish[c])
WishKnows == \A c \in DOMAIN action : Means(action[c], wish[c])
=============================================================================
