---------------------------- MODULE ChatMessages ----------------------------
(***************************************************************************)
(* One channel's chat in one life of the bot: a goroutine per              *)
(* channel.chat.message notification (twitchbot/bot_read_message.go) that  *)
(* asks the duplicate filter and shouts out a chatter of the auto-shout    *)
(* list, which go-live refills from the rows core-api stamps               *)
(* (cmd_autoshout.go, autoshout/service.go).  To say something is to queue *)
(* it, which may take any time (SayQueue).  A restart is a new behaviour,  *)
(* with the rows the last one left.                                        *)
(***************************************************************************)
EXTENDS MessageIDCache, SequencesExt

CONSTANTS
  Author,     \* the chatter of each message
  Chatters,   \* the rows of auto_shout
  Goroutines, \* notifications being handled at a time
  MaxRetries, MaxOnline  \* bounds on redeliveries and stream.online webhooks

ASSUME ChattersAssumption == IsFiniteSet(Chatters)

VARIABLES
  up,       \* FALSE once the process has ended
  hand,     \* the goroutines: step, message, index found, rest of the list
  taken,    \* the messages that passed the filter, in order
  list,     \* autoShout[channel]
  fetch,    \* fetchAutoShoutChatters: its step and its rows
  key,      \* users.stream_key
  stamped,  \* auto_shout.stream_key
  stamps,   \* incrementAutoShout goroutines under way
  shouts,   \* shoutouts in this stream
  sent, retries, onlines

cache == <<ids, set, next, full, answer>>
twitch == <<sent, retries, onlines>>
chatVars == <<cache, up, hand, taken, list, fetch, key, stamped, stamps, shouts, twitch>>

Messages == Ids \cup {Blank}
Idle == [pc |-> "idle", msg |-> Blank, at |-> 0, rest |-> << >>]
NoFetch == [pc |-> "none", rows |-> << >>]
Writer(g) == Author[hand[g].msg]
Goes(g, pc) == hand' = [hand EXCEPT ![g].pc = pc]
Ends(g) == hand' = [hand EXCEPT ![g] = Idle]

\* A boot into a running stream, in which some of the chatters may have had their shoutout.
Boots ==
  /\ Init
  /\ up = TRUE /\ hand = [g \in Goroutines |-> Idle] /\ taken = << >>
  /\ list = << >> /\ key = 1 /\ stamps = [c \in Chatters |-> 0] /\ shouts = stamped
  /\ sent = {}
ChatInit ==
  /\ stamped \in [Chatters -> {0, 1}] /\ Boots
  /\ fetch = [NoFetch EXCEPT !.pc = "query"] /\ onlines = 0 /\ retries = 0
\* Later in it, with every shoutout given.
ChatInitShouted(again) ==
  /\ stamped = [c \in Chatters |-> 1] /\ Boots
  /\ fetch = NoFetch /\ onlines = MaxOnline
  /\ retries = IF again THEN 0 ELSE MaxRetries
-----------------------------------------------------------------------------
(* handleWebhookMessage.                                                   *)

\* Twitch delivers a message, or delivers it again.
Deliver(g, m) ==
  /\ hand[g].pc = "idle"
  /\ m \in sent => retries < MaxRetries
  /\ retries' = IF m \in sent THEN retries + 1 ELSE retries
  /\ sent' = sent \cup {m}
  /\ hand' = [hand EXCEPT ![g] = [Idle EXCEPT !.pc = "dedupe", !.msg = m]]
  /\ UNCHANGED <<cache, up, taken, list, fetch, key, stamped, stamps, shouts, onlines>>

\* The filter is asked; only a message it calls new goes on, through the commands in it.  The
\* bot's own messages end here, and !newpromo and !stalk after their command.
AskUnless(g, known) ==
  LET m == hand[g].msg IN
  /\ hand[g].pc = "dedupe"
  /\ \/ m # Blank /\ known /\ SeenDuplicate(m) /\ Ends(g) /\ UNCHANGED taken
     \/ /\ \/ m # Blank /\ SeenNew(m)
           \/ m # Blank /\ ~known /\ SeenDuplicate(m)
           \/ m = Blank /\ SeenEmpty
        /\ Goes(g, "contains") \/ Ends(g)
        /\ taken' = Append(taken, m)
  /\ UNCHANGED <<up, list, fetch, key, stamped, stamps, shouts, twitch>>

\* Mutant: what the filter answers is not looked at.
AskIgnored(g) == AskUnless(g, FALSE)
Ask(g) == AskUnless(g, TRUE)

\* The list, which no lock guards, is searched.
IsListed(g) ==
  /\ hand[g].pc = "contains"
  /\ IF Writer(g) \in ToSet(list) THEN Goes(g, "shout") ELSE Ends(g)
  /\ UNCHANGED <<cache, up, taken, list, fetch, key, stamped, stamps, shouts, twitch>>

\* The shoutout is queued, which may block ...
Shout(g) ==
  /\ hand[g].pc = "shout"
  /\ shouts' = [shouts EXCEPT ![Writer(g)] = @ + 1]
  /\ Goes(g, "index")
  /\ UNCHANGED <<cache, up, taken, list, fetch, key, stamped, stamps, twitch>>

\* ... and once its announcement is, too, a goroutine will stamp the chatter's row;
\* slices.Index, counted from 1: 0 is its -1.
Index(g) ==
  /\ hand[g].pc = "index"
  /\ stamps' = [stamps EXCEPT ![Writer(g)] = @ + 1]
  /\ hand' = [hand EXCEPT ![g] = [@ EXCEPT !.pc = "delete",
                                   !.at = SelectInSeq(list, LAMBDA c : c = Writer(g))]]
  /\ UNCHANGED <<cache, up, taken, list, fetch, key, stamped, shouts, twitch>>

\* slices.Delete of what is at that index by now; nothing recovers the panic if nothing is.
\* Abstraction: it shifts the array the map's slice shares, so that others may see the list
\* without the chatter already before Store; here they see it from Store on.
Delete(g) ==
  /\ hand[g].pc = "delete"
  /\ up' = (hand[g].at \in DOMAIN list)
  /\ IF up'
     THEN hand' = [hand EXCEPT ![g] = [@ EXCEPT !.pc = "store",
                                                 !.rest = RemoveAt(list, hand[g].at)]]
     ELSE Ends(g)
  /\ UNCHANGED <<cache, taken, list, fetch, key, stamped, stamps, shouts, twitch>>

Store(g) ==
  /\ hand[g].pc = "store"
  /\ list' = hand[g].rest /\ Ends(g)
  /\ UNCHANGED <<cache, up, taken, fetch, key, stamped, stamps, shouts, twitch>>

\* The runtime may stop the process when a write of the map meets another access to it.
Readers == {g \in Goroutines : hand[g].pc \in {"contains", "index", "delete"}}
Writers == {g \in Goroutines : hand[g].pc = "store"}
MapFault ==
  /\ \/ fetch.pc = "assign" /\ Readers \cup Writers # {}
     \/ \E g \in Writers : Readers \cup Writers # {g}
  /\ up' = FALSE
  /\ UNCHANGED <<cache, hand, taken, list, fetch, key, stamped, stamps, shouts, twitch>>
-----------------------------------------------------------------------------
(* The list and its rows.                                                  *)

\* stream.online: PutChannelState mints a key on a transition, none for a repeated
\* webhook; the list is fetched for either.  One fetch at a time bounds the model.
GoLive(fresh) ==
  /\ fetch.pc = "none"
  /\ onlines < MaxOnline /\ onlines' = onlines + 1
  /\ key' = IF fresh THEN key + 1 ELSE key
  /\ shouts' = IF fresh THEN [c \in Chatters |-> 0] ELSE shouts
  /\ fetch' = [NoFetch EXCEPT !.pc = "query"]
  /\ UNCHANGED <<cache, up, hand, taken, list, stamped, stamps, sent, retries>>

\* GetAutoShoutChattersForBot: the rows whose stamp is not the current key, or an error.
QueryFor(owed) ==
  /\ fetch.pc = "query"
  /\ \E rows \in {<< >>, SetToSeq(owed)} : fetch' = [pc |-> "assign", rows |-> rows]
  /\ UNCHANGED <<cache, up, hand, taken, list, key, stamped, stamps, shouts, twitch>>

\* Mutant: every row is fetched, whatever its stamp.
QueryAll == QueryFor(Chatters)
Query == QueryFor({c \in Chatters : stamped[c] # key})

\* What came back is stored, also after an error.
Assign ==
  /\ fetch.pc = "assign"
  /\ list' = fetch.rows /\ fetch' = NoFetch
  /\ UNCHANGED <<cache, up, hand, taken, key, stamped, stamps, shouts, twitch>>

\* IncrementShoutCount stamps the key current when it runs, or fails.
Stamp(c) ==
  /\ stamps[c] > 0
  /\ stamps' = [stamps EXCEPT ![c] = @ - 1]
  /\ \/ stamped' = [stamped EXCEPT ![c] = key]
     \/ UNCHANGED stamped
  /\ UNCHANGED <<cache, up, hand, taken, list, fetch, key, shouts, twitch>>

ListStep ==
  \/ MapFault
  \/ \E fresh \in BOOLEAN : GoLive(fresh)
  \/ Query \/ Assign \/ \E c \in Chatters : Stamp(c)
ChatNext ==
  /\ up
  /\ \/ \E g \in Goroutines : \/ \E m \in Messages : Deliver(g, m)
                              \/ Ask(g) \/ IsListed(g) \/ Shout(g) \/ Index(g)
                              \/ Delete(g) \/ Store(g)
     \/ ListStep

ChatSpec == ChatInit /\ [][ChatNext]_chatVars
-----------------------------------------------------------------------------
ChatTypeOK ==
  /\ TypeOK /\ up \in BOOLEAN
  /\ hand \in [Goroutines -> [pc : {"idle", "dedupe", "contains", "shout", "index", "delete",
                                    "store"},
                              msg : Messages, at : 0..Cardinality(Chatters),
                              rest : Seq(Chatters)]]
  /\ taken \in Seq(Messages) /\ list \in Seq(Chatters)
  /\ fetch \in [pc : {"none", "query", "assign"}, rows : Seq(Chatters)]
  /\ key \in 1..(1 + MaxOnline) /\ stamped \in [Chatters -> 0..key]
  /\ stamps \in [Chatters -> Nat] /\ shouts \in [Chatters -> Nat]
  /\ sent \subseteq Messages /\ retries \in 0..MaxRetries /\ onlines \in 0..MaxOnline

\* "drops Twitch EventSub retries ... so command handlers do not run twice" (bot.go:175-176):
\* deliveries of a message may overlap and come in any order; one is acted on again only when
\* N other messages have been acted on since and pushed it out.
HandledOncePerWindow ==
  \A i, j \in DOMAIN taken :
    i < j /\ taken[i] = taken[j] /\ taken[i] # Blank =>
      Cardinality({taken[k] : k \in (i + 1)..(j - 1)} \ {Blank}) >= N

\* "survives a bot restart" (database/init.sql:205): a chatter whose row bears the stream's
\* key at boot gets no second shoutout in that stream, whatever webhooks Twitch repeats.
SurvivesRestart == \A c \in Chatters : stamped[c] = 1 => [](key = 1 => shouts[c] = 1)

\* "skip re-shouting within the same stream" (database/init.sql:203-205): a chatter gets one
\* shoutout a stream.
ShoutedOncePerStream == \A c \in Chatters : shouts[c] <= 1
-----------------------------------------------------------------------------
(* Why N others come first.  The ring, read from its oldest slot, lists    *)
(* the last claims in their order: what is behind a message's slot was     *)
(* acted on since that message.  So when its slot is taken, N others were. *)

HandsKnow ==
  /\ hand = [g \in Goroutines |-> hand[g]]
  /\ \A g \in Goroutines :
       /\ hand[g] = [pc |-> hand[g].pc, msg |-> hand[g].msg, at |-> hand[g].at, rest |-> hand[g].rest]
       /\ hand[g].msg \in Messages

ActedSince(i) == {taken[k] : k \in (i + 1)..Len(taken)} \ {Blank}
RingInOrder ==
  \A i \in DOMAIN taken, k, l \in 1..(IF full THEN N ELSE next) :
    k < l /\ taken[i] = ids[Slot(k)] => ids[Slot(l)] \in ActedSince(i)
ForgottenLate ==
  \A i \in DOMAIN taken :
    taken[i] # Blank /\ taken[i] \notin set => Cardinality(ActedSince(i)) >= N

FilterInv ==
  /\ IInv /\ HandsKnow /\ taken \in Seq(Messages)
  /\ RingInOrder /\ ForgottenLate /\ HandledOncePerWindow

\* While the stream is the one of the boot, a chatter whose row bears its key is not on the
\* list nor on the way to it, and no goroutine is about to shout them out.
Others(c) == Seq(Chatters \ {c})
HandsSpare(c) == \A g \in Goroutines :
  /\ hand[g].pc = "store" => hand[g].rest \in Others(c)
  /\ hand[g].pc = "shout" => Writer(g) # c
Sated(c) ==
  /\ key \in Nat \ {0}
  /\ stamped = [d \in Chatters |-> stamped[d]] /\ shouts = [d \in Chatters |-> shouts[d]]
  /\ key = 1 => /\ stamped[c] = 1 /\ shouts[c] = 1
                /\ list \in Others(c) /\ (fetch.pc = "assign" => fetch.rows \in Others(c))
                /\ HandsSpare(c)
=============================================================================
