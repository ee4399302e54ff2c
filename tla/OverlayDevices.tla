-------------------------- MODULE OverlayDevices --------------------------
(***************************************************************************)
(* Pairing: one streamer's overlay device tokens, the dashboard requests   *)
(* that mint and revoke them, and the handshakes that use them.  A token   *)
(* is the device it was minted for; an overlay may present any token that  *)
(* was ever handed out.                                                    *)
(*                                                                         *)
(* Transactions run at Postgres' default READ COMMITTED: an UPDATE waits   *)
(* for a row another open transaction has updated and then looks again;    *)
(* rows another open transaction has inserted are not seen at all.         *)
(***************************************************************************)
EXTENDS Naturals, FiniteSets

CONSTANTS
  Devices,   \* device ids, one per mint
  Minters,   \* POST /api/overlay/device requests in flight at a time
  Revokers,  \* DELETE /api/overlay/device/:id requests in flight at a time
  Conns,     \* websocket handlers
  NoConn, NoDevice,
  MaxTail    \* bound: events logged

ASSUME ConstantsAssumption ==
  /\ NoConn \notin Conns /\ NoDevice \notin Devices
  /\ Minters \cap Revokers = {}
  /\ MaxTail \in Nat

VARIABLES
  status,    \* overlay_device: "unminted", "active" or "revoked" (revoked_at set)
  startSeq,  \* overlay_device.start_seq
  handed,    \* devices whose token the streamer has been given
  tail,      \* MAX(seq) of the streamer's overlay_event rows
  req,       \* the requests' program counters and locals
  sess,      \* websocket handlers
  registry,  \* Registry.m[user]
  floor      \* history: tail when the mint of the device began

vars == <<status, startSeq, handed, tail, req, sess, registry, floor>>

Requests == Minters \cup Revokers

Idle == [pc |-> "idle", dev |-> NoDevice, start |-> 0, seen |-> {}, locked |-> {},
         old |-> NoDevice]
NoSession == [pc |-> "gone", dev |-> NoDevice, since |-> 0, open |-> FALSE,
              prev |-> NoConn, raced |-> FALSE]

Init ==
  /\ status = [d \in Devices |-> "unminted"]
  /\ startSeq = [d \in Devices |-> 0]
  /\ handed = {}
  /\ tail \in 0..MaxTail
  /\ req = [r \in Requests |-> Idle]
  /\ sess = [c \in Conns |-> NoSession]
  /\ registry = NoConn
  /\ floor = [d \in Devices |-> 0]

Active == {d \in Devices : status[d] = "active"}

\* Rows updated by a transaction that has not committed yet.
LockedByOthers(r) == UNION {req[q].locked : q \in Requests \ {r}}

\* Sessions no one points to any more.
Fresh(c) == /\ sess[c].pc = "gone" /\ registry # c
            /\ \A d \in Conns : sess[d].prev # c

\* Paid events keep being ingested.
LogEvent ==
  /\ tail < MaxTail
  /\ tail' = tail + 1
  /\ UNCHANGED <<status, startSeq, handed, req, sess, registry, floor>>
\* Registry.DisconnectDevice over the sessions s: close the attached connection if it
\* is that device's.
DisconnectDevice(d, s) ==
  [c \in Conns |-> IF c = registry /\ s[c].dev = d THEN [s[c] EXCEPT !.open = FALSE] ELSE s[c]]

\* History: the handshakes of revoked devices that a registry lookup is too early to see,
Overtaken ==
  [c \in Conns |-> IF sess[c].pc = "add" /\ sess[c].dev \notin Active
                   THEN [sess[c] EXCEPT !.raced = TRUE] ELSE sess[c]]
\* and the sessions of devices whose revocation was answered with an error, so that nobody
\* looks for them.
Missed(gone) ==
  [c \in Conns |-> IF sess[c].dev \in gone THEN [sess[c] EXCEPT !.raced = TRUE] ELSE sess[c]]
-----------------------------------------------------------------------------
(* Minting: CreateDevice's transaction, then the drop of what is attached. *)

\* The request arrives; the transaction's first statement, the revocation of every
\* active device, takes its snapshot.
BeginMint(m) ==
  /\ req[m].pc = "idle"
  /\ \E d \in Devices :
       /\ status[d] = "unminted" /\ \A q \in Requests : req[q].dev # d
       /\ req' = [req EXCEPT ![m] = [Idle EXCEPT !.pc = "revoke", !.dev = d, !.seen = Active]]
       /\ floor' = [floor EXCEPT ![d] = tail]
  /\ UNCHANGED <<status, startSeq, handed, tail, sess, registry>>

\* It waits for rows of its snapshot that others have updated, and takes those that are
\* still active then; they stay active for everyone else until the commit.
RevokePrior(m, visible) ==
  /\ req[m].pc = "revoke"
  /\ req[m].seen \cap LockedByOthers(m) = {}
  /\ req' = [req EXCEPT ![m] = [@ EXCEPT !.pc = "floor", !.locked = req[m].seen \cap Active]]
  /\ status' = [d \in Devices |-> IF d \in visible THEN "revoked" ELSE status[d]]
  /\ UNCHANGED <<startSeq, handed, tail, sess, registry, floor>>

\* Mutant: the revocation is a statement of its own, outside the transaction.
MintRevokesFirst(m) == RevokePrior(m, req[m].seen)
MintRevokesPrior(m) == RevokePrior(m, {})

MintFloorsAt(m, seq) ==
  /\ req[m].pc = "floor"
  /\ req' = [req EXCEPT ![m] = [@ EXCEPT !.pc = "insert", !.start = seq]]
  /\ UNCHANGED <<status, startSeq, handed, tail, sess, registry, floor>>

\* Mutant: a new device starts at the beginning of the log.
MintUnfloored(m) == MintFloorsAt(m, 0)
MintReadsTail(m) == MintFloorsAt(m, tail)

Stores(m, prior) ==
  /\ status' = [d \in Devices |-> IF d = req[m].dev THEN "active"
                                  ELSE IF d \in prior THEN "revoked" ELSE status[d]]
  /\ startSeq' = [startSeq EXCEPT ![req[m].dev] = req[m].start]

CommitRevoking(m, prior) ==
  /\ req[m].pc = "insert" /\ Stores(m, prior)
  /\ req' = [req EXCEPT ![m] = [@ EXCEPT !.pc = "connected", !.locked = {}]]
  /\ UNCHANGED <<handed, tail, sess, registry, floor>>

\* Mutant: minting adds a token instead of replacing.
MintCommitsBeside(m) == CommitRevoking(m, {})
MintCommits(m) == CommitRevoking(m, req[m].locked)

\* The handler asks which device is attached ...
MintFindsConnected(m) ==
  /\ req[m].pc = "connected"
  /\ req' = [req EXCEPT ![m] = [@ EXCEPT !.pc = "disconnect",
                                     !.old = IF registry = NoConn THEN NoDevice ELSE sess[registry].dev]]
  /\ sess' = Overtaken
  /\ UNCHANGED <<status, startSeq, handed, tail, registry, floor>>

\* ... drops that device's connection, and answers with the token.
MintAnswers(m) ==
  /\ req[m].pc = "disconnect"
  /\ sess' = DisconnectDevice(req[m].old, sess)
  /\ handed' = handed \cup {req[m].dev}
  /\ req' = [req EXCEPT ![m] = Idle]
  /\ UNCHANGED <<status, startSeq, tail, registry, floor>>

\* The answer to the commit is lost: an error, nobody is dropped, nobody is told the token.
MintCommitsUnseen(m) ==
  /\ req[m].pc = "insert" /\ Stores(m, req[m].locked)
  /\ req' = [req EXCEPT ![m] = Idle]
  /\ sess' = Missed(req[m].locked)
  /\ UNCHANGED <<handed, tail, registry, floor>>

\* A statement fails: the transaction rolls back.
MintFails(m) ==
  /\ req[m].pc \in {"revoke", "floor", "insert"}
  /\ req' = [req EXCEPT ![m] = Idle]
  /\ UNCHANGED <<status, startSeq, handed, tail, sess, registry, floor>>
-----------------------------------------------------------------------------
(* Revoking.                                                               *)

\* RevokeDevice looks the device up: 404 unless it is active ...
RevokeChecks(r) ==
  /\ req[r].pc = "idle"
  /\ \E d \in Active :
       req' = [req EXCEPT ![r] = [Idle EXCEPT !.pc = "update", !.dev = d]]
  /\ UNCHANGED <<status, startSeq, handed, tail, sess, registry, floor>>

\* ... and updates it if it still is.
Revokes(r) ==
  /\ req[r].pc = "update"
  /\ req[r].dev \notin LockedByOthers(r)
  /\ status' = [status EXCEPT ![req[r].dev] = "revoked"]

RevokeUpdates(r) ==
  /\ Revokes(r) /\ req' = [req EXCEPT ![r].pc = "disconnect"]
  /\ UNCHANGED <<startSeq, handed, tail, sess, registry, floor>>

\* The answer to the update is lost: an error, nobody is dropped, and trying again is a 404.
RevokesUnseen(r) ==
  /\ Revokes(r) /\ req' = [req EXCEPT ![r] = Idle]
  /\ sess' = Missed({req[r].dev})
  /\ UNCHANGED <<startSeq, handed, tail, registry, floor>>

RevokeFails(r) ==
  /\ req[r].pc = "update" /\ req' = [req EXCEPT ![r] = Idle]
  /\ UNCHANGED <<status, startSeq, handed, tail, sess, registry, floor>>

\* The handler drops the device's connection and answers.
RevokeDropping(r, device) ==
  /\ req[r].pc = "disconnect"
  /\ sess' = DisconnectDevice(device, Overtaken)
  /\ req' = [req EXCEPT ![r] = Idle]
  /\ UNCHANGED <<status, startSeq, handed, tail, registry, floor>>

\* Mutants: whatever is attached is dropped; nothing is.
RevokeAnswersDropAll(r) ==
  RevokeDropping(r, IF registry = NoConn THEN NoDevice ELSE sess[registry].dev)
RevokeAnswersOnly(r) == RevokeDropping(r, NoDevice)
RevokeAnswers(r) == RevokeDropping(r, req[r].dev)
-----------------------------------------------------------------------------
(* The handshake and the connection (connect.go).                          *)

\* readHello: the token's device is looked up; a revoked one is refused.  Replay will
\* start at the larger of the hello's cursor and the device's floor.
Admit(c, accepted) ==
  /\ Fresh(c)
  /\ \E d \in handed \cap accepted, hello \in 0..tail :
       sess' = [sess EXCEPT ![c] =
         [NoSession EXCEPT !.pc = "add", !.dev = d, !.open = TRUE,
                           !.since = IF startSeq[d] > hello THEN startSeq[d] ELSE hello]]
  /\ UNCHANGED <<status, startSeq, handed, tail, req, registry, floor>>

\* Mutant: revoked_at is not looked at.
AuthenticateAny(c) == Admit(c, Devices)
Authenticate(c) == Admit(c, Active)

\* Registry.Add: swap the entry, then close what it held.
RegistryAdd(c) ==
  /\ sess[c].pc = "add"
  /\ registry' = c
  /\ sess' = [sess EXCEPT ![c] = [@ EXCEPT !.pc = "displace", !.prev = registry]]
  /\ UNCHANGED <<status, startSeq, handed, tail, req, floor>>

CloseDisplaced(c) ==
  /\ sess[c].pc = "displace"
  /\ sess' = [d \in Conns |-> IF d = c THEN [sess[c] EXCEPT !.pc = "serving", !.prev = NoConn]
                              ELSE IF d = sess[c].prev THEN [sess[d] EXCEPT !.open = FALSE]
                              ELSE sess[d]]
  /\ UNCHANGED <<status, startSeq, handed, tail, req, registry, floor>>

\* The handler returns, closed or left by its overlay: Registry.Remove.
Remove(c) ==
  /\ sess[c].pc = "serving"
  /\ registry' = IF registry = c THEN NoConn ELSE registry
  /\ sess' = [sess EXCEPT ![c] = NoSession]
  /\ UNCHANGED <<status, startSeq, handed, tail, req, floor>>

\* core-api restarts: open transactions roll back, the registry is empty.
Crash ==
  /\ req' = [r \in Requests |-> Idle]
  /\ sess' = [c \in Conns |-> NoSession]
  /\ registry' = NoConn
  /\ UNCHANGED <<status, startSeq, handed, tail, floor>>

Next ==
  \/ LogEvent \/ Crash
  \/ \E m \in Minters : \/ BeginMint(m) \/ MintRevokesPrior(m) \/ MintReadsTail(m) \/ MintCommits(m)
                        \/ MintFindsConnected(m) \/ MintAnswers(m) \/ MintFails(m)
                        \/ MintCommitsUnseen(m)
  \/ \E r \in Revokers : \/ RevokeChecks(r) \/ RevokeUpdates(r) \/ RevokeAnswers(r)
                         \/ RevokesUnseen(r) \/ RevokeFails(r)
  \/ \E c \in Conns : Authenticate(c) \/ RegistryAdd(c) \/ CloseDisplaced(c) \/ Remove(c)

Spec == Init /\ [][Next]_vars
-----------------------------------------------------------------------------
RequestRecs ==
  [pc : {"idle", "revoke", "floor", "insert", "connected", "update", "disconnect"},
   dev : Devices \cup {NoDevice}, old : Devices \cup {NoDevice},
   start : 0..tail, seen : SUBSET Devices, locked : SUBSET Devices]
SessionRecs ==
  [pc : {"gone", "add", "displace", "serving"},
   dev : Devices \cup {NoDevice}, prev : Conns \cup {NoConn},
   since : 0..tail, open : BOOLEAN, raced : BOOLEAN]

TypeOK ==
  /\ status \in [Devices -> {"unminted", "active", "revoked"}]
  /\ tail \in 0..MaxTail /\ handed \subseteq Devices
  /\ startSeq \in [Devices -> 0..tail] /\ floor \in [Devices -> 0..tail]
  /\ req \in [Requests -> RequestRecs]
  /\ sess \in [Conns -> SessionRecs]
  /\ registry \in Conns \cup {NoConn}

\* "a user never ends up with two live tokens": true while mints do not overlap.
OneActiveToken == \A d, e \in Active : d = e

\* "... or none": a streamer loses the last working token only by revoking it.
OnlyRevokeLeavesNone ==
  [][Active # {} /\ Active' = {} => \E r \in Revokers : req[r].pc = "update"]_vars

\* Nothing in flight: every request answered, no handshake under way.
Quiet == /\ \A r \in Requests : req[r].pc = "idle"
         /\ \A c \in Conns : sess[c].pc \in {"gone", "serving"}

\* A revoked or replaced device is off the air once the request has been answered, except
\* for a handshake that was between its lookup and its registration, and except that the
\* answer was an error although the row had been written.
RevokedIsDropped ==
  Quiet => \A c \in Conns : sess[c].open => sess[c].raced \/ sess[c].dev \in Active

\* "a different, still-valid device of the same user keeps its connection": minting
\* and revoking close only connections of revoked devices.
ValidDeviceKeepsConnection ==
  [][\A c \in Conns : sess[c].open /\ ~sess'[c].open /\ sess'[c].pc # "gone"
        => sess[c].dev \notin Active \/ \E d \in Conns : sess[d].prev = c]_vars

\* "a freshly minted device ... never re-executes events stored before it existed".
NoHistoryReplayed == \A c \in Conns : sess[c].pc # "gone" => sess[c].since >= floor[sess[c].dev]

\* "making revocation effective immediately" (device.go:140-143), handshakes included.
RevocationIsImmediate == Quiet => \A c \in Conns : sess[c].open => sess[c].dev \in Active
-----------------------------------------------------------------------------
(* Inductive strengthenings, for OverlayDevicesProofs.                     *)

\* A device's floor is read after its mint began, is stored with it and is what every
\* later session starts from at the earliest.
FloorsKept ==
  /\ \A r \in Requests :
       /\ req[r].pc # "idle" => req[r].dev \in Devices
       /\ req[r].pc = "insert" => req[r].start >= floor[req[r].dev]
       /\ req[r].pc \in {"connected", "update", "disconnect"} => status[req[r].dev] # "unminted"
       /\ \A d \in req[r].seen \cup req[r].locked : status[d] # "unminted"
  /\ \A d \in Devices : status[d] # "unminted" => startSeq[d] >= floor[d]
  /\ \A d \in handed : status[d] # "unminted"
  /\ \A c \in Conns : sess[c].pc # "gone" =>
       /\ sess[c].dev \in Devices
       /\ status[sess[c].dev] # "unminted"
       /\ sess[c].since >= floor[sess[c].dev]

IInv == TypeOK /\ FloorsKept

\* One dashboard request mints at a time; then a mint knows every active device.
SerialMints == \A m, n \in Minters : m = n
PriorKnown == \A m \in Minters :
                /\ req[m].pc = "revoke" => Active \subseteq req[m].seen
                /\ req[m].pc \in {"floor", "insert"} => Active \subseteq req[m].locked

SerialInv == IInv /\ PriorKnown /\ OneActiveToken

\* Whose answer closes session c: a mint that has not looked the registry up yet, one that
\* has found c's device there, or a revocation of that device.
WillDrop(c) ==
  \/ \E m \in Minters : req[m].pc = "connected"
  \/ registry = c /\ \E m \in Minters : req[m].pc = "disconnect" /\ req[m].old = sess[c].dev
  \/ \E r \in Revokers : req[r].pc = "disconnect" /\ req[r].dev = sess[c].dev

\* An open session is still to be registered, is the registered one, or is about to be closed
\* by the one that displaced it; an inactive device's is somebody's to close.
DropsKnown ==
  /\ registry # NoConn => sess[registry].pc \in {"displace", "serving"}
  /\ \A c \in Conns :
       /\ sess[c].pc = "gone" => ~sess[c].open
       /\ sess[c].prev # NoConn => sess[c].pc = "displace" /\ sess[c].prev # c
       /\ sess[c].open => sess[c].pc = "add" \/ registry = c \/ \E d \in Conns : sess[d].prev = c
       /\ sess[c].open /\ ~sess[c].raced /\ sess[c].dev \notin Active
            /\ (sess[c].pc = "add" \/ registry = c) => WillDrop(c)

\* While mints do not overlap: the one under way has a device nobody connects with yet, and
\* when it has committed no other device is active; what a request closes has been revoked.
RevokedKnown ==
  /\ \A c \in Conns : sess[c].pc # "gone" => sess[c].dev \in handed
  /\ \A m \in Minters :
       /\ req[m].pc \in {"revoke", "floor", "insert"} => status[req[m].dev] = "unminted"
       /\ req[m].pc \in {"connected", "disconnect"} =>
            req[m].dev \notin handed /\ Active \subseteq {req[m].dev}
       /\ req[m].pc = "disconnect" => req[m].old \notin Active
  /\ \A r \in Revokers : req[r].pc = "disconnect" => req[r].dev \notin Active

DropInv == IInv /\ DropsKnown
ValidInv == SerialInv /\ DropsKnown /\ RevokedKnown
=============================================================================
