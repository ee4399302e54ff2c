----------------------- MODULE OverseerCommandsProofs -----------------------
(***************************************************************************)
(* Proofs about OverseerLink and OverseerCommands, for every number of     *)
(* commands, connections and faults.  LinkInv says what the client, the    *)
(* wire and the server goroutine know of each other: whose request is      *)
(* where, that the numbers of the two ends agree, and how many places a    *)
(* command's attempts have left in which it will still run.  Both          *)
(* specifications take steps of LinkNext, so one induction serves both;    *)
(* the second half adds what is typed and what the game has done.          *)
(***************************************************************************)
EXTENDS OverseerCommands, FiniteSetTheorems, TLAPS

\* The steps of Commands on the link: those of Next, a line that sends nothing, and what
\* Submit refuses without running it.
Rejects(c) == /\ send[c].pc = "start"
              /\ send' = [send EXCEPT ![c].pc = "done"]
              /\ UNCHANGED <<mu, client, link, runs, report, faults>>
Submits(l) == \/ \E ok \in BOOLEAN : SubmitThen(l, link[l].cmd, ok)
              \/ SubmitThen(l, NoCmd, FALSE)
LinkNext ==
  \/ \E c \in Cmds : Lock(c) \/ DeadlinePasses(c) \/ SendStep(c) \/ Rejects(c)
  \/ \E l \in Links : Receive(l) \/ Submits(l) \/ Acknowledge(l) \/ StopReading(l) \/ LinkLost(l)
  \/ ExecutorStops

LEMMA Fields ==
  ASSUME TypeOK
  PROVE  /\ \A l \in Links : link[l] \in LinkRecs
         /\ \A c \in Cmds : send[c] \in SendRecs
         /\ client.conn \in Links \cup {NoLink} /\ client.sentSeq \in Nat /\ client.lastAckSeq \in Nat
         /\ \A c \in Cmds : runs[c] \in Nat
  BY DEF TypeOK

LEMMA EmptyLink == NoConnection \in LinkRecs
  BY DEF NoConnection, LinkRecs

LEMMA FreshLink == [NoConnection EXCEPT !.open = TRUE, !.server = "read"] \in LinkRecs
  <1>1. PICK k \in LinkRecs : k = NoConnection
    BY EmptyLink
  <1>2. [k EXCEPT !.open = TRUE, !.server = "read"] \in LinkRecs
    BY DEF LinkRecs
  <1> QED
    BY <1>1, <1>2

\* What a connection that the server has left still delivers.
LEMMA LeftLink ==
  ASSUME NEW q \in Seq(Acks)
  PROVE  [NoConnection EXCEPT !.toClient = q] \in LinkRecs
  <1>1. PICK k \in LinkRecs : k = NoConnection
    BY EmptyLink
  <1>2. [k EXCEPT !.toClient = q] \in LinkRecs
    BY DEF LinkRecs
  <1> QED
    BY <1>1, <1>2

LEMMA NoneSeq ==
  ASSUME NEW S
  PROVE  << >> \in Seq(S)
  OBVIOUS

LEMMA NoneOrSame ==
  ASSUME NEW S, NEW s \in Seq(S), NEW p \in {<< >>, s}
  PROVE  p \in Seq(S)
  <1>1. PICK e \in Seq(S) : e = << >>
    BY NoneSeq
  <1>2. p \in {e, s}
    BY <1>1
  <1> QED
    BY <1>2

LEMMA HeadTail ==
  ASSUME NEW S, NEW q \in Seq(S), q # << >>
  PROVE  Head(q) \in S /\ Tail(q) \in Seq(S)
  OBVIOUS

LEMMA ReturnType ==
  ASSUME TypeOK, NEW c \in Cmds, NEW id \in Cmds \cup {"none", "connect", "transport", "replay"},
         NEW ok \in BOOLEAN, Return(c, id, ok)
  PROVE  /\ send' \in [Cmds -> SendRecs] /\ mu' \in Cmds \cup {NoCmd}
         /\ report' \in [Cmds -> [id : Cmds \cup {"none", "connect", "transport", "replay"}, ok : BOOLEAN]]
  BY DEF Return, TypeOK, SendRecs

\* A failed attempt leaves its command connecting again, or answered.
LEMMA DropSends ==
  ASSUME send \in [Cmds -> SendRecs], NEW c \in Cmds, DropAndRetry(c, 2)
  PROVE  /\ send' \in [Cmds -> SendRecs]
         /\ \A d \in Cmds : d # c => send'[d] = send[d]
         /\ \/ /\ send[c].attempt = 1 /\ send'[c].pc = "connect" /\ send'[c].attempt = 2
               /\ send'[c].expired = send[c].expired /\ UNCHANGED <<report, mu>>
            \/ /\ send[c].attempt = 2 /\ send'[c].pc = "done" /\ send'[c].attempt = 2
               /\ Return(c, "transport", FALSE)
  <1>1. send[c] \in SendRecs /\ send[c].attempt \in 1..2
    BY DEF SendRecs
  <1>2. CASE send[c].attempt < 2
    <2>1. PICK r : r = [send[c] EXCEPT !.pc = "connect", !.attempt = send[c].attempt + 1]
      OBVIOUS
    <2>2. /\ r \in SendRecs /\ r.pc = "connect" /\ r.attempt = 2 /\ r.expired = send[c].expired
          /\ send[c].attempt = 1
      <3>1. send[c].attempt = 1 /\ send[c].attempt + 1 = 2
        BY <1>1, <1>2
      <3>2. r = [send[c] EXCEPT !.pc = "connect", !.attempt = 2]
        BY <2>1, <3>1
      <3>3. 2 \in 1..2 /\ "connect" \in {"start", "connect", "write", "read", "done"}
        OBVIOUS
      <3> QED
        BY <1>1, <3>1, <3>2, <3>3 DEF SendRecs
    <2>3. send' = [send EXCEPT ![c] = r] /\ UNCHANGED <<report, mu>>
      BY <1>2, <2>1 DEF DropAndRetry
    <2> QED
      BY <2>2, <2>3
  <1>3. CASE ~(send[c].attempt < 2)
    <2>1. Return(c, "transport", FALSE) /\ send' = [send EXCEPT ![c].pc = "done"]
      BY <1>3 DEF DropAndRetry, Return
    <2>2. send[c].attempt = 2
      BY <1>1, <1>3
    <2>3. [send[c] EXCEPT !.pc = "done"] \in SendRecs
      BY <1>1 DEF SendRecs
    <2>4. send'[c].pc = "done" /\ send'[c].attempt = send[c].attempt
      BY <1>1, <2>1 DEF SendRecs
    <2> QED
      BY <2>1, <2>2, <2>3, <2>4
  <1> QED
    BY <1>2, <1>3

LEMMA DropType ==
  ASSUME TypeOK, NEW c \in Cmds, DropAndRetry(c, 2), UNCHANGED <<runs, faults>>
  PROVE  TypeOK'
  <1>1. client' \in [conn : Links \cup {NoLink}, sentSeq : Nat, lastAckSeq : Nat]
    BY DEF DropAndRetry, TypeOK
  <1>2. link' \in [Links -> LinkRecs]
    <2>1. link' = [l \in Links |-> IF l = client.conn THEN [link[l] EXCEPT !.open = FALSE] ELSE link[l]]
      BY DEF DropAndRetry, TypeOK
    <2>2. ASSUME NEW k \in LinkRecs PROVE [k EXCEPT !.open = FALSE] \in LinkRecs
      BY DEF LinkRecs
    <2> QED
      BY <2>1, <2>2, Fields
  <1>3. CASE send[c].attempt < 2
    <2>1. send' \in [Cmds -> SendRecs] /\ UNCHANGED <<report, mu>>
      BY <1>3, DropSends DEF DropAndRetry, TypeOK
    <2> QED
      BY <1>1, <1>2, <2>1 DEF TypeOK
  <1>4. CASE ~(send[c].attempt < 2)
    <2>1. Return(c, "transport", FALSE)
      BY <1>4 DEF DropAndRetry
    <2> QED
      BY <1>1, <1>2, <2>1, ReturnType DEF TypeOK
  <1> QED
    BY <1>3, <1>4

LEMMA TypeNext ==
  ASSUME TypeOK, LinksKnow, SendsKnow, LinkNext
  PROVE  TypeOK'
  <1>1. ASSUME NEW c \in Cmds, Lock(c) PROVE TypeOK'
    BY <1>1 DEF Lock, TypeOK, SendRecs
  <1>2. ASSUME NEW c \in Cmds, DeadlinePasses(c) PROVE TypeOK'
    BY <1>2 DEF DeadlinePasses, TypeOK, SendRecs
  <1>3. ASSUME NEW c \in Cmds, Connected(c) PROVE TypeOK'
    BY <1>3 DEF Connected, TypeOK, SendRecs
  <1>4. ASSUME NEW c \in Cmds, Dial(c) PROVE TypeOK'
    <2>1. PICK l \in Links :
            /\ client' = [conn |-> l, sentSeq |-> 0, lastAckSeq |-> 0]
            /\ link' = [link EXCEPT ![l] = [NoConnection EXCEPT !.open = TRUE, !.server = "read"]]
      BY <1>4 DEF Dial, DialWith
    <2>3. link' \in [Links -> LinkRecs]
      BY <2>1, FreshLink DEF TypeOK
    <2>4. client' \in [conn : Links \cup {NoLink}, sentSeq : Nat, lastAckSeq : Nat]
      BY <2>1
    <2> QED
      BY <1>4, <2>3, <2>4 DEF Dial, DialWith, TypeOK, SendRecs
  <1>5. ASSUME NEW c \in Cmds, DialFails(c) PROVE TypeOK'
    <2>1. faults' \in 0..MaxFaults
      BY <1>5, ConstantsAssumption DEF DialFails, TypeOK
    <2>2. Return(c, "connect", FALSE) /\ UNCHANGED <<client, link, runs>>
      BY <1>5 DEF DialFails
    <2> QED
      BY <2>1, <2>2, ReturnType DEF TypeOK
  <1>6. ASSUME NEW c \in Cmds, Write(c) PROVE TypeOK'
    <2>1. PICK l \in Links : client.conn = l
      BY <1>6 DEF SendsKnow, TypeOK, Write
    <2>2. client' \in [conn : Links \cup {NoLink}, sentSeq : Nat, lastAckSeq : Nat]
      <3>1. client.sentSeq + 1 \in Nat /\ client' = [client EXCEPT !.sentSeq = client.sentSeq + 1]
        BY <1>6, Fields DEF Write
      <3>2. PICK n \in Nat : n = client.sentSeq + 1
        BY <3>1
      <3>3. client' = [client EXCEPT !.sentSeq = n]
        BY <3>1, <3>2
      <3> QED
        BY <3>3 DEF TypeOK
    <2>3. link' \in [Links -> LinkRecs]
      <3>1. [seq |-> client.sentSeq + 1, cmd |-> c] \in Requests
        BY Fields DEF Requests
      <3>2. PICK r \in Requests : r = [seq |-> client.sentSeq + 1, cmd |-> c]
        BY <3>1
      <3>3. link' = link \/ link' = [link EXCEPT ![l].toServer = Append(link[l].toServer, r)]
        BY <1>6, <2>1, <3>2 DEF Write
      <3>4. link[l] \in LinkRecs
        BY Fields
      <3>5. Append(link[l].toServer, r) \in Seq(Requests)
        BY <3>4 DEF LinkRecs
      <3>6. PICK q \in Seq(Requests) : q = Append(link[l].toServer, r)
        BY <3>5
      <3>7. [link[l] EXCEPT !.toServer = q] \in LinkRecs
        BY <3>4 DEF LinkRecs
      <3>8. link' = link \/ link' = [link EXCEPT ![l] = [link[l] EXCEPT !.toServer = q]]
        BY <3>3, <3>6 DEF TypeOK
      <3> QED
        BY <3>7, <3>8 DEF TypeOK
    <2> QED
      BY <1>6, <2>2, <2>3 DEF Write, TypeOK, SendRecs
  <1>7. ASSUME NEW c \in Cmds, WriteFails(c) PROVE TypeOK'
    BY <1>7, DropType DEF WriteFails
  <1>8. ASSUME NEW c \in Cmds, ReadAck(c) PROVE TypeOK'
    <2>1. PICK l \in Links : client.conn = l
      BY <1>8 DEF SendsKnow, TypeOK, ReadAck
    <2>2. link[l] \in LinkRecs /\ link[l].toClient # << >>
      BY <1>8, <2>1, Fields DEF ReadAck
    <2>3. Head(link[l].toClient) \in Acks /\ Tail(link[l].toClient) \in Seq(Acks)
      BY <2>2, HeadTail DEF LinkRecs
    <2>4. PICK a \in Acks, q \in Seq(Acks) : a = Head(link[l].toClient) /\ q = Tail(link[l].toClient)
      BY <2>3
    <2>5. link' = [link EXCEPT ![l] = [link[l] EXCEPT !.toClient = q]]
      BY <1>8, <2>1, <2>4 DEF ReadAck, TypeOK
    <2>6. [link[l] EXCEPT !.toClient = q] \in LinkRecs
      BY <2>2 DEF LinkRecs
    <2>7. link' \in [Links -> LinkRecs]
      BY <2>5, <2>6 DEF TypeOK
    <2>8. a.seq \in Nat /\ a.cmd \in Cmds /\ a.ok \in BOOLEAN
      BY DEF Acks
    <2>9. \/ Return(c, "replay", FALSE) /\ client' = client
          \/ Return(c, a.cmd, a.ok) /\ client' = [client EXCEPT !.lastAckSeq = a.seq]
      BY <1>8, <2>1, <2>4 DEF ReadAck
    <2>10. client' \in [conn : Links \cup {NoLink}, sentSeq : Nat, lastAckSeq : Nat]
      BY <2>8, <2>9 DEF TypeOK
    <2>11. UNCHANGED <<runs, faults>>
      BY <1>8 DEF ReadAck
    <2> QED
      <3>1. \E id \in Cmds \cup {"none", "connect", "transport", "replay"}, ok \in BOOLEAN : Return(c, id, ok)
        BY <2>8, <2>9
      <3>2. PICK id \in Cmds \cup {"none", "connect", "transport", "replay"}, ok \in BOOLEAN : Return(c, id, ok)
        BY <3>1
      <3>3. /\ send' \in [Cmds -> SendRecs] /\ mu' \in Cmds \cup {NoCmd}
            /\ report' \in [Cmds -> [id : Cmds \cup {"none", "connect", "transport", "replay"}, ok : BOOLEAN]]
        BY <3>2, ReturnType
      <3> QED
        BY <2>7, <2>10, <2>11, <3>3 DEF TypeOK
  <1>9. ASSUME NEW c \in Cmds, ReadFails(c) PROVE TypeOK'
    BY <1>9, DropType DEF ReadFails, ReadFailsWhen
  <1>10. ASSUME NEW c \in Cmds, Rejects(c) PROVE TypeOK'
    BY <1>10 DEF Rejects, TypeOK, SendRecs
  \* A step of one server goroutine.
  <1>11. ASSUME NEW l \in Links, NEW r \in LinkRecs, link' = [link EXCEPT ![l] = r],
                UNCHANGED <<send, mu, client, report>>, runs' \in [Cmds -> Nat], faults' \in 0..MaxFaults
         PROVE  TypeOK'
    BY <1>11 DEF TypeOK
  <1>12. ASSUME NEW l \in Links, Receive(l) PROVE TypeOK'
    <2>1. link[l] \in LinkRecs /\ link[l].toServer # << >>
      BY <1>12, Fields DEF Receive
    <2>2. Head(link[l].toServer) \in Requests /\ Tail(link[l].toServer) \in Seq(Requests)
      BY <2>1, HeadTail DEF LinkRecs
    <2>3. PICK e \in Requests, q \in Seq(Requests) : e = Head(link[l].toServer) /\ q = Tail(link[l].toServer)
      BY <2>2
    <2>4. PICK r : /\ link' = [link EXCEPT ![l] = r]
                   /\ \/ r = [NoConnection EXCEPT !.toClient = link[l].toClient]
                      \/ r = [link[l] EXCEPT !.server = "submit", !.cmd = e.cmd, !.lastReq = e.seq, !.toServer = q]
      BY <1>12, <2>3 DEF Receive
    <2>5. r \in LinkRecs
      <3>1. CASE r = [NoConnection EXCEPT !.toClient = link[l].toClient]
        BY <2>1, <3>1, LeftLink DEF LinkRecs
      <3>2. CASE r = [link[l] EXCEPT !.server = "submit", !.cmd = e.cmd, !.lastReq = e.seq, !.toServer = q]
        <4>1. PICK k \in LinkRecs : k = link[l]
          BY <2>1
        <4>2. PICK d \in Cmds, n \in Nat : d = e.cmd /\ n = e.seq
          BY DEF Requests
        <4>3. [k EXCEPT !.server = "submit", !.cmd = d, !.lastReq = n, !.toServer = q] \in LinkRecs
          BY DEF LinkRecs
        <4> QED
          BY <3>2, <4>1, <4>2, <4>3
      <3> QED
        BY <2>4, <3>1, <3>2
    <2> QED
      BY <1>11, <1>12, <2>4, <2>5 DEF Receive, TypeOK
  <1>13. ASSUME NEW l \in Links, Submits(l) PROVE TypeOK'
    <2>1. PICK ran \in {link[l].cmd, NoCmd}, ok \in BOOLEAN : SubmitThen(l, ran, ok)
      BY <1>13 DEF Submits
    <2>2. link[l] \in LinkRecs
      BY Fields
    <2>3. link' = [link EXCEPT ![l] = [link[l] EXCEPT !.server = "ack", !.ok = ok]]
      BY <2>1 DEF SubmitThen, TypeOK
    <2>4. [link[l] EXCEPT !.server = "ack", !.ok = ok] \in LinkRecs
      BY <2>2 DEF LinkRecs
    <2>5. runs' \in [Cmds -> Nat]
      <3>1. runs \in [Cmds -> Nat]
        BY DEF TypeOK
      <3>2. runs' = [c \in Cmds |-> IF c = ran /\ ran # NoCmd THEN runs[c] + 1 ELSE runs[c]]
        BY <2>1, <3>1 DEF SubmitThen
      <3> QED
        BY <3>1, <3>2
    <2> QED
      BY <1>11, <2>1, <2>3, <2>4, <2>5 DEF SubmitThen, TypeOK
  <1>14. ASSUME NEW l \in Links, Acknowledge(l) PROVE TypeOK'
    <2>1. link[l] \in LinkRecs /\ link[l].cmd \in Cmds
      BY <1>14, Fields DEF Acknowledge, LinksKnow, LinkKnows
    <2>2. [seq |-> link[l].ackSeq + 1, cmd |-> link[l].cmd, ok |-> link[l].ok] \in Acks
      BY <2>1 DEF LinkRecs, Acks
    <2>3. PICK a \in Acks : a = [seq |-> link[l].ackSeq + 1, cmd |-> link[l].cmd, ok |-> link[l].ok]
      BY <2>2
    <2>4. Append(link[l].toClient, a) \in Seq(Acks)
      BY <2>1 DEF LinkRecs
    <2>5. PICK q \in Seq(Acks) : q = Append(link[l].toClient, a)
      BY <2>4
    <2>6. PICK r : /\ link' = [link EXCEPT ![l] = r]
                   /\ \/ r = NoConnection
                      \/ r = [link[l] EXCEPT !.server = "read", !.cmd = NoCmd, !.ok = FALSE,
                                !.ackSeq = link[l].ackSeq + 1, !.toClient = q]
      BY <1>14, <2>3, <2>5 DEF Acknowledge
    <2>7. r \in LinkRecs
      <3>1. PICK k \in LinkRecs : k = link[l]
        BY <2>1
      <3>2. PICK n \in Nat : n = k.ackSeq + 1
        BY DEF LinkRecs
      <3>3. [k EXCEPT !.server = "read", !.cmd = NoCmd, !.ok = FALSE, !.ackSeq = n, !.toClient = q] \in LinkRecs
        BY <2>5, <2>4 DEF LinkRecs
      <3> QED
        BY <2>6, <3>1, <3>2, <3>3, EmptyLink
    <2> QED
      BY <1>11, <1>14, <2>6, <2>7 DEF Acknowledge, TypeOK
  <1>15. ASSUME NEW l \in Links, StopReading(l) PROVE TypeOK'
    <2>1. [NoConnection EXCEPT !.toClient = link[l].toClient] \in LinkRecs
      BY Fields, LeftLink DEF LinkRecs
    <2> QED
      BY <1>11, <1>15, <2>1 DEF StopReading, TypeOK
  <1>16. ASSUME NEW l \in Links, LinkLost(l) PROVE TypeOK'
    <2>1. link[l] \in LinkRecs
      BY Fields
    <2>2. PICK p \in {<< >>, link[l].toServer}, q \in {<< >>, link[l].toClient} :
            link' = [link EXCEPT ![l] = [link[l] EXCEPT !.open = FALSE, !.toServer = p, !.toClient = q]]
      BY <1>16 DEF LinkLost, TypeOK
    <2>3. [link[l] EXCEPT !.open = FALSE, !.toServer = p, !.toClient = q] \in LinkRecs
      <3>1. p \in Seq(Requests) /\ q \in Seq(Acks)
        BY <2>1, NoneOrSame DEF LinkRecs
      <3> QED
        BY <2>1, <3>1 DEF LinkRecs
    <2> QED
      <3>1. UNCHANGED <<send, mu, client, runs, report>>
        BY <1>16 DEF LinkLost
      <3>2. faults' \in 0..MaxFaults
        BY <1>16, ConstantsAssumption DEF LinkLost, TypeOK
      <3>3. runs' \in [Cmds -> Nat]
        BY <3>1 DEF TypeOK
      <3> QED
        BY <1>11, <2>2, <2>3, <3>1, <3>2, <3>3
  <1>17. CASE ExecutorStops
    <2>1. link' \in [Links -> LinkRecs]
      BY <1>17, EmptyLink DEF ExecutorStops
    <2>2. runs' \in [Cmds -> Nat]
      <3>1. PICK done \in SUBSET {l \in Links : link[l].server = "submit"} :
              /\ IsFiniteSet(done)
              /\ runs' = [c \in Cmds |-> runs[c] + Cardinality({l \in done : link[l].cmd = c})]
        BY <1>17 DEF ExecutorStops
      <3>2. ASSUME NEW c \in Cmds
            PROVE  runs[c] + Cardinality({l \in done : link[l].cmd = c}) \in Nat
        <4>1. runs[c] \in Nat
          BY DEF TypeOK
        <4>2. Cardinality({l \in done : link[l].cmd = c}) \in Nat
          BY <3>1, FS_Subset, FS_CardinalityType
        <4> QED
          BY <4>1, <4>2
      <3> QED
        BY <3>1, <3>2
    <2> QED
      BY <1>17, <2>1, <2>2, ConstantsAssumption DEF ExecutorStops, TypeOK
  <1> QED
    BY <1>1, <1>2, <1>3, <1>4, <1>5, <1>6, <1>7, <1>8, <1>9, <1>10, <1>12, <1>13, <1>14, <1>15, <1>16, <1>17
       DEF LinkNext, SendStep

-----------------------------------------------------------------------------
\* What a step leaves of a command's places where it will still be run.
Fewer == \A c \in Cmds :
  IsFiniteSet(Pending(c)') /\ Pending(c)' \subseteq Pending(c) /\ Used(c)' <= Used(c)

LEMMA UsedNat ==
  ASSUME TypeOK, NEW c \in Cmds, IsFiniteSet(Pending(c))
  PROVE  Used(c) \in Nat /\ Cardinality(Pending(c)) \in Nat /\ runs[c] \in Nat
  <1>1. Cardinality(Pending(c)) \in Nat
    BY FS_CardinalityType
  <1>2. runs[c] \in Nat
    BY DEF TypeOK
  <1> QED
    BY <1>1, <1>2 DEF Used

LEMMA Shrinks ==
  ASSUME TypeOK, TypeOK', NEW c \in Cmds, IsFiniteSet(Pending(c)), Pending(c)' \subseteq Pending(c),
         runs'[c] <= runs[c]
  PROVE  IsFiniteSet(Pending(c)') /\ Used(c)' <= Used(c)
  <1>1. /\ IsFiniteSet(Pending(c)')
        /\ Cardinality(Pending(c)') <= Cardinality(Pending(c))
    BY FS_Subset
  <1>2. Cardinality(Pending(c)') \in Nat /\ Cardinality(Pending(c)) \in Nat
    BY <1>1, FS_CardinalityType
  <1>3. runs[c] \in Nat /\ runs'[c] \in Nat
    BY DEF TypeOK
  <1> QED
    BY <1>1, <1>2, <1>3 DEF Used

LEMMA UsedLess ==
  ASSUME TypeOK, TypeOK', AttemptsKnow, Fewer, NEW c \in Cmds
  PROVE  Used(c) \in Nat /\ Used(c)' \in Nat /\ Used(c)' <= Used(c)
  <1>1. Cardinality(Pending(c)') \in Nat /\ runs'[c] \in Nat
    BY FS_CardinalityType DEF TypeOK, Fewer
  <1>2. Used(c) \in Nat
    BY UsedNat DEF AttemptsKnow
  <1>3. Used(c)' <= Used(c)
    BY DEF Fewer
  <1> QED
    BY <1>1, <1>2, <1>3 DEF Used

LEMMA SamePending ==
  ASSUME TypeOK, TypeOK', AttemptsKnow, UNCHANGED <<link, runs>>
  PROVE  Fewer
  <1>1. ASSUME NEW c \in Cmds PROVE Pending(c)' \subseteq Pending(c)
    BY DEF Pending
  <1>2. ASSUME NEW c \in Cmds PROVE runs'[c] <= runs[c] /\ IsFiniteSet(Pending(c))
    BY DEF TypeOK, AttemptsKnow
  <1> QED
    BY <1>1, <1>2, Shrinks DEF Fewer

\* Attempts are counted up, and a first attempt stays on its connection.
LEMMA FewerKeeps ==
  ASSUME TypeOK, TypeOK', AttemptsKnow, Fewer,
         \A c \in Cmds : /\ Attempts(c) \in Int /\ Attempts(c)' \in Int /\ Attempts(c) <= Attempts(c)'
                         /\ send'[c].pc = "start" => send'[c].attempt = 1
                         /\ send'[c].pc = "read" /\ send'[c].attempt = 1 =>
                              send[c].pc = "read" /\ send[c].attempt = 1 /\ client'.conn = client.conn
  PROVE  AttemptsKnow'
  <1>1. ASSUME NEW c \in Cmds PROVE IsFiniteSet(Pending(c)') /\ Used(c)' <= Attempts(c)'
    <2>1. Used(c) <= Attempts(c)
      BY DEF AttemptsKnow
    <2>2. IsFiniteSet(Pending(c)')
      BY DEF Fewer
    <2>3. Used(c) \in Nat /\ Used(c)' \in Nat /\ Used(c)' <= Used(c)
      BY UsedLess
    <2> QED
      BY <2>1, <2>2, <2>3
  <1>2. ASSUME NEW c \in Cmds, send'[c].pc = "read", send'[c].attempt = 1, NEW l \in Pending(c)'
        PROVE  l = client'.conn
    BY <1>2 DEF AttemptsKnow, Fewer
  <1> QED
    BY <1>1, <1>2 DEF AttemptsKnow

\* The mutex keeps the others out.
LEMMA Alone ==
  ASSUME TypeOK, SendsKnow, NEW c \in Cmds, send[c].pc \in {"connect", "write", "read"}
  PROVE  mu = c /\ \A d \in Cmds : d # c => send[d].pc \in {"start", "done"}
  <1>1. mu = c
    BY DEF SendsKnow
  <1>2. \A d \in Cmds : send[d].pc \in {"start", "connect", "write", "read", "done"}
    BY DEF TypeOK, SendRecs
  <1> QED
    BY <1>1, <1>2 DEF SendsKnow

LEMMA AttemptsInt ==
  ASSUME TypeOK
  PROVE  \A c \in Cmds : Attempts(c) \in 0..2
  BY DEF TypeOK, SendRecs, Attempts

LEMMA NoCmdIsNone == \A c \in Cmds : c # NoCmd
  BY ConstantsAssumption

\* Steps that leave the connections, and what was reported, alone.
LEMMA QuietKeeps ==
  ASSUME LinkInv, TypeOK', NEW c \in Cmds, Lock(c) \/ DeadlinePasses(c) \/ Connected(c) \/ Rejects(c)
  PROVE  LinkInv'
  <1> USE DEF LinkInv
  <1>1. UNCHANGED <<client, link, runs, report, faults>>
    BY DEF Lock, DeadlinePasses, Connected, Rejects
  <1>2. /\ \A d \in Cmds : d # c => send'[d] = send[d]
        /\ send'[c].attempt = send[c].attempt
        /\ send[c].expired => send'[c].expired
    BY DEF Lock, DeadlinePasses, Connected, Rejects, TypeOK, SendRecs
  <1>3. \/ send[c].pc = "start" /\ send'[c].pc = "connect" /\ mu = NoCmd /\ mu' = c
        \/ send[c].pc \in {"start", "connect", "write", "read"} /\ send'[c].pc = send[c].pc /\ mu' = mu /\ send'[c].expired
        \/ send[c].pc = "connect" /\ client.conn # NoLink /\ send'[c].pc = "write" /\ mu' = mu
        \/ send[c].pc = "start" /\ send'[c].pc = "done" /\ mu' = mu
    BY DEF Lock, DeadlinePasses, Connected, Rejects, TypeOK, SendRecs
  <1>4. Fewer
    BY <1>1, SamePending
  <1>5. SendsKnow'
    BY <1>1, <1>2, <1>3, NoCmdIsNone DEF SendsKnow
  <1>6. LinksKnow'
    BY <1>1 DEF LinksKnow, LinkKnows
  <1>7. \A d \in Cmds : send'[d].pc = "read" <=> send[d].pc = "read"
    BY <1>2, <1>3
  <1>8. ClientKnows'
    <2>1. \A l \in Links : (Idle(l)' <=> Idle(l)) /\ \A d \in Cmds : Busy(d, l)' <=> Busy(d, l)
      BY <1>1 DEF Idle, Busy, AtServer
    <2> QED
      BY <1>1, <1>7, <2>1 DEF ClientKnows
  <1>9. \A d \in Cmds : Attempts(d)' = Attempts(d)
    BY <1>1, <1>2, <1>3 DEF Attempts, AttemptsKnow, SendsKnow
  <1>10. AttemptsKnow'
    <2>1. \A d \in Cmds : send'[d].pc = "start" => send'[d].attempt = 1
      BY <1>2, <1>3 DEF AttemptsKnow
    <2>2. \A d \in Cmds : send'[d].attempt = send[d].attempt
      BY <1>2
    <2>3. \A d \in Cmds : /\ Attempts(d) \in Int /\ Attempts(d)' \in Int /\ Attempts(d) <= Attempts(d)'
      BY <1>9, AttemptsInt
    <2> QED
      BY <1>1, <1>4, <1>7, <2>1, <2>2, <2>3, FewerKeeps
  <1>11. FaultFree'
    <2> SUFFICES ASSUME faults = 0 PROVE FaultFree'
      BY <1>1 DEF FaultFree
    <2>1. \A d \in Cmds : Used(d)' = Used(d)
      BY <1>1 DEF Used, Pending
    <2>2. \A d \in Cmds : send[d].pc = "start" => ~(Used(d) > 0)
      <3>1. ASSUME NEW d \in Cmds, send[d].pc = "start" PROVE ~(Used(d) > 0)
        <4>1. report[d] = NoReport
          BY <3>1 DEF SendsKnow
        <4>2. Used(d) <= 0 /\ Used(d) \in Nat
          BY <3>1, <4>1, UsedNat DEF Attempts, AttemptsKnow
        <4> QED
          BY <4>2
      <3> QED
        BY <3>1
    <2>3. ASSUME NEW d \in Cmds, Used(d) > 0, send'[d].pc \in {"connect", "write"}
          PROVE  send'[d].expired /\ client'.conn = NoLink
      BY <1>1, <1>2, <1>3, <2>2, <2>3 DEF FaultFree
    <2>4. ASSUME NEW l \in Links, client'.conn = l
          PROVE  /\ link'[l].open \/ link'[l].server = "gone"
                 /\ \A d \in Cmds : Used(d) > 0 /\ send'[d].pc = "read" /\ ~send'[d].expired =>
                      link'[l].open \/ link'[l].toClient # << >>
      BY <1>1, <1>2, <1>3, <2>4 DEF FaultFree
    <2> QED
      BY <1>1, <2>1, <2>3, <2>4 DEF FaultFree
  <1>12. AnswerIsForCommand' /\ NoFalseReplay'
    BY <1>1 DEF AnswerIsForCommand, NoFalseReplay
  <1> QED
    BY <1>5, <1>6, <1>8, <1>10, <1>11, <1>12

\* Without faults now, there were none before.
LEMMA FaultsGrow ==
  ASSUME TypeOK, faults' = faults \/ faults' = faults + 1, faults' = 0
  PROVE  faults = 0
  BY ConstantsAssumption DEF TypeOK

\* What Send returns when it has no answer.
LEMMA ReturnKeeps ==
  ASSUME LinkInv, TypeOK', NEW c \in Cmds, NEW id \in {"connect", "transport"}, Return(c, id, FALSE),
         send[c].pc \in {"connect", "write", "read"}, runs' = runs
  PROVE  SendsKnow' /\ AnswerIsForCommand' /\ NoFalseReplay'
  <1> USE DEF LinkInv
  <1>1. /\ send'[c].pc = "done" /\ mu' = NoCmd
        /\ report'[c].id = id
        /\ \A d \in Cmds : d # c => send'[d] = send[d] /\ report'[d] = report[d]
    BY DEF Return, TypeOK
  <1>2. mu = c /\ \A d \in Cmds : d # c => send[d].pc \in {"start", "done"}
    BY Alone
  <1>3. \A d \in Cmds : send'[d].pc \in {"start", "done"}
    BY <1>1, <1>2
  <1>4. SendsKnow'
    <2>1. report'[c].ok = FALSE
      BY DEF Return, TypeOK
    <2> QED
      BY <1>1, <1>2, <1>3, <2>1, NoCmdIsNone DEF SendsKnow
  <1>5. AnswerIsForCommand'
    BY <1>1, ConstantsAssumption DEF AnswerIsForCommand
  <1>6. NoFalseReplay'
    BY <1>1 DEF NoFalseReplay
  <1> QED
    BY <1>4, <1>5, <1>6

LEMMA DialFailsKeeps ==
  ASSUME LinkInv, TypeOK', NEW c \in Cmds, DialFails(c)
  PROVE  LinkInv'
  <1> USE DEF LinkInv
  <1>1. /\ UNCHANGED <<client, link, runs>> /\ Return(c, "connect", FALSE)
        /\ send[c].pc = "connect" /\ client.conn = NoLink
        /\ faults' = faults \/ faults' = faults + 1
    BY DEF DialFails
  <1>2. SendsKnow' /\ AnswerIsForCommand' /\ NoFalseReplay'
    BY <1>1, ReturnKeeps
  <1>3. /\ \A d \in Cmds : d # c => send'[d] = send[d] /\ report'[d] = report[d]
        /\ send'[c].pc = "done" /\ send'[c].attempt = send[c].attempt /\ report'[c].id = "connect"
    BY <1>1 DEF Return, TypeOK, SendRecs
  <1>4. Fewer
    BY <1>1, SamePending
  <1>5. LinksKnow'
    BY <1>1 DEF LinksKnow, LinkKnows
  <1>6. ClientKnows'
    BY <1>1, ConstantsAssumption DEF ClientKnows
  <1>7. AttemptsKnow'
    <2>1. ASSUME NEW d \in Cmds PROVE Attempts(d) \in Int /\ Attempts(d)' \in Int /\ Attempts(d) <= Attempts(d)'
      <3>1. CASE d = c
        BY <1>1, <1>3, <3>1 DEF Attempts, TypeOK, SendRecs, NoReport
      <3>2. CASE d # c
        BY <1>3, <3>2, AttemptsInt DEF Attempts
      <3> QED
        BY <3>1, <3>2
    <2>2. \A d \in Cmds : send'[d].pc = "start" => send'[d].attempt = 1
      BY <1>3 DEF AttemptsKnow
    <2>3. \A d \in Cmds : d # c => send[d].pc \in {"start", "done"}
      BY <1>1, Alone
    <2>4. \A d \in Cmds : send'[d].pc # "read"
      BY <1>3, <2>3
    <2> QED
      BY <1>4, <2>1, <2>2, <2>4, FewerKeeps
  <1>8. FaultFree'
    <2> SUFFICES ASSUME faults' = 0 PROVE FaultFree'
      BY DEF FaultFree
    <2>1. faults = 0
      BY <1>1, FaultsGrow
    <2>2. \A d \in Cmds : Used(d)' = Used(d)
      BY <1>1 DEF Used, Pending
    <2>3. \A d \in Cmds : d # c => send[d].pc \in {"start", "done"}
      BY <1>1, Alone
    <2>4. \A d \in Cmds : send'[d].pc \in {"start", "done"}
      BY <1>3, <2>3
    <2>5. \A d \in Cmds : Used(d)' <= 1
      BY <2>1, <2>2 DEF FaultFree
    <2> QED
      BY <1>1, <2>4, <2>5, ConstantsAssumption DEF FaultFree
  <1> QED
    BY <1>2, <1>5, <1>6, <1>7, <1>8

\* A failed attempt.
LEMMA DropKeeps ==
  ASSUME LinkInv, TypeOK', NEW c \in Cmds, WriteFails(c) \/ ReadFails(c)
  PROVE  LinkInv'
  <1> USE DEF LinkInv
  <1>1. /\ send[c].pc \in {"write", "read"} /\ DropAndRetry(c, 2) /\ UNCHANGED <<runs, faults>>
    BY DEF WriteFails, ReadFails, ReadFailsWhen
  <1>2. client' = [client EXCEPT !.conn = NoLink] /\ client'.conn = NoLink
    BY <1>1 DEF DropAndRetry, TypeOK
  <1>3. PICK m \in Links : client.conn = m
    BY <1>1 DEF SendsKnow, TypeOK
  <1>4. /\ \A l \in Links : l # m => link'[l] = link[l]
        /\ link'[m] = [link[m] EXCEPT !.open = FALSE]
    BY <1>1, <1>3 DEF DropAndRetry, TypeOK
  <1>5. /\ link'[m].open = FALSE /\ link'[m].server = link[m].server /\ link'[m].cmd = link[m].cmd
        /\ link'[m].ok = link[m].ok /\ link'[m].toServer = link[m].toServer
    BY <1>4, Fields DEF LinkRecs
  <1>6. /\ mu = c
        /\ \A d \in Cmds : d # c => /\ send'[d] = send[d] /\ report'[d] = report[d]
                                    /\ send[d].pc \in {"start", "done"}
    <2>1. mu = c /\ \A d \in Cmds : d # c => send[d].pc \in {"start", "done"}
      BY <1>1, Alone
    <2>2. \A d \in Cmds : d # c => send'[d] = send[d] /\ report'[d] = report[d]
      BY <1>1 DEF DropAndRetry, Return, TypeOK
    <2> QED
      BY <2>1, <2>2
  <1>7. \/ /\ send[c].attempt = 1 /\ send'[c].pc = "connect" /\ send'[c].attempt = 2
           /\ send'[c].expired = send[c].expired /\ UNCHANGED <<report, mu>>
        \/ Return(c, "transport", FALSE) /\ send[c].attempt = 2 /\ send'[c].pc = "done" /\ send'[c].attempt = 2
                                         /\ report'[c].id = "transport"
    <2>1. send \in [Cmds -> SendRecs] /\ DropAndRetry(c, 2)
      BY <1>1 DEF TypeOK
    <2>2. Return(c, "transport", FALSE) => report'[c].id = "transport"
      BY <1>1 DEF Return, TypeOK
    <2> QED
      BY <2>1, <2>2, DropSends
  <1>8. \A d \in Cmds : send'[d].pc \in {"start", "connect", "done"}
    BY <1>6, <1>7
  <1>9. SendsKnow' /\ AnswerIsForCommand' /\ NoFalseReplay'
    <2>1. CASE Return(c, "transport", FALSE)
      BY <1>1, <2>1, ReturnKeeps
    <2>2. CASE UNCHANGED <<report, mu>> /\ send'[c].pc = "connect"
      <3>1. SendsKnow'
        BY <1>6, <1>8, <2>2, <1>1 DEF SendsKnow
      <3> QED
        BY <1>1, <2>2, <3>1 DEF AnswerIsForCommand, NoFalseReplay
    <2> QED
      BY <1>7, <2>1, <2>2
  <1>10. LinksKnow'
    <2>1. ASSUME NEW l \in Links PROVE LinkKnows(l)'
      <3>1. LinkKnows(l) /\ runs' = runs
        BY <1>1 DEF LinksKnow
      <3>2. CASE l = m
        BY <1>5, <3>1, <3>2 DEF LinkKnows
      <3>3. CASE l # m
        BY <1>4, <3>1, <3>3 DEF LinkKnows
      <3> QED
        BY <3>2, <3>3
    <2> QED
      BY <2>1 DEF LinksKnow
  <1>11. ClientKnows'
    BY <1>2, ConstantsAssumption DEF ClientKnows
  <1>12. Fewer
    <2>1. ASSUME NEW d \in Cmds PROVE Pending(d)' \subseteq Pending(d)
      BY <1>4, <1>5 DEF Pending
    <2>2. ASSUME NEW d \in Cmds PROVE runs'[d] <= runs[d] /\ IsFiniteSet(Pending(d))
      BY <1>1 DEF TypeOK, AttemptsKnow
    <2> QED
      BY <2>1, <2>2, Shrinks DEF Fewer
  <1>13. AttemptsKnow'
    <2>1. ASSUME NEW d \in Cmds PROVE Attempts(d) \in Int /\ Attempts(d)' \in Int /\ Attempts(d) <= Attempts(d)'
      <3>1. CASE d = c
        <4>1. Attempts(c) \in 0..2 /\ (send[c].attempt = 1 => Attempts(c) <= 1)
          BY <1>1, AttemptsInt DEF Attempts
        <4>2. CASE send'[c].pc = "connect" /\ send'[c].attempt = 2 /\ send[c].attempt = 1
          <5>1. Attempts(c)' = 1
            BY <4>2 DEF Attempts
          <5> QED
            BY <3>1, <4>1, <4>2, <5>1
        <4>3. CASE send'[c].pc = "done" /\ send'[c].attempt = 2 /\ report'[c].id = "transport"
          <5>1. Attempts(c)' = 2
            BY <4>3 DEF Attempts, NoReport
          <5> QED
            BY <3>1, <4>1, <5>1
        <4> QED
          BY <1>7, <4>2, <4>3
      <3>2. CASE d # c
        BY <1>6, <3>2, AttemptsInt DEF Attempts
      <3> QED
        BY <3>1, <3>2
    <2>2. \A d \in Cmds : send'[d].pc = "start" => send'[d].attempt = 1
      BY <1>6, <1>7 DEF AttemptsKnow
    <2>4. \A d \in Cmds : send'[d].pc # "read"
      BY <1>8
    <2> QED
      BY <1>12, <2>1, <2>2, <2>4, FewerKeeps
  <1>14. FaultFree'
    <2> SUFFICES ASSUME faults = 0 PROVE FaultFree'
      BY <1>1 DEF FaultFree
    <2>1. \A d \in Cmds : Used(d) \in Nat /\ Used(d)' \in Nat /\ Used(d)' <= Used(d)
      BY <1>12, UsedLess
    <2>2. Used(c) > 0 => send[c].expired
      <3>1. CASE WriteFails(c)
        BY <1>3, <3>1, ConstantsAssumption DEF WriteFails, FaultFree
      <3>2. CASE ReadFails(c)
        BY <1>3, <3>2 DEF ReadFails, ReadFailsWhen, FaultFree
      <3> QED
        BY <3>1, <3>2
    <2>3. ASSUME NEW d \in Cmds, Used(d)' > 0, send'[d].pc \in {"connect", "write"}
          PROVE  send'[d].expired
      <3>1. d = c /\ send'[c].expired = send[c].expired
        BY <1>6, <1>7, <2>3
      <3>2. Used(c) > 0
        BY <2>1, <2>3, <3>1
      <3> QED
        BY <2>2, <3>1, <3>2
    <2>4. \A d \in Cmds : Used(d)' <= 1
      BY <2>1 DEF FaultFree
    <2> QED
      BY <1>2, <2>3, <2>4, ConstantsAssumption DEF FaultFree
  <1> QED
    BY <1>9, <1>10, <1>11, <1>13, <1>14

LEMMA DialKeeps ==
  ASSUME LinkInv, TypeOK', NEW c \in Cmds, Dial(c)
  PROVE  LinkInv'
  <1> USE DEF LinkInv
  <1>1. /\ send[c].pc = "connect" /\ client.conn = NoLink /\ ~send[c].expired
        /\ send' = [send EXCEPT ![c].pc = "write"]
        /\ UNCHANGED <<mu, runs, report, faults>>
    BY DEF Dial, DialWith
  <1>2. PICK m \in Links :
          /\ link[m].server = "gone"
          /\ client' = [conn |-> m, sentSeq |-> 0, lastAckSeq |-> 0]
          /\ link' = [link EXCEPT ![m] = [NoConnection EXCEPT !.open = TRUE, !.server = "read"]]
    BY DEF Dial, DialWith
  <1>3. /\ \A l \in Links : l # m => link'[l] = link[l]
        /\ link'[m] = [NoConnection EXCEPT !.open = TRUE, !.server = "read"]
    BY <1>2 DEF TypeOK
  <1>4. /\ link'[m].open = TRUE /\ link'[m].server = "read" /\ link'[m].ackSeq = 0 /\ link'[m].lastReq = 0
        /\ link'[m].toServer = << >> /\ link'[m].toClient = << >>
    BY <1>3 DEF NoConnection
  <1>5. client'.conn = m /\ client'.sentSeq = 0 /\ client'.lastAckSeq = 0
    BY <1>2
  <1>6. /\ mu = c /\ \A d \in Cmds : d # c => send'[d] = send[d] /\ send[d].pc \in {"start", "done"}
        /\ send'[c].pc = "write" /\ send'[c].attempt = send[c].attempt
    BY <1>1, Alone DEF TypeOK, SendRecs
  <1>7. \A d \in Cmds : send'[d].pc \in {"start", "write", "done"}
    BY <1>6
  <1>8. SendsKnow'
    BY <1>1, <1>5, <1>6, ConstantsAssumption DEF SendsKnow
  <1>9. LinksKnow'
    <2>1. ASSUME NEW l \in Links PROVE LinkKnows(l)'
      <3>1. LinkKnows(l) /\ runs' = runs
        BY <1>1 DEF LinksKnow
      <3>2. CASE l = m
        BY <1>4, <3>2 DEF LinkKnows
      <3>3. CASE l # m
        BY <1>3, <3>1, <3>3 DEF LinkKnows
      <3> QED
        BY <3>2, <3>3
    <2> QED
      BY <2>1 DEF LinksKnow
  <1>10. ClientKnows'
    <2>1. Idle(m)'
      BY <1>4, <1>5 DEF Idle
    <2> QED
      BY <1>5, <1>7, <2>1 DEF ClientKnows
  <1>11. Fewer
    <2>1. ASSUME NEW d \in Cmds PROVE Pending(d)' \subseteq Pending(d)
      BY <1>3, <1>4 DEF Pending
    <2>2. ASSUME NEW d \in Cmds PROVE runs'[d] <= runs[d] /\ IsFiniteSet(Pending(d))
      BY <1>1 DEF TypeOK, AttemptsKnow
    <2> QED
      BY <2>1, <2>2, Shrinks DEF Fewer
  <1>12. \A d \in Cmds : Attempts(d)' = Attempts(d)
    BY <1>1, <1>6 DEF Attempts
  <1>13. AttemptsKnow'
    <2>1. \A d \in Cmds : send'[d].pc = "start" => send'[d].attempt = 1
      BY <1>6 DEF AttemptsKnow
    <2>2. \A d \in Cmds : Attempts(d) \in Int /\ Attempts(d)' \in Int /\ Attempts(d) <= Attempts(d)'
      BY <1>12, AttemptsInt
    <2>3. \A d \in Cmds : send'[d].pc # "read"
      BY <1>7
    <2> QED
      BY <1>11, <2>1, <2>2, <2>3, FewerKeeps
  <1>14. FaultFree'
    <2> SUFFICES ASSUME faults = 0 PROVE FaultFree'
      BY <1>1 DEF FaultFree
    <2>1. \A d \in Cmds : Used(d) \in Nat /\ Used(d)' \in Nat /\ Used(d)' <= Used(d)
      BY <1>11, UsedLess
    <2>2. Used(c) = 0
      BY <1>1, <2>1 DEF FaultFree
    <2>3. ASSUME NEW d \in Cmds, send'[d].pc \in {"connect", "write"} PROVE ~(Used(d)' > 0)
      BY <1>6, <2>1, <2>2, <2>3
    <2>4. \A d \in Cmds : Used(d)' <= 1
      BY <2>1 DEF FaultFree
    <2>5. \A d \in Cmds : send'[d].pc # "read"
      BY <1>7
    <2> QED
      BY <1>4, <1>5, <2>3, <2>4, <2>5 DEF FaultFree
  <1>15. AnswerIsForCommand' /\ NoFalseReplay'
    BY <1>1 DEF AnswerIsForCommand, NoFalseReplay
  <1> QED
    BY <1>8, <1>9, <1>10, <1>13, <1>14, <1>15

LEMMA AppendNone ==
  ASSUME NEW S, NEW e \in S, NEW q \in Seq(S), q = << >>
  PROVE  Append(q, e) # << >> /\ Len(Append(q, e)) = 1 /\ Head(Append(q, e)) = e
  OBVIOUS

LEMMA TailOfOne ==
  ASSUME NEW S, NEW q \in Seq(S), Len(q) = 1
  PROVE  Tail(q) = << >>
  <1>1. q # << >>
    OBVIOUS
  <1>2. Tail(q) \in Seq(S) /\ Len(Tail(q)) = 0
    BY <1>1
  <1>3. \A t \in Seq(S) : Len(t) = 0 => t = << >>
    OBVIOUS
  <1> QED
    BY <1>2, <1>3

LEMMA WriteKeeps ==
  ASSUME LinkInv, TypeOK', NEW c \in Cmds, Write(c)
  PROVE  LinkInv'
  <1> USE DEF LinkInv
  <1>1. /\ send[c].pc = "write"
        /\ client' = [client EXCEPT !.sentSeq = @ + 1]
        /\ send' = [send EXCEPT ![c].pc = "read"]
        /\ UNCHANGED <<mu, runs, report, faults>>
    BY DEF Write
  <1>2. PICK m \in Links : client.conn = m
    BY <1>1 DEF SendsKnow, TypeOK
  <1>3. client'.conn = m /\ client'.sentSeq = client.sentSeq + 1 /\ client'.lastAckSeq = client.lastAckSeq
    BY <1>1, <1>2 DEF TypeOK
  <1>4. /\ mu = c /\ \A d \in Cmds : d # c => send'[d] = send[d] /\ send[d].pc \in {"start", "done"}
        /\ send'[c].pc = "read" /\ send'[c].attempt = send[c].attempt
    BY <1>1, Alone DEF TypeOK, SendRecs
  <1>5. Idle(m) /\ LinkKnows(m) /\ link[m] \in LinkRecs
    <2>1. \A d \in Cmds : send[d].pc # "read"
      BY <1>1, <1>4
    <2> QED
      BY <1>2, <2>1, Fields DEF ClientKnows, LinksKnow
  <1>6. PICK n \in Nat : n = client.sentSeq
    BY Fields
  <1>7. PICK e \in Requests : e = [seq |-> n + 1, cmd |-> c]
    <2>1. [seq |-> n + 1, cmd |-> c] \in Requests
      BY DEF Requests
    <2> QED
      BY <2>1
  <1>8. e.seq = n + 1 /\ e.cmd = c
    BY <1>7
  \* The connection is open and the request on its way, or it is lost and nothing happens.
  <1>9. \A l \in Links : l # m => link'[l] = link[l]
    BY <1>2 DEF Write, TypeOK
  <1>10. \/ link' = link /\ ~link[m].open
         \/ link[m].open /\ link'[m] = [link[m] EXCEPT !.toServer = Append(link[m].toServer, e)]
    BY <1>2, <1>6, <1>7 DEF Write, TypeOK
  <1>11. /\ link'[m].open = link[m].open /\ link'[m].server = link[m].server /\ link'[m].cmd = link[m].cmd
         /\ link'[m].ok = link[m].ok /\ link'[m].lastReq = link[m].lastReq /\ link'[m].ackSeq = link[m].ackSeq
         /\ link'[m].toClient = link[m].toClient
         /\ link'[m].toServer = IF link[m].open THEN Append(link[m].toServer, e) ELSE link[m].toServer
    BY <1>5, <1>10 DEF LinkRecs
  <1>12. /\ ~link[m].open => link'[m].toServer = << >>
         /\ link[m].open => /\ link'[m].toServer # << >> /\ Len(link'[m].toServer) = 1
                            /\ Head(link'[m].toServer) = e /\ link[m].server = "read"
    <2>1. link[m].toServer \in Seq(Requests) /\ link[m].toServer = << >>
      BY <1>5 DEF LinkRecs, Idle
    <2>2. link[m].open => link[m].server = "read"
      BY <1>5 DEF Idle, LinkKnows
    <2> QED
      BY <1>11, <2>1, <2>2, AppendNone
  <1>13. SendsKnow'
    BY <1>1, <1>2, <1>3, <1>4, ConstantsAssumption DEF SendsKnow
  <1>14. LinksKnow'
    <2>1. ASSUME NEW l \in Links PROVE LinkKnows(l)'
      <3>1. LinkKnows(l) /\ runs' = runs
        BY <1>1 DEF LinksKnow
      <3>2. CASE l = m
        BY <1>11, <1>12, <3>1, <3>2 DEF LinkKnows
      <3>3. CASE l # m
        BY <1>9, <3>1, <3>3 DEF LinkKnows
      <3> QED
        BY <3>2, <3>3
    <2> QED
      BY <2>1 DEF LinksKnow
  <1>15. ClientKnows'
    <2>1. client'.sentSeq = n + 1 /\ client'.lastAckSeq = n /\ client.lastAckSeq = n
      BY <1>3, <1>5, <1>6 DEF Idle
    <2>2. /\ link[m].toClient = << >> /\ link[m].server \in {"read", "gone"}
          /\ link[m].server = "read" => link[m].lastReq <= n /\ link[m].ackSeq = n
      BY <1>5, <1>6 DEF Idle
    <2>3. link[m].lastReq \in Nat
      BY <1>5 DEF LinkRecs
    <2>4. Busy(c, m)'
      BY <1>7, <1>11, <1>12, <2>1, <2>2, <2>3 DEF Busy, AtServer
    <2>5. \A d \in Cmds : send'[d].pc = "read" => d = c
      BY <1>4
    <2> QED
      BY <1>3, <1>4, <2>4, <2>5 DEF ClientKnows
  \* One more place for this command.
  <1>16. ASSUME NEW d \in Cmds, d # c
         PROVE  /\ Pending(d)' \subseteq Pending(d) /\ IsFiniteSet(Pending(d)') /\ Used(d)' <= Used(d)
                /\ Used(d) \in Nat /\ Used(d)' \in Nat
    <2>1. Pending(d)' \subseteq Pending(d)
      <3>1. ASSUME NEW l \in Links, l \in Pending(d)' PROVE l \in Pending(d)
        <4>1. CASE l = m
          BY <1>8, <1>11, <1>12, <1>16, <3>1, <4>1 DEF Pending
        <4>2. CASE l # m
          BY <1>9, <3>1, <4>2 DEF Pending
        <4> QED
          BY <4>1, <4>2
      <3> QED
        BY <3>1 DEF Pending
    <2>2. runs'[d] <= runs[d] /\ IsFiniteSet(Pending(d))
      BY <1>1 DEF TypeOK, AttemptsKnow
    <2>3. IsFiniteSet(Pending(d)') /\ Used(d)' <= Used(d)
      BY <2>1, <2>2, Shrinks
    <2>4. Used(d) \in Nat
      BY <2>2, UsedNat
    <2>5. Cardinality(Pending(d)') \in Nat /\ runs'[d] \in Nat
      BY <2>3, FS_CardinalityType DEF TypeOK
    <2> QED
      BY <2>1, <2>3, <2>4, <2>5 DEF Used
  <1>17. /\ IsFiniteSet(Pending(c)) /\ IsFiniteSet(Pending(c)') /\ Pending(c)' \subseteq Pending(c) \cup {m}
         /\ Used(c) \in Nat /\ Used(c)' \in Nat /\ Used(c)' <= Used(c) + 1
         /\ ~link[m].open => Used(c)' = Used(c)
    <2>1. Pending(c)' \subseteq Pending(c) \cup {m}
      BY <1>9 DEF Pending
    <2>2. IsFiniteSet(Pending(c)) /\ Used(c) \in Nat
      BY UsedNat DEF AttemptsKnow
    <2>3. PICK P : P = Pending(c)
      OBVIOUS
    <2>4. PICK Q : Q = Pending(c)'
      OBVIOUS
    <2>5. /\ IsFiniteSet(P \cup {m}) /\ Cardinality(P \cup {m}) \in Nat /\ Cardinality(P) \in Nat
          /\ Cardinality(P \cup {m}) <= Cardinality(P) + 1
      <3>1. IsFiniteSet(P) /\ IsFiniteSet(P \cup {m}) /\ (m \in P => P \cup {m} = P)
        BY <2>2, <2>3, FS_AddElement
      <3>2. Cardinality(P) \in Nat /\ Cardinality(P \cup {m}) \in Nat
        BY <3>1, FS_CardinalityType
      <3>3. m \notin P => Cardinality(P \cup {m}) = Cardinality(P) + 1
        BY <3>1, FS_AddElement
      <3> QED
        BY <3>1, <3>2, <3>3
    <2>6. IsFiniteSet(Q) /\ Cardinality(Q) \in Nat /\ Cardinality(Q) <= Cardinality(P \cup {m})
      BY <2>1, <2>3, <2>4, <2>5, FS_Subset, FS_CardinalityType
    <2>7. runs'[c] = runs[c] /\ runs[c] \in Nat
      BY <1>1 DEF TypeOK
    <2>8. ~link[m].open => Q = P
      BY <1>10, <2>3, <2>4 DEF Pending
    <2>9. Used(c) = runs[c] + Cardinality(P) /\ Used(c)' = runs'[c] + Cardinality(Q)
      BY <2>3, <2>4 DEF Used
    <2> QED
      BY <2>1, <2>2, <2>3, <2>4, <2>5, <2>6, <2>7, <2>8, <2>9
  <1>18. /\ \A d \in Cmds : d # c => Attempts(d)' = Attempts(d)
         /\ Attempts(c) = send[c].attempt - 1 /\ Attempts(c)' = send[c].attempt
         /\ send[c].attempt \in 1..2
    BY <1>1, <1>4 DEF Attempts, TypeOK, SendRecs
  <1>19. AttemptsKnow'
    <2>1. ASSUME NEW d \in Cmds PROVE send'[d].pc = "start" => send'[d].attempt = 1
      BY <1>4 DEF AttemptsKnow
    <2>2. ASSUME NEW d \in Cmds PROVE IsFiniteSet(Pending(d)') /\ Used(d)' <= Attempts(d)'
      <3>1. Used(d) <= Attempts(d) /\ Attempts(d) \in 0..2
        BY AttemptsInt DEF AttemptsKnow
      <3>2. CASE d = c
        BY <1>17, <1>18, <3>1, <3>2
      <3>3. CASE d # c
        BY <1>16, <1>18, <3>1, <3>3
      <3> QED
        BY <3>2, <3>3
    <2>3. ASSUME NEW d \in Cmds, send'[d].pc = "read", send'[d].attempt = 1, NEW l \in Pending(d)'
          PROVE  l = client'.conn
      <3>1. d = c /\ send[c].attempt = 1
        BY <1>4, <2>3
      <3>2. Used(c) <= 0
        BY <1>18, <3>1 DEF AttemptsKnow
      <3>3. Cardinality(Pending(c)) \in Nat /\ runs[c] \in Nat
        BY <1>17, UsedNat
      <3>4. Cardinality(Pending(c)) = 0
        BY <3>2, <3>3 DEF Used
      <3>5. Pending(c) = {}
        BY <1>17, <3>4, FS_EmptySet
      <3> QED
        BY <1>3, <1>17, <2>3, <3>1, <3>5
    <2> QED
      BY <2>1, <2>2, <2>3 DEF AttemptsKnow
  <1>20. FaultFree'
    <2> SUFFICES ASSUME faults = 0 PROVE FaultFree'
      BY <1>1 DEF FaultFree
    <2>1. Used(c) = 0
      BY <1>1, <1>2, <1>17, ConstantsAssumption DEF FaultFree
    <2>2. ASSUME NEW d \in Cmds PROVE Used(d)' <= 1
      <3>1. Used(d) <= 1
        BY DEF FaultFree
      <3>2. CASE d = c
        BY <1>17, <2>1, <3>2
      <3>3. CASE d # c
        BY <1>16, <3>1, <3>3
      <3> QED
        BY <3>2, <3>3
    <2>3. \A d \in Cmds : send'[d].pc \in {"start", "read", "done"}
      BY <1>4
    <2>4. link'[m].open \/ link'[m].server = "gone"
      BY <1>2, <1>11 DEF FaultFree
    <2>5. ASSUME NEW d \in Cmds, Used(d)' > 0, send'[d].pc = "read" PROVE link'[m].open
      <3>1. d = c
        BY <1>4, <2>5
      <3> QED
        BY <1>11, <1>17, <2>1, <2>5, <3>1
    <2> QED
      BY <1>3, <2>2, <2>3, <2>4, <2>5 DEF FaultFree
  <1>21. AnswerIsForCommand' /\ NoFalseReplay'
    BY <1>1 DEF AnswerIsForCommand, NoFalseReplay
  <1> QED
    BY <1>13, <1>14, <1>15, <1>19, <1>20, <1>21

LEMMA ReadAckKeeps ==
  ASSUME LinkInv, TypeOK', NEW c \in Cmds, ReadAck(c)
  PROVE  LinkInv'
  <1> USE DEF LinkInv
  <1>1. send[c].pc = "read" /\ link[client.conn].toClient # << >> /\ UNCHANGED <<runs, faults>>
    BY DEF ReadAck
  <1>2. PICK m \in Links : client.conn = m
    BY <1>1 DEF SendsKnow, TypeOK
  <1>3. Busy(c, m) /\ LinkKnows(m) /\ link[m] \in LinkRecs
    BY <1>1, <1>2, Fields DEF ClientKnows, LinksKnow
  <1>4. link[m].toClient \in Seq(Acks) /\ link[m].toClient # << >>
    BY <1>1, <1>2, <1>3 DEF LinkRecs
  <1>5. PICK a \in Acks : a = Head(link[m].toClient)
    BY <1>4, HeadTail
  <1>6. /\ a.seq = client.sentSeq /\ a.cmd = c /\ (a.ok => runs[c] > 0)
        /\ client.sentSeq = client.lastAckSeq + 1 /\ client.lastAckSeq \in Nat
        /\ Len(link[m].toClient) = 1
    BY <1>3, <1>4, <1>5, Fields DEF Busy
  <1>7. Tail(link[m].toClient) = << >>
    BY <1>4, <1>6, TailOfOne
  <1>8. Return(c, c, a.ok) /\ client' = [client EXCEPT !.lastAckSeq = a.seq]
    <2>1. ~(a.seq <= client.lastAckSeq)
      BY <1>6
    <2> QED
      BY <1>2, <1>5, <1>6, <2>1 DEF ReadAck
  <1>9. /\ client'.conn = m /\ client'.sentSeq = client.sentSeq /\ client'.lastAckSeq = client.sentSeq
    BY <1>2, <1>6, <1>8 DEF TypeOK
  <1>10. /\ \A l \in Links : l # m => link'[l] = link[l]
         /\ link'[m] = [link[m] EXCEPT !.toClient = << >>]
    BY <1>2, <1>7 DEF ReadAck, TypeOK
  <1>11. /\ link'[m].open = link[m].open /\ link'[m].server = link[m].server /\ link'[m].cmd = link[m].cmd
         /\ link'[m].ok = link[m].ok /\ link'[m].lastReq = link[m].lastReq /\ link'[m].ackSeq = link[m].ackSeq
         /\ link'[m].toClient = << >> /\ link'[m].toServer = link[m].toServer
    BY <1>3, <1>10 DEF LinkRecs
  <1>12. /\ mu = c /\ mu' = NoCmd
         /\ \A d \in Cmds : d # c => send'[d] = send[d] /\ send[d].pc \in {"start", "done"} /\ report'[d] = report[d]
         /\ send'[c].pc = "done" /\ send'[c].attempt = send[c].attempt
         /\ report'[c].id = c /\ (report'[c].ok => runs[c] > 0)
    <2>1. mu = c /\ \A d \in Cmds : d # c => send[d].pc \in {"start", "done"}
      BY <1>1, Alone
    <2> QED
      BY <1>6, <1>8, <2>1 DEF Return, TypeOK, SendRecs
  <1>13. \A d \in Cmds : send'[d].pc \in {"start", "done"}
    BY <1>12
  <1>14. SendsKnow'
    BY <1>12, <1>13, NoCmdIsNone DEF SendsKnow
  <1>15. LinksKnow'
    <2>1. ASSUME NEW l \in Links PROVE LinkKnows(l)'
      <3>1. LinkKnows(l) /\ runs' = runs
        BY <1>1 DEF LinksKnow
      <3>2. CASE l = m
        BY <1>11, <3>1, <3>2 DEF LinkKnows
      <3>3. CASE l # m
        BY <1>10, <3>1, <3>3 DEF LinkKnows
      <3> QED
        BY <3>2, <3>3
    <2> QED
      BY <2>1 DEF LinksKnow
  <1>16. ClientKnows'
    <2>1. link[m].toServer = << >> /\ link[m].server \in {"read", "gone"}
      BY <1>3, <1>4 DEF Busy, AtServer, LinkRecs
    <2>2. link[m].server = "read" => link[m].lastReq <= client.sentSeq /\ link[m].ackSeq = client.sentSeq
      BY <1>3, <1>4 DEF Busy
    <2>3. Idle(m)'
      BY <1>9, <1>11, <2>1, <2>2 DEF Idle
    <2> QED
      BY <1>9, <1>13, <2>3 DEF ClientKnows
  <1>17. Fewer
    <2>1. ASSUME NEW d \in Cmds PROVE Pending(d)' \subseteq Pending(d)
      BY <1>10, <1>11 DEF Pending
    <2>2. ASSUME NEW d \in Cmds PROVE runs'[d] <= runs[d] /\ IsFiniteSet(Pending(d))
      BY <1>1 DEF TypeOK, AttemptsKnow
    <2> QED
      BY <2>1, <2>2, Shrinks DEF Fewer
  <1>18. AttemptsKnow'
    <2>1. ASSUME NEW d \in Cmds PROVE Attempts(d) \in Int /\ Attempts(d)' \in Int /\ Attempts(d) <= Attempts(d)'
      <3>1. CASE d = c
        <4>1. c # "none"
          BY ConstantsAssumption
        <4>2. Attempts(c) = send[c].attempt /\ Attempts(c)' = send[c].attempt /\ send[c].attempt \in 1..2
          BY <1>1, <1>12, <4>1 DEF Attempts, TypeOK, SendRecs, NoReport
        <4> QED
          BY <3>1, <4>2
      <3>2. CASE d # c
        BY <1>12, <3>2, AttemptsInt DEF Attempts
      <3> QED
        BY <3>1, <3>2
    <2>2. \A d \in Cmds : send'[d].pc = "start" => send'[d].attempt = 1
      BY <1>12 DEF AttemptsKnow
    <2>3. \A d \in Cmds : send'[d].pc # "read"
      BY <1>13
    <2> QED
      BY <1>17, <2>1, <2>2, <2>3, FewerKeeps
  <1>19. FaultFree'
    <2> SUFFICES ASSUME faults = 0 PROVE FaultFree'
      BY <1>1 DEF FaultFree
    <2>1. \A d \in Cmds : Used(d) \in Nat /\ Used(d)' \in Nat /\ Used(d)' <= Used(d)
      BY <1>17, UsedLess
    <2>2. \A d \in Cmds : Used(d)' <= 1
      BY <2>1 DEF FaultFree
    <2>3. link'[m].open \/ link'[m].server = "gone"
      BY <1>2, <1>11 DEF FaultFree
    <2> QED
      BY <1>9, <1>13, <2>2, <2>3 DEF FaultFree
  <1>20. AnswerIsForCommand'
    BY <1>1, <1>12 DEF AnswerIsForCommand
  <1>21. NoFalseReplay'
    BY <1>12, ConstantsAssumption DEF NoFalseReplay
  <1> QED
    BY <1>14, <1>15, <1>16, <1>18, <1>19, <1>20, <1>21
-----------------------------------------------------------------------------
\* The steps of the executor and of the network.
RunsGrow == \A c \in Cmds : runs[c] <= runs'[c]

\* They leave Send alone, so what is left to show is about the connection.
LEMMA ServerKeeps ==
  ASSUME LinkInv, TypeOK', UNCHANGED <<send, mu, client, report>>, RunsGrow, Fewer, LinksKnow', ClientKnows',
         faults' = faults \/ faults' = faults + 1,
         faults' = 0 => \A l \in Links : client.conn = l =>
           /\ link'[l].open \/ link'[l].server = "gone"
           /\ \A c \in Cmds : Used(c) > 0 /\ send[c].pc = "read" /\ ~send[c].expired =>
                link'[l].open \/ link'[l].toClient # << >>
  PROVE  LinkInv'
  <1> USE DEF LinkInv
  <1>1. SendsKnow' /\ NoFalseReplay'
    BY DEF SendsKnow, NoFalseReplay
  <1>2. AnswerIsForCommand'
    BY DEF AnswerIsForCommand, RunsGrow, TypeOK
  <1>3. AttemptsKnow'
    <2>1. \A c \in Cmds : Attempts(c) \in Int /\ Attempts(c)' \in Int /\ Attempts(c) <= Attempts(c)'
      BY AttemptsInt DEF Attempts
    <2>2. \A c \in Cmds : send'[c].pc = "start" => send'[c].attempt = 1
      BY DEF AttemptsKnow
    <2> QED
      BY <2>1, <2>2, FewerKeeps
  <1>4. FaultFree'
    <2> SUFFICES ASSUME faults' = 0 PROVE FaultFree'
      BY DEF FaultFree
    <2>1. faults = 0
      BY FaultsGrow
    <2>2. \A c \in Cmds : Used(c) \in Nat /\ Used(c)' \in Nat /\ Used(c)' <= Used(c)
      BY UsedLess
    <2>3. \A c \in Cmds : Used(c)' <= 1 /\ (Used(c)' > 0 => Used(c) > 0)
      BY <2>1, <2>2 DEF FaultFree
    <2> QED
      BY <2>1, <2>3 DEF FaultFree
  <1> QED
    BY <1>1, <1>2, <1>3, <1>4

\* One server goroutine takes a step.
ServerStep(l, r) == /\ link' = [link EXCEPT ![l] = r]
                    /\ UNCHANGED <<send, mu, client, report>>

LEMMA ServerStepKeeps ==
  ASSUME LinkInv, TypeOK', NEW m \in Links, NEW r, ServerStep(m, r), RunsGrow, Fewer, LinkKnows(m)',
         faults' = faults \/ faults' = faults + 1,
         client.conn = m => /\ \A c \in Cmds : send[c].pc = "read" => Busy(c, m)'
                            /\ (\A c \in Cmds : send[c].pc # "read") => Idle(m)',
         faults' = 0 /\ client.conn = m =>
           /\ r.open \/ r.server = "gone"
           /\ \A c \in Cmds : Used(c) > 0 /\ send[c].pc = "read" /\ ~send[c].expired =>
                r.open \/ r.toClient # << >>
  PROVE  LinkInv'
  <1> USE DEF LinkInv
  <1>1. /\ \A l \in Links : l # m => link'[l] = link[l]
        /\ link'[m] = r
        /\ UNCHANGED <<send, mu, client, report>>
    BY DEF ServerStep, TypeOK
  <1>2. LinksKnow'
    <2>1. ASSUME NEW l \in Links, l # m PROVE LinkKnows(l)'
      <3>1. LinkKnows(l) /\ link[l] \in LinkRecs
        BY Fields DEF LinksKnow
      <3>2. link[l].server = "ack" /\ link[l].ok => runs'[link[l].cmd] > 0
        <4> SUFFICES ASSUME link[l].server = "ack", link[l].ok PROVE runs'[link[l].cmd] > 0
          OBVIOUS
        <4>1. link[l].cmd \in Cmds /\ runs[link[l].cmd] > 0
          BY <3>1 DEF LinkKnows
        <4> QED
          BY <4>1 DEF RunsGrow, TypeOK
      <3> QED
        BY <1>1, <2>1, <3>1, <3>2 DEF LinkKnows
    <2> QED
      BY <2>1 DEF LinksKnow
  <1>3. ClientKnows'
    <2>1. ASSUME NEW l \in Links, client.conn = l, l # m
          PROVE  /\ \A c \in Cmds : send[c].pc = "read" => Busy(c, l)'
                 /\ (\A c \in Cmds : send[c].pc # "read") => Idle(l)'
      <3>1. link'[l] = link[l] /\ client' = client
        BY <1>1, <2>1
      <3>2. ASSUME NEW c \in Cmds, send[c].pc = "read" PROVE Busy(c, l)'
        <4>1. Busy(c, l) /\ runs[c] \in Nat /\ runs'[c] \in Nat /\ runs[c] <= runs'[c]
          BY <2>1, <3>2 DEF ClientKnows, RunsGrow, TypeOK
        <4> QED
          BY <3>1, <4>1 DEF Busy, AtServer
      <3>3. ASSUME \A c \in Cmds : send[c].pc # "read" PROVE Idle(l)'
        <4>1. Idle(l)
          BY <2>1, <3>3 DEF ClientKnows
        <4> QED
          BY <3>1, <4>1 DEF Idle
      <3> QED
        BY <3>2, <3>3
    <2> QED
      BY <1>1, <2>1 DEF ClientKnows
  <1>4. ASSUME faults' = 0, NEW l \in Links, client.conn = l
        PROVE  /\ link'[l].open \/ link'[l].server = "gone"
               /\ \A c \in Cmds : Used(c) > 0 /\ send[c].pc = "read" /\ ~send[c].expired =>
                    link'[l].open \/ link'[l].toClient # << >>
    <2>1. CASE l = m
      BY <1>1, <1>4, <2>1
    <2>2. CASE l # m
      <3>1. faults = 0
        BY <1>4, FaultsGrow
      <3> QED
        BY <1>1, <1>4, <2>2, <3>1 DEF FaultFree
    <2> QED
      BY <2>1, <2>2
  <1> QED
    BY <1>1, <1>2, <1>3, <1>4, ServerKeeps

\* A step that runs nothing.
LEMMA ServerFewer ==
  ASSUME TypeOK, TypeOK', AttemptsKnow, NEW m \in Links, NEW r, ServerStep(m, r), runs' = runs,
         \A c \in Cmds : m \in Pending(c)' => m \in Pending(c)
  PROVE  Fewer /\ RunsGrow
  <1>1. ASSUME NEW c \in Cmds PROVE Pending(c)' \subseteq Pending(c)
    <2>1. \A l \in Links : l # m => link'[l] = link[l]
      BY DEF ServerStep, TypeOK
    <2> QED
      BY <2>1 DEF Pending
  <1>2. ASSUME NEW c \in Cmds PROVE runs'[c] <= runs[c] /\ runs[c] <= runs'[c] /\ IsFiniteSet(Pending(c))
    BY DEF TypeOK, AttemptsKnow
  <1> QED
    BY <1>1, <1>2, Shrinks DEF Fewer, RunsGrow

\* What waits on a connection is one request.
LEMMA Waiting ==
  ASSUME TypeOK, LinksKnow, NEW m \in Links, link[m].toServer # << >>
  PROVE  /\ link[m].server = "read" /\ Head(link[m].toServer) \in Requests /\ Tail(link[m].toServer) = << >>
         /\ Head(link[m].toServer).cmd \in Cmds /\ Head(link[m].toServer).seq \in Nat
  <1>1. link[m].toServer \in Seq(Requests)
    BY Fields DEF LinkRecs
  <1>2. link[m].server = "read" /\ Len(link[m].toServer) = 1
    BY DEF LinksKnow, LinkKnows
  <1>3. Head(link[m].toServer) \in Requests
    BY <1>1, HeadTail
  <1>4. Tail(link[m].toServer) = << >>
    BY <1>1, <1>2, TailOfOne
  <1> QED
    BY <1>2, <1>3, <1>4 DEF Requests

LEMMA ReceiveKeeps ==
  ASSUME LinkInv, TypeOK', NEW m \in Links, Receive(m)
  PROVE  LinkInv'
  <1> USE DEF LinkInv
  <1>1. /\ link[m].server = "read" /\ link[m].toServer # << >>
        /\ UNCHANGED <<send, mu, client, runs, report, faults>>
    BY DEF Receive
  <1>2. PICK e \in Requests : e = Head(link[m].toServer) /\ Tail(link[m].toServer) = << >>
    BY <1>1, Waiting
  <1>3. e.cmd \in Cmds /\ e.seq \in Nat /\ link[m] \in LinkRecs /\ LinkKnows(m)
    BY Fields DEF Requests, LinksKnow
  <1>4. PICK r : /\ ServerStep(m, r)
                 /\ r = IF e.seq <= link[m].lastReq
                        THEN [NoConnection EXCEPT !.toClient = link[m].toClient]
                        ELSE [link[m] EXCEPT !.server = "submit", !.cmd = e.cmd,
                                             !.lastReq = e.seq, !.toServer = << >>]
    BY <1>1, <1>2 DEF Receive, ServerStep
  <1>5. link'[m] = r
    BY <1>4 DEF ServerStep, TypeOK
  \* A replayed number ends the goroutine.
  <1>6. CASE e.seq <= link[m].lastReq
    <2>1. /\ r.open = FALSE /\ r.server = "gone" /\ r.cmd = NoCmd /\ r.ok = FALSE
          /\ r.toServer = << >> /\ r.toClient = link[m].toClient
      BY <1>4, <1>6 DEF NoConnection
    <2>2. \A c \in Cmds : m \notin Pending(c)'
      BY <1>5, <2>1 DEF Pending
    <2>3. Fewer /\ RunsGrow
      BY <1>1, <1>4, <2>2, ServerFewer
    <2>4. LinkKnows(m)'
      BY <1>5, <2>1 DEF LinkKnows
    <2>5. client.conn # m
      <3> SUFFICES ASSUME client.conn = m PROVE FALSE
        OBVIOUS
      <3>1. ~Idle(m)
        BY <1>1 DEF Idle
      <3>2. PICK c \in Cmds : Busy(c, m)
        BY <3>1 DEF ClientKnows
      <3>3. e.seq = client.sentSeq /\ link[m].lastReq < client.sentSeq
        BY <1>1, <1>2, <3>2 DEF Busy
      <3> QED
        BY <1>3, <1>6, <3>3, Fields DEF LinkRecs
    <2> QED
      BY <1>1, <1>4, <2>3, <2>4, <2>5, ServerStepKeeps
  <1>7. CASE ~(e.seq <= link[m].lastReq)
    <2>1. /\ r.open = link[m].open /\ r.server = "submit" /\ r.cmd = e.cmd /\ r.ok = link[m].ok
          /\ r.toServer = << >> /\ r.toClient = link[m].toClient /\ r.lastReq = e.seq
          /\ r.ackSeq = link[m].ackSeq
      BY <1>3, <1>4, <1>7 DEF LinkRecs
    <2>2. \A c \in Cmds : m \in Pending(c)' => m \in Pending(c)
      BY <1>1, <1>2, <1>5, <2>1 DEF Pending
    <2>3. Fewer /\ RunsGrow
      BY <1>1, <1>4, <2>2, ServerFewer
    <2>4. LinkKnows(m)'
      BY <1>3, <1>5, <2>1 DEF LinkKnows
    <2>5. ASSUME client.conn = m
          PROVE  /\ \A c \in Cmds : send[c].pc = "read" => Busy(c, m)'
                 /\ (\A c \in Cmds : send[c].pc # "read") => Idle(m)'
      <3>1. ~Idle(m)
        BY <1>1 DEF Idle
      <3>2. ASSUME NEW c \in Cmds, send[c].pc = "read" PROVE Busy(c, m)'
        <4>1. Busy(c, m)
          BY <2>5, <3>2 DEF ClientKnows
        <4>2. e.seq = client.sentSeq /\ e.cmd = c
          BY <1>1, <1>2, <4>1 DEF Busy
        <4> QED
          BY <1>1, <1>5, <2>1, <4>1, <4>2, Fields DEF Busy, AtServer
      <3> QED
        BY <2>5, <3>1, <3>2 DEF ClientKnows
    <2>6. faults' = 0 /\ client.conn = m => r.open
      BY <1>1, <2>1 DEF FaultFree
    <2> QED
      BY <1>1, <1>4, <2>1, <2>3, <2>4, <2>5, <2>6, ServerStepKeeps
  <1> QED
    BY <1>6, <1>7

LEMMA SubmitsKeeps ==
  ASSUME LinkInv, TypeOK', NEW m \in Links, Submits(m)
  PROVE  LinkInv'
  <1> USE DEF LinkInv
  <1>1. link[m] \in LinkRecs /\ LinkKnows(m)
    BY Fields DEF LinksKnow
  <1>2. PICK ran \in {link[m].cmd, NoCmd}, ok \in BOOLEAN : SubmitThen(m, ran, ok) /\ (ok => ran = link[m].cmd)
    BY DEF Submits
  <1>3. /\ link[m].server = "submit" /\ UNCHANGED <<send, mu, client, report, faults>>
        /\ link[m].toServer = << >>
    BY <1>1, <1>2 DEF SubmitThen, LinkKnows
  <1>4. PICK d \in Cmds : d = link[m].cmd
    BY <1>1, <1>3 DEF LinkKnows
  <1>5. /\ \A c \in Cmds : c # d => runs'[c] = runs[c]
        /\ runs'[d] = runs[d] \/ runs'[d] = runs[d] + 1
        /\ ok => runs'[d] = runs[d] + 1
        /\ \A c \in Cmds : runs[c] \in Nat /\ runs'[c] \in Nat
    BY <1>2, <1>4, NoCmdIsNone DEF SubmitThen, TypeOK
  <1>6. PICK r : ServerStep(m, r) /\ r = [link[m] EXCEPT !.server = "ack", !.ok = ok]
    BY <1>2 DEF SubmitThen, ServerStep, TypeOK
  <1>7. link'[m] = r /\ \A l \in Links : l # m => link'[l] = link[l]
    BY <1>6 DEF ServerStep, TypeOK
  <1>8. /\ r.open = link[m].open /\ r.server = "ack" /\ r.cmd = d /\ r.ok = ok
        /\ r.toServer = << >> /\ r.toClient = link[m].toClient /\ r.lastReq = link[m].lastReq
        /\ r.ackSeq = link[m].ackSeq
    BY <1>1, <1>3, <1>4, <1>6 DEF LinkRecs
  <1>9. RunsGrow
    BY <1>5 DEF RunsGrow
  <1>10. Fewer
    <2>1. ASSUME NEW c \in Cmds PROVE Pending(c)' \subseteq Pending(c) \ {m} /\ IsFiniteSet(Pending(c))
      BY <1>7, <1>8 DEF Pending, AttemptsKnow
    <2>2. ASSUME NEW c \in Cmds, c # d PROVE IsFiniteSet(Pending(c)') /\ Used(c)' <= Used(c)
      BY <1>5, <2>1, <2>2, Shrinks
    <2>3. IsFiniteSet(Pending(d)') /\ Used(d)' <= Used(d)
      <3>1. PICK P : P = Pending(d)
        OBVIOUS
      <3>2. PICK Q : Q = Pending(d)'
        OBVIOUS
      <3>3. m \in P /\ IsFiniteSet(P)
        BY <1>3, <1>4, <2>1, <3>1 DEF Pending
      <3>4. IsFiniteSet(P \ {m}) /\ Cardinality(P \ {m}) = Cardinality(P) - 1 /\ Cardinality(P) \in Nat
        BY <3>3, FS_RemoveElement, FS_CardinalityType
      <3>5. Q \subseteq P \ {m}
        BY <2>1, <3>1, <3>2
      <3>6. IsFiniteSet(Q) /\ Cardinality(Q) <= Cardinality(P \ {m}) /\ Cardinality(Q) \in Nat
        BY <3>4, <3>5, FS_Subset, FS_CardinalityType
      <3>7. Used(d) = runs[d] + Cardinality(P) /\ Used(d)' = runs'[d] + Cardinality(Q)
        BY <3>1, <3>2 DEF Used
      <3> QED
        BY <1>5, <3>2, <3>4, <3>6, <3>7
    <2> QED
      BY <2>1, <2>2, <2>3 DEF Fewer
  <1>11. LinkKnows(m)'
    BY <1>5, <1>7, <1>8 DEF LinkKnows
  <1>12. ASSUME client.conn = m
         PROVE  /\ \A c \in Cmds : send[c].pc = "read" => Busy(c, m)'
                /\ (\A c \in Cmds : send[c].pc # "read") => Idle(m)'
    <2>1. ~Idle(m)
      BY <1>3 DEF Idle
    <2>2. ASSUME NEW c \in Cmds, send[c].pc = "read" PROVE Busy(c, m)'
      <3>1. Busy(c, m) /\ AtServer(m)
        BY <1>3, <1>12, <2>2 DEF ClientKnows, AtServer
      <3> QED
        BY <1>3, <1>4, <1>7, <1>8, <3>1 DEF Busy, AtServer
    <2> QED
      BY <1>12, <2>1, <2>2 DEF ClientKnows
  <1>13. faults' = 0 /\ client.conn = m => r.open
    BY <1>3, <1>8 DEF FaultFree
  <1> QED
    BY <1>3, <1>6, <1>8, <1>9, <1>10, <1>11, <1>12, <1>13, ServerStepKeeps

LEMMA AcknowledgeKeeps ==
  ASSUME LinkInv, TypeOK', NEW m \in Links, Acknowledge(m)
  PROVE  LinkInv'
  <1> USE DEF LinkInv
  <1>1. /\ link[m] \in LinkRecs /\ LinkKnows(m)
        /\ link[m].server = "ack" /\ link[m].toServer = << >>
        /\ UNCHANGED <<send, mu, client, runs, report, faults>>
    BY Fields DEF Acknowledge, LinksKnow, LinkKnows
  <1>2. PICK d \in Cmds, n \in Nat, ok \in BOOLEAN : d = link[m].cmd /\ n = link[m].ackSeq /\ ok = link[m].ok
    BY <1>1 DEF LinkKnows, LinkRecs
  <1>3. PICK a \in Acks : a = [seq |-> n + 1, cmd |-> d, ok |-> ok]
    <2>1. [seq |-> n + 1, cmd |-> d, ok |-> ok] \in Acks
      BY DEF Acks
    <2> QED
      BY <2>1
  <1>4. a.seq = n + 1 /\ a.cmd = d /\ a.ok = ok
    BY <1>3
  <1>5. PICK q \in Seq(Acks) : q = Append(link[m].toClient, a)
    <2>1. Append(link[m].toClient, a) \in Seq(Acks)
      BY <1>1 DEF LinkRecs
    <2> QED
      BY <2>1
  <1>6. PICK r : /\ ServerStep(m, r)
                 /\ r = IF link[m].open
                        THEN [link[m] EXCEPT !.server = "read", !.cmd = NoCmd, !.ok = FALSE,
                                             !.ackSeq = n + 1, !.toClient = q]
                        ELSE NoConnection
    BY <1>1, <1>2, <1>3, <1>5 DEF Acknowledge, ServerStep
  <1>7. link'[m] = r
    BY <1>6 DEF ServerStep, TypeOK
  <1>8. /\ r.toServer = << >> /\ r.server \in {"read", "gone"} /\ r.open = link[m].open
        /\ link[m].open => /\ r.server = "read" /\ r.ackSeq = n + 1 /\ r.toClient = q
                           /\ r.lastReq = link[m].lastReq
        /\ ~link[m].open => r.server = "gone" /\ r.toClient = << >>
    <2>1. CASE link[m].open
      BY <1>1, <1>6, <2>1 DEF LinkRecs
    <2>2. CASE ~link[m].open
      <3>1. r = NoConnection
        BY <1>6, <2>2
      <3> QED
        BY <1>1, <2>2, <3>1 DEF NoConnection, LinkRecs
    <2> QED
      BY <2>1, <2>2
  <1>9. \A c \in Cmds : m \notin Pending(c)'
    BY <1>7, <1>8 DEF Pending
  <1>10. Fewer /\ RunsGrow
    BY <1>1, <1>6, <1>9, ServerFewer
  <1>11. LinkKnows(m)'
    BY <1>7, <1>8 DEF LinkKnows
  <1>12. ASSUME client.conn = m
         PROVE  /\ \A c \in Cmds : send[c].pc = "read" => Busy(c, m)'
                /\ (\A c \in Cmds : send[c].pc # "read") => Idle(m)'
    <2>1. ~Idle(m)
      BY <1>1 DEF Idle
    <2>2. ASSUME NEW c \in Cmds, send[c].pc = "read" PROVE Busy(c, m)'
      <3>1. Busy(c, m) /\ AtServer(m)
        BY <1>1, <1>12, <2>2 DEF ClientKnows, AtServer
      <3>2. /\ link[m].toClient = << >> /\ n = client.lastAckSeq /\ client.sentSeq = n + 1 /\ d = c
            /\ link[m].lastReq <= client.sentSeq
        BY <1>1, <1>2, <3>1 DEF Busy
      <3>3. q # << >> /\ Len(q) = 1 /\ Head(q) = a
        <4>1. link[m].toClient \in Seq(Acks)
          BY <1>1 DEF LinkRecs
        <4> QED
          BY <1>5, <3>2, <4>1, AppendNone
      <3>4. ok => runs[c] > 0
        BY <1>1, <1>2, <3>2 DEF LinkKnows
      <3>5. UNCHANGED <<client, runs>>
        BY <1>1
      <3>6. ~AtServer(m)'
        BY <1>7, <1>8 DEF AtServer
      <3>7. CASE link[m].open
        BY <1>4, <1>7, <1>8, <3>1, <3>2, <3>3, <3>4, <3>5, <3>6, <3>7 DEF Busy
      <3>8. CASE ~link[m].open
        BY <1>7, <1>8, <3>1, <3>5, <3>6, <3>8 DEF Busy
      <3> QED
        BY <3>7, <3>8
    <2> QED
      BY <1>12, <2>1, <2>2 DEF ClientKnows
  <1>13. faults' = 0 /\ client.conn = m => r.open
    BY <1>1, <1>8 DEF FaultFree
  <1> QED
    BY <1>1, <1>6, <1>10, <1>11, <1>12, <1>13, ServerStepKeeps

LEMMA StopReadingKeeps ==
  ASSUME LinkInv, TypeOK', NEW m \in Links, StopReading(m)
  PROVE  LinkInv'
  <1> USE DEF LinkInv
  <1>1. /\ link[m] \in LinkRecs /\ link[m].server = "read" /\ link[m].toServer = << >>
        /\ UNCHANGED <<send, mu, client, runs, report, faults>>
    BY Fields DEF StopReading
  <1>2. PICK r : ServerStep(m, r) /\ r = [NoConnection EXCEPT !.toClient = link[m].toClient]
    BY DEF StopReading, ServerStep
  <1>3. link'[m] = r
    BY <1>2 DEF ServerStep, TypeOK
  <1>4. /\ r.open = FALSE /\ r.server = "gone" /\ r.toServer = << >> /\ r.toClient = link[m].toClient
    BY <1>2 DEF NoConnection
  <1>5. \A c \in Cmds : m \notin Pending(c)'
    BY <1>3, <1>4 DEF Pending
  <1>6. Fewer /\ RunsGrow
    BY <1>1, <1>2, <1>5, ServerFewer
  <1>7. LinkKnows(m)'
    BY <1>3, <1>4 DEF LinkKnows
  <1>8. ASSUME client.conn = m
        PROVE  /\ \A c \in Cmds : send[c].pc = "read" => Busy(c, m)'
               /\ (\A c \in Cmds : send[c].pc # "read") => Idle(m)'
    <2>1. ASSUME NEW c \in Cmds, send[c].pc = "read" PROVE Busy(c, m)'
      <3>1. Busy(c, m)
        BY <1>8, <2>1 DEF ClientKnows
      <3> QED
        BY <1>1, <1>3, <1>4, <3>1 DEF Busy, AtServer
    <2>2. ASSUME \A c \in Cmds : send[c].pc # "read" PROVE Idle(m)'
      <3>1. Idle(m)
        BY <1>8, <2>2 DEF ClientKnows
      <3> QED
        BY <1>1, <1>3, <1>4, <3>1 DEF Idle
    <2> QED
      BY <2>1, <2>2
  <1>9. ASSUME faults' = 0, client.conn = m, NEW c \in Cmds, send[c].pc = "read", Used(c) > 0, ~send[c].expired
        PROVE  r.toClient # << >>
    <2>1. Busy(c, m)
      BY <1>9 DEF ClientKnows
    <2>2. link[m].open \/ link[m].toClient # << >>
      BY <1>1, <1>9 DEF FaultFree
    <2>3. ~AtServer(m)
      BY <1>1 DEF AtServer
    <2> QED
      BY <1>4, <2>1, <2>2, <2>3 DEF Busy
  <1> QED
    BY <1>1, <1>2, <1>4, <1>6, <1>7, <1>8, <1>9, ServerStepKeeps

LEMMA LinkLostKeeps ==
  ASSUME LinkInv, TypeOK', NEW m \in Links, LinkLost(m)
  PROVE  LinkInv'
  <1> USE DEF LinkInv
  <1>1. /\ link[m] \in LinkRecs /\ LinkKnows(m)
        /\ faults' = faults + 1 /\ UNCHANGED <<send, mu, client, runs, report>>
    BY Fields DEF LinkLost, LinksKnow
  <1>2. PICK p \in {<< >>, link[m].toServer}, q \in {<< >>, link[m].toClient} :
          link' = [link EXCEPT ![m] = [@ EXCEPT !.open = FALSE, !.toServer = p, !.toClient = q]]
    BY DEF LinkLost
  <1>3. PICK r : ServerStep(m, r) /\ r = [link[m] EXCEPT !.open = FALSE, !.toServer = p, !.toClient = q]
    BY <1>1, <1>2 DEF ServerStep, TypeOK
  <1>4. link'[m] = r
    BY <1>3 DEF ServerStep, TypeOK
  <1>5. /\ r.open = FALSE /\ r.server = link[m].server /\ r.cmd = link[m].cmd /\ r.ok = link[m].ok
        /\ r.lastReq = link[m].lastReq /\ r.ackSeq = link[m].ackSeq /\ r.toServer = p /\ r.toClient = q
    BY <1>1, <1>3 DEF LinkRecs
  <1>6. \A c \in Cmds : m \in Pending(c)' => m \in Pending(c)
    BY <1>2, <1>4, <1>5 DEF Pending
  <1>7. Fewer /\ RunsGrow
    BY <1>1, <1>3, <1>6, ServerFewer
  <1>8. LinkKnows(m)'
    BY <1>1, <1>2, <1>4, <1>5 DEF LinkKnows
  <1>9. ASSUME client.conn = m
        PROVE  /\ \A c \in Cmds : send[c].pc = "read" => Busy(c, m)'
               /\ (\A c \in Cmds : send[c].pc # "read") => Idle(m)'
    <2>1. ASSUME NEW c \in Cmds, send[c].pc = "read" PROVE Busy(c, m)'
      <3>1. Busy(c, m)
        BY <1>9, <2>1 DEF ClientKnows
      <3>2. /\ p # << >> => p = link[m].toServer
            /\ q # << >> => q = link[m].toClient
        BY <1>2
      <3>3. AtServer(m)' => AtServer(m)
        BY <1>4, <1>5, <3>2 DEF AtServer
      <3> QED
        BY <1>1, <1>4, <1>5, <3>1, <3>2, <3>3 DEF Busy
    <2>2. ASSUME \A c \in Cmds : send[c].pc # "read" PROVE Idle(m)'
      <3>1. Idle(m)
        BY <1>9, <2>2 DEF ClientKnows
      <3> QED
        BY <1>1, <1>2, <1>4, <1>5, <3>1 DEF Idle
    <2> QED
      BY <2>1, <2>2
  <1>10. faults' # 0
    BY <1>1, ConstantsAssumption DEF TypeOK
  <1> QED
    BY <1>1, <1>3, <1>7, <1>8, <1>9, <1>10, ServerStepKeeps

LEMMA ExecutorStopsKeeps ==
  ASSUME LinkInv, TypeOK', ExecutorStops
  PROVE  LinkInv'
  <1> USE DEF LinkInv
  <1>1. /\ faults' = faults + 1 /\ UNCHANGED <<send, mu, client, report>>
        /\ link' = [l \in Links |-> NoConnection]
    BY DEF ExecutorStops
  <1>2. PICK done \in SUBSET {l \in Links : link[l].server = "submit"} :
          /\ IsFiniteSet(done)
          /\ runs' = [c \in Cmds |-> runs[c] + Cardinality({l \in done : link[l].cmd = c})]
    BY DEF ExecutorStops
  <1>3. \A l \in Links : /\ link'[l].server = "gone" /\ link'[l].open = FALSE
                         /\ link'[l].toServer = << >> /\ link'[l].toClient = << >> /\ link'[l].ok = FALSE
    BY <1>1 DEF NoConnection
  <1>4. ASSUME NEW c \in Cmds
        PROVE  /\ runs[c] \in Nat /\ Cardinality({l \in done : link[l].cmd = c}) \in Nat
               /\ runs'[c] = runs[c] + Cardinality({l \in done : link[l].cmd = c})
               /\ runs'[c] \in Nat
               /\ {l \in done : link[l].cmd = c} \subseteq Pending(c)
    <2>1. runs[c] \in Nat /\ runs'[c] = runs[c] + Cardinality({l \in done : link[l].cmd = c})
      BY <1>2 DEF TypeOK
    <2>2. Cardinality({l \in done : link[l].cmd = c}) \in Nat
      BY <1>2, FS_Subset, FS_CardinalityType
    <2>3. {l \in done : link[l].cmd = c} \subseteq Pending(c)
      BY <1>2 DEF Pending
    <2> QED
      BY <2>1, <2>2, <2>3
  <1>5. RunsGrow
    <2>1. ASSUME NEW c \in Cmds PROVE runs'[c] >= runs[c]
      <3>1. PICK n : n = Cardinality({l \in done : link[l].cmd = c})
        OBVIOUS
      <3>2. n \in Nat /\ runs[c] \in Nat /\ runs'[c] = runs[c] + n
        BY <1>4, <3>1
      <3> QED
        BY ONLY <3>2
    <2> QED
      BY <2>1, <1>4 DEF RunsGrow
  <1>6. Fewer
    <2>1. ASSUME NEW c \in Cmds
          PROVE  IsFiniteSet(Pending(c)') /\ Pending(c)' \subseteq Pending(c) /\ Used(c)' <= Used(c)
      <3>1. Pending(c)' = {}
        BY <1>3 DEF Pending
      <3>2. IsFiniteSet(Pending(c)') /\ Cardinality(Pending(c)') = 0
        BY <3>1, FS_EmptySet
      <3>3. PICK P : P = Pending(c)
        OBVIOUS
      <3>4. IsFiniteSet(P) /\ Cardinality(P) \in Nat
        BY <3>3, FS_CardinalityType DEF AttemptsKnow
      <3>5. Cardinality({l \in done : link[l].cmd = c}) <= Cardinality(P)
        BY <1>4, <3>3, <3>4, FS_Subset
      <3>6. Used(c) = runs[c] + Cardinality(P) /\ Used(c)' = runs'[c] + Cardinality(Pending(c)')
        BY <3>3 DEF Used
      <3> QED
        BY <1>4, <3>1, <3>2, <3>4, <3>5, <3>6
    <2> QED
      BY <2>1 DEF Fewer
  <1>7. LinksKnow'
    BY <1>3 DEF LinksKnow, LinkKnows
  <1>8. ClientKnows'
    <2>1. ASSUME NEW m \in Links, client.conn = m, NEW c \in Cmds, send[c].pc = "read" PROVE Busy(c, m)'
      <3>1. Busy(c, m)
        BY <2>1 DEF ClientKnows
      <3> QED
        BY <1>1, <1>3, <3>1 DEF Busy, AtServer
    <2>2. ASSUME NEW m \in Links, client.conn = m, \A c \in Cmds : send[c].pc # "read" PROVE Idle(m)'
      <3>1. Idle(m)
        BY <2>2 DEF ClientKnows
      <3> QED
        BY <1>1, <1>3, <3>1 DEF Idle
    <2> QED
      BY <1>1, <2>1, <2>2 DEF ClientKnows
  <1>9. faults' # 0
    BY <1>1, ConstantsAssumption DEF TypeOK
  <1> QED
    BY <1>1, <1>5, <1>6, <1>7, <1>8, <1>9, ServerKeeps

LEMMA LinkNextKeeps ==
  ASSUME LinkInv, [LinkNext]_vars
  PROVE  LinkInv'
  <1>1. CASE LinkNext
    <2>1. TypeOK'
      BY <1>1, TypeNext DEF LinkInv
    <2>2. CASE \E c \in Cmds : Lock(c) \/ DeadlinePasses(c) \/ SendStep(c) \/ Rejects(c)
      <3>1. PICK c \in Cmds : Lock(c) \/ DeadlinePasses(c) \/ SendStep(c) \/ Rejects(c)
        BY <2>2
      <3>2. CASE Lock(c) \/ DeadlinePasses(c) \/ Connected(c) \/ Rejects(c)
        BY <2>1, <3>2, QuietKeeps
      <3>3. CASE Dial(c)
        BY <2>1, <3>3, DialKeeps
      <3>4. CASE DialFails(c)
        BY <2>1, <3>4, DialFailsKeeps
      <3>5. CASE Write(c)
        BY <2>1, <3>5, WriteKeeps
      <3>6. CASE WriteFails(c) \/ ReadFails(c)
        BY <2>1, <3>6, DropKeeps
      <3>7. CASE ReadAck(c)
        BY <2>1, <3>7, ReadAckKeeps
      <3> QED
        BY <3>1, <3>2, <3>3, <3>4, <3>5, <3>6, <3>7 DEF SendStep
    <2>3. CASE \E l \in Links : Receive(l) \/ Submits(l) \/ Acknowledge(l) \/ StopReading(l) \/ LinkLost(l)
      <3>1. PICK l \in Links : Receive(l) \/ Submits(l) \/ Acknowledge(l) \/ StopReading(l) \/ LinkLost(l)
        BY <2>3
      <3> QED
        BY <2>1, <3>1, ReceiveKeeps, SubmitsKeeps, AcknowledgeKeeps, StopReadingKeeps, LinkLostKeeps
    <2>4. CASE ExecutorStops
      BY <2>1, <2>4, ExecutorStopsKeeps
    <2> QED
      BY <1>1, <2>2, <2>3, <2>4 DEF LinkNext
  <1>2. CASE UNCHANGED vars
    <2>1. UNCHANGED <<send, mu, client, link, runs, report, faults>>
      BY <1>2 DEF vars
    <2>2. TypeOK'
      BY <2>1 DEF LinkInv, TypeOK
    <2>3. SendsKnow' /\ AnswerIsForCommand' /\ NoFalseReplay'
      BY <2>1 DEF LinkInv, SendsKnow, AnswerIsForCommand, NoFalseReplay
    <2>4. LinksKnow'
      BY <2>1 DEF LinkInv, LinksKnow, LinkKnows
    <2>5. ClientKnows'
      BY <2>1 DEF LinkInv, ClientKnows, Busy, Idle, AtServer
    <2>6. \A c \in Cmds : Pending(c)' = Pending(c) /\ Used(c)' = Used(c) /\ Attempts(c)' = Attempts(c)
      BY <2>1 DEF Pending, Used, Attempts
    <2>7. AttemptsKnow' /\ FaultFree'
      BY <2>1, <2>6 DEF LinkInv, AttemptsKnow, FaultFree
    <2> QED
      BY <2>2, <2>3, <2>4, <2>5, <2>7 DEF LinkInv
  <1> QED
    BY <1>1, <1>2

LEMMA LinkInitHolds ==
  ASSUME NEW cmds, NEW past \in 0..MaxFaults, LinkInit(cmds, past)
  PROVE  LinkInv
  <1> USE DEF LinkInit
  <1>1. TypeOK
    <2>1. link \in [Links -> LinkRecs]
      BY EmptyLink
    <2>2. send \in [Cmds -> SendRecs]
      BY DEF SendRecs
    <2> QED
      BY <2>1, <2>2 DEF TypeOK, NoReport
  <1>2. /\ \A c \in Cmds : /\ send[c].pc \in {"start", "done"} /\ send[c].attempt = 1
                           /\ report[c] = NoReport /\ report[c].id = "none" /\ report[c].ok = FALSE /\ runs[c] = 0
        /\ mu = NoCmd /\ client.conn = NoLink
    BY DEF NoReport
  <1>3. \A l \in Links : /\ link[l].open = FALSE /\ link[l].server = "gone" /\ link[l].toServer = << >>
                         /\ link[l].toClient = << >>
    BY DEF NoConnection
  <1>4. SendsKnow
    BY <1>2, NoCmdIsNone DEF SendsKnow
  <1>5. LinksKnow
    BY <1>3 DEF LinksKnow, LinkKnows
  <1>6. ClientKnows
    BY <1>2, ConstantsAssumption DEF ClientKnows
  <1>7. \A c \in Cmds : IsFiniteSet(Pending(c)) /\ Pending(c) = {} /\ Used(c) = 0 /\ Attempts(c) = 0
    <2>1. ASSUME NEW c \in Cmds PROVE Pending(c) = {}
      BY <1>3 DEF Pending
    <2>2. IsFiniteSet({}) /\ Cardinality({}) = 0
      BY FS_EmptySet
    <2>3. \A c \in Cmds : Attempts(c) = 0
      BY <1>2 DEF Attempts
    <2>4. \A c \in Cmds : Used(c) = 0
      BY <1>2, <2>1, <2>2 DEF Used
    <2>5. \A c \in Cmds : IsFiniteSet(Pending(c))
      BY <2>1, <2>2
    <2> QED
      BY <2>1, <2>3, <2>4, <2>5
  <1>8. AttemptsKnow
    BY <1>2, <1>7 DEF AttemptsKnow
  <1>9. FaultFree
    BY <1>2, <1>7, ConstantsAssumption DEF FaultFree
  <1>10. AnswerIsForCommand /\ NoFalseReplay
    BY <1>2, ConstantsAssumption DEF AnswerIsForCommand, NoFalseReplay
  <1> QED
    BY <1>1, <1>4, <1>5, <1>6, <1>8, <1>9, <1>10 DEF LinkInv

LEMMA TwiceFromAttempts ==
  ASSUME LinkInv
  PROVE  AtMostTwice
  <1> SUFFICES ASSUME NEW c \in Cmds PROVE runs[c] <= IF faults = 0 THEN 1 ELSE 2
    BY DEF AtMostTwice
  <1>1. /\ Used(c) <= Attempts(c) /\ Attempts(c) \in 0..2
        /\ runs[c] \in Nat /\ Cardinality(Pending(c)) \in Nat
        /\ faults = 0 => Used(c) <= 1
    BY AttemptsInt, UsedNat DEF LinkInv, AttemptsKnow, FaultFree
  <1>2. runs[c] <= Used(c)
    BY <1>1 DEF Used
  <1> QED
    BY <1>1, <1>2, UsedNat DEF Used

\* The invariant of the link, for every number of commands and connections: it holds at
\* the start and every step of Send, of a server goroutine and of the network keeps it.
THEOREM LinkInductive == Spec => []LinkInv
  <1>1. Init => LinkInv
    BY LinkInitHolds, ConstantsAssumption DEF Init
  <1>2. LinkInv /\ [Next]_vars => LinkInv'
    <2>1. [Next]_vars => [LinkNext]_vars
      BY DEF Next, LinkNext, Submit, Submits
    <2> QED
      BY <2>1, LinkNextKeeps
  <1> QED
    BY <1>1, <1>2, PTL DEF Spec

\* What Send hands to chat is the executor's answer to the command it was called with, and
\* a success only of one that has run, whatever connections are lost in between.
THEOREM AnswersMatch == Spec => []AnswerIsForCommand
  <1>1. LinkInv => AnswerIsForCommand
    BY DEF LinkInv
  <1> QED
    BY <1>1, LinkInductive, PTL

\* A command runs at most twice, and once if no connection is lost under it and the
\* executor does not stop (client.go's claim of its retry).
THEOREM RunsAtMostTwice == Spec => []AtMostTwice
  <1> QED
    BY TwiceFromAttempts, LinkInductive, PTL

\* No honest acknowledgement is taken for a replay, across reconnections too.
THEOREM AnswersAreNew == Spec => []NoFalseReplay
  <1>1. LinkInv => NoFalseReplay
    BY DEF LinkInv
  <1> QED
    BY <1>1, LinkInductive, PTL

-----------------------------------------------------------------------------
(* OverseerCommands: the same link, with what is typed and what the game does. *)

\* A parsed line and what Submit makes of it have a kind.
LEMMA WhenKind ==
  ASSUME NEW p, NEW a, "kind" \in DOMAIN a
  PROVE  "kind" \in DOMAIN When(p, a)
  BY DEF When, Silence

LEMMA ParseKind == \A line : "kind" \in DOMAIN ParseCommand(line)
  <1>1. "kind" \in DOMAIN Silence /\ "kind" \in DOMAIN Reply
    BY DEF Silence, Reply
  <1>2. \A kind, item, ts : "kind" \in DOMAIN ParseRegionVerb(kind, item, ts)
    BY WhenKind DEF ParseRegionVerb
  <1>3. \A kind, items, ts : "kind" \in DOMAIN ParseArea(kind, items, ts)
    BY <1>2, WhenKind DEF ParseArea
  <1>4. \A kind, item, ts : "kind" \in DOMAIN ParsePosition(kind, item, ts)
    BY WhenKind DEF ParsePosition
  <1>5. \A ts : "kind" \in DOMAIN ParseManufacture(ts)
    BY WhenKind DEF ParseManufacture
  <1>6. \A ts : "kind" \in DOMAIN ParseTaskat(ts)
    BY WhenKind DEF ParseTaskat
  <1>7. \A ts : "kind" \in DOMAIN ParseBrew(ts)
    BY WhenKind DEF ParseBrew
  <1>8. \A ts : "kind" \in DOMAIN ParsePlace(ts)
    BY <1>4, WhenKind DEF ParsePlace
  <1>9. \A ts : "kind" \in DOMAIN ParseAppoint(ts)
    BY <1>1, WhenKind DEF ParseAppoint
  <1>10. \A ts : /\ "kind" \in DOMAIN ParsePause(ts) /\ "kind" \in DOMAIN ParseUnpause(ts)
                 /\ "kind" \in DOMAIN ParseHelp(ts)
    BY <1>1, WhenKind DEF ParsePause, ParseUnpause, ParseHelp
  <1>11. \A ts : /\ "kind" \in DOMAIN ParseMine(ts) /\ "kind" \in DOMAIN ParseChannel(ts)
                 /\ "kind" \in DOMAIN ParseDigRamp(ts) /\ "kind" \in DOMAIN ParseCutTree(ts)
                 /\ "kind" \in DOMAIN ParseStockpile(ts) /\ "kind" \in DOMAIN ParseZone(ts)
                 /\ "kind" \in DOMAIN ParseCamera(ts)
    BY <1>2, <1>3, <1>4 DEF ParseMine, ParseChannel, ParseDigRamp, ParseCutTree, ParseStockpile, ParseZone, ParseCamera
  <1> QED
    BY <1>1, <1>5, <1>6, <1>7, <1>8, <1>9, <1>10, <1>11 DEF ParseCommand

\* A success of pause or unpause is told as what it does to the game, and nothing else
\* touches the flag.
LEMMA ReplyIsAfter ==
  ASSUME NEW a, "kind" \in DOMAIN a, NEW flag
  PROVE  After(Submitted(a), flag) = SuccessReply(a, flag)
  <1>1. CASE a.kind \in {"pause", "unpause"}
    BY <1>1 DEF After, SuccessReply, Submitted, SubmitPause
  <1>2. CASE a.kind \notin {"pause", "unpause"}
    <2>1. Refused.kind \notin {"pause", "unpause"}
      BY DEF Refused
    <2>2. \A x : [a EXCEPT !.item = x].kind = a.kind
      OBVIOUS
    <2>3. \A tiles : SubmitOver(a, tiles).kind = a.kind
      BY DEF SubmitOver
    <2>4. SubmitRegion(a).kind = a.kind
      BY <2>3 DEF SubmitRegion
    <2>5. \A name, names, op : op.kind = a.kind => Known(name, names, op).kind \notin {"pause", "unpause"}
      BY <1>2, <2>1 DEF Known
    <2>6. /\ SubmitManufacture(a).kind \notin {"pause", "unpause"}
          /\ SubmitTaskat(a).kind \notin {"pause", "unpause"}
      BY <1>2, <2>1, <2>2 DEF SubmitManufacture, SubmitTaskat
    <2>7. /\ SubmitPlace(a).kind \notin {"pause", "unpause"}
          /\ SubmitBrew(a).kind \notin {"pause", "unpause"}
          /\ SubmitAppoint(a).kind \notin {"pause", "unpause"}
          /\ SubmitStockpile(a).kind \notin {"pause", "unpause"}
          /\ SubmitZone(a).kind \notin {"pause", "unpause"}
      BY <2>2, <2>4, <2>5 DEF SubmitPlace, SubmitBrew, SubmitAppoint, SubmitStockpile, SubmitZone
    <2>8. SubmitCamera(a) = a /\ SubmitCutTree(a).kind = a.kind
      BY <2>4 DEF SubmitCamera, SubmitCutTree
    <2>9. Submitted(a).kind \notin {"pause", "unpause"}
      BY <1>2, <2>1, <2>4, <2>6, <2>7, <2>8 DEF Submitted
    <2> QED
      BY <1>2, <2>9 DEF After, SuccessReply
  <1> QED
    BY <1>1, <1>2

LEMMA StepIsLink ==
  ASSUME TypedKnows, [CommandsNext]_cvars
  PROVE  [LinkNext]_vars
  <1>1. \A c \in DOMAIN action : c \in Cmds
    BY DEF TypedKnows
  <1>2. CASE \E c \in DOMAIN action : Rejected(c) \/ Locks(c) \/ Sends(c) \/ Deadline(c)
    BY <1>1, <1>2 DEF Rejected, Locks, Sends, Deadline, Rejects, LinkNext
  <1>3. CASE \E l \in Links : Refuses(l) \/ Runs(l) \/ Transports(l)
    BY <1>3 DEF Refuses, Runs, Transports, LinkNext, Submits
  <1>4. CASE Stops
    BY <1>4 DEF Stops, LinkNext
  <1>5. CASE UNCHANGED cvars
    BY <1>5 DEF cvars
  <1> QED
    BY <1>2, <1>3, <1>4, <1>5 DEF CommandsNext

\* One command's step of Send leaves the others alone and is none of a Send that has returned.
LEMMA OthersStay ==
  ASSUME TypeOK, NEW c \in Cmds, Lock(c) \/ DeadlinePasses(c) \/ SendStep(c) \/ Rejects(c)
  PROVE  /\ \A d \in Cmds : d # c => send'[d] = send[d] /\ report'[d] = report[d]
         /\ send[c].pc # "done" /\ send'[c].attempt \in 1..2 /\ send[c].attempt <= send'[c].attempt
  <1>1. CASE Lock(c)
    BY <1>1 DEF Lock, TypeOK, SendRecs
  <1>2. CASE DeadlinePasses(c)
    BY <1>2 DEF DeadlinePasses, TypeOK, SendRecs
  <1>3. CASE Rejects(c)
    BY <1>3 DEF Rejects, TypeOK, SendRecs
  <1>5. CASE Connected(c)
    BY <1>5 DEF Connected, TypeOK, SendRecs
  <1>6. CASE Dial(c) \/ Write(c)
    <2>1. PICK from \in {"connect", "write"}, to \in {"write", "read"} :
            send[c].pc = from /\ send' = [send EXCEPT ![c].pc = to] /\ report' = report
      <3>1. CASE Dial(c)
        BY <3>1 DEF Dial, DialWith
      <3>2. CASE Write(c)
        BY <3>2 DEF Write
      <3> QED
        BY <1>6, <3>1, <3>2
    <2> QED
      BY <2>1 DEF TypeOK, SendRecs
  <1>7. CASE DialFails(c)
    BY <1>7 DEF DialFails, Return, TypeOK, SendRecs
  <1>8. CASE WriteFails(c) \/ ReadFails(c)
    <2>1. DropAndRetry(c, 2) /\ send[c].pc \in {"write", "read"}
      BY <1>8 DEF WriteFails, ReadFails, ReadFailsWhen
    <2>2. CASE send[c].attempt < 2
      <3>1. send' = [send EXCEPT ![c] = [@ EXCEPT !.pc = "connect", !.attempt = send[c].attempt + 1]] /\ report' = report
        BY <2>1, <2>2 DEF DropAndRetry
      <3> QED
        BY <2>1, <2>2, <3>1 DEF TypeOK, SendRecs
    <2>3. CASE ~(send[c].attempt < 2)
      <3>1. Return(c, "transport", FALSE)
        BY <2>1, <2>3 DEF DropAndRetry
      <3> QED
        BY <2>1, <3>1 DEF Return, TypeOK, SendRecs
    <2> QED
      BY <2>2, <2>3
  <1>4. CASE ReadAck(c)
    <2>1. PICK id, ok : Return(c, id, ok)
      BY <1>4 DEF ReadAck
    <2> QED
      BY <1>4, <2>1 DEF ReadAck, Return, TypeOK, SendRecs
  <1> QED
    BY <1>1, <1>2, <1>3, <1>4, <1>5, <1>6, <1>7, <1>8 DEF SendStep

\* What the steps of a command have in common, and those of the executor.
LEMMA CommandStep ==
  ASSUME TypeOK, TypedKnows, NEW c \in DOMAIN action, Rejected(c) \/ Locks(c) \/ Sends(c) \/ Deadline(c)
  PROVE  /\ c \in Cmds /\ UNCHANGED <<action, wish, asked, paused>>
         /\ \A d \in Cmds : d # c => send'[d] = send[d] /\ report'[d] = report[d]
         /\ send[c].pc # "done" /\ send'[c].attempt \in 1..2 /\ send[c].attempt <= send'[c].attempt
  <1>1. c \in Cmds
    BY DEF TypedKnows
  <1>2. Lock(c) \/ DeadlinePasses(c) \/ SendStep(c) \/ Rejects(c)
    BY DEF Rejected, Locks, Sends, Deadline, Rejects
  <1>3. UNCHANGED <<action, wish, asked, paused>>
    BY DEF Rejected, Locks, Sends, Deadline, game
  <1> QED
    BY <1>1, <1>2, <1>3, OthersStay

LEMMA ServerFrame ==
  ASSUME (\E l \in Links : Refuses(l) \/ Runs(l) \/ Transports(l)) \/ Stops
  PROVE  UNCHANGED <<send, mu, client, report, action, wish, told>>
  BY DEF Refuses, Runs, Transports, Stops, SubmitThen, Receive, Acknowledge, StopReading, LinkLost,
         ExecutorStops, game

LEMMA TypedNext ==
  ASSUME TypeOK, TypedKnows, [CommandsNext]_cvars
  PROVE  TypedKnows' /\ UNCHANGED <<action, wish>>
  <1>1. CASE \E c \in DOMAIN action : Rejected(c) \/ Locks(c) \/ Sends(c) \/ Deadline(c)
    BY <1>1, CommandStep DEF TypedKnows
  <1>2. CASE \E l \in Links : Refuses(l) \/ Runs(l) \/ Transports(l)
    <2>1. UNCHANGED <<send, report, action, wish>>
      BY <1>2, ServerFrame
    <2>2. DOMAIN asked' = DOMAIN asked
      BY <1>2 DEF Refuses, Runs, Transports, game
    <2> QED
      BY <2>1, <2>2 DEF TypedKnows
  <1>3. CASE Stops
    <2>1. UNCHANGED <<send, report, action, wish>>
      BY <1>3, ServerFrame
    <2>2. DOMAIN asked' = Cmds
      BY <1>3 DEF Stops
    <2> QED
      BY <2>1, <2>2 DEF TypedKnows
  <1>4. CASE UNCHANGED cvars
    BY <1>4 DEF cvars, vars, game, TypedKnows
  <1> QED
    BY <1>1, <1>2, <1>3, <1>4 DEF CommandsNext

\* What the steps between the connection's ends move.
LEMMA TransportsMove ==
  ASSUME LinkInv, NEW m \in Links, Receive(m) \/ Acknowledge(m) \/ StopReading(m) \/ LinkLost(m)
  PROVE  /\ \A l \in Links : l # m => link'[l] = link[l]
         /\ UNCHANGED <<send, mu, client, runs, report>>
         /\ link'[m].server = "ack" =>
              link[m].server = "ack" /\ link'[m].cmd = link[m].cmd /\ link'[m].ok = link[m].ok
         /\ link'[m].toServer # << >> \/ link'[m].server = "submit" =>
              link[m].toServer # << >> \/ link[m].server = "submit"
         /\ link'[m].toClient # << >> =>
              \/ link'[m].toClient = link[m].toClient
              \/ /\ link[m].server = "ack"
                 /\ link'[m].toClient = Append(link[m].toClient,
                      [seq |-> link[m].ackSeq + 1, cmd |-> link[m].cmd, ok |-> link[m].ok])
  <1>1. link[m] \in LinkRecs
    BY Fields DEF LinkInv
  <1>2. CASE Receive(m)
    <2>1. PICK r : /\ link' = [link EXCEPT ![m] = r] /\ UNCHANGED <<send, mu, client, runs, report>>
                   /\ link[m].toServer # << >>
                   /\ \/ r = [NoConnection EXCEPT !.toClient = link[m].toClient]
                      \/ \E cmd, seq, q : r = [link[m] EXCEPT !.server = "submit", !.cmd = cmd, !.lastReq = seq, !.toServer = q]
      BY <1>2 DEF Receive
    <2>2. /\ r.server # "ack" /\ r.toClient = link[m].toClient
      BY <1>1, <2>1 DEF NoConnection, LinkRecs
    <2> QED
      BY <2>1, <2>2 DEF LinkInv, TypeOK
  <1>3. CASE Acknowledge(m)
    <2>1. PICK q : q = Append(link[m].toClient, [seq |-> link[m].ackSeq + 1, cmd |-> link[m].cmd, ok |-> link[m].ok])
      OBVIOUS
    <2>2. PICK n : n = link[m].ackSeq + 1
      OBVIOUS
    <2>3. PICK r : /\ link' = [link EXCEPT ![m] = r] /\ UNCHANGED <<send, mu, client, runs, report>>
                   /\ link[m].server = "ack"
                   /\ \/ r = NoConnection
                      \/ r = [link[m] EXCEPT !.server = "read", !.cmd = NoCmd, !.ok = FALSE, !.ackSeq = n, !.toClient = q]
      BY <1>3, <2>1, <2>2 DEF Acknowledge
    <2>4. /\ r.server \in {"read", "gone"} /\ (r.toClient # << >> => r.toClient = q)
          /\ r.toServer # << >> => r.toServer = link[m].toServer
      <3>1. CASE r = NoConnection
        BY <3>1 DEF NoConnection
      <3>2. CASE r = [link[m] EXCEPT !.server = "read", !.cmd = NoCmd, !.ok = FALSE, !.ackSeq = n, !.toClient = q]
        BY <1>1, <3>2 DEF LinkRecs
      <3> QED
        BY <2>3, <3>1, <3>2
    <2> QED
      BY <2>1, <2>3, <2>4 DEF LinkInv, TypeOK
  <1>4. CASE StopReading(m)
    <2>1. PICK r : /\ link' = [link EXCEPT ![m] = r] /\ UNCHANGED <<send, mu, client, runs, report>>
                   /\ r = [NoConnection EXCEPT !.toClient = link[m].toClient]
      BY <1>4 DEF StopReading
    <2>2. r.server = "gone" /\ r.toServer = << >> /\ r.toClient = link[m].toClient
      BY <2>1 DEF NoConnection
    <2> QED
      BY <2>1, <2>2 DEF LinkInv, TypeOK
  <1>5. CASE LinkLost(m)
    <2>1. PICK p \in {<< >>, link[m].toServer}, q \in {<< >>, link[m].toClient} :
            link' = [link EXCEPT ![m] = [@ EXCEPT !.open = FALSE, !.toServer = p, !.toClient = q]]
      BY <1>5 DEF LinkLost
    <2>2. PICK r : link' = [link EXCEPT ![m] = r] /\ r = [link[m] EXCEPT !.open = FALSE, !.toServer = p, !.toClient = q]
      BY <2>1 DEF LinkInv, TypeOK
    <2>3. /\ r.server = link[m].server /\ r.cmd = link[m].cmd /\ r.ok = link[m].ok
          /\ r.toServer = p /\ r.toClient = q
      BY <1>1, <2>2 DEF LinkRecs
    <2>4. UNCHANGED <<send, mu, client, runs, report>>
      BY <1>5 DEF LinkLost
    <2> QED
      BY <2>1, <2>2, <2>3, <2>4 DEF LinkInv, TypeOK
  <1> QED
    BY <1>2, <1>3, <1>4, <1>5

\* What dfhack-run or the refusal leaves on the connection.
LEMMA SubmitMoves ==
  ASSUME LinkInv, NEW m \in Links, NEW ran, NEW ok, SubmitThen(m, ran, ok)
  PROVE  /\ \A l \in Links : l # m => link'[l] = link[l]
         /\ UNCHANGED <<send, mu, client, report>>
         /\ link[m].server = "submit" /\ link[m].cmd \in Cmds /\ link[m].toServer = << >>
         /\ link'[m].server = "ack" /\ link'[m].cmd = link[m].cmd /\ link'[m].ok = ok
         /\ link'[m].toServer = << >> /\ link'[m].toClient = link[m].toClient
  <1>1. link[m] \in LinkRecs /\ LinkKnows(m)
    BY Fields DEF LinkInv, LinksKnow
  <1>2. link[m].server = "submit" /\ UNCHANGED <<send, mu, client, report>>
    BY DEF SubmitThen
  <1>3. link[m].cmd \in Cmds /\ link[m].toServer = << >>
    BY <1>1, <1>2 DEF LinkKnows
  <1>4. PICK r : link' = [link EXCEPT ![m] = r] /\ r = [link[m] EXCEPT !.server = "ack", !.ok = ok]
    BY DEF SubmitThen, LinkInv, TypeOK
  <1>5. /\ r.server = "ack" /\ r.cmd = link[m].cmd /\ r.ok = ok
        /\ r.toServer = link[m].toServer /\ r.toClient = link[m].toClient
    BY <1>1, <1>4 DEF LinkRecs
  <1> QED
    BY <1>2, <1>3, <1>4, <1>5 DEF LinkInv, TypeOK

\* What Send's steps leave on the connections.
LEMMA SendMoves ==
  ASSUME LinkInv, NEW c \in Cmds, SendStep(c)
  PROVE  \A l \in Links :
           /\ link'[l].server = "ack" => link[l].server = "ack" /\ link'[l].cmd = link[l].cmd
           /\ send'[c].pc = "read" /\ client'.conn = l => link'[l].toClient = << >> /\ link'[l].server # "ack"
  <1>1. CASE Connected(c)
    BY <1>1 DEF Connected, LinkInv, TypeOK, SendRecs
  <1>2. CASE DialFails(c)
    BY <1>2 DEF DialFails, Return, LinkInv, TypeOK, SendRecs
  <1>3. CASE Dial(c)
    <2>1. PICK m \in Links : link' = [link EXCEPT ![m] = [NoConnection EXCEPT !.open = TRUE, !.server = "read"]]
      BY <1>3 DEF Dial, DialWith
    <2>2. [NoConnection EXCEPT !.open = TRUE, !.server = "read"].server = "read"
      BY DEF NoConnection
    <2>3. send'[c].pc = "write"
      BY <1>3 DEF Dial, DialWith, LinkInv, TypeOK, SendRecs
    <2> QED
      BY <2>1, <2>2, <2>3 DEF LinkInv, TypeOK
  <1>4. CASE Write(c)
    <2>1. PICK m \in Links : client.conn = m
      BY <1>4 DEF Write, LinkInv, SendsKnow, TypeOK
    <2>2. PICK q : link' = link \/ link' = [link EXCEPT ![m].toServer = q]
      BY <1>4, <2>1 DEF Write
    <2>3. \A l \in Links : /\ link'[l].server = link[l].server /\ link'[l].cmd = link[l].cmd
                           /\ link'[l].toClient = link[l].toClient
      <3>1. CASE link' = link
        BY <3>1
      <3>2. CASE link' = [link EXCEPT ![m].toServer = q]
        <4>1. link' = [link EXCEPT ![m] = [link[m] EXCEPT !.toServer = q]]
          BY <3>2 DEF LinkInv, TypeOK
        <4>2. PICK r : r = [link[m] EXCEPT !.toServer = q]
          OBVIOUS
        <4>3. r.server = link[m].server /\ r.cmd = link[m].cmd /\ r.toClient = link[m].toClient
          BY <4>2, Fields DEF LinkInv, LinkRecs
        <4> QED
          BY <4>1, <4>2, <4>3 DEF LinkInv, TypeOK
      <3> QED
        BY <2>2, <3>1, <3>2
    <2>4. Idle(m)
      <3>1. \A d \in Cmds : send[d].pc # "read"
        BY <1>4, Alone DEF LinkInv, Write
      <3> QED
        BY <2>1, <3>1 DEF LinkInv, ClientKnows
    <2>5. client'.conn = m
      BY <1>4, <2>1 DEF Write, LinkInv, TypeOK
    <2> QED
      BY <2>3, <2>4, <2>5 DEF Idle
  <1>5. CASE WriteFails(c) \/ ReadFails(c)
    <2>1. link' = [link EXCEPT ![client.conn].open = FALSE] /\ DropAndRetry(c, 2)
      BY <1>5 DEF WriteFails, ReadFails, ReadFailsWhen, DropAndRetry
    <2>2. \A l \in Links : link'[l].server = link[l].server /\ link'[l].cmd = link[l].cmd
      BY <2>1, Fields DEF LinkInv, TypeOK, LinkRecs
    <2>3. send'[c].pc # "read"
      BY <2>1, DropSends DEF LinkInv, TypeOK
    <2> QED
      BY <2>2, <2>3
  <1>6. CASE ReadAck(c)
    <2>1. PICK id, ok, q : Return(c, id, ok) /\ link' = [link EXCEPT ![client.conn].toClient = q]
      BY <1>6 DEF ReadAck
    <2>2. \A l \in Links : link'[l].server = link[l].server /\ link'[l].cmd = link[l].cmd
      BY <2>1, Fields DEF LinkInv, TypeOK, LinkRecs
    <2>3. send'[c].pc # "read"
      BY <2>1 DEF Return, LinkInv, TypeOK, SendRecs
    <2> QED
      BY <2>2, <2>3
  <1> QED
    BY <1>1, <1>2, <1>3, <1>4, <1>5, <1>6 DEF SendStep

\* What Send returns: the answer to its command, or that there is none.
LEMMA SendReturnsAnswer ==
  ASSUME LinkInv, NEW c \in Cmds, SendStep(c), send'[c].pc = "done"
  PROVE  \/ report'[c].id \in {"connect", "transport"} /\ report'[c].ok = FALSE
         \/ \E m \in Links : /\ client.conn = m /\ send[c].pc = "read" /\ link[m].toClient # << >>
                             /\ report'[c].id = c /\ report'[c].ok = Head(link[m].toClient).ok
  <1>1. CASE Connected(c) \/ Dial(c) \/ Write(c)
    BY <1>1 DEF Connected, Dial, DialWith, Write, LinkInv, TypeOK, SendRecs
  <1>2. CASE DialFails(c)
    BY <1>2 DEF DialFails, Return, LinkInv, TypeOK
  <1>3. CASE WriteFails(c) \/ ReadFails(c)
    <2>1. DropAndRetry(c, 2)
      BY <1>3 DEF WriteFails, ReadFails, ReadFailsWhen
    <2>2. Return(c, "transport", FALSE)
      BY <2>1 DEF DropAndRetry, LinkInv, TypeOK, SendRecs
    <2> QED
      BY <2>2 DEF Return, LinkInv, TypeOK
  <1>4. CASE ReadAck(c)
    <2>1. PICK m \in Links : client.conn = m
      BY <1>4 DEF ReadAck, LinkInv, SendsKnow, TypeOK
    <2>2. Busy(c, m) /\ send[c].pc = "read" /\ link[m].toClient # << >>
      BY <1>4, <2>1 DEF ReadAck, LinkInv, ClientKnows
    <2>3. /\ Head(link[m].toClient).seq = client.lastAckSeq + 1 /\ client.lastAckSeq \in Nat
          /\ Head(link[m].toClient).cmd = c
      BY <2>2, Fields DEF Busy, LinkInv
    <2>4. Return(c, Head(link[m].toClient).cmd, Head(link[m].toClient).ok)
      <3>1. ~(Head(link[m].toClient).seq <= client.lastAckSeq)
        BY <2>3
      <3> QED
        BY <1>4, <2>1, <3>1 DEF ReadAck
    <2> QED
      BY <2>1, <2>2, <2>3, <2>4 DEF Return, LinkInv, TypeOK
  <1> QED
    BY <1>1, <1>2, <1>3, <1>4 DEF SendStep

\* Lines that are dropped, and the steps of Send, say nothing to dfhack-run.
LEMMA AskedByCommand ==
  ASSUME LinkInv, TypedKnows, AskedKnows, NEW c \in DOMAIN action,
         Rejected(c) \/ Locks(c) \/ Sends(c) \/ Deadline(c)
  PROVE  AskedKnows'
  <1> USE DEF LinkInv
  <1>1. /\ c \in Cmds /\ DOMAIN action \subseteq Cmds /\ UNCHANGED <<action, asked>>
        /\ \A d \in Cmds : d # c => send'[d] = send[d] /\ report'[d] = report[d]
        /\ send[c].pc # "done"
    BY CommandStep DEF TypedKnows
  <1>2. \A d \in DOMAIN action : Operation(d)' = Operation(d)
    BY <1>1 DEF Operation
  <1>3. CASE Rejected(c) \/ Locks(c) \/ Deadline(c)
    <2>1. UNCHANGED <<link, client, report>>
      BY <1>3 DEF Rejected, Locks, Lock, Deadline, DeadlinePasses
    <2>2. \/ send'[c].pc = "done" /\ send[c].pc = "start" /\ action[c] \in {Silence, Reply}
          \/ send'[c].pc = "connect" /\ action[c] \notin {Silence, Reply}
          \/ send'[c].pc = send[c].pc
      BY <1>1, <1>3 DEF Rejected, Locks, Lock, Deadline, DeadlinePasses, TypeOK, SendRecs
    <2> QED
      BY <1>1, <1>2, <2>1, <2>2 DEF AskedKnows
  <1>4. CASE Sends(c)
    <2>1. SendStep(c) /\ send[c].pc \in {"connect", "write", "read"}
      BY <1>4 DEF Sends, SendStep, Connected, Dial, DialWith, DialFails, Write, WriteFails, ReadAck, ReadFails, ReadFailsWhen
    <2>2. \A d \in Cmds : d # c => send[d].pc \in {"start", "done"}
      BY <1>1, <2>1, Alone
    <2>3. action[c] \notin {Silence, Reply}
      BY <2>1 DEF AskedKnows
    <2>4. \A l \in Links :
            /\ link'[l].server = "ack" => link[l].server = "ack" /\ link'[l].cmd = link[l].cmd
            /\ send'[c].pc = "read" /\ client'.conn = l => link'[l].toClient = << >>
      BY <1>1, <2>1, SendMoves
    <2>5. send'[c].pc = "done" => /\ report'[c].id # "none"
                                  /\ report'[c].id = c => ~(asked[c] = {} /\ Operation(c) # Refused)
      <3> SUFFICES ASSUME send'[c].pc = "done"
                   PROVE  report'[c].id # "none" /\ (report'[c].id = c => ~(asked[c] = {} /\ Operation(c) # Refused))
        OBVIOUS
      <3>1. CASE report'[c].id \in {"connect", "transport"}
        BY <1>1, <3>1, ConstantsAssumption
      <3>2. CASE \E m \in Links : client.conn = m /\ send[c].pc = "read" /\ link[m].toClient # << >> /\ report'[c].id = c
        BY <1>1, <3>2, ConstantsAssumption DEF AskedKnows
      <3> QED
        BY <1>1, <2>1, <3>1, <3>2, SendReturnsAnswer
    <2>6. send'[c].pc # "done" => report'[c] = NoReport
      <3>1. SendsKnow'
        <4>1. [LinkNext]_vars
          BY <1>1, <2>1 DEF LinkNext
        <4> QED
          BY <4>1, LinkNextKeeps
      <3> QED
        BY <1>1, <3>1 DEF SendsKnow
    <2>7. c # "none"
      BY <1>1, ConstantsAssumption
    <2>8. ASSUME NEW d \in DOMAIN action PROVE
            /\ asked[d] \subseteq {Operation(d)} \ {Refused}
            /\ action[d] \in {Silence, Reply} => report'[d] = NoReport
            /\ send'[d].pc \in {"connect", "write", "read"} => action[d] \notin {Silence, Reply}
            /\ send'[d].pc = "done" /\ report'[d].id = "none" => action[d] \in {Silence, Reply}
            /\ asked[d] = {} /\ Operation(d) # Refused =>
                 /\ report'[d].id # d
                 /\ \A l \in Links : /\ ~(link'[l].server = "ack" /\ link'[l].cmd = d)
                                     /\ send'[d].pc = "read" /\ client'.conn = l => link'[l].toClient = << >>
      <3>1. CASE d = c
        BY <2>3, <2>4, <2>5, <2>6, <2>7, <3>1 DEF AskedKnows, NoReport
      <3>2. CASE d # c
        BY <1>1, <2>2, <2>4, <3>2 DEF AskedKnows
      <3> QED
        BY <3>1, <3>2
    <2> QED
      BY <1>1, <1>2, <2>8 DEF AskedKnows
  <1> QED
    BY <1>3, <1>4

LEMMA AskedByServer ==
  ASSUME LinkInv, TypedKnows, AskedKnows, NEW m \in Links, Refuses(m) \/ Runs(m) \/ Transports(m)
  PROVE  AskedKnows'
  <1> USE DEF LinkInv
  <1>1. UNCHANGED <<send, mu, client, report, action>>
    BY ServerFrame
  <1>2. \A d \in DOMAIN action : Operation(d)' = Operation(d) /\ d \in Cmds
    BY <1>1 DEF Operation, TypedKnows
  <1>3. CASE Refuses(m)
    <2>1. SubmitThen(m, NoCmd, FALSE) /\ Operation(link[m].cmd) = Refused /\ asked' = asked
      BY <1>3 DEF Refuses, game
    <2>2. /\ \A l \in Links : l # m => link'[l] = link[l]
          /\ link'[m].cmd = link[m].cmd /\ link'[m].toClient = link[m].toClient
      BY <2>1, SubmitMoves
    <2> QED
      BY <1>1, <1>2, <2>1, <2>2 DEF AskedKnows
  <1>4. CASE Runs(m)
    <2>1. PICK ok \in BOOLEAN : SubmitThen(m, link[m].cmd, ok)
      BY <1>4 DEF Runs
    <2>2. /\ \A l \in Links : l # m => link'[l] = link[l]
          /\ link'[m].cmd = link[m].cmd /\ link'[m].toClient = link[m].toClient
      BY <2>1, SubmitMoves
    <2>3. PICK e \in Cmds : e = link[m].cmd
      BY <2>1, SubmitMoves
    <2>4. /\ \A d \in Cmds : d # e => asked'[d] = asked[d]
          /\ asked'[e] = asked[e] \cup {Operation(e)} /\ Operation(e) # Refused
      BY <1>4, <2>3 DEF Runs, TypedKnows
    <2>5. ASSUME NEW d \in DOMAIN action PROVE
            /\ asked'[d] \subseteq {Operation(d)} \ {Refused}
            /\ asked'[d] = {} /\ Operation(d) # Refused =>
                 /\ report[d].id # d
                 /\ \A l \in Links : /\ ~(link'[l].server = "ack" /\ link'[l].cmd = d)
                                     /\ send[d].pc = "read" /\ client.conn = l => link'[l].toClient = << >>
      <3>1. CASE d = e
        BY <2>4, <3>1 DEF AskedKnows
      <3>2. CASE d # e
        BY <1>2, <2>2, <2>3, <2>4, <3>2 DEF AskedKnows
      <3> QED
        BY <3>1, <3>2
    <2> QED
      BY <1>1, <1>2, <2>5 DEF AskedKnows
  <1>5. CASE Transports(m)
    <2>1. (Receive(m) \/ Acknowledge(m) \/ StopReading(m) \/ LinkLost(m)) /\ asked' = asked
      BY <1>5 DEF Transports, game
    <2>2. /\ \A l \in Links : l # m => link'[l] = link[l]
          /\ link'[m].server = "ack" => link[m].server = "ack" /\ link'[m].cmd = link[m].cmd
          /\ link'[m].toClient # << >> => link'[m].toClient = link[m].toClient \/ link[m].server = "ack"
      BY <2>1, TransportsMove
    <2>3. ASSUME NEW d \in DOMAIN action, asked[d] = {}, Operation(d) # Refused,
                 send[d].pc = "read", client.conn = m
          PROVE  link'[m].toClient = << >>
      <3>1. Busy(d, m)
        BY <1>2, <2>3 DEF ClientKnows
      <3>2. link[m].server # "ack"
        BY <2>3, <3>1 DEF AskedKnows, Busy
      <3>3. link[m].toClient = << >>
        BY <2>3 DEF AskedKnows
      <3> QED
        BY <2>2, <3>2, <3>3
    <2>4. ASSUME NEW d \in DOMAIN action, asked[d] = {}, Operation(d) # Refused, NEW l \in Links
          PROVE  /\ ~(link'[l].server = "ack" /\ link'[l].cmd = d)
                 /\ send[d].pc = "read" /\ client.conn = l => link'[l].toClient = << >>
      <3>1. CASE l = m
        BY <2>2, <2>3, <2>4, <3>1 DEF AskedKnows
      <3>2. CASE l # m
        BY <2>2, <2>4, <3>2 DEF AskedKnows
      <3> QED
        BY <3>1, <3>2
    <2> QED
      BY <1>1, <1>2, <2>1, <2>4 DEF AskedKnows
  <1> QED
    BY <1>3, <1>4, <1>5

LEMMA AskedByStop ==
  ASSUME LinkInv, TypedKnows, AskedKnows, Stops
  PROVE  AskedKnows'
  <1>1. UNCHANGED <<send, mu, client, report, action>>
    BY ServerFrame
  <1>2. \A d \in DOMAIN action : Operation(d)' = Operation(d) /\ d \in Cmds
    BY <1>1 DEF Operation, TypedKnows
  <1>3. \A l \in Links : link'[l].server = "gone" /\ link'[l].toClient = << >>
    BY DEF Stops, ExecutorStops, NoConnection
  <1>4. ASSUME NEW d \in Cmds
        PROVE  asked'[d] = asked[d] \/ (asked'[d] = asked[d] \cup {Operation(d)} /\ Operation(d) # Refused)
    <2>1. PICK done : /\ \A c \in done : Operation(c) # Refused
                      /\ asked' = [c \in Cmds |-> asked[c] \cup IF c \in done THEN {Operation(c)} ELSE {}]
      BY DEF Stops
    <2>2. CASE d \in done
      BY <2>1, <2>2
    <2>3. CASE d \notin done
      <3>1. asked'[d] = asked[d] \cup {}
        BY <2>1, <2>3
      <3>2. \A x : x \cup {} = x
        OBVIOUS
      <3> QED
        BY <3>1, <3>2, Zenon
    <2> QED
      BY <2>2, <2>3
  <1>5. ASSUME NEW d \in DOMAIN action
        PROVE  asked'[d] \subseteq {Operation(d)} \ {Refused} /\ (asked'[d] = {} => asked[d] = {})
    BY <1>2, <1>4 DEF AskedKnows
  <1> QED
    BY <1>1, <1>2, <1>3, <1>5 DEF AskedKnows

LEMMA AskedNext ==
  ASSUME LinkInv, TypedKnows, AskedKnows, [CommandsNext]_cvars
  PROVE  AskedKnows'
  <1>1. CASE UNCHANGED cvars
    BY <1>1 DEF cvars, vars, game, AskedKnows, Operation
  <1> QED
    BY <1>1, AskedByCommand, AskedByServer, AskedByStop DEF CommandsNext

\* A command that the executor runs while all is clean is the one Send waits for.
LEMMA CleanSubmit ==
  ASSUME LinkInv, TypedKnows, Clean, NEW m \in Links, link[m].server = "submit"
  PROVE  \E c \in DOMAIN action : /\ link[m].cmd = c /\ mu = c /\ send[c].pc = "read" /\ client.conn = m
                                  /\ link[m].toClient = << >> /\ link[m].toServer = << >>
  <1> USE DEF LinkInv
  <1>1. PICK c \in Cmds : c = link[m].cmd
    BY DEF LinksKnow, LinkKnows
  <1>2. m \in Pending(c) /\ IsFiniteSet(Pending(c))
    BY <1>1 DEF Pending, AttemptsKnow
  <1>3. Cardinality(Pending(c)) \in Nat /\ Cardinality(Pending(c)) # 0 /\ runs[c] \in Nat
    BY <1>2, FS_EmptySet, FS_CardinalityType, UsedNat
  <1>4. runs[c] + Cardinality(Pending(c)) <= Attempts(c)
    BY DEF AttemptsKnow, Used
  <1>5. ~(report[c] = NoReport /\ send[c].pc \in {"start", "done"})
    BY <1>3, <1>4 DEF Attempts
  <1>6. c \in DOMAIN action /\ send[c].attempt = 1
    BY <1>5 DEF TypedKnows, Clean
  <1>7. send[c].pc \notin {"connect", "write"}
    BY <1>3, <1>4, <1>6 DEF Attempts
  <1>8. send[c].pc # "done"
    <2> SUFFICES ASSUME send[c].pc = "done" PROVE FALSE
      OBVIOUS
    <2>1. report[c].ok /\ report[c].id \in Cmds
      BY <1>6 DEF Clean, SendsKnow
    <2>2. runs[c] > 0
      BY <2>1 DEF AnswerIsForCommand
    <2>3. Attempts(c) = 1
      BY <1>5, <1>6 DEF Attempts
    <2> QED
      BY <1>3, <1>4, <2>2, <2>3
  <1>9. send[c].pc # "start"
    BY <1>5 DEF SendsKnow
  <1>10. send[c].pc = "read"
    BY <1>7, <1>8, <1>9 DEF TypeOK, SendRecs
  <1>11. mu = c /\ client.conn = m
    BY <1>2, <1>6, <1>10 DEF SendsKnow, AttemptsKnow
  <1>12. Busy(c, m) /\ AtServer(m)
    BY <1>10, <1>11 DEF ClientKnows, AtServer
  <1>13. link[m].toClient = << >> /\ link[m].toServer = << >>
    BY <1>12 DEF Busy, LinksKnow, LinkKnows
  <1> QED
    BY <1>1, <1>6, <1>10, <1>11, <1>13

\* What is clean after a step was clean before it.
LEMMA CleanBefore ==
  ASSUME LinkInv, TypedKnows, Clean', [CommandsNext]_cvars
  PROVE  Clean
  <1> USE DEF LinkInv
  <1>1. CASE \E c \in DOMAIN action : Rejected(c) \/ Locks(c) \/ Sends(c) \/ Deadline(c)
    <2>1. PICK c \in DOMAIN action : Rejected(c) \/ Locks(c) \/ Sends(c) \/ Deadline(c)
      BY <1>1
    <2>2. /\ action' = action
          /\ \A d \in DOMAIN action : d # c => send'[d] = send[d] /\ report'[d] = report[d]
          /\ send[c].pc # "done" /\ send'[c].attempt \in 1..2 /\ send[c].attempt <= send'[c].attempt
          /\ c \in Cmds
      BY <2>1, CommandStep DEF TypedKnows
    <2>3. send[c].attempt = 1
      BY <2>2 DEF Clean, TypeOK, SendRecs
    <2> QED
      BY <2>2, <2>3 DEF Clean
  <1>2. CASE \E l \in Links : Refuses(l) \/ Runs(l) \/ Transports(l)
    BY <1>2, ServerFrame DEF Clean
  <1>3. CASE Stops
    BY <1>3, ServerFrame DEF Clean
  <1>4. CASE UNCHANGED cvars
    BY <1>4 DEF cvars, vars, Clean
  <1> QED
    BY <1>1, <1>2, <1>3, <1>4 DEF CommandsNext

LEMMA GameByCommand ==
  ASSUME LinkInv, LinkInv', TypedKnows, GameKnows, Clean, Clean', NEW c \in DOMAIN action,
         Rejected(c) \/ Locks(c) \/ Sends(c) \/ Deadline(c)
  PROVE  GameKnows'
  <1> USE DEF LinkInv
  <1>1. /\ c \in Cmds /\ UNCHANGED <<action, paused>> /\ DOMAIN action \subseteq Cmds
        /\ \A d \in Cmds : d # c => send'[d] = send[d]
        /\ send[c].pc # "done"
    BY CommandStep DEF TypedKnows
  <1>2. \A d \in DOMAIN action : Operation(d)' = Operation(d)
    BY <1>1 DEF Operation
  <1>3. CASE Rejected(c)
    <2>1. report[c] = NoReport /\ report' = report /\ send'[c].pc = "done"
      BY <1>1, <1>3 DEF Rejected, SendsKnow, TypeOK, SendRecs
    <2> QED
      BY <1>1, <2>1 DEF Clean, NoReport
  <1>4. CASE Locks(c)
    <2>1. mu = NoCmd /\ mu' = c /\ told' = told /\ send'[c].pc = "connect"
      BY <1>1, <1>4 DEF Locks, Lock, TypeOK, SendRecs, game
    <2>2. paused = told
      BY <2>1 DEF GameKnows
    <2> QED
      BY <1>1, <2>1, <2>2, NoCmdIsNone DEF GameKnows
  <1>5. CASE Deadline(c)
    <2>1. UNCHANGED <<mu, client, link, told>> /\ \A d \in Cmds : send'[d].pc = send[d].pc
      BY <1>1, <1>5 DEF Deadline, DeadlinePasses, TypeOK, SendRecs, game
    <2> QED
      BY <1>1, <1>2, <2>1 DEF GameKnows, Answered
  <1>6. CASE Sends(c)
    <2>1. SendStep(c) /\ send[c].pc \in {"connect", "write", "read"}
      BY <1>6 DEF Sends, SendStep, Connected, Dial, DialWith, DialFails, Write, WriteFails, ReadAck, ReadFails, ReadFailsWhen
    <2>2. mu = c /\ \A d \in Cmds : d # c => send[d].pc \in {"start", "done"}
      BY <1>1, <2>1, Alone
    <2>3. told' = IF report'[c].ok THEN SuccessReply(action[c], told) ELSE told
      BY <1>6 DEF Sends
    \* Send returns: with the answer under way, or all is no longer clean.
    <2>4. CASE send'[c].pc = "done"
      <3>1. report'[c].ok
        BY <1>1, <2>4 DEF Clean
      <3>2. PICK m \in Links : /\ client.conn = m /\ send[c].pc = "read" /\ link[m].toClient # << >>
                               /\ Head(link[m].toClient).ok
        BY <1>1, <2>1, <2>4, <3>1, SendReturnsAnswer
      <3>3. paused = After(Operation(c), told)
        BY <2>2, <3>2 DEF GameKnows, Answered
      <3>4. told' = After(Operation(c), told)
        BY <2>3, <3>1, ReplyIsAfter DEF Operation, TypedKnows
      <3>5. \A d \in Cmds : send'[d].pc \in {"start", "done"}
        BY <1>1, <2>2, <2>4
      <3>6. \A d \in DOMAIN action : mu' # d
        BY <1>1, <3>5 DEF SendsKnow
      <3> QED
        BY <1>1, <3>3, <3>4, <3>6 DEF GameKnows
    <2>5. CASE send'[c].pc # "done"
      <3>1. report'[c] = NoReport /\ ~report'[c].ok
        BY <1>1, <2>5 DEF SendsKnow, NoReport
      <3>2. told' = told
        BY <2>3, <3>1
      <3>3. send'[c].pc \in {"connect", "write", "read"} /\ mu' = c
        <4>1. send'[c].pc # "start"
          <5>1. CASE DropAndRetry(c, 2)
            BY <1>1, <5>1, DropSends DEF TypeOK
          <5>2. CASE ~DropAndRetry(c, 2)
            BY <1>1, <2>1, <5>2 DEF SendStep, Connected, Dial, DialWith, DialFails, Write, WriteFails,
                  ReadAck, ReadFails, ReadFailsWhen, Return, TypeOK, SendRecs
          <5> QED
            BY <5>1, <5>2
        <4>2. send'[c].pc \in {"connect", "write", "read"}
          BY <1>1, <2>5, <4>1 DEF TypeOK, SendRecs
        <4> QED
          BY <1>1, <4>2 DEF SendsKnow
      <3>4. paused = told
        <4>1. CASE send[c].pc # "read"
          BY <2>2, <4>1 DEF GameKnows
        <4>2. CASE send[c].pc = "read"
          <5>1. ReadAck(c) \/ ReadFails(c)
            BY <2>1, <4>2 DEF SendStep, Connected, Dial, DialWith, DialFails, Write, WriteFails
          <5>2. ~ReadAck(c)
            <6>1. ReadAck(c) => \E id, ok : Return(c, id, ok)
              BY DEF ReadAck
            <6> QED
              BY <1>1, <2>5, <6>1 DEF Return, TypeOK, SendRecs
          <5>3. DropAndRetry(c, 2)
            BY <5>1, <5>2 DEF ReadFails, ReadFailsWhen
          <5>4. send'[c].attempt = 2 /\ send'[c].pc \in {"connect", "done"}
            <6>1. send \in [Cmds -> SendRecs] /\ c \in Cmds
              BY <1>1 DEF TypeOK
            <6> QED
              BY <5>3, <6>1, DropSends
          <5>5. send'[c].pc = "connect"
            BY <2>5, <5>4
          <5> QED
            BY <1>1, <5>4, <5>5 DEF Clean
        <4> QED
          BY <4>1, <4>2
      <3>5. \A l \in Links : send'[c].pc = "read" /\ client'.conn = l => ~Answered(l)'
        BY <1>1, <2>1, SendMoves DEF Answered
      <3>6. \A d \in DOMAIN action : mu' = d => d = c
        BY <3>3
      <3>7. mu' # NoCmd
        BY <1>1, <3>3, NoCmdIsNone
      <3> QED
        BY <1>1, <3>2, <3>4, <3>5, <3>6, <3>7 DEF GameKnows
    <2> QED
      BY <2>4, <2>5
  <1> QED
    BY <1>3, <1>4, <1>5, <1>6

LEMMA GameByServer ==
  ASSUME LinkInv, TypedKnows, GameKnows, Clean, NEW m \in Links, Refuses(m) \/ Runs(m) \/ Transports(m)
  PROVE  GameKnows'
  <1> USE DEF LinkInv
  <1>1. UNCHANGED <<send, mu, client, report, action, told>> /\ DOMAIN action \subseteq Cmds
    BY ServerFrame DEF TypedKnows
  <1>2. \A d \in DOMAIN action : Operation(d)' = Operation(d) /\ d \in Cmds
    BY <1>1 DEF Operation
  <1>3. CASE Refuses(m) \/ Runs(m)
    <2>1. PICK ran \in {link[m].cmd, NoCmd}, ok \in BOOLEAN : SubmitThen(m, ran, ok)
      BY <1>3 DEF Refuses, Runs
    <2>2. /\ link[m].server = "submit"
          /\ link'[m].server = "ack" /\ link'[m].ok = ok
          /\ link'[m].toServer = << >> /\ link'[m].toClient = link[m].toClient
      BY <2>1, SubmitMoves
    <2>3. PICK c \in DOMAIN action : /\ link[m].cmd = c /\ mu = c /\ send[c].pc = "read" /\ client.conn = m
                                     /\ link[m].toClient = << >>
      BY <2>2, CleanSubmit
    <2>4. paused = told
      BY <2>2, <2>3 DEF GameKnows
    <2>5. ok => paused' = After(Operation(c), told)
      <3>1. CASE Refuses(m)
        <4>1. SubmitThen(m, NoCmd, FALSE)
          BY <3>1 DEF Refuses
        <4>2. link'[m].ok = FALSE
          BY <4>1, SubmitMoves
        <4> QED
          BY <2>2, <4>2
      <3>2. CASE Runs(m)
        <4>1. CASE SubmitThen(m, link[m].cmd, FALSE)
          <5>1. link'[m].ok = FALSE
            BY <4>1, SubmitMoves
          <5> QED
            BY <2>2, <5>1
        <4>2. CASE paused' = After(Operation(link[m].cmd), paused)
          BY <2>3, <2>4, <4>2
        <4> QED
          BY <3>2, <4>1, <4>2 DEF Runs
      <3> QED
        BY <1>3, <3>1, <3>2
    <2>6. ~(link'[m].toServer # << >> \/ link'[m].server = "submit")
      BY <2>2
    <2>7. Answered(m)' => paused' = After(Operation(c), told)
      BY <2>2, <2>3, <2>5 DEF Answered
    <2>8. \A d \in DOMAIN action : mu' = d => d = c
      BY <1>1, <2>3
    <2>9. mu' = c /\ send'[c].pc = "read" /\ client'.conn = m /\ mu' # NoCmd /\ told' = told
      BY <1>1, <1>2, <2>3, NoCmdIsNone
    <2> QED
      BY <1>1, <1>2, <2>6, <2>7, <2>8, <2>9 DEF GameKnows
  <1>4. CASE Transports(m)
    <2>1. (Receive(m) \/ Acknowledge(m) \/ StopReading(m) \/ LinkLost(m)) /\ paused' = paused
      BY <1>4 DEF Transports, game
    <2>2. /\ \A l \in Links : l # m => link'[l] = link[l]
          /\ link'[m].server = "ack" =>
               link[m].server = "ack" /\ link'[m].cmd = link[m].cmd /\ link'[m].ok = link[m].ok
          /\ link'[m].toServer # << >> \/ link'[m].server = "submit" =>
               link[m].toServer # << >> \/ link[m].server = "submit"
          /\ link'[m].toClient # << >> =>
               \/ link'[m].toClient = link[m].toClient
               \/ /\ link[m].server = "ack"
                  /\ link'[m].toClient = Append(link[m].toClient,
                       [seq |-> link[m].ackSeq + 1, cmd |-> link[m].cmd, ok |-> link[m].ok])
      BY <2>1, TransportsMove
    <2>3. ASSUME NEW d \in DOMAIN action, send[d].pc = "read", client.conn = m, Answered(m)'
          PROVE  Answered(m)
      <3>1. CASE link'[m].server = "ack" /\ link'[m].ok
        BY <2>2, <3>1 DEF Answered
      <3>2. CASE link'[m].toClient # << >> /\ Head(link'[m].toClient).ok
        <4>1. CASE link'[m].toClient = link[m].toClient
          BY <3>2, <4>1 DEF Answered
        <4>2. CASE /\ link[m].server = "ack"
                   /\ link'[m].toClient = Append(link[m].toClient,
                        [seq |-> link[m].ackSeq + 1, cmd |-> link[m].cmd, ok |-> link[m].ok])
          <5>1. Busy(d, m) /\ AtServer(m)
            BY <1>2, <2>3, <4>2 DEF ClientKnows, AtServer
          <5>2. link[m].toClient = << >> /\ link[m].toClient \in Seq(Acks)
            BY <5>1, Fields DEF Busy, LinkRecs
          <5>3. PICK n \in Nat, e \in Cmds, ok \in BOOLEAN : n = link[m].ackSeq + 1 /\ e = link[m].cmd /\ ok = link[m].ok
            BY <4>2, Fields DEF LinkRecs, LinksKnow, LinkKnows
          <5>4. PICK a \in Acks : a = [seq |-> n, cmd |-> e, ok |-> ok]
            <6>1. [seq |-> n, cmd |-> e, ok |-> ok] \in Acks
              BY DEF Acks
            <6> QED
              BY <6>1
          <5>5. Head(link'[m].toClient) = a /\ a.ok = ok
            BY <4>2, <5>2, <5>3, <5>4, AppendNone
          <5> QED
            BY <3>2, <4>2, <5>3, <5>5 DEF Answered
        <4> QED
          BY <2>2, <3>2, <4>1, <4>2
      <3> QED
        BY <2>3, <3>1, <3>2 DEF Answered
    <2>4. ASSUME NEW d \in DOMAIN action, mu = d, send[d].pc = "read", NEW l \in Links, client.conn = l
          PROVE  /\ link'[l].toServer # << >> \/ link'[l].server = "submit" => paused = told
                 /\ Answered(l)' => paused = After(Operation(d), told)
      <3>1. /\ link[l].toServer # << >> \/ link[l].server = "submit" => paused = told
            /\ Answered(l) => paused = After(Operation(d), told)
        BY <2>4 DEF GameKnows
      <3>2. CASE l = m
        BY <2>2, <2>3, <2>4, <3>1, <3>2
      <3>3. CASE l # m
        BY <2>2, <3>1, <3>3 DEF Answered
      <3> QED
        BY <3>2, <3>3
    <2>5. /\ mu = NoCmd => paused = told
          /\ \A d \in DOMAIN action : mu = d /\ send[d].pc # "read" => paused = told
      BY DEF GameKnows
    <2> QED
      BY <1>1, <1>2, <2>1, <2>4, <2>5 DEF GameKnows
  <1> QED
    BY <1>3, <1>4

LEMMA GameByStop ==
  ASSUME LinkInv, TypedKnows, GameKnows, Clean, Stops
  PROVE  GameKnows'
  <1> USE DEF LinkInv
  <1>1. UNCHANGED <<send, mu, client, report, action, told>> /\ DOMAIN action \subseteq Cmds
    BY ServerFrame DEF TypedKnows
  <1>2. \A l \in Links : ~Answered(l)' /\ link'[l].toServer = << >> /\ link'[l].server # "submit"
    BY DEF Stops, ExecutorStops, NoConnection, Answered
  <1>3. \/ paused' = paused
        \/ \E c \in DOMAIN action : mu = c /\ send[c].pc = "read"
    <2>1. CASE \E l \in Links : link[l].server = "submit"
      BY <2>1, CleanSubmit
    <2>2. CASE ~\E l \in Links : link[l].server = "submit"
      <3>0. PICK done \in SUBSET {l \in Links : link[l].server = "submit"} :
              runs' = [c \in Cmds |-> runs[c] + Cardinality({l \in done : link[l].cmd = c})]
        BY DEF Stops, ExecutorStops
      <3>1. ASSUME NEW c \in Cmds PROVE ~(runs'[c] > runs[c])
        <4>1. {l \in done : link[l].cmd = c} = {}
          BY <2>2, <3>0
        <4>2. runs'[c] = runs[c] + Cardinality({l \in done : link[l].cmd = c}) /\ runs[c] \in Nat
          BY <3>0 DEF TypeOK
        <4>3. Cardinality({l \in done : link[l].cmd = c}) = 0
          BY <4>1, FS_EmptySet
        <4> QED
          BY <4>2, <4>3
      <3> QED
        BY <3>1 DEF Stops
    <2> QED
      BY <2>1, <2>2
  <1>4. CASE paused' = paused
    BY <1>1, <1>2, <1>4 DEF GameKnows
  <1>5. CASE \E c \in DOMAIN action : mu = c /\ send[c].pc = "read"
    BY <1>1, <1>2, <1>5, NoCmdIsNone DEF GameKnows
  <1> QED
    BY <1>3, <1>4, <1>5

LEMMA GameNext ==
  ASSUME LinkInv, LinkInv', TypedKnows, GameKnows, [CommandsNext]_cvars
  PROVE  GameKnows'
  <1> SUFFICES ASSUME Clean' PROVE GameKnows'
    BY DEF GameKnows
  <1>1. Clean
    BY CleanBefore
  <1>2. CASE UNCHANGED cvars
    BY <1>2 DEF cvars, vars, game, GameKnows, Clean, Answered, Operation
  <1> QED
    BY <1>1, <1>2, GameByCommand, GameByServer, GameByStop DEF CommandsNext
-----------------------------------------------------------------------------
LEMMA CommandsInitHolds ==
  ASSUME CommandsInit
  PROVE  CommandsInv
  <1>1. PICK s \in Chats : /\ action = [c \in DOMAIN s.line |-> ParseCommand(s.line[c])]
                           /\ wish = s.wish
                           /\ LinkInit(DOMAIN s.line, s.past)
    BY DEF CommandsInit
  <1>2. DOMAIN s.line \subseteq Cmds /\ s.past \in 0..MaxFaults
    BY ChatsAssumption
  <1>3. LinkInv
    BY <1>1, <1>2, LinkInitHolds
  <1>4. /\ asked = [c \in Cmds |-> {}] /\ paused = told /\ mu = NoCmd
        /\ \A c \in Cmds : /\ send[c].pc = IF c \in DOMAIN action THEN "start" ELSE "done"
                           /\ report[c] = NoReport
        /\ \A l \in Links : link[l].server = "gone"
    BY <1>1 DEF CommandsInit, LinkInit, NoConnection
  <1>5. TypedKnows
    BY <1>1, <1>2, <1>4, ParseKind DEF TypedKnows
  <1>6. AskedKnows
    <2>1. \A c \in Cmds : "none" # c
      BY ConstantsAssumption
    <2> QED
      BY <1>1, <1>2, <1>4, <2>1 DEF AskedKnows, NoReport
  <1>7. GameKnows
    BY <1>1, <1>2, <1>4, NoCmdIsNone DEF GameKnows
  <1> QED
    BY <1>3, <1>5, <1>6, <1>7 DEF CommandsInv

LEMMA CommandsNextKeeps ==
  ASSUME CommandsInv, [CommandsNext]_cvars
  PROVE  CommandsInv'
  <1>1. LinkInv'
    BY StepIsLink, LinkNextKeeps DEF CommandsInv
  <1>2. TypedKnows'
    BY TypedNext DEF CommandsInv, LinkInv
  <1>3. AskedKnows'
    BY AskedNext DEF CommandsInv
  <1>4. GameKnows'
    BY <1>1, GameNext DEF CommandsInv
  <1> QED
    BY <1>1, <1>2, <1>3, <1>4 DEF CommandsInv

\* The invariant of the command link together with what is typed and what the game does.
THEOREM CommandsInductive == CommandsSpec => []CommandsInv
  <1> QED
    BY CommandsInitHolds, CommandsNextKeeps, PTL DEF CommandsSpec

\* Under the commands that chat really sends, too, an answer is the one of its command, a
\* command runs at most twice (once without faults) and no answer is taken for a replay.
THEOREM CommandsAnswersMatch == CommandsSpec => [](AnswerIsForCommand /\ AtMostTwice /\ NoFalseReplay)
  <1>1. CommandsInv => AnswerIsForCommand /\ AtMostTwice /\ NoFalseReplay
    BY TwiceFromAttempts DEF CommandsInv, LinkInv
  <1> QED
    BY <1>1, CommandsInductive, PTL

\* Between two commands the game is in the pause state that chat was last told, as long as
\* no command failed and none was sent twice.
THEOREM PausedIsAsTold == CommandsSpec => []PausedAsTold
  <1>1. CommandsInv => PausedAsTold
    BY DEF CommandsInv, LinkInv, TypedKnows, GameKnows, Clean, PausedAsTold, TypeOK, SendRecs
  <1> QED
    BY <1>1, CommandsInductive, PTL

\* If the grammar reads each line as its author means it, the game is asked for that and
\* nothing else, whatever is lost, repeated or answered late on the way.
THEOREM GameDoesAsTold == ReadAsMeant /\ CommandsSpec => []DoesAsTold
  <1>1. ReadAsMeant /\ CommandsInit => WishKnows
    BY DEF ReadAsMeant, CommandsInit, WishKnows
  <1>2. CommandsInv /\ WishKnows /\ [CommandsNext]_cvars => WishKnows'
    <2> SUFFICES ASSUME CommandsInv, WishKnows, [CommandsNext]_cvars PROVE WishKnows'
      OBVIOUS
    <2>1. UNCHANGED <<action, wish>>
      BY TypedNext DEF CommandsInv, LinkInv
    <2> QED
      BY <2>1 DEF WishKnows
  <1>3. CommandsInv /\ WishKnows => DoesAsTold
    <2> SUFFICES ASSUME CommandsInv, WishKnows, NEW c \in DOMAIN action
                 PROVE  /\ asked[c] \subseteq {wish[c]}
                        /\ send[c].pc = "done" /\ report[c].id = "none" => wish[c].kind = "nothing"
                        /\ report[c].id = c /\ asked[c] = {} => wish[c] = Refused
      BY DEF DoesAsTold
    <2>1. Means(action[c], wish[c])
      BY DEF WishKnows
    <2>2. c \in Cmds /\ c # "none" /\ NoReport.id = "none"
      BY ConstantsAssumption DEF CommandsInv, TypedKnows, NoReport
    <2>3. CASE action[c] \in {Silence, Reply}
      <3>1. wish[c].kind = "nothing" /\ report[c].id # c
        BY <2>1, <2>2, <2>3 DEF Means, CommandsInv, AskedKnows
      <3>2. Operation(c) = Refused
        BY <2>3 DEF Operation, Submitted, Silence, Reply
      <3> QED
        BY <3>1, <3>2 DEF CommandsInv, AskedKnows
    <2>4. CASE action[c] \notin {Silence, Reply}
      <3>1. Operation(c) = wish[c]
        BY <2>1, <2>4 DEF Means, Operation
      <3> QED
        BY <2>4, <3>1 DEF CommandsInv, AskedKnows
    <2> QED
      BY <2>3, <2>4
  <1> QED
    BY <1>1, <1>2, <1>3, CommandsInductive, PTL DEF CommandsSpec
=============================================================================
