------------------------ MODULE OverlayRelayProofs ------------------------
(***************************************************************************)
(* What the relay guarantees for any number of messages, requests and      *)
(* connections, any depth of the outbox and any page size.                 *)
(*                                                                         *)
(* In order: types, handlers and registry (Inductive); what each step does *)
(* to a connection's queue, so that a row is in one place at a time and a  *)
(* command runs at most once; the lock of one source orders its pushes; a  *)
(* connection's stream of paid events has no gap and is in order; the      *)
(* overlay's cursor follows it; the refinement of OverlayDelivery.         *)
(***************************************************************************)
EXTENDS OverlayRelay, FiniteSetTheorems, WellFoundedInduction, TLAPS

LEMMA EmptyRecords ==
  IdleHandler \in HandlerRecs /\ \A S : NoSession \in SessionRecs(S)
  BY DEF IdleHandler, HandlerRecs, HandlerPCs, NoSession, SessionRecs, ConnPCs

LEMMA InitIInv == Init => IInv
  <1> SUFFICES ASSUME Init PROVE IInv
    OBVIOUS
  <1>1. TypeOK
    BY ConstantsAssumption, EmptyRecords DEF Init, TypeOK
  <1>2. HandlersKnow
    BY DEF Init, HandlersKnow, IdleHandler
  <1>3. ConnsKnow
    BY ConstantsAssumption DEF Init, ConnsKnow, NoSession
  <1>4. LoggedOnce /\ ServingIsRegistered
    BY DEF Init, LoggedOnce, ServingIsRegistered, Serving, NoSession
  <1> QED
    BY <1>1, <1>2, <1>3, <1>4 DEF IInv
-----------------------------------------------------------------------------
\* What is left to show of a step that leaves the log alone.
LEMMA TypeFrame ==
  ASSUME TypeOK, log' = log,
         lock' \in [Sources -> Handlers \cup {NoHandler}],
         hand' \in [Handlers -> HandlerRecs],
         conn' \in [Conns -> SessionRecs(DOMAIN log)],
         registry' \in Conns \cup {NoConn}, overlay' \in Conns \cup {NoConn},
         runs' \in [Msgs -> Nat] /\ cursor' \in 0..Len(log),
         delivered' \subseteq CommandMsgs,
         deliveries' \in [Msgs -> 0..MaxDeliveries], faults' \in 0..MaxFaults
  PROVE  TypeOK'
  BY DEF TypeOK

\* The log only grows, and its positions stay positions.
LEMMA TypeAppend ==
  ASSUME TypeOK, NEW m \in Msgs, log' = Append(log, m),
         lock' \in [Sources -> Handlers \cup {NoHandler}],
         hand' \in [Handlers -> HandlerRecs],
         UNCHANGED <<conn, registry, overlay, cursor, runs, delivered, deliveries, faults>>
  PROVE  TypeOK'
  <1>1. log' \in Seq(Msgs) /\ Len(log') = Len(log) + 1 /\ DOMAIN log \subseteq DOMAIN log'
    BY DEF TypeOK
  <1>2. SessionRecs(DOMAIN log) \subseteq SessionRecs(DOMAIN log')
    <2>1. Seq(DOMAIN log) \subseteq Seq(DOMAIN log')
      BY <1>1
    <2> QED
      BY <1>1, <2>1 DEF SessionRecs
  <1>3. conn' \in [Conns -> SessionRecs(DOMAIN log')]
    BY <1>2 DEF TypeOK
  <1>4. cursor' \in 0..Len(log')
    BY <1>1 DEF TypeOK
  <1> QED
    BY <1>1, <1>3, <1>4 DEF TypeOK

LEMMA DrainedType ==
  ASSUME NEW S, NEW s \in SessionRecs(S)
  PROVE  Drained(s) \in SessionRecs(S)
  <1>1. s.pending \o s.out \in Seq(S) /\ << >> \in Seq(S)
    BY DEF SessionRecs
  <1> QED
    BY <1>1 DEF Drained, Shed, SessionRecs, ConnPCs

LEMMA SeqOps ==
  ASSUME NEW S, NEW q \in Seq(S)
  PROVE  /\ q # << >> => Head(q) \in S /\ Tail(q) \in Seq(S)
         /\ \A x \in S : Append(q, x) \in Seq(S)
  OBVIOUS

LEMMA WriteType ==
  ASSUME TypeOK, NEW c \in Conns, NEW i \in DOMAIN log, Write(c, i)
  PROVE  runs' \in [Msgs -> Nat] /\ cursor' \in 0..Len(log)
  <1>1. log[i] \in Msgs /\ i \in 0..Len(log) /\ runs[log[i]] + 1 \in Nat
    BY DEF TypeOK
  <1>2. runs' = runs \/ runs' = [runs EXCEPT ![log[i]] = runs[log[i]] + 1]
    BY DEF Write
  <1>3. cursor' = cursor \/ cursor' = i
    BY DEF Write
  <1> QED
    BY <1>1, <1>2, <1>3 DEF TypeOK

LEMMA ConnType ==
  ASSUME TypeOK, NEW c \in Conns, NEW s \in SessionRecs(DOMAIN log),
         conn' = [conn EXCEPT ![c] = s]
  PROVE  conn' \in [Conns -> SessionRecs(DOMAIN log)]
  BY DEF TypeOK

\* Forwarding a frame, from the flush or from the live loop.
LEMMA ForwardType ==
  ASSUME TypeOK, NEW c \in Conns, NEW i \in DOMAIN log, NEW s \in SessionRecs(DOMAIN log),
         Forward(c, i, s)
  PROVE  /\ conn' \in [Conns -> SessionRecs(DOMAIN log)]
         /\ runs' \in [Msgs -> Nat] /\ cursor' \in 0..Len(log)
  <1>1. CASE i <= conn[c].last
    BY <1>1, ConnType DEF Forward, TypeOK
  <1>2. CASE ~(i <= conn[c].last)
    <2>1. s.wrote \in Seq(DOMAIN log)
      BY DEF SessionRecs
    <2>2. Append(s.wrote, i) \in Seq(DOMAIN log)
      BY <2>1, SeqOps
    <2>3. [s EXCEPT !.wrote = Append(@, i)] \in SessionRecs(DOMAIN log)
      BY <2>2 DEF SessionRecs
    <2>4. /\ Write(c, i)
          /\ conn' = [conn EXCEPT ![c] = [s EXCEPT !.wrote = Append(@, i)]]
      BY <1>2 DEF Forward
    <2> QED
      BY <2>3, <2>4, ConnType, WriteType
  <1> QED
    BY <1>1, <1>2

LEMMA TypeNext == IInv /\ [Next]_vars => TypeOK'
  <1> SUFFICES ASSUME TypeOK, HandlersKnow, [Next]_vars PROVE TypeOK'
    BY DEF IInv
  <1> USE ConstantsAssumption
  <1>0. /\ IdleHandler \in HandlerRecs /\ NoSession \in SessionRecs(DOMAIN log)
        /\ log \in Seq(Msgs) /\ DOMAIN log = 1..Len(log) /\ Len(log) \in Nat
    BY EmptyRecords DEF TypeOK
  <1>1. ASSUME NEW h \in Handlers, NEW m \in Msgs, Deliver(h, m) PROVE TypeOK'
    <2>1. hand' \in [Handlers -> HandlerRecs]
      BY <1>0, <1>1 DEF Deliver, IdleHandler, TypeOK, HandlerRecs, HandlerPCs
    <2>2. deliveries' \in [Msgs -> 0..MaxDeliveries]
      BY <1>0, <1>1 DEF Deliver, IdleHandler, TypeOK
    <2> QED
      BY <1>1, <2>1, <2>2, TypeFrame DEF Deliver, IdleHandler, TypeOK
  <1>2. ASSUME NEW h \in Handlers, TakeIngestLock(h) PROVE TypeOK'
    <2>1. hand' \in [Handlers -> HandlerRecs]
      BY <1>0, <1>2 DEF TakeIngestLock, LockKeys, TypeOK, HandlerRecs, HandlerPCs
    <2>2. lock' \in [Sources -> Handlers \cup {NoHandler}]
      BY <1>0, <1>2 DEF TakeIngestLock, LockKeys, TypeOK
    <2> QED
      BY <1>2, <2>1, <2>2, TypeFrame DEF TakeIngestLock, LockKeys, TypeOK
  <1>3. ASSUME NEW h \in Handlers, ReadTail(h) PROVE TypeOK'
    <2>1. hand' \in [Handlers -> HandlerRecs]
      <3>1. hand[h] \in HandlerRecs /\ Len(log) + 1 \in Nat
        BY <1>0 DEF TypeOK
      <3>2. [hand[h] EXCEPT !.pc = "insert", !.next = Len(log) + 1] \in HandlerRecs
        BY <3>1 DEF HandlerRecs, HandlerPCs
      <3>3. hand' = [hand EXCEPT ![h] = [hand[h] EXCEPT !.pc = "insert", !.next = Len(log) + 1]]
        BY <1>3 DEF ReadTail, ReadTailThen, TypeOK
      <3> QED
        BY <3>2, <3>3 DEF TypeOK
    <2> QED
      BY <1>3, <2>1, TypeFrame DEF ReadTail, ReadTailThen, TypeOK
  <1>4. ASSUME NEW h \in Handlers, ProbeConnected(h) PROVE TypeOK'
    <2>1. hand' \in [Handlers -> HandlerRecs]
      BY <1>0, <1>4 DEF ProbeConnected, TypeOK, HandlerRecs, HandlerPCs
    <2>2. delivered' \subseteq CommandMsgs
      BY <1>4 DEF ProbeConnected, HandlersKnow, TypeOK
    <2> QED
      BY <1>4, <2>1, <2>2, TypeFrame DEF ProbeConnected, TypeOK
  <1>5. ASSUME NEW h \in Handlers, PushLookup(h) PROVE TypeOK'
    <2>1. hand' \in [Handlers -> HandlerRecs]
      <3>1. CASE registry = NoConn
        BY <1>0, <1>5, <3>1 DEF PushLookup, Answer, TypeOK
      <3>2. CASE registry # NoConn
        <4>1. hand[h] \in HandlerRecs
          BY DEF TypeOK
        <4>2. [hand[h] EXCEPT !.pc = "send", !.to = registry] \in HandlerRecs
          BY <4>1 DEF HandlerRecs, HandlerPCs, TypeOK
        <4>3. hand' = [hand EXCEPT ![h] = [hand[h] EXCEPT !.pc = "send", !.to = registry]]
          BY <1>5, <3>2 DEF PushLookup, TypeOK
        <4> QED
          BY <4>2, <4>3 DEF TypeOK
      <3> QED
        BY <3>1, <3>2
    <2>2. lock' \in [Sources -> Handlers \cup {NoHandler}]
      BY <1>0, <1>5 DEF PushLookup, Answer, IdleHandler, TypeOK
    <2> QED
      BY <1>5, <2>1, <2>2, TypeFrame DEF PushLookup, Answer, IdleHandler, TypeOK
  <1>6. ASSUME NEW h \in Handlers, PushSend(h) PROVE TypeOK'
    <2>1. hand' \in [Handlers -> HandlerRecs]
      BY <1>0, <1>6 DEF PushSend, SendTo, Answer, IdleHandler, TypeOK, HandlerRecs, HandlerPCs
    <2>2. lock' \in [Sources -> Handlers \cup {NoHandler}]
      BY <1>0, <1>6 DEF PushSend, SendTo, Answer, IdleHandler, TypeOK
    <2>3. conn' \in [Conns -> SessionRecs(DOMAIN log)]
      <3>1. hand[h].to \in Conns /\ hand[h].next \in DOMAIN log
        BY <1>6 DEF PushSend, SendTo, HandlersKnow
      <3>2. conn[hand[h].to] \in SessionRecs(DOMAIN log)
        BY <3>1 DEF TypeOK
      <3>3. Append(conn[hand[h].to].out, hand[h].next) \in Seq(DOMAIN log)
        <4>1. conn[hand[h].to].out \in Seq(DOMAIN log)
          BY <3>2 DEF SessionRecs
        <4> QED
          BY <3>1, <4>1, SeqOps
      <3>4. /\ [conn[hand[h].to] EXCEPT !.out = Append(conn[hand[h].to].out, hand[h].next)]
                 \in SessionRecs(DOMAIN log)
            /\ [conn[hand[h].to] EXCEPT !.open = FALSE] \in SessionRecs(DOMAIN log)
        BY <3>2, <3>3 DEF SessionRecs
      <3>5. \E s \in SessionRecs(DOMAIN log) : conn' = [conn EXCEPT ![hand[h].to] = s]
        BY <1>6, <3>4 DEF PushSend, SendTo
      <3> QED
        BY <3>1, <3>5, ConnType
    <2> QED
      BY <1>6, <2>1, <2>2, <2>3, TypeFrame DEF PushSend, SendTo, Answer, IdleHandler, TypeOK
  <1>7. ASSUME NEW c \in Conns, Dial(c) PROVE TypeOK'
    <2>1. overlay' \in Conns \cup {NoConn}
      BY <1>0, <1>7 DEF Dial, NoSession, TypeOK
    <2>2. conn' \in [Conns -> SessionRecs(DOMAIN log)]
      <3>1. cursor \in {0} \cup DOMAIN log
        BY <1>0 DEF TypeOK
      <3>2. [NoSession EXCEPT !.pc = "add", !.open = TRUE, !.since = cursor]
              \in SessionRecs(DOMAIN log)
        BY <1>0, <3>1 DEF SessionRecs, ConnPCs
      <3> QED
        BY <1>7, <3>2, ConnType DEF Dial
    <2> QED
      BY <1>7, <2>1, <2>2, TypeFrame DEF Dial, NoSession, TypeOK
  <1>8. ASSUME NEW c \in Conns, RegistryAdd(c) PROVE TypeOK'
    <2>1. registry' \in Conns \cup {NoConn}
      BY <1>0, <1>8 DEF RegistryAdd, TypeOK
    <2>2. conn' \in [Conns -> SessionRecs(DOMAIN log)]
      <3>1. conn[c] \in SessionRecs(DOMAIN log)
        BY DEF TypeOK
      <3>2. [conn[c] EXCEPT !.pc = "displace", !.prev = registry]
              \in SessionRecs(DOMAIN log)
        BY <1>0, <3>1 DEF SessionRecs, ConnPCs, TypeOK
      <3>3. conn' = [conn EXCEPT ![c] = [conn[c] EXCEPT !.pc = "displace", !.prev = registry]]
        BY <1>8 DEF RegistryAdd, TypeOK
      <3> QED
        BY <3>2, <3>3, ConnType
    <2> QED
      BY <1>8, <2>1, <2>2, TypeFrame DEF RegistryAdd, TypeOK
  <1>9. ASSUME NEW c \in Conns, CloseDisplaced(c) PROVE TypeOK'
    <2>1. conn' \in [Conns -> SessionRecs(DOMAIN log)]
      <3>1. ASSUME NEW d \in Conns PROVE conn'[d] \in SessionRecs(DOMAIN log)
        <4>1. conn[d] \in SessionRecs(DOMAIN log) /\ conn[c] \in SessionRecs(DOMAIN log)
          BY DEF TypeOK
        <4>2. /\ [conn[c] EXCEPT !.pc = "read", !.prev = NoConn] \in SessionRecs(DOMAIN log)
              /\ [conn[d] EXCEPT !.open = FALSE] \in SessionRecs(DOMAIN log)
          BY <4>1 DEF SessionRecs, ConnPCs
        <4> QED
          BY <1>9, <4>1, <4>2 DEF CloseDisplaced
      <3> QED
        BY <1>9, <3>1 DEF CloseDisplaced
    <2> QED
      BY <1>9, <2>1, TypeFrame DEF CloseDisplaced, TypeOK
  <1>10. ASSUME NEW c \in Conns, ReadPage(c) PROVE TypeOK'
    <2>1. conn' \in [Conns -> SessionRecs(DOMAIN log)]
      <3>1. PICK page \in SUBSET DOMAIN log, full \in BOOLEAN :
              conn' = [conn EXCEPT ![c] = [@ EXCEPT !.pc = "replay", !.page = page, !.full = full]]
        <4>1. EventsAfter(conn[c].since) \in SUBSET DOMAIN log
          BY DEF EventsAfter, FirstOf
        <4> QED
          BY <1>10, <4>1 DEF ReadPage, ReadPageOf
      <3>2. conn[c] \in SessionRecs(DOMAIN log)
        BY DEF TypeOK
      <3>3. [conn[c] EXCEPT !.pc = "replay", !.page = page, !.full = full]
              \in SessionRecs(DOMAIN log)
        BY <3>2 DEF SessionRecs, ConnPCs
      <3>4. conn' = [conn EXCEPT ![c] = [conn[c] EXCEPT !.pc = "replay", !.page = page,
                                                                 !.full = full]]
        BY <3>1 DEF TypeOK
      <3> QED
        BY <3>3, <3>4, ConnType
    <2> QED
      BY <1>10, <2>1, TypeFrame DEF ReadPage, ReadPageOf, EventsAfter, FirstOf, TypeOK
  <1>11. ASSUME NEW c \in Conns, ReplayEvent(c) PROVE TypeOK'
    <2>1. conn' \in [Conns -> SessionRecs(DOMAIN log)]
      <3>1. PICK i \in conn[c].page : ReplayOne(c, i, i)
        BY <1>11 DEF ReplayEvent
      <3>2. conn[c] \in SessionRecs(DOMAIN log)
        BY DEF TypeOK
      <3>3. /\ i \in DOMAIN log /\ conn[c].replayed + 1 \in Nat
            /\ conn[c].page \ {i} \in SUBSET DOMAIN log
            /\ Append(conn[c].wrote, i) \in Seq(DOMAIN log)
        BY <3>2 DEF SessionRecs
      <3>4. [conn[c] EXCEPT !.page = conn[c].page \ {i}, !.since = i, !.last = i,
                            !.replayed = conn[c].replayed + 1,
                            !.wrote = Append(conn[c].wrote, i)]
              \in SessionRecs(DOMAIN log)
        BY <3>2, <3>3 DEF SessionRecs
      <3> QED
        BY <3>1, <3>4, DrainedType, ConnType DEF ReplayOne
    <2>2. runs' \in [Msgs -> Nat] /\ cursor' \in 0..Len(log)
      <3>1. PICK i \in conn[c].page : ReplayOne(c, i, i)
        BY <1>11 DEF ReplayEvent
      <3>2. i \in DOMAIN log
        BY DEF TypeOK, SessionRecs
      <3> QED
        BY <3>1, <3>2, WriteType DEF ReplayOne
    <2> QED
      BY <1>11, <2>1, <2>2, TypeFrame DEF ReplayEvent, ReplayOne, Write, TypeOK
  <1>12. ASSUME NEW c \in Conns, PageDone(c) PROVE TypeOK'
    <2>1. conn' \in [Conns -> SessionRecs(DOMAIN log)]
      <3>1. PICK pc \in {"ready", "closing", "read"} : conn' = [conn EXCEPT ![c].pc = pc]
        BY <1>12 DEF PageDone
      <3>2. conn[c] \in SessionRecs(DOMAIN log)
        BY DEF TypeOK
      <3>3. [conn[c] EXCEPT !.pc = pc] \in SessionRecs(DOMAIN log)
        BY <3>2 DEF SessionRecs, ConnPCs
      <3>4. conn' = [conn EXCEPT ![c] = [conn[c] EXCEPT !.pc = pc]]
        BY <3>1 DEF TypeOK
      <3> QED
        BY <3>3, <3>4, ConnType
    <2> QED
      BY <1>12, <2>1, TypeFrame DEF PageDone, TypeOK
  <1>13. ASSUME NEW c \in Conns, Ready(c) PROVE TypeOK'
    <2>1. conn' \in [Conns -> SessionRecs(DOMAIN log)]
      <3>1. conn[c] \in SessionRecs(DOMAIN log)
        BY DEF TypeOK
      <3>2. [conn[c] EXCEPT !.pc = "flush"] \in SessionRecs(DOMAIN log)
        BY <3>1 DEF SessionRecs, ConnPCs
      <3>3. conn' = [conn EXCEPT ![c] = Drained([conn[c] EXCEPT !.pc = "flush"])]
        BY <1>13 DEF Ready
      <3> QED
        BY <3>2, <3>3, DrainedType, ConnType
    <2> QED
      BY <1>13, <2>1, TypeFrame DEF Ready, TypeOK
  <1>14. ASSUME NEW c \in Conns, FlushPending(c) PROVE TypeOK'
    <2>1. CASE conn[c].pending = << >>
      <3>1. [conn[c] EXCEPT !.pc = "live"] \in SessionRecs(DOMAIN log)
        <4>1. conn[c] \in SessionRecs(DOMAIN log)
          BY DEF TypeOK
        <4> QED
          BY <4>1 DEF SessionRecs, ConnPCs
      <3>2. conn' = [conn EXCEPT ![c] = [conn[c] EXCEPT !.pc = "live"]]
        BY <1>14, <2>1 DEF FlushPending, TypeOK
      <3>3. conn' \in [Conns -> SessionRecs(DOMAIN log)]
        BY <3>1, <3>2, ConnType
      <3> QED
        BY <1>14, <2>1, <3>3, TypeFrame DEF FlushPending, TypeOK
    <2>2. CASE conn[c].pending # << >>
      <3>1. conn[c] \in SessionRecs(DOMAIN log)
        BY DEF TypeOK
      <3>2. Head(conn[c].pending) \in DOMAIN log /\ Tail(conn[c].pending) \in Seq(DOMAIN log)
        <4>1. conn[c].pending \in Seq(DOMAIN log)
          BY <3>1 DEF SessionRecs
        <4> QED
          BY <2>2, <4>1, SeqOps
      <3>3. [conn[c] EXCEPT !.pending = Tail(conn[c].pending)] \in SessionRecs(DOMAIN log)
        BY <3>1, <3>2 DEF SessionRecs
      <3>4. Forward(c, Head(conn[c].pending), [conn[c] EXCEPT !.pending = Tail(conn[c].pending)])
        BY <1>14, <2>2 DEF FlushPending
      <3>5. conn' \in [Conns -> SessionRecs(DOMAIN log)] /\ runs' \in [Msgs -> Nat] /\ cursor' \in 0..Len(log)
        BY <3>2, <3>3, <3>4, ForwardType
      <3> QED
        BY <1>14, <3>5, TypeFrame DEF FlushPending, TypeOK
    <2> QED
      BY <2>1, <2>2
  <1>15. ASSUME NEW c \in Conns, LiveFrame(c) PROVE TypeOK'
    <2>1. conn[c] \in SessionRecs(DOMAIN log)
      BY DEF TypeOK
    <2>2. Head(conn[c].out) \in DOMAIN log /\ Tail(conn[c].out) \in Seq(DOMAIN log)
      <3>1. conn[c].out \in Seq(DOMAIN log) /\ conn[c].out # << >>
        BY <1>15, <2>1 DEF LiveFrame, SessionRecs
      <3> QED
        BY <3>1, SeqOps
    <2>3. [conn[c] EXCEPT !.out = Tail(conn[c].out)] \in SessionRecs(DOMAIN log)
      BY <2>1, <2>2 DEF SessionRecs
    <2>4. Forward(c, Head(conn[c].out), [conn[c] EXCEPT !.out = Tail(conn[c].out)])
      BY <1>15 DEF LiveFrame
    <2>5. conn' \in [Conns -> SessionRecs(DOMAIN log)] /\ runs' \in [Msgs -> Nat] /\ cursor' \in 0..Len(log)
      BY <2>2, <2>3, <2>4, ForwardType
    <2> QED
      BY <1>15, <2>5, TypeFrame DEF LiveFrame, TypeOK
  <1>16. ASSUME NEW c \in Conns, StopWriting(c) PROVE TypeOK'
    <2>1. conn' \in [Conns -> SessionRecs(DOMAIN log)]
      BY <1>0, <1>16 DEF StopWriting, StopWritingIn, TypeOK, SessionRecs, ConnPCs
    <2> QED
      BY <1>16, <2>1, TypeFrame DEF StopWriting, StopWritingIn, TypeOK
  <1>17. ASSUME NEW c \in Conns, ReplayFails(c) PROVE TypeOK'
    <2>1. conn' \in [Conns -> SessionRecs(DOMAIN log)]
      <3>1. conn \in [Conns -> SessionRecs(DOMAIN log)]
        BY DEF TypeOK
      <3>2. [conn[c] EXCEPT !.pc = "closing"] \in SessionRecs(DOMAIN log)
        BY <3>1 DEF SessionRecs, ConnPCs
      <3>3. conn' = [conn EXCEPT ![c] = [conn[c] EXCEPT !.pc = "closing"]]
        BY <1>17 DEF ReplayFails
      <3> QED
        BY <3>1, <3>2, <3>3
    <2>2. faults' \in 0..MaxFaults
      BY <1>0, <1>17 DEF ReplayFails, TypeOK
    <2> QED
      BY <1>17, <2>1, <2>2, TypeFrame DEF ReplayFails, TypeOK
  <1>18. ASSUME NEW c \in Conns, Remove(c) PROVE TypeOK'
    <2>1. conn' \in [Conns -> SessionRecs(DOMAIN log)]
      BY <1>0, <1>18 DEF Remove, RemoveIf, NoSession, TypeOK, SessionRecs, ConnPCs
    <2>2. registry' \in Conns \cup {NoConn}
      BY <1>0, <1>18 DEF Remove, RemoveIf, NoSession, TypeOK
    <2>3. overlay' \in Conns \cup {NoConn}
      BY <1>0, <1>18 DEF Remove, RemoveIf, NoSession, TypeOK
    <2> QED
      BY <1>18, <2>1, <2>2, <2>3, TypeFrame DEF Remove, RemoveIf, NoSession, TypeOK
  <1>19. ASSUME NEW c \in Conns, SocketDropped(c) PROVE TypeOK'
    <2>1. overlay' \in Conns \cup {NoConn}
      BY <1>0, <1>19 DEF SocketDropped, TypeOK
    <2> QED
      BY <1>19, <2>1, TypeFrame DEF SocketDropped, TypeOK
  <1>20. ASSUME NEW h \in Handlers, InsertEvent(h) PROVE TypeOK'
    <2>1. hand' \in [Handlers -> HandlerRecs]
      <3>1. hand[h] \in HandlerRecs /\ hand[h].tries + 1 \in Nat
        BY DEF TypeOK, HandlerRecs
      <3>2. /\ [hand[h] EXCEPT !.pc = "snapshot", !.tries = hand[h].tries + 1] \in HandlerRecs
            /\ \A pc \in {"probe", "push"} : [hand[h] EXCEPT !.pc = pc] \in HandlerRecs
        BY <3>1 DEF HandlerRecs, HandlerPCs
      <3>3. \E r \in HandlerRecs : hand' = [hand EXCEPT ![h] = r]
        <4>1. \/ hand' = [hand EXCEPT ![h] = IdleHandler]
              \/ hand' = [hand EXCEPT ![h] = [hand[h] EXCEPT !.pc = "snapshot",
                                                              !.tries = hand[h].tries + 1]]
              \/ \E pc \in {"probe", "push"} : hand' = [hand EXCEPT ![h] = [hand[h] EXCEPT !.pc = pc]]
          BY <1>20 DEF InsertEvent, InsertUnless, Answer, TypeOK
        <4> QED
          BY <1>0, <3>2, <4>1
      <3> QED
        BY <3>3 DEF TypeOK
    <2>2. lock' \in [Sources -> Handlers \cup {NoHandler}]
      BY <1>20 DEF InsertEvent, InsertUnless, Answer, TypeOK
    <2>3. log' = log \/ log' = Append(log, hand[h].msg)
      BY <1>20 DEF InsertEvent, InsertUnless
    <2>4. hand[h].msg \in Msgs
      BY <1>20 DEF InsertEvent, InsertUnless, HandlersKnow
    <2>5. CASE log' = log
      BY <1>20, <2>1, <2>2, <2>5, TypeFrame DEF InsertEvent, InsertUnless, TypeOK
    <2>6. CASE log' = Append(log, hand[h].msg)
      BY <1>20, <2>1, <2>2, <2>4, <2>6, TypeAppend DEF InsertEvent, InsertUnless
    <2> QED
      BY <2>3, <2>5, <2>6
  <1>21. ASSUME NEW h \in Handlers, IngestFails(h) PROVE TypeOK'
    <2>1. hand' \in [Handlers -> HandlerRecs]
      BY <1>0, <1>21 DEF IngestFails, Answer, TypeOK
    <2>2. lock' \in [Sources -> Handlers \cup {NoHandler}]
      BY <1>21 DEF IngestFails, Answer, TypeOK
    <2>3. log' = log \/ log' = Append(log, hand[h].msg)
      BY <1>21 DEF IngestFails
    <2>4. hand[h].msg \in Msgs
      BY <1>21 DEF IngestFails, HandlersKnow
    <2>5. CASE log' = log
      BY <1>21, <2>1, <2>2, <2>5, TypeFrame DEF IngestFails, TypeOK
    <2>6. CASE log' = Append(log, hand[h].msg)
      BY <1>21, <2>1, <2>2, <2>4, <2>6, TypeAppend DEF IngestFails
    <2> QED
      BY <2>3, <2>5, <2>6
  <1>22. CASE OverlayLeaves
    BY <1>22, TypeFrame DEF OverlayLeaves, TypeOK
  <1>23. CASE Crash
    BY <1>0, <1>23, TypeFrame DEF Crash, TypeOK
  <1>24. CASE UNCHANGED vars
    BY <1>24, TypeFrame DEF vars, TypeOK
  <1> QED
    BY <1>1, <1>2, <1>3, <1>4, <1>5, <1>6, <1>7, <1>8, <1>9, <1>10, <1>11, <1>12, <1>13, <1>14, <1>15, <1>16, <1>17, <1>18, <1>19, <1>20, <1>21, <1>22, <1>23, <1>24
       DEF Next, HandlerStep, ConnStep
-----------------------------------------------------------------------------
\* Steps that move no handler and leave the log alone.
LEMMA HandlersFrame ==
  ASSUME HandlersKnow, hand' = hand, log' = log
  PROVE  HandlersKnow'
  BY DEF HandlersKnow

\* A handler answers.
LEMMA AnswerKnows ==
  ASSUME TypeOK, HandlersKnow, NEW h \in Handlers, Answer(h),
         \/ log' = log
         \/ \E m \in Msgs : log' = Append(log, m)
  PROVE  HandlersKnow'
  <1>1. \A g \in Handlers : IF g = h THEN hand'[g].pc = "idle" ELSE hand'[g] = hand[g]
    BY DEF Answer, TypeOK, IdleHandler
  <1>2. /\ DOMAIN log \subseteq DOMAIN log'
        /\ 1..(Len(log) + 1) \subseteq 1..(Len(log') + 1)
    BY DEF TypeOK
  <1> QED
    BY <1>1, <1>2 DEF HandlersKnow

LEMMA HandlersNext == IInv /\ [Next]_vars => HandlersKnow'
  <1> SUFFICES ASSUME TypeOK, HandlersKnow, [Next]_vars PROVE HandlersKnow'
    BY DEF IInv
  <1> USE ConstantsAssumption
  <1>0. log \in Seq(Msgs) /\ \A h \in Handlers : hand[h] \in HandlerRecs
    BY DEF TypeOK
  <1>1. ASSUME NEW h \in Handlers, NEW m \in Msgs, Deliver(h, m) PROVE HandlersKnow'
    <2>1. \A g \in Handlers : IF g = h THEN hand'[g].pc = "lock" /\ hand'[g].msg = m
                              ELSE hand'[g] = hand[g]
      BY <1>1 DEF Deliver, TypeOK, IdleHandler
    <2> QED
      BY <1>1, <2>1 DEF Deliver, HandlersKnow
  <1>2. ASSUME NEW h \in Handlers, TakeIngestLock(h) PROVE HandlersKnow'
    <2>1. \A g \in Handlers : IF g = h THEN /\ hand'[g].pc = "snapshot" /\ hand'[g].msg = hand[g].msg
                                            /\ hand[g].pc # "idle"
                              ELSE hand'[g] = hand[g]
      BY <1>0, <1>2 DEF TakeIngestLock, LockKeys, TypeOK, HandlerRecs
    <2> QED
      BY <1>2, <2>1 DEF TakeIngestLock, LockKeys, HandlersKnow
  <1>3. ASSUME NEW h \in Handlers, ReadTail(h) PROVE HandlersKnow'
    <2>1. \A g \in Handlers : IF g = h THEN /\ hand'[g].pc = "insert" /\ hand'[g].msg = hand[g].msg
                                            /\ hand[g].pc # "idle"
                                            /\ hand'[g].next = Len(log) + 1
                              ELSE hand'[g] = hand[g]
      BY <1>0, <1>3 DEF ReadTail, ReadTailThen, TypeOK, HandlerRecs
    <2>2. Len(log) + 1 \in 1..(Len(log) + 1) /\ log' = log
      BY <1>0, <1>3 DEF ReadTail, ReadTailThen
    <2> QED
      BY <1>3, <2>1, <2>2 DEF HandlersKnow
  <1>4. ASSUME NEW h \in Handlers, InsertEvent(h) PROVE HandlersKnow'
    <2>1. CASE log' = Append(log, hand[h].msg) /\ hand[h].next > Len(log)
               /\ hand' = [hand EXCEPT ![h].pc =
                             IF hand[h].msg \in CommandMsgs THEN "probe" ELSE "push"]
      <3>1. hand[h].pc # "idle" /\ hand[h].msg \in Msgs
        BY <1>4 DEF InsertEvent, InsertUnless, HandlersKnow
      <3>2. /\ DOMAIN log \subseteq DOMAIN log' /\ Len(log) + 1 \in DOMAIN log'
            /\ 1..(Len(log) + 1) \subseteq 1..(Len(log') + 1)
        BY <1>0, <2>1, <3>1
      <3>3. \A g \in Handlers : IF g = h THEN /\ hand'[g].msg = hand[g].msg
                                              /\ hand'[g].next = hand[g].next
                                              /\ hand'[g].pc \in {"probe", "push"}
                                              /\ hand'[g].pc = "probe" => hand[g].msg \in CommandMsgs
                                ELSE hand'[g] = hand[g]
        BY <1>0, <2>1 DEF TypeOK, HandlerRecs
      <3>4. hand[h].next \in DOMAIN log'
        <4>1. hand[h].pc = "insert"
          BY <1>4 DEF InsertEvent, InsertUnless
        <4>2. hand[h].next = Len(log) + 1
          BY <1>0, <2>1, <4>1 DEF HandlersKnow
        <4> QED
          BY <3>2, <4>2
      <3> QED
        BY <3>1, <3>2, <3>3, <3>4 DEF HandlersKnow
    <2>2. CASE log' = log /\ hand' = [hand EXCEPT ![h] = [@ EXCEPT !.pc = "snapshot", !.tries = hand[h].tries + 1]]
               /\ hand[h].pc = "insert"
      <3>1. \A g \in Handlers : IF g = h THEN hand'[g].pc = "snapshot" /\ hand'[g].msg = hand[g].msg
                                ELSE hand'[g] = hand[g]
        BY <1>0, <2>2 DEF TypeOK, HandlerRecs
      <3> QED
        BY <2>2, <3>1 DEF HandlersKnow
    <2>3. CASE log' = log /\ Answer(h)
      BY <2>3, AnswerKnows
    <2> QED
      BY <1>4, <2>1, <2>2, <2>3 DEF InsertEvent, InsertUnless
  <1>5. ASSUME NEW h \in Handlers, IngestFails(h) PROVE HandlersKnow'
    <2>1. hand[h].msg \in Msgs
      BY <1>5 DEF IngestFails, HandlersKnow
    <2> QED
      BY <1>5, <2>1, AnswerKnows DEF IngestFails
  <1>6. ASSUME NEW h \in Handlers, ProbeConnected(h) PROVE HandlersKnow'
    <2>1. \A g \in Handlers : IF g = h THEN /\ hand'[g].pc = "push" /\ hand'[g].msg = hand[g].msg
                                            /\ hand'[g].next = hand[g].next
                                            /\ hand[g].pc = "probe"
                              ELSE hand'[g] = hand[g]
      BY <1>0, <1>6 DEF ProbeConnected, TypeOK, HandlerRecs
    <2> QED
      BY <1>6, <2>1 DEF ProbeConnected, HandlersKnow
  <1>7. ASSUME NEW h \in Handlers, PushLookup(h) PROVE HandlersKnow'
    <2>1. CASE Answer(h)
      BY <1>7, <2>1, AnswerKnows DEF PushLookup
    <2>2. CASE registry # NoConn /\ hand' = [hand EXCEPT ![h] = [@ EXCEPT !.pc = "send", !.to = registry]]
      <3>1. \A g \in Handlers : IF g = h THEN /\ hand'[g].pc = "send" /\ hand'[g].msg = hand[g].msg
                                              /\ hand'[g].next = hand[g].next
                                              /\ hand'[g].to \in Conns
                                              /\ hand[g].pc = "push"
                                ELSE hand'[g] = hand[g]
        BY <1>0, <1>7, <2>2 DEF PushLookup, TypeOK, HandlerRecs
      <3> QED
        BY <1>7, <3>1 DEF PushLookup, HandlersKnow
    <2> QED
      BY <1>7, <2>1, <2>2 DEF PushLookup
  <1>8. ASSUME NEW h \in Handlers, PushSend(h) PROVE HandlersKnow'
    BY <1>8, AnswerKnows DEF PushSend, SendTo
  <1>9. ASSUME NEW c \in Conns, ConnStep(c) \/ Dial(c) \/ ReplayFails(c) \/ SocketDropped(c)
        PROVE  HandlersKnow'
    <2>1. hand' = hand /\ log' = log
      BY <1>9 DEF ConnStep, RegistryAdd, CloseDisplaced, ReadPage, ReadPageOf, ReplayEvent, ReplayOne,
                  PageDone, Ready, FlushPending, LiveFrame, StopWriting, StopWritingIn, Remove, RemoveIf, Dial,
                  ReplayFails, SocketDropped
    <2> QED
      BY <2>1, HandlersFrame
  <1>10. CASE OverlayLeaves \/ UNCHANGED vars
    BY <1>10, HandlersFrame DEF OverlayLeaves, vars
  <1>11. CASE Crash
    BY <1>11 DEF Crash, HandlersKnow, IdleHandler
  <1> QED
    BY <1>1, <1>2, <1>3, <1>4, <1>5, <1>6, <1>7, <1>8, <1>9, <1>10, <1>11 DEF Next, HandlerStep

\* Only a message the log does not have is appended.
LEMMA LoggedOnceNext == IInv /\ [Next]_vars => LoggedOnce'
  <1> SUFFICES ASSUME TypeOK, HandlersKnow, LoggedOnce, [Next]_vars PROVE LoggedOnce'
    BY DEF IInv
  <1>1. ASSUME NEW m \in Msgs, m \notin Logged, log' = Append(log, m) PROVE LoggedOnce'
    <2>1. /\ log \in Seq(Msgs) /\ DOMAIN log' = 1..(Len(log) + 1) /\ DOMAIN log = 1..Len(log)
          /\ \A i \in DOMAIN log : log'[i] = log[i] /\ log[i] # m
          /\ log'[Len(log) + 1] = m /\ Len(log) \in Nat
      BY <1>1 DEF TypeOK, Logged
    <2> QED
      BY <2>1 DEF LoggedOnce
  <1>2. log' = log \/ \E m \in Msgs : m \notin Logged /\ log' = Append(log, m)
    BY DEF Next, HandlerStep, ConnStep, Deliver, TakeIngestLock, LockKeys, ReadTail, ReadTailThen,
           InsertEvent, InsertUnless, IngestFails, ProbeConnected, PushLookup, PushSend, SendTo,
           RegistryAdd, CloseDisplaced, ReadPage, ReadPageOf, ReplayEvent, ReplayOne, PageDone,
           Ready, FlushPending, LiveFrame, StopWriting, StopWritingIn, Remove, RemoveIf, Dial, ReplayFails,
           SocketDropped, OverlayLeaves, Crash, vars, HandlersKnow
  <1>3. CASE log' = log
    BY <1>3 DEF LoggedOnce
  <1> QED
    BY <1>1, <1>2, <1>3
-----------------------------------------------------------------------------
InLoop == {"read", "replay", "ready", "flush", "live"}

\* Inside the websocket handler's loop, and when a connection is closed, neither the
\* registry nor what Registry.Add displaced changes.
LEMMA ConnsFrame ==
  ASSUME ConnsKnow, ServingIsRegistered, registry' = registry,
         \A d \in Conns : /\ conn'[d].prev = conn[d].prev
                          /\ conn'[d].open => conn[d].open
                          /\ \/ conn'[d].pc = conn[d].pc
                             \/ conn[d].pc \in InLoop /\ conn'[d].pc \in InLoop \cup {"closing"}
  PROVE  ConnsKnow' /\ ServingIsRegistered'
  BY DEF ConnsKnow, ServingIsRegistered, Serving, InLoop

\* Taking a frame off a queue and forwarding it leave the rest of the connection alone.
LEMMA SetQueue ==
  ASSUME NEW c \in Conns, conn[c] \in SessionRecs(DOMAIN log), NEW q
  PROVE  /\ LET s == [conn[c] EXCEPT !.out = q] IN
              s.pc = conn[c].pc /\ s.open = conn[c].open /\ s.prev = conn[c].prev /\ {"pc", "open", "prev"} \subseteq DOMAIN s
         /\ LET s == [conn[c] EXCEPT !.pending = q] IN
              s.pc = conn[c].pc /\ s.open = conn[c].open /\ s.prev = conn[c].prev /\ {"pc", "open", "prev"} \subseteq DOMAIN s
  BY DEF SessionRecs

LEMMA ForwardKeeps ==
  ASSUME TypeOK, NEW c \in Conns, NEW i, NEW s, Forward(c, i, s),
         {"pc", "open", "prev"} \subseteq DOMAIN s,
         s.pc = conn[c].pc /\ s.open = conn[c].open /\ s.prev = conn[c].prev
  PROVE  conn'[c].pc = conn[c].pc /\ conn'[c].open = conn[c].open /\ conn'[c].prev = conn[c].prev
  <1>1. conn'[c] = s \/ conn'[c] = [s EXCEPT !.wrote = Append(@, i)]
    BY DEF Forward, TypeOK
  <1> QED
    BY <1>1

LEMMA ConnsNext == IInv /\ [Next]_vars => ConnsKnow' /\ ServingIsRegistered'
  <1> SUFFICES ASSUME TypeOK, HandlersKnow, ConnsKnow, ServingIsRegistered, [Next]_vars
               PROVE  ConnsKnow' /\ ServingIsRegistered'
    BY DEF IInv
  <1> USE ConstantsAssumption
  <1>0. \A c \in Conns : conn[c] \in SessionRecs(DOMAIN log)
    BY DEF TypeOK
  <1>1. ASSUME UNCHANGED <<registry, conn>> PROVE ConnsKnow' /\ ServingIsRegistered'
    BY <1>1, ConnsFrame
  <1>2. ASSUME NEW h \in Handlers,
               \/ \E m \in Msgs : Deliver(h, m)
               \/ TakeIngestLock(h) \/ ReadTail(h) \/ InsertEvent(h) \/ IngestFails(h)
               \/ ProbeConnected(h) \/ PushLookup(h)
        PROVE  ConnsKnow' /\ ServingIsRegistered'
    BY <1>1, <1>2 DEF Deliver, TakeIngestLock, LockKeys, ReadTail, ReadTailThen, InsertEvent,
                      InsertUnless, IngestFails, ProbeConnected, PushLookup
  <1>3. ASSUME NEW h \in Handlers, PushSend(h) PROVE ConnsKnow' /\ ServingIsRegistered'
    <2>1. hand[h].to \in Conns
      BY <1>3 DEF PushSend, SendTo, HandlersKnow
    <2>2. \A d \in Conns : /\ conn'[d].prev = conn[d].prev /\ conn'[d].pc = conn[d].pc
                           /\ conn'[d].open => conn[d].open
      BY <1>0, <1>3, <2>1 DEF PushSend, SendTo, TypeOK, SessionRecs
    <2> QED
      BY <1>3, <2>2, ConnsFrame DEF PushSend, SendTo
  <1>4. ASSUME NEW c \in Conns, Dial(c) PROVE ConnsKnow' /\ ServingIsRegistered'
    <2>1. \A d \in Conns : IF d = c THEN conn'[d].pc = "add" /\ conn'[d].prev = NoConn
                           ELSE conn'[d] = conn[d]
      BY <1>4 DEF Dial, NoSession, TypeOK
    <2>2. conn[c].pc = "gone" /\ conn[c].prev = NoConn /\ registry # c /\ registry' = registry
      BY <1>4 DEF Dial, Fresh, ConnsKnow
    <2> QED
      BY <2>1, <2>2 DEF ConnsKnow, ServingIsRegistered, Serving
  <1>5. ASSUME NEW c \in Conns, RegistryAdd(c) PROVE ConnsKnow' /\ ServingIsRegistered'
    <2>1. \A d \in Conns : IF d = c THEN /\ conn'[d].pc = "displace" /\ conn'[d].prev = registry
                                         /\ conn[d].pc = "add"
                           ELSE conn'[d] = conn[d]
      BY <1>0, <1>5 DEF RegistryAdd, TypeOK, SessionRecs
    <2>2. registry # c /\ registry' = c /\ conn[c].prev = NoConn
      BY <1>5 DEF RegistryAdd, ConnsKnow
    <2>3. ConnsKnow'
      BY <2>1, <2>2 DEF ConnsKnow
    <2>4. ASSUME NEW d \in Conns, Serving(d)', d # c PROVE FALSE
      <3>1. Serving(d)
        BY <2>1, <2>2, <2>4 DEF Serving
      <3>2. registry = d
        BY <3>1 DEF ServingIsRegistered
      <3> QED
        BY <2>1, <2>4, <3>2 DEF Serving
    <2> QED
      BY <2>2, <2>3, <2>4 DEF ServingIsRegistered
  <1>6. ASSUME NEW c \in Conns, CloseDisplaced(c) PROVE ConnsKnow' /\ ServingIsRegistered'
    <2>1. \A d \in Conns : IF d = c THEN /\ conn'[d].pc = "read" /\ conn'[d].prev = NoConn
                                         /\ conn'[d].open = conn[d].open
                                         /\ conn[d].pc = "displace"
                           ELSE /\ conn'[d].pc = conn[d].pc /\ conn'[d].prev = conn[d].prev
                                /\ conn'[d].open => conn[d].open
                                /\ d = conn[c].prev => ~conn'[d].open
      BY <1>0, <1>6 DEF CloseDisplaced, TypeOK, SessionRecs
    <2>2. registry' = registry /\ conn[c].prev # c
      BY <1>6 DEF CloseDisplaced, ConnsKnow
    <2>3. ConnsKnow'
      BY <2>1, <2>2 DEF ConnsKnow
    <2>4. ASSUME NEW d \in Conns, Serving(d)' PROVE Serving(d)
      <3>1. d # conn[c].prev
        BY <2>1, <2>2, <2>4 DEF Serving
      <3> QED
        BY <2>1, <2>4, <3>1 DEF Serving
    <2> QED
      BY <2>2, <2>3, <2>4 DEF ServingIsRegistered
  <1>7. ASSUME NEW c \in Conns, Remove(c) PROVE ConnsKnow' /\ ServingIsRegistered'
    <2>1. \A d \in Conns : IF d = c THEN /\ conn'[d].pc = "gone" /\ conn'[d].prev = NoConn
                                         /\ conn[d].pc = "closing" /\ conn[d].prev = NoConn
                           ELSE conn'[d] = conn[d]
      BY <1>7 DEF Remove, RemoveIf, NoSession, TypeOK, ConnsKnow
    <2>2. registry' = IF registry = c THEN NoConn ELSE registry
      BY <1>7 DEF Remove, RemoveIf
    <2> QED
      BY <2>1, <2>2 DEF ConnsKnow, ServingIsRegistered, Serving
  <1>8. ASSUME NEW c \in Conns,
               \/ ReadPage(c) \/ ReplayEvent(c) \/ PageDone(c) \/ Ready(c) \/ FlushPending(c)
               \/ LiveFrame(c) \/ StopWriting(c) \/ ReplayFails(c)
        PROVE  ConnsKnow' /\ ServingIsRegistered'
    <2>1. registry' = registry /\ \A d \in Conns : d # c => conn'[d] = conn[d]
      BY <1>8 DEF ReadPage, ReadPageOf, ReplayEvent, ReplayOne, PageDone, Ready, FlushPending,
                  LiveFrame, Forward, StopWriting, StopWritingIn, ReplayFails, TypeOK
    <2>2. /\ conn'[c].prev = conn[c].prev /\ conn'[c].open = conn[c].open
          /\ conn[c].pc \in InLoop /\ conn'[c].pc \in InLoop \cup {"closing"}
      <3>1. CASE ReadPage(c)
        BY <1>0, <3>1 DEF ReadPage, ReadPageOf, TypeOK, SessionRecs, InLoop
      <3>2. CASE ReplayEvent(c)
        <4>1. PICK i \in conn[c].page : ReplayOne(c, i, i)
          BY <3>2 DEF ReplayEvent
        <4> DEFINE s == [conn[c] EXCEPT !.page = conn[c].page \ {i}, !.since = i, !.last = i,
                                        !.replayed = conn[c].replayed + 1,
                                        !.wrote = Append(conn[c].wrote, i)]
        <4>2. /\ s.pc = "replay" /\ s.open = conn[c].open /\ s.prev = conn[c].prev
              /\ DOMAIN s = {"pc", "open", "full", "since", "last", "replayed", "page", "prev",
                            "out", "pending", "wrote"}
          BY <1>0, <4>1 DEF ReplayOne, SessionRecs
        <4>3. conn'[c] = Drained(s)
          BY <4>1 DEF ReplayOne, TypeOK
        <4> HIDE DEF s
        <4>4. /\ Drained(s).pc \in {s.pc, "closing"} /\ Drained(s).open = s.open
              /\ Drained(s).prev = s.prev
          BY <4>2 DEF Drained, Shed
        <4> QED
          BY <4>1, <4>2, <4>3, <4>4 DEF ReplayOne, InLoop
      <3>3. CASE PageDone(c)
        BY <1>0, <3>3 DEF PageDone, TypeOK, SessionRecs, InLoop
      <3>4. CASE Ready(c)
        BY <1>0, <3>4 DEF Ready, Drained, Shed, TypeOK, SessionRecs, InLoop
      <3>5. CASE FlushPending(c)
        <4>1. CASE conn[c].pending = << >>
          BY <1>0, <3>5, <4>1 DEF FlushPending, TypeOK, SessionRecs, InLoop
        <4>2. CASE conn[c].pending # << >>
          BY <1>0, <3>5, <4>2, ForwardKeeps, SetQueue DEF FlushPending, InLoop
        <4> QED
          BY <4>1, <4>2
      <3>6. CASE LiveFrame(c)
        BY <1>0, <3>6, ForwardKeeps, SetQueue DEF LiveFrame, InLoop
      <3>7. CASE StopWriting(c)
        BY <1>0, <3>7 DEF StopWriting, StopWritingIn, TypeOK, SessionRecs, InLoop
      <3>8. CASE ReplayFails(c)
        BY <1>0, <3>8 DEF ReplayFails, TypeOK, SessionRecs, InLoop
      <3> QED
        BY <1>8, <3>1, <3>2, <3>3, <3>4, <3>5, <3>6, <3>7, <3>8
    <2> QED
      BY <2>1, <2>2, ConnsFrame
  <1>9. ASSUME NEW c \in Conns, SocketDropped(c) PROVE ConnsKnow' /\ ServingIsRegistered'
    BY <1>1, <1>9 DEF SocketDropped
  <1>10. CASE OverlayLeaves \/ UNCHANGED vars
    BY <1>1, <1>10 DEF OverlayLeaves, vars
  <1>11. CASE Crash
    BY <1>11 DEF Crash, ConnsKnow, ServingIsRegistered, Serving, NoSession
  <1> QED
    BY <1>2, <1>3, <1>4, <1>5, <1>6, <1>7, <1>8, <1>9, <1>10, <1>11 DEF Next, HandlerStep, ConnStep
-----------------------------------------------------------------------------
LEMMA IInvNext == IInv /\ [Next]_vars => IInv'
  BY TypeNext, HandlersNext, LoggedOnceNext, ConnsNext DEF IInv

THEOREM Inductive == Spec => []IInv
  BY InitIInv, IInvNext, PTL DEF Spec

\* The log, locks, handlers, connections and the overlay's cursor keep their types; in
\* particular every queued or pushed frame is of an event that is in the log.
THEOREM TypeCorrect == Spec => []TypeOK
  <1>1. IInv => TypeOK
    BY DEF IInv
  <1> QED
    BY Inductive, <1>1, PTL

\* However many deliveries of however many messages race, no message is logged twice.
THEOREM LoggedAtMostOnce == Spec => []LoggedOnce
  <1>1. IInv => LoggedOnce
    BY DEF IInv
  <1> QED
    BY Inductive, <1>1, PTL

\* A serving connection that no newer one is displacing is the registered one, however
\* connections come, go, are shed and are displaced.
THEOREM ServingRegistered == Spec => []ServingIsRegistered
  <1>1. IInv => ServingIsRegistered
    BY DEF IInv
  <1> QED
    BY Inductive, <1>1, PTL

-----------------------------------------------------------------------------
(* Where a row is: the queue of a connection, and what each step does to it. *)

\* One queue is a stretch of another: nothing is reordered, repeated or made up.
Stretch(r, q) == \E k \in Nat : \A a \in DOMAIN r : a + k \in DOMAIN q /\ r[a] = q[a + k]

LEMMA Stretches ==
  ASSUME NEW S, NEW q \in Seq(S)
  PROVE  Stretch(q, q) /\ Stretch(<< >>, q) /\ (q # << >> => Stretch(Tail(q), q))
  <1>1. Stretch(q, q)
    <2>1. \A a \in DOMAIN q : a + 0 \in DOMAIN q /\ q[a] = q[a + 0]
      OBVIOUS
    <2> QED
      BY <2>1, 0 \in Nat DEF Stretch
  <1>2. Stretch(<< >>, q)
    BY 0 \in Nat DEF Stretch
  <1>3. ASSUME q # << >> PROVE Stretch(Tail(q), q)
    <2>1. \A a \in DOMAIN Tail(q) : a + 1 \in DOMAIN q /\ Tail(q)[a] = q[a + 1]
      BY <1>3
    <2> QED
      BY <2>1, 1 \in Nat DEF Stretch
  <1> QED
    BY <1>1, <1>2, <1>3

LEMMA QueueType ==
  ASSUME TypeOK, NEW c \in Conns
  PROVE  /\ Queue(c) \in Seq(DOMAIN log)
         /\ conn[c].pending \in Seq(DOMAIN log) /\ conn[c].out \in Seq(DOMAIN log)
         /\ conn[c].wrote \in Seq(DOMAIN log) /\ conn[c].page \subseteq DOMAIN log
         /\ DOMAIN log = 1..Len(log) /\ Len(log) \in Nat
         /\ conn[c].since \in 0..Len(log) /\ conn[c].last \in 0..Len(log)
         /\ conn[c] \in SessionRecs(DOMAIN log)
  <1>1. conn[c] \in SessionRecs(DOMAIN log) /\ DOMAIN log = 1..Len(log) /\ Len(log) \in Nat
    BY DEF TypeOK
  <1> QED
    BY <1>1 DEF SessionRecs, Queue

LEMMA QueueTypeNext ==
  ASSUME TypeOK', NEW c \in Conns
  PROVE  /\ Queue(c)' \in Seq(DOMAIN log')
         /\ conn'[c].pending \in Seq(DOMAIN log') /\ conn'[c].out \in Seq(DOMAIN log')
         /\ conn'[c].wrote \in Seq(DOMAIN log') /\ conn'[c].page \subseteq DOMAIN log'
         /\ DOMAIN log' = 1..Len(log') /\ Len(log') \in Nat
         /\ conn'[c].since \in 0..Len(log') /\ conn'[c].last \in 0..Len(log')
         /\ conn'[c] \in SessionRecs(DOMAIN log')
  <1>1. conn'[c] \in SessionRecs(DOMAIN log') /\ DOMAIN log' = 1..Len(log') /\ Len(log') \in Nat
    BY DEF TypeOK
  <1> QED
    BY <1>1 DEF SessionRecs, Queue

\* Steps that insert no row, queue no frame and run nothing.
LEMMA OnceFrame ==
  ASSUME OnceInv, TypeOK', log' = log, runs' = runs,
         \A h \in Handlers : hand'[h].pc \in Inserted =>
           hand[h].pc \in Inserted /\ hand'[h].next = hand[h].next /\ hand'[h].msg = hand[h].msg,
         \A c \in Conns : Stretch(Queue(c)', Queue(c)) /\ \A i \in conn'[c].page : log[i] \in Paid
  PROVE  HandledOnce' /\ CommandsWait' /\ CommandAtMostOnce'
  <1>1. \A c \in Conns : DOMAIN Queue(c) \subseteq Nat /\ DOMAIN Queue(c)' \subseteq Nat
    BY QueueType, QueueTypeNext DEF OnceInv, IInv
  <1>2. HandledOnce'
    <2>1. ASSUME NEW h \in Handlers, hand'[h].pc \in Inserted
          PROVE  /\ log'[hand'[h].next] = hand'[h].msg
                 /\ \A g \in Handlers : hand'[g].pc \in Inserted /\ hand'[g].next = hand'[h].next => g = h
                 /\ \A c \in Conns : \A a \in DOMAIN Queue(c)' : Queue(c)'[a] # hand'[h].next
      BY <2>1 DEF OnceInv, HandledOnce, Stretch
    <2>2. ASSUME NEW c \in Conns, NEW d \in Conns, NEW a \in DOMAIN Queue(c)', NEW b \in DOMAIN Queue(d)',
                 Queue(c)'[a] = Queue(d)'[b]
          PROVE  c = d /\ a = b
      <3>1. PICK k \in Nat : \A x \in DOMAIN Queue(c)' : x + k \in DOMAIN Queue(c) /\ Queue(c)'[x] = Queue(c)[x + k]
        BY DEF Stretch
      <3>2. PICK l \in Nat : \A x \in DOMAIN Queue(d)' : x + l \in DOMAIN Queue(d) /\ Queue(d)'[x] = Queue(d)[x + l]
        BY DEF Stretch
      <3>3. c = d /\ a + k = b + l
        BY <2>2, <3>1, <3>2 DEF OnceInv, HandledOnce
      <3>4. a + k \in DOMAIN Queue(c) /\ b + k \in DOMAIN Queue(c) /\ Queue(c)[a + k] = Queue(c)[b + k]
        BY <2>2, <3>1, <3>3
      <3>5. a + k = b + k
        BY <3>4 DEF OnceInv, HandledOnce
      <3> QED
        BY <1>1, <3>3, <3>5
    <2> QED
      BY <2>1, <2>2 DEF HandledOnce
  <1>3. CommandsWait'
    BY DEF OnceInv, CommandsWait, Stretch, Logged
  <1> QED
    BY <1>2, <1>3 DEF OnceInv, CommandAtMostOnce

-----------------------------------------------------------------------------
(* What each step of a websocket handler does to its connection.           *)

\* The rest of the state a step of c leaves alone.
OnlyConn(c) == /\ log' = log /\ hand' = hand /\ lock' = lock
               /\ \A d \in Conns : d # c => conn'[d] = conn[d] /\ Queue(d)' = Queue(d)

LEMMA OtherQueues ==
  ASSUME NEW c, \A d \in Conns : d # c => conn'[d] = conn[d]
  PROVE  \A d \in Conns : d # c => conn'[d] = conn[d] /\ Queue(d)' = Queue(d)
  BY DEF Queue

LEMMA DrainedFields ==
  ASSUME NEW S, NEW s \in SessionRecs(S)
  PROVE  LET r == Drained(s) IN
         /\ r.pc \in {s.pc, "closing"} /\ r.open = s.open /\ r.since = s.since /\ r.page = s.page
         /\ r.full = s.full /\ r.last = s.last /\ r.wrote = s.wrote
         /\ r.pending \o r.out = s.pending \o s.out
  <1> DEFINE t == [s EXCEPT !.pending = s.pending \o s.out, !.out = << >>]
  <1>1. s.pending \in Seq(S) /\ s.out \in Seq(S)
    BY DEF SessionRecs
  <1>2. /\ t.pc = s.pc /\ t.open = s.open /\ t.since = s.since /\ t.page = s.page /\ t.full = s.full
        /\ t.last = s.last /\ t.wrote = s.wrote /\ t.pending = s.pending \o s.out /\ t.out = << >>
        /\ DOMAIN t = {"pc", "open", "full", "since", "last", "replayed", "page", "prev", "out",
                       "pending", "wrote"}
    BY DEF SessionRecs
  <1>3. t.pending \o t.out = s.pending \o s.out
    BY <1>1, <1>2
  <1>4. Drained(s) = t \/ Drained(s) = [t EXCEPT !.pc = "closing"]
    BY DEF Drained, Shed
  <1> HIDE DEF t
  <1>5. /\ Drained(s).pc \in {t.pc, "closing"} /\ Drained(s).open = t.open /\ Drained(s).since = t.since
        /\ Drained(s).page = t.page /\ Drained(s).full = t.full /\ Drained(s).last = t.last
        /\ Drained(s).wrote = t.wrote /\ Drained(s).pending = t.pending /\ Drained(s).out = t.out
    BY <1>2, <1>4
  <1> QED
    BY <1>2, <1>3, <1>5

LEMMA EndEffect ==
  ASSUME TypeOK, NEW c \in Conns, StopWriting(c) \/ ReplayFails(c)
  PROVE  /\ OnlyConn(c) /\ conn[c].pc # "closing" /\ conn'[c].pc = "closing"
         /\ conn'[c].open = conn[c].open /\ conn'[c].since = conn[c].since
         /\ conn'[c].last = conn[c].last /\ conn'[c].wrote = conn[c].wrote
         /\ conn'[c].page = conn[c].page /\ Queue(c)' = Queue(c)
         /\ registry' = registry /\ overlay' = overlay /\ cursor' = cursor /\ runs' = runs
  <1>1. conn[c] \in SessionRecs(DOMAIN log) /\ conn' = [conn EXCEPT ![c].pc = "closing"] /\ conn \in [Conns -> SessionRecs(DOMAIN log)]
    BY DEF TypeOK, StopWriting, StopWritingIn, ReplayFails
  <1>2. \A d \in Conns : d # c => conn'[d] = conn[d]
    BY <1>1
  <1>3. conn'[c] = [conn[c] EXCEPT !.pc = "closing"]
    BY <1>1
  <1> QED
    BY <1>1, <1>2, <1>3, OtherQueues DEF SessionRecs, Queue, OnlyConn, StopWriting, StopWritingIn, ReplayFails

LEMMA ReadPageEffect ==
  ASSUME TypeOK, NEW c \in Conns, ReadPage(c)
  PROVE  /\ OnlyConn(c) /\ conn[c].pc = "read" /\ conn'[c].pc = "replay"
         /\ conn'[c].open = conn[c].open /\ conn'[c].since = conn[c].since
         /\ conn'[c].last = conn[c].last /\ conn'[c].wrote = conn[c].wrote
         /\ conn'[c].page = EventsAfter(conn[c].since)
         /\ conn'[c].full = (Cardinality(EventsAfter(conn[c].since)) = MaxReplay)
         /\ Queue(c)' = Queue(c)
         /\ registry' = registry /\ overlay' = overlay /\ cursor' = cursor /\ runs' = runs
  <1> DEFINE P == EventsAfter(conn[c].since)
  <1>1. /\ conn[c] \in SessionRecs(DOMAIN log) /\ conn \in [Conns -> SessionRecs(DOMAIN log)]
        /\ conn' = [conn EXCEPT ![c] = [conn[c] EXCEPT !.pc = "replay", !.page = P, !.full = Cardinality(P) = MaxReplay]]
    BY DEF TypeOK, ReadPage, ReadPageOf
  <1> HIDE DEF P
  <1>2. \A d \in Conns : d # c => conn'[d] = conn[d]
    BY <1>1
  <1>3. conn'[c] = [conn[c] EXCEPT !.pc = "replay", !.page = P, !.full = Cardinality(P) = MaxReplay]
    BY <1>1
  <1>4. /\ conn'[c].pc = "replay" /\ conn'[c].open = conn[c].open /\ conn'[c].since = conn[c].since
        /\ conn'[c].last = conn[c].last /\ conn'[c].wrote = conn[c].wrote
        /\ conn'[c].pending = conn[c].pending /\ conn'[c].out = conn[c].out
        /\ conn'[c].page = P /\ conn'[c].full = (Cardinality(P) = MaxReplay)
    BY <1>1, <1>3 DEF SessionRecs
  <1> QED
    BY <1>2, <1>4, OtherQueues DEF Queue, OnlyConn, ReadPage, ReadPageOf, P

LEMMA ReplayEffect ==
  ASSUME TypeOK, NEW c \in Conns, ReplayEvent(c)
  PROVE  \E i \in conn[c].page :
         /\ OnlyConn(c) /\ conn[c].pc = "replay" /\ conn'[c].pc \in {"replay", "closing"}
         /\ \A j \in conn[c].page : i <= j
         /\ conn[c].open /\ conn'[c].open /\ conn'[c].since = i /\ conn'[c].last = i
         /\ conn'[c].wrote = Append(conn[c].wrote, i)
         /\ conn'[c].page = conn[c].page \ {i} /\ conn'[c].full = conn[c].full
         /\ Queue(c)' = Queue(c) /\ Write(c, i)
         /\ registry' = registry /\ overlay' = overlay
  <1>1. PICK i \in conn[c].page : ReplayOne(c, i, i)
    BY DEF ReplayEvent
  <1> DEFINE s == [conn[c] EXCEPT !.page = conn[c].page \ {i}, !.since = i, !.last = i,
                                  !.replayed = conn[c].replayed + 1,
                                  !.wrote = Append(conn[c].wrote, i)]
  <1>2. conn[c] \in SessionRecs(DOMAIN log) /\ conn \in [Conns -> SessionRecs(DOMAIN log)]
    BY DEF TypeOK
  <1>3. /\ s.pc = conn[c].pc /\ s.open = conn[c].open /\ s.since = i /\ s.last = i
        /\ s.wrote = Append(conn[c].wrote, i) /\ s.page = conn[c].page \ {i} /\ s.full = conn[c].full
        /\ s.pending = conn[c].pending /\ s.out = conn[c].out
    BY <1>2 DEF SessionRecs
  <1>4. s \in SessionRecs(DOMAIN log)
    <2>1. /\ i \in DOMAIN log /\ conn[c].replayed + 1 \in Nat
          /\ conn[c].page \ {i} \in SUBSET DOMAIN log
          /\ Append(conn[c].wrote, i) \in Seq(DOMAIN log)
      BY <1>2 DEF SessionRecs
    <2> QED
      BY <1>2, <2>1 DEF SessionRecs
  <1>5. conn' = [conn EXCEPT ![c] = Drained(s)]
    BY <1>1 DEF ReplayOne
  <1> HIDE DEF s
  <1>6. conn'[c] = Drained(s) /\ \A d \in Conns : d # c => conn'[d] = conn[d]
    BY <1>2, <1>5
  <1>7. /\ conn'[c].pc \in {s.pc, "closing"} /\ conn'[c].open = s.open /\ conn'[c].since = s.since
        /\ conn'[c].page = s.page /\ conn'[c].full = s.full /\ conn'[c].last = s.last
        /\ conn'[c].wrote = s.wrote /\ conn'[c].pending \o conn'[c].out = s.pending \o s.out
    BY <1>4, <1>6, DrainedFields
  <1>8. Queue(c)' = Queue(c)
    BY <1>3, <1>7 DEF Queue
  <1>9. conn[c].pc = "replay" /\ conn[c].open /\ Write(c, i) /\ registry' = registry /\ overlay' = overlay
        /\ \A j \in conn[c].page : i <= j
    BY <1>1 DEF ReplayOne
  <1>10. OnlyConn(c)
    BY <1>1, <1>6, OtherQueues DEF OnlyConn, ReplayOne
  <1> QED
    BY <1>3, <1>7, <1>8, <1>9, <1>10

LEMMA PageDoneEffect ==
  ASSUME TypeOK, NEW c \in Conns, PageDone(c)
  PROVE  /\ OnlyConn(c) /\ conn[c].pc = "replay" /\ conn[c].page = {} /\ conn'[c].page = {}
         /\ conn'[c].pc = IF ~conn[c].full THEN "ready"
                          ELSE IF conn[c].replayed >= MaxReplayPerConn THEN "closing" ELSE "read"
         /\ conn'[c].open = conn[c].open /\ conn'[c].since = conn[c].since
         /\ conn'[c].last = conn[c].last /\ conn'[c].wrote = conn[c].wrote /\ Queue(c)' = Queue(c)
         /\ registry' = registry /\ overlay' = overlay /\ cursor' = cursor /\ runs' = runs
  <1> DEFINE P == IF ~conn[c].full THEN "ready"
                  ELSE IF conn[c].replayed >= MaxReplayPerConn THEN "closing" ELSE "read"
  <1>1. /\ conn[c] \in SessionRecs(DOMAIN log) /\ conn \in [Conns -> SessionRecs(DOMAIN log)]
        /\ conn' = [conn EXCEPT ![c] = [conn[c] EXCEPT !.pc = P]]
    BY DEF TypeOK, PageDone
  <1> HIDE DEF P
  <1>2. conn'[c] = [conn[c] EXCEPT !.pc = P] /\ \A d \in Conns : d # c => conn'[d] = conn[d]
    BY <1>1
  <1>3. /\ conn'[c].pc = P /\ conn'[c].open = conn[c].open /\ conn'[c].since = conn[c].since
        /\ conn'[c].last = conn[c].last /\ conn'[c].wrote = conn[c].wrote
        /\ conn'[c].pending = conn[c].pending /\ conn'[c].out = conn[c].out
        /\ conn'[c].page = conn[c].page
    BY <1>1, <1>2 DEF SessionRecs
  <1> QED
    BY <1>2, <1>3, OtherQueues DEF Queue, OnlyConn, PageDone, P

LEMMA ReadyEffect ==
  ASSUME TypeOK, NEW c \in Conns, Ready(c)
  PROVE  /\ OnlyConn(c) /\ conn[c].pc = "ready" /\ conn[c].open /\ conn'[c].pc \in {"flush", "closing"}
         /\ conn'[c].open /\ conn'[c].since = conn[c].since /\ conn'[c].page = conn[c].page
         /\ conn'[c].last = conn[c].last /\ conn'[c].wrote = conn[c].wrote /\ Queue(c)' = Queue(c)
         /\ registry' = registry /\ overlay' = overlay /\ cursor' = cursor /\ runs' = runs
  <1> DEFINE s == [conn[c] EXCEPT !.pc = "flush"]
  <1>1. /\ conn[c] \in SessionRecs(DOMAIN log) /\ conn \in [Conns -> SessionRecs(DOMAIN log)]
        /\ conn' = [conn EXCEPT ![c] = Drained(s)]
    BY DEF TypeOK, Ready
  <1>2. /\ s.pc = "flush" /\ s.open = conn[c].open /\ s.since = conn[c].since /\ s.last = conn[c].last
        /\ s.wrote = conn[c].wrote /\ s.page = conn[c].page
        /\ s.pending = conn[c].pending /\ s.out = conn[c].out /\ s \in SessionRecs(DOMAIN log)
    BY <1>1 DEF SessionRecs, ConnPCs
  <1> HIDE DEF s
  <1>3. conn'[c] = Drained(s) /\ \A d \in Conns : d # c => conn'[d] = conn[d]
    BY <1>1
  <1>4. /\ conn'[c].pc \in {s.pc, "closing"} /\ conn'[c].open = s.open /\ conn'[c].since = s.since
        /\ conn'[c].page = s.page /\ conn'[c].last = s.last
        /\ conn'[c].wrote = s.wrote /\ conn'[c].pending \o conn'[c].out = s.pending \o s.out
    BY <1>2, <1>3, DrainedFields
  <1> QED
    BY <1>2, <1>3, <1>4, OtherQueues DEF Queue, OnlyConn, Ready

LEMMA FlushedEffect ==
  ASSUME TypeOK, NEW c \in Conns, FlushPending(c), conn[c].pending = << >>
  PROVE  /\ OnlyConn(c) /\ conn[c].pc = "flush" /\ conn'[c].pc = "live" /\ conn'[c].pending = << >>
         /\ conn'[c].open = conn[c].open /\ conn'[c].since = conn[c].since /\ conn'[c].page = conn[c].page
         /\ conn'[c].last = conn[c].last /\ conn'[c].wrote = conn[c].wrote /\ Queue(c)' = Queue(c)
         /\ registry' = registry /\ overlay' = overlay /\ cursor' = cursor /\ runs' = runs
  <1>1. /\ conn[c] \in SessionRecs(DOMAIN log) /\ conn \in [Conns -> SessionRecs(DOMAIN log)]
        /\ conn' = [conn EXCEPT ![c] = [conn[c] EXCEPT !.pc = "live"]]
    BY DEF TypeOK, FlushPending
  <1>2. conn'[c] = [conn[c] EXCEPT !.pc = "live"] /\ \A d \in Conns : d # c => conn'[d] = conn[d]
    BY <1>1
  <1>3. /\ conn'[c].pc = "live" /\ conn'[c].open = conn[c].open /\ conn'[c].since = conn[c].since
        /\ conn'[c].last = conn[c].last /\ conn'[c].wrote = conn[c].wrote
        /\ conn'[c].pending = conn[c].pending /\ conn'[c].out = conn[c].out
        /\ conn'[c].page = conn[c].page
    BY <1>1, <1>2 DEF SessionRecs
  <1> QED
    BY <1>2, <1>3, OtherQueues DEF Queue, OnlyConn, FlushPending

\* A frame leaves the head of the queue: dropped, or written.
ForwardStep(c) == \/ FlushPending(c) /\ conn[c].pending # << >>
                  \/ LiveFrame(c)

LEMMA TailOfConcat ==
  ASSUME NEW S, NEW p \in Seq(S), NEW q \in Seq(S)
  PROVE  /\ p # << >> => /\ p \o q # << >> /\ Head(p \o q) = Head(p)
                         /\ Tail(p) \o q = Tail(p \o q)
         /\ << >> \o q = q
  <1>1. << >> \o q = q
    OBVIOUS
  <1>2. ASSUME p # << >> PROVE p \o q # << >> /\ Head(p \o q) = Head(p)
    BY <1>2
  <1>3. ASSUME p # << >> PROVE Tail(p) \o q = Tail(p \o q)
    <2>1. /\ Tail(p) \o q \in Seq(S) /\ Tail(p \o q) \in Seq(S)
          /\ Len(Tail(p) \o q) = Len(p) + Len(q) - 1 /\ Len(Tail(p \o q)) = Len(p) + Len(q) - 1
      BY <1>3, <1>2
    <2>2. ASSUME NEW a \in 1..(Len(p) + Len(q) - 1) PROVE (Tail(p) \o q)[a] = Tail(p \o q)[a]
      BY <1>3, <1>2
    <2> QED
      BY <2>1, <2>2
  <1> QED
    BY <1>1, <1>2, <1>3

LEMMA AppendOfConcat ==
  ASSUME NEW S, NEW p \in Seq(S), NEW q \in Seq(S), NEW x \in S
  PROVE  p \o Append(q, x) = Append(p \o q, x)
  <1>1. /\ p \o Append(q, x) \in Seq(S) /\ Append(p \o q, x) \in Seq(S)
        /\ Len(p \o Append(q, x)) = Len(p) + Len(q) + 1 /\ Len(Append(p \o q, x)) = Len(p) + Len(q) + 1
    OBVIOUS
  <1>2. ASSUME NEW a \in 1..(Len(p) + Len(q) + 1) PROVE (p \o Append(q, x))[a] = Append(p \o q, x)[a]
    OBVIOUS
  <1> QED
    BY <1>1, <1>2

LEMMA ForwardFields ==
  ASSUME TypeOK, NEW c \in Conns, NEW i \in DOMAIN log, NEW s \in SessionRecs(DOMAIN log),
         Forward(c, i, s)
  PROVE  /\ \A d \in Conns : d # c => conn'[d] = conn[d]
         /\ conn'[c].pc = s.pc /\ conn'[c].open = s.open /\ conn'[c].since = s.since
         /\ conn'[c].page = s.page /\ conn'[c].last = s.last
         /\ conn'[c].pending = s.pending /\ conn'[c].out = s.out
         /\ \/ i <= conn[c].last /\ conn'[c].wrote = s.wrote /\ runs' = runs /\ cursor' = cursor
            \/ /\ ~(i <= conn[c].last) /\ conn[c].open /\ Write(c, i)
               /\ conn'[c].wrote = Append(s.wrote, i)
  <1>1. conn \in [Conns -> SessionRecs(DOMAIN log)]
    BY DEF TypeOK
  <1>2. CASE i <= conn[c].last
    BY <1>1, <1>2 DEF Forward
  <1>3. CASE ~(i <= conn[c].last)
    <2>1. /\ conn[c].open /\ Write(c, i)
          /\ conn' = [conn EXCEPT ![c] = [s EXCEPT !.wrote = Append(s.wrote, i)]]
      BY <1>3 DEF Forward
    <2>2. conn'[c] = [s EXCEPT !.wrote = Append(s.wrote, i)] /\ \A d \in Conns : d # c => conn'[d] = conn[d]
      BY <1>1, <2>1
    <2> QED
      BY <1>3, <2>1, <2>2 DEF SessionRecs
  <1> QED
    BY <1>2, <1>3

LEMMA ForwardEffect ==
  ASSUME TypeOK, Flushed, NEW c \in Conns, ForwardStep(c)
  PROVE  /\ OnlyConn(c) /\ Queue(c) # << >> /\ Queue(c)' = Tail(Queue(c))
         /\ conn[c].pc \in {"flush", "live"} /\ conn'[c].pc = conn[c].pc
         /\ conn'[c].open = conn[c].open /\ conn'[c].since = conn[c].since
         /\ conn'[c].page = conn[c].page /\ conn'[c].last = conn[c].last
         /\ registry' = registry /\ overlay' = overlay
         /\ \/ /\ Head(Queue(c)) <= conn[c].last /\ conn'[c].wrote = conn[c].wrote
               /\ runs' = runs /\ cursor' = cursor
            \/ /\ ~(Head(Queue(c)) <= conn[c].last) /\ conn[c].open /\ Write(c, Head(Queue(c)))
               /\ conn'[c].wrote = Append(conn[c].wrote, Head(Queue(c)))
  <1>0. /\ conn[c] \in SessionRecs(DOMAIN log)
        /\ conn[c].pending \in Seq(DOMAIN log) /\ conn[c].out \in Seq(DOMAIN log)
    BY QueueType
  <1>1. ASSUME NEW s \in SessionRecs(DOMAIN log), NEW i \in DOMAIN log, Forward(c, i, s),
               /\ s.pc = conn[c].pc /\ s.open = conn[c].open /\ s.since = conn[c].since
               /\ s.page = conn[c].page /\ s.last = conn[c].last /\ s.wrote = conn[c].wrote,
               Queue(c) # << >> /\ Head(Queue(c)) = i /\ s.pending \o s.out = Tail(Queue(c)),
               log' = log /\ hand' = hand /\ lock' = lock /\ registry' = registry /\ overlay' = overlay,
               conn[c].pc \in {"flush", "live"}
        PROVE  /\ OnlyConn(c) /\ Queue(c) # << >> /\ Queue(c)' = Tail(Queue(c))
               /\ conn[c].pc \in {"flush", "live"} /\ conn'[c].pc = conn[c].pc
               /\ conn'[c].open = conn[c].open /\ conn'[c].since = conn[c].since
               /\ conn'[c].page = conn[c].page /\ conn'[c].last = conn[c].last
               /\ registry' = registry /\ overlay' = overlay
               /\ \/ /\ Head(Queue(c)) <= conn[c].last /\ conn'[c].wrote = conn[c].wrote
                     /\ runs' = runs /\ cursor' = cursor
                  \/ /\ ~(Head(Queue(c)) <= conn[c].last) /\ conn[c].open /\ Write(c, Head(Queue(c)))
                     /\ conn'[c].wrote = Append(conn[c].wrote, Head(Queue(c)))
    <2>1. /\ \A d \in Conns : d # c => conn'[d] = conn[d]
          /\ conn'[c].pc = s.pc /\ conn'[c].open = s.open /\ conn'[c].since = s.since
          /\ conn'[c].page = s.page /\ conn'[c].last = s.last
          /\ conn'[c].pending = s.pending /\ conn'[c].out = s.out
          /\ \/ i <= conn[c].last /\ conn'[c].wrote = s.wrote /\ runs' = runs /\ cursor' = cursor
             \/ /\ ~(i <= conn[c].last) /\ conn[c].open /\ Write(c, i)
                /\ conn'[c].wrote = Append(s.wrote, i)
      BY <1>1, ForwardFields
    <2>2. Queue(c)' = Tail(Queue(c))
      <3>1. Queue(c)' = s.pending \o s.out
        BY <2>1 DEF Queue
      <3> QED
        BY <1>1, <3>1
    <2>3. OnlyConn(c)
      BY <1>1, <2>1, OtherQueues DEF OnlyConn
    <2> QED
      BY <1>1, <2>1, <2>2, <2>3
  <1>2. CASE FlushPending(c) /\ conn[c].pending # << >>
    <2> DEFINE s == [conn[c] EXCEPT !.pending = Tail(conn[c].pending)]
    <2>1. Head(conn[c].pending) \in DOMAIN log /\ Tail(conn[c].pending) \in Seq(DOMAIN log)
      BY <1>0, <1>2, SeqOps
    <2>2. /\ s \in SessionRecs(DOMAIN log) /\ s.pending = Tail(conn[c].pending) /\ s.out = conn[c].out
          /\ s.pc = conn[c].pc /\ s.open = conn[c].open /\ s.since = conn[c].since
          /\ s.page = conn[c].page /\ s.last = conn[c].last /\ s.wrote = conn[c].wrote
      BY <1>0, <2>1 DEF SessionRecs
    <2>3. Forward(c, Head(conn[c].pending), s) /\ conn[c].pc = "flush"
      BY <1>2 DEF FlushPending
    <2>4. log' = log /\ hand' = hand /\ lock' = lock /\ registry' = registry /\ overlay' = overlay
      BY <1>2 DEF FlushPending
    <2> HIDE DEF s
    <2>5. Queue(c) # << >> /\ Head(Queue(c)) = Head(conn[c].pending) /\ s.pending \o s.out = Tail(Queue(c))
      <3> DEFINE p == conn[c].pending  q == conn[c].out
      <3>1. p \in Seq(DOMAIN log) /\ q \in Seq(DOMAIN log) /\ p # << >>
        BY <1>0, <1>2
      <3>2. Queue(c) = p \o q /\ s.pending = Tail(p) /\ s.out = q
        BY <2>2 DEF Queue
      <3> HIDE DEF p, q
      <3>3. p \o q # << >> /\ Head(p \o q) = Head(p) /\ Tail(p) \o q = Tail(p \o q)
        BY <3>1, TailOfConcat
      <3> QED
        BY <3>2, <3>3 DEF p, q
    <2> QED
      BY <1>1, <2>1, <2>2, <2>3, <2>4, <2>5
  <1>3. CASE LiveFrame(c)
    <2> DEFINE s == [conn[c] EXCEPT !.out = Tail(conn[c].out)]
    <2>0. conn[c].out # << >> /\ conn[c].pc = "live" /\ conn[c].pending = << >>
      BY <1>3 DEF LiveFrame, Flushed
    <2>1. Head(conn[c].out) \in DOMAIN log /\ Tail(conn[c].out) \in Seq(DOMAIN log)
      BY <1>0, <2>0, SeqOps
    <2>2. /\ s \in SessionRecs(DOMAIN log) /\ s.pending = conn[c].pending /\ s.out = Tail(conn[c].out)
          /\ s.pc = conn[c].pc /\ s.open = conn[c].open /\ s.since = conn[c].since
          /\ s.page = conn[c].page /\ s.last = conn[c].last /\ s.wrote = conn[c].wrote
      BY <1>0, <2>1 DEF SessionRecs
    <2>3. Forward(c, Head(conn[c].out), s)
      BY <1>3 DEF LiveFrame
    <2>4. log' = log /\ hand' = hand /\ lock' = lock /\ registry' = registry /\ overlay' = overlay
      BY <1>3 DEF LiveFrame
    <2> HIDE DEF s
    <2>5. Queue(c) # << >> /\ Head(Queue(c)) = Head(conn[c].out) /\ s.pending \o s.out = Tail(Queue(c))
      BY <1>0, <2>0, <2>1, <2>2, TailOfConcat DEF Queue
    <2> QED
      BY <1>1, <2>0, <2>1, <2>2, <2>3, <2>4, <2>5
  <1> QED
    BY <1>2, <1>3 DEF ForwardStep

LEMMA DialEffect ==
  ASSUME TypeOK, NEW c \in Conns, Dial(c)
  PROVE  /\ OnlyConn(c) /\ Queue(c)' = << >> /\ conn'[c].pc = "add" /\ conn'[c].open
         /\ conn'[c].since = cursor /\ conn'[c].page = {} /\ conn'[c].last = 0 /\ conn'[c].wrote = << >>
         /\ overlay = NoConn /\ overlay' = c /\ registry' = registry /\ cursor' = cursor /\ runs' = runs
         /\ \A h \in Handlers : hand[h].to # c
  <1>1. /\ conn' = [conn EXCEPT ![c] = [NoSession EXCEPT !.pc = "add", !.open = TRUE, !.since = cursor]]
        /\ conn \in [Conns -> SessionRecs(DOMAIN log)]
    BY DEF TypeOK, Dial
  <1>2. /\ conn'[c] = [NoSession EXCEPT !.pc = "add", !.open = TRUE, !.since = cursor]
        /\ \A d \in Conns : d # c => conn'[d] = conn[d]
    BY <1>1
  <1>3. /\ conn'[c].pc = "add" /\ conn'[c].open /\ conn'[c].since = cursor /\ conn'[c].page = {}
        /\ conn'[c].last = 0 /\ conn'[c].wrote = << >> /\ conn'[c].pending = << >> /\ conn'[c].out = << >>
    BY <1>2 DEF NoSession
  <1>4. Queue(c)' = << >>
    BY <1>3 DEF Queue
  <1> QED
    BY <1>2, <1>3, <1>4, OtherQueues DEF OnlyConn, Dial, Fresh

LEMMA AddEffect ==
  ASSUME TypeOK, NEW c \in Conns, RegistryAdd(c)
  PROVE  /\ OnlyConn(c) /\ Queue(c)' = Queue(c) /\ conn[c].pc = "add" /\ conn'[c].pc = "displace"
         /\ conn'[c].since = conn[c].since /\ conn'[c].page = conn[c].page
         /\ conn'[c].last = conn[c].last /\ conn'[c].wrote = conn[c].wrote
         /\ overlay' = overlay /\ registry' = c /\ cursor' = cursor /\ runs' = runs
  <1>1. /\ conn' = [conn EXCEPT ![c] = [conn[c] EXCEPT !.pc = "displace", !.prev = registry]]
        /\ conn \in [Conns -> SessionRecs(DOMAIN log)] /\ conn[c] \in SessionRecs(DOMAIN log)
    BY DEF TypeOK, RegistryAdd
  <1>2. /\ conn'[c] = [conn[c] EXCEPT !.pc = "displace", !.prev = registry]
        /\ \A d \in Conns : d # c => conn'[d] = conn[d]
    BY <1>1
  <1>3. /\ conn'[c].pc = "displace" /\ conn'[c].since = conn[c].since /\ conn'[c].page = conn[c].page
        /\ conn'[c].last = conn[c].last /\ conn'[c].wrote = conn[c].wrote
        /\ conn'[c].pending = conn[c].pending /\ conn'[c].out = conn[c].out
    BY <1>1, <1>2 DEF SessionRecs
  <1> QED
    BY <1>2, <1>3, OtherQueues DEF OnlyConn, Queue, RegistryAdd

LEMMA DisplaceEffect ==
  ASSUME TypeOK, NEW c \in Conns, CloseDisplaced(c)
  PROVE  /\ log' = log /\ hand' = hand /\ lock' = lock
         /\ overlay' = overlay /\ registry' = registry /\ cursor' = cursor /\ runs' = runs
         /\ \A d \in Conns :
              /\ Queue(d)' = Queue(d) /\ conn'[d].since = conn[d].since /\ conn'[d].page = conn[d].page
              /\ conn'[d].last = conn[d].last /\ conn'[d].wrote = conn[d].wrote
              /\ conn'[d].full = conn[d].full /\ (conn'[d].open => conn[d].open)
              /\ IF d = c THEN conn[d].pc = "displace" /\ conn'[d].pc = "read"
                 ELSE conn'[d].pc = conn[d].pc /\ conn'[d].pending = conn[d].pending
  <1>1. log' = log /\ hand' = hand /\ lock' = lock
        /\ overlay' = overlay /\ registry' = registry /\ cursor' = cursor /\ runs' = runs
    BY DEF CloseDisplaced
  <1>2. ASSUME NEW d \in Conns
        PROVE  /\ conn'[d].since = conn[d].since /\ conn'[d].page = conn[d].page
               /\ conn'[d].last = conn[d].last /\ conn'[d].wrote = conn[d].wrote
               /\ conn'[d].full = conn[d].full /\ (conn'[d].open => conn[d].open)
               /\ conn'[d].pending = conn[d].pending /\ conn'[d].out = conn[d].out
               /\ IF d = c THEN conn[d].pc = "displace" /\ conn'[d].pc = "read"
                  ELSE conn'[d].pc = conn[d].pc
    <2>1. conn[c] \in SessionRecs(DOMAIN log) /\ conn[d] \in SessionRecs(DOMAIN log)
      BY DEF TypeOK
    <2>2. conn'[d] \in {conn[d], [conn[d] EXCEPT !.open = FALSE]} \/ d = c
      BY DEF CloseDisplaced
    <2>3. d = c => conn'[d] = [conn[c] EXCEPT !.pc = "read", !.prev = NoConn] /\ conn[c].pc = "displace"
      BY DEF CloseDisplaced
    <2>4. d # c => conn'[d] \in {conn[d], [conn[d] EXCEPT !.open = FALSE]}
      BY <2>2
    <2>5. CASE d = c
      BY <2>1, <2>3, <2>5 DEF SessionRecs
    <2>6. CASE d # c
      BY <2>1, <2>4, <2>6 DEF SessionRecs
    <2> QED
      BY <2>5, <2>6
  <1> QED
    BY <1>1, <1>2 DEF Queue

LEMMA RemoveEffect ==
  ASSUME TypeOK, NEW c \in Conns, Remove(c)
  PROVE  /\ OnlyConn(c) /\ Queue(c)' = << >> /\ conn'[c] = NoSession
         /\ overlay' = IF overlay = c THEN NoConn ELSE overlay
         /\ registry' = IF registry = c THEN NoConn ELSE registry
         /\ cursor' = cursor /\ runs' = runs
  <1>1. conn' = [conn EXCEPT ![c] = NoSession] /\ conn \in [Conns -> SessionRecs(DOMAIN log)]
    BY DEF TypeOK, Remove, RemoveIf
  <1>2. conn'[c] = NoSession /\ \A d \in Conns : d # c => conn'[d] = conn[d]
    BY <1>1
  <1>3. Queue(c)' = << >>
    BY <1>2 DEF Queue, NoSession
  <1> QED
    BY <1>2, <1>3, OtherQueues DEF OnlyConn, Remove, RemoveIf

-----------------------------------------------------------------------------
(* What each step of a request does to the handlers.                       *)

LEMMA AnswerEffect ==
  ASSUME TypeOK, NEW h \in Handlers, Answer(h)
  PROVE  /\ hand'[h].pc = "idle" /\ hand'[h].msg = NoMsg
         /\ \A g \in Handlers : g # h => hand'[g] = hand[g]
         /\ \A s \in Sources : lock'[s] = IF lock[s] = h THEN NoHandler ELSE lock[s]
  BY DEF TypeOK, Answer, IdleHandler

\* A handler that holds an inserted row has held it before the step.
HandsKeep == \A g \in Handlers : hand'[g].pc \in Inserted =>
  hand[g].pc \in Inserted /\ hand'[g].next = hand[g].next /\ hand'[g].msg = hand[g].msg

LEMMA InsertEffect ==
  ASSUME TypeOK, HandlersKnow, NEW h \in Handlers, InsertEvent(h)
  PROVE  /\ hand[h].pc = "insert" /\ hand[h].msg \in Msgs
         /\ UNCHANGED <<conn, registry, overlay, cursor, runs>>
         /\ \/ log' = log /\ HandsKeep /\ Answer(h)
            \/ /\ log' = log /\ HandsKeep /\ lock' = lock
               /\ hand'[h].pc = "snapshot" /\ hand'[h].msg = hand[h].msg
               /\ \A g \in Handlers : g # h => hand'[g] = hand[g]
            \/ /\ log' = Append(log, hand[h].msg) /\ hand[h].msg \notin Logged /\ lock' = lock
               /\ hand'[h].pc = (IF hand[h].msg \in CommandMsgs THEN "probe" ELSE "push")
               /\ hand'[h].msg = hand[h].msg /\ hand'[h].next = Len(log) + 1
               /\ \A g \in Handlers : g # h => hand'[g] = hand[g]
  <1>1. /\ hand[h].pc = "insert" /\ hand[h].msg \in Msgs /\ hand[h].next \in 1..(Len(log) + 1)
        /\ UNCHANGED <<conn, registry, overlay, cursor, runs>>
        /\ Len(log) \in Nat
    BY DEF InsertEvent, InsertUnless, HandlersKnow, TypeOK
  <1>2. CASE Answer(h) /\ log' = log
    <2>1. HandsKeep
      BY <1>2, AnswerEffect DEF HandsKeep, Inserted
    <2> QED
      BY <1>1, <1>2, <2>1
  <1>3. CASE /\ log' = log /\ lock' = lock
             /\ hand' = [hand EXCEPT ![h] = [@ EXCEPT !.pc = "snapshot", !.tries = hand[h].tries + 1]]
    <2>1. /\ hand'[h].pc = "snapshot" /\ hand'[h].msg = hand[h].msg
          /\ \A g \in Handlers : g # h => hand'[g] = hand[g]
      BY <1>3 DEF TypeOK, HandlerRecs
    <2>2. HandsKeep
      BY <2>1 DEF HandsKeep, Inserted
    <2> QED
      BY <1>1, <1>3, <2>1, <2>2
  <1>4. CASE /\ hand[h].msg \notin Logged /\ hand[h].next > Len(log)
             /\ log' = Append(log, hand[h].msg) /\ lock' = lock
             /\ hand' = [hand EXCEPT ![h].pc = IF hand[h].msg \in CommandMsgs THEN "probe" ELSE "push"]
    <2>1. hand[h].next = Len(log) + 1
      BY <1>1, <1>4
    <2>2. /\ hand'[h].pc = (IF hand[h].msg \in CommandMsgs THEN "probe" ELSE "push")
          /\ hand'[h].msg = hand[h].msg /\ hand'[h].next = hand[h].next
          /\ \A g \in Handlers : g # h => hand'[g] = hand[g]
      BY <1>4 DEF TypeOK, HandlerRecs
    <2> QED
      BY <1>1, <1>4, <2>1, <2>2
  <1> QED
    BY <1>1, <1>2, <1>3, <1>4 DEF InsertEvent, InsertUnless

\* The other steps of a request insert nothing, except that a failed INSERT may commit.
LEMMA RequestEffect ==
  ASSUME TypeOK, HandlersKnow, NEW h \in Handlers,
         \/ \E m \in Msgs : Deliver(h, m)
         \/ TakeIngestLock(h) \/ ReadTail(h) \/ IngestFails(h) \/ ProbeConnected(h)
         \/ PushLookup(h) \/ PushSend(h)
  PROVE  HandsKeep /\ UNCHANGED <<registry, overlay, cursor, runs>>
  <1>1. CASE \E m \in Msgs : Deliver(h, m)
    <2>1. /\ hand'[h].pc = "lock" /\ \A g \in Handlers : g # h => hand'[g] = hand[g]
          /\ UNCHANGED <<registry, overlay, cursor, runs>>
      BY <1>1 DEF Deliver, IdleHandler, TypeOK
    <2> QED
      BY <2>1 DEF HandsKeep, Inserted
  <1>2. CASE TakeIngestLock(h)
    BY <1>2 DEF TakeIngestLock, LockKeys, HandsKeep, Inserted, TypeOK, HandlerRecs
  <1>3. CASE ReadTail(h)
    BY <1>3 DEF ReadTail, ReadTailThen, HandsKeep, Inserted, TypeOK, HandlerRecs
  <1>4. CASE IngestFails(h)
    BY <1>4, AnswerEffect DEF IngestFails, HandsKeep, Inserted
  <1>5. CASE ProbeConnected(h)
    BY <1>5 DEF ProbeConnected, HandsKeep, Inserted, TypeOK, HandlerRecs
  <1>6. CASE PushLookup(h)
    <2>1. CASE Answer(h)
      BY <1>6, <2>1, AnswerEffect DEF PushLookup, HandsKeep, Inserted
    <2>2. CASE hand' = [hand EXCEPT ![h] = [@ EXCEPT !.pc = "send", !.to = registry]]
      BY <1>6, <2>2 DEF PushLookup, HandsKeep, Inserted, TypeOK, HandlerRecs
    <2> QED
      BY <1>6, <2>1, <2>2 DEF PushLookup
  <1>7. CASE PushSend(h)
    BY <1>7, AnswerEffect DEF PushSend, SendTo, HandsKeep, Inserted
  <1> QED
    BY <1>1, <1>2, <1>3, <1>4, <1>5, <1>6, <1>7

\* A frame is appended to the outbox of the connection it was looked up for, or that one is
\* closed.
LEMMA SendEffect ==
  ASSUME TypeOK, HandlersKnow, NEW h \in Handlers, PushSend(h), NEW c \in Conns, hand[h].to = c
  PROVE  /\ hand[h].pc = "send" /\ hand[h].next \in DOMAIN log
         /\ log' = log /\ Answer(h)
         /\ \A d \in Conns : d # c => conn'[d] = conn[d] /\ Queue(d)' = Queue(d)
         /\ conn'[c].pc = conn[c].pc /\ conn'[c].since = conn[c].since /\ conn'[c].page = conn[c].page
         /\ conn'[c].full = conn[c].full /\ conn'[c].last = conn[c].last
         /\ conn'[c].wrote = conn[c].wrote /\ conn'[c].pending = conn[c].pending
         /\ (conn'[c].open => conn[c].open)
         /\ Queue(c)' = Append(Queue(c), hand[h].next) \/ (Queue(c)' = Queue(c) /\ ~conn'[c].open)
  <1> DEFINE n == hand[h].next
  <1>1. hand[h].pc = "send" /\ n \in DOMAIN log /\ log' = log /\ Answer(h)
    BY DEF PushSend, SendTo, HandlersKnow
  <1>2. /\ conn \in [Conns -> SessionRecs(DOMAIN log)] /\ conn[c] \in SessionRecs(DOMAIN log)
        /\ \/ conn' = [conn EXCEPT ![c] = [conn[c] EXCEPT !.out = Append(conn[c].out, n)]]
           \/ conn' = [conn EXCEPT ![c] = [conn[c] EXCEPT !.open = FALSE]]
    BY <1>1 DEF PushSend, SendTo, TypeOK
  <1> HIDE DEF n
  <1>3. /\ \A d \in Conns : d # c => conn'[d] = conn[d]
        /\ \/ conn'[c] = [conn[c] EXCEPT !.out = Append(conn[c].out, n)]
           \/ conn'[c] = [conn[c] EXCEPT !.open = FALSE]
    BY <1>1, <1>2
  <1>4. /\ conn'[c].pc = conn[c].pc /\ conn'[c].since = conn[c].since /\ conn'[c].page = conn[c].page
        /\ conn'[c].full = conn[c].full /\ conn'[c].last = conn[c].last
        /\ conn'[c].wrote = conn[c].wrote /\ conn'[c].pending = conn[c].pending
        /\ (conn'[c].open => conn[c].open)
        /\ \/ conn'[c].out = Append(conn[c].out, n)
           \/ conn'[c].out = conn[c].out /\ ~conn'[c].open
    BY <1>2, <1>3 DEF SessionRecs
  <1>5. conn[c].pending \in Seq(DOMAIN log) /\ conn[c].out \in Seq(DOMAIN log)
    BY <1>1, QueueType
  <1>6. conn[c].pending \o Append(conn[c].out, n) = Append(conn[c].pending \o conn[c].out, n)
    <2> DEFINE p == conn[c].pending  q == conn[c].out
    <2>1. p \in Seq(DOMAIN log) /\ q \in Seq(DOMAIN log) /\ n \in DOMAIN log
      BY <1>1, <1>5
    <2> HIDE DEF p, q
    <2>2. p \o Append(q, n) = Append(p \o q, n)
      BY <2>1, AppendOfConcat
    <2> QED
      BY <2>2 DEF p, q
  <1>7. Queue(c)' = Append(Queue(c), n) \/ (Queue(c)' = Queue(c) /\ ~conn'[c].open)
    BY <1>4, <1>6 DEF Queue
  <1>8. \A d \in Conns : d # c => conn'[d] = conn[d] /\ Queue(d)' = Queue(d)
    BY <1>3, OtherQueues
  <1>9. /\ hand[h].pc = "send" /\ n \in DOMAIN log
        /\ log' = log /\ Answer(h)
        /\ \A d \in Conns : d # c => conn'[d] = conn[d] /\ Queue(d)' = Queue(d)
        /\ conn'[c].pc = conn[c].pc /\ conn'[c].since = conn[c].since /\ conn'[c].page = conn[c].page
        /\ conn'[c].full = conn[c].full /\ conn'[c].last = conn[c].last
        /\ conn'[c].wrote = conn[c].wrote /\ conn'[c].pending = conn[c].pending
        /\ (conn'[c].open => conn[c].open)
        /\ Queue(c)' = Append(Queue(c), n) \/ (Queue(c)' = Queue(c) /\ ~conn'[c].open)
    BY <1>1, <1>4, <1>7, <1>8
  <1> QED
    BY <1>9 DEF n

-----------------------------------------------------------------------------
(* Each row is forwarded at most once, a command run at most once.         *)

\* A request's steps before the INSERT has committed, and its lookup of the connection.
RequestStep(h) == \/ \E m \in Msgs : Deliver(h, m)
                  \/ TakeIngestLock(h) \/ ReadTail(h) \/ ProbeConnected(h) \/ PushLookup(h)

LEMMA RequestConns ==
  ASSUME NEW h \in Handlers, RequestStep(h)
  PROVE  log' = log /\ conn' = conn
  BY DEF RequestStep, Deliver, TakeIngestLock, LockKeys, ReadTail, ReadTailThen, ProbeConnected, PushLookup

LEMMA FlushedNext ==
  ASSUME IInv, Flushed, [Next]_vars
  PROVE  Flushed'
  <1>0. TypeOK /\ HandlersKnow
    BY DEF IInv
  <1>1. ASSUME conn' = conn PROVE Flushed'
    BY <1>1 DEF Flushed
  <1>2. ASSUME NEW h \in Handlers, RequestStep(h) \/ InsertEvent(h) \/ IngestFails(h) PROVE Flushed'
    BY <1>1, <1>2, RequestConns DEF InsertEvent, InsertUnless, IngestFails
  <1>3. ASSUME NEW h \in Handlers, PushSend(h) PROVE Flushed'
    <2>1. hand[h].to \in Conns
      BY <1>0, <1>3 DEF PushSend, SendTo, HandlersKnow
    <2> QED
      BY <1>0, <1>3, <2>1, SendEffect DEF Flushed
  <1>4. ASSUME NEW c \in Conns, Dial(c) PROVE Flushed'
    BY <1>0, <1>4, DialEffect DEF Flushed, OnlyConn
  <1>5. ASSUME NEW c \in Conns, RegistryAdd(c) PROVE Flushed'
    BY <1>0, <1>5, AddEffect DEF Flushed, OnlyConn
  <1>6. ASSUME NEW c \in Conns, CloseDisplaced(c) PROVE Flushed'
    BY <1>0, <1>6, DisplaceEffect DEF Flushed
  <1>7. ASSUME NEW c \in Conns, ReadPage(c) PROVE Flushed'
    BY <1>0, <1>7, ReadPageEffect DEF Flushed, OnlyConn
  <1>8. ASSUME NEW c \in Conns, ReplayEvent(c) PROVE Flushed'
    BY <1>0, <1>8, ReplayEffect DEF Flushed, OnlyConn
  <1>9. ASSUME NEW c \in Conns, PageDone(c) PROVE Flushed'
    BY <1>0, <1>9, PageDoneEffect DEF Flushed, OnlyConn
  <1>10. ASSUME NEW c \in Conns, Ready(c) PROVE Flushed'
    BY <1>0, <1>10, ReadyEffect DEF Flushed, OnlyConn
  <1>11. ASSUME NEW c \in Conns, FlushPending(c), conn[c].pending = << >> PROVE Flushed'
    BY <1>0, <1>11, FlushedEffect DEF Flushed, OnlyConn
  <1>12. ASSUME NEW c \in Conns, ForwardStep(c) PROVE Flushed'
    <2>1. CASE conn[c].pc # "live"
      BY <1>0, <1>12, <2>1, ForwardEffect DEF Flushed, OnlyConn
    <2>2. CASE conn[c].pc = "live"
      <3>1. Queue(c)' = Tail(Queue(c)) /\ OnlyConn(c)
        BY <1>0, <1>12, ForwardEffect
      <3>2. conn'[c].pending = << >>
        <4> DEFINE s == [conn[c] EXCEPT !.out = Tail(conn[c].out)]
        <4>1. LiveFrame(c)
          BY <1>12, <2>2 DEF ForwardStep, FlushPending
        <4>2. /\ Forward(c, Head(conn[c].out), s) /\ conn[c].out # << >>
              /\ conn[c].pending = << >>
          BY <2>2, <4>1 DEF LiveFrame, Flushed
        <4>3. /\ conn[c] \in SessionRecs(DOMAIN log) /\ Head(conn[c].out) \in DOMAIN log
              /\ Tail(conn[c].out) \in Seq(DOMAIN log)
          BY <1>0, <4>2, QueueType, SeqOps
        <4>4. s \in SessionRecs(DOMAIN log) /\ s.pending = conn[c].pending
          BY <4>3 DEF SessionRecs
        <4> HIDE DEF s
        <4> QED
          BY <1>0, <4>2, <4>3, <4>4, ForwardFields
      <3> QED
        BY <3>1, <3>2 DEF Flushed, OnlyConn
    <2> QED
      BY <2>1, <2>2
  <1>13. ASSUME NEW c \in Conns, StopWriting(c) \/ ReplayFails(c) PROVE Flushed'
    BY <1>0, <1>13, EndEffect DEF Flushed, OnlyConn
  <1>14. ASSUME NEW c \in Conns, Remove(c) PROVE Flushed'
    BY <1>0, <1>14, RemoveEffect DEF Flushed, OnlyConn, NoSession
  <1>15. CASE Crash
    BY <1>15 DEF Crash, Flushed, NoSession
  <1>16. CASE OverlayLeaves \/ UNCHANGED vars \/ \E c \in Conns : SocketDropped(c)
    BY <1>1, <1>16 DEF OverlayLeaves, vars, SocketDropped
  <1> QED
    BY <1>2, <1>3, <1>4, <1>5, <1>6, <1>7, <1>8, <1>9, <1>10, <1>11, <1>12, <1>13, <1>14, <1>15, <1>16
       DEF Next, HandlerStep, ConnStep, RequestStep, ForwardStep

LEMMA SameQueues ==
  ASSUME conn' = conn
  PROVE  \A c \in Conns : Queue(c)' = Queue(c)
  BY DEF Queue

LEMMA AppendLog ==
  ASSUME TypeOK, NEW m \in Msgs, log' = Append(log, m)
  PROVE  /\ Len(log) \in Nat /\ Len(log') = Len(log) + 1 /\ DOMAIN log = 1..Len(log)
         /\ DOMAIN log' = 1..(Len(log) + 1)
         /\ \A i \in DOMAIN log : i \in DOMAIN log' /\ log'[i] = log[i]
         /\ log'[Len(log) + 1] = m /\ Len(log) + 1 \notin DOMAIN log /\ Len(log) + 1 \in DOMAIN log'
         /\ \A i \in DOMAIN log' : i \in DOMAIN log \/ i = Len(log) + 1
  BY DEF TypeOK

\* Where a queue's elements are.
LEMMA QueueElems ==
  ASSUME TypeOK, NEW c \in Conns, NEW a \in DOMAIN Queue(c)
  PROVE  Queue(c)[a] \in DOMAIN log /\ a \in Nat
  BY QueueType

LEMMA OnceInsert ==
  ASSUME OnceInv, TypeOK', NEW h \in Handlers, InsertEvent(h), log' # log
  PROVE  HandledOnce' /\ CommandsWait' /\ CommandAtMostOnce'
  <1> DEFINE m == hand[h].msg  n == Len(log) + 1
  <1>1. TypeOK /\ HandlersKnow
    BY DEF OnceInv, IInv
  <1>2. /\ hand[h].pc = "insert" /\ m \in Msgs
        /\ UNCHANGED <<conn, registry, overlay, cursor, runs>>
        /\ log' = Append(log, m) /\ m \notin Logged
        /\ hand'[h].pc = (IF m \in CommandMsgs THEN "probe" ELSE "push")
        /\ hand'[h].msg = m /\ hand'[h].next = n
        /\ \A g \in Handlers : g # h => hand'[g] = hand[g]
    BY <1>1, InsertEffect
  <1>3. /\ \A i \in DOMAIN log : i \in DOMAIN log' /\ log'[i] = log[i]
        /\ log'[n] = m /\ n \notin DOMAIN log /\ n \in DOMAIN log'
    BY <1>1, <1>2, AppendLog
  <1>4. \A c \in Conns : Queue(c)' = Queue(c) /\ conn'[c].page = conn[c].page
    BY <1>2, SameQueues
  <1>5. \A c \in Conns : \A a \in DOMAIN Queue(c) : Queue(c)[a] \in DOMAIN log
    BY <1>1, QueueElems
  <1>6. \A g \in Handlers : g # h /\ hand[g].pc \in Inserted => hand[g].next \in DOMAIN log
    BY <1>1 DEF HandlersKnow, Inserted
  <1> HIDE DEF n, m
  <1>7. HandledOnce'
    <2>1. ASSUME NEW f \in Handlers, hand'[f].pc \in Inserted
          PROVE  /\ log'[hand'[f].next] = hand'[f].msg
                 /\ \A g \in Handlers : hand'[g].pc \in Inserted /\ hand'[g].next = hand'[f].next => g = f
                 /\ \A c \in Conns : \A a \in DOMAIN Queue(c)' : Queue(c)'[a] # hand'[f].next
      BY <1>2, <1>3, <1>4, <1>5, <1>6, <2>1 DEF OnceInv, HandledOnce
    <2>2. \A c, d \in Conns : \A a \in DOMAIN Queue(c)', b \in DOMAIN Queue(d)' :
            Queue(c)'[a] = Queue(d)'[b] => c = d /\ a = b
      BY <1>4 DEF OnceInv, HandledOnce
    <2> QED
      BY <2>1, <2>2 DEF HandledOnce
  <1>8. CommandsWait'
    <2>1. \A x \in CommandMsgs : runs'[x] > 0 => x \in Logged'
      BY <1>2, <1>3 DEF OnceInv, CommandsWait, Logged
    <2>2. m \in CommandMsgs => runs[m] = 0
      BY <1>1, <1>2 DEF OnceInv, CommandsWait, TypeOK, Msgs
    <2>3. \A g \in Handlers : hand'[g].pc \in Inserted /\ hand'[g].msg \in CommandMsgs => runs'[hand'[g].msg] = 0
      BY <1>2, <2>2 DEF OnceInv, CommandsWait
    <2>4. \A c \in Conns : \A a \in DOMAIN Queue(c)' :
            log'[Queue(c)'[a]] \in CommandMsgs => runs'[log'[Queue(c)'[a]]] = 0
      BY <1>2, <1>3, <1>4, <1>5 DEF OnceInv, CommandsWait
    <2>5. \A c \in Conns : \A i \in conn'[c].page : log'[i] \in Paid
      <3>1. \A c \in Conns : conn[c].page \subseteq DOMAIN log
        BY <1>1, QueueType
      <3> QED
        BY <1>3, <1>4, <3>1 DEF OnceInv, CommandsWait
    <2> QED
      BY <2>1, <2>3, <2>4, <2>5 DEF CommandsWait
  <1> QED
    BY <1>2, <1>7, <1>8 DEF OnceInv, CommandAtMostOnce

LEMMA OnceLost ==
  ASSUME OnceInv, TypeOK', NEW h \in Handlers, IngestFails(h)
  PROVE  HandledOnce' /\ CommandsWait' /\ CommandAtMostOnce'
  <1>1. TypeOK /\ HandlersKnow
    BY DEF OnceInv, IInv
  <1>2. HandsKeep /\ UNCHANGED <<registry, overlay, cursor, runs>> /\ conn' = conn
    BY <1>1, RequestEffect DEF IngestFails
  <1>3. \A c \in Conns : Queue(c)' = Queue(c) /\ conn'[c].page = conn[c].page
    BY <1>2, SameQueues
  <1>4. CASE log' = log
    BY <1>1, <1>2, <1>3, <1>4, OnceFrame, QueueType, Stretches DEF HandsKeep, OnceInv, CommandsWait
  <1>5. CASE log' # log
    <2>1. hand[h].msg \in Msgs /\ log' = Append(log, hand[h].msg)
      BY <1>1, <1>5 DEF IngestFails, HandlersKnow
    <2>2. \A i \in DOMAIN log : i \in DOMAIN log' /\ log'[i] = log[i]
      BY <1>1, <2>1, AppendLog
    <2>3. \A c \in Conns : \A a \in DOMAIN Queue(c) : Queue(c)[a] \in DOMAIN log
      BY <1>1, QueueElems
    <2>4. \A g \in Handlers : hand[g].pc \in Inserted => hand[g].next \in DOMAIN log
      BY <1>1 DEF HandlersKnow, Inserted
    <2>5. HandledOnce'
      BY <1>2, <1>3, <2>2, <2>3, <2>4 DEF OnceInv, HandledOnce, HandsKeep
    <2>6. CommandsWait'
      <3>1. \A c \in Conns : conn[c].page \subseteq DOMAIN log
        BY <1>1, QueueType
      <3> QED
        BY <1>2, <1>3, <2>2, <2>3, <3>1 DEF OnceInv, CommandsWait, HandsKeep, Logged
    <2> QED
      BY <1>2, <2>5, <2>6 DEF OnceInv, CommandAtMostOnce
  <1> QED
    BY <1>4, <1>5

LEMMA OnceSend ==
  ASSUME OnceInv, TypeOK', NEW h \in Handlers, PushSend(h)
  PROVE  HandledOnce' /\ CommandsWait' /\ CommandAtMostOnce'
  <1>1. TypeOK /\ HandlersKnow
    BY DEF OnceInv, IInv
  <1>2. PICK c \in Conns : hand[h].to = c
    BY <1>1 DEF PushSend, SendTo, HandlersKnow
  <1> DEFINE n == hand[h].next
  <1>3. HandsKeep /\ UNCHANGED <<registry, overlay, cursor, runs>>
    BY <1>1, RequestEffect
  <1>4. /\ hand[h].pc = "send" /\ n \in DOMAIN log /\ log' = log /\ hand'[h].pc = "idle"
        /\ \A d \in Conns : d # c => conn'[d] = conn[d] /\ Queue(d)' = Queue(d)
        /\ conn'[c].page = conn[c].page
        /\ Queue(c)' = Append(Queue(c), n) \/ Queue(c)' = Queue(c)
    BY <1>1, <1>2, SendEffect, AnswerEffect
  <1>5. CASE Queue(c)' = Queue(c)
    <2>1. \A d \in Conns : Queue(d)' = Queue(d) /\ conn'[d].page = conn[d].page
      BY <1>4, <1>5
    <2> QED
      BY <1>1, <1>3, <1>4, <2>1, OnceFrame, QueueType, Stretches DEF HandsKeep, OnceInv, CommandsWait
  <1>6. CASE Queue(c)' = Append(Queue(c), n)
    <2> DEFINE k == Len(Queue(c)) + 1
    <2>1. /\ \A a \in DOMAIN Queue(c) : a \in DOMAIN Queue(c)' /\ Queue(c)'[a] = Queue(c)[a]
          /\ \A a \in DOMAIN Queue(c)' : a \in DOMAIN Queue(c) \/ a = k
          /\ Queue(c)'[k] = n
      <3>1. Queue(c) \in Seq(DOMAIN log)
        BY <1>1, QueueType
      <3> QED
        BY <1>4, <1>6, <3>1
    <2>2. \A d \in Conns : \A a \in DOMAIN Queue(d) : Queue(d)[a] # n
      BY <1>4 DEF OnceInv, HandledOnce, Inserted
    <2>3. \A g \in Handlers : hand'[g].pc \in Inserted => g # h /\ hand'[g].next # n
      BY <1>3, <1>4 DEF OnceInv, HandledOnce, HandsKeep, Inserted
    <2> HIDE DEF k, n
    <2>4. \A g \in Handlers : hand'[g].pc \in Inserted =>
           /\ log'[hand'[g].next] = hand'[g].msg
           /\ \A f \in Handlers : hand'[f].pc \in Inserted /\ hand'[f].next = hand'[g].next => f = g
           /\ \A d \in Conns : \A a \in DOMAIN Queue(d)' : Queue(d)'[a] # hand'[g].next
      <3> SUFFICES ASSUME NEW g \in Handlers, hand'[g].pc \in Inserted
                   PROVE  /\ log'[hand'[g].next] = hand'[g].msg
                          /\ \A f \in Handlers : hand'[f].pc \in Inserted /\ hand'[f].next = hand'[g].next => f = g
                          /\ \A d \in Conns : \A a \in DOMAIN Queue(d)' : Queue(d)'[a] # hand'[g].next
        OBVIOUS
      <3>1. hand[g].pc \in Inserted /\ hand'[g].next = hand[g].next /\ hand'[g].msg = hand[g].msg
        BY <1>3 DEF HandsKeep
      <3>2. log'[hand'[g].next] = hand'[g].msg
        BY <1>4, <3>1 DEF OnceInv, HandledOnce
      <3>3. \A f \in Handlers : hand'[f].pc \in Inserted /\ hand'[f].next = hand'[g].next => f = g
        BY <1>3, <3>1 DEF OnceInv, HandledOnce, HandsKeep
      <3>4. ASSUME NEW d \in Conns, NEW a \in DOMAIN Queue(d)' PROVE Queue(d)'[a] # hand'[g].next
        BY <1>4, <2>1, <2>3, <3>1 DEF OnceInv, HandledOnce
      <3> QED
        BY <3>2, <3>3, <3>4
    <2>5. \A d, e \in Conns : \A a \in DOMAIN Queue(d)', b \in DOMAIN Queue(e)' :
            Queue(d)'[a] = Queue(e)'[b] => d = e /\ a = b
      BY <1>4, <2>1, <2>2 DEF OnceInv, HandledOnce
    <2>6. HandledOnce'
      BY <2>4, <2>5 DEF HandledOnce
    <2>7. CommandsWait'
      <3>1. log[n] \in CommandMsgs => runs[log[n]] = 0
        BY <1>4 DEF OnceInv, HandledOnce, CommandsWait, Inserted, n
      <3>2. \A d \in Conns : \A a \in DOMAIN Queue(d)' :
              log'[Queue(d)'[a]] \in CommandMsgs => runs'[log'[Queue(d)'[a]]] = 0
        BY <1>3, <1>4, <2>1, <3>1 DEF OnceInv, CommandsWait
      <3>3. \A d \in Conns : conn'[d].page = conn[d].page
        BY <1>4
      <3> QED
        BY <1>3, <1>4, <3>2, <3>3 DEF OnceInv, CommandsWait, HandsKeep, Logged
    <2> QED
      BY <1>3, <2>6, <2>7 DEF OnceInv, CommandAtMostOnce
  <1> QED
    BY <1>4, <1>5, <1>6

LEMMA WriteEffect ==
  ASSUME TypeOK, NEW c \in Conns, NEW i \in DOMAIN log, Write(c, i)
  PROVE  /\ log[i] \in Msgs
         /\ \A m \in Msgs : m # log[i] => runs'[m] = runs[m]
         /\ \A m \in Msgs : runs[m] \in Nat
         /\ IF overlay = c THEN /\ runs'[log[i]] = runs[log[i]] + 1
                                /\ cursor' = IF log[i] \in Paid THEN i ELSE cursor
                           ELSE runs' = runs /\ cursor' = cursor
  BY DEF Write, TypeOK

LEMMA OnceReplay ==
  ASSUME OnceInv, TypeOK', NEW c \in Conns, ReplayEvent(c)
  PROVE  HandledOnce' /\ CommandsWait' /\ CommandAtMostOnce'
  <1>1. TypeOK
    BY DEF OnceInv, IInv
  <1>2. PICK i \in conn[c].page :
         /\ OnlyConn(c) /\ conn'[c].page = conn[c].page \ {i} /\ Queue(c)' = Queue(c) /\ Write(c, i)
    BY <1>1, ReplayEffect
  <1>3. i \in DOMAIN log /\ log[i] \in Paid
    BY <1>1, QueueType DEF OnceInv, CommandsWait
  <1>4. \A m \in CommandMsgs : runs'[m] = runs[m]
    BY <1>1, <1>2, <1>3, WriteEffect, ConstantsAssumption DEF Msgs
  <1>5. /\ log' = log /\ hand' = hand
        /\ \A d \in Conns : Queue(d)' = Queue(d) /\ conn'[d].page \subseteq conn[d].page
    BY <1>2 DEF OnlyConn
  <1>6. HandledOnce'
    BY <1>5 DEF OnceInv, HandledOnce
  <1>7. CommandsWait'
    BY <1>4, <1>5 DEF OnceInv, CommandsWait, Logged
  <1> QED
    BY <1>4, <1>6, <1>7 DEF OnceInv, CommandAtMostOnce

LEMMA OnceForward ==
  ASSUME OnceInv, TypeOK', NEW c \in Conns, ForwardStep(c)
  PROVE  HandledOnce' /\ CommandsWait' /\ CommandAtMostOnce'
  <1>1. TypeOK /\ HandlersKnow /\ LoggedOnce /\ Flushed
    BY DEF OnceInv, IInv
  <1> DEFINE f == Head(Queue(c))
  <1>2. /\ OnlyConn(c) /\ Queue(c) # << >> /\ Queue(c)' = Tail(Queue(c))
        /\ conn'[c].page = conn[c].page
        /\ (runs' = runs \/ Write(c, f))
    BY <1>1, ForwardEffect
  <1>3. /\ f \in DOMAIN log /\ 1 \in DOMAIN Queue(c) /\ Queue(c)[1] = f
        /\ \A a \in DOMAIN Queue(c)' : a \in Nat /\ a + 1 \in DOMAIN Queue(c) /\ a + 1 # 1
                                       /\ Queue(c)'[a] = Queue(c)[a + 1]
    <2>1. Queue(c) \in Seq(DOMAIN log)
      BY <1>1, QueueType
    <2> QED
      BY <1>2, <2>1
  <1>4. /\ log' = log /\ hand' = hand
        /\ \A d \in Conns : conn'[d].page = conn[d].page /\ (d # c => Queue(d)' = Queue(d))
    BY <1>2 DEF OnlyConn
  <1> HIDE DEF f
  <1>5. HandledOnce'
    <2>1. \A h \in Handlers : hand'[h].pc \in Inserted =>
           /\ log'[hand'[h].next] = hand'[h].msg
           /\ \A g \in Handlers : hand'[g].pc \in Inserted /\ hand'[g].next = hand'[h].next => g = h
           /\ \A d \in Conns : \A a \in DOMAIN Queue(d)' : Queue(d)'[a] # hand'[h].next
      BY <1>3, <1>4 DEF OnceInv, HandledOnce
    <2>2. \A d, e \in Conns : \A a \in DOMAIN Queue(d)', b \in DOMAIN Queue(e)' :
            Queue(d)'[a] = Queue(e)'[b] => d = e /\ a = b
      BY <1>3, <1>4 DEF OnceInv, HandledOnce
    <2> QED
      BY <2>1, <2>2 DEF HandledOnce
  <1>6. CASE runs' = runs
    <2>1. CommandsWait'
      BY <1>3, <1>4, <1>6 DEF OnceInv, CommandsWait, Logged
    <2> QED
      BY <1>5, <1>6, <2>1 DEF OnceInv, CommandAtMostOnce
  <1>7. CASE Write(c, f)
    <2>1. /\ log[f] \in Msgs /\ \A m \in Msgs : m # log[f] => runs'[m] = runs[m]
          /\ runs'[log[f]] \in {runs[log[f]], runs[log[f]] + 1}
      BY <1>1, <1>3, <1>7, WriteEffect
    <2>2. log[f] \in CommandMsgs => runs[log[f]] = 0
      BY <1>3 DEF OnceInv, CommandsWait
    <2>3. \A m \in CommandMsgs : m # log[f] => runs'[m] = runs[m]
      BY <2>1 DEF Msgs
    <2>4. CommandAtMostOnce'
      BY <2>1, <2>2, <2>3 DEF OnceInv, CommandAtMostOnce
    <2>5. \A h \in Handlers : hand[h].pc \in Inserted => hand[h].msg # log[f]
      BY <1>1, <1>3 DEF OnceInv, HandledOnce, LoggedOnce, HandlersKnow, Inserted
    <2>6. \A d \in Conns : \A a \in DOMAIN Queue(d)' : log[Queue(d)'[a]] # log[f]
      <3> SUFFICES ASSUME NEW d \in Conns, NEW a \in DOMAIN Queue(d)' PROVE log[Queue(d)'[a]] # log[f]
        OBVIOUS
      <3>1. PICK b \in DOMAIN Queue(d) : Queue(d)'[a] = Queue(d)[b] /\ ~(d = c /\ b = 1)
        BY <1>3, <1>4
      <3>2. Queue(d)[b] # f /\ Queue(d)[b] \in DOMAIN log
        BY <1>1, <1>3, <3>1, QueueElems DEF OnceInv, HandledOnce
      <3> QED
        BY <1>1, <1>3, <3>1, <3>2 DEF LoggedOnce
    <2>7. CommandsWait'
      <3>1. \A m \in CommandMsgs : runs'[m] > 0 => m \in Logged'
        BY <1>3, <1>4, <2>3 DEF OnceInv, CommandsWait, Logged
      <3>2. \A h \in Handlers : hand'[h].pc \in Inserted /\ hand'[h].msg \in CommandMsgs => runs'[hand'[h].msg] = 0
        BY <1>4, <2>3, <2>5 DEF OnceInv, CommandsWait
      <3>3. \A d \in Conns : \A a \in DOMAIN Queue(d)' :
              log'[Queue(d)'[a]] \in CommandMsgs => runs'[log'[Queue(d)'[a]]] = 0
        BY <1>3, <1>4, <2>3, <2>6 DEF OnceInv, CommandsWait
      <3> QED
        BY <1>4, <3>1, <3>2, <3>3 DEF OnceInv, CommandsWait
    <2> QED
      BY <1>5, <2>4, <2>7
  <1> QED
    BY <1>2, <1>6, <1>7

\* Every other step leaves the rows and the commands where they are, or forgets them.
LEMMA OnceNext == OnceInv /\ [Next]_vars => OnceInv'
  <1> SUFFICES ASSUME OnceInv, [Next]_vars PROVE OnceInv'
    OBVIOUS
  <1>0. TypeOK /\ HandlersKnow /\ IInv' /\ TypeOK' /\ Flushed'
    BY IInvNext, FlushedNext DEF OnceInv, IInv
  <1> DEFINE Goal == HandledOnce' /\ CommandsWait' /\ CommandAtMostOnce'
  <1> SUFFICES Goal
    BY <1>0 DEF OnceInv
  <1>a. /\ \A c \in Conns : /\ Queue(c)' = Queue(c) => Stretch(Queue(c)', Queue(c))
                            /\ Queue(c)' = << >> => Stretch(Queue(c)', Queue(c))
        /\ \A c \in Conns : \A i \in conn[c].page : log[i] \in Paid
    BY <1>0, QueueType, Stretches DEF OnceInv, CommandsWait
  <1>b. ASSUME log' = log, runs' = runs, HandsKeep,
               \A c \in Conns : \/ Queue(c)' = Queue(c) /\ conn'[c].page \subseteq conn[c].page
                                \/ Queue(c)' = << >> /\ conn'[c].page = {}
        PROVE  Goal
    BY <1>0, <1>a, <1>b, OnceFrame DEF HandsKeep
  <1>c. ASSUME log' = log, runs' = runs, HandsKeep, conn' = conn PROVE Goal
    BY <1>b, <1>c, SameQueues
  <1>d. ASSUME hand' = hand PROVE HandsKeep
    BY <1>d DEF HandsKeep
  <1>1. ASSUME NEW h \in Handlers, RequestStep(h) PROVE Goal
    BY <1>0, <1>1, <1>c, RequestConns, RequestEffect DEF RequestStep
  <1>2. ASSUME NEW h \in Handlers, InsertEvent(h) PROVE Goal
    <2>1. CASE log' = log
      <3>1. HandsKeep \/ log' = Append(log, hand[h].msg)
        BY <1>0, <1>2, InsertEffect
      <3>2. Append(log, hand[h].msg) # log
        BY <1>0, <1>2, AppendLog, InsertEffect
      <3> QED
        BY <1>0, <1>2, <1>c, <2>1, <3>1, <3>2, InsertEffect
    <2> QED
      BY <1>0, <1>2, <2>1, OnceInsert
  <1>3. ASSUME NEW h \in Handlers, IngestFails(h) PROVE Goal
    BY <1>0, <1>3, OnceLost
  <1>4. ASSUME NEW h \in Handlers, PushSend(h) PROVE Goal
    BY <1>0, <1>4, OnceSend
  <1>5. ASSUME NEW c \in Conns, ReplayEvent(c) PROVE Goal
    BY <1>0, <1>5, OnceReplay
  <1>6. ASSUME NEW c \in Conns, ForwardStep(c) PROVE Goal
    BY <1>0, <1>6, OnceForward
  <1>7. ASSUME NEW c \in Conns, Dial(c) PROVE Goal
    BY <1>0, <1>7, <1>b, <1>d, DialEffect DEF OnlyConn
  <1>8. ASSUME NEW c \in Conns, RegistryAdd(c) PROVE Goal
    BY <1>0, <1>8, <1>b, <1>d, AddEffect DEF OnlyConn
  <1>9. ASSUME NEW c \in Conns, CloseDisplaced(c) PROVE Goal
    BY <1>0, <1>9, <1>b, <1>d, DisplaceEffect
  <1>10. ASSUME NEW c \in Conns, ReadPage(c) PROVE Goal
    <2>1. \A i \in EventsAfter(conn[c].since) : i \in DOMAIN log /\ log[i] \notin CommandMsgs
      BY DEF EventsAfter, FirstOf
    <2>2. \A i \in conn'[c].page : log[i] \in Paid
      BY <1>0, <1>10, <2>1, ReadPageEffect DEF TypeOK, Msgs
    <2>3. /\ log' = log /\ runs' = runs /\ hand' = hand
          /\ \A d \in Conns : Queue(d)' = Queue(d) /\ (d # c => conn'[d] = conn[d])
      BY <1>0, <1>10, ReadPageEffect DEF OnlyConn
    <2> QED
      BY <1>0, <1>a, <1>d, <2>2, <2>3, OnceFrame DEF HandsKeep
  <1>11. ASSUME NEW c \in Conns, PageDone(c) PROVE Goal
    BY <1>0, <1>11, <1>b, <1>d, PageDoneEffect DEF OnlyConn
  <1>12. ASSUME NEW c \in Conns, Ready(c) PROVE Goal
    BY <1>0, <1>12, <1>b, <1>d, ReadyEffect DEF OnlyConn
  <1>13. ASSUME NEW c \in Conns, FlushPending(c), conn[c].pending = << >> PROVE Goal
    BY <1>0, <1>13, <1>b, <1>d, FlushedEffect DEF OnlyConn
  <1>14. ASSUME NEW c \in Conns, StopWriting(c) \/ ReplayFails(c) PROVE Goal
    BY <1>0, <1>14, <1>b, <1>d, EndEffect DEF OnlyConn
  <1>15. ASSUME NEW c \in Conns, Remove(c) PROVE Goal
    BY <1>0, <1>15, <1>b, <1>d, RemoveEffect DEF OnlyConn, NoSession
  <1>16. CASE Crash
    <2>1. \A c \in Conns : Queue(c)' = << >> /\ conn'[c].page = {}
      BY <1>16 DEF Crash, NoSession, Queue
    <2>2. HandsKeep /\ log' = log /\ runs' = runs
      BY <1>16 DEF Crash, HandsKeep, IdleHandler, Inserted
    <2> QED
      BY <1>b, <2>1, <2>2
  <1>17. CASE OverlayLeaves \/ UNCHANGED vars \/ \E c \in Conns : SocketDropped(c)
    BY <1>17, <1>c, <1>d DEF OverlayLeaves, vars, SocketDropped
  <1> QED
    BY <1>1, <1>2, <1>3, <1>4, <1>5, <1>6, <1>7, <1>8, <1>9, <1>10, <1>11, <1>12, <1>13, <1>14, <1>15,
       <1>16, <1>17
       DEF Next, HandlerStep, ConnStep, RequestStep, ForwardStep

LEMMA InitOnce == Init => OnceInv
  <1> SUFFICES ASSUME Init PROVE OnceInv
    OBVIOUS
  <1>1. \A c \in Conns : Queue(c) = << >> /\ conn[c].pending = << >> /\ conn[c].page = {}
    BY DEF Init, NoSession, Queue
  <1>2. \A h \in Handlers : hand[h].pc \notin Inserted
    BY DEF Init, IdleHandler, Inserted
  <1>3. \A m \in CommandMsgs : runs[m] = 0
    BY DEF Init, Msgs
  <1> QED
    BY InitIInv, <1>1, <1>2, <1>3 DEF OnceInv, Flushed, HandledOnce, CommandsWait, CommandAtMostOnce

\* A chat command runs at most once, whatever is retried, resent, replayed or restarted:
\* its row is in one queue at a time and a page never has it.  Any mix of sources, and
\* INSERTs whose outcome is unknown, included.
THEOREM CommandRunsAtMostOnce == Spec => []CommandAtMostOnce
  <1>1. OnceInv => CommandAtMostOnce
    BY DEF OnceInv
  <1> QED
    BY InitOnce, OnceNext, <1>1, PTL DEF Spec

-----------------------------------------------------------------------------
LEMMA Least ==
  ASSUME NEW T \in SUBSET Nat, T # {}
  PROVE  \E x \in T : \A y \in T : x <= y
  <1>1. PICK x \in T : \A y \in T : ~(<<y, x>> \in OpToRel(<, Nat))
    BY WFMin, NatLessThanWellFounded, Zenon
  <1>2. \A y \in T : y \in Nat /\ ~(y < x)
    BY <1>1, Zenon DEF OpToRel
  <1> QED
    BY <1>2

LEMMA Greatest ==
  ASSUME NEW N \in Nat, NEW T \in SUBSET (0..N), T # {}
  PROVE  \E x \in T : \A y \in T : y <= x
  <1> DEFINE U == {N - y : y \in T}
  <1>1. U \in SUBSET Nat /\ U # {}
    <2>1. PICK y \in T : TRUE
      OBVIOUS
    <2>2. N - y \in U
      OBVIOUS
    <2> QED
      BY <2>2
  <1> HIDE DEF U
  <1>2. PICK u \in U : \A v \in U : u <= v
    BY <1>1, Least
  <1>3. PICK x \in T : u = N - x
    BY DEF U
  <1>4. \A y \in T : N - x <= N - y
    BY <1>2, <1>3 DEF U
  <1> QED
    BY <1>4

\* A page is the front of what it is taken from, and all of it when it is short.
LEMMA FirstOfFront ==
  ASSUME NEW N \in Nat, NEW S \in SUBSET (0..N), NEW n \in Nat \ {0}
  PROVE  /\ FirstOf(S, n) \subseteq S
         /\ \A i \in FirstOf(S, n), j \in S : j < i => j \in FirstOf(S, n)
         /\ Cardinality(FirstOf(S, n)) # n => FirstOf(S, n) = S
  <1> DEFINE Below(i) == {k \in S : k < i}
             F == {i \in S : Cardinality(Below(i)) < n}
  <1>0. FirstOf(S, n) = F
    BY DEF FirstOf
  <1>1. IsFiniteSet(S)
    <2>1. IsFiniteSet(0..N)
      BY FS_Interval
    <2> QED
      BY <2>1, FS_Subset
  <1>a. /\ \A i \in S : i \in Nat /\ i \in 0..N
        /\ \A i \in S : \A k : k \in Below(i) <=> k \in S /\ k < i
    OBVIOUS
  <1>b. \A i : i \in F <=> i \in S /\ Cardinality(Below(i)) < n
    OBVIOUS
  <1> HIDE DEF Below, F
  <1>2. ASSUME NEW i \in S PROVE IsFiniteSet(Below(i)) /\ Cardinality(Below(i)) \in Nat
    <2>1. Below(i) \in SUBSET S
      BY <1>a
    <2>2. IsFiniteSet(Below(i))
      BY <1>1, <2>1, FS_Subset
    <2> QED
      BY <2>2, FS_CardinalityType
  <1>3. ASSUME NEW i \in F, NEW j \in S, j < i PROVE j \in F
    <2>0. i \in S /\ Cardinality(Below(i)) < n
      BY <1>b
    <2>1. Below(j) \in SUBSET Below(i)
      <3>1. ASSUME NEW k \in Below(j) PROVE k \in Below(i)
        <4>1. k \in S /\ k < j
          BY <1>a
        <4>2. k \in Nat /\ j \in Nat /\ i \in Nat
          BY <1>a, <2>0, <4>1
        <4> QED
          BY <1>3, <1>a, <2>0, <4>1, <4>2
      <3> QED
        BY <3>1
    <2>2. Cardinality(Below(j)) <= Cardinality(Below(i))
      BY <1>2, <2>0, <2>1, FS_Subset
    <2>3. Cardinality(Below(j)) \in Nat /\ Cardinality(Below(i)) \in Nat
      BY <1>2, <2>0
    <2> QED
      BY <1>b, <2>0, <2>2, <2>3
  <1>4. ASSUME F # S PROVE Cardinality(F) = n
    <2>1. S \ F \in SUBSET Nat /\ S \ F # {}
      BY <1>4, <1>a, <1>b
    <2>2. PICK m \in S \ F : \A x \in S \ F : m <= x
      BY <2>1, Least
    <2>3. F = Below(m)
      <3>1. ASSUME NEW x \in F PROVE x \in Below(m)
        <4>1. x \in S /\ x # m
          BY <1>b, <2>2
        <4>2. ~(m < x)
          BY <1>3, <2>2
        <4> QED
          BY <1>a, <2>2, <4>1, <4>2
      <3>2. ASSUME NEW x \in Below(m) PROVE x \in F
        <4>1. x \in S /\ x < m /\ x \in Nat /\ m \in Nat
          BY <1>a, <2>2
        <4> QED
          BY <2>2, <4>1
      <3> QED
        BY <3>1, <3>2
    <2>4. Cardinality(Below(m)) \in Nat /\ ~(Cardinality(Below(m)) < n) /\ IsFiniteSet(Below(m))
      BY <1>2, <1>b, <2>2
    <2>5. Below(m) # {}
      BY <2>4, FS_EmptySet
    <2>6. PICK x \in Below(m) : \A y \in Below(m) : y <= x
      <3>1. Below(m) \in SUBSET (0..N)
        BY <1>a
      <3> QED
        BY <2>5, <3>1, Greatest
    <2>7. Below(m) = Below(x) \cup {x} /\ x \notin Below(x)
      <3>1. x \in S /\ x < m /\ x \in Nat /\ m \in Nat /\ m \in S
        BY <1>a, <2>2, <2>6
      <3>2. ASSUME NEW k \in Below(m) PROVE k \in Below(x) \cup {x}
        <4>1. k \in S /\ k <= x /\ k \in Nat
          BY <1>a, <2>6, <3>1
        <4> QED
          BY <1>a, <3>1, <4>1
      <3>3. ASSUME NEW k \in Below(x) PROVE k \in Below(m) /\ k # x
        <4>1. k \in S /\ k < x /\ k \in Nat
          BY <1>a, <3>1
        <4> QED
          BY <1>a, <3>1, <4>1
      <3> QED
        BY <2>6, <3>2, <3>3
    <2>8. x \in S /\ IsFiniteSet(Below(x)) /\ Cardinality(Below(x)) \in Nat
      BY <1>2, <1>a, <2>6
    <2>9. Cardinality(Below(m)) = Cardinality(Below(x)) + 1
      BY <2>7, <2>8, FS_AddElement
    <2>10. Cardinality(Below(x)) < n
      BY <1>b, <2>3, <2>6
    <2> QED
      BY <2>3, <2>4, <2>8, <2>9, <2>10
  <1> QED
    <2>1. FirstOf(S, n) \subseteq S
      BY <1>0, <1>b
    <2> QED
      BY <1>0, <1>3, <1>4, <2>1

LEMMA PageFacts ==
  ASSUME TypeOK, NEW since \in Nat
  PROVE  LET P == EventsAfter(since) IN
         /\ \A i \in P : i \in DOMAIN log /\ i > since
         /\ \A i \in P, j \in DOMAIN log : IsPaid(j) /\ since < j /\ j < i => j \in P
         /\ Cardinality(P) # MaxReplay => \A j \in DOMAIN log : IsPaid(j) /\ since < j => j \in P
  <1> DEFINE S == {i \in DOMAIN log : i > since /\ log[i] \notin CommandMsgs}
  <1>1. Len(log) \in Nat /\ S \in SUBSET (0..Len(log)) /\ MaxReplay \in Nat \ {0}
    BY ConstantsAssumption DEF TypeOK
  <1>2. \A j \in DOMAIN log : IsPaid(j) /\ since < j => j \in S
    BY ConstantsAssumption DEF IsPaid
  <1>3. \A i \in S : i \in DOMAIN log /\ i > since
    OBVIOUS
  <1>4. EventsAfter(since) = FirstOf(S, MaxReplay)
    BY DEF EventsAfter
  <1> HIDE DEF S
  <1>5. /\ FirstOf(S, MaxReplay) \subseteq S
        /\ \A i \in FirstOf(S, MaxReplay), j \in S : j < i => j \in FirstOf(S, MaxReplay)
        /\ Cardinality(FirstOf(S, MaxReplay)) # MaxReplay => FirstOf(S, MaxReplay) = S
    BY <1>1, FirstOfFront
  <1> QED
    BY <1>2, <1>3, <1>4, <1>5

-----------------------------------------------------------------------------
(* With one source of paid events, their lock orders the pushes.           *)

LEMMA OneLock ==
  ASSUME OneSource
  PROVE  \E s \in Sources : \A m \in Paid : LocksOf(m) = {s}
  <1>1. CASE EventSubMsgs = {}
    <2>1. \A m \in Paid : LocksOf(m) = {"extension"}
      BY <1>1 DEF Paid, LocksOf
    <2> QED
      BY <2>1 DEF Sources
  <1>2. CASE ExtensionMsgs = {}
    <2>1. \A m \in Paid : LocksOf(m) = {"eventsub"}
      BY <1>2 DEF Paid, LocksOf
    <2> QED
      BY <2>1 DEF Sources
  <1> QED
    BY <1>1, <1>2 DEF OneSource

LEMMA SerialNext ==
  ASSUME OneSource, OnceInv, Serial, [Next]_vars
  PROVE  Serial'
  <1>0. TypeOK /\ HandlersKnow
    BY DEF OnceInv, IInv
  <1> DEFINE Past(h) == hand[h].pc \notin {"idle", "lock"}
             LastPaid(h) == hand[h].pc \in Inserted => \A i \in DOMAIN log : IsPaid(i) => i <= hand[h].next
  <1>1. PICK s \in Sources : \A m \in Paid : LocksOf(m) = {s}
    BY OneLock
  <1>2. \A h \in Handlers : hand[h].msg \in Paid => (Past(h) => lock[s] = h) /\ LastPaid(h)
    BY <1>1 DEF Serial
  <1>3. ASSUME \A h \in Handlers : hand'[h].msg \in Paid => (Past(h)' => lock'[s] = h) /\ LastPaid(h)'
        PROVE  Serial'
    BY <1>1, <1>3 DEF Serial
  <1>4. NoMsg \notin Paid /\ \A m \in CommandMsgs : m \notin Paid /\ LocksOf(m) = {}
    BY ConstantsAssumption DEF Msgs, Paid, LocksOf
  \* Same rows: what a handler knows of the last one stays.
  <1>5. ASSUME log' = log, NEW g \in Handlers, hand'[g].msg = hand[g].msg,
               hand'[g].pc \in Inserted => hand[g].pc \in Inserted /\ hand'[g].next = hand[g].next,
               hand[g].msg \in Paid
        PROVE  LastPaid(g)'
    BY <1>2, <1>5 DEF IsPaid
  <1>6. ASSUME NEW h \in Handlers, Answer(h), log' = log PROVE Serial'
    <2>1. /\ hand'[h].msg = NoMsg /\ \A g \in Handlers : g # h => hand'[g] = hand[g]
          /\ lock'[s] = IF lock[s] = h THEN NoHandler ELSE lock[s]
      BY <1>0, <1>6, AnswerEffect
    <2> QED
      BY <1>2, <1>3, <1>4, <1>5, <1>6, <2>1
  <1>7. ASSUME NEW h \in Handlers, lock' = lock, log' = log,
               \A g \in Handlers : g # h => hand'[g] = hand[g],
               hand'[h].msg = hand[h].msg, Past(h),
               hand'[h].pc \in Inserted => hand[h].pc \in Inserted /\ hand'[h].next = hand[h].next
        PROVE  Serial'
    BY <1>2, <1>3, <1>5, <1>7
  <1>8. ASSUME UNCHANGED <<hand, lock, log>> PROVE Serial'
    BY <1>2, <1>3, <1>5, <1>8
  <1>9. ASSUME NEW h \in Handlers, NEW m \in Msgs, Deliver(h, m) PROVE Serial'
    <2>1. /\ hand'[h].pc = "lock" /\ lock' = lock /\ log' = log
          /\ \A g \in Handlers : g # h => hand'[g] = hand[g]
      BY <1>0, <1>9 DEF Deliver, IdleHandler, TypeOK
    <2> QED
      BY <1>2, <1>3, <1>5, <2>1 DEF Inserted
  <1>10. ASSUME NEW h \in Handlers, TakeIngestLock(h) PROVE Serial'
    <2>1. /\ hand'[h].pc = "snapshot" /\ hand'[h].msg = hand[h].msg /\ log' = log
          /\ \A g \in Handlers : g # h => hand'[g] = hand[g]
          /\ lock' = [x \in Sources |-> IF x \in LocksOf(hand[h].msg) THEN h ELSE lock[x]]
          /\ \A x \in LocksOf(hand[h].msg) : lock[x] = NoHandler
          /\ hand[h].msg \in Msgs
      BY <1>0, <1>10 DEF TakeIngestLock, LockKeys, TypeOK, HandlerRecs, HandlersKnow
    <2>2. hand[h].msg \in Paid => lock'[s] = h /\ lock[s] = NoHandler
      BY <1>1, <2>1
    <2>3. hand[h].msg \notin Paid => lock'[s] = lock[s]
      BY <1>4, <2>1 DEF Msgs
    <2>4. \A g \in Handlers : g # h /\ hand[g].msg \in Paid => (Past(g) => lock'[s] = g)
      BY <1>2, <2>2, <2>3, ConstantsAssumption
    <2> QED
      BY <1>2, <1>3, <1>5, <2>1, <2>2, <2>4 DEF Inserted
  <1>11. ASSUME NEW h \in Handlers, ReadTail(h) PROVE Serial'
    <2>1. /\ hand'[h].pc = "insert" /\ hand'[h].msg = hand[h].msg /\ log' = log /\ lock' = lock
          /\ \A g \in Handlers : g # h => hand'[g] = hand[g]
          /\ Past(h)
      BY <1>0, <1>11 DEF ReadTail, ReadTailThen, TypeOK, HandlerRecs
    <2> QED
      BY <1>7, <2>1 DEF Inserted
  <1>12. ASSUME NEW h \in Handlers, InsertEvent(h) PROVE Serial'
    <2>1. CASE log' = log /\ Answer(h)
      BY <1>6, <2>1
    <2>2. CASE /\ log' = log /\ lock' = lock /\ hand'[h].pc = "snapshot" /\ hand'[h].msg = hand[h].msg
               /\ \A g \in Handlers : g # h => hand'[g] = hand[g]
      <3>1. Past(h)
        BY <1>0, <1>12, InsertEffect
      <3> QED
        BY <1>7, <2>2, <3>1 DEF Inserted
    <2>3. CASE /\ log' = Append(log, hand[h].msg) /\ lock' = lock
               /\ hand'[h].pc = (IF hand[h].msg \in CommandMsgs THEN "probe" ELSE "push")
               /\ hand'[h].msg = hand[h].msg /\ hand'[h].next = Len(log) + 1
               /\ \A g \in Handlers : g # h => hand'[g] = hand[g]
      <3>1. hand[h].pc = "insert" /\ hand[h].msg \in Msgs
        BY <1>0, <1>12, InsertEffect
      <3>2. /\ \A i \in DOMAIN log : log'[i] = log[i]
            /\ log'[Len(log) + 1] = hand[h].msg
            /\ \A i \in DOMAIN log' : i \in 1..(Len(log) + 1) /\ (i \in DOMAIN log \/ i = Len(log) + 1)
            /\ Len(log) \in Nat
        BY <1>0, <2>3, <3>1, AppendLog
      <3>3. hand[h].msg \in Paid => lock[s] = h /\ LastPaid(h)'
        BY <1>2, <2>3, <3>1, <3>2
      <3>4. ASSUME NEW g \in Handlers, g # h, hand[g].msg \in Paid, hand[g].pc \in Inserted
            PROVE  LastPaid(g)'
        <4>1. lock[s] = g
          BY <1>2, <3>4 DEF Inserted
        <4>2. hand[h].msg \notin Paid
          BY <3>3, <3>4, <4>1
        <4> QED
          BY <1>2, <2>3, <3>2, <3>4, <4>2 DEF IsPaid
      <3> QED
        BY <1>2, <1>3, <2>3, <3>1, <3>3, <3>4 DEF Inserted
    <2> QED
      BY <1>0, <1>12, <2>1, <2>2, <2>3, InsertEffect
  <1>13. ASSUME NEW h \in Handlers, IngestFails(h) PROVE Serial'
    BY <1>6, <1>13 DEF IngestFails, OneSource
  <1>14. ASSUME NEW h \in Handlers, ProbeConnected(h) PROVE Serial'
    <2>1. /\ hand[h].pc = "probe" /\ hand'[h].pc = "push" /\ hand'[h].msg = hand[h].msg
          /\ hand'[h].next = hand[h].next /\ log' = log /\ lock' = lock
          /\ \A g \in Handlers : g # h => hand'[g] = hand[g]
      BY <1>0, <1>14 DEF ProbeConnected, TypeOK, HandlerRecs
    <2> QED
      BY <1>7, <2>1 DEF Inserted
  <1>15. ASSUME NEW h \in Handlers, PushLookup(h) PROVE Serial'
    <2>1. CASE registry = NoConn
      BY <1>6, <1>15, <2>1 DEF PushLookup
    <2>2. CASE registry # NoConn
      <3>1. /\ hand[h].pc = "push" /\ hand'[h].pc = "send" /\ hand'[h].msg = hand[h].msg
            /\ hand'[h].next = hand[h].next /\ log' = log /\ lock' = lock
            /\ \A g \in Handlers : g # h => hand'[g] = hand[g]
        <4>1. hand \in [Handlers -> HandlerRecs]
          BY <1>0 DEF TypeOK
        <4>2. PICK r : r = [hand[h] EXCEPT !.pc = "send", !.to = registry]
          OBVIOUS
        <4>3. r.pc = "send" /\ r.msg = hand[h].msg /\ r.next = hand[h].next
          BY <4>1, <4>2 DEF HandlerRecs
        <4>4. /\ hand[h].pc = "push" /\ hand' = [hand EXCEPT ![h] = r]
              /\ log' = log /\ lock' = lock
          BY <1>15, <2>2, <4>2 DEF PushLookup
        <4> QED
          BY <4>1, <4>3, <4>4
      <3> QED
        BY <1>7, <3>1 DEF Inserted
    <2> QED
      BY <2>1, <2>2
  <1>16. ASSUME NEW h \in Handlers, PushSend(h) PROVE Serial'
    BY <1>6, <1>16 DEF PushSend, SendTo
  <1>17. ASSUME NEW c \in Conns, ConnStep(c) \/ Dial(c) \/ ReplayFails(c) \/ SocketDropped(c)
         PROVE  Serial'
    <2>1. UNCHANGED <<hand, lock, log>>
      BY <1>17 DEF ConnStep, RegistryAdd, CloseDisplaced, ReadPage, ReadPageOf, ReplayEvent, ReplayOne,
                   PageDone, Ready, FlushPending, LiveFrame, StopWriting, StopWritingIn, Remove, RemoveIf, Dial,
                   ReplayFails, SocketDropped
    <2> QED
      BY <1>8, <2>1
  <1>18. CASE OverlayLeaves \/ UNCHANGED vars
    BY <1>8, <1>18 DEF OverlayLeaves, vars
  <1>19. CASE Crash
    BY <1>3, <1>4, <1>19 DEF Crash, IdleHandler
  <1> QED
    BY <1>9, <1>10, <1>11, <1>12, <1>13, <1>14, <1>15, <1>16, <1>17, <1>18, <1>19 DEF Next, HandlerStep

-----------------------------------------------------------------------------
(* A connection's stream of paid events.                                   *)

StreamKnows(d) == PageKnows(d) /\ InOrder(d) /\ GapFree(d)

\* A step that leaves d's session and queue alone, or closes it.
SameStream(d) ==
  /\ conn'[d].since = conn[d].since /\ conn'[d].last = conn[d].last /\ conn'[d].page = conn[d].page
  /\ conn'[d].wrote = conn[d].wrote /\ conn'[d].full = conn[d].full /\ conn'[d].pc = conn[d].pc
  /\ (conn'[d].open => conn[d].open) /\ Queue(d)' = Queue(d)

LEMMA StreamFrame ==
  ASSUME log' = log, HandsKeep, NEW d \in Conns, StreamKnows(d), SameStream(d),
         \A i \in DOMAIN log : Coming(d, i)' => Coming(d, i),
         \A i \in DOMAIN log : conn'[d].open /\ Coming(d, i) => Coming(d, i)',
         registry' = d => registry = d /\ \A i \in DOMAIN log : IsPaid(i) /\ AtPush(i) => AtPush(i)'
  PROVE  StreamKnows(d)'
  <1>1. \A i : IsPaid(i)' <=> IsPaid(i)
    BY DEF IsPaid
  <1>2. \A i \in DOMAIN log : Written(d, i)' <=> Written(d, i)
    BY DEF Written, SameStream
  <1>3. PageKnows(d)'
    BY <1>1, <1>2 DEF PageKnows, StreamKnows, SameStream, Replaying
  <1>4. InOrder(d)'
    BY <1>1, <1>2 DEF InOrder, StreamKnows, SameStream, HandsKeep
  <1>5. ASSUME Complete(d)' PROVE conn'[d].open /\ Complete(d)
    BY <1>5 DEF SameStream, Complete
  <1>6. \A i \in DOMAIN log : conn'[d].open /\ Covered(d, i) => Covered(d, i)'
    BY <1>2 DEF Covered, SameStream
  <1>7. GapFree(d)'
    BY <1>1, <1>5, <1>6 DEF GapFree, StreamKnows
  <1> QED
    BY <1>3, <1>4, <1>7 DEF StreamKnows

\* Steps of a websocket handler leave the other connections' streams alone.
LEMMA OtherStreams ==
  ASSUME log' = log, hand' = hand, NEW d \in Conns, StreamKnows(d), SameStream(d),
         registry' = d => registry = d
  PROVE  StreamKnows(d)'
  <1>1. HandsKeep
    BY DEF HandsKeep
  <1>2. \A i : Coming(d, i)' <=> Coming(d, i)
    BY DEF Coming, SameStream
  <1>3. \A i : AtPush(i) => AtPush(i)'
    BY DEF AtPush
  <1> QED
    BY <1>1, <1>2, <1>3, StreamFrame

LEMMA StreamsUnmoved ==
  ASSUME log' = log, hand' = hand, NEW c \in Conns,
         \A d \in Conns : d # c => StreamKnows(d) /\ conn'[d] = conn[d] /\ Queue(d)' = Queue(d),
         registry' \in {registry, c, NoConn}
  PROVE  \A d \in Conns : d # c => StreamKnows(d)'
  <1>1. \A d \in Conns : d # c => SameStream(d) /\ (registry' = d => registry = d)
    BY ConstantsAssumption DEF SameStream
  <1> QED
    BY <1>1, OtherStreams

\* A session that has nothing to do with the log yet, or any more.
LEMMA EmptyStream ==
  ASSUME TypeOK', NEW d \in Conns, Queue(d)' = << >>, conn'[d].page = {}, conn'[d].wrote = << >>,
         conn'[d].last = 0, conn'[d].since = 0 \/ IsPaid(conn[d].since)', conn'[d].pc \in {"gone", "add"},
         \A h \in Handlers : ~(hand'[h].pc = "send" /\ hand'[h].to = d)
         \/ conn'[d].since = 0
  PROVE  StreamKnows(d)'
  <1>1. \A i : ~Written(d, i)'
    BY DEF Written
  <1>2. conn'[d].since \in Nat /\ \A i \in DOMAIN log' : i \in Nat
    BY QueueTypeNext
  <1>3. \A i \in DOMAIN log' : Coming(d, i)' => conn'[d].since = 0
    BY DEF Coming
  <1>4. PageKnows(d)'
    BY <1>1, <1>2 DEF PageKnows
  <1>5. InOrder(d)'
    BY <1>1, <1>2, <1>3 DEF InOrder
  <1>6. GapFree(d)'
    BY DEF GapFree, Complete
  <1> QED
    BY <1>4, <1>5, <1>6 DEF StreamKnows

LEMMA StreamInsert ==
  ASSUME OneSource, OnceInv, StreamsKnow, TypeOK', NEW h \in Handlers, InsertEvent(h), log' # log,
         NEW d \in Conns
  PROVE  StreamKnows(d)'
  <1>1. TypeOK /\ HandlersKnow /\ StreamKnows(d)
    BY DEF OnceInv, IInv, StreamsKnow, StreamKnows
  <1>a. hand[h].msg \in Msgs /\ Len(log) + 1 \in Nat
    BY <1>1, InsertEffect DEF TypeOK
  <1>b. PICK m \in Msgs, n \in Nat : m = hand[h].msg /\ n = Len(log) + 1
    BY <1>a
  <1>2. /\ hand[h].pc = "insert"
        /\ UNCHANGED <<conn, registry, overlay, cursor, runs>>
        /\ log' = Append(log, m) /\ m \notin Logged
        /\ hand'[h].pc = (IF m \in CommandMsgs THEN "probe" ELSE "push")
        /\ hand'[h].msg = m /\ hand'[h].next = n
        /\ \A g \in Handlers : g # h => hand'[g] = hand[g]
    BY <1>1, <1>b, InsertEffect
  <1>3. /\ \A i \in DOMAIN log : i \in DOMAIN log' /\ log'[i] = log[i] /\ i < n /\ i \in Nat
        /\ log'[n] = m /\ n \notin DOMAIN log /\ n \in DOMAIN log' /\ n \in Nat
        /\ \A i \in DOMAIN log' : i \in DOMAIN log \/ i = n
    BY <1>1, <1>2, <1>b, AppendLog
  <1>4. Queue(d)' = Queue(d) /\ conn' = conn
    BY <1>2, SameQueues
  <1>5. /\ \A a \in DOMAIN Queue(d) : Queue(d)[a] \in DOMAIN log
        /\ \A a \in DOMAIN conn[d].wrote : conn[d].wrote[a] \in DOMAIN log
        /\ conn[d].page \subseteq DOMAIN log /\ conn[d].since \in 0..Len(log) /\ conn[d].last \in 0..Len(log)
        /\ Len(log) \in Nat
    BY <1>1, QueueElems, QueueType
  <1>6. \A g \in Handlers : hand[g].pc \in Inserted => hand[g].next \in DOMAIN log
    BY <1>1 DEF HandlersKnow, Inserted
  <1>7. m \in Paid => hand'[h].pc = "push"
    BY <1>2, ConstantsAssumption
  <1>8. /\ \A i \in DOMAIN log : IsPaid(i)' <=> IsPaid(i)
        /\ IsPaid(n)' => m \in Paid
    BY <1>3 DEF IsPaid
  <1>9. \A i : Written(d, i)' <=> Written(d, i)
    BY <1>4 DEF Written
  <1>10. \A i : Coming(d, i)' <=> Coming(d, i)
    BY <1>2, <1>4 DEF Coming
  <1>11. ~Coming(d, n) /\ ~Written(d, n)
    BY <1>3, <1>5, <1>6 DEF Coming, Written, Inserted
  <1>12. PageKnows(d)'
    <2>1. conn'[d].since = 0 \/ IsPaid(conn[d].since)'
      BY <1>1, <1>4, <1>5, <1>8 DEF StreamKnows, PageKnows, IsPaid
    <2>2. conn'[d].pc = "replay" => \A i \in conn'[d].page :
            i > conn'[d].since /\ \A j \in DOMAIN log' : IsPaid(j)' /\ conn'[d].since < j /\ j < i => j \in conn'[d].page
      BY <1>1, <1>3, <1>4, <1>5, <1>8 DEF StreamKnows, PageKnows
    <2>3. conn'[d].pc \in Replaying => \A i \in DOMAIN log' : Written(d, i)' => i <= conn'[d].last
      BY <1>1, <1>3, <1>4, <1>9, <1>11 DEF StreamKnows, PageKnows
    <2> QED
      BY <1>1, <1>4, <2>1, <2>2, <2>3 DEF StreamKnows, PageKnows
  <1>13. InOrder(d)'
    <2>1. \A a, b \in DOMAIN Queue(d)' :
            a < b /\ IsPaid(Queue(d)[a])' /\ IsPaid(Queue(d)[b])' => Queue(d)'[a] < Queue(d)'[b]
      BY <1>1, <1>4, <1>5, <1>8 DEF StreamKnows, InOrder
    <2>2. \A i \in DOMAIN log' : IsPaid(i)' /\ Coming(d, i)' => i >= conn'[d].since \/ i <= conn'[d].last
      BY <1>1, <1>3, <1>4, <1>8, <1>10, <1>11 DEF StreamKnows, InOrder
    <2>3. \A i \in DOMAIN log' : IsPaid(i)' /\ Written(d, i)' => \/ i <= conn'[d].last
            \/ /\ \A j \in DOMAIN log' : IsPaid(j)' /\ Coming(d, j)' => i < j
               /\ \A g \in Handlers : hand'[g].pc \in Inserted => hand'[g].next # i
      BY <1>1, <1>2, <1>3, <1>4, <1>8, <1>9, <1>10, <1>11 DEF StreamKnows, InOrder
    <2> QED
      BY <2>1, <2>2, <2>3 DEF InOrder
  <1>14. GapFree(d)'
    <2>1. \A i : Covered(d, i) => Covered(d, i)'
      BY <1>4, <1>9, <1>10 DEF Covered
    <2>2. \A i : AtPush(i) => AtPush(i)'
      BY <1>2 DEF AtPush
    <2>3. m \in Paid => AtPush(n)'
      BY <1>2, <1>7 DEF AtPush
    <2>4. ASSUME Complete(d)' PROVE Complete(d)
      BY <1>4, <2>4 DEF Complete
    <2>5. ASSUME Complete(d)', NEW i \in DOMAIN log', NEW j \in DOMAIN log',
                 IsPaid(i)', IsPaid(j)', Coming(d, j)', i < j
          PROVE  Covered(d, i)'
      BY <1>1, <1>3, <1>8, <1>10, <1>11, <2>1, <2>4, <2>5 DEF StreamKnows, GapFree
    <2>6. ASSUME Complete(d)', registry' = d, NEW i \in DOMAIN log', IsPaid(i)'
          PROVE  Covered(d, i)' \/ AtPush(i)'
      BY <1>1, <1>2, <1>3, <1>8, <2>1, <2>2, <2>3, <2>4, <2>6 DEF StreamKnows, GapFree
    <2> QED
      BY <2>5, <2>6 DEF GapFree
  <1> QED
    BY <1>12, <1>13, <1>14 DEF StreamKnows

\* What a handler has inserted and not pushed is the last paid event.
LEMMA LastRow ==
  ASSUME HandledOnce, Serial, NEW h \in Handlers, hand[h].pc \in Inserted, IsPaid(hand[h].next)
  PROVE  \A i \in DOMAIN log : IsPaid(i) => i <= hand[h].next
  BY DEF HandledOnce, Serial, IsPaid

LEMMA StreamLookup ==
  ASSUME OnceInv, Serial, StreamsKnow, NEW h \in Handlers, PushLookup(h),
         NEW d \in Conns
  PROVE  StreamKnows(d)'
  <1>1. /\ TypeOK /\ HandlersKnow /\ StreamKnows(d) /\ HandledOnce
    BY DEF OnceInv, IInv, StreamsKnow, StreamKnows
  <1>2. /\ hand[h].pc = "push" /\ log' = log /\ conn' = conn /\ registry' = registry
        /\ Queue(d)' = Queue(d)
    BY SameQueues DEF PushLookup
  <1>3. HandsKeep
    BY <1>1, RequestEffect
  <1>4. SameStream(d)
    BY <1>2 DEF SameStream
  <1>5. CASE registry # d
    <2>1. /\ \A g \in Handlers : g # h => hand'[g] = hand[g]
          /\ hand'[h].pc # "send" \/ hand'[h].to # d
      BY <1>1, <1>2, <1>5, AnswerEffect DEF PushLookup, TypeOK, HandlerRecs
    <2>2. \A i : Coming(d, i)' <=> Coming(d, i)
      BY <1>2, <2>1 DEF Coming
    <2> QED
      BY <1>1, <1>2, <1>3, <1>4, <1>5, <2>2, StreamFrame
  <1>6. CASE registry = d
    <2>0. PICK n \in DOMAIN log : n = hand[h].next
      BY <1>1, <1>2 DEF HandlersKnow
    <2>1. /\ \A g \in Handlers : g # h => hand'[g] = hand[g]
          /\ hand'[h].pc = "send" /\ hand'[h].to = d /\ hand'[h].next = n
      <3>1. hand \in [Handlers -> HandlerRecs] /\ registry # NoConn
        BY <1>1, <1>6, ConstantsAssumption DEF TypeOK
      <3>2. PICK r : r = [hand[h] EXCEPT !.pc = "send", !.to = registry]
        OBVIOUS
      <3>3. r.pc = "send" /\ r.to = d /\ r.next = n
        BY <1>6, <2>0, <3>1, <3>2 DEF HandlerRecs
      <3>4. hand' = [hand EXCEPT ![h] = r]
        BY <3>1, <3>2 DEF PushLookup
      <3> QED
        BY <3>1, <3>3, <3>4
    <2>2. \A i : Coming(d, i)' <=> Coming(d, i) \/ i = n
      BY <1>2, <2>1 DEF Coming
    <2>3. IsPaid(n) => \A i \in DOMAIN log : IsPaid(i) => i <= n
      BY <1>1, <1>2, <2>0, LastRow DEF Inserted
    <2>4. /\ \A i : IsPaid(i)' <=> IsPaid(i)
          /\ \A i : Written(d, i)' <=> Written(d, i)
          /\ \A i \in DOMAIN log : i \in Nat
          /\ conn[d].since \in Nat
      BY <1>1, <1>2, QueueType DEF IsPaid, Written
    <2>5. PageKnows(d)'
      BY <1>1, <1>2, <2>4 DEF StreamKnows, PageKnows
    <2>6. InOrder(d)'
      <3>1. \A a, b \in DOMAIN Queue(d)' :
              a < b /\ IsPaid(Queue(d)[a])' /\ IsPaid(Queue(d)[b])' => Queue(d)'[a] < Queue(d)'[b]
        BY <1>1, <1>2, <2>4 DEF StreamKnows, InOrder
      <3>2. IsPaid(n) => n >= conn[d].since
        BY <1>1, <2>3, <2>4 DEF StreamKnows, PageKnows, IsPaid
      <3>3. \A i \in DOMAIN log' : IsPaid(i)' /\ Coming(d, i)' => i >= conn'[d].since \/ i <= conn'[d].last
        BY <1>1, <1>2, <2>2, <2>4, <3>2 DEF StreamKnows, InOrder
      <3>4. ASSUME NEW i \in DOMAIN log, IsPaid(i), Written(d, i), ~(i <= conn[d].last)
            PROVE  /\ \A j \in DOMAIN log : IsPaid(j) /\ (Coming(d, j) \/ j = n) => i < j
                   /\ \A g \in Handlers : hand[g].pc \in Inserted => hand[g].next # i
        <4>1. /\ \A j \in DOMAIN log : IsPaid(j) /\ Coming(d, j) => i < j
              /\ \A g \in Handlers : hand[g].pc \in Inserted => hand[g].next # i
          BY <1>1, <3>4 DEF StreamKnows, InOrder
        <4>2. i # n
          BY <1>2, <2>0, <4>1 DEF Inserted
        <4>3. IsPaid(n) => i < n
          BY <2>3, <2>4, <3>4, <4>2
        <4> QED
          BY <4>1, <4>3
      <3>5. \A i \in DOMAIN log' : IsPaid(i)' /\ Written(d, i)' => \/ i <= conn'[d].last
              \/ /\ \A j \in DOMAIN log' : IsPaid(j)' /\ Coming(d, j)' => i < j
                 /\ \A g \in Handlers : hand'[g].pc \in Inserted => hand'[g].next # i
        BY <1>2, <1>3, <2>2, <2>4, <3>4 DEF HandsKeep
      <3> QED
        BY <3>1, <3>3, <3>5 DEF InOrder
    <2>7. GapFree(d)'
      <3>1. \A i : Covered(d, i) \/ i = n => Covered(d, i)'
        BY <1>2, <2>2, <2>4 DEF Covered
      <3>2. ASSUME Complete(d)' PROVE Complete(d)
        BY <1>2, <3>2 DEF Complete
      <3>3. \A i \in DOMAIN log : AtPush(i) => AtPush(i)' \/ i = n
        BY <2>0, <2>1 DEF AtPush
      <3>4. ASSUME Complete(d), NEW i \in DOMAIN log, IsPaid(i), IsPaid(n), i < n PROVE Covered(d, i)
        <4>1. Covered(d, i) \/ AtPush(i)
          BY <1>1, <1>6, <3>4 DEF StreamKnows, GapFree
        <4>2. ASSUME NEW g \in Handlers, hand[g].pc = "push", hand[g].next = i PROVE FALSE
          <5>1. n <= i
            BY <1>1, <3>4, <4>2, LastRow DEF Inserted
          <5> QED
            BY <2>4, <3>4, <5>1
        <4> QED
          BY <4>1, <4>2 DEF AtPush
      <3>5. ASSUME Complete(d)', NEW i \in DOMAIN log', NEW j \in DOMAIN log',
                   IsPaid(i)', IsPaid(j)', Coming(d, j)', i < j
            PROVE  Covered(d, i)'
        BY <1>1, <1>2, <2>2, <2>4, <3>1, <3>2, <3>4, <3>5 DEF StreamKnows, GapFree
      <3>6. ASSUME Complete(d)', registry' = d, NEW i \in DOMAIN log', IsPaid(i)'
            PROVE  Covered(d, i)' \/ AtPush(i)'
        BY <1>1, <1>2, <2>4, <3>1, <3>2, <3>3, <3>6 DEF StreamKnows, GapFree
      <3> QED
        BY <3>5, <3>6 DEF GapFree
    <2> QED
      BY <2>5, <2>6, <2>7 DEF StreamKnows
  <1> QED
    BY <1>5, <1>6

LEMMA StreamSend ==
  ASSUME OnceInv, Serial, StreamsKnow, NEW h \in Handlers, PushSend(h), NEW d \in Conns
  PROVE  StreamKnows(d)'
  <1>1. TypeOK /\ HandlersKnow /\ StreamKnows(d) /\ HandledOnce
    BY DEF OnceInv, IInv, StreamsKnow, StreamKnows
  <1>2. PICK c \in Conns : hand[h].to = c
    BY <1>1 DEF PushSend, SendTo, HandlersKnow
  <1>3. PICK n \in DOMAIN log : n = hand[h].next
    BY <1>1 DEF PushSend, SendTo, HandlersKnow
  <1>4. HandsKeep /\ registry' = registry
    BY <1>1, RequestEffect
  <1>5. /\ hand[h].pc = "send" /\ log' = log /\ hand'[h].pc = "idle"
        /\ \A g \in Handlers : g # h => hand'[g] = hand[g]
        /\ \A e \in Conns : e # c => conn'[e] = conn[e] /\ Queue(e)' = Queue(e)
        /\ conn'[c].pc = conn[c].pc /\ conn'[c].since = conn[c].since /\ conn'[c].page = conn[c].page
        /\ conn'[c].full = conn[c].full /\ conn'[c].last = conn[c].last
        /\ conn'[c].wrote = conn[c].wrote /\ conn'[c].pending = conn[c].pending
        /\ (conn'[c].open => conn[c].open)
        /\ Queue(c)' = Append(Queue(c), n) \/ (Queue(c)' = Queue(c) /\ ~conn'[c].open)
    BY <1>1, <1>2, <1>3, SendEffect, AnswerEffect
  <1>6. \A i : AtPush(i) => AtPush(i)'
    BY <1>5 DEF AtPush
  <1>7. CASE d # c
    <2>1. SameStream(d)
      BY <1>5, <1>7 DEF SameStream
    <2>2. \A i : Coming(d, i)' <=> Coming(d, i)
      BY <1>2, <1>5, <1>7 DEF Coming
    <2> QED
      BY <1>1, <1>4, <1>5, <1>6, <2>1, <2>2, StreamFrame
  <1>8. CASE d = c /\ Queue(c)' = Queue(c) /\ ~conn'[c].open
    <2>1. SameStream(d)
      BY <1>5, <1>8 DEF SameStream
    <2>2. \A i : Coming(d, i)' => Coming(d, i)
      BY <1>5, <1>8 DEF Coming
    <2> QED
      BY <1>1, <1>4, <1>5, <1>6, <1>8, <2>1, <2>2, StreamFrame
  <1>9. CASE d = c /\ Queue(c)' = Append(Queue(c), n)
    <2>0. PICK k \in Nat : k = Len(Queue(d)) + 1
      BY <1>1, QueueType
    <2>1. /\ \A a \in DOMAIN Queue(d) : /\ a \in DOMAIN Queue(d)' /\ Queue(d)'[a] = Queue(d)[a] /\ a < k
                                        /\ a \in Nat
          /\ \A a \in DOMAIN Queue(d)' : a \in DOMAIN Queue(d) \/ a = k
          /\ Queue(d)'[k] = n /\ k \in DOMAIN Queue(d)'
      <3>1. Queue(d) \in Seq(DOMAIN log) /\ Queue(d)' = Append(Queue(d), n)
        BY <1>1, <1>9, QueueType
      <3> QED
        BY <2>0, <3>1
    <2>2. \A i : Coming(d, i)' <=> Coming(d, i)
      <3>1. ASSUME NEW i, Coming(d, i)' PROVE Coming(d, i)
        <4>1. CASE \E a \in DOMAIN Queue(d)' : Queue(d)'[a] = i
          BY <1>2, <1>3, <1>5, <1>9, <2>1, <4>1 DEF Coming
        <4>2. CASE \E g \in Handlers : hand'[g].pc = "send" /\ hand'[g].to = d /\ hand'[g].next = i
          BY <1>5, <4>2 DEF Coming
        <4> QED
          BY <3>1, <4>1, <4>2 DEF Coming
      <3>2. ASSUME NEW i, Coming(d, i) PROVE Coming(d, i)'
        <4>1. CASE \E a \in DOMAIN Queue(d) : Queue(d)[a] = i
          BY <2>1, <4>1 DEF Coming
        <4>2. CASE \E g \in Handlers : hand[g].pc = "send" /\ hand[g].to = d /\ hand[g].next = i
          BY <1>3, <1>5, <2>1, <4>2 DEF Coming
        <4> QED
          BY <3>2, <4>1, <4>2 DEF Coming
      <3> QED
        BY <3>1, <3>2
    <2>3. /\ \A i : IsPaid(i)' <=> IsPaid(i)
          /\ \A i : Written(d, i)' <=> Written(d, i)
          /\ \A i \in DOMAIN log : i \in Nat
      BY <1>1, <1>5, <1>9, QueueType DEF IsPaid, Written
    <2>4. PageKnows(d)'
      BY <1>1, <1>5, <1>9, <2>3 DEF StreamKnows, PageKnows
    <2>5. InOrder(d)'
      <3>1. ASSUME NEW a \in DOMAIN Queue(d)', NEW b \in DOMAIN Queue(d)', a < b,
                   IsPaid(Queue(d)[a])', IsPaid(Queue(d)[b])'
            PROVE  Queue(d)'[a] < Queue(d)'[b]
        <4>1. a \in DOMAIN Queue(d)
          BY <2>0, <2>1, <3>1
        <4>2. CASE b \in DOMAIN Queue(d)
          BY <1>1, <2>1, <2>3, <3>1, <4>1, <4>2 DEF StreamKnows, InOrder
        <4>3. CASE b = k
          <5>1. Queue(d)[a] <= n
            BY <1>1, <1>3, <1>5, <2>1, <2>3, <3>1, <4>1, <4>3, LastRow, QueueElems DEF Inserted
          <5>2. Queue(d)[a] # n /\ Queue(d)[a] \in Nat
            BY <1>1, <1>3, <1>5, <2>3, <4>1, QueueElems DEF HandledOnce, Inserted
          <5> QED
            BY <2>1, <2>3, <4>1, <4>3, <5>1, <5>2
        <4> QED
          BY <2>1, <4>2, <4>3
      <3>2. \A i \in DOMAIN log' : IsPaid(i)' /\ Coming(d, i)' => i >= conn'[d].since \/ i <= conn'[d].last
        BY <1>1, <1>5, <1>9, <2>2, <2>3 DEF StreamKnows, InOrder
      <3>3. \A i \in DOMAIN log' : IsPaid(i)' /\ Written(d, i)' => \/ i <= conn'[d].last
              \/ /\ \A j \in DOMAIN log' : IsPaid(j)' /\ Coming(d, j)' => i < j
                 /\ \A g \in Handlers : hand'[g].pc \in Inserted => hand'[g].next # i
        BY <1>1, <1>4, <1>5, <1>9, <2>2, <2>3 DEF StreamKnows, InOrder, HandsKeep
      <3> QED
        BY <3>1, <3>2, <3>3 DEF InOrder
    <2>6. GapFree(d)'
      <3>1. \A i : Covered(d, i) => Covered(d, i)'
        BY <1>5, <1>9, <2>2, <2>3 DEF Covered
      <3>2. ASSUME Complete(d)' PROVE Complete(d)
        BY <1>5, <1>9, <3>2 DEF Complete
      <3> QED
        BY <1>1, <1>4, <1>5, <1>6, <1>9, <2>2, <2>3, <3>1, <3>2 DEF StreamKnows, GapFree
    <2> QED
      BY <2>4, <2>5, <2>6 DEF StreamKnows
  <1> QED
    BY <1>5, <1>7, <1>8, <1>9

\* A session goes on to its next part without reading, writing or being pushed to.
LEMMA SessionMoves ==
  ASSUME log' = log, hand' = hand, NEW d \in Conns, StreamKnows(d),
         conn'[d].since = conn[d].since, conn'[d].last = conn[d].last, conn'[d].page = conn[d].page,
         conn'[d].wrote = conn[d].wrote, Queue(d)' = Queue(d),
         conn'[d].pc \notin {"replay", "closing"} => conn[d].page = {},
         conn'[d].pc # "replay", conn'[d].pc \in Replaying => conn[d].pc \in Replaying,
         Complete(d)' => Complete(d) /\ (registry' = d => registry = d)
  PROVE  StreamKnows(d)'
  <1>1. /\ \A i : IsPaid(i)' <=> IsPaid(i)
        /\ \A i : Written(d, i)' <=> Written(d, i)
        /\ \A i : Coming(d, i)' <=> Coming(d, i)
        /\ \A i : AtPush(i)' <=> AtPush(i)
    BY DEF IsPaid, Written, Coming, AtPush
  <1>2. PageKnows(d)'
    BY <1>1 DEF StreamKnows, PageKnows
  <1>3. InOrder(d)'
    BY <1>1 DEF StreamKnows, InOrder
  <1>4. \A i : Covered(d, i)' <=> Covered(d, i)
    BY <1>1 DEF Covered
  <1>5. GapFree(d)'
    BY <1>1, <1>4 DEF StreamKnows, GapFree
  <1> QED
    BY <1>2, <1>3, <1>5 DEF StreamKnows

LEMMA StreamReadPage ==
  ASSUME TypeOK, NEW c \in Conns, StreamKnows(c), ReadPage(c)
  PROVE  StreamKnows(c)'
  <1>1. /\ OnlyConn(c) /\ conn[c].pc = "read" /\ conn'[c].pc = "replay"
        /\ conn'[c].open = conn[c].open /\ conn'[c].since = conn[c].since
        /\ conn'[c].last = conn[c].last /\ conn'[c].wrote = conn[c].wrote
        /\ conn'[c].page = EventsAfter(conn[c].since)
        /\ conn'[c].full = (Cardinality(EventsAfter(conn[c].since)) = MaxReplay)
        /\ Queue(c)' = Queue(c) /\ registry' = registry
    BY ReadPageEffect
  <1>2. log' = log /\ hand' = hand
    BY <1>1 DEF OnlyConn
  <1>3. PICK P : P = EventsAfter(conn[c].since)
    OBVIOUS
  <1>4. conn[c].since \in Nat /\ \A i \in DOMAIN log : i \in Nat
    BY QueueType
  <1>5. /\ \A i \in P : i \in DOMAIN log /\ i > conn[c].since
        /\ \A i \in P, j \in DOMAIN log : IsPaid(j) /\ conn[c].since < j /\ j < i => j \in P
        /\ Cardinality(P) # MaxReplay => \A j \in DOMAIN log : IsPaid(j) /\ conn[c].since < j => j \in P
    BY <1>3, <1>4, PageFacts
  <1>6. /\ \A i : IsPaid(i)' <=> IsPaid(i)
        /\ \A i : Written(c, i)' <=> Written(c, i)
        /\ \A i : Coming(c, i)' <=> Coming(c, i)
    BY <1>1, <1>2 DEF IsPaid, Written, Coming
  <1>7. PageKnows(c)'
    BY <1>1, <1>2, <1>3, <1>5, <1>6 DEF StreamKnows, PageKnows, Replaying
  <1>8. InOrder(c)'
    BY <1>1, <1>2, <1>6 DEF StreamKnows, InOrder
  <1>9. ASSUME Complete(c)', NEW i \in DOMAIN log, IsPaid(i) PROVE Covered(c, i)'
    <2>1. Cardinality(P) # MaxReplay
      BY <1>1, <1>3, <1>9 DEF Complete
    <2> QED
      BY <1>1, <1>3, <1>4, <1>5, <1>9, <2>1 DEF Covered
  <1>10. GapFree(c)'
    BY <1>2, <1>6, <1>9 DEF GapFree
  <1> QED
    BY <1>7, <1>8, <1>10 DEF StreamKnows

LEMMA StreamReplay ==
  ASSUME OnceInv, NEW c \in Conns, StreamKnows(c), ReplayEvent(c)
  PROVE  StreamKnows(c)'
  <1>0. TypeOK
    BY DEF OnceInv, IInv
  <1>1. PICK i \in conn[c].page :
         /\ OnlyConn(c) /\ conn[c].pc = "replay" /\ conn'[c].pc \in {"replay", "closing"}
         /\ \A j \in conn[c].page : i <= j
         /\ conn[c].open /\ conn'[c].open /\ conn'[c].since = i /\ conn'[c].last = i
         /\ conn'[c].wrote = Append(conn[c].wrote, i)
         /\ conn'[c].page = conn[c].page \ {i} /\ conn'[c].full = conn[c].full
         /\ Queue(c)' = Queue(c) /\ registry' = registry
    BY <1>0, ReplayEffect
  <1>2. log' = log /\ hand' = hand
    BY <1>1 DEF OnlyConn
  <1>3. /\ i \in DOMAIN log /\ conn[c].since \in Nat /\ conn[c].last \in Nat
        /\ \A j \in DOMAIN log : j \in Nat
        /\ conn[c].page \subseteq DOMAIN log
    <2>1. /\ conn[c].page \subseteq DOMAIN log /\ DOMAIN log = 1..Len(log) /\ Len(log) \in Nat
          /\ conn[c].since \in 0..Len(log) /\ conn[c].last \in 0..Len(log)
      BY <1>0, QueueType
    <2>2. i \in DOMAIN log
      BY <1>1, <2>1
    <2> QED
      BY <2>1, <2>2
  <1>4. IsPaid(i)
    BY <1>3 DEF OnceInv, CommandsWait, IsPaid
  <1>5. /\ \A j : IsPaid(j)' <=> IsPaid(j)
        /\ \A j : Coming(c, j)' <=> Coming(c, j)
        /\ \A j : AtPush(j)' <=> AtPush(j)
    BY <1>1, <1>2 DEF IsPaid, Coming, AtPush
  <1>6. \A j : Written(c, j)' <=> Written(c, j) \/ j = i
    <2>1. conn[c].wrote \in Seq(DOMAIN log)
      BY <1>0, QueueType
    <2>2. /\ \A a \in DOMAIN conn[c].wrote : a \in DOMAIN conn'[c].wrote /\ conn'[c].wrote[a] = conn[c].wrote[a]
          /\ \A a \in DOMAIN conn'[c].wrote : a \in DOMAIN conn[c].wrote \/ conn'[c].wrote[a] = i
          /\ \E a \in DOMAIN conn'[c].wrote : conn'[c].wrote[a] = i
      <3>1. conn'[c].wrote = Append(conn[c].wrote, i) /\ i \in DOMAIN log
        BY <1>1, <1>3
      <3> QED
        BY <2>1, <3>1
    <2> QED
      BY <2>2 DEF Written
  <1>7. /\ i > conn[c].since /\ conn[c].last <= conn[c].since
        /\ \A j \in conn[c].page : j > conn[c].since /\
             \A k \in DOMAIN log : IsPaid(k) /\ conn[c].since < k /\ k < j => k \in conn[c].page
        /\ \A j \in DOMAIN log : Written(c, j) => j <= conn[c].last
    BY <1>1 DEF StreamKnows, PageKnows, Replaying
  <1>8. \A j \in DOMAIN log : Written(c, j)' => j <= i
    BY <1>3, <1>6, <1>7
  <1>9. PageKnows(c)'
    <2>1. ASSUME NEW j \in conn'[c].page
          PROVE  /\ j > i
                 /\ \A k \in DOMAIN log : IsPaid(k) /\ i < k /\ k < j => k \in conn'[c].page
      BY <1>1, <1>3, <1>7, <2>1
    <2> QED
      BY <1>1, <1>2, <1>3, <1>4, <1>5, <1>8, <2>1 DEF PageKnows
  <1>10. InOrder(c)'
    <2>1. \A a, b \in DOMAIN Queue(c)' :
            a < b /\ IsPaid(Queue(c)[a])' /\ IsPaid(Queue(c)[b])' => Queue(c)'[a] < Queue(c)'[b]
      BY <1>1, <1>5 DEF StreamKnows, InOrder
    <2>2. \A j \in DOMAIN log : j >= i \/ j <= i
      BY <1>3
    <2> QED
      BY <1>1, <1>2, <1>8, <2>1, <2>2 DEF InOrder
  <1>11. GapFree(c)'
    <2>1. ASSUME NEW j \in DOMAIN log, Covered(c, j) PROVE Covered(c, j)'
      BY <1>1, <1>3, <1>5, <1>6, <1>7, <2>1 DEF Covered
    <2>2. ASSUME Complete(c)' PROVE Complete(c)
      BY <1>1, <2>2 DEF Complete
    <2> QED
      BY <1>1, <1>2, <1>5, <2>1, <2>2 DEF StreamKnows, GapFree
  <1> QED
    BY <1>9, <1>10, <1>11 DEF StreamKnows

LEMMA StreamForward ==
  ASSUME OnceInv, Serial, NEW c \in Conns, StreamKnows(c), ForwardStep(c)
  PROVE  StreamKnows(c)'
  <1>0. TypeOK /\ HandledOnce /\ Flushed
    BY DEF OnceInv, IInv
  <1>1. Queue(c) \in Seq(DOMAIN log) /\ Queue(c) # << >>
    BY <1>0, QueueType, ForwardEffect
  <1>2. PICK f \in DOMAIN log : f = Head(Queue(c))
    BY <1>1, SeqOps
  <1>3. /\ OnlyConn(c) /\ Queue(c)' = Tail(Queue(c))
        /\ conn[c].pc \in {"flush", "live"} /\ conn'[c].pc = conn[c].pc
        /\ conn'[c].open = conn[c].open /\ conn'[c].since = conn[c].since
        /\ conn'[c].page = conn[c].page /\ conn'[c].last = conn[c].last
        /\ registry' = registry
        /\ \/ f <= conn[c].last /\ conn'[c].wrote = conn[c].wrote
           \/ ~(f <= conn[c].last) /\ conn'[c].wrote = Append(conn[c].wrote, f)
    BY <1>0, <1>2, ForwardEffect
  <1>4. log' = log /\ hand' = hand
    BY <1>3 DEF OnlyConn
  <1>5. /\ 1 \in DOMAIN Queue(c) /\ Queue(c)[1] = f
        /\ \A a \in DOMAIN Queue(c)' : a \in Nat /\ a + 1 \in DOMAIN Queue(c) /\ 1 < a + 1
                                       /\ Queue(c)'[a] = Queue(c)[a + 1]
        /\ \A a \in DOMAIN Queue(c) : a = 1 \/ (a - 1 \in DOMAIN Queue(c)' /\ Queue(c)'[a - 1] = Queue(c)[a])
    BY <1>1, <1>2, <1>3
  <1>6. /\ conn[c].since \in Nat /\ conn[c].last \in Nat /\ \A j \in DOMAIN log : j \in Nat
        /\ \A a \in DOMAIN Queue(c) : Queue(c)[a] \in DOMAIN log
    BY <1>0, QueueType, QueueElems
  <1>7. /\ \A j : IsPaid(j)' <=> IsPaid(j)
        /\ \A j : AtPush(j)' <=> AtPush(j)
    BY <1>4 DEF IsPaid, AtPush
  <1>8. /\ \A j : Coming(c, j)' => Coming(c, j)
        /\ \A j : Coming(c, j) => Coming(c, j)' \/ j = f
        /\ Coming(c, f)
    BY <1>4, <1>5 DEF Coming
  <1>9. /\ \A j : Written(c, j) => Written(c, j)'
        /\ \A j : Written(c, j)' => Written(c, j) \/ (j = f /\ ~(f <= conn[c].last))
        /\ f <= conn[c].last \/ Written(c, f)'
    <2>1. conn[c].wrote \in Seq(DOMAIN log)
      BY <1>0, QueueType
    <2>2. CASE conn'[c].wrote = conn[c].wrote /\ f <= conn[c].last
      BY <2>2 DEF Written
    <2>3. CASE ~(f <= conn[c].last) /\ conn'[c].wrote = Append(conn[c].wrote, f)
      <3>1. /\ \A a \in DOMAIN conn[c].wrote : a \in DOMAIN conn'[c].wrote /\ conn'[c].wrote[a] = conn[c].wrote[a]
            /\ \A a \in DOMAIN conn'[c].wrote : a \in DOMAIN conn[c].wrote \/ conn'[c].wrote[a] = f
            /\ \E a \in DOMAIN conn'[c].wrote : conn'[c].wrote[a] = f
        BY <2>1, <2>3
      <3> QED
        BY <2>3, <3>1 DEF Written
    <2> QED
      BY <1>3, <2>2, <2>3
  <1>10. PageKnows(c)'
    BY <1>3, <1>4, <1>7 DEF StreamKnows, PageKnows, Replaying
  \* What still comes is after the frame that leaves.
  <1>11. ASSUME IsPaid(f), NEW j \in DOMAIN log, IsPaid(j), Coming(c, j)' PROVE f < j
    <2>1. CASE \E a \in DOMAIN Queue(c)' : Queue(c)'[a] = j
      BY <1>5, <1>11, <2>1 DEF StreamKnows, InOrder
    <2>2. CASE \E h \in Handlers : hand[h].pc = "send" /\ hand[h].to = c /\ hand[h].next = j
      <3>1. PICK h \in Handlers : hand[h].pc = "send" /\ hand[h].next = j
        BY <2>2
      <3>2. f <= j
        BY <1>0, <1>11, <3>1, LastRow DEF Inserted
      <3>3. f # j
        BY <1>0, <1>5, <3>1 DEF HandledOnce, Inserted
      <3> QED
        BY <1>6, <3>2, <3>3
    <2> QED
      BY <1>4, <1>11, <2>1, <2>2 DEF Coming
  <1>12. \A h \in Handlers : hand[h].pc \in Inserted => hand[h].next # f
    BY <1>0, <1>5 DEF HandledOnce
  <1>13. InOrder(c)'
    <2>1. \A a, b \in DOMAIN Queue(c)' :
            a < b /\ IsPaid(Queue(c)[a])' /\ IsPaid(Queue(c)[b])' => Queue(c)'[a] < Queue(c)'[b]
      <3> SUFFICES ASSUME NEW a \in DOMAIN Queue(c)', NEW b \in DOMAIN Queue(c)', a < b,
                          IsPaid(Queue(c)[a])', IsPaid(Queue(c)[b])'
                   PROVE  Queue(c)'[a] < Queue(c)'[b]
        OBVIOUS
      <3>1. a + 1 < b + 1 /\ IsPaid(Queue(c)[a + 1]) /\ IsPaid(Queue(c)[b + 1])
        BY <1>4, <1>5 DEF IsPaid
      <3> QED
        BY <1>5, <3>1 DEF StreamKnows, InOrder
    <2>2. \A j \in DOMAIN log' : IsPaid(j)' /\ Coming(c, j)' => j >= conn'[c].since \/ j <= conn'[c].last
      BY <1>3, <1>4, <1>7, <1>8 DEF StreamKnows, InOrder
    <2>3. \A j \in DOMAIN log' : IsPaid(j)' /\ Written(c, j)' => \/ j <= conn'[c].last
            \/ /\ \A k \in DOMAIN log' : IsPaid(k)' /\ Coming(c, k)' => j < k
               /\ \A h \in Handlers : hand'[h].pc \in Inserted => hand'[h].next # j
      BY <1>3, <1>4, <1>7, <1>8, <1>9, <1>11, <1>12 DEF StreamKnows, InOrder
    <2> QED
      BY <2>1, <2>2, <2>3 DEF InOrder
  <1>14. GapFree(c)'
    <2>1. ASSUME NEW j \in DOMAIN log, Covered(c, j) PROVE Covered(c, j)'
      <3>1. conn[c].last <= conn[c].since
        BY DEF StreamKnows, PageKnows
      <3>2. f <= conn[c].since \/ Written(c, f)'
        BY <1>6, <1>9, <3>1
      <3> QED
        BY <1>3, <1>8, <1>9, <2>1, <3>2 DEF Covered
    <2>2. ASSUME Complete(c)' PROVE Complete(c)
      BY <1>3, <2>2 DEF Complete
    <2> QED
      BY <1>3, <1>4, <1>7, <1>8, <2>1, <2>2 DEF StreamKnows, GapFree
  <1> QED
    BY <1>10, <1>13, <1>14 DEF StreamKnows

LEMMA StreamsRequest ==
  ASSUME TypeOK, HandsKeep, StreamsKnow, NEW h \in Handlers,
         log' = log, conn' = conn, registry' = registry,
         hand[h].pc \notin {"push", "send"}, hand'[h].pc # "send",
         \A g \in Handlers : g # h => hand'[g] = hand[g]
  PROVE  StreamsKnow'
  <1>1. ASSUME NEW d \in Conns PROVE StreamKnows(d)'
    <2>1. StreamKnows(d)
      BY DEF StreamsKnow, StreamKnows
    <2>2. SameStream(d)
      BY SameQueues DEF SameStream
    <2>3. \A i : Coming(d, i)' <=> Coming(d, i)
      BY SameQueues DEF Coming
    <2>4. \A i : AtPush(i) => AtPush(i)'
      BY DEF AtPush
    <2> QED
      BY <2>1, <2>2, <2>3, <2>4, StreamFrame
  <1> QED
    BY <1>1 DEF StreamsKnow, StreamKnows

\* Every other session is as it was: only c's stream is left to look at.
LEMMA StreamsButOne ==
  ASSUME StreamsKnow, NEW c \in Conns, OnlyConn(c), registry' \in {registry, c, NoConn},
         StreamKnows(c)'
  PROVE  StreamsKnow'
  <1>1. /\ log' = log /\ hand' = hand
        /\ \A d \in Conns : d # c => conn'[d] = conn[d] /\ Queue(d)' = Queue(d)
    BY OtherQueues DEF OnlyConn
  <1>2. \A d \in Conns : StreamKnows(d)
    BY DEF StreamsKnow, StreamKnows
  <1>3. \A d \in Conns : d # c => StreamKnows(d)'
    BY <1>1, <1>2, StreamsUnmoved
  <1> QED
    BY <1>3 DEF StreamsKnow, StreamKnows

LEMMA StreamsConn ==
  ASSUME OneSource, OnceInv, TypeOK', Serial, StreamsKnow, CursorKnows, NEW c \in Conns,
         Dial(c) \/ ConnStep(c) \/ ReplayFails(c)
  PROVE  StreamsKnow'
  <1>0. TypeOK /\ Flushed /\ ConnsKnow /\ StreamKnows(c)
    BY DEF OnceInv, IInv, StreamsKnow, StreamKnows
  <1>a. ASSUME NEW i, IsPaid(i), log' = log PROVE IsPaid(i)'
    BY <1>a DEF IsPaid
  <1>1. CASE Dial(c)
    <2>1. /\ OnlyConn(c) /\ Queue(c)' = << >> /\ conn'[c].pc = "add"
          /\ conn'[c].since = cursor /\ conn'[c].page = {} /\ conn'[c].last = 0 /\ conn'[c].wrote = << >>
          /\ registry' = registry /\ \A h \in Handlers : hand[h].to # c
      BY <1>0, <1>1, DialEffect
    <2>2. /\ \A h \in Handlers : ~(hand'[h].pc = "send" /\ hand'[h].to = c)
          /\ conn'[c].since = 0 \/ (IsPaid(conn'[c].since) /\ log' = log)
      BY <2>1 DEF OnlyConn, CursorKnows
    <2>3. conn'[c].since = 0 \/ IsPaid(conn[c].since)'
      BY <2>2 DEF IsPaid
    <2>4. StreamKnows(c)'
      BY <2>1, <2>2, <2>3, EmptyStream
    <2> QED
      BY <2>1, <2>4, StreamsButOne
  <1>2. CASE RegistryAdd(c)
    <2>1. /\ OnlyConn(c) /\ Queue(c)' = Queue(c) /\ conn[c].pc = "add" /\ conn'[c].pc = "displace"
          /\ conn'[c].since = conn[c].since /\ conn'[c].page = conn[c].page
          /\ conn'[c].last = conn[c].last /\ conn'[c].wrote = conn[c].wrote
          /\ registry' = c
      BY <1>0, <1>2, AddEffect
    <2>2. StreamKnows(c)'
      <3>1. conn[c].page = {}
        BY <1>0, <2>1 DEF StreamKnows, PageKnows
      <3>2. ~Complete(c)'
        BY <2>1 DEF Complete
      <3> QED
        BY <1>0, <2>1, <3>1, <3>2, SessionMoves DEF OnlyConn, Replaying
    <2> QED
      BY <2>1, <2>2, StreamsButOne
  <1>3. CASE CloseDisplaced(c)
    <2>1. /\ log' = log /\ hand' = hand /\ registry' = registry
          /\ \A d \in Conns :
              /\ Queue(d)' = Queue(d) /\ conn'[d].since = conn[d].since /\ conn'[d].page = conn[d].page
              /\ conn'[d].last = conn[d].last /\ conn'[d].wrote = conn[d].wrote
              /\ conn'[d].full = conn[d].full /\ (conn'[d].open => conn[d].open)
              /\ IF d = c THEN conn[d].pc = "displace" /\ conn'[d].pc = "read"
                 ELSE conn'[d].pc = conn[d].pc
      BY <1>0, <1>3, DisplaceEffect
    <2>2. ASSUME NEW d \in Conns, d # c PROVE StreamKnows(d)'
      <3>1. StreamKnows(d) /\ SameStream(d)
        BY <2>1, <2>2 DEF StreamsKnow, StreamKnows, SameStream
      <3> QED
        BY <2>1, <3>1, OtherStreams
    <2>3. StreamKnows(c)'
      <3>1. conn[c].page = {}
        BY <1>0, <2>1 DEF StreamKnows, PageKnows
      <3>2. ~Complete(c)'
        BY <2>1 DEF Complete
      <3> QED
        BY <1>0, <2>1, <3>1, <3>2, SessionMoves DEF Replaying
    <2> QED
      BY <2>2, <2>3 DEF StreamsKnow, StreamKnows
  <1>4. CASE ReadPage(c)
    BY <1>0, <1>4, ReadPageEffect, StreamReadPage, StreamsButOne
  <1>5. CASE ReplayEvent(c)
    <2>1. OnlyConn(c) /\ registry' = registry
      BY <1>0, <1>5, ReplayEffect
    <2> QED
      BY <1>0, <1>5, <2>1, StreamReplay, StreamsButOne
  <1>6. CASE PageDone(c)
    <2>1. /\ OnlyConn(c) /\ conn[c].pc = "replay" /\ conn[c].page = {} /\ conn'[c].page = {}
          /\ conn'[c].pc = IF ~conn[c].full THEN "ready"
                           ELSE IF conn[c].replayed >= MaxReplayPerConn THEN "closing" ELSE "read"
          /\ conn'[c].open = conn[c].open /\ conn'[c].since = conn[c].since
          /\ conn'[c].last = conn[c].last /\ conn'[c].wrote = conn[c].wrote /\ Queue(c)' = Queue(c)
          /\ registry' = registry
      BY <1>0, <1>6, PageDoneEffect
    <2>2. StreamKnows(c)'
      <3>1. Complete(c)' => Complete(c)
        BY <2>1 DEF Complete
      <3>2. conn'[c].pc # "replay"
        BY <2>1
      <3>3. conn[c].pc \in Replaying
        BY <2>1 DEF Replaying
      <3> QED
        BY <1>0, <2>1, <3>1, <3>2, <3>3, SessionMoves DEF OnlyConn
    <2> QED
      BY <2>1, <2>2, StreamsButOne
  <1>7. CASE Ready(c)
    <2>1. /\ OnlyConn(c) /\ conn[c].pc = "ready" /\ conn[c].open /\ conn'[c].pc \in {"flush", "closing"}
          /\ conn'[c].since = conn[c].since /\ conn'[c].page = conn[c].page
          /\ conn'[c].last = conn[c].last /\ conn'[c].wrote = conn[c].wrote /\ Queue(c)' = Queue(c)
          /\ registry' = registry
      BY <1>0, <1>7, ReadyEffect
    <2>2. StreamKnows(c)'
      <3>1. conn[c].page = {}
        BY <1>0, <2>1 DEF StreamKnows, PageKnows
      <3>2. Complete(c)
        BY <2>1 DEF Complete
      <3> QED
        BY <1>0, <2>1, <3>1, <3>2, SessionMoves DEF OnlyConn, Replaying
    <2> QED
      BY <2>1, <2>2, StreamsButOne
  <1>8. CASE FlushPending(c) /\ conn[c].pending = << >>
    <2>1. /\ OnlyConn(c) /\ conn[c].pc = "flush" /\ conn'[c].pc = "live"
          /\ conn'[c].open = conn[c].open /\ conn'[c].since = conn[c].since /\ conn'[c].page = conn[c].page
          /\ conn'[c].last = conn[c].last /\ conn'[c].wrote = conn[c].wrote /\ Queue(c)' = Queue(c)
          /\ registry' = registry
      BY <1>0, <1>8, FlushedEffect
    <2>2. StreamKnows(c)'
      <3>1. conn[c].page = {}
        BY <1>0, <2>1 DEF StreamKnows, PageKnows
      <3>2. Complete(c)' => Complete(c)
        BY <2>1 DEF Complete
      <3> QED
        BY <1>0, <2>1, <3>1, <3>2, SessionMoves DEF OnlyConn, Replaying
    <2> QED
      BY <2>1, <2>2, StreamsButOne
  <1>9. CASE ForwardStep(c)
    <2>1. OnlyConn(c) /\ registry' = registry
      BY <1>0, <1>9, ForwardEffect
    <2> QED
      BY <1>0, <1>9, <2>1, StreamForward, StreamsButOne
  <1>10. CASE StopWriting(c) \/ ReplayFails(c)
    <2>1. /\ OnlyConn(c) /\ conn'[c].pc = "closing" /\ conn'[c].since = conn[c].since
          /\ conn'[c].last = conn[c].last /\ conn'[c].wrote = conn[c].wrote
          /\ conn'[c].page = conn[c].page /\ Queue(c)' = Queue(c) /\ registry' = registry
      BY <1>0, <1>10, EndEffect
    <2>2. StreamKnows(c)'
      <3>1. ~Complete(c)'
        BY <2>1 DEF Complete
      <3> QED
        BY <1>0, <2>1, <3>1, SessionMoves DEF OnlyConn, Replaying
    <2> QED
      BY <2>1, <2>2, StreamsButOne
  <1>11. CASE Remove(c)
    <2>1. /\ OnlyConn(c) /\ Queue(c)' = << >> /\ conn'[c] = NoSession
          /\ registry' = IF registry = c THEN NoConn ELSE registry
      BY <1>0, <1>11, RemoveEffect
    <2>2. StreamKnows(c)'
      BY <2>1, EmptyStream DEF NoSession
    <2> QED
      BY <2>1, <2>2, StreamsButOne
  <1>12. FlushPending(c) \/ LiveFrame(c) => (FlushPending(c) /\ conn[c].pending = << >>) \/ ForwardStep(c)
    BY DEF ForwardStep
  <1> QED
    BY <1>1, <1>2, <1>3, <1>4, <1>5, <1>6, <1>7, <1>8, <1>9, <1>10, <1>11, <1>12 DEF ConnStep

LEMMA StreamsNext ==
  ASSUME OneSource, OnceInv, TypeOK', Serial, StreamsKnow, CursorKnows, [Next]_vars
  PROVE  StreamsKnow'
  <1>0. TypeOK /\ HandlersKnow
    BY DEF OnceInv, IInv
  <1>1. ASSUME NEW h \in Handlers, NEW m \in Msgs, Deliver(h, m) PROVE StreamsKnow'
    <2>1. HandsKeep /\ registry' = registry
      BY <1>0, <1>1, RequestEffect
    <2>2. /\ log' = log /\ conn' = conn /\ hand[h].pc = "idle" /\ hand'[h].pc = "lock"
          /\ \A g \in Handlers : g # h => hand'[g] = hand[g]
      BY <1>0, <1>1 DEF Deliver, TypeOK, IdleHandler
    <2> QED
      BY <1>0, <2>1, <2>2, StreamsRequest
  <1>2. ASSUME NEW h \in Handlers, TakeIngestLock(h) PROVE StreamsKnow'
    <2>1. HandsKeep /\ registry' = registry
      BY <1>0, <1>2, RequestEffect
    <2>2. /\ log' = log /\ conn' = conn /\ hand[h].pc = "lock" /\ hand'[h].pc = "snapshot"
          /\ \A g \in Handlers : g # h => hand'[g] = hand[g]
      BY <1>0, <1>2 DEF TakeIngestLock, LockKeys, TypeOK, HandlerRecs
    <2> QED
      BY <1>0, <2>1, <2>2, StreamsRequest
  <1>3. ASSUME NEW h \in Handlers, ReadTail(h) PROVE StreamsKnow'
    <2>1. HandsKeep /\ registry' = registry
      BY <1>0, <1>3, RequestEffect
    <2>2. /\ log' = log /\ conn' = conn /\ hand[h].pc = "snapshot" /\ hand'[h].pc = "insert"
          /\ \A g \in Handlers : g # h => hand'[g] = hand[g]
      BY <1>0, <1>3 DEF ReadTail, ReadTailThen, TypeOK, HandlerRecs
    <2> QED
      BY <1>0, <2>1, <2>2, StreamsRequest
  <1>4. ASSUME NEW h \in Handlers, InsertEvent(h) PROVE StreamsKnow'
    <2>1. /\ hand[h].pc = "insert" /\ conn' = conn /\ registry' = registry
          /\ log' # log \/ (log' = log /\ HandsKeep /\ (Answer(h) \/ (hand'[h].pc = "snapshot"
                             /\ \A g \in Handlers : g # h => hand'[g] = hand[g])))
      BY <1>0, <1>4, InsertEffect
    <2>2. CASE log' # log
      <3>1. \A d \in Conns : StreamKnows(d)'
        BY <1>4, <2>2, StreamInsert
      <3> QED
        BY <3>1 DEF StreamsKnow, StreamKnows
    <2>3. CASE log' = log
      <3>1. hand'[h].pc # "send" /\ \A g \in Handlers : g # h => hand'[g] = hand[g]
        BY <1>0, <2>1, <2>3, AnswerEffect
      <3> QED
        BY <1>0, <2>1, <2>3, <3>1, StreamsRequest
    <2> QED
      BY <2>2, <2>3
  <1>5. ASSUME NEW h \in Handlers, IngestFails(h) PROVE StreamsKnow'
    <2>1. HandsKeep /\ registry' = registry
      BY <1>0, <1>5, RequestEffect
    <2>2. /\ log' = log /\ conn' = conn /\ hand[h].pc \notin {"push", "send"} /\ Answer(h)
      BY <1>5 DEF IngestFails, OneSource
    <2>3. hand'[h].pc # "send" /\ \A g \in Handlers : g # h => hand'[g] = hand[g]
      BY <1>0, <2>2, AnswerEffect
    <2> QED
      BY <1>0, <2>1, <2>2, <2>3, StreamsRequest
  <1>6. ASSUME NEW h \in Handlers, ProbeConnected(h) PROVE StreamsKnow'
    <2>1. HandsKeep /\ registry' = registry
      BY <1>0, <1>6, RequestEffect
    <2>2. /\ log' = log /\ conn' = conn /\ hand[h].pc = "probe" /\ hand'[h].pc = "push"
          /\ \A g \in Handlers : g # h => hand'[g] = hand[g]
      BY <1>0, <1>6 DEF ProbeConnected, TypeOK, HandlerRecs
    <2> QED
      BY <1>0, <2>1, <2>2, StreamsRequest
  <1>7. ASSUME NEW h \in Handlers, PushLookup(h) \/ PushSend(h) PROVE StreamsKnow'
    <2>1. \A d \in Conns : StreamKnows(d)'
      BY <1>7, StreamLookup, StreamSend
    <2> QED
      BY <2>1 DEF StreamsKnow, StreamKnows
  <1>8. ASSUME NEW c \in Conns, Dial(c) \/ ConnStep(c) \/ ReplayFails(c) PROVE StreamsKnow'
    BY <1>8, StreamsConn
  <1>9. ASSUME conn' = conn, log' = log, hand' = hand, registry' = registry PROVE StreamsKnow'
    <2>1. ASSUME NEW d \in Conns PROVE StreamKnows(d)'
      <3>1. StreamKnows(d) /\ SameStream(d)
        BY <1>9, SameQueues DEF StreamsKnow, StreamKnows, SameStream
      <3> QED
        BY <1>9, <3>1, OtherStreams
    <2> QED
      BY <2>1 DEF StreamsKnow, StreamKnows
  <1>10. CASE (\E c \in Conns : SocketDropped(c)) \/ OverlayLeaves \/ UNCHANGED vars
    BY <1>9, <1>10 DEF SocketDropped, OverlayLeaves, vars
  <1>11. CASE Crash
    <2>1. ASSUME NEW d \in Conns PROVE StreamKnows(d)'
      <3>1. conn'[d] = NoSession
        BY <1>11 DEF Crash
      <3>2. Queue(d)' = << >>
        BY <3>1 DEF Queue, NoSession
      <3> QED
        BY <3>1, <3>2, EmptyStream DEF NoSession
    <2> QED
      BY <2>1 DEF StreamsKnow, StreamKnows
  <1> QED
    BY <1>1, <1>2, <1>3, <1>4, <1>5, <1>6, <1>7, <1>8, <1>10, <1>11 DEF Next, HandlerStep

-----------------------------------------------------------------------------
(* The overlay's cursor follows the connection it reads.                    *)

\* The overlay's side of the delivery.
OverlaySide == CursorKnows /\ NoPaidEventSkipped /\ StreamInOrder

\* Steps that run nothing and write nothing.
LEMMA OverlayFrame ==
  ASSUME OverlaySide, log' = log, cursor' = cursor, runs' = runs, overlay' \in {overlay, NoConn},
         overlay' # NoConn => /\ conn'[overlay].pc # "gone"
                              /\ conn'[overlay].since = conn[overlay].since
                              /\ conn'[overlay].wrote = conn[overlay].wrote,
         \A c \in Conns : conn'[c].wrote \in {conn[c].wrote, << >>}
  PROVE  OverlaySide'
  <1>1. \A i : IsPaid(i)' <=> IsPaid(i)
    BY DEF IsPaid
  <1>2. CursorKnows'
    <2>1. CASE overlay' = NoConn
      BY <1>1, <2>1 DEF CursorKnows, OverlaySide, IsPaid
    <2>2. CASE overlay' # NoConn /\ overlay' = overlay
      <3>1. PICK o : o = overlay
        OBVIOUS
      <3>2. \A i : Written(o, i)' <=> Written(o, i)
        BY <2>2, <3>1 DEF Written
      <3>3. cursor = 0 \/ IsPaid(cursor)'
        BY DEF OverlaySide, CursorKnows, IsPaid
      <3>4. /\ conn'[o].pc # "gone" /\ conn'[o].since <= cursor
            /\ \A i \in DOMAIN log : IsPaid(i) /\ Written(o, i) => i <= cursor
            /\ cursor = conn[o].since \/ Written(o, cursor)
        BY <2>2, <3>1 DEF OverlaySide, CursorKnows
      <3>5. /\ \A i \in DOMAIN log' : IsPaid(i)' /\ Written(overlay, i)' => i <= cursor'
            /\ cursor' = conn'[overlay'].since \/ Written(overlay, cursor)'
        BY <1>1, <2>2, <3>1, <3>2, <3>4 DEF Written
      <3> QED
        BY <2>2, <3>1, <3>3, <3>4, <3>5 DEF CursorKnows, IsPaid
    <2> QED
      BY <2>1, <2>2
  <1>3. NoPaidEventSkipped'
    BY DEF OverlaySide, NoPaidEventSkipped
  <1>4. StreamInOrder'
    BY DEF OverlaySide, StreamInOrder
  <1> QED
    BY <1>2, <1>3, <1>4 DEF OverlaySide

LEMMA OverlayInsert ==
  ASSUME TypeOK, OverlaySide, NEW m \in Msgs, log' = Append(log, m),
         UNCHANGED <<conn, overlay, cursor, runs>>
  PROVE  OverlaySide'
  <1>0. PICK n \in Nat : n = Len(log) + 1
    BY DEF TypeOK
  <1>1. /\ \A i \in DOMAIN log : i \in DOMAIN log' /\ log'[i] = log[i] /\ i < n /\ i \in Nat
        /\ \A i \in DOMAIN log' : i \in DOMAIN log \/ i = n
        /\ cursor \in 0..Len(log) /\ cursor < n /\ cursor \in Nat
    BY <1>0, AppendLog DEF TypeOK
  <1>2. \A i \in DOMAIN log : IsPaid(i)' <=> IsPaid(i)
    BY <1>1 DEF IsPaid
  <1>3. \A c \in Conns : \A a \in DOMAIN conn[c].wrote : conn[c].wrote[a] \in DOMAIN log
    BY QueueType
  <1>4. overlay \in Conns \cup {NoConn}
    BY DEF TypeOK
  <1>5. \A c, i : Written(c, i)' <=> Written(c, i)
    BY DEF Written
  <1>6. CursorKnows'
    <2>1. PICK o : o = overlay
      OBVIOUS
    <2>2. o # NoConn => /\ conn[o].pc # "gone" /\ conn[o].since <= cursor
                        /\ \A i \in DOMAIN log : IsPaid(i) /\ Written(o, i) => i <= cursor
                        /\ cursor = conn[o].since \/ Written(o, cursor)
      BY <2>1 DEF OverlaySide, CursorKnows
    <2>3. o # NoConn => \A i \in DOMAIN log' : IsPaid(i)' /\ Written(o, i)' => i <= cursor
      <3>1. ASSUME o # NoConn, NEW i \in DOMAIN log', Written(o, i)' PROVE i \in DOMAIN log
        BY <1>3, <1>4, <2>1, <3>1 DEF Written
      <3> QED
        BY <1>2, <1>5, <2>2, <3>1
    <2>4. o # NoConn => \A i \in DOMAIN log' : IsPaid(i)' /\ Written(overlay, i)' => i <= cursor'
      BY <2>1, <2>3 DEF Written
    <2>5. o # NoConn => cursor' = conn'[overlay'].since \/ Written(overlay, cursor)'
      BY <2>1, <2>2 DEF Written
    <2>6. cursor' = 0 \/ IsPaid(cursor)'
      BY <1>1 DEF OverlaySide, CursorKnows, IsPaid
    <2> QED
      BY <2>1, <2>2, <2>4, <2>5, <2>6 DEF CursorKnows
  <1>7. NoPaidEventSkipped'
    BY <1>1 DEF OverlaySide, NoPaidEventSkipped
  <1>8. StreamInOrder'
    <2> SUFFICES ASSUME NEW c \in Conns, NEW a \in DOMAIN conn[c].wrote, NEW b \in DOMAIN conn[c].wrote,
                        a < b, log'[conn[c].wrote[a]] \in Paid, log'[conn[c].wrote[b]] \in Paid
                 PROVE  conn[c].wrote[a] < conn[c].wrote[b]
      BY DEF StreamInOrder
    <2>1. log[conn[c].wrote[a]] \in Paid /\ log[conn[c].wrote[b]] \in Paid
      BY <1>1, <1>3
    <2> QED
      BY <2>1 DEF OverlaySide, StreamInOrder
  <1> QED
    BY <1>6, <1>7, <1>8 DEF OverlaySide

LEMMA OverlayDial ==
  ASSUME TypeOK, OverlaySide, NEW c \in Conns, Dial(c)
  PROVE  OverlaySide'
  <1>1. /\ OnlyConn(c) /\ conn'[c].pc = "add" /\ conn'[c].since = cursor /\ conn'[c].wrote = << >>
        /\ overlay' = c /\ cursor' = cursor /\ runs' = runs
    BY DialEffect
  <1>2. log' = log /\ \A d \in Conns : d # c => conn'[d] = conn[d]
    BY <1>1 DEF OnlyConn
  <1>3. cursor \in Nat
    BY DEF TypeOK
  <1>4. CursorKnows'
    <2>1. /\ \A i \in DOMAIN log' : ~Written(overlay, i)'
          /\ conn'[overlay'].since = cursor' /\ cursor <= cursor'
      BY <1>1, <1>3 DEF Written
    <2> QED
      BY <1>1, <1>2, <2>1 DEF OverlaySide, CursorKnows, IsPaid
  <1>5. NoPaidEventSkipped'
    BY <1>1, <1>2 DEF OverlaySide, NoPaidEventSkipped
  <1>6. StreamInOrder'
    <2>1. \A d \in Conns : conn'[d].wrote \in {conn[d].wrote, << >>}
      BY <1>1, <1>2
    <2> QED
      BY <1>2, <2>1 DEF OverlaySide, StreamInOrder
  <1> QED
    BY <1>4, <1>5, <1>6 DEF OverlaySide

\* One frame f is written on c, after every paid event written there before.
LEMMA OverlayWrites ==
  ASSUME TypeOK, OverlaySide, NEW c \in Conns, NEW f \in DOMAIN log, OnlyConn(c), Write(c, f),
         overlay' = overlay, conn'[c].pc # "gone", conn'[c].wrote = Append(conn[c].wrote, f),
         conn'[c].since = conn[c].since \/ (conn'[c].since = f /\ IsPaid(f)),
         IsPaid(f) => \A i \in DOMAIN log : IsPaid(i) /\ Written(c, i) => i < f,
         IsPaid(f) /\ overlay = c => conn[c].since <= f /\
           \A i \in DOMAIN log : IsPaid(i) /\ i < f /\ cursor < i => FALSE
  PROVE  OverlaySide'
  <1>1. /\ log' = log /\ \A d \in Conns : d # c => conn'[d] = conn[d]
        /\ overlay \in Conns \cup {NoConn} /\ cursor \in Nat
        /\ \A i \in DOMAIN log : i \in Nat
        /\ conn[c].since \in Nat /\ conn[c].wrote \in Seq(DOMAIN log)
    <2>1. /\ DOMAIN log = 1..Len(log) /\ Len(log) \in Nat /\ conn[c].wrote \in Seq(DOMAIN log)
          /\ conn[c].since \in 0..Len(log)
      BY QueueType
    <2> QED
      BY <2>1 DEF OnlyConn, TypeOK
  <1>2. /\ log[f] \in Msgs
        /\ \A m \in Msgs : m # log[f] => runs'[m] = runs[m]
        /\ \A m \in Msgs : runs[m] \in Nat
        /\ IF overlay = c THEN /\ runs'[log[f]] = runs[log[f]] + 1
                               /\ cursor' = IF log[f] \in Paid THEN f ELSE cursor
                          ELSE runs' = runs /\ cursor' = cursor
    BY WriteEffect
  <1>3. /\ \A a \in DOMAIN conn[c].wrote : a \in DOMAIN conn'[c].wrote /\ conn'[c].wrote[a] = conn[c].wrote[a]
        /\ \A a \in DOMAIN conn'[c].wrote : \/ a \in DOMAIN conn[c].wrote /\ conn'[c].wrote[a] = conn[c].wrote[a]
                                            \/ conn'[c].wrote[a] = f /\ \A b \in DOMAIN conn'[c].wrote : b <= a
        /\ \A a \in DOMAIN conn'[c].wrote : a \in Nat
        /\ \E a \in DOMAIN conn'[c].wrote : conn'[c].wrote[a] = f
        /\ \A a \in DOMAIN conn[c].wrote : conn[c].wrote[a] \in DOMAIN log
    <2>1. conn'[c].wrote = Append(conn[c].wrote, f) /\ conn[c].wrote \in Seq(DOMAIN log)
      BY <1>1
    <2> QED
      BY <2>1
  <1>4. \A i : IsPaid(i)' <=> IsPaid(i)
    BY <1>1 DEF IsPaid
  <1>5. \A i : Written(c, i)' <=> Written(c, i) \/ i = f
    BY <1>3 DEF Written
  <1>6. CursorKnows'
    <2>1. CASE overlay # c
      <3>1. PICK o : o = overlay
        OBVIOUS
      <3>2. o # NoConn => o \in Conns /\ conn'[o] = conn[o]
        BY <1>1, <2>1, <3>1
      <3>3. o # NoConn => \A i : Written(o, i)' <=> Written(o, i)
        BY <3>2 DEF Written
      <3>4. o # NoConn => /\ conn'[o].pc # "gone" /\ conn'[o].since <= cursor
                          /\ \A i \in DOMAIN log' : IsPaid(i)' /\ Written(o, i)' => i <= cursor
                          /\ cursor = conn'[o].since \/ Written(o, cursor)'
        <4>1. o # NoConn => /\ conn[o].pc # "gone" /\ conn[o].since <= cursor
                            /\ \A i \in DOMAIN log : IsPaid(i) /\ Written(o, i) => i <= cursor
                            /\ cursor = conn[o].since \/ Written(o, cursor)
          BY <3>1 DEF OverlaySide, CursorKnows
        <4>2. o # NoConn => \A i \in DOMAIN log' : IsPaid(i)' /\ Written(o, i)' => i <= cursor
          <5>1. ASSUME o # NoConn, NEW i \in DOMAIN log', IsPaid(i)', Written(o, i)' PROVE i <= cursor
            <6>1. i \in DOMAIN log /\ IsPaid(i) /\ Written(o, i)
              BY <1>1, <1>4, <3>3, <5>1
            <6> QED
              BY <4>1, <5>1, <6>1
          <5> QED
            BY <5>1
        <4>3. o # NoConn => cursor = conn'[o].since \/ Written(o, cursor)'
          BY <1>2, <2>1, <3>2, <4>1 DEF Written
        <4> QED
          BY <3>2, <4>1, <4>2, <4>3
      <3>5. cursor' = cursor /\ overlay' = o /\ (cursor = 0 \/ IsPaid(cursor)')
        BY <1>1, <1>2, <2>1, <3>1 DEF OverlaySide, CursorKnows, IsPaid
      <3>6. o # NoConn => /\ \A i \in DOMAIN log' : IsPaid(i)' /\ Written(overlay, i)' => i <= cursor'
                          /\ cursor' = conn'[o].since \/ Written(overlay, cursor)'
        BY <3>1, <3>4, <3>5 DEF Written
      <3> QED
        BY <3>1, <3>4, <3>5, <3>6 DEF CursorKnows, IsPaid
    <2>2. CASE overlay = c
      <3>0. /\ cursor = 0 \/ IsPaid(cursor)
            /\ conn[c].since <= cursor
            /\ \A i \in DOMAIN log : IsPaid(i) /\ Written(c, i) => i <= cursor
            /\ cursor = conn[c].since \/ Written(c, cursor)
        BY <1>1, <2>2, ConstantsAssumption DEF OverlaySide, CursorKnows
      <3>1. CASE IsPaid(f)
        <4>1. cursor' = f
          BY <1>2, <2>2, <3>1 DEF IsPaid
        <4>2. \A i \in DOMAIN log' : IsPaid(i)' /\ Written(c, i)' => i <= f
          BY <1>1, <1>4, <1>5, <3>1
        <4>3. conn'[c].since <= f
          BY <1>1, <2>2, <3>1
        <4>4. /\ \A i \in DOMAIN log' : IsPaid(i)' /\ Written(overlay, i)' => i <= cursor'
              /\ Written(overlay, cursor)'
          BY <1>3, <2>2, <4>1, <4>2 DEF Written
        <4> QED
          BY <1>4, <2>2, <3>1, <4>1, <4>3, <4>4 DEF CursorKnows, IsPaid
      <3>2. CASE ~IsPaid(f)
        <4>1. cursor' = cursor /\ conn'[c].since = conn[c].since
          BY <1>2, <2>2, <3>2 DEF IsPaid
        <4>2. \A i \in DOMAIN log' : IsPaid(i)' /\ Written(c, i)' => i <= cursor
          BY <1>1, <1>4, <1>5, <3>0, <3>2
        <4>3. cursor = conn'[c].since \/ Written(c, cursor)'
          BY <1>5, <3>0, <4>1
        <4>4. /\ \A i \in DOMAIN log' : IsPaid(i)' /\ Written(overlay, i)' => i <= cursor'
              /\ cursor' = conn'[c].since \/ Written(overlay, cursor)'
          BY <2>2, <4>1, <4>2, <4>3 DEF Written
        <4>5. cursor' = 0 \/ IsPaid(cursor)'
          BY <1>1, <3>0, <4>1 DEF IsPaid
        <4> QED
          BY <2>2, <3>0, <4>1, <4>4, <4>5 DEF CursorKnows
      <3> QED
        BY <3>1, <3>2
    <2> QED
      BY <2>1, <2>2
  <1>7. NoPaidEventSkipped'
    <2> SUFFICES ASSUME NEW i \in DOMAIN log, log[i] \in Paid, i <= cursor' PROVE runs'[log[i]] > 0
      BY <1>1 DEF NoPaidEventSkipped
    <2>1. log[i] \in Msgs /\ i \in Nat
      BY <1>1 DEF TypeOK
    <2>2. CASE i <= cursor
      <3>1. runs[log[i]] > 0
        BY <2>2 DEF OverlaySide, NoPaidEventSkipped
      <3> QED
        BY <1>2, <2>1, <3>1
    <2>3. CASE ~(i <= cursor)
      <3>1. overlay = c /\ log[f] \in Paid /\ cursor' = f
        BY <1>2, <2>3
      <3>2. IsPaid(f) /\ IsPaid(i) /\ cursor < i
        BY <1>1, <2>1, <2>3, <3>1 DEF IsPaid
      <3>3. i = f
        BY <1>1, <2>1, <3>1, <3>2
      <3> QED
        BY <1>2, <3>1, <3>3
    <2> QED
      BY <2>2, <2>3
  <1>8. StreamInOrder'
    <2> SUFFICES ASSUME NEW d \in Conns, NEW a \in DOMAIN conn'[d].wrote, NEW b \in DOMAIN conn'[d].wrote,
                        a < b, log[conn'[d].wrote[a]] \in Paid, log[conn'[d].wrote[b]] \in Paid
                 PROVE  conn'[d].wrote[a] < conn'[d].wrote[b]
      BY <1>1 DEF StreamInOrder
    <2>1. CASE d # c
      BY <1>1, <2>1 DEF OverlaySide, StreamInOrder
    <2>2. CASE d = c
      <3>1. a \in DOMAIN conn[c].wrote /\ conn'[c].wrote[a] = conn[c].wrote[a]
        BY <1>3, <2>2
      <3>2. CASE b \in DOMAIN conn[c].wrote /\ conn'[c].wrote[b] = conn[c].wrote[b]
        BY <2>2, <3>1, <3>2 DEF OverlaySide, StreamInOrder
      <3>3. CASE conn'[c].wrote[b] = f
        BY <1>3, <2>2, <3>1, <3>3 DEF IsPaid, Written
      <3> QED
        BY <1>3, <2>2, <3>2, <3>3
    <2> QED
      BY <2>1, <2>2
  <1> QED
    BY <1>6, <1>7, <1>8 DEF OverlaySide

\* f is the first paid event behind the overlay's cursor.
IsNext(f) == /\ IsPaid(f) /\ cursor < f
             /\ \A j \in DOMAIN log : IsPaid(j) /\ cursor < j => f <= j

\* The paid events between the cursor and the next replayed one would be on its page.
LEMMA ReplaysNext ==
  ASSUME OnceInv, StreamsKnow, OverlaySide, NEW c \in Conns, conn[c].pc = "replay",
         NEW i \in conn[c].page, \A j \in conn[c].page : i <= j
  PROVE  /\ i \in DOMAIN log /\ IsPaid(i) /\ conn[c].since < i
         /\ \A j \in DOMAIN log : Written(c, j) => j < i
         /\ overlay = c => IsNext(i)
  <1>0. TypeOK /\ PageKnows(c)
    BY DEF OnceInv, IInv, StreamsKnow
  <1>2. /\ conn[c].page \subseteq DOMAIN log /\ \A j \in DOMAIN log : j \in Nat
        /\ conn[c].since \in Nat /\ conn[c].last \in Nat /\ cursor \in Nat
    <2>1. /\ conn[c].page \subseteq DOMAIN log /\ DOMAIN log = 1..Len(log) /\ Len(log) \in Nat
          /\ conn[c].since \in 0..Len(log) /\ conn[c].last \in 0..Len(log)
      BY <1>0, QueueType
    <2> QED
      BY <1>0, <2>1 DEF TypeOK
  <1>3. i \in DOMAIN log /\ IsPaid(i)
    BY <1>2 DEF OnceInv, CommandsWait, IsPaid
  <1>4. /\ i > conn[c].since /\ conn[c].last <= conn[c].since
        /\ \A k \in DOMAIN log : IsPaid(k) /\ conn[c].since < k /\ k < i => k \in conn[c].page
        /\ \A j \in DOMAIN log : Written(c, j) => j <= conn[c].last
    BY <1>0 DEF PageKnows, Replaying
  <1>5. \A j \in DOMAIN log : Written(c, j) => j < i
    BY <1>2, <1>3, <1>4
  <1>6. ASSUME overlay = c PROVE IsNext(i)
    <2>1. conn[c].since <= cursor /\ (cursor = conn[c].since \/ (IsPaid(cursor) /\ Written(c, cursor)) \/ cursor = 0)
      BY <1>6, ConstantsAssumption DEF OverlaySide, CursorKnows
    <2>2. cursor < i
      BY <1>2, <1>3, <1>4, <1>5, <2>1 DEF IsPaid
    <2>3. ASSUME NEW j \in DOMAIN log, IsPaid(j), cursor < j, ~(i <= j) PROVE FALSE
      <3>1. j \in conn[c].page
        BY <1>2, <1>3, <1>4, <2>1, <2>3
      <3> QED
        BY <2>3, <3>1
    <2> QED
      BY <1>3, <2>2, <2>3 DEF IsNext
  <1> QED
    BY <1>2, <1>3, <1>4, <1>5, <1>6

LEMMA OverlayReplay ==
  ASSUME OnceInv, StreamsKnow, OverlaySide, NEW c \in Conns, ReplayEvent(c)
  PROVE  OverlaySide'
  <1>0. TypeOK
    BY DEF OnceInv, IInv
  <1>1. PICK i \in conn[c].page :
         /\ OnlyConn(c) /\ conn[c].pc = "replay" /\ conn'[c].pc \in {"replay", "closing"}
         /\ \A j \in conn[c].page : i <= j
         /\ conn'[c].since = i /\ conn'[c].wrote = Append(conn[c].wrote, i)
         /\ Write(c, i) /\ overlay' = overlay
    BY <1>0, ReplayEffect
  <1>2. /\ i \in DOMAIN log /\ IsPaid(i) /\ conn[c].since < i
        /\ \A j \in DOMAIN log : Written(c, j) => j < i
        /\ overlay = c => IsNext(i)
    BY <1>1, ReplaysNext
  <1>3. /\ \A j \in DOMAIN log : j \in Nat
        /\ conn[c].since \in Nat
    <2>1. /\ DOMAIN log = 1..Len(log) /\ Len(log) \in Nat /\ conn[c].since \in 0..Len(log)
      BY <1>0, QueueType
    <2> QED
      BY <2>1
  <1>4. conn'[c].pc # "gone" /\ conn[c].since <= i
    BY <1>1, <1>2, <1>3
  <1>5. overlay = c => \A j \in DOMAIN log : IsPaid(j) /\ j < i /\ cursor < j => FALSE
    BY <1>2, <1>3 DEF IsNext
  <1> QED
    BY <1>0, <1>1, <1>2, <1>4, <1>5, OverlayWrites

\* The head of the queue is the first paid event that comes.
LEMMA HeadIsFirst ==
  ASSUME OnceInv, Serial, NEW c \in Conns, StreamKnows(c), NEW f \in DOMAIN log, Queue(c) # << >>,
         f = Head(Queue(c)), IsPaid(f), NEW j \in DOMAIN log, IsPaid(j), Coming(c, j)
  PROVE  f <= j
  <1>0. TypeOK /\ HandledOnce
    BY DEF OnceInv, IInv
  <1>1. Queue(c) \in Seq(DOMAIN log) /\ DOMAIN log = 1..Len(log) /\ Len(log) \in Nat
    BY <1>0, QueueType
  <1>2. 1 \in DOMAIN Queue(c) /\ Queue(c)[1] = f /\ \A a \in DOMAIN Queue(c) : a \in Nat /\ (a = 1 \/ 1 < a)
    BY <1>1
  <1>3. CASE \E a \in DOMAIN Queue(c) : Queue(c)[a] = j
    <2>1. PICK a \in DOMAIN Queue(c) : Queue(c)[a] = j
      BY <1>3
    <2>2. a = 1 \/ f < j
      BY <1>2, <2>1 DEF StreamKnows, InOrder
    <2> QED
      BY <1>1, <1>2, <2>1, <2>2
  <1>4. CASE \E h \in Handlers : hand[h].pc = "send" /\ hand[h].to = c /\ hand[h].next = j
    BY <1>0, <1>4, LastRow DEF Inserted
  <1> QED
    BY <1>3, <1>4 DEF Coming

\* The paid events between the cursor and a forwarded one would have come before it.  The
\* forwarded one may be the event at the cursor: its push raced the reconnection.
LEMMA ForwardsNext ==
  ASSUME OnceInv, Serial, StreamsKnow, OverlaySide, NEW c \in Conns, NEW f \in DOMAIN log,
         Queue(c) # << >>, f = Head(Queue(c)), ~(f <= conn[c].last),
         conn[c].pc \in {"flush", "live"}, conn[c].open, IsPaid(f)
  PROVE  /\ conn[c].since <= f
         /\ \A i \in DOMAIN log : IsPaid(i) /\ Written(c, i) => i < f
         /\ overlay = c => IsNext(f) \/ f = cursor
  <1>0. TypeOK /\ StreamKnows(c) /\ PageKnows(c) /\ InOrder(c)
    BY DEF OnceInv, IInv, StreamsKnow, StreamKnows
  <1>1. /\ \A j \in DOMAIN log : j \in Nat
        /\ conn[c].since \in Nat /\ conn[c].last \in Nat /\ cursor \in Nat
        /\ Queue(c) \in Seq(DOMAIN log)
    <2>1. /\ DOMAIN log = 1..Len(log) /\ Len(log) \in Nat /\ Queue(c) \in Seq(DOMAIN log)
          /\ conn[c].since \in 0..Len(log) /\ conn[c].last \in 0..Len(log)
      BY <1>0, QueueType
    <2> QED
      BY <1>0, <2>1 DEF TypeOK
  <1>2. Coming(c, f)
    <2>1. 1 \in DOMAIN Queue(c) /\ Queue(c)[1] = f
      BY <1>1
    <2> QED
      BY <2>1 DEF Coming
  <1>3. ASSUME NEW i \in DOMAIN log, IsPaid(i), Written(c, i) PROVE i < f
    BY <1>0, <1>1, <1>2, <1>3 DEF InOrder
  <1>4. conn[c].since <= f
    BY <1>0, <1>1, <1>2 DEF InOrder
  <1>5. ASSUME overlay = c PROVE IsNext(f) \/ f = cursor
    <2>1. /\ conn[c].since <= cursor
          /\ \A i \in DOMAIN log : IsPaid(i) /\ Written(c, i) => i <= cursor
          /\ cursor = conn[c].since \/ (IsPaid(cursor) /\ Written(c, cursor)) \/ cursor = 0
      BY <1>5, ConstantsAssumption DEF OverlaySide, CursorKnows
    <2>2. cursor <= f
      BY <1>1, <1>3, <1>4, <2>1 DEF IsPaid
    <2>3. ASSUME NEW j \in DOMAIN log, IsPaid(j), cursor < j, ~(f <= j) PROVE FALSE
      <3>1. Complete(c) /\ conn[c].page = {}
        BY <1>0 DEF Complete, PageKnows
      <3>2. j < f
        BY <1>1, <2>3
      <3>3. Covered(c, j)
        BY <1>0, <1>2, <2>3, <3>1, <3>2 DEF StreamKnows, GapFree
      <3>4. Coming(c, j)
        BY <1>1, <2>1, <2>3, <3>1, <3>3 DEF Covered
      <3>5. f <= j
        BY <1>0, <2>3, <3>4, HeadIsFirst
      <3> QED
        BY <2>3, <3>5
    <2> QED
      BY <1>1, <2>2, <2>3 DEF IsNext
  <1> QED
    BY <1>3, <1>4, <1>5

LEMMA OverlayForward ==
  ASSUME OnceInv, Serial, StreamsKnow, OverlaySide, NEW c \in Conns, ForwardStep(c)
  PROVE  OverlaySide'
  <1>0. TypeOK /\ Flushed
    BY DEF OnceInv, IInv
  <1>1. Queue(c) \in Seq(DOMAIN log) /\ Queue(c) # << >>
    BY <1>0, QueueType, ForwardEffect
  <1>2. PICK f \in DOMAIN log : f = Head(Queue(c))
    BY <1>1, SeqOps
  <1>3. /\ OnlyConn(c)
        /\ conn[c].pc \in {"flush", "live"} /\ conn'[c].pc = conn[c].pc
        /\ conn'[c].since = conn[c].since /\ overlay' = overlay
        /\ \/ /\ f <= conn[c].last /\ conn'[c].wrote = conn[c].wrote
              /\ runs' = runs /\ cursor' = cursor
           \/ /\ ~(f <= conn[c].last) /\ conn[c].open /\ Write(c, f)
              /\ conn'[c].wrote = Append(conn[c].wrote, f)
    BY <1>0, <1>2, ForwardEffect
  <1>4. CASE f <= conn[c].last /\ conn'[c].wrote = conn[c].wrote /\ runs' = runs /\ cursor' = cursor
    <2>1. /\ log' = log /\ \A d \in Conns : d # c => conn'[d] = conn[d]
          /\ overlay \in Conns \cup {NoConn}
      BY <1>0, <1>3 DEF OnlyConn, TypeOK
    <2>2. \A d \in Conns : conn'[d].wrote = conn[d].wrote /\ conn'[d].since = conn[d].since
                           /\ conn'[d].pc = conn[d].pc
      BY <1>3, <1>4, <2>1
    <2>3. overlay' # NoConn => conn[overlay].pc # "gone" /\ overlay \in Conns
      BY <1>3, <2>1 DEF OverlaySide, CursorKnows
    <2> QED
      BY <1>3, <1>4, <2>1, <2>2, <2>3, OverlayFrame
  <1>5. CASE ~(f <= conn[c].last) /\ conn[c].open /\ Write(c, f) /\ conn'[c].wrote = Append(conn[c].wrote, f)
    <2>1. IsPaid(f) => /\ conn[c].since <= f
                       /\ \A i \in DOMAIN log : IsPaid(i) /\ Written(c, i) => i < f
                       /\ overlay = c => IsNext(f) \/ f = cursor
      BY <1>1, <1>2, <1>3, <1>5, ForwardsNext
    <2>2. /\ \A j \in DOMAIN log : j \in Nat
          /\ cursor \in Nat
      <3>1. DOMAIN log = 1..Len(log) /\ Len(log) \in Nat
        BY <1>0, QueueType
      <3> QED
        BY <1>0, <3>1 DEF TypeOK
    <2>3. IsPaid(f) /\ overlay = c => \A j \in DOMAIN log : IsPaid(j) /\ j < f /\ cursor < j => FALSE
      BY <2>1, <2>2 DEF IsNext
    <2>4. conn'[c].pc # "gone"
      BY <1>3
    <2> QED
      BY <1>0, <1>3, <1>5, <2>1, <2>3, <2>4, OverlayWrites
  <1> QED
    BY <1>3, <1>4, <1>5

LEMMA OverlayNext ==
  ASSUME OneSource, OnceInv, Serial, StreamsKnow, OverlaySide, [Next]_vars
  PROVE  OverlaySide'
  <1>0. TypeOK /\ HandlersKnow /\ ConnsKnow /\ overlay \in Conns \cup {NoConn}
    BY DEF OnceInv, IInv, TypeOK
  <1>a. overlay # NoConn => overlay \in Conns /\ conn[overlay].pc # "gone"
    BY <1>0 DEF OverlaySide, CursorKnows
  \* Steps that keep what has been written and who reads it.
  <1>1. ASSUME log' = log, cursor' = cursor, runs' = runs, overlay' \in {overlay, NoConn}, conn' = conn
        PROVE  OverlaySide'
    BY <1>1, <1>a, OverlayFrame
  <1>2. ASSUME log' = log, cursor' = cursor, runs' = runs, overlay' = overlay,
               \A d \in Conns : /\ conn'[d].wrote = conn[d].wrote /\ conn'[d].since = conn[d].since
                                /\ conn[d].pc # "gone" => conn'[d].pc # "gone"
        PROVE  OverlaySide'
    BY <1>2, <1>a, OverlayFrame
  <1>3. ASSUME NEW h \in Handlers, RequestStep(h) PROVE OverlaySide'
    <2>1. UNCHANGED <<overlay, cursor, runs>>
      BY <1>0, <1>3, RequestEffect DEF RequestStep
    <2> QED
      BY <1>1, <1>3, <2>1, RequestConns
  <1>4. ASSUME NEW h \in Handlers, InsertEvent(h) PROVE OverlaySide'
    <2>1. /\ hand[h].msg \in Msgs /\ UNCHANGED <<conn, overlay, cursor, runs>>
          /\ log' = log \/ log' = Append(log, hand[h].msg)
      BY <1>0, <1>4, InsertEffect
    <2> QED
      BY <1>0, <1>1, <2>1, OverlayInsert
  <1>5. ASSUME NEW h \in Handlers, IngestFails(h) PROVE OverlaySide'
    BY <1>1, <1>5 DEF IngestFails, OneSource
  <1>6. ASSUME NEW h \in Handlers, PushSend(h) PROVE OverlaySide'
    <2>1. PICK c \in Conns : hand[h].to = c
      BY <1>0, <1>6 DEF PushSend, SendTo, HandlersKnow
    <2>2. /\ log' = log
          /\ \A d \in Conns : d # c => conn'[d] = conn[d]
          /\ conn'[c].pc = conn[c].pc /\ conn'[c].since = conn[c].since /\ conn'[c].wrote = conn[c].wrote
      BY <1>0, <1>6, <2>1, SendEffect
    <2>3. UNCHANGED <<overlay, cursor, runs>>
      BY <1>0, <1>6, RequestEffect
    <2>4. \A d \in Conns : conn'[d].wrote = conn[d].wrote /\ conn'[d].since = conn[d].since
                           /\ conn'[d].pc = conn[d].pc
      BY <2>2
    <2> QED
      BY <1>2, <2>2, <2>3, <2>4
  <1>7. ASSUME NEW c \in Conns, OnlyConn(c), cursor' = cursor, runs' = runs, overlay' = overlay,
               conn'[c].wrote = conn[c].wrote, conn'[c].since = conn[c].since, conn'[c].pc # "gone"
        PROVE  OverlaySide'
    <2>1. log' = log /\ \A d \in Conns : d # c => conn'[d] = conn[d]
      BY <1>7 DEF OnlyConn
    <2>2. \A d \in Conns : /\ conn'[d].wrote = conn[d].wrote /\ conn'[d].since = conn[d].since
                           /\ conn[d].pc # "gone" => conn'[d].pc # "gone"
      BY <1>7, <2>1
    <2> QED
      BY <1>2, <1>7, <2>1, <2>2
  <1>8. ASSUME NEW c \in Conns, Dial(c) PROVE OverlaySide'
    BY <1>0, <1>8, OverlayDial
  <1>9. ASSUME NEW c \in Conns, RegistryAdd(c) PROVE OverlaySide'
    BY <1>0, <1>7, <1>9, AddEffect
  <1>10. ASSUME NEW c \in Conns, CloseDisplaced(c) PROVE OverlaySide'
    <2>1. /\ log' = log /\ overlay' = overlay /\ cursor' = cursor /\ runs' = runs
          /\ \A d \in Conns : /\ conn'[d].wrote = conn[d].wrote /\ conn'[d].since = conn[d].since
                               /\ IF d = c THEN conn'[d].pc = "read" ELSE conn'[d].pc = conn[d].pc
      BY <1>0, <1>10, DisplaceEffect
    <2> QED
      BY <1>2, <2>1
  <1>11. ASSUME NEW c \in Conns, ReadPage(c) PROVE OverlaySide'
    BY <1>0, <1>7, <1>11, ReadPageEffect
  <1>12. ASSUME NEW c \in Conns, ReplayEvent(c) PROVE OverlaySide'
    BY <1>12, OverlayReplay
  <1>13. ASSUME NEW c \in Conns, PageDone(c) PROVE OverlaySide'
    <2>1. conn'[c].pc # "gone"
      BY <1>0, <1>13, PageDoneEffect
    <2> QED
      BY <1>0, <1>7, <1>13, <2>1, PageDoneEffect
  <1>14. ASSUME NEW c \in Conns, Ready(c) PROVE OverlaySide'
    <2>1. conn'[c].pc # "gone"
      BY <1>0, <1>14, ReadyEffect
    <2> QED
      BY <1>0, <1>7, <1>14, <2>1, ReadyEffect
  <1>15. ASSUME NEW c \in Conns, FlushPending(c), conn[c].pending = << >> PROVE OverlaySide'
    <2>1. conn'[c].pc # "gone"
      BY <1>0, <1>15, FlushedEffect
    <2> QED
      BY <1>0, <1>7, <1>15, <2>1, FlushedEffect
  <1>16. ASSUME NEW c \in Conns, ForwardStep(c) PROVE OverlaySide'
    BY <1>16, OverlayForward
  <1>17. ASSUME NEW c \in Conns, StopWriting(c) \/ ReplayFails(c) PROVE OverlaySide'
    <2>1. conn'[c].pc # "gone"
      BY <1>0, <1>17, EndEffect
    <2> QED
      BY <1>0, <1>7, <1>17, <2>1, EndEffect
  <1>18. ASSUME NEW c \in Conns, Remove(c) PROVE OverlaySide'
    <2>1. /\ OnlyConn(c) /\ conn'[c].wrote = << >> /\ cursor' = cursor /\ runs' = runs
          /\ overlay' = IF overlay = c THEN NoConn ELSE overlay
      BY <1>0, <1>18, RemoveEffect DEF NoSession
    <2>2. /\ log' = log /\ overlay' \in {overlay, NoConn}
          /\ overlay' # NoConn => overlay' = overlay /\ conn'[overlay] = conn[overlay]
          /\ \A d \in Conns : conn'[d].wrote \in {conn[d].wrote, << >>}
      BY <1>0, <2>1 DEF OnlyConn
    <2> QED
      BY <1>a, <2>1, <2>2, OverlayFrame
  <1>19. CASE Crash
    <2>1. \A d \in Conns : conn'[d].wrote = << >>
      BY <1>19 DEF Crash, NoSession
    <2> QED
      BY <1>19, <2>1, OverlayFrame DEF Crash
  <1>20. CASE (\E c \in Conns : SocketDropped(c)) \/ OverlayLeaves \/ UNCHANGED vars
    BY <1>1, <1>20 DEF SocketDropped, OverlayLeaves, vars
  <1> QED
    BY <1>3, <1>4, <1>5, <1>6, <1>8, <1>9, <1>10, <1>11, <1>12, <1>13, <1>14, <1>15, <1>16, <1>17,
       <1>18, <1>19, <1>20
       DEF Next, HandlerStep, ConnStep, RequestStep, ForwardStep

-----------------------------------------------------------------------------
(* The delivery's inductive invariant and what it gives.                   *)

LEMMA InitDelivery == Init => DeliveryInv
  <1> SUFFICES ASSUME Init PROVE DeliveryInv
    OBVIOUS
  <1>1. OnceInv /\ TypeOK
    BY InitOnce DEF OnceInv, IInv
  <1>2. Serial
    BY ConstantsAssumption DEF Init, IdleHandler, Serial, Msgs
  <1>3. ASSUME NEW c \in Conns PROVE StreamKnows(c)
    <2>1. conn[c] = NoSession /\ Queue(c) = << >> /\ log = << >>
      BY <1>3 DEF Init, NoSession, Queue
    <2>2. \A i \in DOMAIN log : FALSE
      BY <2>1
    <2>3. PageKnows(c)
      BY <2>1, <2>2 DEF PageKnows, NoSession
    <2>4. InOrder(c)
      BY <2>1, <2>2 DEF InOrder
    <2>5. GapFree(c)
      BY <2>1, <2>2 DEF GapFree, Complete, NoSession
    <2> QED
      BY <2>3, <2>4, <2>5 DEF StreamKnows
  <1>4. OverlaySide
    BY DEF Init, OverlaySide, CursorKnows, NoPaidEventSkipped, StreamInOrder, NoSession
  <1> QED
    BY <1>1, <1>2, <1>3, <1>4 DEF DeliveryInv, StreamsKnow, StreamKnows, OverlaySide

LEMMA DeliveryNext ==
  ASSUME OneSource, DeliveryInv, [Next]_vars
  PROVE  DeliveryInv'
  <1>1. OnceInv /\ Serial /\ StreamsKnow /\ CursorKnows /\ OverlaySide
    BY DEF DeliveryInv, OverlaySide
  <1>2. OnceInv' /\ TypeOK'
    BY <1>1, OnceNext DEF OnceInv, IInv
  <1>3. Serial' /\ StreamsKnow' /\ OverlaySide'
    BY <1>1, <1>2, SerialNext, StreamsNext, OverlayNext
  <1> QED
    BY <1>2, <1>3 DEF DeliveryInv, OverlaySide

\* The inductive invariant of the delivery, for one source of paid events.
THEOREM DeliveryInductive ==
  ASSUME OneSource
  PROVE  Spec => []DeliveryInv
  <1>1. DeliveryInv /\ [Next]_vars => DeliveryInv'
    BY DeliveryNext
  <1> QED
    BY InitDelivery, <1>1, PTL DEF Spec

\* No paid event the overlay has not run is behind the cursor it would reconnect with,
\* whatever connections, queues, handlers and processes are lost on the way.
THEOREM NothingPaidIsSkipped ==
  ASSUME OneSource
  PROVE  Spec => []NoPaidEventSkipped
  <1>1. DeliveryInv => NoPaidEventSkipped
    BY DEF DeliveryInv
  <1> QED
    BY DeliveryInductive, <1>1, PTL

\* On one connection paid events are written in strictly increasing order: what is replayed,
\* flushed and pushed live together.
THEOREM StreamsAreOrdered ==
  ASSUME OneSource
  PROVE  Spec => []StreamInOrder
  <1>1. DeliveryInv => StreamInOrder
    BY DEF DeliveryInv
  <1> QED
    BY DeliveryInductive, <1>1, PTL

LEMMA QuietCaughtUp == DeliveryInv => CaughtUp
  <1> SUFFICES ASSUME DeliveryInv, Quiet, Attached, NEW m \in Paid \cap Logged PROVE runs[m] > 0
    BY DEF CaughtUp
  <1>1. TypeOK /\ ConnsKnow /\ ServingIsRegistered /\ StreamsKnow /\ CursorKnows /\ NoPaidEventSkipped
    BY DEF DeliveryInv, OnceInv, IInv
  <1>2. PICK o \in Conns : o = overlay /\ conn[o].pc = "live" /\ conn[o].open
    BY <1>1 DEF Attached, TypeOK
  <1>3. PICK i \in DOMAIN log : log[i] = m
    BY DEF Logged
  <1>4. StreamKnows(o) /\ IsPaid(i)
    BY <1>1, <1>3 DEF StreamsKnow, StreamKnows, IsPaid
  <1>5. registry = o
    <2>1. \A d \in Conns : conn[d].prev # o
      <3>1. \A d \in Conns : conn[d].pc # "displace"
        BY DEF Quiet
      <3> QED
        BY <1>1, <3>1, ConstantsAssumption DEF ConnsKnow
    <2> QED
      BY <1>1, <1>2, <2>1 DEF ServingIsRegistered, Serving
  <1>6. Complete(o) /\ conn[o].page = {}
    BY <1>2, <1>4 DEF Complete, StreamKnows, PageKnows
  <1>7. ~AtPush(i) /\ ~Coming(o, i)
    <2>1. Queue(o) = << >>
      BY DEF Quiet, Queue
    <2> QED
      BY <2>1 DEF AtPush, Coming, Quiet
  <1>8. i <= conn[o].since \/ Written(o, i)
    BY <1>4, <1>5, <1>6, <1>7 DEF StreamKnows, GapFree, Covered
  <1>9. conn[o].since <= cursor /\ (Written(o, i) => i <= cursor)
    BY <1>1, <1>2, <1>4, ConstantsAssumption DEF CursorKnows
  <1>10. i \in Nat /\ conn[o].since \in Nat /\ cursor \in Nat
    <2>1. DOMAIN log = 1..Len(log) /\ Len(log) \in Nat /\ conn[o].since \in 0..Len(log)
      BY <1>1, QueueType
    <2> QED
      BY <1>1, <2>1 DEF TypeOK
  <1>11. i <= cursor
    BY <1>8, <1>9, <1>10
  <1> QED
    BY <1>1, <1>3, <1>11 DEF NoPaidEventSkipped

\* With nothing in flight an attached overlay has run every paid event of the log.
THEOREM AttachedCatchesUp ==
  ASSUME OneSource
  PROVE  Spec => []CaughtUp
  BY DeliveryInductive, QuietCaughtUp, PTL

-----------------------------------------------------------------------------
(* The relay implements OverlayDelivery.                                   *)

Ran == {m \in Msgs : runs[m] > 0}

DeliveryStep == [Delivery!Next]_<<log, cursor, Ran>>

\* A frame f reaches the overlay: the next paid event, the one at the cursor once more, or
\* a command that has not run.
LEMMA WriteIsStep ==
  ASSUME OnceInv, NEW c \in Conns, NEW f \in DOMAIN log, Write(c, f), log' = log, NoPaidEventSkipped,
         overlay = c => IsNext(f) \/ (IsPaid(f) /\ f = cursor) \/ (log[f] \in CommandMsgs /\ runs[log[f]] = 0)
  PROVE  DeliveryStep
  <1>0. TypeOK
    BY DEF OnceInv, IInv
  <1>1. /\ log[f] \in Msgs
        /\ \A m \in Msgs : m # log[f] => runs'[m] = runs[m]
        /\ \A m \in Msgs : runs[m] \in Nat
        /\ IF overlay = c THEN /\ runs'[log[f]] = runs[log[f]] + 1
                               /\ cursor' = IF log[f] \in Paid THEN f ELSE cursor
                          ELSE runs' = runs /\ cursor' = cursor
    BY <1>0, WriteEffect
  <1>2. CASE overlay # c
    BY <1>1, <1>2 DEF DeliveryStep, Ran
  <1>3. CASE overlay = c
    <2>1. Ran' = Ran \cup {log[f]}
      BY <1>1, <1>3 DEF Ran
    <2>2. CASE IsNext(f)
      <3>1. cursor' = f /\ f \in Delivery!Ahead
        BY <1>1, <1>3, <2>2 DEF IsNext, IsPaid, Delivery!Ahead
      <3>2. \A j \in Delivery!Ahead : f <= j
        BY <2>2 DEF IsNext, IsPaid, Delivery!Ahead
      <3>3. Delivery!RunPaid
        BY <2>1, <3>1, <3>2 DEF Delivery!RunPaid, Ran
      <3> QED
        BY <3>3 DEF DeliveryStep, Delivery!Next
    <2>3. CASE IsPaid(f) /\ f = cursor
      <3>1. cursor' = cursor
        BY <1>1, <1>3, <2>3 DEF IsPaid
      <3>2. cursor \in Nat
        BY <1>0 DEF TypeOK
      <3>3. runs[log[f]] > 0
        BY <2>3, <3>2 DEF NoPaidEventSkipped, IsPaid
      <3>4. Ran' = Ran
        BY <1>1, <2>1, <3>3 DEF Ran
      <3> QED
        BY <3>1, <3>4 DEF DeliveryStep
    <2>4. CASE log[f] \in CommandMsgs /\ runs[log[f]] = 0
      <3>1. cursor' = cursor
        BY <1>1, <1>3, <2>4, ConstantsAssumption
      <3>2. log[f] \notin Ran
        BY <1>1, <2>4 DEF Ran
      <3>3. PICK m \in CommandMsgs : m = log[f]
        BY <2>4
      <3>4. m \in CommandMsgs \cap Delivery!Seen
        BY <3>3 DEF Delivery!Seen
      <3>5. Delivery!RunCommand(m)
        BY <2>1, <3>1, <3>2, <3>3, <3>4 DEF Delivery!RunCommand, Ran
      <3> QED
        BY <3>5 DEF DeliveryStep, Delivery!Next
    <2> QED
      BY <1>3, <2>2, <2>3, <2>4
  <1> QED
    BY <1>2, <1>3

LEMMA StepImplements ==
  ASSUME OneSource, DeliveryInv, [Next]_vars
  PROVE  DeliveryStep
  <1>0. /\ OnceInv /\ TypeOK /\ HandlersKnow /\ Flushed /\ CommandsWait /\ Serial /\ StreamsKnow
        /\ OverlaySide /\ NoPaidEventSkipped
    BY DEF DeliveryInv, OnceInv, IInv, OverlaySide
  <1>1. ASSUME UNCHANGED <<log, cursor, runs>> PROVE DeliveryStep
    BY <1>1 DEF DeliveryStep, Ran
  <1>2. ASSUME NEW h \in Handlers, InsertEvent(h) PROVE DeliveryStep
    <2>1. /\ hand[h].msg \in Msgs /\ UNCHANGED <<cursor, runs>>
          /\ log' = log \/ (log' = Append(log, hand[h].msg) /\ hand[h].msg \notin Logged)
      BY <1>0, <1>2, InsertEffect
    <2>2. CASE log' = log
      BY <1>1, <2>1, <2>2
    <2>3. CASE log' = Append(log, hand[h].msg) /\ hand[h].msg \notin Logged
      <3>1. Ran' = Ran /\ hand[h].msg \in Paid \cup CommandMsgs
        BY <2>1 DEF Ran, Msgs
      <3>2. Delivery!Record(hand[h].msg)
        BY <2>1, <2>3, <3>1 DEF Delivery!Record, Delivery!Seen, Logged, Ran
      <3> QED
        BY <3>1, <3>2 DEF DeliveryStep, Delivery!Next
    <2> QED
      BY <2>1, <2>2, <2>3
  <1>3. ASSUME NEW c \in Conns, ReplayEvent(c) PROVE DeliveryStep
    <2>1. PICK i \in conn[c].page :
           /\ OnlyConn(c) /\ conn[c].pc = "replay" /\ \A j \in conn[c].page : i <= j
           /\ Write(c, i)
      BY <1>0, <1>3, ReplayEffect
    <2>2. i \in DOMAIN log /\ (overlay = c => IsNext(i))
      BY <1>0, <2>1, ReplaysNext
    <2>3. log' = log
      BY <2>1 DEF OnlyConn
    <2> QED
      BY <1>0, <2>1, <2>2, <2>3, WriteIsStep
  <1>4. ASSUME NEW c \in Conns, ForwardStep(c) PROVE DeliveryStep
    <2>1. Queue(c) \in Seq(DOMAIN log) /\ Queue(c) # << >>
      BY <1>0, <1>4, QueueType, ForwardEffect
    <2>2. PICK f \in DOMAIN log : f = Head(Queue(c))
      BY <2>1, SeqOps
    <2>3. /\ OnlyConn(c) /\ conn[c].pc \in {"flush", "live"}
          /\ \/ runs' = runs /\ cursor' = cursor
             \/ ~(f <= conn[c].last) /\ conn[c].open /\ Write(c, f)
      BY <1>0, <1>4, <2>2, ForwardEffect
    <2>4. log' = log
      BY <2>3 DEF OnlyConn
    <2>5. CASE ~(f <= conn[c].last) /\ conn[c].open /\ Write(c, f)
      <3>1. IsPaid(f) /\ overlay = c => IsNext(f) \/ f = cursor
        BY <1>0, <2>1, <2>2, <2>3, <2>5, ForwardsNext
      <3>2. ~IsPaid(f) => log[f] \in CommandMsgs /\ runs[log[f]] = 0
        <4>1. 1 \in DOMAIN Queue(c) /\ Queue(c)[1] = f
          BY <2>1, <2>2
        <4>2. log[f] \in Msgs
          BY <1>0 DEF TypeOK
        <4> QED
          BY <1>0, <4>1, <4>2 DEF CommandsWait, IsPaid, Msgs
      <3> QED
        BY <1>0, <2>4, <2>5, <3>1, <3>2, WriteIsStep
    <2> QED
      BY <1>1, <2>3, <2>4, <2>5
  <1>5. ASSUME NEW h \in Handlers, RequestStep(h) \/ PushSend(h) \/ IngestFails(h) PROVE DeliveryStep
    <2>1. UNCHANGED <<cursor, runs>>
      BY <1>0, <1>5, RequestEffect DEF RequestStep
    <2>2. log' = log
      BY <1>5, RequestConns DEF PushSend, SendTo, IngestFails, OneSource
    <2> QED
      BY <1>1, <2>1, <2>2
  <1>6. ASSUME NEW c \in Conns,
               \/ Dial(c) \/ RegistryAdd(c) \/ CloseDisplaced(c) \/ ReadPage(c) \/ PageDone(c)
               \/ Ready(c) \/ StopWriting(c) \/ ReplayFails(c) \/ Remove(c) \/ SocketDropped(c)
        PROVE  DeliveryStep
    BY <1>1, <1>6
       DEF Dial, RegistryAdd, CloseDisplaced, ReadPage, ReadPageOf, PageDone, Ready, StopWriting, StopWritingIn,
           ReplayFails, Remove, RemoveIf, SocketDropped
  <1>7. ASSUME NEW c \in Conns, FlushPending(c), conn[c].pending = << >> PROVE DeliveryStep
    BY <1>1, <1>7 DEF FlushPending
  <1>8. CASE OverlayLeaves \/ Crash \/ UNCHANGED vars
    BY <1>1, <1>8 DEF OverlayLeaves, Crash, vars
  <1> QED
    BY <1>2, <1>3, <1>4, <1>5, <1>6, <1>7, <1>8 DEF Next, HandlerStep, ConnStep, RequestStep, ForwardStep

\* Every step of handlers, connections and overlay is a step of the abstract delivery, or
\* leaves log, cursor and what has run alone.
THEOREM RelayImplementsDelivery ==
  ASSUME OneSource
  PROVE  Spec => ImplementsDelivery
  <1>1. Init => Delivery!Init
    BY DEF Init, Delivery!Init
  <1>2. DeliveryInv /\ [Next]_vars => [Delivery!Next]_<<log, cursor, {m \in Msgs : runs[m] > 0}>>
    BY StepImplements DEF DeliveryStep, Ran
  <1> QED
    BY DeliveryInductive, <1>1, <1>2, PTL DEF Spec, ImplementsDelivery, Delivery!Spec
=============================================================================
