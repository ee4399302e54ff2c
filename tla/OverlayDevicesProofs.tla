----------------------- MODULE OverlayDevicesProofs -----------------------
(***************************************************************************)
(* What pairing guarantees for any number of devices, requests and         *)
(* connections.                                                            *)
(***************************************************************************)
EXTENDS OverlayDevices, TLAPS

\* The actions that touch neither the devices nor the mints.
LEMMA TypeInit == Init => TypeOK
  <1> SUFFICES ASSUME Init PROVE TypeOK
    OBVIOUS
  <1>1. tail \in Nat /\ 0 \in 0..tail
    BY ConstantsAssumption DEF Init
  <1>2. Idle \in RequestRecs
    BY <1>1 DEF Idle, RequestRecs
  <1>3. NoSession \in SessionRecs
    BY <1>1 DEF NoSession, SessionRecs
  <1> QED
    BY <1>1, <1>2, <1>3 DEF Init, TypeOK

\* What is left to show of a step that leaves the log alone.
LEMMA TypeFrame ==
  ASSUME TypeOK, tail' = tail,
         status' \in [Devices -> {"unminted", "active", "revoked"}],
         startSeq' \in [Devices -> 0..tail], floor' \in [Devices -> 0..tail],
         handed' \subseteq Devices, registry' \in Conns \cup {NoConn},
         req' \in [Requests -> RequestRecs], sess' \in [Conns -> SessionRecs]
  PROVE  TypeOK'
  <1>1. RequestRecs' = RequestRecs /\ SessionRecs' = SessionRecs
    BY DEF RequestRecs, SessionRecs
  <1> QED
    BY <1>1 DEF TypeOK

LEMMA TypeNext == IInv /\ [Next]_vars => TypeOK'
  <1> SUFFICES ASSUME TypeOK, FloorsKept, [Next]_vars PROVE TypeOK'
    BY DEF IInv
  <1> USE ConstantsAssumption
  <1>0. /\ tail \in Nat /\ 0 \in 0..tail /\ tail \in 0..tail
        /\ Idle \in RequestRecs /\ NoSession \in SessionRecs
    BY DEF TypeOK, Idle, RequestRecs, NoSession, SessionRecs
  <1>1. CASE LogEvent
    BY <1>1 DEF LogEvent, TypeOK, RequestRecs, SessionRecs
  <1>2. CASE Crash
    BY <1>0, <1>2, TypeFrame DEF Crash, TypeOK
  <1>3. ASSUME NEW m \in Minters, BeginMint(m) PROVE TypeOK'
    <2>1. req' \in [Requests -> RequestRecs]
      <3>1. PICK d \in Devices :
              req' = [req EXCEPT ![m] = [Idle EXCEPT !.pc = "revoke", !.dev = d, !.seen = Active]]
        BY <1>3 DEF BeginMint
      <3>2. Active \subseteq Devices
        BY DEF Active
      <3>3. [Idle EXCEPT !.pc = "revoke", !.dev = d, !.seen = Active] \in RequestRecs
        BY <1>0, <3>2 DEF Idle, RequestRecs
      <3> QED
        BY <3>1, <3>3 DEF TypeOK
    <2>2. floor' \in [Devices -> 0..tail]
      BY <1>0, <1>3 DEF BeginMint, Idle, Active, TypeOK
    <2> QED
      BY <1>3, <2>1, <2>2, TypeFrame DEF BeginMint, Idle, Active, TypeOK
  <1>4. ASSUME NEW m \in Minters, MintRevokesPrior(m) PROVE TypeOK'
    <2>1. req' \in [Requests -> RequestRecs]
      BY <1>0, <1>4 DEF MintRevokesPrior, RevokePrior, Active, TypeOK, RequestRecs, Requests
    <2>2. status' \in [Devices -> {"unminted", "active", "revoked"}]
      BY <1>0, <1>4 DEF MintRevokesPrior, RevokePrior, Active, TypeOK, RequestRecs, Requests
    <2> QED
      BY <1>4, <2>1, <2>2, TypeFrame DEF MintRevokesPrior, RevokePrior, Active, TypeOK
  <1>5. ASSUME NEW m \in Minters, MintReadsTail(m) PROVE TypeOK'
    <2>1. req' \in [Requests -> RequestRecs]
      BY <1>0, <1>5 DEF MintReadsTail, MintFloorsAt, TypeOK, RequestRecs, Requests
    <2> QED
      BY <1>5, <2>1, TypeFrame DEF MintReadsTail, MintFloorsAt, TypeOK
  <1>6. ASSUME NEW m \in Minters, MintCommits(m) PROVE TypeOK'
    <2>1. req' \in [Requests -> RequestRecs]
      BY <1>0, <1>6 DEF MintCommits, CommitRevoking, Stores, TypeOK, RequestRecs, Requests
    <2>2. status' \in [Devices -> {"unminted", "active", "revoked"}]
      BY <1>0, <1>6 DEF MintCommits, CommitRevoking, Stores, TypeOK, RequestRecs, Requests
    <2>3. startSeq' \in [Devices -> 0..tail]
      BY <1>0, <1>6 DEF MintCommits, CommitRevoking, Stores, TypeOK, RequestRecs, Requests
    <2> QED
      BY <1>6, <2>1, <2>2, <2>3, TypeFrame DEF MintCommits, CommitRevoking, Stores, TypeOK
  <1>7. ASSUME NEW m \in Minters, MintFindsConnected(m) PROVE TypeOK'
    <2>1. req' \in [Requests -> RequestRecs]
      <3>1. PICK old \in Devices \cup {NoDevice} :
              req' = [req EXCEPT ![m] = [@ EXCEPT !.pc = "disconnect", !.old = old]]
        <4>1. registry # NoConn => sess[registry].dev \in Devices \cup {NoDevice}
          BY DEF TypeOK, SessionRecs
        <4> QED
          BY <1>7, <4>1 DEF MintFindsConnected
      <3>2. req[m] \in RequestRecs
        BY DEF TypeOK, Requests
      <3>3. [req[m] EXCEPT !.pc = "disconnect", !.old = old] \in RequestRecs
        BY <3>2 DEF RequestRecs
      <3>4. req' = [req EXCEPT ![m] = [req[m] EXCEPT !.pc = "disconnect", !.old = old]]
        BY <3>1 DEF TypeOK
      <3> QED
        BY <3>3, <3>4 DEF TypeOK
    <2>2. sess' \in [Conns -> SessionRecs]
      BY <1>0, <1>7 DEF MintFindsConnected, Overtaken, TypeOK, SessionRecs
    <2> QED
      BY <1>7, <2>1, <2>2, TypeFrame DEF MintFindsConnected, Overtaken, TypeOK
  <1>8. ASSUME NEW m \in Minters, MintAnswers(m) PROVE TypeOK'
    <2>1. req' \in [Requests -> RequestRecs]
      BY <1>0, <1>8 DEF MintAnswers, DisconnectDevice, TypeOK, RequestRecs, Requests
    <2>2. sess' \in [Conns -> SessionRecs]
      BY <1>0, <1>8 DEF MintAnswers, DisconnectDevice, TypeOK, SessionRecs
    <2>3. handed' \subseteq Devices
      BY <1>8 DEF MintAnswers, FloorsKept, TypeOK, Requests
    <2> QED
      BY <1>8, <2>1, <2>2, <2>3, TypeFrame DEF MintAnswers, DisconnectDevice, TypeOK
  <1>9. ASSUME NEW m \in Minters, MintFails(m) PROVE TypeOK'
    <2>1. req' \in [Requests -> RequestRecs]
      BY <1>0, <1>9 DEF MintFails, TypeOK, RequestRecs, Requests
    <2> QED
      BY <1>9, <2>1, TypeFrame DEF MintFails, TypeOK
  <1>10. ASSUME NEW r \in Revokers, RevokeChecks(r) PROVE TypeOK'
    <2>1. req' \in [Requests -> RequestRecs]
      <3>1. PICK d \in Devices : req' = [req EXCEPT ![r] = [Idle EXCEPT !.pc = "update", !.dev = d]]
        BY <1>10 DEF RevokeChecks, Active
      <3>2. [Idle EXCEPT !.pc = "update", !.dev = d] \in RequestRecs
        BY <1>0 DEF Idle, RequestRecs
      <3> QED
        BY <3>1, <3>2 DEF TypeOK
    <2> QED
      BY <1>10, <2>1, TypeFrame DEF RevokeChecks, Active, Idle, TypeOK
  <1>11. ASSUME NEW r \in Revokers, RevokeUpdates(r) PROVE TypeOK'
    <2>1. req' \in [Requests -> RequestRecs]
      BY <1>0, <1>11 DEF RevokeUpdates, Revokes, TypeOK, RequestRecs, Requests
    <2>2. status' \in [Devices -> {"unminted", "active", "revoked"}]
      BY <1>0, <1>11 DEF RevokeUpdates, Revokes, TypeOK, RequestRecs, Requests
    <2> QED
      BY <1>11, <2>1, <2>2, TypeFrame DEF RevokeUpdates, Revokes, TypeOK
  <1>12. ASSUME NEW r \in Revokers, RevokeAnswers(r) PROVE TypeOK'
    <2>1. req' \in [Requests -> RequestRecs]
      BY <1>0, <1>12 DEF RevokeAnswers, RevokeDropping, DisconnectDevice, Overtaken, TypeOK, RequestRecs, Requests
    <2>2. sess' \in [Conns -> SessionRecs]
      BY <1>0, <1>12 DEF RevokeAnswers, RevokeDropping, DisconnectDevice, Overtaken, TypeOK, SessionRecs
    <2> QED
      BY <1>12, <2>1, <2>2, TypeFrame DEF RevokeAnswers, RevokeDropping, DisconnectDevice, Overtaken, TypeOK
  <1>13. ASSUME NEW c \in Conns, Authenticate(c) PROVE TypeOK'
    <2>1. sess' \in [Conns -> SessionRecs]
      <3>1. PICK d \in Devices, since \in 0..tail :
              sess' = [sess EXCEPT ![c] = [NoSession EXCEPT !.pc = "add", !.dev = d, !.open = TRUE,
                                                            !.since = since]]
        <4>1. PICK d \in handed \cap Active, hello \in 0..tail :
                sess' = [sess EXCEPT ![c] =
                  [NoSession EXCEPT !.pc = "add", !.dev = d, !.open = TRUE,
                                    !.since = IF startSeq[d] > hello THEN startSeq[d] ELSE hello]]
          BY <1>13 DEF Authenticate, Admit
        <4>2. d \in Devices /\ startSeq[d] \in 0..tail
          BY DEF TypeOK
        <4> QED
          BY <4>1, <4>2
      <3>2. [NoSession EXCEPT !.pc = "add", !.dev = d, !.open = TRUE, !.since = since]
              \in SessionRecs
        BY DEF NoSession, SessionRecs
      <3> QED
        BY <3>1, <3>2 DEF TypeOK
    <2> QED
      BY <1>13, <2>1, TypeFrame DEF Authenticate, Admit, NoSession, TypeOK
  <1>14. ASSUME NEW c \in Conns, RegistryAdd(c) PROVE TypeOK'
    <2>1. sess' \in [Conns -> SessionRecs]
      BY <1>0, <1>14 DEF RegistryAdd, TypeOK, SessionRecs
    <2>2. registry' \in Conns \cup {NoConn}
      BY <1>0, <1>14 DEF RegistryAdd, TypeOK
    <2> QED
      BY <1>14, <2>1, <2>2, TypeFrame DEF RegistryAdd, TypeOK
  <1>15. ASSUME NEW c \in Conns, CloseDisplaced(c) PROVE TypeOK'
    <2>1. ASSUME NEW d \in Conns PROVE sess'[d] \in SessionRecs
      <3>1. sess[c] \in SessionRecs /\ sess[d] \in SessionRecs
        BY DEF TypeOK
      <3>2. /\ [sess[c] EXCEPT !.pc = "serving", !.prev = NoConn] \in SessionRecs
            /\ [sess[d] EXCEPT !.open = FALSE] \in SessionRecs
        BY <3>1 DEF SessionRecs
      <3> QED
        BY <1>15, <3>1, <3>2 DEF CloseDisplaced
    <2>2. sess' \in [Conns -> SessionRecs]
      BY <1>15, <2>1 DEF CloseDisplaced
    <2> QED
      BY <1>15, <2>2, TypeFrame DEF CloseDisplaced, TypeOK
  <1>16. ASSUME NEW c \in Conns, Remove(c) PROVE TypeOK'
    <2>1. sess' \in [Conns -> SessionRecs]
      BY <1>0, <1>16 DEF Remove, TypeOK, SessionRecs
    <2>2. registry' \in Conns \cup {NoConn}
      BY <1>0, <1>16 DEF Remove, TypeOK
    <2> QED
      BY <1>16, <2>1, <2>2, TypeFrame DEF Remove, TypeOK
  <1>17. CASE UNCHANGED vars
    BY <1>17, TypeFrame DEF vars, TypeOK
  <1>18. ASSUME NEW m \in Minters, MintCommitsUnseen(m) PROVE TypeOK'
    <2>1. req' \in [Requests -> RequestRecs] /\ sess' \in [Conns -> SessionRecs]
      BY <1>0, <1>18 DEF MintCommitsUnseen, Missed, TypeOK, SessionRecs
    <2>2. status' \in [Devices -> {"unminted", "active", "revoked"}]
      BY <1>0, <1>18 DEF MintCommitsUnseen, Stores, TypeOK
    <2>3. startSeq' \in [Devices -> 0..tail]
      BY <1>0, <1>18 DEF MintCommitsUnseen, Stores, TypeOK, RequestRecs, Requests
    <2> QED
      BY <1>18, <2>1, <2>2, <2>3, TypeFrame DEF MintCommitsUnseen, TypeOK
  <1>19. ASSUME NEW r \in Revokers, RevokesUnseen(r) PROVE TypeOK'
    <2>1. req' \in [Requests -> RequestRecs] /\ sess' \in [Conns -> SessionRecs]
      BY <1>0, <1>19 DEF RevokesUnseen, Missed, TypeOK, SessionRecs
    <2>2. status' \in [Devices -> {"unminted", "active", "revoked"}]
      BY <1>0, <1>19 DEF RevokesUnseen, Revokes, TypeOK
    <2> QED
      BY <1>19, <2>1, <2>2, TypeFrame DEF RevokesUnseen, TypeOK
  <1>20. ASSUME NEW r \in Revokers, RevokeFails(r) PROVE TypeOK'
    <2>1. req' \in [Requests -> RequestRecs]
      BY <1>0, <1>20 DEF RevokeFails, TypeOK
    <2> QED
      BY <1>20, <2>1, TypeFrame DEF RevokeFails, TypeOK
  <1> QED
    BY <1>1, <1>2, <1>3, <1>4, <1>5, <1>6, <1>7, <1>8, <1>9, <1>10, <1>11, <1>12, <1>13, <1>14,
       <1>15, <1>16, <1>17, <1>18, <1>19, <1>20 DEF Next

-----------------------------------------------------------------------------
LEMMA FloorsInit == Init => FloorsKept
  BY DEF Init, FloorsKept, Idle, NoSession

\* A step that changes only the sessions, and starts none, keeps every floor.
LEMMA FloorsFrame ==
  ASSUME FloorsKept, UNCHANGED <<status, startSeq, handed, req, floor>>,
         \A c \in Conns : sess'[c].pc # "gone" =>
           sess[c].pc # "gone" /\ sess'[c].dev = sess[c].dev /\ sess'[c].since = sess[c].since
  PROVE  FloorsKept'
  BY DEF FloorsKept

\* A step that only makes devices, from floors a request has read, keeps every floor.
LEMMA FloorsGrow ==
  ASSUME FloorsKept, TypeOK, UNCHANGED <<handed, floor>>,
         \A d \in Devices : status[d] # "unminted" => status'[d] # "unminted",
         \A d \in Devices : status'[d] # "unminted" => startSeq'[d] >= floor[d],
         \A q \in Requests :
           /\ req'[q].seen \subseteq req[q].seen /\ req'[q].locked \subseteq req[q].locked
           /\ req'[q].pc # "idle" => /\ req[q].pc # "idle" /\ req'[q].dev = req[q].dev
                                     /\ req'[q].start = req[q].start
           /\ req'[q].pc = "insert" => req[q].pc = "insert"
           /\ req'[q].pc \in {"connected", "update", "disconnect"} =>
                \/ req[q].pc \in {"connected", "update", "disconnect"}
                \/ status'[req[q].dev] # "unminted",
         \A c \in Conns : /\ sess'[c].pc = sess[c].pc /\ sess'[c].dev = sess[c].dev
                          /\ sess'[c].since = sess[c].since
  PROVE  FloorsKept'
  <1>1. \A q \in Requests : req[q].seen \subseteq Devices /\ req[q].locked \subseteq Devices
    BY DEF TypeOK, RequestRecs
  <1>2. \A q \in Requests :
          /\ req'[q].pc # "idle" => req'[q].dev \in Devices
          /\ req'[q].pc = "insert" => req'[q].start >= floor'[req'[q].dev]
          /\ req'[q].pc \in {"connected", "update", "disconnect"} => status'[req'[q].dev] # "unminted"
    BY DEF FloorsKept
  <1>3. \A q \in Requests : \A d \in req'[q].seen \cup req'[q].locked : status'[d] # "unminted"
    BY <1>1 DEF FloorsKept
  <1>4. \A c \in Conns : sess'[c].pc # "gone" => /\ sess'[c].dev \in Devices
                                                /\ status'[sess'[c].dev] # "unminted"
                                                /\ sess'[c].since >= floor'[sess'[c].dev]
    BY DEF FloorsKept
  <1>5. \A d \in handed' : status'[d] # "unminted"
    BY DEF FloorsKept, TypeOK
  <1> QED
    BY <1>2, <1>3, <1>4, <1>5 DEF FloorsKept

LEMMA FloorsNext == IInv /\ [Next]_vars => FloorsKept'
  <1> SUFFICES ASSUME TypeOK, FloorsKept, [Next]_vars PROVE FloorsKept'
    BY DEF IInv
  <1> USE ConstantsAssumption DEF Requests
  <1>t. /\ status \in [Devices -> {"unminted", "active", "revoked"}]
        /\ req \in [Requests -> RequestRecs] /\ sess \in [Conns -> SessionRecs]
        /\ \A q \in Requests : req[q].seen \subseteq Devices /\ req[q].locked \subseteq Devices
    BY DEF TypeOK, RequestRecs
  <1>1. CASE LogEvent
    BY <1>1, FloorsFrame DEF LogEvent
  <1>2. CASE Crash
    BY <1>2 DEF Crash, FloorsKept, Idle, NoSession
  <1>3. ASSUME NEW m \in Minters, BeginMint(m) PROVE FloorsKept'
    <2>1. PICK d \in Devices :
            /\ status[d] = "unminted" /\ \A q \in Requests : req[q].dev # d
            /\ req' = [req EXCEPT ![m] = [Idle EXCEPT !.pc = "revoke", !.dev = d, !.seen = Active]]
            /\ floor' = [floor EXCEPT ![d] = tail]
      BY <1>3 DEF BeginMint
    <2>2. \A e \in Devices : e # d => floor'[e] = floor[e]
      BY <2>1 DEF TypeOK
    <2>3. \A q \in Requests : IF q = m THEN /\ req'[q].pc = "revoke" /\ req'[q].dev = d
                                             /\ req'[q].seen = Active /\ req'[q].locked = {}
                              ELSE req'[q] = req[q]
      BY <2>1 DEF TypeOK, Idle
    <2> QED
      BY <1>3, <2>1, <2>2, <2>3 DEF BeginMint, Active, FloorsKept, TypeOK
  <1>4. ASSUME NEW m \in Minters, MintRevokesPrior(m) PROVE FloorsKept'
    <2>1. status' = status
      BY <1>4 DEF MintRevokesPrior, RevokePrior, TypeOK
    <2>2. \A q \in Requests : /\ req'[q].dev = req[q].dev /\ req'[q].start = req[q].start
                              /\ q = m => req[q].pc = "revoke" /\ req'[q].pc = "floor"
                              /\ q # m => req'[q].pc = req[q].pc
                              /\ req'[q].seen = req[q].seen
                              /\ req'[q].locked \subseteq req[q].seen \cup req[q].locked
      BY <1>4 DEF MintRevokesPrior, RevokePrior, TypeOK, RequestRecs
    <2> QED
      BY <1>4, <2>1, <2>2 DEF MintRevokesPrior, RevokePrior, FloorsKept
  <1>5. ASSUME NEW m \in Minters, MintReadsTail(m) PROVE FloorsKept'
    <2>1. \A q \in Requests : /\ req'[q].dev = req[q].dev
                              /\ q = m => /\ req[q].pc = "floor" /\ req'[q].pc = "insert"
                                          /\ req'[q].start = tail
                              /\ q # m => req'[q].pc = req[q].pc /\ req'[q].start = req[q].start
                              /\ req'[q].seen = req[q].seen /\ req'[q].locked = req[q].locked
      BY <1>5 DEF MintReadsTail, MintFloorsAt, TypeOK, RequestRecs
    <2>2. \A d \in Devices : tail >= floor[d]
      BY DEF TypeOK
    <2> QED
      BY <1>5, <2>1, <2>2 DEF MintReadsTail, MintFloorsAt, FloorsKept
  <1>6. ASSUME NEW m \in Minters, MintCommits(m) PROVE FloorsKept'
    <2>1. \A q \in Requests : /\ req'[q].dev = req[q].dev /\ req'[q].start = req[q].start
                              /\ q = m => req[q].pc = "insert" /\ req'[q].pc = "connected"
                              /\ q # m => req'[q].pc = req[q].pc
                              /\ req'[q].seen = req[q].seen /\ req'[q].locked \subseteq req[q].locked
      BY <1>6 DEF MintCommits, CommitRevoking, Stores, TypeOK, RequestRecs
    <2>0. \A d \in req[m].locked : status[d] # "unminted"
      BY DEF FloorsKept
    <2>2. \A d \in Devices : status[d] # "unminted" \/ d = req[m].dev <=> status'[d] # "unminted"
      BY <1>6, <2>0 DEF MintCommits, CommitRevoking, Stores
    <2>3. \A d \in Devices : startSeq'[d] = IF d = req[m].dev THEN req[m].start ELSE startSeq[d]
      BY <1>6 DEF MintCommits, CommitRevoking, Stores, TypeOK
    <2>4. req[m].dev \in Devices /\ req[m].start >= floor[req[m].dev]
      BY <1>6, <2>1 DEF FloorsKept
    <2>5. \A d \in Devices : status'[d] # "unminted" => startSeq'[d] >= floor[d]
      BY <2>2, <2>3, <2>4 DEF FloorsKept
    <2> QED
      BY <1>6, <2>1, <2>2, <2>4, <2>5, FloorsGrow DEF MintCommits, CommitRevoking
  <1>7. ASSUME NEW m \in Minters, MintFindsConnected(m) PROVE FloorsKept'
    <2>1. \A q \in Requests : /\ req'[q].dev = req[q].dev /\ req'[q].start = req[q].start
                              /\ q = m => req[q].pc = "connected" /\ req'[q].pc = "disconnect"
                              /\ q # m => req'[q].pc = req[q].pc
                              /\ req'[q].seen = req[q].seen /\ req'[q].locked = req[q].locked
      BY <1>7 DEF MintFindsConnected, TypeOK, RequestRecs
    <2>2. \A c \in Conns : /\ sess'[c].pc = sess[c].pc /\ sess'[c].dev = sess[c].dev
                           /\ sess'[c].since = sess[c].since
      BY <1>7 DEF MintFindsConnected, Overtaken, TypeOK, SessionRecs
    <2> QED
      BY <1>7, <2>1, <2>2 DEF MintFindsConnected, FloorsKept
  <1>8. ASSUME NEW m \in Minters, MintAnswers(m) PROVE FloorsKept'
    <2>1. \A q \in Requests : IF q = m THEN req'[q].pc = "idle" /\ req'[q].seen = {} /\ req'[q].locked = {}
                              ELSE req'[q] = req[q]
      BY <1>8 DEF MintAnswers, TypeOK, Idle
    <2>2. \A c \in Conns : /\ sess'[c].pc = sess[c].pc /\ sess'[c].dev = sess[c].dev
                           /\ sess'[c].since = sess[c].since
      BY <1>8 DEF MintAnswers, DisconnectDevice, TypeOK, SessionRecs
    <2>3. status[req[m].dev] # "unminted" /\ handed' = handed \cup {req[m].dev}
      BY <1>8 DEF MintAnswers, FloorsKept
    <2> QED
      BY <1>8, <2>1, <2>2, <2>3 DEF MintAnswers, FloorsKept
  <1>9. ASSUME NEW m \in Minters, MintFails(m) PROVE FloorsKept'
    <2>1. \A q \in Requests : IF q = m THEN req'[q].pc = "idle" /\ req'[q].seen = {} /\ req'[q].locked = {}
                              ELSE req'[q] = req[q]
      BY <1>9 DEF MintFails, TypeOK, Idle
    <2> QED
      BY <1>9, <2>1 DEF MintFails, FloorsKept
  <1>10. ASSUME NEW r \in Revokers, RevokeChecks(r) PROVE FloorsKept'
    <2>1. PICK d \in Active : req' = [req EXCEPT ![r] = [Idle EXCEPT !.pc = "update", !.dev = d]]
      BY <1>10 DEF RevokeChecks
    <2>2. \A q \in Requests : IF q = r THEN /\ req'[q].pc = "update" /\ req'[q].dev = d
                                             /\ req'[q].seen = {} /\ req'[q].locked = {}
                              ELSE req'[q] = req[q]
      BY <2>1 DEF TypeOK, Idle
    <2> QED
      BY <1>10, <2>2 DEF RevokeChecks, FloorsKept, Active
  <1>11. ASSUME NEW r \in Revokers, RevokeUpdates(r) PROVE FloorsKept'
    <2>1. \A q \in Requests : /\ req'[q].dev = req[q].dev /\ req'[q].start = req[q].start
                              /\ q = r => req[q].pc = "update" /\ req'[q].pc = "disconnect"
                              /\ q # r => req'[q].pc = req[q].pc
                              /\ req'[q].seen = req[q].seen /\ req'[q].locked = req[q].locked
      BY <1>11 DEF RevokeUpdates, Revokes, TypeOK, RequestRecs
    <2>2. req[r].dev \in Devices /\ status[req[r].dev] # "unminted"
      BY <1>11 DEF RevokeUpdates, Revokes, FloorsKept
    <2>3. \A d \in Devices : status'[d] # "unminted" <=> status[d] # "unminted"
      BY <1>11, <2>2 DEF RevokeUpdates, Revokes, TypeOK
    <2> QED
      BY <1>11, <1>t, <2>1, <2>3 DEF RevokeUpdates, Revokes, FloorsKept
  <1>12. ASSUME NEW r \in Revokers, RevokeAnswers(r) PROVE FloorsKept'
    <2>1. \A q \in Requests : IF q = r THEN req'[q].pc = "idle" /\ req'[q].seen = {} /\ req'[q].locked = {}
                              ELSE req'[q] = req[q]
      BY <1>12 DEF RevokeAnswers, RevokeDropping, TypeOK, Idle
    <2>2. \A c \in Conns : /\ sess'[c].pc = sess[c].pc /\ sess'[c].dev = sess[c].dev
                           /\ sess'[c].since = sess[c].since
      BY <1>12 DEF RevokeAnswers, RevokeDropping, DisconnectDevice, Overtaken, TypeOK, SessionRecs
    <2> QED
      BY <1>12, <2>1, <2>2 DEF RevokeAnswers, RevokeDropping, FloorsKept
  <1>13. ASSUME NEW c \in Conns, Authenticate(c) PROVE FloorsKept'
    <2>1. PICK d \in handed \cap Active, hello \in 0..tail :
            sess' = [sess EXCEPT ![c] =
              [NoSession EXCEPT !.pc = "add", !.dev = d, !.open = TRUE,
                                !.since = IF startSeq[d] > hello THEN startSeq[d] ELSE hello]]
      BY <1>13 DEF Authenticate, Admit
    <2>2. d \in Devices /\ status[d] # "unminted" /\ startSeq[d] >= floor[d]
      BY DEF Active, FloorsKept
    <2>3. startSeq[d] \in Nat /\ floor[d] \in Nat /\ hello \in Nat
      BY <2>2 DEF TypeOK
    <2>4. \A x \in Conns : /\ x # c => sess'[x] = sess[x]
                           /\ x = c => sess'[x].dev = d /\ sess'[x].since >= floor[d]
      BY <2>1, <2>2, <2>3 DEF TypeOK, NoSession
    <2> QED
      BY <1>13, <2>2, <2>4 DEF Authenticate, Admit, FloorsKept
  <1>14. ASSUME NEW c \in Conns, RegistryAdd(c) PROVE FloorsKept'
    <2>1. \A x \in Conns : sess'[x].dev = sess[x].dev /\ sess'[x].since = sess[x].since
                           /\ (sess[x].pc = "gone" => sess'[x].pc = "gone")
      BY <1>14 DEF RegistryAdd, TypeOK, SessionRecs
    <2> QED
      BY <1>14, <2>1, FloorsFrame DEF RegistryAdd
  <1>15. ASSUME NEW c \in Conns, CloseDisplaced(c) PROVE FloorsKept'
    <2>1. \A x \in Conns : sess'[x].dev = sess[x].dev /\ sess'[x].since = sess[x].since
                           /\ (sess[x].pc = "gone" => sess'[x].pc = "gone")
      BY <1>15 DEF CloseDisplaced, TypeOK, SessionRecs
    <2> QED
      BY <1>15, <2>1, FloorsFrame DEF CloseDisplaced
  <1>16. ASSUME NEW c \in Conns, Remove(c) PROVE FloorsKept'
    <2>1. \A x \in Conns : IF x = c THEN sess'[x].pc = "gone" ELSE sess'[x] = sess[x]
      BY <1>16 DEF Remove, TypeOK, NoSession
    <2> QED
      BY <1>16, <2>1, FloorsFrame DEF Remove
  <1>17. CASE UNCHANGED vars
    BY <1>17, FloorsFrame DEF vars
  <1>18. ASSUME NEW m \in Minters, MintCommitsUnseen(m) PROVE FloorsKept'
    <2>1. \A q \in Requests : IF q = m THEN req'[q].pc = "idle" /\ req'[q].seen = {} /\ req'[q].locked = {}
                              ELSE req'[q] = req[q]
      BY <1>18 DEF MintCommitsUnseen, TypeOK, Idle
    <2>0. \A d \in req[m].locked : status[d] # "unminted"
      BY DEF FloorsKept
    <2>2. \A d \in Devices : status[d] # "unminted" \/ d = req[m].dev <=> status'[d] # "unminted"
      BY <1>18, <2>0 DEF MintCommitsUnseen, Stores
    <2>3. \A d \in Devices : startSeq'[d] = IF d = req[m].dev THEN req[m].start ELSE startSeq[d]
      BY <1>18 DEF MintCommitsUnseen, Stores, TypeOK
    <2>4. \A c \in Conns : /\ sess'[c].pc = sess[c].pc /\ sess'[c].dev = sess[c].dev
                           /\ sess'[c].since = sess[c].since
      BY <1>18 DEF MintCommitsUnseen, Missed, TypeOK, SessionRecs
    <2>5. req[m].dev \in Devices /\ req[m].start >= floor[req[m].dev]
      BY <1>18 DEF MintCommitsUnseen, FloorsKept
    <2>6. \A d \in Devices : status'[d] # "unminted" => startSeq'[d] >= floor[d]
      BY <2>2, <2>3, <2>5 DEF FloorsKept
    <2> QED
      BY <1>18, <2>1, <2>2, <2>4, <2>6, FloorsGrow DEF MintCommitsUnseen
  <1>19. ASSUME NEW r \in Revokers, RevokesUnseen(r) PROVE FloorsKept'
    <2>1. \A q \in Requests : IF q = r THEN req'[q].pc = "idle" /\ req'[q].seen = {} /\ req'[q].locked = {}
                              ELSE req'[q] = req[q]
      BY <1>19 DEF RevokesUnseen, TypeOK, Idle
    <2>2. req[r].dev \in Devices /\ status[req[r].dev] # "unminted"
      BY <1>19 DEF RevokesUnseen, Revokes, FloorsKept
    <2>3. \A d \in Devices : status'[d] # "unminted" <=> status[d] # "unminted"
      BY <1>19, <2>2 DEF RevokesUnseen, Revokes, TypeOK
    <2>4. \A c \in Conns : /\ sess'[c].pc = sess[c].pc /\ sess'[c].dev = sess[c].dev
                           /\ sess'[c].since = sess[c].since
      BY <1>19 DEF RevokesUnseen, Missed, TypeOK, SessionRecs
    <2> QED
      BY <1>19, <2>1, <2>3, <2>4, FloorsGrow DEF RevokesUnseen, FloorsKept
  <1>20. ASSUME NEW r \in Revokers, RevokeFails(r) PROVE FloorsKept'
    <2>1. \A q \in Requests : IF q = r THEN req'[q].pc = "idle" /\ req'[q].seen = {} /\ req'[q].locked = {}
                              ELSE req'[q] = req[q]
      BY <1>20 DEF RevokeFails, TypeOK, Idle
    <2> QED
      BY <1>20, <2>1 DEF RevokeFails, FloorsKept
  <1> QED
    BY <1>1, <1>2, <1>3, <1>4, <1>5, <1>6, <1>7, <1>8, <1>9, <1>10, <1>11, <1>12, <1>13,
       <1>14, <1>15, <1>16, <1>17, <1>18, <1>19, <1>20 DEF Next

THEOREM Inductive == Spec => []IInv
  <1>1. Init => IInv
    BY TypeInit, FloorsInit DEF IInv
  <1>2. IInv /\ [Next]_vars => IInv'
    BY TypeNext, FloorsNext DEF IInv
  <1> QED
    BY <1>1, <1>2, PTL DEF Spec

\* The tables, requests and connections keep their types.
THEOREM TypeCorrect == Spec => []TypeOK
  <1>1. IInv => TypeOK
    BY DEF IInv
  <1> QED
    BY Inductive, <1>1, PTL

\* However mints, revocations, handshakes and crashes interleave, no connection of a
\* device replays an event that was logged before the mint of that device began.
THEOREM NoHistory == Spec => []NoHistoryReplayed
  <1>1. IInv => NoHistoryReplayed
    BY DEF IInv, FloorsKept, NoHistoryReplayed
  <1> QED
    BY Inductive, <1>1, PTL
-----------------------------------------------------------------------------
LEMMA PriorNext ==
  ASSUME SerialMints
  PROVE  SerialInv /\ [Next]_vars => PriorKnown' /\ OneActiveToken'
  <1> SUFFICES ASSUME TypeOK, FloorsKept, PriorKnown, OneActiveToken, [Next]_vars
               PROVE  PriorKnown' /\ OneActiveToken'
    BY DEF SerialInv, IInv
  <1> USE ConstantsAssumption DEF Requests
  \* Steps that neither activate a device nor move a mint.
  <1>0. ASSUME Active' \subseteq Active, \A m \in Minters : req'[m] = req[m] \/ req'[m].pc \notin {"revoke", "floor", "insert"}
        PROVE  PriorKnown' /\ OneActiveToken'
    BY <1>0 DEF PriorKnown, OneActiveToken
  <1>1. CASE LogEvent
    BY <1>0, <1>1 DEF LogEvent, Active
  <1>2. CASE Crash
    BY <1>0, <1>2 DEF Crash, Active, Idle
  <1>3. ASSUME NEW m \in Minters, BeginMint(m) PROVE PriorKnown' /\ OneActiveToken'
    <2>1. \A n \in Minters : n = m
      BY DEF SerialMints
    <2>2. req'[m].pc = "revoke" /\ req'[m].seen = Active
      BY <1>3 DEF BeginMint, TypeOK, Idle
    <2>3. Active' = Active
      BY <1>3 DEF BeginMint, Active
    <2> QED
      BY <2>1, <2>2, <2>3 DEF PriorKnown, OneActiveToken
  <1>4. ASSUME NEW m \in Minters, MintRevokesPrior(m) PROVE PriorKnown' /\ OneActiveToken'
    <2>1. \A n \in Minters : n = m
      BY DEF SerialMints
    <2>2. req'[m].pc = "floor" /\ req'[m].locked = req[m].seen \cap Active /\ req[m].pc = "revoke"
      BY <1>4 DEF MintRevokesPrior, RevokePrior, TypeOK, RequestRecs
    <2>3. status' = status
      BY <1>4 DEF MintRevokesPrior, RevokePrior, TypeOK
    <2>4. Active' = Active
      BY <2>3 DEF Active
    <2> QED
      BY <2>1, <2>2, <2>4 DEF PriorKnown, OneActiveToken
  <1>5. ASSUME NEW m \in Minters, MintReadsTail(m) PROVE PriorKnown' /\ OneActiveToken'
    <2>1. \A n \in Minters : n = m
      BY DEF SerialMints
    <2>2. req'[m].pc = "insert" /\ req'[m].locked = req[m].locked /\ req[m].pc = "floor"
      BY <1>5 DEF MintReadsTail, MintFloorsAt, TypeOK, RequestRecs
    <2>3. Active' = Active
      BY <1>5 DEF MintReadsTail, MintFloorsAt, Active
    <2> QED
      BY <2>1, <2>2, <2>3 DEF PriorKnown, OneActiveToken
  <1>6. ASSUME NEW m \in Minters, MintCommits(m) PROVE PriorKnown' /\ OneActiveToken'
    <2>1. \A n \in Minters : n = m
      BY DEF SerialMints
    <2>2. req'[m].pc = "connected" /\ Active \subseteq req[m].locked
      BY <1>6 DEF MintCommits, CommitRevoking, Stores, TypeOK, RequestRecs, PriorKnown
    <2>3. Active' \subseteq {req[m].dev}
      BY <1>6, <2>2 DEF MintCommits, CommitRevoking, Stores, Active
    <2> QED
      BY <2>1, <2>2, <2>3 DEF PriorKnown, OneActiveToken
  <1>7. ASSUME NEW m \in Minters, MintFindsConnected(m) PROVE PriorKnown' /\ OneActiveToken'
    <2>1. \A n \in Minters : req'[n] = req[n] \/ req'[n].pc = "disconnect"
      BY <1>7 DEF MintFindsConnected, TypeOK, RequestRecs
    <2> QED
      BY <1>0, <1>7, <2>1 DEF MintFindsConnected, Active
  <1>8. ASSUME NEW m \in Minters, MintAnswers(m) \/ MintFails(m)
        PROVE  PriorKnown' /\ OneActiveToken'
    <2>1. \A n \in Minters : req'[n] = req[n] \/ req'[n].pc = "idle"
      BY <1>8 DEF MintAnswers, MintFails, TypeOK, Idle
    <2> QED
      BY <1>0, <1>8, <2>1 DEF MintAnswers, MintFails, Active
  <1>9. ASSUME NEW r \in Revokers, RevokeChecks(r) \/ RevokeUpdates(r) \/ RevokeAnswers(r)
        PROVE  PriorKnown' /\ OneActiveToken'
    <2>1. \A n \in Minters : req'[n] = req[n]
      BY <1>9 DEF RevokeChecks, RevokeUpdates, Revokes, RevokeAnswers, RevokeDropping, TypeOK
    <2>2. Active' \subseteq Active
      BY <1>9 DEF RevokeChecks, RevokeUpdates, Revokes, RevokeAnswers, RevokeDropping, TypeOK, Active
    <2> QED
      BY <1>0, <2>1, <2>2
  <1>10. ASSUME NEW c \in Conns, Authenticate(c) \/ RegistryAdd(c) \/ CloseDisplaced(c) \/ Remove(c)
         PROVE  PriorKnown' /\ OneActiveToken'
    BY <1>0, <1>10 DEF Authenticate, Admit, RegistryAdd, CloseDisplaced, Remove, Active
  <1>11. CASE UNCHANGED vars
    BY <1>0, <1>11 DEF vars, Active
  <1>12. ASSUME NEW m \in Minters, MintCommitsUnseen(m) PROVE PriorKnown' /\ OneActiveToken'
    <2>1. \A n \in Minters : n = m
      BY DEF SerialMints
    <2>2. req'[m].pc = "idle" /\ Active \subseteq req[m].locked
      BY <1>12 DEF MintCommitsUnseen, TypeOK, PriorKnown, Idle
    <2>3. Active' \subseteq {req[m].dev}
      BY <1>12, <2>2 DEF MintCommitsUnseen, Stores, Active
    <2> QED
      BY <2>1, <2>2, <2>3 DEF PriorKnown, OneActiveToken
  <1>13. ASSUME NEW r \in Revokers, RevokesUnseen(r) \/ RevokeFails(r)
         PROVE  PriorKnown' /\ OneActiveToken'
    <2>1. \A n \in Minters : req'[n] = req[n]
      BY <1>13 DEF RevokesUnseen, RevokeFails, TypeOK
    <2>2. Active' \subseteq Active
      BY <1>13 DEF RevokesUnseen, Revokes, RevokeFails, TypeOK, Active
    <2> QED
      BY <1>0, <2>1, <2>2
  <1> QED
    BY <1>1, <1>2, <1>3, <1>4, <1>5, <1>6, <1>7, <1>8, <1>9, <1>10, <1>11, <1>12, <1>13 DEF Next

\* While mints do not overlap, a streamer never has two live tokens, whatever the
\* revocations, handshakes, failed transactions and crashes in between.
THEOREM OneToken ==
  ASSUME SerialMints
  PROVE  Spec => []OneActiveToken
  <1>1. Init => SerialInv
    <2>1. Init => PriorKnown /\ OneActiveToken
      BY DEF Init, PriorKnown, OneActiveToken, Active, Idle, Requests
    <2> QED
      BY <2>1, TypeInit, FloorsInit DEF SerialInv, IInv
  <1>2. SerialInv /\ [Next]_vars => SerialInv'
    BY PriorNext, TypeNext, FloorsNext DEF SerialInv, IInv
  <1>3. SerialInv => OneActiveToken
    BY DEF SerialInv
  <1> QED
    BY <1>1, <1>2, <1>3, PTL DEF Spec
-----------------------------------------------------------------------------
(* A revoked device is off the air once the requests are answered.         *)

\* A step of a request that finds and drops nobody yet.
LEMMA DropsFrame ==
  ASSUME DropsKnown, sess' = sess, registry' = registry, Active \subseteq Active',
         \A q \in Requests : req[q].pc \in {"connected", "disconnect"} => req'[q] = req[q]
  PROVE  DropsKnown'
  <1>1. \A c \in Conns : WillDrop(c) => WillDrop(c)'
    BY DEF WillDrop, Requests
  <1> QED
    BY <1>1 DEF DropsKnown

\* A step that closes sessions or marks them overtaken, if someone is left to drop each one.
LEMMA DropsKept ==
  ASSUME DropsKnown, TypeOK, registry' = registry, Active' = Active,
         \A c \in Conns :
           /\ sess'[c].pc = sess[c].pc /\ sess'[c].dev = sess[c].dev
           /\ sess'[c].prev = sess[c].prev
           /\ sess'[c].open => sess[c].open,
         \A c \in Conns : sess'[c].open /\ ~sess'[c].raced /\ sess[c].dev \notin Active
                           /\ (sess[c].pc = "add" \/ registry = c) => WillDrop(c)'
  PROVE  DropsKnown'
  <1>1. (registry # NoConn => sess[registry].pc \in {"displace", "serving"})'
    BY DEF DropsKnown, TypeOK
  <1>2. ASSUME NEW c \in Conns, sess'[c].open
        PROVE  sess[c].pc = "add" \/ registry = c \/ \E d \in Conns : sess'[d].prev = c
    BY <1>2 DEF DropsKnown
  <1>3. ASSUME NEW c \in Conns
        PROVE  /\ sess'[c].pc = "gone" => ~sess'[c].open
               /\ sess'[c].prev # NoConn => sess'[c].pc = "displace" /\ sess'[c].prev # c
    BY DEF DropsKnown
  <1> QED
    BY <1>1, <1>2, <1>3 DEF DropsKnown

LEMMA DropsNext == IInv /\ DropsKnown /\ [Next]_vars => DropsKnown'
  <1> SUFFICES ASSUME TypeOK, FloorsKept, DropsKnown, [Next]_vars PROVE DropsKnown'
    BY DEF IInv
  <1> USE ConstantsAssumption DEF Requests
  <1>t. /\ status \in [Devices -> {"unminted", "active", "revoked"}]
        /\ req \in [Requests -> RequestRecs] /\ sess \in [Conns -> SessionRecs]
        /\ registry \in Conns \cup {NoConn}
    BY DEF TypeOK
  <1>1. CASE LogEvent
    BY <1>1, DropsFrame DEF LogEvent, Active
  <1>2. CASE Crash
    BY <1>2 DEF Crash, DropsKnown, NoSession
  <1>3. ASSUME NEW m \in Minters, BeginMint(m) PROVE DropsKnown'
    <2>1. \A q \in Requests : req[q].pc # "idle" => req'[q] = req[q]
      BY <1>3, <1>t DEF BeginMint
    <2> QED
      BY <1>3, <2>1, DropsFrame DEF BeginMint, Active
  <1>4. ASSUME NEW m \in Minters, MintRevokesPrior(m) PROVE DropsKnown'
    <2>1. \A q \in Requests : req[q].pc # "revoke" => req'[q] = req[q]
      BY <1>4, <1>t DEF MintRevokesPrior, RevokePrior
    <2>2. status' = status
      BY <1>4, <1>t DEF MintRevokesPrior, RevokePrior
    <2> QED
      BY <1>4, <2>1, <2>2, DropsFrame DEF MintRevokesPrior, RevokePrior, Active
  <1>5. ASSUME NEW m \in Minters, MintReadsTail(m) PROVE DropsKnown'
    <2>1. \A q \in Requests : req[q].pc # "floor" => req'[q] = req[q]
      BY <1>5, <1>t DEF MintReadsTail, MintFloorsAt
    <2> QED
      BY <1>5, <2>1, DropsFrame DEF MintReadsTail, MintFloorsAt, Active
  <1>6. ASSUME NEW m \in Minters, MintCommits(m) PROVE DropsKnown'
    <2>1. req'[m].pc = "connected"
      BY <1>6, <1>t DEF MintCommits, CommitRevoking, Stores, RequestRecs
    <2>2. \A c \in Conns : WillDrop(c)'
      BY <2>1 DEF WillDrop
    <2> QED
      BY <1>6, <2>2 DEF MintCommits, CommitRevoking, Stores, DropsKnown
  <1>7. ASSUME NEW m \in Minters, MintFindsConnected(m) PROVE DropsKnown'
    <2>1. /\ \A q \in Requests : q # m => req'[q] = req[q]
          /\ req'[m].pc = "disconnect"
          /\ registry # NoConn => req'[m].old = sess[registry].dev
          /\ registry' = registry /\ Active' = Active
      BY <1>7, <1>t DEF MintFindsConnected, RequestRecs, Active
    <2>2. \A c \in Conns :
            /\ sess'[c].pc = sess[c].pc /\ sess'[c].dev = sess[c].dev
            /\ sess'[c].open = sess[c].open /\ sess'[c].prev = sess[c].prev
            /\ sess[c].raced => sess'[c].raced
            /\ sess[c].pc = "add" /\ sess[c].dev \notin Active => sess'[c].raced
      BY <1>7, <1>t DEF MintFindsConnected, Overtaken, SessionRecs
    <2>3. \A c \in Conns : registry = c => WillDrop(c)'
      BY <2>1, <2>2 DEF WillDrop
    <2> QED
      BY <2>1, <2>2, <2>3, DropsKept
  <1>8. ASSUME NEW m \in Minters, MintAnswers(m) PROVE DropsKnown'
    <2>1. /\ \A q \in Requests : q # m => req'[q] = req[q]
          /\ req[m].pc = "disconnect"
          /\ registry' = registry /\ Active' = Active
      BY <1>8, <1>t DEF MintAnswers, Active
    <2>2. \A c \in Conns :
            /\ sess'[c].pc = sess[c].pc /\ sess'[c].dev = sess[c].dev
            /\ sess'[c].prev = sess[c].prev /\ sess'[c].raced = sess[c].raced
            /\ sess'[c].open => sess[c].open
            /\ registry = c /\ sess[c].dev = req[m].old => ~sess'[c].open
      BY <1>8, <1>t DEF MintAnswers, DisconnectDevice, SessionRecs
    <2>3. ASSUME NEW c \in Conns, WillDrop(c), sess'[c].open PROVE WillDrop(c)'
      BY <2>1, <2>2, <2>3 DEF WillDrop
    <2>4. ASSUME NEW c \in Conns, sess'[c].open, ~sess'[c].raced, sess[c].dev \notin Active,
                 sess[c].pc = "add" \/ registry = c
          PROVE  WillDrop(c)'
      <3>1. WillDrop(c)
        BY <2>2, <2>4 DEF DropsKnown
      <3> QED
        BY <2>3, <2>4, <3>1
    <2> QED
      BY <2>1, <2>2, <2>4, DropsKept
  <1>9. ASSUME NEW m \in Minters, MintFails(m) PROVE DropsKnown'
    <2>1. \A q \in Requests : req[q].pc \in {"connected", "disconnect"} => req'[q] = req[q]
      BY <1>9, <1>t DEF MintFails
    <2> QED
      BY <1>9, <2>1, DropsFrame DEF MintFails, Active
  <1>10. ASSUME NEW r \in Revokers, RevokeChecks(r) PROVE DropsKnown'
    <2>1. \A q \in Requests : req[q].pc # "idle" => req'[q] = req[q]
      BY <1>10, <1>t DEF RevokeChecks
    <2> QED
      BY <1>10, <2>1, DropsFrame DEF RevokeChecks, Active
  <1>11. ASSUME NEW r \in Revokers, RevokeUpdates(r) PROVE DropsKnown'
    <2>1. /\ \A q \in Requests : q # r => req'[q] = req[q]
          /\ req[r].pc = "update" /\ req'[r].pc = "disconnect" /\ req'[r].dev = req[r].dev
          /\ registry' = registry /\ sess' = sess
      BY <1>11, <1>t DEF RevokeUpdates, Revokes, RequestRecs
    <2>2. \A d \in Active : d = req[r].dev \/ d \in Active'
      BY <1>11, <1>t DEF RevokeUpdates, Revokes, Active
    <2>3. ASSUME NEW c \in Conns, WillDrop(c) \/ sess[c].dev = req[r].dev PROVE WillDrop(c)'
      BY <2>1, <2>3 DEF WillDrop
    <2> QED
      BY <2>1, <2>2, <2>3 DEF DropsKnown
  <1>12. ASSUME NEW r \in Revokers, RevokeAnswers(r) PROVE DropsKnown'
    <2>1. /\ \A q \in Requests : q # r => req'[q] = req[q]
          /\ req[r].pc = "disconnect"
          /\ registry' = registry /\ Active' = Active
      BY <1>12, <1>t DEF RevokeAnswers, RevokeDropping, Active
    <2>2. \A c \in Conns :
            /\ sess'[c].pc = sess[c].pc /\ sess'[c].dev = sess[c].dev
            /\ sess'[c].prev = sess[c].prev
            /\ sess'[c].open => sess[c].open
            /\ sess[c].raced => sess'[c].raced
            /\ sess[c].pc = "add" /\ sess[c].dev \notin Active => sess'[c].raced
            /\ registry = c /\ sess[c].dev = req[r].dev => ~sess'[c].open
      BY <1>12, <1>t DEF RevokeAnswers, RevokeDropping, DisconnectDevice, Overtaken, SessionRecs
    <2>3. ASSUME NEW c \in Conns, WillDrop(c), registry = c, sess'[c].open PROVE WillDrop(c)'
      BY <2>1, <2>2, <2>3 DEF WillDrop
    <2>4. ASSUME NEW c \in Conns, sess'[c].open, ~sess'[c].raced, sess[c].dev \notin Active,
                 sess[c].pc = "add" \/ registry = c
          PROVE  WillDrop(c)'
      <3>1. WillDrop(c) /\ registry = c
        BY <2>2, <2>4 DEF DropsKnown
      <3> QED
        BY <2>3, <2>4, <3>1
    <2> QED
      BY <2>1, <2>2, <2>4, DropsKept
  \* The connections' own steps leave the requests, and so who is to be dropped, alone.
  <1>w. ASSUME req' = req, NEW c \in Conns, WillDrop(c), sess'[c].dev = sess[c].dev,
               registry = c => registry' = c
        PROVE  WillDrop(c)'
    BY <1>w DEF WillDrop
  <1>13. ASSUME NEW c \in Conns, Authenticate(c) PROVE DropsKnown'
    <2>1. PICK d \in handed \cap Active, hello \in 0..tail :
            sess' = [sess EXCEPT ![c] =
              [NoSession EXCEPT !.pc = "add", !.dev = d, !.open = TRUE,
                                !.since = IF startSeq[d] > hello THEN startSeq[d] ELSE hello]]
      BY <1>13 DEF Authenticate, Admit
    <2>2. /\ \A x \in Conns : x # c => sess'[x] = sess[x]
          /\ sess'[c].pc = "add" /\ sess'[c].dev \in Active /\ sess'[c].prev = NoConn
          /\ sess[c].pc = "gone" /\ registry # c /\ \A x \in Conns : sess[x].prev # c
          /\ registry' = registry /\ Active' = Active /\ req' = req
      BY <1>13, <2>1, <1>t DEF Authenticate, Admit, Fresh, NoSession, Active
    <2> QED
      BY <2>2, <1>w, <1>t DEF DropsKnown
  <1>14. ASSUME NEW c \in Conns, RegistryAdd(c) PROVE DropsKnown'
    <2>1. /\ \A x \in Conns : x # c => sess'[x] = sess[x]
          /\ sess[c].pc = "add" /\ sess'[c].pc = "displace" /\ sess'[c].prev = registry
          /\ sess'[c].dev = sess[c].dev /\ sess'[c].open = sess[c].open
          /\ sess'[c].raced = sess[c].raced
          /\ registry' = c /\ Active' = Active /\ req' = req
      BY <1>14, <1>t DEF RegistryAdd, SessionRecs, Active
    <2>2. ASSUME NEW x \in Conns, sess[x].open, x # c
          PROVE  sess[x].pc = "add" \/ \E d \in Conns : sess'[d].prev = x
      <3>1. CASE sess[x].pc = "add"
        BY <3>1
      <3>2. CASE registry = x
        BY <2>1, <3>2
      <3>3. ASSUME NEW d \in Conns, sess[d].prev = x PROVE \E e \in Conns : sess'[e].prev = x
        <4>1. d # c
          BY <2>1, <2>2, <3>3 DEF DropsKnown
        <4> QED
          BY <2>1, <3>3, <4>1
      <3> QED
        BY <2>2, <3>1, <3>2, <3>3 DEF DropsKnown
    <2> QED
      BY <2>1, <2>2, <1>w, <1>t DEF DropsKnown
  <1>15. ASSUME NEW c \in Conns, CloseDisplaced(c) PROVE DropsKnown'
    <2>1. /\ \A x \in Conns : /\ sess'[x].dev = sess[x].dev /\ sess'[x].raced = sess[x].raced
                              /\ x # c => sess'[x].pc = sess[x].pc /\ sess'[x].prev = sess[x].prev
                              /\ x # c => (sess'[x].open => sess[x].open /\ sess[c].prev # x)
          /\ sess[c].pc = "displace" /\ sess'[c].pc = "serving" /\ sess'[c].prev = NoConn
          /\ sess'[c].open = sess[c].open
          /\ registry' = registry /\ Active' = Active /\ req' = req
      BY <1>15, <1>t DEF CloseDisplaced, SessionRecs, Active
    <2>2. ASSUME NEW x \in Conns, sess'[x].open, sess[x].pc # "add", registry # x
          PROVE  \E d \in Conns : sess'[d].prev = x
      <3>1. PICK d \in Conns : sess[d].prev = x
        BY <2>1, <2>2 DEF DropsKnown
      <3>2. CASE d # c
        BY <2>1, <3>1, <3>2
      <3>3. CASE d = c
        <4>1. x = c
          BY <2>1, <2>2, <3>1, <3>3
        <4> QED
          BY <2>1, <2>2, <3>1, <3>3, <4>1 DEF DropsKnown
      <3> QED
        BY <3>2, <3>3
    <2>3. (registry # NoConn => sess[registry].pc \in {"displace", "serving"})'
      BY <2>1, <1>t DEF DropsKnown
    <2>4. ASSUME NEW x \in Conns
          PROVE  /\ sess'[x].pc = "gone" => ~sess'[x].open
                 /\ sess'[x].prev # NoConn => sess'[x].pc = "displace" /\ sess'[x].prev # x
                 /\ sess'[x].pc = "add" => sess[x].pc = "add"
      BY <2>1 DEF DropsKnown
    <2>5. ASSUME NEW x \in Conns, sess'[x].open, ~sess'[x].raced, sess'[x].dev \notin Active',
                 sess'[x].pc = "add" \/ registry = x
          PROVE  WillDrop(x)'
      <3>1. WillDrop(x)
        BY <2>1, <2>5 DEF DropsKnown
      <3> QED
        BY <2>1, <3>1, <1>w
    <2>6. ASSUME NEW x \in Conns, sess'[x].open
          PROVE  sess'[x].pc = "add" \/ registry' = x \/ \E d \in Conns : sess'[d].prev = x
      BY <2>1, <2>2, <2>6
    <2> QED
      BY <2>1, <2>3, <2>4, <2>5, <2>6 DEF DropsKnown
  <1>16. ASSUME NEW c \in Conns, Remove(c) PROVE DropsKnown'
    <2>1. /\ \A x \in Conns : x # c => sess'[x] = sess[x]
          /\ sess[c].pc = "serving" /\ sess'[c] = NoSession
          /\ registry' = IF registry = c THEN NoConn ELSE registry
          /\ Active' = Active /\ req' = req
      BY <1>16, <1>t DEF Remove, Active
    <2>2. sess[c].prev = NoConn
      BY <2>1 DEF DropsKnown
    <2> QED
      BY <2>1, <2>2, <1>w, <1>t DEF DropsKnown, NoSession
  <1>17. CASE UNCHANGED vars
    BY <1>17, DropsFrame DEF vars, Active
  \* A revocation answered with an error: its sessions are marked, and nobody else's drop is off.
  <1>u. ASSUME NEW gone, sess' = Missed(gone), registry' = registry,
               \A d \in Active : d \in gone \/ d \in Active',
               \A q \in Requests : req[q].pc \in {"connected", "disconnect"} => req'[q] = req[q]
        PROVE  DropsKnown'
    <2>1. \A c \in Conns :
            /\ sess'[c].pc = sess[c].pc /\ sess'[c].dev = sess[c].dev
            /\ sess'[c].prev = sess[c].prev /\ sess'[c].open = sess[c].open
            /\ ~sess'[c].raced => ~sess[c].raced /\ sess[c].dev \notin gone
      BY <1>u, <1>t DEF Missed, SessionRecs
    <2>2. ASSUME NEW c \in Conns, WillDrop(c) PROVE WillDrop(c)'
      BY <1>u, <2>1, <2>2 DEF WillDrop
    <2>3. (registry # NoConn => sess[registry].pc \in {"displace", "serving"})'
      BY <1>u, <1>t, <2>1 DEF DropsKnown
    <2>4. ASSUME NEW c \in Conns
          PROVE  /\ sess'[c].pc = "gone" => ~sess'[c].open
                 /\ sess'[c].prev # NoConn => sess'[c].pc = "displace" /\ sess'[c].prev # c
                 /\ sess'[c].open => sess'[c].pc = "add" \/ registry' = c
                                       \/ \E d \in Conns : sess'[d].prev = c
      BY <1>u, <2>1 DEF DropsKnown
    <2>5. ASSUME NEW c \in Conns, sess'[c].open, ~sess'[c].raced, sess'[c].dev \notin Active',
                 sess'[c].pc = "add" \/ registry' = c
          PROVE  WillDrop(c)'
      <3>1. sess[c].dev \notin Active
        BY <1>u, <2>1, <2>5
      <3>2. WillDrop(c)
        BY <1>u, <2>1, <2>5, <3>1 DEF DropsKnown
      <3> QED
        BY <2>2, <3>2
    <2> QED
      BY <2>3, <2>4, <2>5 DEF DropsKnown
  <1>18. ASSUME NEW m \in Minters, MintCommitsUnseen(m) PROVE DropsKnown'
    <2>1. /\ \A q \in Requests : q # m => req'[q] = req[q]
          /\ req[m].pc = "insert" /\ registry' = registry /\ sess' = Missed(req[m].locked)
      BY <1>18, <1>t DEF MintCommitsUnseen
    <2>2. \A d \in Active : d \in req[m].locked \/ d \in Active'
      BY <1>18, <1>t DEF MintCommitsUnseen, Stores, Active
    <2>3. \A q \in Requests : req[q].pc \in {"connected", "disconnect"} => req'[q] = req[q]
      BY <2>1
    <2> QED
      BY <2>1, <2>2, <2>3, <1>u
  <1>19. ASSUME NEW r \in Revokers, RevokesUnseen(r) PROVE DropsKnown'
    <2>1. /\ \A q \in Requests : q # r => req'[q] = req[q]
          /\ req[r].pc = "update" /\ registry' = registry /\ sess' = Missed({req[r].dev})
      BY <1>19, <1>t DEF RevokesUnseen, Revokes
    <2>2. \A d \in Active : d \in {req[r].dev} \/ d \in Active'
      BY <1>19, <1>t DEF RevokesUnseen, Revokes, Active
    <2>3. \A q \in Requests : req[q].pc \in {"connected", "disconnect"} => req'[q] = req[q]
      BY <2>1
    <2> QED
      BY <2>1, <2>2, <2>3, <1>u
  <1>20. ASSUME NEW r \in Revokers, RevokeFails(r) PROVE DropsKnown'
    <2>1. \A q \in Requests : req[q].pc \in {"connected", "disconnect"} => req'[q] = req[q]
      BY <1>20, <1>t DEF RevokeFails
    <2> QED
      BY <1>20, <2>1, DropsFrame DEF RevokeFails, Active
  <1> QED
    BY <1>1, <1>2, <1>3, <1>4, <1>5, <1>6, <1>7, <1>8, <1>9, <1>10, <1>11, <1>12, <1>13,
       <1>14, <1>15, <1>16, <1>17, <1>18, <1>19, <1>20 DEF Next

\* "a revoked or replaced device is dropped": for any number of mints at once, revocations and
\* handshakes, when every request has been answered no session of an inactive device is
\* open, but for a handshake that was past its lookup and not yet registered, and for the
\* sessions of a device whose revocation was written but answered with an error.
THEOREM RevokedDropped == Spec => []RevokedIsDropped
  <1>1. Init => DropInv
    <2>1. Init => DropsKnown
      BY DEF Init, DropsKnown, NoSession
    <2> QED
      BY <2>1, TypeInit, FloorsInit DEF DropInv, IInv
  <1>2. DropInv /\ [Next]_vars => DropInv'
    BY DropsNext, TypeNext, FloorsNext DEF DropInv, IInv
  <1>3. DropInv => RevokedIsDropped
    <2> SUFFICES ASSUME DropsKnown, Quiet, NEW c \in Conns, sess[c].open, ~sess[c].raced,
                        sess[c].dev \notin Active
                 PROVE  FALSE
      BY DEF DropInv, RevokedIsDropped
    <2>1. ~WillDrop(c)
      BY DEF Quiet, WillDrop, Requests
    <2>2. sess[c].pc # "add" /\ \A d \in Conns : sess[d].pc # "displace"
      BY DEF Quiet
    <2>3. \A d \in Conns : sess[d].prev # c
      BY <2>2, ConstantsAssumption DEF DropsKnown
    <2> QED
      BY <2>1, <2>2, <2>3 DEF DropsKnown
  <1> QED
    BY <1>1, <1>2, <1>3, PTL DEF Spec
-----------------------------------------------------------------------------
(* What a step may not do.                                                 *)

\* A streamer loses the last working token only by revoking it: a mint that revokes every
\* active device commits its own in the same transaction, and one that fails revokes none.
THEOREM OnlyRevoke == Spec => OnlyRevokeLeavesNone
  <1>1. IInv /\ [Next]_vars
          => [Active # {} /\ Active' = {} => \E r \in Revokers : req[r].pc = "update"]_vars
    <2> SUFFICES ASSUME TypeOK, FloorsKept, Next, Active # {}, Active' = {}
                 PROVE  \E r \in Revokers : req[r].pc = "update"
      BY DEF IInv
    <2>0. status' # status
      BY DEF Active
    <2>1. ASSUME NEW m \in Minters PROVE ~MintCommits(m) /\ ~MintCommitsUnseen(m)
      <3>1. SUFFICES ASSUME MintCommits(m) \/ MintCommitsUnseen(m) PROVE FALSE
        OBVIOUS
      <3>2. req[m].dev \in Devices
        BY <3>1 DEF MintCommits, CommitRevoking, MintCommitsUnseen, FloorsKept, Requests
      <3>3. req[m].dev \in Active'
        BY <3>1, <3>2 DEF MintCommits, CommitRevoking, MintCommitsUnseen, Stores, Active
      <3> QED
        BY <3>3
    <2>2. ASSUME NEW m \in Minters PROVE ~MintRevokesPrior(m)
      BY <2>0 DEF MintRevokesPrior, RevokePrior, TypeOK
    <2>3. ASSUME NEW m \in Minters
          PROVE  ~BeginMint(m) /\ ~MintReadsTail(m) /\ ~MintFindsConnected(m) /\ ~MintAnswers(m)
                 /\ ~MintFails(m)
      BY <2>0 DEF BeginMint, MintReadsTail, MintFloorsAt, MintFindsConnected, MintAnswers, MintFails
    <2>4. ASSUME NEW c \in Conns
          PROVE  ~Authenticate(c) /\ ~RegistryAdd(c) /\ ~CloseDisplaced(c) /\ ~Remove(c)
      BY <2>0 DEF Authenticate, Admit, RegistryAdd, CloseDisplaced, Remove
    <2>5. ASSUME NEW r \in Revokers PROVE ~RevokeChecks(r) /\ ~RevokeAnswers(r) /\ ~RevokeFails(r)
      BY <2>0 DEF RevokeChecks, RevokeAnswers, RevokeDropping, RevokeFails
    <2>6. ~LogEvent /\ ~Crash
      BY <2>0 DEF LogEvent, Crash
    <2> QED
      BY <2>1, <2>2, <2>3, <2>4, <2>5, <2>6 DEF Next, RevokeUpdates, RevokesUnseen, Revokes
  <1>2. Init => IInv
    BY TypeInit, FloorsInit DEF IInv
  <1>3. IInv /\ [Next]_vars => IInv'
    BY TypeNext, FloorsNext DEF IInv
  <1> QED
    BY <1>1, <1>2, <1>3, PTL DEF Spec, OnlyRevokeLeavesNone

\* A step that leaves the requests alone, except for what they give up or finish.
LEMMA RevokedFrame ==
  ASSUME RevokedKnown, status' = status, handed' = handed,
         \A q \in Requests : req'[q] = req[q] \/ req'[q].pc = "idle",
         \A c \in Conns : sess'[c].pc # "gone" =>
           (sess[c].pc # "gone" /\ sess'[c].dev = sess[c].dev) \/ sess'[c].dev \in handed
  PROVE  RevokedKnown'
  <1>1. Active' = Active
    BY DEF Active
  <1> QED
    BY <1>1 DEF RevokedKnown, Requests

LEMMA RevokedNext ==
  ASSUME SerialMints
  PROVE  ValidInv /\ [Next]_vars => RevokedKnown'
  <1> SUFFICES ASSUME TypeOK, FloorsKept, PriorKnown, DropsKnown, RevokedKnown, [Next]_vars
               PROVE  RevokedKnown'
    BY DEF ValidInv, SerialInv, IInv
  <1> USE ConstantsAssumption DEF Requests
  <1>t. /\ status \in [Devices -> {"unminted", "active", "revoked"}]
        /\ req \in [Requests -> RequestRecs] /\ sess \in [Conns -> SessionRecs]
        /\ registry \in Conns \cup {NoConn}
    BY DEF TypeOK
  <1>1. CASE LogEvent
    BY <1>1, RevokedFrame DEF LogEvent
  <1>2. CASE Crash
    BY <1>2, RevokedFrame DEF Crash, Idle, NoSession
  <1>3. ASSUME NEW m \in Minters, BeginMint(m) PROVE RevokedKnown'
    <2>1. PICK d \in Devices :
            /\ status[d] = "unminted"
            /\ req' = [req EXCEPT ![m] = [Idle EXCEPT !.pc = "revoke", !.dev = d, !.seen = Active]]
      BY <1>3 DEF BeginMint
    <2>2. req'[m].pc = "revoke" /\ req'[m].dev = d /\ \A r \in Revokers : req'[r] = req[r]
      BY <1>t, <2>1 DEF Idle
    <2>3. \A n \in Minters : n = m
      BY DEF SerialMints
    <2> QED
      BY <1>3, <2>1, <2>2, <2>3 DEF BeginMint, RevokedKnown, Active
  <1>4. ASSUME NEW m \in Minters, MintRevokesPrior(m) \/ MintReadsTail(m) PROVE RevokedKnown'
    <2>1. /\ req[m].pc \in {"revoke", "floor"} /\ req'[m].pc \in {"floor", "insert"}
          /\ req'[m].dev = req[m].dev /\ \A r \in Revokers : req'[r] = req[r]
      <3>1. m \notin Revokers /\ req[m] \in RequestRecs
        BY <1>t
      <3>2. CASE MintRevokesPrior(m)
        BY <1>t, <3>1, <3>2 DEF MintRevokesPrior, RevokePrior, RequestRecs
      <3>3. CASE MintReadsTail(m)
        BY <1>t, <3>1, <3>3 DEF MintReadsTail, MintFloorsAt, RequestRecs
      <3> QED
        BY <1>4, <3>2, <3>3
    <2>2. status' = status
      BY <1>4, <1>t DEF MintRevokesPrior, RevokePrior, MintReadsTail, MintFloorsAt
    <2>3. \A n \in Minters : n = m
      BY DEF SerialMints
    <2>4. sess' = sess /\ handed' = handed
      BY <1>4 DEF MintRevokesPrior, RevokePrior, MintReadsTail, MintFloorsAt
    <2> QED
      BY <2>1, <2>2, <2>3, <2>4 DEF RevokedKnown, Active
  <1>5. ASSUME NEW m \in Minters, MintCommits(m) PROVE RevokedKnown'
    <2>1. /\ req[m].pc = "insert" /\ req'[m].pc = "connected" /\ req'[m].dev = req[m].dev
          /\ \A r \in Revokers : req'[r] = req[r]
          /\ sess' = sess /\ handed' = handed
      BY <1>5, <1>t DEF MintCommits, CommitRevoking, Stores, RequestRecs
    <2>2. \A n \in Minters : n = m
      BY DEF SerialMints
    <2>3. status[req[m].dev] = "unminted" /\ Active \subseteq req[m].locked
      BY <2>1 DEF RevokedKnown, PriorKnown
    <2>4. Active' \subseteq {req[m].dev}
      BY <1>5, <2>3 DEF MintCommits, CommitRevoking, Stores, Active
    <2>5. req[m].dev \notin handed
      BY <2>3 DEF FloorsKept
    <2>6. ASSUME NEW r \in Revokers, req[r].pc = "disconnect" PROVE req[r].dev \notin Active'
      BY <2>3, <2>4, <2>6 DEF FloorsKept
    <2> QED
      BY <2>1, <2>2, <2>4, <2>5, <2>6 DEF RevokedKnown
  <1>6. ASSUME NEW m \in Minters, MintFindsConnected(m) PROVE RevokedKnown'
    <2>1. /\ req[m].pc = "connected" /\ req'[m].pc = "disconnect" /\ req'[m].dev = req[m].dev
          /\ req'[m].old = (IF registry = NoConn THEN NoDevice ELSE sess[registry].dev)
          /\ \A r \in Revokers : req'[r] = req[r]
          /\ status' = status /\ handed' = handed
      BY <1>6, <1>t DEF MintFindsConnected, RequestRecs
    <2>2. \A n \in Minters : n = m
      BY DEF SerialMints
    <2>3. Active' = Active /\ Active \subseteq Devices
      BY <2>1 DEF Active
    <2>4. req[m].dev \notin handed /\ Active \subseteq {req[m].dev}
      BY <2>1 DEF RevokedKnown
    <2>5. req'[m].old \notin Active
      <3>1. CASE registry = NoConn
        BY <2>1, <2>3, <3>1
      <3>2. CASE registry \in Conns /\ registry # NoConn
        <4>1. sess[registry].dev \in handed
          BY <3>2 DEF DropsKnown, RevokedKnown
        <4> QED
          BY <2>1, <2>4, <3>2, <4>1
      <3> QED
        BY <1>t, <3>1, <3>2
    <2>6. \A c \in Conns : sess'[c].pc = sess[c].pc /\ sess'[c].dev = sess[c].dev
      BY <1>6, <1>t DEF MintFindsConnected, Overtaken, SessionRecs
    <2> QED
      BY <2>1, <2>2, <2>3, <2>4, <2>5, <2>6 DEF RevokedKnown
  <1>7. ASSUME NEW m \in Minters, MintAnswers(m) PROVE RevokedKnown'
    <2>1. /\ req'[m].pc = "idle" /\ \A r \in Revokers : req'[r] = req[r]
          /\ status' = status /\ handed \subseteq handed'
      BY <1>7, <1>t DEF MintAnswers, Idle
    <2>2. \A n \in Minters : n = m
      BY DEF SerialMints
    <2>3. \A c \in Conns : sess'[c].pc = sess[c].pc /\ sess'[c].dev = sess[c].dev
      BY <1>7, <1>t DEF MintAnswers, DisconnectDevice, SessionRecs
    <2> QED
      BY <2>1, <2>2, <2>3 DEF RevokedKnown, Active
  <1>8. ASSUME NEW m \in Minters, MintFails(m) PROVE RevokedKnown'
    BY <1>8, <1>t, RevokedFrame DEF MintFails, Idle
  <1>9. ASSUME NEW r \in Revokers, RevokeChecks(r) PROVE RevokedKnown'
    <2>1. PICK d \in Active : req' = [req EXCEPT ![r] = [Idle EXCEPT !.pc = "update", !.dev = d]]
      BY <1>9 DEF RevokeChecks
    <2>2. req'[r].pc = "update" /\ \A q \in Requests : q # r => req'[q] = req[q]
      BY <1>t, <2>1 DEF Idle
    <2>3. \A m \in Minters : req'[m] = req[m]
      BY <2>2
    <2> QED
      BY <1>9, <2>2, <2>3 DEF RevokeChecks, RevokedKnown, Active
  <1>10. ASSUME NEW r \in Revokers, RevokeUpdates(r) PROVE RevokedKnown'
    <2>1. /\ req[r].pc = "update" /\ req'[r].pc = "disconnect" /\ req'[r].dev = req[r].dev
          /\ \A q \in Requests : q # r => req'[q] = req[q]
          /\ status' = [status EXCEPT ![req[r].dev] = "revoked"]
          /\ sess' = sess /\ handed' = handed
      BY <1>10, <1>t DEF RevokeUpdates, Revokes, RequestRecs
    <2>2. req[r].dev \in Devices /\ status[req[r].dev] # "unminted"
      BY <2>1 DEF FloorsKept
    <2>3. \A m \in Minters : req'[m] = req[m]
      BY <2>1
    <2>4. Active' \subseteq Active /\ req[r].dev \notin Active'
      BY <1>t, <2>1, <2>2 DEF Active
    <2>5. \A d \in Devices : status[d] = "unminted" => status'[d] = "unminted"
      BY <1>t, <2>1, <2>2
    <2>6. ASSUME NEW m \in Minters, req[m].pc \in {"revoke", "floor", "insert"}
          PROVE  status'[req[m].dev] = "unminted"
      BY <2>5, <2>6 DEF RevokedKnown, FloorsKept
    <2> QED
      BY <2>1, <2>3, <2>4, <2>6 DEF RevokedKnown
  <1>11. ASSUME NEW r \in Revokers, RevokeAnswers(r) PROVE RevokedKnown'
    <2>1. \A c \in Conns : sess'[c].pc = sess[c].pc /\ sess'[c].dev = sess[c].dev
      BY <1>11, <1>t DEF RevokeAnswers, RevokeDropping, DisconnectDevice, Overtaken, SessionRecs
    <2>2. \A q \in Requests : req'[q] = req[q] \/ req'[q].pc = "idle"
      BY <1>11, <1>t DEF RevokeAnswers, RevokeDropping, Idle
    <2> QED
      BY <1>11, <2>1, <2>2, RevokedFrame DEF RevokeAnswers, RevokeDropping
  <1>12. ASSUME NEW c \in Conns, Authenticate(c) PROVE RevokedKnown'
    <2>1. PICK d \in handed \cap Active, hello \in 0..tail :
            sess' = [sess EXCEPT ![c] =
              [NoSession EXCEPT !.pc = "add", !.dev = d, !.open = TRUE,
                                !.since = IF startSeq[d] > hello THEN startSeq[d] ELSE hello]]
      BY <1>12 DEF Authenticate, Admit
    <2>2. sess'[c].dev \in handed /\ \A x \in Conns : x # c => sess'[x] = sess[x]
      BY <1>t, <2>1 DEF NoSession
    <2>3. \A x \in Conns : sess'[x].pc # "gone" =>
            (sess[x].pc # "gone" /\ sess'[x].dev = sess[x].dev) \/ sess'[x].dev \in handed
      BY <2>2
    <2> QED
      BY <1>12, <2>3, RevokedFrame DEF Authenticate, Admit
  <1>13. ASSUME NEW c \in Conns, RegistryAdd(c) \/ CloseDisplaced(c) \/ Remove(c)
         PROVE  RevokedKnown'
    <2>1. \A x \in Conns : sess'[x].pc # "gone" =>
            sess[x].pc # "gone" /\ sess'[x].dev = sess[x].dev
      <3>1. CASE RegistryAdd(c)
        BY <1>t, <3>1 DEF RegistryAdd, SessionRecs
      <3>2. CASE CloseDisplaced(c)
        BY <1>t, <3>2 DEF CloseDisplaced, SessionRecs
      <3>3. CASE Remove(c)
        BY <1>t, <3>3 DEF Remove, NoSession
      <3> QED
        BY <1>13, <3>1, <3>2, <3>3
    <2>2. UNCHANGED <<status, handed, req>>
      BY <1>13 DEF RegistryAdd, CloseDisplaced, Remove
    <2> QED
      BY <2>1, <2>2, RevokedFrame
  <1>14. CASE UNCHANGED vars
    BY <1>14, RevokedFrame DEF vars
  <1>15. ASSUME NEW m \in Minters, MintCommitsUnseen(m) PROVE RevokedKnown'
    <2>1. /\ req[m].pc = "insert" /\ req'[m].pc = "idle" /\ handed' = handed
          /\ \A r \in Revokers : req'[r] = req[r]
      BY <1>15, <1>t DEF MintCommitsUnseen, Idle
    <2>2. \A n \in Minters : n = m
      BY DEF SerialMints
    <2>3. status[req[m].dev] = "unminted" /\ Active \subseteq req[m].locked
      BY <2>1 DEF RevokedKnown, PriorKnown
    <2>4. Active' \subseteq {req[m].dev}
      BY <1>15, <2>3 DEF MintCommitsUnseen, Stores, Active
    <2>5. ASSUME NEW r \in Revokers, req[r].pc = "disconnect" PROVE req[r].dev \notin Active'
      BY <2>3, <2>4, <2>5 DEF FloorsKept
    <2>6. \A c \in Conns : sess'[c].pc = sess[c].pc /\ sess'[c].dev = sess[c].dev
      BY <1>15, <1>t DEF MintCommitsUnseen, Missed, SessionRecs
    <2> QED
      BY <2>1, <2>2, <2>5, <2>6 DEF RevokedKnown
  <1>16. ASSUME NEW r \in Revokers, RevokesUnseen(r) PROVE RevokedKnown'
    <2>1. /\ req[r].pc = "update" /\ req'[r].pc = "idle"
          /\ \A q \in Requests : q # r => req'[q] = req[q]
          /\ status' = [status EXCEPT ![req[r].dev] = "revoked"] /\ handed' = handed
      BY <1>16, <1>t DEF RevokesUnseen, Revokes, Idle
    <2>2. req[r].dev \in Devices /\ status[req[r].dev] # "unminted"
      BY <2>1 DEF FloorsKept
    <2>3. \A m \in Minters : req'[m] = req[m]
      BY <2>1
    <2>4. Active' \subseteq Active
      BY <1>t, <2>1, <2>2 DEF Active
    <2>5. ASSUME NEW m \in Minters, req[m].pc \in {"revoke", "floor", "insert"}
          PROVE  status'[req[m].dev] = "unminted"
      BY <1>t, <2>1, <2>2, <2>5 DEF RevokedKnown, FloorsKept
    <2>6. \A c \in Conns : sess'[c].pc = sess[c].pc /\ sess'[c].dev = sess[c].dev
      BY <1>16, <1>t DEF RevokesUnseen, Missed, SessionRecs
    <2> QED
      BY <2>1, <2>3, <2>4, <2>5, <2>6 DEF RevokedKnown
  <1>17. ASSUME NEW r \in Revokers, RevokeFails(r) PROVE RevokedKnown'
    BY <1>17, <1>t, RevokedFrame DEF RevokeFails, Idle
  <1> QED
    BY <1>1, <1>2, <1>3, <1>4, <1>5, <1>6, <1>7, <1>8, <1>9, <1>10, <1>11, <1>12, <1>13,
       <1>14, <1>15, <1>16, <1>17 DEF Next

\* "a different, still-valid device of the same user keeps its connection": while mints do not
\* overlap, minting and revoking close no session of an active device, whichever device they
\* found attached and whoever has connected or revoked since.
THEOREM ValidDeviceKept ==
  ASSUME SerialMints
  PROVE  Spec => ValidDeviceKeepsConnection
  <1>1. Init => ValidInv
    <2>1. Init => PriorKnown /\ OneActiveToken
      BY DEF Init, PriorKnown, OneActiveToken, Active, Idle, Requests
    <2>2. Init => DropsKnown /\ RevokedKnown
      BY DEF Init, DropsKnown, RevokedKnown, NoSession, Idle, Requests
    <2> QED
      BY <2>1, <2>2, TypeInit, FloorsInit DEF ValidInv, SerialInv, IInv
  <1>2. ValidInv /\ [Next]_vars => ValidInv'
    <2>1. ValidInv /\ [Next]_vars => SerialInv'
      BY PriorNext, TypeNext, FloorsNext DEF ValidInv, SerialInv, IInv
    <2>2. ValidInv /\ [Next]_vars => DropsKnown'
      BY DropsNext DEF ValidInv, SerialInv
    <2> QED
      BY <2>1, <2>2, RevokedNext DEF ValidInv
  <1>3. ValidInv /\ [Next]_vars
          => [\A c \in Conns : sess[c].open /\ ~sess'[c].open /\ sess'[c].pc # "gone"
                => sess[c].dev \notin Active \/ \E d \in Conns : sess[d].prev = c]_vars
    <2> SUFFICES ASSUME TypeOK, RevokedKnown, Next, NEW c \in Conns,
                        sess[c].open, ~sess'[c].open, sess'[c].pc # "gone"
                 PROVE  sess[c].dev \notin Active \/ \E d \in Conns : sess[d].prev = c
      BY DEF ValidInv, SerialInv, IInv
    <2>t. sess \in [Conns -> SessionRecs]
      BY DEF TypeOK
    <2>0. sess' # sess
      OBVIOUS
    <2>1. ~LogEvent /\ ~Crash
      BY <2>0 DEF LogEvent, Crash, NoSession
    <2>2. ASSUME NEW m \in Minters
          PROVE  ~BeginMint(m) /\ ~MintRevokesPrior(m) /\ ~MintReadsTail(m) /\ ~MintCommits(m)
                 /\ ~MintFails(m)
      BY <2>0 DEF BeginMint, MintRevokesPrior, RevokePrior, MintReadsTail, MintFloorsAt,
                  MintCommits, CommitRevoking, Stores, MintFails
    <2>3. ASSUME NEW m \in Minters PROVE ~MintFindsConnected(m) /\ ~MintCommitsUnseen(m)
      BY <2>t DEF MintFindsConnected, Overtaken, MintCommitsUnseen, Missed, SessionRecs
    <2>4. ASSUME NEW r \in Revokers PROVE ~RevokeChecks(r) /\ ~RevokeUpdates(r) /\ ~RevokeFails(r)
      BY <2>0 DEF RevokeChecks, RevokeUpdates, RevokeFails
    <2>u. ASSUME NEW r \in Revokers PROVE ~RevokesUnseen(r)
      BY <2>t DEF RevokesUnseen, Missed, SessionRecs
    <2>5. ASSUME NEW x \in Conns PROVE ~Authenticate(x)
      <3>1. SUFFICES ASSUME Authenticate(x) PROVE FALSE
        OBVIOUS
      <3>2. PICK d \in handed \cap Active, hello \in 0..tail :
              sess' = [sess EXCEPT ![x] =
                [NoSession EXCEPT !.pc = "add", !.dev = d, !.open = TRUE,
                                  !.since = IF startSeq[d] > hello THEN startSeq[d] ELSE hello]]
        BY <3>1 DEF Authenticate, Admit
      <3>3. sess'[x].open /\ \A y \in Conns : y # x => sess'[y] = sess[y]
        BY <2>t, <3>2 DEF NoSession
      <3> QED
        BY <3>3
    <2>6. ASSUME NEW x \in Conns PROVE ~RegistryAdd(x) /\ ~Remove(x)
      <3>1. sess[x] \in SessionRecs
        BY <2>t
      <3>2. RegistryAdd(x) => \A y \in Conns : sess'[y].open = sess[y].open
        BY <2>t, <3>1 DEF RegistryAdd, SessionRecs
      <3>3. Remove(x) => sess'[x].pc = "gone" /\ \A y \in Conns : y # x => sess'[y] = sess[y]
        BY <2>t DEF Remove, NoSession
      <3> QED
        BY <2>t, <3>2, <3>3 DEF Remove
    <2>7. ASSUME NEW m \in Minters, MintAnswers(m) PROVE sess[c].dev \notin Active
      <3>1. sess[c].dev = req[m].old /\ req[m].pc = "disconnect"
        BY <2>t, <2>7 DEF MintAnswers, DisconnectDevice
      <3> QED
        BY <3>1 DEF RevokedKnown
    <2>8. ASSUME NEW r \in Revokers, RevokeAnswers(r) PROVE sess[c].dev \notin Active
      <3>1. sess[c].dev = req[r].dev /\ req[r].pc = "disconnect"
        BY <2>t, <2>8 DEF RevokeAnswers, RevokeDropping, DisconnectDevice, Overtaken, SessionRecs
      <3> QED
        BY <3>1 DEF RevokedKnown
    <2>9. ASSUME NEW x \in Conns, CloseDisplaced(x) PROVE sess[x].prev = c
      BY <2>t, <2>9 DEF CloseDisplaced, SessionRecs
    <2> QED
      BY <2>1, <2>2, <2>3, <2>4, <2>u, <2>5, <2>6, <2>7, <2>8, <2>9 DEF Next
  <1> QED
    BY <1>1, <1>2, <1>3, PTL DEF Spec, ValidDeviceKeepsConnection
=============================================================================
