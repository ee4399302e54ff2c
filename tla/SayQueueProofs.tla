--------------------------- MODULE SayQueueProofs ---------------------------
(***************************************************************************)
(* For any goroutines, capacity, interval and bounds: what Twitch posts is *)
(* in order and posted once, a promo never sends a backlog, and the newest *)
(* refresh token is kept.                                                  *)
(***************************************************************************)
EXTENDS SayQueue, TLAPS

LEMMA InitIInv == Init => IInv
  <1> SUFFICES ASSUME Init PROVE IInv
    OBVIOUS
  <1> USE ConstantsAssumption DEF Init, NoScan, Nobody, Users
  <1>1. ChannelOK
    BY DEF ChannelOK, Requests
  <1>d. DoingOK
    BY DEF DoingOK
  <1>r. RefresherOK
    BY DEF RefresherOK
  <1>c. ClockOK
    BY DEF ClockOK
  <1>2. InOrder /\ WaitsOnce /\ Paced
    BY DEF InOrder, WaitsOnce, Paced, Blocked
  <1>3. Rotation
    BY DEF Rotation
  <1> QED
    BY <1>1, <1>d, <1>r, <1>c, <1>2, <1>3 DEF IInv, TypeOK

\* A send keeps the numbering and the line of the waiting.
LEMMA SendKeepsOrder ==
  ASSUME IInv, NEW who \in Callers \cup {Promo}, NEW what \in {"chat", "announcement"},
         Send(who, what), UNCHANGED <<doing, sending>>
  PROVE  /\ InOrder' /\ asked' \in 0..MaxSays
         /\ queue' \in Seq(Requests) /\ Len(queue') <= Capacity
         /\ waiting' \in Seq([who : Callers \cup {Promo}, r : Requests])
  <1> DEFINE r == [n |-> asked + 1, what |-> what]
  <1>t. /\ queue \in Seq(Requests) /\ waiting \in Seq([who : Callers \cup {Promo}, r : Requests])
        /\ req.n \in Nat /\ asked \in 0..MaxSays
    BY DEF IInv, TypeOK, ChannelOK, Requests
  <1>n. req.n \in Nat
    BY <1>t
  <1>l. /\ Len(queue) \in Nat /\ Len(waiting) \in Nat /\ Capacity \in Nat /\ MaxSays \in Nat
        /\ Len(queue) <= Capacity /\ asked = req.n + Len(queue) + Len(waiting)
    BY <1>t, ConstantsAssumption DEF IInv, TypeOK, ChannelOK, InOrder
  <1>o. /\ \A i \in DOMAIN queue : queue[i].n = req.n + i
        /\ \A i \in DOMAIN waiting : waiting[i].r.n = req.n + Len(queue) + i
        /\ waiting # << >> => Len(queue) = Capacity
        /\ posted.n <= req.n /\ (doing["sender"] # "idle" => posted.n < req.n)
        /\ req' = req /\ posted' = posted /\ doing' = doing
    BY DEF IInv, InOrder, sending
  <1>1. r \in Requests /\ r.n = asked + 1 /\ asked' = asked + 1 /\ asked' \in 0..MaxSays
    BY <1>t, <1>l DEF Send, SendIf, Requests
  <1>2. CASE Len(queue) < Capacity
    <2>1. queue' = Append(queue, r) /\ waiting' = waiting
      BY <1>2 DEF Send, SendIf
    <2>2. waiting = << >> /\ Len(waiting) = 0
      BY <1>2, <1>o, <1>l
    <2>3. queue' \in Seq(Requests) /\ Len(queue') = Len(queue) + 1
      BY <1>1, <1>t, <2>1
    <2>4. \A i \in DOMAIN queue' : queue'[i].n = req.n + i
      <3> SUFFICES ASSUME NEW i \in DOMAIN queue' PROVE queue'[i].n = req.n + i
        OBVIOUS
      <3>1. i \in 1..Len(queue) \/ i = Len(queue) + 1
        BY <2>3, <1>l
      <3>2. CASE i \in 1..Len(queue)
        BY <3>2, <2>1, <1>t, <1>o
      <3>3. CASE i = Len(queue) + 1
        <4>1. queue'[i] = r
          BY <3>3, <2>1, <1>t
        <4> QED
          BY <4>1, <3>3, <2>2, <1>1, <1>l, <1>t
      <3> QED
        BY <3>1, <3>2, <3>3
    <2>5. InOrder'
      BY <1>1, <1>l, <1>o, <1>t, <2>1, <2>2, <2>3, <2>4 DEF InOrder
    <2> QED
      BY <1>1, <1>2, <1>l, <1>t, <2>1, <2>3, <2>5
  <1>3. CASE ~(Len(queue) < Capacity)
    <2>1. waiting' = Append(waiting, [who |-> who, r |-> r]) /\ queue' = queue
      BY <1>3 DEF Send, SendIf
    <2>2. [who |-> who, r |-> r] \in [who : Callers \cup {Promo}, r : Requests]
      BY <1>1
    <2>3. waiting' \in Seq([who : Callers \cup {Promo}, r : Requests])
      BY <2>1, <2>2, <1>t
    <2>n. Len(waiting') = Len(waiting) + 1
      BY <2>1, <2>2, <1>t
    <2>4. \A i \in DOMAIN waiting' : waiting'[i].r.n = req.n + Len(queue) + i
      <3> SUFFICES ASSUME NEW i \in DOMAIN waiting'
                   PROVE  waiting'[i].r.n = req.n + Len(queue) + i
        OBVIOUS
      <3>1. i \in 1..Len(waiting) \/ i = Len(waiting) + 1
        BY <2>3, <2>n, <1>l
      <3>2. CASE i \in 1..Len(waiting)
        BY <3>2, <2>1, <1>t, <1>o
      <3>3. CASE i = Len(waiting) + 1
        <4>1. waiting'[i] = [who |-> who, r |-> r]
          BY <3>3, <2>1, <1>t
        <4>2. waiting'[i].r = r /\ r.n = asked + 1
          BY <4>1, <1>1
        <4> QED
          <5>1. waiting'[i].r.n = asked + 1 /\ asked = req.n + Len(queue) + Len(waiting)
            BY <4>2, <1>l
          <5>2. Len(queue) \in Nat /\ Len(waiting) \in Nat
            BY <1>l
          <5> QED
            BY ONLY <5>1, <5>2, <3>3, <1>n
      <3> QED
        BY <3>1, <3>2, <3>3
    <2>5. Len(queue) = Capacity
      BY <1>3, <1>l
    <2>m. asked' = req.n + Len(queue) + Len(waiting')
      <3>1. asked' = asked + 1 /\ asked = req.n + Len(queue) + Len(waiting)
        BY <1>1, <1>l
      <3>2. Len(queue) \in Nat /\ Len(waiting) \in Nat
        BY <1>l
      <3> QED
        BY ONLY <3>1, <3>2, <1>n, <2>n
    <2>6. InOrder'
      BY <1>o, <2>1, <2>4, <2>5, <2>m DEF InOrder
    <2> QED
      BY <1>1, <1>l, <1>t, <2>1, <2>3, <2>6
  <1> QED
    BY <1>2, <1>3

\* Taking a request keeps the numbering: the first of the line comes right after the buffer.
LEMMA TakeKeepsOrder ==
  ASSUME IInv, Take
  PROVE  /\ InOrder' /\ req' \in Requests
         /\ queue' \in Seq(Requests) /\ Len(queue') <= Capacity
         /\ waiting' \in Seq([who : Callers \cup {Promo}, r : Requests])
  <1> DEFINE W == [who : Callers \cup {Promo}, r : Requests]
  <1>t. queue \in Seq(Requests) /\ waiting \in Seq(W) /\ req.n \in Nat /\ queue # << >>
    BY DEF IInv, TypeOK, ChannelOK, Requests, Take
  <1>n. /\ req.n \in Nat /\ Len(queue) \in Nat \ {0} /\ Len(waiting) \in Nat
        /\ Capacity \in Nat /\ Len(queue) <= Capacity
        /\ asked = req.n + Len(queue) + Len(waiting)
    BY <1>t, ConstantsAssumption DEF IInv, TypeOK, ChannelOK, InOrder
  <1>o. /\ \A i \in 1..Len(queue) : queue[i].n = req.n + i
        /\ \A i \in 1..Len(waiting) : waiting[i].r.n = req.n + Len(queue) + i
        /\ waiting # << >> => Len(queue) = Capacity
        /\ posted.n <= req.n /\ posted.n \in Nat
    BY <1>t DEF IInv, TypeOK, ChannelOK, InOrder
  <1>1. /\ req' = queue[1] /\ posted' = posted /\ asked' = asked
        /\ req' \in Requests /\ req'.n = req.n + 1
    <2>1. req' = Head(queue) /\ posted' = posted /\ asked' = asked
      BY DEF Take
    <2>2. queue \in Seq(Requests) /\ Len(queue) \in Nat \ {0} /\ 1 \in 1..Len(queue)
      BY <1>t, <1>n
    <2>3. Head(queue) = queue[1] /\ queue[1] \in Requests
      BY ONLY <2>2
    <2>4. queue[1].n = req.n + 1
      BY <2>2, <1>o
    <2> QED
      BY ONLY <2>1, <2>3, <2>4
  <1>a. req'.n = req.n + 1 /\ req.n \in Nat
    BY <1>1, <1>n
  <1>p. posted'.n < req'.n
    BY <1>1, <1>o, <1>n
  <1>2. CASE waiting = << >>
    <2>1. queue' = Tail(queue) /\ waiting' = << >> /\ Len(waiting) = 0
      BY <1>2 DEF Take
    <2>2. queue' \in Seq(Requests) /\ Len(queue') = Len(queue) - 1
      BY <1>t, <1>n, <2>1
    <2>3. \A i \in 1..Len(queue') : queue'[i].n = req'.n + i
      <3> SUFFICES ASSUME NEW i \in 1..Len(queue') PROVE queue'[i].n = req'.n + i
        OBVIOUS
      <3>1. queue'[i] = queue[i + 1] /\ i + 1 \in 1..Len(queue)
        BY <1>t, <1>n, <2>1, <2>2
      <3>2. queue[i + 1].n = req.n + (i + 1)
        BY <3>1, <1>o
      <3>3. i \in Nat
        BY <2>2, <1>n
      <3> QED
        BY ONLY <3>1, <3>2, <3>3, <1>a
    <2>4. asked' = req'.n + Len(queue') + Len(waiting')
      BY <1>1, <1>n, <2>1, <2>2
    <2>5. InOrder'
      BY <2>1, <2>2, <2>3, <2>4, <1>1, <1>o, <1>n DEF InOrder
    <2> QED
      BY <1>1, <1>n, <2>1, <2>2, <2>5
  <1>3. CASE waiting # << >>
    <2>1. queue' = Append(Tail(queue), waiting[1].r) /\ waiting' = Tail(waiting)
      BY <1>3, <1>t DEF Take
    <2>2. waiting[1] \in W /\ waiting[1].r \in Requests /\ Len(waiting) \in Nat \ {0}
      <3>1. Len(waiting) \in Nat \ {0}
        BY <1>3, <1>t
      <3>2. waiting[1] \in W
        <4>1. waiting \in Seq(W) /\ 1 \in 1..Len(waiting)
          BY <3>1, <1>t
        <4> HIDE DEF W
        <4> QED
          BY ONLY <4>1
      <3> QED
        BY <3>1, <3>2
    <2>3. Tail(queue) \in Seq(Requests) /\ Len(Tail(queue)) = Len(queue) - 1
      BY <1>t, <1>n
    <2>4. queue' \in Seq(Requests) /\ Len(queue') = Len(queue)
      BY <2>1, <2>2, <2>3, <1>n
    <2>5. waiting' \in Seq(W) /\ Len(waiting') = Len(waiting) - 1
      BY <2>1, <2>2, <1>t
    <2>6. \A i \in 1..Len(queue') : queue'[i].n = req'.n + i
      <3> SUFFICES ASSUME NEW i \in 1..Len(queue') PROVE queue'[i].n = req'.n + i
        OBVIOUS
      <3>0. i \in Nat /\ i >= 1 /\ (i <= Len(queue) - 1 \/ i = Len(queue))
        BY <2>4, <1>n
      <3>1. CASE i <= Len(queue) - 1
        <4>1. queue'[i] = queue[i + 1] /\ i + 1 \in 1..Len(queue)
          <5>1. i \in 1..Len(Tail(queue)) /\ i + 1 \in 1..Len(queue)
            <6>1. Len(queue) \in Nat /\ Len(Tail(queue)) = Len(queue) - 1
              BY <1>n, <2>3
            <6> QED
              BY ONLY <6>1, <3>0, <3>1
          <5>2. queue'[i] = Tail(queue)[i]
            BY <2>1, <2>2, <2>3, <5>1
          <5>3. Tail(queue)[i] = queue[i + 1]
            BY <1>t, <5>1
          <5> QED
            BY <5>1, <5>2, <5>3
        <4>2. queue[i + 1].n = req.n + (i + 1)
          BY <4>1, <1>o
        <4> QED
          BY <4>1, <4>2, <3>0, <1>1, <1>n
      <3>2. CASE i = Len(queue)
        <4>1. queue'[i] = waiting[1].r
          BY <1>n, <2>1, <2>2, <2>3, <3>2
        <4>2. waiting[1].r.n = req.n + Len(queue) + 1
          BY <1>o, <2>2
        <4> QED
          BY <4>1, <4>2, <3>2, <1>1, <1>n
      <3> QED
        BY <3>0, <3>1, <3>2
    <2>7. \A i \in 1..Len(waiting') : waiting'[i].r.n = req'.n + Len(queue') + i
      <3> SUFFICES ASSUME NEW i \in 1..Len(waiting')
                   PROVE  waiting'[i].r.n = req'.n + Len(queue') + i
        OBVIOUS
      <3>1. waiting'[i] = waiting[i + 1] /\ i + 1 \in 1..Len(waiting)
        BY <1>t, <2>1, <2>2, <2>5
      <3>2. waiting[i + 1].r.n = req.n + Len(queue) + (i + 1)
        BY <3>1, <1>o
      <3>3. i \in Nat
        BY <2>5, <1>n
      <3>4. Len(queue') = Len(queue) /\ Len(queue) \in Nat
        BY <2>4, <1>n
      <3>5. waiting'[i].r.n = req.n + Len(queue) + (i + 1)
        BY ONLY <3>1, <3>2
      <3>6. req'.n + Len(queue') + i = (req.n + 1) + Len(queue) + i
        BY ONLY <3>4, <1>a
      <3>7. (req.n + 1) + Len(queue) + i = req.n + Len(queue) + (i + 1)
        BY ONLY <3>3, <3>4, <1>a
      <3> QED
        BY ONLY <3>5, <3>6, <3>7
    <2>8. asked' = req'.n + Len(queue') + Len(waiting')
      BY <1>1, <1>n, <2>4, <2>5
    <2>9. InOrder'
      <3>1. DOMAIN queue' = 1..Len(queue') /\ DOMAIN waiting' = 1..Len(waiting')
        BY <2>4, <2>5
      <3>2. Len(queue') = Capacity
        BY <2>4, <1>3, <1>o
      <3>3. posted'.n <= req'.n
        BY <1>p, <1>1, <1>o, <1>n
      <3> QED
        BY ONLY <3>1, <3>2, <3>3, <2>6, <2>7, <2>8, <1>p DEF InOrder
    <2> QED
      BY <1>1, <1>n, <2>4, <2>5, <2>9
  <1> QED
    BY <1>2, <1>3

LEMMA OrderKept == IInv /\ [Next]_vars => ChannelOK' /\ InOrder'
  <1> SUFFICES ASSUME IInv, [Next]_vars PROVE ChannelOK' /\ InOrder'
    OBVIOUS
  <1>t. ChannelOK /\ InOrder /\ DoingOK
    BY DEF IInv, TypeOK
  <1>f. ASSUME UNCHANGED <<channel, sending>>, doing'["sender"] # "idle" => doing["sender"] # "idle"
        PROVE  ChannelOK' /\ InOrder'
    BY <1>f, <1>t DEF ChannelOK, InOrder, channel, sending
  <1>s. ASSUME NEW who \in Callers \cup {Promo}, NEW what \in {"chat", "announcement"},
               Send(who, what), UNCHANGED <<doing, sending>>
        PROVE  ChannelOK' /\ InOrder'
    <2>1. /\ InOrder' /\ asked' \in 0..MaxSays
          /\ queue' \in Seq(Requests) /\ Len(queue') <= Capacity
          /\ waiting' \in Seq([who : Callers \cup {Promo}, r : Requests])
      BY <1>s, SendKeepsOrder
    <2>2. asked' = asked + 1 /\ req' = req /\ posted' = posted /\ asked \in Nat
      BY <1>s, <1>t, ConstantsAssumption DEF Send, SendIf, sending, ChannelOK
    <2>3. posted' \in [n : 0..asked', times : Nat]
      BY <2>2, <1>t DEF ChannelOK
    <2> QED
      BY <2>1, <2>2, <2>3, <1>t DEF ChannelOK
  \* The sender's last step for a request, posted or not.
  <1>p. ASSUME doing["sender"] # "idle", Posts \/ UNCHANGED posted, SenderGoes("idle"),
               UNCHANGED <<channel, req>>
        PROVE  ChannelOK' /\ InOrder'
    <2>1. /\ req.n \in Nat /\ posted.n \in Nat /\ posted.times \in Nat /\ asked \in 0..MaxSays
          /\ posted.n < req.n /\ Len(queue) \in Nat /\ Len(waiting) \in Nat
          /\ asked = req.n + Len(queue) + Len(waiting) /\ MaxSays \in Nat
      BY <1>p, <1>t, ConstantsAssumption DEF ChannelOK, InOrder, Requests
    <2>2. req.n \in 0..asked
      BY <2>1
    <2>3. posted' \in [n : 0..asked, times : Nat] /\ posted'.n <= req.n
      <3>1. CASE Posts
        BY <3>1, <2>1, <2>2 DEF Posts
      <3>2. CASE UNCHANGED posted
        BY <3>2, <2>1, <1>t DEF ChannelOK
      <3> QED
        BY <1>p, <3>1, <3>2
    <2>4. doing'["sender"] = "idle"
      BY <1>p, <1>t DEF SenderGoes, DoingOK, Users
    <2> QED
      BY <2>3, <2>4, <1>p, <1>t DEF ChannelOK, InOrder, channel
  <1>1. CASE \E c \in Callers, what \in {"chat", "announcement"} : Say(c, what)
    BY <1>1, <1>s DEF Say
  <1>2. CASE Take
    <2>1. /\ InOrder' /\ req' \in Requests
          /\ queue' \in Seq(Requests) /\ Len(queue') <= Capacity
          /\ waiting' \in Seq([who : Callers \cup {Promo}, r : Requests])
      BY <1>2, TakeKeepsOrder
    <2> QED
      BY <2>1, <1>2, <1>t DEF Take, ChannelOK
  <1>3. CASE NotPosted
    BY <1>3, <1>f, <1>t DEF NotPosted
  <1>4. CASE AppPost
    <2>1. doing["sender"] # "idle" /\ SenderGoes("idle")
      BY <1>4 DEF AppPost, AppPostThen
    <2>2. (Posts \/ UNCHANGED posted) /\ UNCHANGED <<channel, req>>
      BY <1>4 DEF AppPost, AppPostThen
    <2> QED
      BY <2>1, <2>2, <1>p
  <1>5. CASE UserPost
    <2>1. doing["sender"] # "idle" /\ SenderGoes("idle")
      BY <1>5 DEF UserPost
    <2>2. (Posts \/ UNCHANGED posted) /\ UNCHANGED <<channel, req>>
      BY <1>5 DEF UserPost
    <2> QED
      BY <2>1, <2>2, <1>p
  <1>6. CASE \E u \in Users : Token(u) \/ Answer(u)
    <2> PICK u \in Users : Token(u) \/ Answer(u)
      BY <1>6
    <2>1. doing'["sender"] # "idle" => doing["sender"] # "idle"
      BY <1>t DEF Token, Answer, Cached, Refresh, Refreshed, RefreshedKeeping, RefreshFails,
                  Returns, DoingOK, Users
    <2>2. UNCHANGED <<channel, sending>>
      BY DEF Token, Answer, Cached, Refresh, Refreshed, RefreshedKeeping, RefreshFails
    <2> QED
      BY <2>1, <2>2, <1>f
  <1>7. CASE Expire \/ Tick \/ Fetch \/ NothingDue
    BY <1>7, <1>f DEF Expire, Tick, Fetch, NothingDue
  <1>8. CASE Disconnect
    BY <1>8, <1>f, <1>t DEF Disconnect, DoingOK, Users
  <1>9. CASE Post
    BY <1>9, <1>s DEF Post, PostFrom
  <1>10. CASE UNCHANGED vars
    BY <1>10, <1>f DEF vars
  <1> QED
    BY <1>1, <1>2, <1>3, <1>4, <1>5, <1>6, <1>7, <1>8, <1>9, <1>10 DEF Next, Sender

\* A send that finds no room puts its goroutine, and no other, in the line.
LEMMA SendBlocks ==
  ASSUME IInv, NEW who \in Callers \cup {Promo}, NEW what \in {"chat", "announcement"},
         Send(who, what), ~Blocked(who)
  PROVE  /\ WaitsOnce'
         /\ Len(queue) < Capacity => waiting' = waiting
         /\ ~(Len(queue) < Capacity) =>
              \A w \in Callers \cup {Promo} : Blocked(w)' <=> Blocked(w) \/ w = who
  <1> DEFINE W == [who : Callers \cup {Promo}, r : Requests]
             r == [n |-> asked + 1, what |-> what]
             e == [who |-> who, r |-> r]
  <1>t. waiting \in Seq(W) /\ Len(waiting) \in Nat /\ asked \in Nat
    BY ConstantsAssumption DEF IInv, TypeOK, ChannelOK
  <1>o. /\ \A i, j \in 1..Len(waiting) : waiting[i].who = waiting[j].who => i = j
        /\ \A i \in 1..Len(waiting) : waiting[i].who # who
    BY <1>t DEF IInv, WaitsOnce, Blocked
  <1>1. CASE Len(queue) < Capacity
    <2>1. waiting' = waiting
      BY <1>1 DEF Send, SendIf
    <2> QED
      BY <1>1, <2>1 DEF IInv, WaitsOnce
  <1>2. CASE ~(Len(queue) < Capacity)
    <2>1. waiting' = Append(waiting, e)
      BY <1>2 DEF Send, SendIf
    <2>2. e \in W /\ e.who = who
      BY <1>t DEF Requests
    <2>3. /\ waiting' \in Seq(W) /\ Len(waiting') = Len(waiting) + 1
          /\ waiting'[Len(waiting) + 1] = e
          /\ \A i \in 1..Len(waiting) : waiting'[i] = waiting[i]
      <3> HIDE DEF e, W
      <3> QED
        BY <2>1, <2>2, <1>t
    <2>4. DOMAIN waiting' = 1..(Len(waiting) + 1) /\ DOMAIN waiting = 1..Len(waiting)
      BY <2>3, <1>t
    <2>5. WaitsOnce'
      <3> SUFFICES ASSUME NEW i \in 1..(Len(waiting) + 1), NEW j \in 1..(Len(waiting) + 1),
                          waiting'[i].who = waiting'[j].who
                   PROVE  i = j
        BY <2>4 DEF WaitsOnce
      <3>1. (i \in 1..Len(waiting) \/ i = Len(waiting) + 1)
            /\ (j \in 1..Len(waiting) \/ j = Len(waiting) + 1)
        BY <1>t
      <3> HIDE DEF e
      <3> QED
        BY <3>1, <2>2, <2>3, <1>o
    <2>6. \A w \in Callers \cup {Promo} : Blocked(w)' <=> Blocked(w) \/ w = who
      <3> TAKE w \in Callers \cup {Promo}
      <3>1. Blocked(w) <=> \E i \in 1..Len(waiting) : waiting[i].who = w
        BY <2>4 DEF Blocked
      <3>2. Blocked(w)' <=> \E i \in 1..(Len(waiting) + 1) : waiting'[i].who = w
        BY <2>4 DEF Blocked
      <3>3. \A i : i \in 1..(Len(waiting) + 1) <=> i \in 1..Len(waiting) \/ i = Len(waiting) + 1
        BY <1>t
      <3> HIDE DEF e
      <3> QED
        BY <3>1, <3>2, <3>3, <2>2, <2>3
    <2> QED
      BY <1>2, <2>5, <2>6
  <1> QED
    BY <1>1, <1>2

\* Taking a request frees the first goroutine in line, and no other.
LEMMA TakeFrees ==
  ASSUME IInv, Take, waiting # << >>
  PROVE  /\ WaitsOnce'
         /\ Blocked(Head(waiting).who)
         /\ \A w : Blocked(w)' <=> Blocked(w) /\ w # Head(waiting).who
  <1> DEFINE W == [who : Callers \cup {Promo}, r : Requests]
  <1>t. waiting \in Seq(W) /\ Len(waiting) \in Nat \ {0}
    BY DEF IInv, TypeOK, ChannelOK
  <1>1. waiting' = Tail(waiting)
    BY DEF Take
  <1>2. /\ Len(waiting') = Len(waiting) - 1 /\ Head(waiting) = waiting[1]
        /\ DOMAIN waiting' = 1..(Len(waiting) - 1) /\ DOMAIN waiting = 1..Len(waiting)
        /\ \A i \in 1..(Len(waiting) - 1) : waiting'[i] = waiting[i + 1]
    <2> HIDE DEF W
    <2> QED
      BY <1>1, <1>t
  <1>o. \A i, j \in 1..Len(waiting) : waiting[i].who = waiting[j].who => i = j
    BY <1>2 DEF IInv, WaitsOnce
  <1>3. \A i \in 1..(Len(waiting) - 1) : i + 1 \in 1..Len(waiting) /\ i + 1 # 1
    BY <1>t
  <1>4. WaitsOnce'
    <2> SUFFICES ASSUME NEW i \in 1..(Len(waiting) - 1), NEW j \in 1..(Len(waiting) - 1),
                        waiting'[i].who = waiting'[j].who
                 PROVE  i = j
      BY <1>2 DEF WaitsOnce
    <2>1. i + 1 = j + 1
      BY <1>2, <1>3, <1>o
    <2> QED
      BY <2>1, <1>t
  <1>5. Blocked(Head(waiting).who)
    <2>1. 1 \in 1..Len(waiting)
      BY <1>t
    <2> QED
      BY <2>1, <1>2 DEF Blocked
  <1>6. ASSUME NEW w
        PROVE  Blocked(w)' <=> Blocked(w) /\ w # waiting[1].who
    <2>0. 1 \in 1..Len(waiting)
      BY <1>t
    <2>1. Blocked(w) <=> \E i \in 1..Len(waiting) : waiting[i].who = w
      BY <1>2 DEF Blocked
    <2>2. Blocked(w)' <=> \E i \in 1..(Len(waiting) - 1) : waiting'[i].who = w
      BY <1>2 DEF Blocked
    <2>3. ASSUME NEW i \in 1..Len(waiting), waiting[i].who = w, w # waiting[1].who
          PROVE  \E k \in 1..(Len(waiting) - 1) : waiting'[k].who = w
      <3>1. i # 1
        BY <2>3
      <3>2. i - 1 \in 1..(Len(waiting) - 1) /\ (i - 1) + 1 = i
        BY <3>1, <1>t
      <3>3. waiting'[i - 1] = waiting[i]
        BY <3>2, <1>2
      <3> QED
        BY <3>2, <3>3, <2>3
    <2>4. ASSUME NEW i \in 1..(Len(waiting) - 1), waiting'[i].who = w
          PROVE  w # waiting[1].who /\ \E k \in 1..Len(waiting) : waiting[k].who = w
      <3>1. waiting[i + 1].who = w /\ i + 1 \in 1..Len(waiting) /\ i + 1 # 1
        BY <2>4, <1>2, <1>3
      <3> QED
        BY <3>1, <2>0, <1>o
    <2> QED
      BY <2>1, <2>2, <2>3, <2>4
  <1> QED
    BY <1>2, <1>4, <1>5, <1>6

LEMMA WaitsKept == IInv /\ [Next]_vars => WaitsOnce'
  <1> SUFFICES ASSUME IInv, [Next]_vars PROVE WaitsOnce'
    OBVIOUS
  <1>t. WaitsOnce /\ (scan.pc = "scan" => ~Blocked(Promo))
    BY DEF IInv, Paced
  <1>f. ASSUME UNCHANGED waiting
        PROVE  WaitsOnce'
    BY <1>f, <1>t DEF WaitsOnce
  <1>1. CASE \E c \in Callers, what \in {"chat", "announcement"} : Say(c, what)
    BY <1>1, SendBlocks DEF Say
  <1>2. CASE Post
    BY <1>2, <1>t, SendBlocks DEF Post, PostFrom
  <1>3. CASE Take
    <2>1. CASE waiting = << >>
      BY <1>3, <2>1, <1>f DEF Take
    <2>2. CASE waiting # << >>
      BY <1>3, <2>2, TakeFrees
    <2> QED
      BY <2>1, <2>2
  <1>4. CASE \/ NotPosted \/ AppPost \/ UserPost \/ Expire \/ Disconnect \/ Tick \/ Fetch \/ NothingDue
             \/ \E u \in Users : Token(u) \/ Answer(u)
    <2>1. UNCHANGED waiting
      BY <1>4 DEF NotPosted, AppPost, AppPostThen, UserPost, Expire, Disconnect, Tick, Fetch, NothingDue,
                  Token, Cached, Refresh, Answer, Refreshed, RefreshedKeeping, RefreshFails, channel
    <2> QED
      BY <2>1, <1>f
  <1>5. CASE UNCHANGED vars
    BY <1>5, <1>f DEF vars, channel
  <1> QED
    BY <1>1, <1>2, <1>3, <1>4, <1>5 DEF Next, Sender

\* A send that is through, at once or when the goroutine in line gets its place, comes more
\* than an interval after the last but two, and is in order.
LEMMA ClockKept ==
  ASSUME IInv, [Next]_vars
  PROVE  /\ ClockOK' /\ Paced'
         /\ recent' # recent => tick - recent[3] > Interval
  <1> DEFINE Goal == ClockOK' /\ Paced' /\ (recent' # recent => tick - recent[3] > Interval)
  <1>t. ClockOK /\ Paced
    BY DEF IInv, TypeOK
  <1>n. /\ tick \in Nat /\ pending \in 0..tick /\ last \in 0..tick
        /\ recent[1] \in 0..tick /\ recent[2] \in 0..tick /\ recent[3] \in 0..tick
        /\ scan.now \in 0..tick /\ scan.pc \in {"wait", "scan"} /\ Interval \in Nat \ {0} /\ MaxTicks \in Nat
    BY <1>t, ConstantsAssumption DEF ClockOK
  <1>p. ASSUME PromoSent, UNCHANGED tick
        PROVE  /\ recent'[1] = tick /\ recent'[2] = recent[1] /\ recent'[3] = recent[2]
               /\ recent' \in (0..tick') \X (0..tick') \X (0..tick')
    BY <1>p, <1>n DEF PromoSent
  <1>f. ASSUME UNCHANGED <<clock, promo>>, Blocked(Promo)' <=> Blocked(Promo)
        PROVE  Goal
    BY <1>f, <1>t DEF ClockOK, Paced, clock, promo
  <1>w. ASSUME UNCHANGED waiting
        PROVE  Blocked(Promo)' <=> Blocked(Promo)
    BY <1>w DEF Blocked
  <1>1. CASE \E c \in Callers, what \in {"chat", "announcement"} : Say(c, what)
    <2> PICK c \in Callers, what \in {"chat", "announcement"} : Say(c, what)
      BY <1>1
    <2>1. /\ c \in Callers \cup {Promo} /\ Send(c, what) /\ ~Blocked(c) /\ UNCHANGED <<clock, promo>>
          /\ c # Promo
      BY ConstantsAssumption DEF Say
    <2>2. /\ Len(queue) < Capacity => waiting' = waiting
          /\ ~(Len(queue) < Capacity) =>
               \A w \in Callers \cup {Promo} : Blocked(w)' <=> Blocked(w) \/ w = c
      BY <2>1, SendBlocks
    <2>3. Blocked(Promo)' <=> Blocked(Promo)
      BY <2>1, <2>2, <1>w
    <2> QED
      BY <2>1, <2>3, <1>f
  <1>2. CASE Take
    <2>1. CASE waiting = << >>
      BY <1>2, <2>1, <1>f, <1>w DEF Take, promo
    <2>2. CASE waiting # << >> /\ Head(waiting).who # Promo
      <3>1. Blocked(Promo)' <=> Blocked(Promo)
        BY <1>2, <2>2, TakeFrees
      <3> QED
        BY <1>2, <2>2, <3>1, <1>f DEF Take, promo
    <2>3. CASE waiting # << >> /\ Head(waiting).who = Promo
      <3>1. Blocked(Promo) /\ ~Blocked(Promo)'
        BY <1>2, <2>3, TakeFrees
      <3>2. PromoSent /\ UNCHANGED <<clock, scan, last>>
        BY <1>2, <2>3 DEF Take
      <3>3. UNCHANGED tick /\ UNCHANGED pending
        BY <3>2 DEF clock
      <3>4. ClockOK'
        BY <3>2, <3>3, <1>p, <1>t DEF ClockOK
      <3>5. /\ scan.pc = "wait" /\ last > recent[2] /\ last - recent[3] > Interval
            /\ pending # 0 => pending > recent[1]
        BY <3>1, <1>t DEF Paced
      <3>6. recent'[3] <= recent'[2] /\ recent'[2] <= recent'[1]
        BY <3>2, <3>3, <1>p, <1>n, <1>t DEF Paced
      <3>7. Paced'
        BY <3>1, <3>2, <3>3, <3>5, <3>6, <1>p DEF Paced
      <3> QED
        BY <3>4, <3>5, <3>7, <1>n
    <2> QED
      BY <2>1, <2>2, <2>3
  <1>3. CASE Tick
    <2>1. ClockOK' /\ UNCHANGED <<waiting, recent, last, scan>>
      BY <1>3, <1>t, <1>n DEF Tick, ClockOK, promo, channel
    <2>2. (pending # 0 /\ pending' = pending) \/ (pending = 0 /\ pending' = tick + 1)
      BY <1>3 DEF Tick
    <2>3. Paced'
      BY <2>1, <2>2, <1>w, <1>t, <1>n DEF Paced
    <2> QED
      BY <2>1, <2>3
  <1>4. CASE Fetch
    <2>1. ~Blocked(Promo) /\ UNCHANGED <<waiting, recent, last, tick>> /\ pending # 0 /\ pending' = 0
      BY <1>4 DEF Fetch, channel
    <2>2. scan' = scan \/ scan' \in [pc : {"scan"}, now : {pending}, seen : BOOLEAN]
      BY <1>4 DEF Fetch
    <2>3. ClockOK'
      BY <2>1, <2>2, <1>t, <1>n DEF ClockOK
    <2>4. scan.pc = "wait"
      BY <1>4 DEF Fetch
    <2>5. Paced'
      BY <2>1, <2>2, <2>4, <1>w, <1>t, <1>n DEF Paced
    <2> QED
      BY <2>1, <2>3, <2>5
  <1>5. CASE NothingDue
    <2>1. /\ scan.pc = "scan" /\ scan' = NoScan /\ UNCHANGED <<waiting, recent, tick, pending>>
          /\ last' = 0 \/ last' = scan.now \/ last' = last
      BY <1>5 DEF NothingDue, Forget, Start, Wait, channel, clock
    <2>2. ClockOK'
      BY <2>1, <1>t, <1>n DEF ClockOK, NoScan
    <2>3. Paced'
      <3>1. ~Blocked(Promo) /\ ~Blocked(Promo)'
        BY <2>1, <1>w, <1>t DEF Paced
      <3> QED
        BY <3>1, <2>1, <1>t, <1>n DEF Paced, NoScan
    <2> QED
      BY <2>1, <2>2, <2>3
  <1>6. CASE Post
    <2>1. /\ scan.pc = "scan" /\ last # 0 /\ scan.now - last >= Interval
          /\ last' = scan.now /\ scan' = NoScan /\ UNCHANGED <<tick, pending>>
          /\ IF Len(queue) < Capacity THEN PromoSent ELSE UNCHANGED recent
      BY <1>6 DEF Post, PostFrom, clock
    <2>2. ~Blocked(Promo)
      BY <2>1, <1>t DEF Paced
    <2>3. /\ Len(queue) < Capacity => waiting' = waiting
          /\ ~(Len(queue) < Capacity) => Blocked(Promo)'
      BY <1>6, <2>2, SendBlocks DEF Post, PostFrom
    <2>4. /\ last > recent[3] /\ scan.now > recent[2] /\ (pending # 0 => pending > recent[1])
          /\ recent[3] <= recent[2] /\ recent[2] <= recent[1]
      BY <2>1, <2>2, <1>t DEF Paced
    <2>5. scan.now - recent[3] > Interval /\ tick - recent[3] > Interval
      BY <2>1, <2>4, <1>n
    <2>6. CASE Len(queue) < Capacity
      <3>1. PromoSent /\ ~Blocked(Promo)'
        BY <2>6, <2>1, <2>2, <2>3, <1>w
      <3>2. ClockOK'
        BY <3>1, <2>1, <1>p, <1>t, <1>n DEF ClockOK, NoScan
      <3>3. recent'[1] = tick /\ recent'[2] = recent[1] /\ recent'[3] = recent[2]
        BY <3>1, <2>1, <1>p
      <3>4. Paced'
        BY <3>1, <3>3, <2>1, <2>4, <1>n DEF Paced, NoScan
      <3> QED
        BY <3>2, <3>4, <2>5
    <2>7. CASE ~(Len(queue) < Capacity)
      <3>1. UNCHANGED recent /\ Blocked(Promo)'
        BY <2>7, <2>1, <2>3
      <3>2. ClockOK'
        BY <3>1, <2>1, <1>t, <1>n DEF ClockOK, NoScan
      <3>3. Paced'
        BY <3>1, <2>1, <2>4, <2>5, <1>n DEF Paced, NoScan
      <3> QED
        BY <3>1, <3>2, <3>3
    <2> QED
      BY <2>6, <2>7
  <1>7. CASE NotPosted \/ AppPost \/ UserPost \/ Expire \/ Disconnect \/ \E u \in Users : Token(u) \/ Answer(u)
    <2>1. UNCHANGED <<clock, promo>> /\ UNCHANGED waiting
      BY <1>7 DEF NotPosted, AppPost, AppPostThen, UserPost, Expire, Disconnect, channel,
                  Token, Cached, Refresh, Answer, Refreshed, RefreshedKeeping, RefreshFails
    <2> QED
      BY <2>1, <1>f, <1>w
  <1>8. CASE UNCHANGED vars
    <2>1. UNCHANGED <<clock, promo>> /\ UNCHANGED waiting
      BY <1>8 DEF vars, channel
    <2> QED
      BY <2>1, <1>f, <1>w
  <1> QED
    BY <1>1, <1>2, <1>3, <1>4, <1>5, <1>6, <1>7, <1>8 DEF Next, Sender

LEMMA RefresherKept == IInv /\ [Next]_vars => DoingOK' /\ RefresherOK' /\ Rotation'
  <1> SUFFICES ASSUME IInv, [Next]_vars PROVE DoingOK' /\ RefresherOK' /\ Rotation'
    OBVIOUS
  <1>t. DoingOK /\ RefresherOK /\ Rotation
    BY DEF IInv, TypeOK
  <1>n. /\ valid \in Nat /\ token \in Nat /\ answer \in Nat /\ MaxRotations \in Nat
        /\ 1 <= token /\ token <= valid /\ valid <= MaxRotations + 1 /\ answer <= valid
    BY <1>t, ConstantsAssumption DEF RefresherOK
  \* A step of the sender that asks for no token.
  <1>s. ASSUME NEW to \in {"idle", "app", "want", "post"}, SenderGoes(to), doing["sender"] # "asked",
               UNCHANGED refresher
        PROVE  DoingOK' /\ RefresherOK' /\ Rotation'
    BY <1>s, <1>t DEF SenderGoes, DoingOK, RefresherOK, Rotation, refresher, Users, Nobody
  <1>f. ASSUME UNCHANGED doing, UNCHANGED refresher
        PROVE  DoingOK' /\ RefresherOK' /\ Rotation'
    BY <1>f, <1>t DEF DoingOK, RefresherOK, Rotation, refresher
  <1>1. CASE \/ \E c \in Callers, what \in {"chat", "announcement"} : Say(c, what)
             \/ Tick \/ Fetch \/ NothingDue \/ Post
    <2>1. UNCHANGED doing /\ UNCHANGED refresher
      BY <1>1 DEF Say, Tick, Fetch, NothingDue, Post, PostFrom
    <2> QED
      BY <2>1, <1>f
  <1>2. CASE Sender
    <2>1. CASE Take
      <3>1. doing["sender"] # "asked" /\ UNCHANGED refresher
        BY <2>1 DEF Take
      <3>2. SenderGoes("app") \/ SenderGoes("want")
        BY <2>1 DEF Take, SenderGoes
      <3> QED
        BY <3>1, <3>2, <1>s
    <2>2. CASE NotPosted \/ AppPost \/ UserPost
      <3>1. doing["sender"] # "asked" /\ UNCHANGED refresher
        BY <2>2 DEF NotPosted, AppPost, AppPostThen, UserPost
      <3>2. SenderGoes("idle") \/ SenderGoes("want")
        BY <2>2 DEF NotPosted, AppPost, AppPostThen, UserPost
      <3> QED
        BY <3>1, <3>2, <1>s
    <2> QED
      BY <1>2, <2>1, <2>2 DEF Sender
  <1>3. CASE \E u \in Users : Token(u) \/ Answer(u)
    <2> PICK u \in Users : Token(u) \/ Answer(u)
      BY <1>3
    <2>d. ASSUME NEW ok \in BOOLEAN, Returns(u, ok)
          PROVE  DoingOK' /\ doing'[u] # "asked" /\ \A v \in Users : v # u => doing'[v] = doing[v]
      BY <2>d, <1>t DEF Returns, DoingOK, Users
    <2>1. CASE Cached(u)
      <3>1. Returns(u, TRUE) /\ UNCHANGED refresher /\ holder # u /\ doing[u] # "asked"
        BY <2>1 DEF Cached, Nobody, Users
      <3> QED
        BY <3>1, <2>d, <1>t DEF RefresherOK, Rotation, refresher
    <2>2. CASE Refresh(u)
      <3>1. /\ holder = Nobody /\ holder' = u /\ doing' = [doing EXCEPT ![u] = "asked"]
            /\ UNCHANGED <<access, token, lost>>
        BY <2>2 DEF Refresh
      <3>2. DoingOK'
        BY <3>1, <1>t, <2>2 DEF DoingOK, Users
      <3>3. /\ answer' \in Nat /\ valid' \in Nat /\ answer' <= valid' /\ valid <= valid'
            /\ valid' <= MaxRotations + 1
            /\ answer' # 0 => answer' = valid'
            /\ ~lost => answer' = valid' \/ token = valid'
        <4>1. answer = 0
          BY <3>1, <1>t DEF Rotation
        <4>2. ~lost => token = valid
          BY <4>1, <1>t, <1>n DEF Rotation
        <4> QED
          BY <4>2, <1>n, <2>2 DEF Refresh
      <3>4. RefresherOK'
        BY <3>1, <3>3, <1>t, <1>n DEF RefresherOK
      <3>5. \A v \in Users : doing'[v] = "asked" <=> holder' = v
        BY <3>1, <1>t DEF Rotation, DoingOK, Users, Nobody
      <3>6. holder' # Nobody
        BY <3>1 DEF Users, Nobody
      <3> QED
        BY <3>1, <3>2, <3>3, <3>4, <3>5, <3>6 DEF Rotation
    <2>3. CASE Answer(u)
      <3>1. doing[u] = "asked" /\ holder = u /\ holder' = Nobody /\ answer' = 0 /\ valid' = valid
        BY <2>3, <1>t DEF Answer, Refreshed, RefreshedKeeping, RefreshFails, Rotation
      <3>2. PICK ok \in BOOLEAN : Returns(u, ok)
        BY <2>3 DEF Answer, Refreshed, RefreshedKeeping, RefreshFails
      <3>3. DoingOK' /\ \A v \in Users : doing'[v] = "asked" <=> holder' = v
        BY <3>1, <3>2, <2>d, <1>t DEF Rotation, Users, Nobody
      <3>4. CASE Refreshed(u)
        <4>1. answer # 0 /\ token' = answer /\ access' = "valid" /\ lost' = lost
          BY <3>4 DEF Refreshed, RefreshedKeeping
        <4>2. answer = valid
          BY <4>1, <1>t DEF Rotation
        <4> QED
          BY <3>1, <3>3, <4>1, <4>2, <1>t, <1>n DEF RefresherOK, Rotation
      <3>5. CASE RefreshFails(u)
        <4>1. lost' = (lost \/ answer \notin {0, token}) /\ UNCHANGED <<access, token>>
          BY <3>5 DEF RefreshFails
        <4>2. ~lost' => token = valid
          <5>1. ~lost' => ~lost /\ answer \in {0, token}
            BY <4>1, Zenon
          <5>2. ~lost => answer = valid \/ token = valid
            BY <1>t DEF Rotation
          <5> QED
            BY <5>1, <5>2, <1>n
        <4>3. lost' \in BOOLEAN
          BY <4>1
        <4> QED
          BY <3>1, <3>3, <4>1, <4>2, <4>3, <1>t, <1>n DEF RefresherOK, Rotation
      <3> QED
        BY <2>3, <3>4, <3>5 DEF Answer
    <2> QED
      BY <2>1, <2>2, <2>3 DEF Token
  <1>4. CASE Expire
    BY <1>4, <1>t DEF Expire, DoingOK, RefresherOK, Rotation
  <1>5. CASE Disconnect
    BY <1>5, <1>t DEF Disconnect, DoingOK, RefresherOK, Rotation, refresher, Users, Nobody
  <1>6. CASE UNCHANGED vars
    BY <1>6, <1>f DEF vars
  <1> QED
    BY <1>1, <1>2, <1>3, <1>4, <1>5, <1>6 DEF Next

THEOREM Invariance == Spec => []IInv
  <1>1. IInv /\ [Next]_vars => IInv'
    BY OrderKept, WaitsKept, ClockKept, RefresherKept DEF IInv, TypeOK
  <1> QED
    BY <1>1, InitIInv, PTL DEF Spec

\* The buffer never exceeds its capacity, and every variable keeps its type.
THEOREM TypeCorrect == Spec => []TypeOK
  BY Invariance, PTL DEF IInv

\* Twitch posts each request at most once and in the order it was queued, for any number of
\* goroutines and any capacity.
THEOREM InOrderOnce == Spec => PostedOnceInOrder
  <1>1. IInv /\ [Next]_vars => [posted' # posted => posted'.n > posted.n]_vars
    <2> SUFFICES ASSUME IInv, Next, posted' # posted PROVE posted'.n > posted.n
      OBVIOUS
    <2>1. doing["sender"] # "idle" /\ Posts
      BY DEF Next, Say, Send, SendIf, sending, Sender, Take, NotPosted, AppPost, AppPostThen, UserPost,
             Token, Cached, Refresh, Answer, Refreshed, RefreshedKeeping, RefreshFails, Expire,
             Disconnect, Tick, Fetch, NothingDue, Post, PostFrom
    <2>2. posted.n < req.n /\ req.n \in Nat /\ posted.n \in Nat
      BY <2>1, ConstantsAssumption DEF IInv, InOrder, TypeOK, ChannelOK, Requests
    <2> QED
      BY <2>1, <2>2 DEF Posts
  <1> QED
    BY <1>1, Invariance, PTL DEF Spec, PostedOnceInOrder

\* Of any four messages of a promo that enter the buffer, the last does so more than an
\* interval after the first, for any interval and capacity, however long the loop is blocked
\* and whichever ticks it drops or takes late.
THEOREM NoBacklog == Spec => NoPromoBacklog
  <1>1. IInv /\ [Next]_vars => [recent' # recent => tick - recent[3] > Interval]_vars
    BY ClockKept
  <1> QED
    BY <1>1, Invariance, PTL DEF Spec, NoPromoBacklog

\* Between refreshes the Refresher holds the refresh token Twitch takes.
THEOREM NewestToken == Spec => []NewestTokenKept
  <1>1. IInv => NewestTokenKept
    BY ConstantsAssumption DEF IInv, TypeOK, RefresherOK, Rotation, NewestTokenKept
  <1> QED
    BY <1>1, Invariance, PTL
=============================================================================
