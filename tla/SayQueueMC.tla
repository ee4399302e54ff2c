----------------------------- MODULE SayQueueMC -----------------------------
(***************************************************************************)
(* A goroutine and the promo loop over a queue of one: the queue is full,  *)
(* the scheduler is blocked and drops ticks, the refresh token rotates     *)
(* under the sender and the IRC loop, the bot restarts; and, in a life of  *)
(* more ticks, how close the messages of the promo alone can come.         *)
(***************************************************************************)
EXTENDS SayQueue

\* With five ticks left, where the environment's refresh token may be too old by now.
Chatting == {[tick |-> MaxTicks - 5, n |-> 0, token |-> 1, valid |-> v] : v \in 1..2}

\* With all ticks left, no more requests of callers and no more rotations.
PromoAlone == [tick |-> 0, n |-> MaxChat, token |-> MaxRotations + 1, valid |-> MaxRotations + 1]

AllBoots == Chatting \cup {PromoAlone}
=============================================================================
