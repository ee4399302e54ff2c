------------------------ MODULE SubscriptionRepairMC ------------------------
(***************************************************************************)
(* The state space is the sum over the initial situations, each a list of  *)
(* subscriptions as some earlier life left it and the operations that may  *)
(* start: the overlay's tasks without limit, the bot's a few at a time.    *)
(***************************************************************************)
EXTENDS SubscriptionRepair, TLC

CONSTANTS b1, b2, online, chat, cheer

Symmetry == Permutations(Tasks)

None == [op \in Ops |-> 0]
S(b, type, id, on) == [b |-> b, type |-> type, id |-> id, on |-> on]
Covered(b) == {S(b, online, 1, TRUE), S(b, chat, 2, TRUE)}

\* The overlay's requests without limit, next to one subscription of the bot.
OverlayAlone == [subs |-> {S(b1, chat, 1, TRUE)}, optIn |-> {b1},
  left |-> [None EXCEPT !["mint"] = 99, !["revoke"] = 99, !["boot"] = 99, !["restart"] = 99]]
\* Duplicates and a disabled one: two audits, or one and -force.
Messy == [subs |-> {S(b1, online, 1, FALSE), S(b1, online, 2, TRUE), S(b1, online, 3, TRUE)},
          optIn |-> {b1}, left |-> [None EXCEPT !["audit"] = 2, !["force"] = 1]]
\* People come and go.
Funnel == [subs |-> {}, optIn |-> {},
           left |-> [None EXCEPT !["signin"] = 1, !["joinme"] = 1, !["grant"] = 1,
                                 !["banish"] = 1, !["audit"] = 1]]
\* A banished broadcaster with a disabled leftover, pruned beside a sign-in.
Leftover == [subs |-> Covered(b1) \cup {S(b1, online, 3, FALSE)}, optIn |-> {b1},
             left |-> [None EXCEPT !["banish"] = 1, !["prune"] = 1, !["signin"] = 1,
                                   !["backfill"] = 1]]
\* Both halves at once.
Shared == [subs |-> Covered(b1), optIn |-> {b1},
           left |-> [None EXCEPT !["mint"] = 1, !["banish"] = 1, !["boot"] = 2,
                                 !["prune"] = 1, !["restart"] = 1, !["audit"] = 1]]
\* An audit of two broadcasters, one of whom is being banished.
TwoUsers == [subs |-> {S(b1, chat, 1, TRUE), S(b2, online, 2, TRUE), S(b2, chat, 3, FALSE)},
             optIn |-> {b1, b2}, left |-> [None EXCEPT !["audit"] = 1, !["banish"] = 1]]
AllStarts == {OverlayAlone, Messy, TwoUsers, Funnel, Leftover, Shared}
JustBot == {Shared}
JustOverlay == {OverlayAlone}
BotTypes == {online, chat}
OnlineOnly == {online}
Overlays == {cheer}
Both == {b1, b2}
=============================================================================
