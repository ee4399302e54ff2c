--------------------------- MODULE ChatCommandsMC ---------------------------
(***************************************************************************)
(* The state space is the sum over the scripts: three messages and one     *)
(* without an id around the auto-shout list, over a ring of two ids, or    *)
(* two messages with commands, and what the dashboard asks meanwhile.      *)
(***************************************************************************)
EXTENDS ChatCommands

CONSTANTS m1, m2, m3, alice, bob
Wrote == (m1 :> alice) @@ (m2 :> bob) @@ (m3 :> bob) @@ (Blank :> bob)

Line(m) == Asks("line", Wrote[m], None)
Does(m, op) == Asks(op, Wrote[m], None)
Sets(m, t) == Asks("set", Wrote[m], t)
Asked(op, arg) == Asks(op, None, arg)
Plain == [says |-> << >>, asks |-> {}, slips |-> 0, rows |-> << >>, boot |-> FALSE,
          again |-> FALSE]

\* bob (m2, m3) fishes, lurks and bakes.
Counts == [Plain EXCEPT !.says = (m2 :> <<Line(m2), Does(m2, "fish"), Does(m2, "lurk")>>)
                               @@ (m3 :> <<Line(m3), Does(m3, "bread"), Does(m3, "fish")>>), !.slips = 1, !.again = TRUE]
Lurks == [Plain EXCEPT !.says = (m2 :> <<Does(m2, "lurk"), Does(m2, "bread")>>)
                              @@ (m3 :> <<Does(m3, "bread"), Does(m3, "lurk")>>), !.slips = 1]

\* bob is watched, his last line stored; alice is a moderator.
Watched == (Stalk :> [id |-> 1, target |-> bob, last |-> Blank])
Reboot == [Plain EXCEPT !.says = (m1 :> <<Does(m1, "get")>>) @@ (m2 :> <<Line(m2)>>),
                        !.rows = Watched, !.boot = TRUE, !.asks = {Asked("set", alice)}, !.slips = 1]
Retarget == [Plain EXCEPT !.says = (m1 :> <<Sets(m1, alice)>>) @@ (m2 :> <<Line(m2)>>)
                                   @@ (m3 :> <<Does(m3, "get")>>), !.rows = Watched, !.boot = TRUE, !.again = TRUE]
Choose == [Plain EXCEPT !.says = (m1 :> <<Sets(m1, bob)>>) @@ (m2 :> <<Line(m2)>>),
                        !.asks = {Asked("set", bob), Asked("unset", None)}, !.slips = 1]
Dropped == [Plain EXCEPT !.says = (m1 :> <<Does(m1, "unset")>>) @@ (m2 :> <<Does(m2, "get")>>),
                         !.rows = Watched, !.boot = TRUE, !.asks = {Asked("set", alice)}]

Enabled == (Promo :> [id |-> 1, enabled |-> TRUE])
Pausing == [Plain EXCEPT !.says = (m1 :> <<Does(m1, "edit")>>) @@ (m2 :> <<Does(m2, "drop")>>),
                         !.rows = Enabled, !.slips = 1,
                         !.asks = {Asked("update", FALSE), Asked("remove", None), Asked("create", None)}]
Replacing == [Plain EXCEPT !.says = (m1 :> <<Does(m1, "drop")>>) @@ (m2 :> <<Does(m2, "create")>>),
                           !.asks = {Asked("update", FALSE), Asked("update", TRUE)}, !.rows = Enabled]
Resuming == [Plain EXCEPT !.says = (m1 :> <<Does(m1, "edit")>>), !.rows = (Promo :> [id |-> 1, enabled |-> FALSE]),
                          !.asks = {Asked("update", TRUE)}, !.slips = 1]
Creating == [Plain EXCEPT !.says = (m1 :> <<Does(m1, "create")>>), !.asks = {Asked("create", None)}]
AllScripts == {Plain, Counts, Lurks, Reboot, Retarget, Choose, Dropped, Pausing, Replacing, Resuming, Creating}
=============================================================================
