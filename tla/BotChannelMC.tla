---------------------------- MODULE BotChannelMC ----------------------------
(***************************************************************************)
(* The state space is the sum over the initial situations: which requests  *)
(* may still come, how often, and the row an earlier life left.            *)
(***************************************************************************)
EXTENDS BotChannel

None == [r \in Requests |-> 0]
Member == [exists |-> TRUE, live |-> FALSE, key |-> 1, optIn |-> TRUE]
Banished == [Member EXCEPT !.optIn = FALSE]
Of(r, may) == [row |-> r, permanent |-> FALSE, loads |-> {}, left |-> may]

Streams == [Of(Member, [None EXCEPT !["turn"] = 3, !["hook"] = 3, !["restart"] = 1]) EXCEPT !.loads = {"stalk"}]
Failing == Of(Member, [None EXCEPT !["turn"] = 3, !["hook"] = 3, !["fail"] = 1])
Rolls == Of(Member, [None EXCEPT !["turn"] = 2, !["hook"] = 2, !["roll"] = 3, !["restart"] = 1])
Allotment == Of(Member, [None EXCEPT !["turn"] = 1, !["hook"] = 2, !["roll"] = 4, !["restart"] = 1])
Members == Of(Member, [None EXCEPT !["turn"] = 2, !["hook"] = 2, !["banish"] = 1, !["join"] = 1, !["fail"] = 1])
Outsider == Of(Banished, [None EXCEPT !["turn"] = 2, !["hook"] = 2, !["join"] = 2, !["banish"] = 1, !["restart"] = 1])
Newcomer == Of(NoRow, [None EXCEPT !["turn"] = 2, !["hook"] = 2, !["join"] = 2, !["signin"] = 1, !["fail"] = 1])
Privs == Of(Member, [None EXCEPT !["mod"] = 3, !["grant"] = 2, !["banish"] = 1, !["join"] = 1, !["restart"] = 1, !["fail"] = 1])
Home == [Streams EXCEPT !.permanent = TRUE, !.left = [@ EXCEPT !["banish"] = 1]]
Behind == Of(Member, [None EXCEPT !["turn"] = 4, !["hook"] = 3])
Back == Of(Member, [None EXCEPT !["turn"] = 1, !["hook"] = 1, !["roll"] = 3, !["restart"] = 1, !["banish"] = 1, !["join"] = 1])
Lossy == Of(Member, [None EXCEPT !["turn"] = 1, !["hook"] = 1, !["roll"] = 4, !["restart"] = 1, !["fail"] = 1])
Slow == Of([Member EXCEPT !.live = TRUE], [None EXCEPT !["turn"] = 1, !["hook"] = 1, !["roll"] = 3, !["restart"] = 1])
AllStarts == {Streams, Failing, Rolls, Allotment, Members, Outsider, Newcomer, Privs, Home, Behind, Back, Lossy, Slow}
=============================================================================
