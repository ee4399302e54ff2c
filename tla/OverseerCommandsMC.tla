------------------------- MODULE OverseerCommandsMC -------------------------
(***************************************************************************)
(* Two commands, pause and unpause, so that one can be given up while the  *)
(* other waits for the mutex, with two faults, so that both attempts of    *)
(* one can fail; and one command alone, without faults but with every      *)
(* deadline, for each line a chatter may type and what he wants by it: all *)
(* the items and materials, the corners of a rectangle in any order, the   *)
(* ways to write a list, and the lines that are no command.                *)
(***************************************************************************)
EXTENDS OverseerCommands, TLC

CONSTANTS c1, c2

\* What strconv.Atoi reads here; ints of 6 bits, rectangles of at most 6 tiles.
SmallNumerals == "-1" :> -1 @@ "0" :> 0 @@ "1" :> 1 @@ "2" :> 2 @@ "3" :> 3 @@ "+2" :> 2 @@ "7" :> 7

T(x) == [parts |-> <<x>>, mark |-> ""]
Plural(x) == [parts |-> <<x>>, mark |-> "s"]
Hash(x) == [parts |-> <<x>>, mark |-> "#"]
List(xs) == [parts |-> xs, mark |-> ","]
Words(xs) == [i \in DOMAIN xs |-> T(xs[i])]

Nothing == [kind |-> "nothing"]
Make(item, material, n) == [kind |-> "make", item |-> item, material |-> material, quantity |-> n]
Taskat(at, item, material, n) ==
  [kind |-> "taskat", at |-> at, item |-> item, material |-> material, quantity |-> n]
Over(kind, item, xs, ys, z) == [kind |-> kind, item |-> item, z |-> z, tiles |-> xs \X ys]
Place(item, p) == [kind |-> "place", item |-> item, position |-> p]

\* A thing made of stone, or wood if nothing else will do; a chair is the game's throne.
Of(item) == IF item \in {"bed", "barrel"} THEN "wood" ELSE "stone"
ByHand == {"table", "bed", "door", "chair", "throne", "chest", "bucket", "barrel", "cage", "bin"}
Chair(item) == IF item = "throne" THEN "chair" ELSE item
Nouns == ByHand \cup {"block", "quern", "slab", "statue", "splint", "pipesection"}
Tools == {"altar", "minecart", "shield", "trainingaxe", "corkscrew", "spikedball"}
Recipes == {"ash", "charcoal"}
Metals == {"iron", "steel", "gold"}
Materials == {"stone", "wood", "bone", "leather", "cloth", "shell", "metal"} \cup Metals

Makes ==
  UNION {{<<Words(<<"make", Of(i), i>>), Make(Chair(i), Of(i), 1)>>,
          <<<<T("make"), T("2"), T(Of(i)), Plural(i)>>, Make(Chair(i), Of(i), 2)>>,
          <<Words(<<"make", i>>), Nothing>>} : i \in Nouns \cup Tools}
  \cup {<<Words(<<"make", m, "table">>), Make("table", m, 1)>> : m \in Materials}
  \cup {<<Words(<<"make", m, "bed">>), IF m = "wood" THEN Make("bed", m, 1) ELSE Nothing>> : m \in Materials}
  \cup UNION {{<<Words(<<"make", r>>), Make(r, "", 1)>>, <<Words(<<"make", "3", "wood", r>>), Make(r, "", 3)>>} :
              r \in Recipes}
  \cup {<<Words(<<"make", "me", "a", "wooden", "chair", "please">>), Make("chair", "wood", 1)>>,
        <<Words(<<"make", "0", "stone", "table">>), Nothing>>,
        <<Words(<<"make", "-1", "stone", "table">>), Nothing>>,
        <<Words(<<"make", "stone", "stone", "table">>), Nothing>>,
        <<Words(<<"make", "2">>), Nothing>>, <<Words(<<"make", "stone", "dragon">>), Nothing>>}

Taskats ==
  {<<<<T("taskat"), Hash("2"), T(Of(i)), T(i)>>,
     IF i \in Tools THEN Refused ELSE Taskat(2, Chair(i), Of(i), 1)>> : i \in Nouns \cup Tools}
  \cup {<<<<T("taskat"), Hash("1"), T("3"), T(m), Plural("table")>>,
          IF m \in Metals THEN Refused ELSE Taskat(1, "table", m, 3)>> : m \in Materials}
  \cup {<<<<T("taskat"), Hash("0"), T("stone"), T("table")>>, Refused>>,
        <<Words(<<"taskat", "2", "wood", "table">>), Nothing>>,
        <<<<T("taskat"), Hash("2"), T("table")>>, Nothing>>,
        <<<<T("taskat"), Hash("2"), T("wood"), T("charcoal")>>, Nothing>>,
        <<<<T("taskat"), Hash("-1"), T("wood"), T("table")>>, Nothing>>}

\* A rectangle by two of its corners.
Corners == {<<"0", "1">>, <<"2", "0">>, <<"1", "2">>, <<"-1", "1">>, <<"2", "2">>}
Rect(a, b) == IF SmallNumerals[a] <= SmallNumerals[b]
              THEN SmallNumerals[a]..SmallNumerals[b] ELSE SmallNumerals[b]..SmallNumerals[a]
Wanted(kind, item, p, q) ==
  LET xs == Rect(p[1], q[1])  ys == Rect(p[2], q[2]) IN
  IF Cardinality(xs \X ys) <= MaxArea THEN Over(kind, item, xs, ys, 3) ELSE Nothing
Rectangles ==
  UNION {{<<<<T("mine"), List(<<p[1], p[2], "3">>), List(q)>>, Wanted("mine", "", p, q)>>,
          <<<<T("channel"), List(<<p[1], p[2], "3">>), List(<<q[1], q[2], "3">>)>>, Wanted("channel", "", p, q)>>,
          <<<<T("stockpile"), Plural("weapon"), T(p[1]), T(p[2]), T("3"), T(q[1]), T(q[2])>>,
            Wanted("stockpile", "weapon", p, q)>>} : p \in Corners, q \in Corners}
  \cup {<<Words(<<k, "1", "2", "3">>), Over(k, "", {1}, {2}, 3)>> : k \in {"mine", "digramp", "cuttree"}}
  \cup {<<Words(<<"zone", z, "1", "1", "0", "2", "1">>), Over("zone", z, {1, 2}, {1}, 0)>> :
        z \in {"office", "bedroom", "dormitory"}}
  \cup {<<Words(<<"mine", "1", "2">>), Nothing>>, <<Words(<<"mine", "1", "2", "x">>), Nothing>>,
        <<Words(<<"zone", "1", "2", "3">>), Nothing>>, <<Words(<<"stockpile", "dragon", "1", "2", "3">>), Nothing>>,
        <<Words(<<"mine", "1", "2", "3", "4">>), Nothing>>}

Others ==
  {<<Words(<<"place", i, "1", "2", "3">>), Place(Chair(i), <<1, 2, 3>>)>> :
     i \in {"table", "throne", "altar", "kitchen", "mason", "forge"}}
  \cup {<<<<T("place"), Plural("door"), List(<<"1", "2", "-1">>)>>, Place("door", <<1, 2, -1>>)>>,
        <<Words(<<"place", "bucket", "1", "2", "3">>), Nothing>>,
        <<Words(<<"place", "door", "1", "2">>), Nothing>>,
        <<<<T("camera"), List(<<"1", "+2", "0">>)>>, [kind |-> "camera", item |-> "", position |-> <<1, 2, 0>>]>>,
        <<Words(<<"camera", "1", "2", "3", "3">>), Nothing>>,
        <<Words(<<"brew", "drink", "from", "fruit">>), [kind |-> "brew", item |-> "fruit", quantity |-> 1]>>,
        <<<<T("brew"), T("3"), Plural("plant")>>, [kind |-> "brew", item |-> "plant", quantity |-> 3]>>,
        <<Words(<<"brew", "0", "plant">>), Nothing>>, <<Words(<<"brew", "stone">>), Nothing>>,
        <<Words(<<"pause", "7">>), Nothing>>, <<Words(<<"unpause", "please">>), [kind |-> "unpause"]>>,
        <<Words(<<"help">>), Nothing>>, <<Words(<<"dig", "1", "2", "3">>), Nothing>>,
        <<Words(<<"please">>), Nothing>>, <<<< >>, Nothing>>}
  \cup UNION {{<<<<T("appoint"), T(o), Hash("7")>>, [kind |-> "appoint", office |-> o, unit |-> 7]>>,
               <<Words(<<"appoint", "7", o>>), [kind |-> "appoint", office |-> o, unit |-> 7]>>} :
              o \in {"manager", "bookkeeper", "broker", "doctor", "commander"}}
  \cup {<<Words(<<"appoint", "captain", "7">>), Nothing>>, <<Words(<<"appoint", "manager", "-1">>), Nothing>>,
        <<Words(<<"appoint", "1", "2">>), Nothing>>, <<Words(<<"appoint", "king", "7">>), Nothing>>}

Alone == {[line |-> c1 :> l[1], wish |-> c1 :> l[2], past |-> MaxFaults] :
            l \in Makes \cup Taskats \cup Rectangles \cup Others}
\* A rectangle whose area wraps to 0: eight by eight, with ints of 6 bits.
Wrapping == {[line |-> c1 :> <<T("mine"), List(<<"0", "0", "3">>), List(<<"7", "7">>)>>,
              wish |-> c1 :> Nothing, past |-> MaxFaults]}

TwoCommands(past) ==
  [line |-> c1 :> Words(<<"pause">>) @@ c2 :> Words(<<"unpause">>),
   wish |-> c1 :> [kind |-> "pause"] @@ c2 :> [kind |-> "unpause"], past |-> past]
OneCommand == [line |-> c1 :> Words(<<"pause">>), wish |-> c1 :> [kind |-> "pause"], past |-> 0]
SomeChats == Alone \cup {OneCommand, TwoCommands(1)}
=============================================================================
