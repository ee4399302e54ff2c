--------------------------- MODULE OverseerGrammar ---------------------------
(***************************************************************************)
(* What a !df line asks for, and what the executor has dfhack-run do:      *)
(* overseer/parse.go with the parsers and submitters of overseer/verbs.    *)
(* A line is a sequence of lower-case tokens; a token is what remains of   *)
(* it when its mark is set apart: a leading "#", a trailing "s", or the    *)
(* commas and parentheses of a list of coordinates.  A script is the       *)
(* operation it performs; the names Dwarf Fortress has for things, and its *)
(* numbering of levels, are left out.                                      *)
(***************************************************************************)
EXTENDS Integers, FiniteSets, SequencesExt

CONSTANTS
  Numerals,  \* what strconv.Atoi reads, by its text
  Word,      \* the values an int has: 2^64
  MaxArea    \* regionVerbMaxArea

\* The tables: their keys, and the few values two keys share.
itemVocab == {"table", "bed", "door", "chair", "throne", "coffin", "block", "cabinet", "chest",
  "statue", "floodgate", "bucket", "barrel", "ash", "charcoal", "armorstand", "grate", "hatchcover",
  "millstone", "quern", "slab", "weaponrack", "altar", "bookcase", "pedestal", "cage", "animaltrap",
  "bin", "crutch", "splint", "pipesection", "minecart", "stepladder", "wheelbarrow", "shield",
  "buckler", "trainingaxe", "trainingspear", "trainingsword", "corkscrew", "menacingspike", "spikedball"}
itemToSubtypeJob == {"altar", "bookcase", "pedestal", "minecart", "stepladder", "wheelbarrow", "shield",
  "buckler", "trainingaxe", "trainingspear", "trainingsword", "corkscrew", "menacingspike", "spikedball"}
itemToJobType == {"table", "bed", "door", "chair", "throne", "coffin", "block", "cabinet", "chest",
  "statue", "floodgate", "bucket", "barrel", "ash", "charcoal", "armorstand", "grate", "hatchcover",
  "millstone", "quern", "slab", "weaponrack", "cage", "animaltrap", "bin", "crutch", "splint", "pipesection"}
placeableItemToBuilding == {"table", "bed", "door", "chair", "throne", "coffin", "cabinet", "chest",
  "statue", "floodgate", "armorstand", "weaponrack", "hatchcover", "grate", "slab", "bookcase", "pedestal",
  "altar", "cage", "animaltrap", "quern", "millstone", "carpenter", "farmer", "mason", "craftsdwarf",
  "jeweler", "forge", "magmaforge", "bowyer", "mechanic", "siegeworkshop", "butcher", "leatherwork",
  "tanner", "clothier", "fishery", "still", "loom", "kennel", "ashery", "kitchen", "dyer", "woodfurnace",
  "smelter", "glassfurnace", "kiln", "magmasmelter", "magmaglassfurnace", "magmakiln"}
Named(item) == IF item = "throne" THEN "chair" ELSE item
itemMaterialNotApplicable == {"ash", "charcoal"}
itemMaterialAllowlist == [item \in {"bed", "barrel"} |-> {"wood"}]
taskatMaterialLua == {"wood", "bone", "leather", "cloth", "shell", "metal", "stone"}
materialToWorkorderSpec == taskatMaterialLua \cup {"iron", "copper", "bronze", "steel", "silver", "gold"}
materialVocab == materialToWorkorderSpec
stockpileCategories == {"all", "ammo", "animal", "armor", "bar", "cloth", "coin", "corpse", "good", "food",
  "furniture", "gem", "leather", "refuse", "sheet", "stone", "weapon", "wood"}
zoneTypes == {"office", "bedroom", "dormitory"}
nobleVocab == {"manager", "bookkeeper", "broker", "doctor", "commander"}
officeToPositionCode == nobleVocab
nobleDeferred == {"captain"}
brewSourceToReaction == {"fruit", "plant"}
fillerWords == {"a", "an", "the", "some", "me", "us", "please", "drink", "from"}
-----------------------------------------------------------------------------
\* The bot drops the line, answers it itself, or sends an action.
Silence == [kind |-> "silence"]
Reply == [kind |-> "reply"]
When(accepted, action) == IF accepted THEN action ELSE Silence

One(t) == Len(t.parts) = 1
Text(t) == IF t.mark = "" /\ One(t) THEN t.parts[1] ELSE ""
Singular(t) == IF t.mark \in {"", "s"} /\ One(t) THEN t.parts[1] ELSE ""
Bare(t) == IF t.mark = "#" THEN [t EXCEPT !.mark = ""] ELSE t
IsNumber(t) == Text(t) \in DOMAIN Numerals
Number(t) == Numerals[Text(t)]

\* [qty]: a leading number, 1 without.
Counts(ts) == ts # << >> /\ IsNumber(Head(ts))
Quantity(ts) == IF Counts(ts) THEN Number(Head(ts)) ELSE 1
Counted(ts) == IF Counts(ts) THEN Tail(ts) ELSE ts
Material(t) == IF Text(t) = "wooden" THEN "wood" ELSE Text(t)

\* extractCoordInts
Texts(ts) == FlattenSeq([i \in DOMAIN ts |-> ts[i].parts])
AreInts(ts) == /\ \A i \in DOMAIN ts : ts[i].mark \in {"", ","}
               /\ \A i \in DOMAIN Texts(ts) : Texts(ts)[i] \in DOMAIN Numerals
Ints(ts) == [i \in DOMAIN Texts(ts) |-> Numerals[Texts(ts)[i]]]

\* parseRegionVerb: the second corner's level is ignored; ints wrap.
Wrap(n) == ((n + Word \div 2) % Word) - Word \div 2
Abs(n) == IF n < 0 THEN Wrap(-n) ELSE n
Side(a, b) == Wrap(Abs(Wrap(b - a)) + 1)
Region(ts) ==
  LET n == Ints(ts) far == IF Len(n) = 3 THEN 1 ELSE 4 IN
  [x1 |-> n[1], y1 |-> n[2], z |-> n[3], x2 |-> n[far], y2 |-> n[far + 1]]
Fits(r) == Wrap(Side(r.x1, r.x2) * Side(r.y1, r.y2)) <= MaxArea
ParseRegionVerb(kind, item, ts) ==
  When(AreInts(ts) /\ Len(Ints(ts)) \in {3, 5, 6} /\ Fits(Region(ts)),
       [kind |-> kind, item |-> item, region |-> Region(ts)])
ParseArea(kind, items, ts) ==
  When(ts # << >> /\ Singular(Head(ts)) \in items, ParseRegionVerb(kind, Singular(Head(ts)), Tail(ts)))

Allowed(item, material) ==
  /\ material \in materialVocab
  /\ item \in DOMAIN itemMaterialAllowlist => material \in itemMaterialAllowlist[item]
ParseManufacture(ts) ==
  LET r == Counted(ts)  item == Singular(Last(r))  fixed == item \in itemMaterialNotApplicable IN
  When(/\ Quantity(ts) > 0 /\ r # << >> /\ item \in itemVocab
       /\ Len(r) <= 2 /\ (fixed \/ (Len(r) = 2 /\ Allowed(item, Material(r[1])))),
       [kind |-> "make", item |-> item, material |-> IF fixed THEN "" ELSE Material(r[1]),
        quantity |-> Quantity(ts)])

\* taskat takes any material of the vocabulary, and leaves more to the executor.
ParseTaskat(ts) ==
  LET r == Counted(Tail(ts))  item == Singular(Last(r)) IN
  When(/\ Len(ts) >= 3 /\ ts[1].mark = "#" /\ IsNumber(Bare(ts[1])) /\ Number(Bare(ts[1])) >= 0
       /\ Quantity(Tail(ts)) > 0 /\ Len(r) = 2
       /\ item \in itemVocab \ itemMaterialNotApplicable /\ Material(r[1]) \in materialVocab,
       [kind |-> "taskat", at |-> Number(Bare(ts[1])), item |-> item, material |-> Material(r[1]),
        quantity |-> Quantity(Tail(ts))])

ParseBrew(ts) ==
  LET r == Counted(ts) IN
  When(Quantity(ts) > 0 /\ Len(r) = 1 /\ Singular(r[1]) \in brewSourceToReaction,
       [kind |-> "brew", item |-> Singular(r[1]), quantity |-> Quantity(ts)])

ParsePosition(kind, item, ts) ==
  When(AreInts(ts) /\ Len(Ints(ts)) = 3, [kind |-> kind, item |-> item, position |-> Ints(ts)])
ParsePlace(ts) ==
  When(ts # << >> /\ Singular(Head(ts)) \in placeableItemToBuilding,
       ParsePosition("place", Singular(Head(ts)), Tail(ts)))

\* Either order; the one number is the unit.
ParseAppoint(ts) ==
  LET n == {i \in 1..2 : IsNumber(Bare(ts[i]))}
      unit == CHOOSE i \in n : TRUE
      office == Text(Bare(ts[3 - unit])) IN
  IF Len(ts) # 2 \/ Cardinality(n) # 1 THEN Silence
  ELSE IF Number(Bare(ts[unit])) < 0 THEN Silence
  ELSE IF office \in nobleDeferred THEN Reply
  ELSE When(office \in nobleVocab, [kind |-> "appoint", office |-> office, unit |-> Number(Bare(ts[unit]))])

ParseMine(ts) == ParseRegionVerb("mine", "", ts)
ParseChannel(ts) == ParseRegionVerb("channel", "", ts)
ParseDigRamp(ts) == ParseRegionVerb("digramp", "", ts)
ParseCutTree(ts) == ParseRegionVerb("cuttree", "", ts)
ParseStockpile(ts) == ParseArea("stockpile", stockpileCategories, ts)
ParseZone(ts) == ParseArea("zone", zoneTypes, ts)
ParseCamera(ts) == ParsePosition("camera", "", ts)
ParsePause(ts) == When(ts = << >>, [kind |-> "pause"])
ParseUnpause(ts) == When(ts = << >>, [kind |-> "unpause"])
ParseHelp(ts) == When(ts = << >>, Reply)

ParseCommand(line) ==
  LET ts == SelectSeq(line, LAMBDA t : Text(t) \notin fillerWords)
      verb == Text(Head(ts))  rest == Tail(ts) IN
  IF ts = << >> THEN Silence
  ELSE CASE verb = "make" -> ParseManufacture(rest)
         [] verb = "pause" -> ParsePause(rest)
         [] verb = "unpause" -> ParseUnpause(rest)
         [] verb = "camera" -> ParseCamera(rest)
         [] verb = "help" -> ParseHelp(rest)
         [] verb = "place" -> ParsePlace(rest)
         [] verb = "brew" -> ParseBrew(rest)
         [] verb = "mine" -> ParseMine(rest)
         [] verb = "channel" -> ParseChannel(rest)
         [] verb = "digramp" -> ParseDigRamp(rest)
         [] verb = "cuttree" -> ParseCutTree(rest)
         [] verb = "stockpile" -> ParseStockpile(rest)
         [] verb = "zone" -> ParseZone(rest)
         [] verb = "taskat" -> ParseTaskat(rest)
         [] verb = "appoint" -> ParseAppoint(rest)
         [] OTHER -> Silence
-----------------------------------------------------------------------------
\* What dfhack-run is told to do, or the error Submit returns without running it.
Refused == [kind |-> "refused"]
Known(name, names, op) == IF name \in names THEN op ELSE Refused

SubmitManufacture(a) ==
  IF a.item \in itemToSubtypeJob \cup itemToJobType /\ a.material \in materialToWorkorderSpec \cup {""}
  THEN [a EXCEPT !.item = Named(@)] ELSE Refused

\* taskat has no subtypes and no single metals, and takes workshop 0 for none.
SubmitTaskat(a) ==
  IF a.at # 0 /\ a.item \in itemToJobType /\ a.material \in taskatMaterialLua
  THEN [a EXCEPT !.item = Named(@)] ELSE Refused

SubmitPlace(a) == Known(a.item, placeableItemToBuilding, [a EXCEPT !.item = Named(@)])
SubmitBrew(a) == Known(a.item, brewSourceToReaction, a)
SubmitAppoint(a) == Known(a.office, officeToPositionCode, a)
SubmitCamera(a) == a
SubmitPause(a) == a

\* The corners are put in order.
Span(a, b) == IF a <= b THEN a..b ELSE b..a
SubmitOver(a, tiles) == [kind |-> a.kind, item |-> a.item, z |-> a.region.z, tiles |-> tiles]
\* Mutant: from the corner named first to the other.
SubmitRegionAsNamed(a) ==
  SubmitOver(a, (a.region.x1..a.region.x2) \X (a.region.y1..a.region.y2))
SubmitRegion(a) ==
  SubmitOver(a, Span(a.region.x1, a.region.x2) \X Span(a.region.y1, a.region.y2))
SubmitCutTree(a) == SubmitRegion(a)
SubmitStockpile(a) == Known(a.item, stockpileCategories, SubmitRegion(a))
SubmitZone(a) == Known(a.item, zoneTypes, SubmitRegion(a))

Submitted(a) ==
  CASE a.kind = "make" -> SubmitManufacture(a)
    [] a.kind \in {"pause", "unpause"} -> SubmitPause(a)
    [] a.kind = "camera" -> SubmitCamera(a)
    [] a.kind = "place" -> SubmitPlace(a)
    [] a.kind = "brew" -> SubmitBrew(a)
    [] a.kind \in {"mine", "channel", "digramp"} -> SubmitRegion(a)
    [] a.kind = "cuttree" -> SubmitCutTree(a)
    [] a.kind = "stockpile" -> SubmitStockpile(a)
    [] a.kind = "zone" -> SubmitZone(a)
    [] a.kind = "appoint" -> SubmitAppoint(a)
    [] a.kind = "taskat" -> SubmitTaskat(a)
    [] OTHER -> Refused
=============================================================================
