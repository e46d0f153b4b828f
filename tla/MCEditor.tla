------------------------------ MODULE MCEditor ------------------------------
(* Instances of Editor for TLC. *)
EXTENDS Editor, TLC

CONSTANTS TextSix, FlagOn    \* "6" and true, where a number is expected

MCNumeric == TextSix :> 6 @@ FlagOn :> 1

\* The values a stored configuration may hold at a path.
MCValues(path) ==
    IF path = "form.maxMedia" THEN ChoiceValues[path] \cup DOMAIN Numeric \cup {Junk}
    ELSE IF path \in DOMAIN ChoiceValues THEN ChoiceValues[path] \cup {Junk}
    ELSE IF path \in DOMAIN Ranges
    THEN {Ranges[path][1] - 1, Ranges[path][1], Ranges[path][2], Ranges[path][2] + 1, Junk}
    ELSE IF path \in OnFlags \cup OffFlags THEN {TRUE, FALSE, Junk}
    ELSE IF path \in Titles \ {"header.title"} THEN {"", "shop", Junk}
    ELSE IF path \in Notes THEN {"", "shop", Junk}
    ELSE IF path = "layout.sections"
    THEN {<<>>, <<"form", "list">>, <<"list", "list", "summary", Junk>>}
    ELSE IF path = "customFields"
    THEN {<<Field(1, TRUE, "select", 2), Field(1, TRUE, "text", 0)>>,
          <<Field(1, FALSE, "text", 0), Field(2, TRUE, "chips", 14), Field(3, TRUE, "select", 1)>>,
          <<Field(1, TRUE, "select", 1), Field(1, TRUE, "text", 0), Field(2, TRUE, Junk, 2)>>}
    ELSE {}

MCSingles == UNION {{path :> value : value \in MCValues(path)} : path \in Paths}

\* Configurations from before the list of sections.
MCLegacy ==
    [{"visibility.ratingDistribution", "visibility.videoRail", "visibility.photos",
      "visibility.filters"} -> BOOLEAN]
    \cup [{"visibility.ratingDistribution", "header.elements.distribution"} -> BOOLEAN]

MCTitled(c) == "header.title" :> c

MCBroken ==
    MCTitled("product") @@ ("visibility.videoRail" :> FALSE) @@ ("layout.mode" :> Junk)
    @@ ("customFields" :> <<Field(1, FALSE, "select", 0), Field(2, TRUE, "text", 0)>>)

MCShop(products) == {[product |-> p, homepage |-> MCTitled("homepage")] : p \in products}

MCEdited == MCShop({MCBroken})
MCStored == MCEdited \cup MCShop(MCSingles \cup MCLegacy \cup {<<>>})

MCEdits ==
    {<<"section", "player">>, <<"player">>, <<"move", 1, 2>>, <<"preset", "bazaar">>,
     <<"add">>, <<"complete">>, <<"remove">>, <<"flag", "layout.tileHover">>,
     <<"set", "form.title", "">>}

\* What NeverCrossed needs to mean anything.
ASSUME MCTitles == TitlesTell
=============================================================================
