---------------------------- MODULE WidgetConfig ----------------------------
(***************************************************************************)
(* The configuration of the widget and its two readings: mergeWidgetConfig  *)
(* of the admin (src/web/admin/src/widgetConfig.ts) and normalizeConfig of  *)
(* the widget (src/web/reviews-widget/reviews-widget.js), each with its own *)
(* defaults and rules.                                                      *)
(*                                                                          *)
(* A configuration is a function from paths to values; one that was stored  *)
(* may lack paths and hold values no rule allows.  The three marketplaces   *)
(* have one policy here, labels and colours one path each.                  *)
(***************************************************************************)
EXTENDS Integers, Sequences, FiniteSets

CONSTANTS
    Junk,       \* a value of no use to a rule
    Numeric     \* what Number makes of the values that are no numbers ("6", true)

ASSUME NumericAssumption == \A value \in DOMAIN Numeric : value \notin Int

Number(value) == IF value \in DOMAIN Numeric THEN Numeric[value] ELSE value

-----------------------------------------------------------------------------
(* The rules of normalizeConfig: paths by the kind of value they take. *)

\* One of the listed values, or else the default.
ChoiceValues ==
    [path \in {"header.distribution.position", "header.distribution.width",
               "header.distribution.density", "layout.loadMoreAction", "form.maxMedia",
               "header.layout", "answers.style", "viewer.chrome", "filters.layout",
               "filters.labelMode", "appearance.preset", "appearance.marketplaceDisplay",
               "layout.pagination", "layout.mode", "layout.mediacard.layout",
               "layout.mediacard.aspect", "layout.mediacard.maxTiles", "layout.video.aspect",
               "layout.player.tile.aspect", "form.mode", "form.ctaMode",
               "customTags.display", "defaults.initialSort", "defaults.marketplace"} |->
        CASE path = "header.distribution.position" -> {"auto", "beside", "below"}
          [] path = "header.distribution.width"    -> {"compact", "full"}
          [] path = "header.distribution.density"  -> {"compact", "normal"}
          [] path = "layout.loadMoreAction"        -> {"inline", "dialog"}
          [] path = "form.maxMedia"                -> {1, 3, 6}
          [] path = "header.layout"                -> {"row", "stack", "center"}
          [] path = "answers.style"                -> {"card", "plain", "bubble", "accent"}
          [] path = "viewer.chrome"                -> {"full", "min"}
          [] path = "filters.layout"               -> {"rows", "dropdowns", "chips"}
          [] path = "filters.labelMode"            -> {"all", "plain"}
          [] path = "appearance.preset"            -> {"default", "native-kit", "minimal",
                                                       "ugc-editorial", "ugc-community", "bazaar"}
          [] path = "appearance.marketplaceDisplay" -> {"text", "icons"}
          [] path = "layout.pagination"            -> {"more", "pages"}
          [] path = "layout.mode"                  -> {"list", "grid", "carousel", "video", "wall"}
          [] path = "layout.mediacard.layout"      -> {"row", "grid", "collage", "one"}
          [] path = "layout.mediacard.aspect"      -> {"16:10", "1:1", "4:5"}
          [] path = "layout.mediacard.maxTiles"    -> {3, 4, 6}
          [] path \in {"layout.video.aspect", "layout.player.tile.aspect"}
                                                   -> {"9:16", "3:4", "1:1"}
          [] path = "form.mode"                    -> {"inline", "button"}
          [] path = "form.ctaMode"                 -> {"section", "header", "both"}
          [] path = "customTags.display"           -> {"chips", "string"}
          [] path = "defaults.initialSort"         -> {"relevance", "newest", "highest",
                                                       "lowest", "media"}
          [] path = "defaults.marketplace"         -> {"all", "wb", "ozon", "ym"}]

\* A number within bounds: clampNumber.  The scale is in hundredths.
Ranges ==
    [path \in {"typography.scale", "typography.radius", "layout.columns", "layout.pageSize",
               "layout.video.tileWidth", "layout.player.tile.width",
               "layout.player.autoAdvance.intervalSec", "layout.wall.minTileWidth",
               "layout.wall.gap", "layout.wall.maxTiles"} |->
        CASE path = "typography.scale"          -> <<85, 125>>
          [] path = "typography.radius"         -> <<0, 24>>
          [] path = "layout.columns"            -> <<1, 4>>
          [] path = "layout.pageSize"           -> <<1, 24>>
          [] path \in {"layout.video.tileWidth", "layout.player.tile.width"} -> <<120, 200>>
          [] path = "layout.player.autoAdvance.intervalSec" -> <<4, 10>>
          [] path = "layout.wall.minTileWidth"  -> <<140, 320>>
          [] path = "layout.wall.gap"           -> <<0, 48>>
          [] path = "layout.wall.maxTiles"      -> <<1, 96>>]

\* On unless it is false, and off unless it is true.
OnFlags ==
    {"header.elements.title", "header.elements.rating", "header.elements.count",
     "header.elements.recommend", "header.elements.distribution", "answers.showTitle",
     "viewer.showOriginal", "viewer.showCounter", "layout.mediacard.plusMore",
     "layout.mediacard.videoBadge", "layout.video.showAuthor", "layout.video.showSourceBadge",
     "layout.video.autoplayInViewer", "layout.video.productPanel", "layout.player.enabled",
     "layout.player.showAuthor", "layout.player.showLikes", "layout.player.showSourceBadge",
     "layout.player.autoAdvance.enabled", "layout.player.autoAdvance.pauseOnHover",
     "layout.tileHover", "visibility.videoRail", "form.fields.title", "form.fields.email",
     "form.fields.media", "form.fields.prosCons", "customTags.chipLabel",
     "marketplacePolicy.showSourceLinks"}

OffFlags == {"filters.collapsible", "filters.multiSelect", "filters.hideRare",
             "marketplacePolicy.hidden"}

\* Texts that fall back to the default when blank, and texts that may be blank.
Titles == {"header.title", "form.title", "form.submitLabel", "form.cta.text", "answers.color"}
Notes == {"answers.title", "appearance.viewAllHref", "form.mediaHint", "form.cta.hint",
          "marketplacePolicy.label"}

\* Passed on as they are.
Plain == {"theme", "theme.dark", "typography.fontFamily", "typography.inheritSite",
          "typography.density", "visibility.photos", "visibility.ratingDistribution",
          "visibility.filters", "visibility.questions", "labels", "defaults.minRating",
          "defaults.requireText", "defaults.requirePhoto", "defaults.textFirst",
          "defaults.photoFirst", "defaults.onlyWithAnswer", "ranking", "layout.player.title",
          "visibility.sellerAnswers", "visibility.prosCons", "visibility.marketplaceBadges"}

Lists == {"layout.sections", "customFields"}

Paths == DOMAIN ChoiceValues \cup DOMAIN Ranges \cup OnFlags \cup OffFlags \cup Titles \cup Notes
         \cup Plain \cup Lists

-----------------------------------------------------------------------------
(* Defaults *)

DefaultSections == <<"summary", "player", "media", "filters", "list", "form">>

Sections == {DefaultSections[i] : i \in 1 .. Len(DefaultSections)}

\* defaultWidgetConfig of the admin and defaultConfig of the widget agree.
DefaultOf(path) ==
    CASE path = "header.distribution.position" -> "auto"
      [] path \in {"header.distribution.width", "header.distribution.density"} -> "compact"
      [] path = "layout.loadMoreAction" -> "inline"
      [] path = "form.maxMedia" -> 3
      [] path = "header.layout" -> "row"
      [] path = "answers.style" -> "card"
      [] path = "viewer.chrome" -> "full"
      [] path = "filters.layout" -> "rows"
      [] path = "filters.labelMode" -> "all"
      [] path = "appearance.preset" -> "default"
      [] path = "appearance.marketplaceDisplay" -> "text"
      [] path = "layout.pagination" -> "more"
      [] path = "layout.mode" -> "list"
      [] path = "layout.mediacard.layout" -> "row"
      [] path = "layout.mediacard.aspect" -> "16:10"
      [] path = "layout.mediacard.maxTiles" -> 4
      [] path \in {"layout.video.aspect", "layout.player.tile.aspect"} -> "9:16"
      [] path = "form.mode" -> "inline"
      [] path = "form.ctaMode" -> "section"
      [] path = "customTags.display" -> "chips"
      [] path = "defaults.initialSort" -> "relevance"
      [] path = "defaults.marketplace" -> "all"
      [] path = "typography.scale" -> 100
      [] path = "typography.radius" -> 16
      [] path = "layout.columns" -> 2
      [] path = "layout.pageSize" -> 3
      [] path \in {"layout.video.tileWidth", "layout.player.tile.width"} -> 156
      [] path = "layout.player.autoAdvance.intervalSec" -> 5
      [] path = "layout.wall.minTileWidth" -> 200
      [] path = "layout.wall.gap" -> 12
      [] path = "layout.wall.maxTiles" -> 24
      [] path \in OnFlags -> TRUE
      [] path \in OffFlags -> FALSE
      [] path \in Titles -> "default"
      [] path = "form.mediaHint" -> "default"
      [] path = "form.cta.hint" -> "default"
      [] path \in {"answers.title", "appearance.viewAllHref", "marketplacePolicy.label"} -> ""
      [] path \in {"theme", "labels", "ranking", "layout.player.title"} -> "default"
      [] path = "typography.fontFamily" -> ""
      [] path = "typography.density" -> "comfortable"
      [] path = "defaults.minRating" -> 4
      [] path \in {"visibility.photos", "visibility.ratingDistribution", "visibility.filters",
                   "visibility.questions", "visibility.sellerAnswers",
                   "visibility.prosCons", "visibility.marketplaceBadges",
                   "defaults.requireText", "defaults.textFirst",
                   "defaults.photoFirst"} -> TRUE
      [] path \in {"theme.dark", "typography.inheritSite", "defaults.requirePhoto",
                   "defaults.onlyWithAnswer"} -> FALSE
      [] path = "layout.sections" -> DefaultSections
      [] path = "customFields" -> <<>>

Default == [path \in Paths |-> DefaultOf(path)]

Given(raw, path) == IF path \in DOMAIN raw THEN raw[path] ELSE Default[path]

Off(raw, path) == path \in DOMAIN raw /\ raw[path] = FALSE

-----------------------------------------------------------------------------
(* Lists *)

Listed(list, id) == \E i \in 1 .. Len(list) : list[i] = id

\* What a filter leaves of a list: its elements at some of the places.
Picked(list, places) ==
    LET upTo[i \in 0 .. Len(list)] ==
            IF i = 0 THEN <<>>
            ELSE IF i \in places THEN Append(upTo[i - 1], list[i]) ELSE upTo[i - 1]
    IN  upTo[Len(list)]

\* The known sections of a list, each once, and the list of reviews always.
KnownSections(list, dropped) ==
    LET out == Picked(list, {i \in 1 .. Len(list) :
                                /\ list[i] \in Sections \ dropped
                                /\ \A j \in 1 .. i - 1 : list[j] # list[i]})
    IN  IF Listed(out, "list") THEN out ELSE Append(out, "list")

\* A configuration from before the section list says by its visibility what it
\* does not show.
LegacyHidden(raw) ==
    (IF Off(raw, "visibility.ratingDistribution") THEN {"summary"} ELSE {})
    \cup (IF Off(raw, "visibility.videoRail") THEN {"player"} ELSE {})
    \cup (IF Off(raw, "visibility.photos") THEN {"media"} ELSE {})
    \cup (IF Off(raw, "visibility.filters") THEN {"filters"} ELSE {})

NormalizeSections(raw) ==
    IF "layout.sections" \in DOMAIN raw
    THEN KnownSections(raw["layout.sections"], {})
    ELSE KnownSections(DefaultSections, LegacyHidden(raw))

\* A field of the form: what it is, whether it is named, and its options that
\* are not blank.
Field(id, named, type, options) ==
    [id |-> id, named |-> named, type |-> type, options |-> options]

\* The first six, complete, each id once; a select or chips offer two options
\* or more and twelve at most.
NormalizeCustomFields(list) ==
    LET first == SubSeq(list, 1, IF Len(list) < 6 THEN Len(list) ELSE 6)
        seen(i) == \E j \in 1 .. i - 1 :
                        first[j].id = first[i].id /\ first[j].named /\ first[j].type # Junk
        kept == {i \in 1 .. Len(first) :
                    /\ first[i].named /\ first[i].type # Junk /\ ~seen(i)
                    /\ first[i].type = "text" \/ first[i].options >= 2}
        out == Picked(first, kept)
    IN  [i \in 1 .. Len(out) |-> [out[i] EXCEPT !.options = IF @ > 12 THEN 12 ELSE @]]

-----------------------------------------------------------------------------
(* The two readings *)

ChoiceOf(raw, path) ==
    IF path \in DOMAIN raw /\ raw[path] \in ChoiceValues[path] THEN raw[path] ELSE Default[path]

\* The editor checks only these choices; the others it passes on.
CheckedByEditor == {"header.distribution.position", "header.distribution.width",
                    "header.distribution.density", "layout.loadMoreAction", "form.maxMedia"}

\* Of these it reads the number of photos with Number, the widget none.
EditorChoice(raw, path) ==
    LET value == IF path = "form.maxMedia" THEN Number(raw[path]) ELSE raw[path]
    IN  IF path \in DOMAIN raw /\ value \in ChoiceValues[path] THEN value ELSE Default[path]

\* The element of the header follows the older visibility until it is set itself.
DistributionElement(raw) ==
    IF "header.elements.distribution" \in DOMAIN raw
    THEN raw["header.elements.distribution"] ELSE ~Off(raw, "visibility.ratingDistribution")

\* Mutant: the editor fills in the default whatever the visibility says.
MergeIgnoringVisibility(raw) ==
    [path \in Paths |->
        CASE path \in CheckedByEditor     -> EditorChoice(raw, path)
          [] path = "form.fields.email"   -> TRUE
          [] path = "layout.sections"     -> NormalizeSections(raw)
          [] path = "customFields"        -> NormalizeCustomFields(Given(raw, path))
          [] OTHER                        -> Given(raw, path)]

MergeWidgetConfig(raw) ==
    [path \in Paths |->
        CASE path \in CheckedByEditor     -> EditorChoice(raw, path)
          [] path = "header.elements.distribution" -> DistributionElement(raw)
          [] path = "form.fields.email"   -> TRUE
          [] path = "layout.sections"     -> NormalizeSections(raw)
          [] path = "customFields"        -> NormalizeCustomFields(Given(raw, path))
          [] OTHER                        -> Given(raw, path)]

ClampNumber(value, range, fallback) ==
    IF value = Junk THEN fallback
    ELSE IF value < range[1] THEN range[1] ELSE IF value > range[2] THEN range[2] ELSE value

\* What the site makes of a value that stands for itself.
NormalizedValue(path, value) ==
    CASE path \in DOMAIN Ranges -> ClampNumber(value, Ranges[path], Default[path])
      [] path \in OnFlags \cup {"marketplacePolicy.hidden"} -> value # FALSE
      [] path \in OffFlags \ {"marketplacePolicy.hidden"} -> value = TRUE
      [] path \in Titles -> IF value \in {"", Junk} THEN Default[path] ELSE value
      [] path \in Notes  -> IF value = Junk THEN "" ELSE value
      [] OTHER           -> value

NormalizeConfig(raw) ==
    [path \in Paths |->
        CASE path \in DOMAIN ChoiceValues      -> ChoiceOf(raw, path)
          [] path = "header.elements.distribution" -> DistributionElement(raw) # FALSE
          [] path = "form.fields.email"   -> TRUE
          [] path = "layout.sections"     -> NormalizeSections(raw)
          [] path = "customFields"        -> NormalizeCustomFields(Given(raw, path))
          [] OTHER                        -> NormalizedValue(path, Given(raw, path))]

=============================================================================
