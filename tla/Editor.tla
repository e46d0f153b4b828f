------------------------------- MODULE Editor -------------------------------
(***************************************************************************)
(* The editor of the widget (src/web/admin/src/pages/Editor.tsx): it loads  *)
(* the active configuration of a context with its list of versions, keeps   *)
(* what the administrator changes as a draft in the browser's storage with  *)
(* an undo history, shows it in a live preview, publishes it and rolls back *)
(* to an older version.                                                     *)
(*                                                                          *)
(* An action is one callback with the renders and effects it causes.  A     *)
(* request is answered after the server has served it; the page it belongs  *)
(* to may be gone by then, another one open on the same drafts.             *)
(***************************************************************************)
EXTENDS WidgetConfig

LOCAL INSTANCE TLC

CONSTANTS
    Stored,         \* what may be stored for the contexts at the start
    Edits,          \* the panels the administrator uses
    Edited,         \* those that are edited; the others are only shown (a bound)
    None,           \* no answer, nothing mounted, no context
    HistoryLimit,   \* 60: steps that can be undone
    MayFail,        \* requests may fail
    MaxChanges      \* bound on edits, operations and pages opened

Contexts == {"product", "homepage"}

ASSUME EditorAssumption ==
    /\ \A s \in Stored : DOMAIN s = Contexts
    /\ HistoryLimit \in Nat \ {0} /\ MaxChanges \in Nat /\ MayFail \in BOOLEAN

VARIABLES
    versions,       \* the server: the published configurations of a context
    active,         \* and the number of the active one, 0 for none
    drafts,         \* localStorage, per context
    open,           \* the editor is mounted
    context,        \* contextRef
    loadedContext,  \* loadedContextRef
    loading,        \* the rail shows "loading"
    requests,       \* loads on their way; one is current (requestRef)
    cfg, baseline,  \* cfgRef and baselineRef
    history,        \* historyRef, newest last
    live,           \* the list of versions: how many it has, and the active one
    operation,      \* operationRef, with its request
    previewTimer,   \* the debounce of the preview
    preview,        \* the preview: its frame, its configuration, what is mounted
    orphans,        \* operations of editors that are gone
    foreign,        \* contexts those have touched behind the open editor
    changes

server == <<versions, active>>
page == <<open, context, loadedContext, loading, requests>>
draft == <<cfg, baseline, history, drafts>>
shown == <<previewTimer, preview>>
vars == <<server, page, draft, live, operation, shown, orphans, foreign, changes>>

Change == changes < MaxChanges /\ changes' = changes + 1

-----------------------------------------------------------------------------
(* The panels: what a control makes of the configuration *)

Without(list, id) == Picked(list, {i \in 1 .. Len(list) : list[i] # id})

SetPath(c, path, value) == [c EXCEPT ![path] = value]

\* SectionsGroup: a section goes, or comes back at the end; the player's own
\* switch follows.
ToggleSection(c, id) ==
    LET sections == c["layout.sections"]
        enable   == ~Listed(sections, id)
        next     == IF enable THEN Append(sections, id) ELSE Without(sections, id)
    IN  [c EXCEPT !["layout.sections"] = next,
                  !["layout.player.enabled"] = IF id = "player" THEN enable ELSE @]

\* The player's switch of the look panel counts as on only when both are.
TogglePlayer(c) ==
    LET sections == c["layout.sections"]
        enable   == ~(c["layout.player.enabled"] = TRUE /\ Listed(sections, "player"))
        rest     == Without(sections, "player")
    IN  [c EXCEPT !["layout.sections"] = IF enable THEN Append(rest, "player") ELSE rest,
                  !["layout.player.enabled"] = enable]

\* move: the section at one place is put at another.
MoveSection(c, from, to) ==
    LET sections == c["layout.sections"]
        rest     == [i \in 1 .. Len(sections) - 1 |->
                        IF i < from THEN sections[i] ELSE sections[i + 1]]
    IN  IF from \in 1 .. Len(sections) /\ to \in 1 .. Len(sections)
        THEN SetPath(c, "layout.sections",
                     SubSeq(rest, 1, to - 1) \o <<sections[from]>>
                     \o SubSeq(rest, to, Len(rest)))
        ELSE c

\* applyPresetFrom: the look goes with the preset, the sections stay.
Presets ==
    [default   |-> <<"default", "list", 2, "row", "section", 16, "comfortable">>,
     editorial |-> <<"ugc-editorial", "carousel", 2, "center", "header", 4, "comfortable">>,
     community |-> <<"ugc-community", "wall", 3, "stack", "both", 14, "comfortable">>,
     bazaar    |-> <<"bazaar", "grid", 3, "row", "section", 6, "compact">>]

ApplyPreset(c, id) ==
    LET p == Presets[id]
    IN  [c EXCEPT !["appearance.preset"] = p[1], !["layout.mode"] = p[2],
                  !["layout.columns"] = p[3], !["header.layout"] = p[4],
                  !["form.ctaMode"] = p[5], !["typography.radius"] = p[6],
                  !["typography.density"] = p[7], !["typography.scale"] = 100,
                  !["theme"] = id]

\* CustomFieldsEditor: a new field is incomplete until it is named and has its
\* options.
AddField(c) ==
    LET fields == c["customFields"]
    IN  IF Len(fields) >= 6 THEN c
        ELSE SetPath(c, "customFields",
                     Append(fields, Field(Len(fields) + 1, FALSE, "select", 0)))

CompleteField(c) ==
    LET fields == c["customFields"]
    IN  IF fields = <<>> THEN c
        ELSE SetPath(c, "customFields",
                     [fields EXCEPT ![Len(fields)].named = TRUE, ![Len(fields)].options = 2])

RemoveField(c) ==
    LET fields == c["customFields"]
    IN  IF fields = <<>> THEN c
        ELSE SetPath(c, "customFields", SubSeq(fields, 1, Len(fields) - 1))

ToggleFlag(c, path) == SetPath(c, path, c[path] = FALSE)

\* The values the selects, switches and sliders of the panels offer.  A slider
\* stands for its ends and one step, the palettes and colours for one theme.
Flags(paths) == [path \in paths |-> BOOLEAN]

HeaderControls ==
    "header.layout" :> {"row", "stack", "center"}
    @@ "header.distribution.position" :> {"auto", "beside", "below"}
    @@ "header.distribution.width" :> {"compact", "full"}
    @@ "header.distribution.density" :> {"compact", "normal"}
    @@ Flags({"header.elements.title", "header.elements.rating", "header.elements.count",
              "header.elements.recommend", "header.elements.distribution"})

ViewControls ==
    "typography.scale" :> {85, 90, 125} @@ "typography.radius" :> {0, 2, 24}
    @@ "typography.density" :> {"compact", "comfortable"}
    @@ "layout.mode" :> {"list", "grid", "carousel", "video", "wall"}
    @@ "layout.columns" :> 1 .. 4 @@ "layout.pageSize" :> {3, 6, 9, 12}
    @@ "layout.loadMoreAction" :> {"inline", "dialog"} @@ "theme" :> {"palette", "color"}

MediaControls ==
    "layout.mediacard.layout" :> {"row", "grid", "collage", "one"}
    @@ "layout.mediacard.aspect" :> {"16:10", "1:1", "4:5"}
    @@ "layout.mediacard.maxTiles" :> {3, 4, 6}
    @@ Flags({"layout.mediacard.plusMore", "layout.mediacard.videoBadge"})

PlayerControls ==
    "layout.player.tile.aspect" :> {"9:16", "3:4", "1:1"}
    @@ "layout.player.tile.width" :> {120, 124, 200}
    @@ "layout.player.autoAdvance.intervalSec" :> 4 .. 10
    @@ Flags({"layout.player.showAuthor", "layout.player.showLikes",
              "layout.player.showSourceBadge", "layout.player.autoAdvance.enabled",
              "layout.player.autoAdvance.pauseOnHover"})

AdvancedControls ==
    "typography.fontFamily" :> {"", "Manrope", "custom"}
    @@ "layout.pagination" :> {"more", "pages"}
    @@ "appearance.marketplaceDisplay" :> {"text", "icons"}
    @@ Flags({"theme.dark", "typography.inheritSite", "visibility.marketplaceBadges",
              "visibility.photos", "visibility.sellerAnswers", "visibility.prosCons",
              "visibility.questions", "layout.tileHover"})

VideoControls ==
    "layout.video.aspect" :> {"9:16", "3:4", "1:1"}
    @@ "layout.video.tileWidth" :> {120, 124, 200}
    @@ "answers.style" :> {"card", "plain", "bubble", "accent"}
    @@ "viewer.chrome" :> {"full", "min"}
    @@ Flags({"layout.video.showAuthor", "layout.video.showSourceBadge", "answers.showTitle",
              "layout.video.productPanel", "viewer.showOriginal", "viewer.showCounter",
              "layout.video.autoplayInViewer"})

RuleControls ==
    "defaults.minRating" :> {0, 4, 5} @@ "defaults.marketplace" :> {"all", "wb", "ozon", "ym"}
    @@ "defaults.initialSort" :> {"relevance", "newest", "highest", "lowest", "media"}
    @@ Flags({"defaults.requireText", "defaults.requirePhoto", "defaults.onlyWithAnswer",
              "defaults.photoFirst", "defaults.textFirst"})

\* moveRanking and the direction of a rule.
RankingControls == "ranking" :> {"moved", "turned"}

FilterControls ==
    "filters.layout" :> {"rows", "dropdowns", "chips"} @@ "filters.labelMode" :> {"plain", "all"}
    @@ Flags({"filters.collapsible", "filters.multiSelect", "filters.hideRare"})

FormControls ==
    "form.mode" :> {"button", "inline"} @@ "form.ctaMode" :> {"section", "header", "both"}
    @@ "form.maxMedia" :> {1, 3, 6}
    @@ Flags({"form.fields.title", "form.fields.media", "form.fields.prosCons"})

TagControls == "customTags.display" :> {"chips", "string"} @@ Flags({"customTags.chipLabel"})

\* setPolicy
PolicyControls == Flags({"marketplacePolicy.hidden", "marketplacePolicy.showSourceLinks"})

Controls ==
    HeaderControls @@ ViewControls @@ MediaControls @@ PlayerControls @@ AdvancedControls
    @@ VideoControls @@ RuleControls @@ RankingControls @@ FilterControls @@ FormControls
    @@ TagControls @@ PolicyControls

\* What is typed may be anything, the numbers of the wall included.
TypedControls ==
    {"header.title", "layout.player.title", "layout.wall.minTileWidth", "layout.wall.gap",
     "layout.wall.maxTiles", "answers.color", "answers.title", "appearance.viewAllHref", "labels",
     "form.title", "form.submitLabel", "form.mediaHint", "form.cta.text", "form.cta.hint",
     "marketplacePolicy.label", "typography.fontFamily"}

\* The site keeps every value a control offers; the runs edit by these controls.
ASSUME ControlsAssumption ==
    /\ \A path \in DOMAIN Controls : \A value \in Controls[path] :
            NormalizeConfig(path :> value)[path] = value
    /\ \A e \in Edits :
            /\ e[1] = "set" => \/ e[2] \in TypedControls
                               \/ e[2] \in DOMAIN Controls /\ e[3] \in Controls[e[2]]
            /\ e[1] = "flag" => e[2] \in DOMAIN Controls /\ Controls[e[2]] = BOOLEAN

\* What one control does.
Edit(c, e) ==
    CASE e[1] = "section" -> ToggleSection(c, e[2])
      [] e[1] = "player"  -> TogglePlayer(c)
      [] e[1] = "move"    -> MoveSection(c, e[2], e[3])
      [] e[1] = "preset"  -> ApplyPreset(c, e[2])
      [] e[1] = "add"     -> AddField(c)
      [] e[1] = "complete" -> CompleteField(c)
      [] e[1] = "remove"  -> RemoveField(c)
      [] e[1] = "flag"    -> ToggleFlag(c, e[2])
      [] e[1] = "set"     -> SetPath(c, e[2], e[3])

\* What is stored as a list is one, and the fields of the form are fields.
IsList(list) == list \in Seq({list[i] : i \in DOMAIN list})

IsField(field) ==
    /\ field = Field(field.id, field.named, field.type, field.options)
    /\ field.named \in BOOLEAN /\ field.options \in Nat

IsFieldList(list) == IsList(list) /\ \A i \in 1 .. Len(list) : IsField(list[i])

\* A stored configuration may hold any values at the other paths.
ASSUME StoredAssumption ==
    \A s \in Stored : \A c \in Contexts :
        /\ "layout.sections" \in DOMAIN s[c] => IsList(s[c]["layout.sections"])
        /\ "customFields" \in DOMAIN s[c] => IsFieldList(s[c]["customFields"])

\* A switch or a select changes its own path, the sections and fields have
\* panels of their own, the list of reviews cannot be switched off (Editor.tsx:
\* its checkbox is disabled), and the editor's own choices are offered as listed.
ASSUME EditsAssumption ==
    \A e \in Edits :
        /\ e[1] \in {"section", "player", "move", "preset", "add", "complete", "remove",
                     "flag", "set"}
        /\ e[1] = "section" => e[2] \in Sections \ {"list"}
        /\ e[1] \in {"flag", "set"} =>
                e[2] \in Paths \ {"form.fields.email", "layout.sections", "customFields"}
        /\ e[1] = "flag" => e[2] \notin CheckedByEditor
        /\ e[1] = "set" /\ e[2] \in CheckedByEditor => e[3] \in ChoiceValues[e[2]]

\* Nothing that is loaded is a context.
ASSUME NoneAssumption == None \notin Contexts

-----------------------------------------------------------------------------
(* Loading and drafts *)

\* What the server answers: nothing published is an empty configuration.
ActiveConfig(c) == IF active[c] = 0 THEN <<>> ELSE versions[c][active[c]]

Request(c) == [context |-> c, current |-> TRUE, config |-> None, versions |-> None]

\* A new load outdates those on their way.
Load(c) ==
    /\ requests' = {[r EXCEPT !.current = FALSE] : r \in requests} \cup {Request(c)}
    /\ loadedContext' = None
    /\ history' = <<>>
    /\ loading' = TRUE
    /\ foreign' = {o.context : o \in orphans}

\* No draft is stored.
NoDraft == <<>>

\* Mutant: only complete fields come back.
MergedDraft(merged, d) == IF d = NoDraft THEN merged ELSE MergeWidgetConfig(d)

\* A draft is stored as it is; the fields in it may be incomplete.
WithDraft(merged, d) ==
    IF d = NoDraft THEN merged
    ELSE [MergeWidgetConfig(d) EXCEPT !["customFields"] = d["customFields"]]

\* saveDraft: what equals the published configuration is no draft.
Draft(next, base) == IF next = base THEN NoDraft ELSE next

SaveDraft(next, base) ==
    /\ cfg' = next
    /\ drafts' = [drafts EXCEPT ![context] = Draft(next, base)]

\* Mutant: what is mounted is left as it is.
MountOnce(p, loaded, c) ==
    IF p.frame # "ready" \/ loaded # c \/ p.mounted # None THEN p
    ELSE [p EXCEPT !.mounted = [context |-> c, config |-> p.config]]

\* Mutant: the preview does not wait for the load of the context.
MountUnloaded(p, loaded, c) ==
    IF p.frame # "ready" THEN p
    ELSE [p EXCEPT !.mounted = [context |-> c, config |-> p.config]]

\* mountPreviewWidget and mountRealPreview: what is mounted is updated, and
\* only a loaded context is shown.
Mount(p, loaded, c) ==
    IF p.frame # "ready" \/ loaded # c THEN p
    ELSE IF p.mounted = None
    THEN [p EXCEPT !.mounted = [context |-> c, config |-> p.config]]
    ELSE [p EXCEPT !.mounted.config = p.config]

-----------------------------------------------------------------------------
(* The page *)

NoOperation == [kind |-> "none"]
NoVersions == [count |-> 0, active |-> 0]
NewPreview == [frame |-> "loading", config |-> Default, mounted |-> None]

Init ==
    /\ \E s \in Stored :
        /\ changes = IF s \in Edited THEN 0 ELSE MaxChanges
        /\ versions = [c \in Contexts |-> IF s[c] = <<>> THEN <<>> ELSE <<s[c]>>]
        /\ active = [c \in Contexts |-> IF s[c] = <<>> THEN 0 ELSE 1]
    /\ drafts = [c \in Contexts |-> NoDraft]
    /\ open = TRUE
    /\ context = "product"
    /\ loadedContext = None
    /\ loading = TRUE
    /\ requests = {Request("product")}
    /\ cfg = Default /\ baseline = Default
    /\ history = <<>>
    /\ live = NoVersions
    /\ operation = NoOperation
    /\ previewTimer = TRUE
    /\ preview = NewPreview
    /\ orphans = {}
    /\ foreign = {}

Idle == open /\ operation.kind = "none"
Loaded == open /\ loadedContext = context
Panels == Loaded /\ ~loading /\ operation.kind # "rollback"

\* The server serves one of the two requests of a load.
ServeConfig(r) ==
    /\ r.config = None
    /\ requests' = (requests \ {r}) \cup {[r EXCEPT !.config = ActiveConfig(r.context)]}
    /\ UNCHANGED <<server, open, context, loadedContext, loading, draft, live, operation,
                   shown, orphans, foreign, changes>>

ServeVersions(r) ==
    /\ r.versions = None
    /\ requests' = (requests \ {r}) \cup
            {[r EXCEPT !.versions = [count |-> Len(versions[r.context]),
                                     active |-> active[r.context]]]}
    /\ UNCHANGED <<server, open, context, loadedContext, loading, draft, live, operation,
                   shown, orphans, foreign, changes>>

\* Only the newest load is taken: its configuration with the draft over it.
LoadAnswers(r) ==
    /\ r.config # None /\ r.versions # None
    /\ requests' = requests \ {r}
    /\ IF r.current
       THEN LET merged == MergeWidgetConfig(r.config)
                next   == WithDraft(merged, drafts[r.context])
            IN  /\ cfg' = next /\ baseline' = merged
                /\ live' = r.versions
                /\ loadedContext' = r.context
                /\ loading' = FALSE
                /\ previewTimer' = TRUE
                /\ preview' = Mount([preview EXCEPT !.config = next], r.context, context)
       ELSE UNCHANGED <<cfg, baseline, live, loadedContext, loading, shown>>
    /\ UNCHANGED <<server, open, context, history, drafts, operation, orphans, foreign, changes>>

LoadFails(r) ==
    /\ MayFail
    /\ requests' = requests \ {r}
    /\ loading' = (loading /\ ~r.current)
    /\ UNCHANGED <<server, open, context, loadedContext, draft, live, operation, shown,
                   orphans, foreign, changes>>

RetryLoad ==
    /\ Idle /\ ~loading /\ ~Loaded
    /\ Change
    /\ Load(context)
    /\ UNCHANGED <<server, open, context, cfg, baseline, drafts, live, operation, shown, orphans>>

\* The select of the context: the preview's widget is destroyed, a debounce
\* that is set still fires with the configuration of the context left.
SelectContext(c) ==
    /\ Idle /\ c # context
    /\ Change
    /\ context' = c
    /\ Load(c)
    /\ live' = NoVersions
    /\ preview' = [preview EXCEPT !.mounted = None]
    /\ UNCHANGED <<server, open, cfg, baseline, drafts, operation, previewTimer, orphans>>

-----------------------------------------------------------------------------
(* Editing *)

\* Mutant: the history has no end.
PushedAlways(h, c) == Append(h, c)

Pushed(h, c) == IF Len(h) = HistoryLimit THEN Append(Tail(h), c) ELSE Append(h, c)

\* An edit or an undo while a publish is under way.
Touched == IF operation.kind = "publish" THEN [operation EXCEPT !.untouched = FALSE] ELSE operation

Patch(e) ==
    /\ Panels /\ Change
    /\ Edit(cfg, e) # cfg
    /\ history' = Pushed(history, cfg)
    /\ SaveDraft(Edit(cfg, e), baseline)
    /\ operation' = Touched
    /\ previewTimer' = TRUE
    /\ UNCHANGED <<server, page, baseline, live, preview, orphans, foreign>>

UndoDraft ==
    /\ Panels /\ history # <<>>
    /\ history' = SubSeq(history, 1, Len(history) - 1)
    /\ SaveDraft(history[Len(history)], baseline)
    /\ operation' = Touched
    /\ previewTimer' = TRUE
    /\ UNCHANGED <<server, page, baseline, live, preview, orphans, foreign, changes>>

ResetDraft ==
    /\ Panels /\ Idle /\ cfg # baseline
    /\ SaveDraft(baseline, baseline)
    /\ history' = <<>>
    /\ previewTimer' = TRUE
    /\ UNCHANGED <<server, page, baseline, live, operation, preview, orphans, foreign, changes>>

\* The 200 ms after the last change are over.
PreviewTimer ==
    /\ open /\ previewTimer
    /\ previewTimer' = FALSE
    /\ preview' = Mount([preview EXCEPT !.config = cfg], loadedContext, context)
    /\ UNCHANGED <<server, page, draft, live, operation, orphans, foreign, changes>>

\* The other source, the mock page or the shop's: the frame is replaced, and its
\* widget destroyed.
SwitchSource ==
    /\ open /\ Change
    /\ preview' = [preview EXCEPT !.frame = "loading", !.mounted = None]
    /\ UNCHANGED <<server, page, draft, live, operation, previewTimer, orphans, foreign>>

FrameLoads ==
    /\ open /\ preview.frame = "loading"
    /\ preview' = Mount([preview EXCEPT !.frame = "ready"], loadedContext, context)
    /\ UNCHANGED <<server, page, draft, live, operation, previewTimer, orphans, foreign, changes>>

-----------------------------------------------------------------------------
(* Publishing and rolling back *)

Publish ==
    /\ Idle /\ Panels /\ cfg # baseline
    /\ Change
    /\ operation' = [kind |-> "publish", context |-> context, config |-> cfg, version |-> 0,
                     reached |-> FALSE, untouched |-> TRUE]
    /\ UNCHANGED <<server, page, draft, live, shown, orphans, foreign>>

Rollback(v) ==
    /\ Idle /\ Panels /\ v \in 1 .. live.count /\ v # live.active
    /\ operation' = [kind |-> "rollback", context |-> context, version |-> v, reached |-> FALSE]
    /\ UNCHANGED <<server, page, draft, live, shown, orphans, foreign, changes>>

\* What the server does with an operation: a publish adds a version.
Serve(o) ==
    IF o.kind = "publish"
    THEN /\ versions' = [versions EXCEPT ![o.context] = Append(@, o.config)]
         /\ active' = [active EXCEPT ![o.context] = Len(versions'[o.context])]
    ELSE /\ active' = [active EXCEPT ![o.context] = o.version]
         /\ UNCHANGED versions

Served(o) ==
    IF o.kind = "publish"
    THEN [o EXCEPT !.reached = TRUE, !.version = Len(versions[o.context]) + 1]
    ELSE [o EXCEPT !.reached = TRUE]

ServeOperation ==
    /\ operation.kind # "none" /\ ~operation.reached
    /\ Serve(operation)
    /\ operation' = Served(operation)
    /\ UNCHANGED <<page, draft, live, shown, orphans, foreign, changes>>

\* What was edited meanwhile stays a draft over the configuration published.
PublishAnswers ==
    /\ operation.kind = "publish" /\ operation.reached
    /\ baseline' = operation.config
    /\ SaveDraft(cfg, operation.config)
    /\ history' = IF operation.untouched THEN <<>> ELSE history
    /\ live' = [count |-> live.count + 1, active |-> operation.version]
    /\ operation' = NoOperation
    /\ UNCHANGED <<server, page, shown, orphans, foreign, changes>>

\* The draft of the context goes, and the version is loaded.
RollbackAnswers ==
    /\ operation.kind = "rollback" /\ operation.reached
    /\ drafts' = [drafts EXCEPT ![operation.context] = NoDraft]
    /\ Load(operation.context)
    /\ operation' = NoOperation
    /\ UNCHANGED <<server, open, context, cfg, baseline, live, shown, orphans, changes>>

\* The request fails, or only its reply does.
OperationFails ==
    /\ MayFail /\ operation.kind # "none"
    /\ operation' = NoOperation
    /\ UNCHANGED <<server, page, draft, live, shown, orphans, foreign, changes>>

-----------------------------------------------------------------------------
(* Leaving the editor *)

\* The page is unmounted: its loads are dropped, its operation goes on with
\* what it held.
Leave ==
    /\ open /\ Change
    /\ open' = FALSE
    /\ orphans' = IF operation.kind = "none" THEN orphans
                  ELSE orphans \cup {[operation |-> operation, context |-> operation.context,
                                      cfg |-> cfg]}
    /\ requests' = {} /\ loadedContext' = None /\ loading' = FALSE
    /\ cfg' = Default /\ baseline' = Default /\ history' = <<>>
    /\ live' = NoVersions /\ operation' = NoOperation
    /\ previewTimer' = FALSE /\ preview' = NewPreview
    /\ UNCHANGED <<server, context, drafts, foreign>>

Open ==
    /\ ~open
    /\ open' = TRUE
    /\ context' = "product"
    /\ Load("product")
    /\ previewTimer' = TRUE
    /\ UNCHANGED <<server, cfg, baseline, drafts, live, operation, preview, orphans, changes>>

ServeOrphan(o) ==
    /\ ~o.operation.reached
    /\ Serve(o.operation)
    /\ orphans' = (orphans \ {o}) \cup {[o EXCEPT !.operation = Served(o.operation)]}
    /\ UNCHANGED <<page, draft, live, operation, shown, foreign, changes>>

\* The answer reaches an editor that is gone, which still saves its draft.
OrphanAnswers(o, ok) ==
    /\ IF ok THEN o.operation.reached ELSE MayFail
    /\ orphans' = orphans \ {o}
    /\ drafts' = IF ~ok THEN drafts
                 ELSE [drafts EXCEPT ![o.context] =
                        IF o.operation.kind = "publish"
                        THEN Draft(o.cfg, o.operation.config) ELSE NoDraft]
    /\ UNCHANGED <<server, page, cfg, baseline, history, live, operation, shown, foreign, changes>>

Administrator ==
    \/ \E c \in Contexts : SelectContext(c)
    \/ \E e \in Edits : Patch(e)
    \/ UndoDraft \/ ResetDraft \/ Publish \/ RetryLoad
    \/ \E v \in 1 .. live.count : Rollback(v)
    \/ SwitchSource \/ Leave \/ Open

Answers ==
    \/ \E r \in requests :
        ServeConfig(r) \/ ServeVersions(r) \/ LoadAnswers(r) \/ LoadFails(r)
    \/ ServeOperation \/ PublishAnswers \/ RollbackAnswers \/ OperationFails
    \/ \E o \in orphans : ServeOrphan(o) \/ \E ok \in BOOLEAN : OrphanAnswers(o, ok)

Next == Administrator \/ Answers \/ PreviewTimer \/ FrameLoads

Spec == Init /\ [][Next]_vars

-----------------------------------------------------------------------------
(* Properties *)

Titled(c, config) == config["header.title"] \in {"default", c}

\* The titles tell the contexts apart: none is stored for the other context,
\* and no panel in use changes them.
TitlesTell ==
    /\ \A s \in Stored : \A c \in Contexts :
            "header.title" \in DOMAIN s[c] => Titled(c, s[c])
    /\ \A e \in Edits : e[1] \in {"flag", "set"} => e[2] # "header.title"

\* Every variable has its type.
TypeOK ==
    /\ \A c \in Contexts : active[c] \in 0 .. Len(versions[c])
    /\ \A c \in Contexts : drafts[c] # NoDraft => DOMAIN drafts[c] = Paths
    /\ context \in Contexts /\ loadedContext \in Contexts \cup {None}
    /\ DOMAIN cfg = Paths /\ DOMAIN baseline = Paths
    /\ Len(history) <= HistoryLimit
    /\ open \in BOOLEAN /\ loading \in BOOLEAN /\ previewTimer \in BOOLEAN
    /\ Cardinality({r \in requests : r.current}) <= 1
    /\ preview.frame \in {"loading", "ready"}
    /\ foreign \subseteq Contexts

\* The two contexts never mix: what is published, kept as a draft or shown in
\* the preview for one was loaded and edited for it, however fast the
\* administrator switches and however late the answers and the debounce come.
NeverCrossed ==
    /\ \A c \in Contexts :
        /\ \A i \in 1 .. Len(versions[c]) :
                "header.title" \in DOMAIN versions[c][i] => Titled(c, versions[c][i])
        /\ drafts[c] # NoDraft => Titled(c, drafts[c])
    /\ preview.mounted # None =>
        preview.mounted.context = context /\ Titled(context, preview.mounted.config)

\* What the editor calls unchanged has been published: the baseline of the
\* "has changes" badge is a version of the context, as it was loaded or sent.
BaselineWasPublished ==
    \/ baseline = MergeWidgetConfig(<<>>)
    \/ \E i \in 1 .. Len(versions[context]) :
            baseline \in {versions[context][i], MergeWidgetConfig(versions[context][i])}

\* What was edited and not published is in the browser's storage, and comes
\* back as it was, sections that were switched off and incomplete fields
\* included; what is called published is.  An operation of an editor that is
\* gone may replace a draft: README.
DraftIsKept ==
    Loaded =>
        /\ BaselineWasPublished
        /\ context \notin foreign =>
            cfg = IF drafts[context] = NoDraft THEN baseline ELSE drafts[context]

\* Where the two readings differ: a number of photos that was stored as a text
\* or a flag is a number to the editor and nothing to the widget.
ReadApart(raw) ==
    IF "form.maxMedia" \in DOMAIN raw /\ raw["form.maxMedia"] \in DOMAIN Numeric
    THEN {"form.maxMedia"} ELSE {}

\* Without changes the preview shows what the site shows of the version called
\* live, whatever a stored configuration lacks or holds: the two readings and
\* the two lists of defaults agree, but for the one path of ReadApart.
PreviewIsSite ==
    Loaded /\ ~loading /\ context \notin foreign /\ cfg = baseline /\ ~previewTimer
    /\ operation.kind = "none" /\ preview.mounted # None
        => LET stored == IF live.active = 0 THEN <<>> ELSE versions[context][live.active]
           IN  \A path \in Paths \ ReadApart(stored) :
                    NormalizeConfig(preview.mounted.config)[path] = NormalizeConfig(stored)[path]

\* Nothing is waited for in vain: the "loading" rail has the newest load on its
\* way, and a preview that no debounce will update any more shows what the
\* editor holds, after whatever order of loads, frames and timers.
NothingHangs ==
    /\ loading => \E r \in requests : r.current
    /\ Loaded /\ ~loading /\ ~previewTimer /\ preview.frame = "ready"
        => preview.mounted = [context |-> context, config |-> cfg]

=============================================================================
