---------------------------- MODULE WidgetPlayer -----------------------------
(***************************************************************************)
(* What plays by itself in the mounted widget                               *)
(* (src/web/reviews-widget/reviews-widget.js): the feed row whose highlight *)
(* a timer moves from video to video, and the media viewer, which goes on   *)
(* to its next item when a video ends or when its own timer says it has.    *)
(* Above the feed come the viewer, the "all reviews" dialog and the         *)
(* questions tab; around them the host page may configure the widget again, *)
(* drop its node or destroy it.                                             *)
(*                                                                          *)
(* Media are known by their kinds; a frame is an embedded player.           *)
(***************************************************************************)
EXTENDS Integers, Sequences

CONSTANTS
    Media,          \* what the reviews may bring: sequences of kinds
    Configs,        \* configurations the widget is given
    NoTile,         \* feedIndex before a feed was shown
    MaxChanges,     \* bound on what the reader and the host page change
    MaxShown        \* bound on the media the viewer shows

ASSUME PlayerAssumption ==
    /\ Media \subseteq Seq({"photo", "video", "frame"})
    /\ Configs \subseteq [player : BOOLEAN, auto : BOOLEAN, hoverPauses : BOOLEAN,
                          autoplay : BOOLEAN,
                          questions : BOOLEAN]
    /\ NoTile \notin Nat
    /\ MaxChanges \in Nat /\ MaxShown \in Nat

VARIABLES
    host,           \* connected to the page, removed from it, destroyed
    config,
    tab,            \* activeTab
    dialog,         \* reviewsView
    media,          \* the media of the reviews
    feed,           \* tiles of the row, feedIndex, feedTimer, feedPaused
    viewer,         \* the media viewer
    video,          \* the element in it
    late,           \* an element that was replaced still has its end to report
    balance,        \* ends the viewer has not gone on for
    shown,          \* bound
    changes

page == <<host, config, tab, dialog, media>>
counts == <<late, balance>>
vars == <<page, feed, viewer, video, counts, shown, changes>>

Change == changes < MaxChanges /\ changes' = changes + 1
Shows == shown < MaxShown /\ shown' = shown + 1

-----------------------------------------------------------------------------
(* The feed row *)

Videos(items) == {i \in 1 .. Len(items) : items[i] # "photo"}

\* The next video after the highlighted one, or the first.
NextVideo(tiles, index) ==
    LET after == {i \in Videos(tiles) : index \in Videos(tiles) /\ i > index}
        ahead == IF after = {} THEN Videos(tiles) ELSE after
    IN  CHOOSE i \in ahead : \A j \in ahead : i <= j

\* Mutant: the viewer is not looked at.
FeedMayPlayUnder(f) ==
    /\ host' # "destroyed" /\ ~dialog' /\ tab' = "reviews"
    /\ config'.player /\ config'.auto
    /\ ~f.paused /\ Videos(f.tiles) # {}

FeedMayPlay(f) ==
    /\ host' # "destroyed" /\ ~dialog' /\ tab' = "reviews"
    /\ config'.player /\ config'.auto
    /\ ~viewer'.open
    /\ ~f.paused /\ Videos(f.tiles) # {}

ClearFeedTimer(f) == [f EXCEPT !.timer = FALSE]

ScheduleFeedTimer(f) == [f EXCEPT !.timer = FeedMayPlay(f)]

\* render, as far as the feed goes: the questions tab stops it, the dialog
\* leaves it as it is.
Render(f) ==
    CASE tab' = "questions" -> ClearFeedTimer(f)
      [] tab' = "reviews" /\ dialog' -> f
      [] tab' = "reviews" /\ ~dialog' ->
           IF ~config'.player \/ media' = <<>>
           THEN [ClearFeedTimer(f) EXCEPT !.tiles = <<>>]
           ELSE ScheduleFeedTimer(
                    [f EXCEPT !.tiles = media',
                              !.index = IF @ = NoTile /\ Videos(media') # {}
                                        THEN NextVideo(media', NoTile) ELSE @])

-----------------------------------------------------------------------------
(* The viewer *)

Closed == [open |-> FALSE, items |-> <<>>, index |-> 0, playing |-> FALSE,
           hovered |-> FALSE, timer |-> FALSE]

Item(v) == v.items[v.index]

ViewerGoesOn(v, phase) ==
    /\ v.open /\ config'.auto /\ v.playing /\ ~v.hovered
    /\ Item(v) = "video" /\ Len(v.items) > 1
    /\ phase \in {"playing", "over"}

\* scheduleViewerTimer, for an element in this phase.
ScheduleViewerTimer(v, phase) == [v EXCEPT !.timer = ViewerGoesOn(v, phase)]

\* renderMediaViewer: a new element, asked to play if the viewer plays.
Element(v) == IF Item(v) = "video" THEN "loading" ELSE Item(v)

Show(v) ==
    /\ Shows
    /\ viewer' = ScheduleViewerTimer(v, Element(v))
    /\ video' = Element(v)

\* An element that goes before it has reported its end will report it late.
Replaced == late' = (late \/ video = "over")

Stopped == viewer' = Closed /\ video' = "none"

\* shiftMediaViewer, forward.
Forward == Show([viewer EXCEPT !.index = (@ % Len(viewer.items)) + 1,
                               !.playing = config.autoplay])

-----------------------------------------------------------------------------
(* The widget and its page *)

Init ==
    /\ host = "connected"
    /\ config \in Configs
    /\ tab = "reviews"
    /\ dialog = FALSE
    /\ media = <<>>
    /\ feed = [tiles |-> <<>>, index |-> NoTile, timer |-> FALSE, paused |-> FALSE]
    /\ viewer = Closed
    /\ video = "none"
    /\ late = FALSE
    /\ balance = 0
    /\ shown = 0
    /\ changes = 0

StillViewer == UNCHANGED <<viewer, video, counts, shown>>

\* Reviews are loaded, or more of them.
MediaArrive(m) ==
    /\ Change
    /\ host # "destroyed" /\ m # media
    /\ media' = m
    /\ UNCHANGED <<host, config, tab, dialog>> /\ StillViewer
    /\ feed' = Render(feed)

SwitchTab ==
    /\ Change
    /\ host = "connected" /\ ~viewer.open /\ ~dialog /\ config.questions
    /\ tab' = IF tab = "reviews" THEN "questions" ELSE "reviews"
    /\ UNCHANGED <<host, config, dialog, media>> /\ StillViewer
    /\ feed' = Render(feed)

\* openAllReviews clears the timer, closeAllReviews schedules it.
AllReviews ==
    /\ Change
    /\ host = "connected" /\ ~viewer.open /\ tab = "reviews"
    /\ dialog' = ~dialog
    /\ UNCHANGED <<host, config, tab, media>> /\ StillViewer
    /\ feed' = IF dialog THEN ScheduleFeedTimer(feed) ELSE Render(ClearFeedTimer(feed))

\* The state destroy leaves; it clears both timers.
Destroyed ==
    /\ host' = "destroyed"
    /\ dialog' = FALSE
    /\ feed' = [ClearFeedTimer(feed) EXCEPT !.tiles = <<>>]
    /\ Stopped
    /\ late' = FALSE
    /\ UNCHANGED <<config, tab, media, balance, shown>>

Destroy ==
    /\ host # "destroyed" /\ Change
    /\ Destroyed

LeavePage ==
    /\ Change
    /\ host = "connected" /\ host' = "removed"
    /\ UNCHANGED <<config, tab, dialog, media, feed>> /\ StillViewer

\* handle.updateConfig: timers are cleared, the shell is built again, and the
\* viewer reopened on its item if the page still shows that.
UpdateConfig(c) ==
    /\ Change
    /\ host # "destroyed"
    /\ config' = c
    /\ dialog' = FALSE
    /\ tab' = IF c.questions THEN tab ELSE "reviews"
    /\ UNCHANGED <<host, media>>
    /\ balance' = 0
    /\ Replaced
    /\ \/ Stopped /\ UNCHANGED shown
       \/ /\ viewer.open /\ ~dialog /\ host = "connected"
          /\ \E i \in 1 .. Len(media) :
                /\ media[i] = Item(viewer)
                /\ Show([viewer EXCEPT !.items = media, !.index = i, !.playing = c.autoplay,
                                       !.hovered = FALSE])
    /\ feed' = Render([feed EXCEPT !.tiles = <<>>])

-----------------------------------------------------------------------------
(* The feed: its timer, the pointer and the focus *)

StillPage == UNCHANGED page

\* Mutant: a node that is gone is not noticed.
NeverOrphan == FALSE

\* A timer finds its node gone from the page, and destroys the widget.
Orphan == host # "connected"

FeedTimer ==
    /\ feed.timer
    /\ UNCHANGED changes
    /\ IF Orphan
       THEN Destroyed
       ELSE /\ StillPage /\ StillViewer
            /\ feed' = ScheduleFeedTimer([feed EXCEPT !.index = NextVideo(feed.tiles, @)])

FeedReached ==
    host = "connected" /\ ~viewer.open /\ ~dialog /\ tab = "reviews" /\ feed.tiles # <<>>

\* mouseenter, if the shop wants it, and focusin.
EnterFeed(focus) ==
    /\ FeedReached /\ ~feed.paused
    /\ focus \/ config.hoverPauses
    /\ feed' = [ClearFeedTimer(feed) EXCEPT !.paused = TRUE]
    /\ StillPage /\ StillViewer /\ UNCHANGED changes

\* mouseleave and focusout, for which the dialogs over the feed are reasons too.
LeaveFeed ==
    /\ host = "connected" /\ feed.paused
    /\ StillPage /\ StillViewer /\ UNCHANGED changes
    /\ feed' = ScheduleFeedTimer([feed EXCEPT !.paused = FALSE])

-----------------------------------------------------------------------------
(* The viewer: the reader *)

\* openMediaViewer, by a tile or by a card's media.
OpenMediaViewer(i) ==
    /\ host = "connected" /\ ~viewer.open /\ tab = "reviews"
    /\ i \in 1 .. Len(media)
    /\ StillPage /\ UNCHANGED <<late, changes>>
    /\ balance' = 0
    /\ Show([Closed EXCEPT !.open = TRUE, !.items = media, !.index = i,
                           !.playing = config.autoplay])
    /\ feed' = ClearFeedTimer(feed)

\* closeMediaViewer; the focus may come back to a tile of the feed.
CloseMediaViewer ==
    /\ host = "connected" /\ viewer.open
    /\ StillPage /\ UNCHANGED <<shown, changes>>
    /\ balance' = 0
    /\ Replaced
    /\ Stopped
    /\ \E focus \in {FALSE, feed.tiles # <<>>} :
        feed' = ScheduleFeedTimer([feed EXCEPT !.paused = @ \/ focus])

InViewer == host = "connected" /\ viewer.open

StillFeed == StillPage /\ UNCHANGED <<feed, changes>>

\* The arrows, the keys, or an item of the queue.
PickItem(i) ==
    /\ InViewer /\ i \in 1 .. Len(viewer.items)
    /\ StillFeed
    /\ balance' = 0
    /\ Replaced
    /\ Show([viewer EXCEPT !.index = i, !.playing = config.autoplay])

HoverViewer ==
    /\ InViewer /\ ~viewer.hovered /\ config.hoverPauses
    /\ viewer' = [viewer EXCEPT !.hovered = TRUE, !.timer = FALSE]
    /\ StillFeed /\ UNCHANGED <<video, counts, shown>>

\* An element that waits may have a frame to show, and counts as playing.
LeaveViewer ==
    /\ InViewer /\ viewer.hovered
    /\ StillFeed /\ UNCHANGED <<video, counts, shown>>
    /\ \E phase \in {video} \cup (IF video = "held" THEN {"playing"} ELSE {}) :
        viewer' = ScheduleViewerTimer([viewer EXCEPT !.hovered = FALSE], phase)

-----------------------------------------------------------------------------
(* The viewer: its video.  The element is loading, playing, held while it    *)
(* waits for data or seeks, paused, or over with its end to be reported.     *)

\* An event of the element now shown, and the reader's button that causes it:
\* updateViewerPlay schedules the timer.
Heard(phase, playing) ==
    /\ video' = phase
    /\ StillFeed /\ UNCHANGED <<counts, shown>>
    /\ viewer' = ScheduleViewerTimer([viewer EXCEPT !.playing = playing], phase)

Plays == InViewer /\ video \in {"loading", "held", "paused"} /\ Heard("playing", TRUE)

\* Paused, refused to play, or failed.
Pauses == InViewer /\ video \in {"loading", "playing", "held"} /\ Heard("paused", FALSE)

Waits ==
    /\ InViewer /\ video = "playing"
    /\ video' = "held"
    /\ viewer' = [viewer EXCEPT !.timer = FALSE]
    /\ StillFeed /\ UNCHANGED <<counts, shown>>

\* The last frame was shown; "pause" and "ended" are on their way.
Finishes ==
    /\ InViewer /\ video = "playing"
    /\ video' = "over"
    /\ balance' = 1
    /\ StillFeed /\ UNCHANGED <<viewer, late, shown>>

\* Mutant: the end of any element is heard.
AnyElement(gone) == TRUE

\* current(): only the element that is shown is listened to.
Current(gone) == ~gone

Ended(gone) ==
    /\ InViewer
    /\ IF gone THEN late /\ late' = FALSE ELSE video = "over" /\ late' = late
    /\ StillFeed
    /\ IF ~Current(gone)
       THEN UNCHANGED <<viewer, video, balance, shown>>
       ELSE IF config.auto /\ ~viewer.hovered /\ Len(viewer.items) > 1
       THEN balance' = balance - 1 /\ Forward
       ELSE /\ viewer' = [viewer EXCEPT !.playing = FALSE, !.timer = FALSE]
            /\ video' = IF gone THEN video ELSE "paused"
            /\ balance' = 0
            /\ UNCHANGED shown

\* The timer runs out at the end of the video, or about then.
ViewerTimer ==
    /\ viewer.timer
    /\ UNCHANGED changes
    /\ IF Orphan
       THEN Destroyed
       ELSE /\ StillPage /\ UNCHANGED feed
            /\ Replaced
            /\ balance' = IF video = "over" THEN balance - 1 ELSE balance
            /\ Forward

\* The message of an embedded player.
FrameEnded ==
    /\ InViewer /\ video = "frame"
    /\ config.auto /\ Len(viewer.items) > 1
    /\ StillFeed /\ UNCHANGED counts
    /\ Forward

\* A video taken off the page pauses, which is how the viewer notices.
PausedByRemoval ==
    /\ host = "removed" /\ video \in {"loading", "playing", "held"}
    /\ UNCHANGED changes
    /\ Destroyed

-----------------------------------------------------------------------------

Reader ==
    \/ SwitchTab \/ AllReviews
    \/ \E focus \in BOOLEAN : EnterFeed(focus)
    \/ LeaveFeed
    \/ \E i \in 1 .. Len(media) + Len(viewer.items) : OpenMediaViewer(i) \/ PickItem(i)
    \/ CloseMediaViewer \/ HoverViewer \/ LeaveViewer

VideoEvents ==
    \/ Plays \/ Pauses \/ Waits \/ Finishes \/ FrameEnded \/ PausedByRemoval
    \/ \E gone \in BOOLEAN : Ended(gone)

Next ==
    \/ Reader \/ VideoEvents \/ FeedTimer \/ ViewerTimer
    \/ \E m \in Media : MediaArrive(m)
    \/ \E c \in Configs : UpdateConfig(c)
    \/ LeavePage \/ Destroy

\* Timers run out.
Fairness == WF_vars(FeedTimer) /\ WF_vars(ViewerTimer)

Spec == Init /\ [][Next]_vars /\ Fairness

-----------------------------------------------------------------------------
(* Properties *)

Lengths == {Len(m) : m \in Media}

\* Every variable has its type; the highlight is a place of the row.
TypeOK ==
    /\ host \in {"connected", "removed", "destroyed"} /\ config \in Configs
    /\ tab \in {"reviews", "questions"} /\ dialog \in BOOLEAN
    /\ media \in Media \cup {<<>>}
    /\ feed.tiles \in Media \cup {<<>>}
    /\ feed.index = NoTile \/ \E n \in Lengths : feed.index \in 1 .. n
    /\ feed.timer \in BOOLEAN /\ feed.paused \in BOOLEAN
    /\ viewer.items \in Media \cup {<<>>}
    /\ viewer.open => viewer.index \in 1 .. Len(viewer.items)
    /\ viewer.playing \in BOOLEAN /\ viewer.hovered \in BOOLEAN /\ viewer.timer \in BOOLEAN
    /\ video \in {"none", "photo", "frame", "loading", "playing", "held", "paused", "over"}
    /\ late \in BOOLEAN /\ balance \in Int
    /\ shown \in 0 .. MaxShown /\ changes \in 0 .. MaxChanges

\* The feed's timer runs exactly while the row is before the reader and
\* nobody rests on it: no way under or out of the viewer, the dialog, the
\* questions or a new configuration leaves it running there or standing here.
FeedArmed ==
    host = "connected" =>
        (feed.timer <=> /\ tab = "reviews" /\ ~dialog /\ ~viewer.open
                        /\ config.player /\ config.auto /\ ~feed.paused
                        /\ Videos(feed.tiles) # {})

\* The viewer's timer runs while its video plays, and never under the pointer,
\* behind a closed viewer or for a video that was paused.
ViewerArmed ==
    LET due == viewer.open /\ config.auto /\ viewer.playing /\ ~viewer.hovered
               /\ Item(viewer) = "video" /\ Len(viewer.items) > 1
    IN  /\ viewer.timer => due /\ video \in {"playing", "over", "held"}
        /\ due /\ video = "playing" => viewer.timer

\* Both timers run when they should and only then, over a well-typed state.
TimersArmed == TypeOK /\ FeedArmed /\ ViewerArmed

\* The viewer goes on once for each video that ended, though its end is both
\* awaited by a timer and reported by the element.
NoVideoSkipped == balance >= 0

\* A widget whose node was dropped stops by itself.
RemovedStops == host = "removed" ~> ~feed.timer /\ ~viewer.timer

=============================================================================
