------------------------- MODULE WidgetPlayer_proofs -------------------------
(***************************************************************************)
(* Theorems about WidgetPlayer, for all media, every configuration and     *)
(* every bound.                                                            *)
(***************************************************************************)
EXTENDS WidgetPlayer, SequenceTheorems, WellFoundedInduction, TLAPS

-----------------------------------------------------------------------------
(* The shape of the state: the types, and the fields of the feed and of the  *)
(* viewer.                                                                   *)

Kinds == {"photo", "video", "frame"}
Reels == Media \cup {<<>>}
Places == UNION {1 .. n : n \in Lengths}
Phases == {"none", "photo", "frame", "loading", "playing", "held", "paused", "over"}

Feeds == [tiles : Reels, index : Places \cup {NoTile}, timer : BOOLEAN, paused : BOOLEAN]
Viewers == [open : BOOLEAN, items : Reels, index : Nat, playing : BOOLEAN,
            hovered : BOOLEAN, timer : BOOLEAN]

PageOK ==
    /\ host \in {"connected", "removed", "destroyed"} /\ config \in Configs
    /\ tab \in {"reviews", "questions"} /\ dialog \in BOOLEAN
    /\ media \in Reels

FeedOK == feed \in Feeds

InRange(v) == v.open => v.index \in 1 .. Len(v.items)

ViewerOK == viewer \in Viewers /\ InRange(viewer) /\ video \in Phases

CountsOK ==
    /\ late \in BOOLEAN /\ balance \in Int
    /\ shown \in 0 .. MaxShown /\ changes \in 0 .. MaxChanges

Shape == PageOK /\ FeedOK /\ ViewerOK /\ CountsOK

LEMMA ShapeTypes == Shape => TypeOK
<1> SUFFICES ASSUME Shape PROVE TypeOK
  OBVIOUS
<1>1. feed.index = NoTile \/ \E n \in Lengths : feed.index \in 1 .. n
  BY DEF Shape, FeedOK, Feeds, Places
<1>2. /\ feed.tiles \in Reels /\ feed.timer \in BOOLEAN /\ feed.paused \in BOOLEAN
  BY DEF Shape, FeedOK, Feeds
<1>3. /\ viewer.items \in Reels /\ viewer.playing \in BOOLEAN
      /\ viewer.hovered \in BOOLEAN /\ viewer.timer \in BOOLEAN
      /\ viewer.open => viewer.index \in 1 .. Len(viewer.items)
  BY DEF Shape, ViewerOK, Viewers, InRange
<1> QED BY <1>1, <1>2, <1>3 DEF Shape, PageOK, ViewerOK, CountsOK, TypeOK, Reels, Phases

LEMMA ReelType ==
    ASSUME NEW r \in Reels
    PROVE  r \in Seq(Kinds) /\ Len(r) \in Nat /\ \A i \in 1 .. Len(r) : r[i] \in Kinds
<1>1. r \in Seq(Kinds)
  <2>1. Media \subseteq Seq(Kinds)
    BY PlayerAssumption DEF Kinds
  <2>2. <<>> \in Seq(Kinds)
    OBVIOUS
  <2> QED BY <2>1, <2>2 DEF Reels
<1> QED BY <1>1, LenProperties, ElementOfSeq

\* A set of positions has a first one.
LEMMA FirstExists ==
    ASSUME NEW S \in SUBSET Nat, S # {}
    PROVE  \E i \in S : \A j \in S : i <= j
<1>1. PICK i \in S : \A j \in S : ~(<<j, i>> \in OpToRel(<, Nat))
  BY NatLessThanWellFounded, WFMin
<1>2. \A j \in S : ~(j < i)
  BY <1>1 DEF OpToRel
<1> QED BY <1>2

LEMMA NextVideoType ==
    ASSUME NEW tiles \in Reels, Videos(tiles) # {}, NEW index
    PROVE  NextVideo(tiles, index) \in Places
<1> DEFINE after == {i \in Videos(tiles) : index \in Videos(tiles) /\ i > index}
           ahead == IF after = {} THEN Videos(tiles) ELSE after
<1>1. Videos(tiles) \subseteq 1 .. Len(tiles) /\ Len(tiles) \in Nat
  BY ReelType DEF Videos
<1>2. ahead \subseteq Videos(tiles) /\ ahead # {}
  OBVIOUS
<1>3. NextVideo(tiles, index) = CHOOSE i \in ahead : \A j \in ahead : i <= j
  BY DEF NextVideo
<1> HIDE DEF ahead
<1>4. \E i \in ahead : \A j \in ahead : i <= j
  <2>1. ahead \in SUBSET Nat
    BY <1>1, <1>2
  <2> QED BY <1>2, <2>1, FirstExists
<1>5. NextVideo(tiles, index) \in 1 .. Len(tiles)
  BY <1>1, <1>2, <1>3, <1>4
<1>6. tiles \in Media
  BY <1>1, <1>5 DEF Reels
<1> QED BY <1>5, <1>6 DEF Places, Lengths

-----------------------------------------------------------------------------
(* The feed's timer.                                                         *)

\* The timer that the row's state calls for.
Due(f) ==
    /\ tab = "reviews" /\ ~dialog /\ ~viewer.open
    /\ config.player /\ config.auto /\ ~f.paused /\ Videos(f.tiles) # {}

LEMMA FeedArmedIs == FeedArmed <=> (host = "connected" => (feed.timer <=> Due(feed)))
BY DEF FeedArmed, Due

LEMMA NoVideos == Videos(<<>>) = {}
BY DEF Videos

LEMMA ClearedFeed ==
    ASSUME NEW f \in Feeds
    PROVE  /\ ClearFeedTimer(f) \in Feeds
           /\ ClearFeedTimer(f).timer = FALSE
           /\ ClearFeedTimer(f).paused = f.paused
BY DEF ClearFeedTimer, Feeds

LEMMA ScheduledFeed ==
    ASSUME NEW f \in Feeds
    PROVE  /\ ScheduleFeedTimer(f) \in Feeds
           /\ ScheduleFeedTimer(f).timer = FeedMayPlay(f)
           /\ ScheduleFeedTimer(f).tiles = f.tiles
           /\ ScheduleFeedTimer(f).paused = f.paused
<1>1. FeedMayPlay(f) \in BOOLEAN
  BY DEF FeedMayPlay
<1> HIDE DEF FeedMayPlay
<1> QED BY <1>1 DEF ScheduleFeedTimer, Feeds

LEMMA ScheduledArmed ==
    ASSUME NEW f \in Feeds, feed' = ScheduleFeedTimer(f)
    PROVE  FeedOK' /\ FeedArmed'
<1>1. feed' \in Feeds /\ feed'.timer = FeedMayPlay(f) /\ feed'.tiles = f.tiles /\ feed'.paused = f.paused
  BY ScheduledFeed
<1>2. host' = "connected" => (feed'.timer <=> FeedMayPlay(f))
  BY <1>1
<1> QED BY <1>1, <1>2 DEF FeedOK, FeedArmed, FeedMayPlay

LEMMA RenderedArmed ==
    ASSUME NEW f \in Feeds, feed' = Render(f),
           media' \in Reels, tab' \in {"reviews", "questions"},
           host' = "connected" /\ tab' = "reviews" /\ dialog' => ~f.timer
    PROVE  FeedOK' /\ FeedArmed'
<1>1. CASE tab' = "questions"
  <2>1. feed' = ClearFeedTimer(f)
    BY <1>1 DEF Render
  <2> QED BY <1>1, <2>1, ClearedFeed DEF FeedOK, FeedArmed
<1>2. CASE tab' = "reviews" /\ dialog'
  <2>1. feed' = f
    BY <1>2 DEF Render
  <2> QED BY <1>2, <2>1 DEF FeedOK, FeedArmed
<1>3. CASE tab' = "reviews" /\ ~dialog' /\ (~config'.player \/ media' = <<>>)
  <2>1. feed' = [ClearFeedTimer(f) EXCEPT !.tiles = <<>>]
    BY <1>3 DEF Render
  <2>2. <<>> \in Reels
    BY DEF Reels
  <2>3. feed' \in Feeds /\ feed'.timer = FALSE /\ feed'.tiles = <<>>
    BY <2>1, <2>2 DEF ClearFeedTimer, Feeds
  <2> QED BY <2>3, NoVideos DEF FeedOK, FeedArmed
<1>4. CASE tab' = "reviews" /\ ~dialog' /\ ~(~config'.player \/ media' = <<>>)
  <2> DEFINE index == IF f.index = NoTile /\ Videos(media') # {}
                      THEN NextVideo(media', NoTile) ELSE f.index
             g == [f EXCEPT !.tiles = media', !.index = index]
  <2>1. feed' = ScheduleFeedTimer(g)
    BY <1>4 DEF Render
  <2>2. index \in Places \cup {NoTile}
    BY NextVideoType DEF Feeds
  <2>3. g \in Feeds
    <3> HIDE DEF index
    <3> QED BY <2>2 DEF Feeds
  <2> HIDE DEF g
  <2> QED BY <2>1, <2>3, ScheduledArmed
<1> QED BY <1>1, <1>2, <1>3, <1>4

\* A step that leaves the row and what stands over it.
LEMMA SameFeed ==
    ASSUME PageOK, FeedOK, FeedArmed, UNCHANGED <<page, feed>>, viewer'.open = viewer.open
    PROVE  PageOK' /\ FeedOK' /\ FeedArmed'
BY DEF PageOK, FeedOK, FeedArmed, page

-----------------------------------------------------------------------------
(* The viewer's timer, and the ends of its videos.                           *)

\* An element that is over has an end to go on for.
EndsOK == balance >= 0 /\ (video = "over" => balance >= 1)

LEMMA ElementIs ==
    ASSUME NEW v \in Viewers, v.index \in 1 .. Len(v.items)
    PROVE  Element(v) \in {"photo", "loading", "frame"}
<1>1. Item(v) \in Kinds
  BY ReelType DEF Viewers, Item
<1> QED BY <1>1 DEF Element, Kinds

LEMMA ShownViewer ==
    ASSUME NEW v \in Viewers, v.open, v.index \in 1 .. Len(v.items), Show(v),
           shown \in 0 .. MaxShown
    PROVE  /\ ViewerOK' /\ ViewerArmed' /\ viewer'.open = TRUE
           /\ video' \notin {"over", "playing"}
           /\ shown' \in 0 .. MaxShown
<1>1. shown' \in 0 .. MaxShown
  BY PlayerAssumption DEF Show, Shows
<1>2. Element(v) \in {"photo", "loading", "frame"}
  BY ElementIs
<1>3. ViewerGoesOn(v, Element(v)) = FALSE
  BY <1>2 DEF ViewerGoesOn
<1>4. viewer' = [v EXCEPT !.timer = FALSE] /\ video' = Element(v)
  BY <1>3 DEF Show, ScheduleViewerTimer
<1>5. /\ viewer' \in Viewers /\ viewer'.timer = FALSE /\ viewer'.open = TRUE
      /\ viewer'.index = v.index /\ viewer'.items = v.items
  BY <1>4 DEF Viewers
<1>6. ViewerOK'
  BY <1>2, <1>4, <1>5 DEF ViewerOK, InRange, Phases
<1>7. ViewerArmed'
  BY <1>2, <1>4, <1>5 DEF ViewerArmed
<1> QED BY <1>1, <1>2, <1>4, <1>5, <1>6, <1>7

LEMMA StoppedViewer ==
    ASSUME Stopped
    PROVE  ViewerOK' /\ ViewerArmed' /\ viewer'.open = FALSE /\ video' = "none"
<1>1. <<>> \in Reels
  BY DEF Reels
<1>2. Closed \in Viewers /\ Closed.open = FALSE /\ Closed.timer = FALSE
  BY <1>1 DEF Closed, Viewers
<1> QED BY <1>2 DEF Stopped, ViewerOK, ViewerArmed, InRange, Phases

\* The item after the last is the first.
LEMMA ForwardViewer ==
    ASSUME PageOK, ViewerOK, viewer.open, Forward, shown \in 0 .. MaxShown
    PROVE  /\ ViewerOK' /\ ViewerArmed' /\ viewer'.open = TRUE
           /\ video' \notin {"over", "playing"}
           /\ shown' \in 0 .. MaxShown
<1> DEFINE next == (viewer.index % Len(viewer.items)) + 1
           plays == config.autoplay
           v == [viewer EXCEPT !.index = next, !.playing = plays]
<1>1. Len(viewer.items) \in Nat /\ viewer.index \in 1 .. Len(viewer.items)
  BY ReelType DEF ViewerOK, Viewers, InRange
<1>2. next \in 1 .. Len(viewer.items)
  BY <1>1
<1>3. plays \in BOOLEAN
  BY PlayerAssumption DEF PageOK
<1>4. Show(v)
  BY DEF Forward
<1> HIDE DEF next, plays
<1>5. v \in Viewers /\ v.open /\ v.index = next /\ v.items = viewer.items
  <2>1. next \in Nat /\ viewer \in Viewers
    BY <1>1, <1>2 DEF ViewerOK
  <2> QED BY <1>3, <2>1 DEF Viewers
<1> HIDE DEF v
<1> QED BY <1>2, <1>4, <1>5, ShownViewer

\* The timer that an event leaves.
LEMMA ScheduledViewer ==
    ASSUME NEW v \in Viewers, InRange(v), NEW phase \in Phases,
           viewer' = ScheduleViewerTimer(v, phase), config' = config,
           video' \in Phases,
           video' = phase \/ (phase = "playing" /\ video' = "held")
    PROVE  ViewerOK' /\ ViewerArmed' /\ viewer'.open = v.open
<1>1. ViewerGoesOn(v, phase) \in BOOLEAN
  BY DEF ViewerGoesOn
<1>2. /\ viewer' \in Viewers /\ viewer'.timer = ViewerGoesOn(v, phase)
      /\ viewer'.open = v.open /\ viewer'.index = v.index /\ viewer'.items = v.items
      /\ viewer'.playing = v.playing /\ viewer'.hovered = v.hovered
  <2> HIDE DEF ViewerGoesOn
  <2> QED BY <1>1 DEF ScheduleViewerTimer, Viewers
<1>3. ViewerOK'
  BY <1>2 DEF ViewerOK, InRange
<1>4. Item(viewer)' = Item(v)
  BY <1>2 DEF Item
<1>5. viewer'.timer <=> ViewerGoesOn(v, phase)
  BY <1>2
<1>6. ViewerArmed'
  BY <1>2, <1>4, <1>5 DEF ViewerArmed, ViewerGoesOn
<1> QED BY <1>2, <1>3, <1>6

-----------------------------------------------------------------------------
(* The invariant: both timers are right, and a viewer that may go on has an  *)
(* end to go on for.                                                         *)

PlayerInv == Shape /\ FeedArmed /\ ViewerArmed /\ EndsOK

LEMMA PlayerInit == Init => PlayerInv
<1> SUFFICES ASSUME Init PROVE PlayerInv
  OBVIOUS
<1>1. <<>> \in Reels /\ Videos(<<>>) = {}
  BY NoVideos DEF Reels
<1>2. 0 \in 0 .. MaxShown /\ 0 \in 0 .. MaxChanges
  BY PlayerAssumption
<1>3. Closed \in Viewers /\ Closed.open = FALSE /\ Closed.timer = FALSE
  BY <1>1 DEF Closed, Viewers
<1>4. FeedOK /\ FeedArmed
  BY <1>1 DEF Init, FeedOK, Feeds, FeedArmed
<1>5. ViewerOK /\ ViewerArmed
  BY <1>3 DEF Init, ViewerOK, InRange, Phases, ViewerArmed
<1>6. PageOK
  BY <1>1 DEF Init, PageOK
<1>7. CountsOK
  <2>1. late \in BOOLEAN
    BY DEF Init
  <2>2. balance \in Int
    BY DEF Init
  <2>3. shown \in 0 .. MaxShown /\ changes \in 0 .. MaxChanges
    BY <1>2 DEF Init
  <2> QED BY <2>1, <2>2, <2>3 DEF CountsOK
<1>8. EndsOK
  BY DEF Init, EndsOK
<1> QED BY <1>4, <1>5, <1>6, <1>7, <1>8 DEF PlayerInv, Shape

LEMMA MoreChanges ==
    ASSUME CountsOK, Change PROVE changes' \in 0 .. MaxChanges
BY PlayerAssumption DEF CountsOK, Change

LEMMA SameViewer ==
    ASSUME PlayerInv, StillViewer, config' = config, changes' \in 0 .. MaxChanges
    PROVE  ViewerOK' /\ ViewerArmed' /\ CountsOK' /\ EndsOK' /\ viewer'.open = viewer.open
<1>1. UNCHANGED <<viewer, video, late, balance, shown>>
  BY DEF StillViewer, counts
<1>2. ViewerOK' /\ CountsOK' /\ EndsOK'
  BY <1>1 DEF PlayerInv, Shape, ViewerOK, InRange, CountsOK, EndsOK
<1>3. ViewerArmed'
  BY <1>1 DEF PlayerInv, ViewerArmed, Item
<1> QED BY <1>1, <1>2, <1>3

LEMMA DestroyedInv ==
    ASSUME PlayerInv, Destroyed, changes' \in 0 .. MaxChanges
    PROVE  PlayerInv'
<1>1. ViewerOK' /\ ViewerArmed' /\ video' = "none"
  BY StoppedViewer DEF Destroyed
<1>2. PageOK'
  BY DEF PlayerInv, Shape, PageOK, Destroyed
<1>3. FeedOK' /\ FeedArmed'
  <2>1. <<>> \in Reels
    BY DEF Reels
  <2>2. feed' \in Feeds
    BY <2>1 DEF PlayerInv, Shape, FeedOK, Feeds, Destroyed, ClearFeedTimer
  <2> QED BY <2>2 DEF FeedOK, FeedArmed, Destroyed
<1>4. CountsOK' /\ EndsOK'
  BY <1>1 DEF PlayerInv, Shape, CountsOK, EndsOK, Destroyed
<1> QED BY <1>1, <1>2, <1>3, <1>4 DEF PlayerInv, Shape

\* The page around the player.
LEMMA PageStep ==
    ASSUME PlayerInv, \/ SwitchTab \/ AllReviews \/ LeavePage \/ Destroy
                      \/ \E m \in Media : MediaArrive(m)
                      \/ \E c \in Configs : UpdateConfig(c)
    PROVE  PlayerInv'
<1>0. /\ PageOK /\ FeedOK /\ ViewerOK /\ CountsOK /\ feed \in Feeds
      /\ FeedArmed /\ ViewerArmed /\ EndsOK
  BY DEF PlayerInv, Shape, FeedOK
<1>c. changes' \in 0 .. MaxChanges
  BY <1>0, MoreChanges DEF SwitchTab, AllReviews, LeavePage, Destroy, MediaArrive, UpdateConfig
<1>1. CASE SwitchTab
  <2>1. PageOK'
    BY <1>0, <1>1 DEF PageOK, SwitchTab
  <2>2. FeedOK' /\ FeedArmed'
    <3>1. feed' = Render(feed) /\ media' \in Reels /\ tab' \in {"reviews", "questions"} /\ ~dialog'
      BY <1>0, <1>1 DEF SwitchTab, PageOK
    <3> QED BY <1>0, <3>1, RenderedArmed
  <2> QED BY <1>1, <1>c, <2>1, <2>2, SameViewer DEF SwitchTab, PlayerInv, Shape
<1>2. CASE AllReviews
  <2>1. PageOK'
    BY <1>0, <1>2 DEF PageOK, AllReviews
  <2>2. FeedOK' /\ FeedArmed'
    <3>1. CASE dialog
      BY <1>0, <1>2, <3>1, ScheduledArmed DEF AllReviews
    <3>2. CASE ~dialog
      <4>1. feed' = Render(ClearFeedTimer(feed))
        BY <1>2, <3>2 DEF AllReviews
      <4>2. ClearFeedTimer(feed) \in Feeds /\ ClearFeedTimer(feed).timer = FALSE
        BY <1>0, ClearedFeed
      <4>3. media' \in Reels /\ tab' \in {"reviews", "questions"}
        BY <2>1 DEF PageOK
      <4> QED BY <4>1, <4>2, <4>3, RenderedArmed
    <3> QED BY <3>1, <3>2
  <2> QED BY <1>2, <1>c, <2>1, <2>2, SameViewer DEF AllReviews, PlayerInv, Shape
<1>3. CASE LeavePage
  <2>1. PageOK' /\ FeedOK' /\ FeedArmed'
    BY <1>0, <1>3 DEF PageOK, FeedOK, FeedArmed, LeavePage
  <2> QED BY <1>3, <1>c, <2>1, SameViewer DEF LeavePage, PlayerInv, Shape
<1>4. CASE Destroy
  BY <1>4, <1>c, DestroyedInv DEF Destroy
<1>5. ASSUME NEW m \in Media, MediaArrive(m) PROVE PlayerInv'
  <2>1. PageOK'
    BY <1>0, <1>5 DEF PageOK, MediaArrive, Reels
  <2>2. FeedOK' /\ FeedArmed'
    <3>1. feed' = Render(feed) /\ media' \in Reels /\ tab' \in {"reviews", "questions"}
      BY <1>5, <2>1 DEF MediaArrive, PageOK
    <3>2. host' = "connected" /\ tab' = "reviews" /\ dialog' => ~feed.timer
      BY <1>0, <1>5 DEF MediaArrive, FeedArmed
    <3> QED BY <1>0, <3>1, <3>2, RenderedArmed
  <2> QED BY <1>5, <1>c, <2>1, <2>2, SameViewer DEF MediaArrive, PlayerInv, Shape
<1>6. ASSUME NEW c \in Configs, UpdateConfig(c) PROVE PlayerInv'
  <2>1. PageOK'
    BY <1>0, <1>6 DEF PageOK, UpdateConfig
  <2>2. FeedOK' /\ FeedArmed'
    <3> DEFINE f == [feed EXCEPT !.tiles = <<>>]
    <3>1. <<>> \in Reels
      BY DEF Reels
    <3>2. f \in Feeds
      BY <1>0, <3>1 DEF Feeds
    <3>3. feed' = Render(f) /\ ~dialog'
      BY <1>6 DEF UpdateConfig
    <3> HIDE DEF f
    <3> QED BY <2>1, <3>2, <3>3, RenderedArmed DEF PageOK
  <2>3. ViewerOK' /\ ViewerArmed' /\ video' # "over" /\ shown' \in 0 .. MaxShown
    <3>1. CASE Stopped /\ UNCHANGED shown
      BY <1>0, <3>1, StoppedViewer DEF CountsOK
    <3>2. ASSUME viewer.open, NEW i \in 1 .. Len(media),
                 Show([viewer EXCEPT !.items = media, !.index = i, !.playing = c.autoplay,
                                     !.hovered = FALSE])
          PROVE  ViewerOK' /\ ViewerArmed' /\ video' # "over" /\ shown' \in 0 .. MaxShown
      <4> DEFINE plays == c.autoplay
                 v == [viewer EXCEPT !.items = media, !.index = i, !.playing = plays,
                                     !.hovered = FALSE]
      <4>1. plays \in BOOLEAN
        BY PlayerAssumption
      <4>2. media \in Reels /\ i \in Nat /\ viewer \in Viewers
        BY <1>0, ReelType DEF PageOK, ViewerOK
      <4>3. Show(v)
        BY <3>2
      <4> HIDE DEF plays
      <4>4. v \in Viewers /\ v.open /\ v.index = i /\ v.items = media
        BY <3>2, <4>1, <4>2 DEF Viewers
      <4> HIDE DEF v
      <4> QED BY <1>0, <4>3, <4>4, ShownViewer DEF CountsOK
    <3> QED BY <1>6, <3>1, <3>2 DEF UpdateConfig
  <2>4. late' \in BOOLEAN /\ balance' = 0
    BY <1>6 DEF UpdateConfig, Replaced
  <2>5. CountsOK' /\ EndsOK'
    BY <1>c, <2>3, <2>4 DEF CountsOK, EndsOK
  <2> QED BY <2>1, <2>2, <2>3, <2>5 DEF PlayerInv, Shape
<1> QED BY <1>1, <1>2, <1>3, <1>4, <1>5, <1>6

\* The feed: its timer, the pointer and the focus.
LEMMA FeedStep ==
    ASSUME PlayerInv, FeedTimer \/ LeaveFeed \/ \E focus \in BOOLEAN : EnterFeed(focus)
    PROVE  PlayerInv'
<1>0. /\ PageOK /\ FeedOK /\ ViewerOK /\ CountsOK /\ feed \in Feeds
      /\ FeedArmed /\ ViewerArmed /\ EndsOK
  BY DEF PlayerInv, Shape, FeedOK
<1>c. changes' \in 0 .. MaxChanges
  BY <1>0 DEF CountsOK, FeedTimer, LeaveFeed, EnterFeed
<1>1. ASSUME StillPage, StillViewer, FeedOK', FeedArmed' PROVE PlayerInv'
  <2>1. PageOK' /\ config' = config
    BY <1>0, <1>1 DEF PageOK, StillPage, page
  <2> QED BY <1>1, <1>c, <2>1, SameViewer DEF PlayerInv, Shape
<1>2. CASE FeedTimer
  <2>1. CASE Orphan
    BY <1>2, <1>c, <2>1, DestroyedInv DEF FeedTimer
  <2>2. CASE ~Orphan
    <3> DEFINE index == NextVideo(feed.tiles, feed.index)
               f == [feed EXCEPT !.index = index]
    <3>1. feed' = ScheduleFeedTimer(f) /\ StillPage /\ StillViewer
      BY <1>2, <2>2 DEF FeedTimer
    <3>2. Videos(feed.tiles) # {}
      BY <1>0, <1>2, <2>2 DEF FeedTimer, Orphan, FeedArmed
    <3>3. index \in Places
      BY <1>0, <3>2, NextVideoType DEF Feeds
    <3> HIDE DEF index
    <3>4. f \in Feeds
      BY <1>0, <3>3 DEF Feeds
    <3> HIDE DEF f
    <3> QED BY <1>1, <3>1, <3>4, ScheduledArmed
  <2> QED BY <2>1, <2>2
<1>3. CASE LeaveFeed
  <2> DEFINE f == [feed EXCEPT !.paused = FALSE]
  <2>1. feed' = ScheduleFeedTimer(f) /\ StillPage /\ StillViewer
    BY <1>3 DEF LeaveFeed
  <2>2. f \in Feeds
    BY <1>0 DEF Feeds
  <2> HIDE DEF f
  <2> QED BY <1>1, <2>1, <2>2, ScheduledArmed
<1>4. ASSUME NEW focus \in BOOLEAN, EnterFeed(focus) PROVE PlayerInv'
  <2>1. feed' = [ClearFeedTimer(feed) EXCEPT !.paused = TRUE] /\ StillPage /\ StillViewer
    BY <1>4 DEF EnterFeed
  <2>2. feed' \in Feeds /\ feed'.timer = FALSE /\ feed'.paused = TRUE
    BY <1>0, <2>1 DEF Feeds, ClearFeedTimer
  <2> QED BY <1>1, <2>1, <2>2 DEF FeedOK, FeedArmed
<1> QED BY <1>2, <1>3, <1>4

\* What the steps inside the viewer leave alone.
LEMMA InsideViewer ==
    ASSUME PlayerInv, UNCHANGED <<page, feed, changes>>, viewer'.open = viewer.open
    PROVE  PageOK' /\ FeedOK' /\ FeedArmed' /\ changes' \in 0 .. MaxChanges /\ config' = config
BY SameFeed DEF PlayerInv, Shape, CountsOK, page

\* Opening, closing and turning the viewer.
LEMMA ViewerStep ==
    ASSUME PlayerInv, \/ \E i \in 1 .. Len(media) + Len(viewer.items) : OpenMediaViewer(i) \/ PickItem(i)
                      \/ CloseMediaViewer \/ HoverViewer \/ LeaveViewer
    PROVE  PlayerInv'
<1>0. /\ PageOK /\ FeedOK /\ ViewerOK /\ CountsOK /\ feed \in Feeds /\ viewer \in Viewers
      /\ FeedArmed /\ ViewerArmed /\ EndsOK /\ shown \in 0 .. MaxShown
      /\ config.autoplay \in BOOLEAN
  BY PlayerAssumption DEF PlayerInv, Shape, FeedOK, ViewerOK, CountsOK, PageOK
<1>1. ASSUME NEW i, OpenMediaViewer(i) PROVE PlayerInv'
  <2> DEFINE plays == config.autoplay
             v == [Closed EXCEPT !.open = TRUE, !.items = media, !.index = i, !.playing = plays]
  <2>1. /\ Show(v) /\ i \in 1 .. Len(media) /\ feed' = ClearFeedTimer(feed)
        /\ UNCHANGED <<page, late, changes>> /\ balance' = 0
    BY <1>1 DEF OpenMediaViewer, StillPage
  <2>2. media \in Reels /\ i \in Nat /\ plays \in BOOLEAN
    BY <1>0, <2>1, ReelType DEF PageOK
  <2> HIDE DEF plays
  <2>3. v \in Viewers /\ v.open /\ v.index = i /\ v.items = media
    BY <2>2 DEF Viewers, Closed
  <2> HIDE DEF v
  <2>4. ViewerOK' /\ ViewerArmed' /\ viewer'.open = TRUE /\ video' # "over" /\ shown' \in 0 .. MaxShown
    BY <1>0, <2>1, <2>3, ShownViewer
  <2>5. FeedOK' /\ FeedArmed'
    BY <1>0, <2>1, <2>4, ClearedFeed DEF FeedOK, FeedArmed
  <2>6. PageOK' /\ CountsOK' /\ EndsOK'
    BY <1>0, <2>1, <2>4 DEF PageOK, page, CountsOK, EndsOK
  <2> QED BY <2>4, <2>5, <2>6 DEF PlayerInv, Shape
<1>2. ASSUME NEW i, PickItem(i) PROVE PlayerInv'
  <2> DEFINE plays == config.autoplay
             v == [viewer EXCEPT !.index = i, !.playing = plays]
  <2>1. /\ Show(v) /\ i \in 1 .. Len(viewer.items) /\ viewer.open
        /\ UNCHANGED <<page, feed, changes>> /\ balance' = 0 /\ late' \in BOOLEAN
    BY <1>2 DEF PickItem, StillFeed, StillPage, InViewer, Replaced
  <2>2. i \in Nat /\ plays \in BOOLEAN
    <3>1. viewer.items \in Reels
      BY <1>0 DEF Viewers
    <3> QED BY <1>0, <2>1, <3>1, ReelType
  <2> HIDE DEF plays
  <2>3. v \in Viewers /\ v.open /\ v.index = i /\ v.items = viewer.items
    BY <1>0, <2>1, <2>2 DEF Viewers
  <2> HIDE DEF v
  <2>4. ViewerOK' /\ ViewerArmed' /\ viewer'.open = TRUE /\ video' # "over" /\ shown' \in 0 .. MaxShown
    BY <1>0, <2>1, <2>3, ShownViewer
  <2>5. viewer'.open = viewer.open
    BY <1>0, <2>1, <2>4 DEF Viewers
  <2>6. PageOK' /\ FeedOK' /\ FeedArmed' /\ changes' \in 0 .. MaxChanges
    BY <2>1, <2>5, InsideViewer
  <2>7. CountsOK' /\ EndsOK'
    BY <2>1, <2>4, <2>6 DEF CountsOK, EndsOK
  <2> QED BY <2>4, <2>6, <2>7 DEF PlayerInv, Shape
<1>3. CASE CloseMediaViewer
  <2>1. /\ Stopped /\ UNCHANGED <<page, shown, changes>> /\ balance' = 0 /\ late' \in BOOLEAN
    BY <1>3 DEF CloseMediaViewer, StillPage, Replaced
  <2>2. ViewerOK' /\ ViewerArmed' /\ video' = "none"
    BY <2>1, StoppedViewer
  <2>3. PICK focus \in BOOLEAN : feed' = ScheduleFeedTimer([feed EXCEPT !.paused = @ \/ focus])
    BY <1>3 DEF CloseMediaViewer
  <2>4. [feed EXCEPT !.paused = @ \/ focus] \in Feeds
    BY <1>0 DEF Feeds
  <2>5. FeedOK' /\ FeedArmed'
    BY <2>3, <2>4, ScheduledArmed
  <2>6. PageOK' /\ CountsOK' /\ EndsOK'
    BY <1>0, <2>1, <2>2 DEF PageOK, page, CountsOK, EndsOK
  <2> QED BY <2>2, <2>5, <2>6 DEF PlayerInv, Shape
<1>4. CASE HoverViewer
  <2>1. /\ viewer' = [viewer EXCEPT !.hovered = TRUE, !.timer = FALSE]
        /\ UNCHANGED <<page, feed, changes>> /\ UNCHANGED <<video, late, balance, shown>>
    BY <1>4 DEF HoverViewer, StillFeed, StillPage, counts
  <2>2. /\ viewer' \in Viewers /\ viewer'.open = viewer.open /\ viewer'.items = viewer.items
        /\ viewer'.index = viewer.index /\ viewer'.timer = FALSE /\ viewer'.hovered = TRUE
    BY <1>0, <2>1 DEF Viewers
  <2>3. ViewerOK' /\ ViewerArmed'
    BY <1>0, <2>1, <2>2 DEF ViewerOK, InRange, ViewerArmed
  <2>4. PageOK' /\ FeedOK' /\ FeedArmed' /\ changes' \in 0 .. MaxChanges
    BY <2>1, <2>2, InsideViewer
  <2>5. CountsOK' /\ EndsOK'
    BY <1>0, <2>1, <2>4 DEF CountsOK, EndsOK
  <2> QED BY <2>3, <2>4, <2>5 DEF PlayerInv, Shape
<1>5. CASE LeaveViewer
  <2> DEFINE v == [viewer EXCEPT !.hovered = FALSE]
  <2>1. /\ UNCHANGED <<page, feed, changes>> /\ UNCHANGED <<video, late, balance, shown>>
        /\ config' = config
    BY <1>5 DEF LeaveViewer, StillFeed, StillPage, counts, page
  <2>2. PICK phase \in {video} \cup (IF video = "held" THEN {"playing"} ELSE {}) :
          viewer' = ScheduleViewerTimer(v, phase)
    BY <1>5 DEF LeaveViewer
  <2>3. phase \in Phases /\ video' \in Phases /\ (video' = phase \/ (phase = "playing" /\ video' = "held"))
    BY <1>0, <2>1, <2>2 DEF ViewerOK, Phases
  <2>4. v \in Viewers /\ v.open = viewer.open /\ v.index = viewer.index /\ v.items = viewer.items
    BY <1>0 DEF Viewers
  <2>5. InRange(v)
    BY <1>0, <2>4 DEF ViewerOK, InRange
  <2> HIDE DEF v
  <2>6. ViewerOK' /\ ViewerArmed' /\ viewer'.open = viewer.open
    BY <2>1, <2>2, <2>3, <2>4, <2>5, ScheduledViewer
  <2>7. PageOK' /\ FeedOK' /\ FeedArmed' /\ changes' \in 0 .. MaxChanges
    BY <2>1, <2>6, InsideViewer
  <2>8. CountsOK' /\ EndsOK'
    BY <1>0, <2>1, <2>7 DEF CountsOK, EndsOK
  <2> QED BY <2>6, <2>7, <2>8 DEF PlayerInv, Shape
<1> QED BY <1>1, <1>2, <1>3, <1>4, <1>5

\* The element's events, and the timer and the messages that go on.
LEMMA VideoStep ==
    ASSUME PlayerInv, VideoEvents \/ ViewerTimer
    PROVE  PlayerInv'
<1>0. /\ PageOK /\ FeedOK /\ ViewerOK /\ CountsOK /\ viewer \in Viewers /\ InRange(viewer)
      /\ FeedArmed /\ ViewerArmed /\ EndsOK /\ shown \in 0 .. MaxShown /\ balance \in Int
      /\ viewer.open \in BOOLEAN
  BY DEF PlayerInv, Shape, ViewerOK, CountsOK, Viewers
\* What an event heard by the viewer leaves.
<1>1. ASSUME NEW phase \in {"playing", "paused"}, NEW plays \in BOOLEAN, Heard(phase, plays)
      PROVE  PlayerInv'
  <2> DEFINE v == [viewer EXCEPT !.playing = plays]
  <2>1. /\ viewer' = ScheduleViewerTimer(v, phase) /\ video' = phase
        /\ UNCHANGED <<page, feed, changes>> /\ UNCHANGED <<late, balance, shown>>
        /\ config' = config
    BY <1>1 DEF Heard, StillFeed, StillPage, counts, page
  <2>2. v \in Viewers /\ v.open = viewer.open /\ v.index = viewer.index /\ v.items = viewer.items
    BY <1>0 DEF Viewers
  <2>3. InRange(v) /\ phase \in Phases
    BY <1>0, <2>2 DEF InRange, Phases
  <2> HIDE DEF v
  <2>4. ViewerOK' /\ ViewerArmed' /\ viewer'.open = viewer.open
    BY <2>1, <2>2, <2>3, ScheduledViewer
  <2>5. PageOK' /\ FeedOK' /\ FeedArmed' /\ changes' \in 0 .. MaxChanges
    BY <2>1, <2>4, InsideViewer
  <2>6. CountsOK' /\ EndsOK'
    BY <1>0, <2>1, <2>5 DEF CountsOK, EndsOK
  <2> QED BY <2>4, <2>5, <2>6 DEF PlayerInv, Shape
\* What going on leaves, for an end counted once.
<1>2. ASSUME viewer.open, Forward, UNCHANGED <<page, feed, changes>>, late' \in BOOLEAN,
             balance' \in Int, balance' >= 0
      PROVE  PlayerInv'
  <2>1. /\ ViewerOK' /\ ViewerArmed' /\ viewer'.open = TRUE
        /\ video' \notin {"over", "playing"} /\ shown' \in 0 .. MaxShown
    BY <1>0, <1>2, ForwardViewer
  <2>2. viewer'.open = viewer.open
    BY <1>0, <1>2, <2>1
  <2>3. PageOK' /\ FeedOK' /\ FeedArmed' /\ changes' \in 0 .. MaxChanges
    BY <1>2, <2>2, InsideViewer
  <2>4. CountsOK' /\ EndsOK'
    BY <1>2, <2>1, <2>3 DEF CountsOK, EndsOK
  <2> QED BY <2>1, <2>3, <2>4 DEF PlayerInv, Shape
\* What a viewer whose timer is cleared, and that may stop playing, leaves.
<1>3. ASSUME NEW plays \in BOOLEAN,
             viewer' = [viewer EXCEPT !.playing = plays, !.timer = FALSE],
             UNCHANGED <<page, feed, changes, shown>>, late' \in BOOLEAN, balance' \in Int,
             video' \in Phases, EndsOK', video' # "playing" \/ ~plays
      PROVE  PlayerInv'
  <2>1. /\ viewer' \in Viewers /\ viewer'.open = viewer.open /\ viewer'.items = viewer.items
        /\ viewer'.index = viewer.index /\ viewer'.timer = FALSE /\ viewer'.playing = plays
    BY <1>0, <1>3 DEF Viewers
  <2>2. ViewerOK' /\ ViewerArmed'
    BY <1>0, <1>3, <2>1 DEF ViewerOK, InRange, ViewerArmed
  <2>3. PageOK' /\ FeedOK' /\ FeedArmed' /\ changes' \in 0 .. MaxChanges
    BY <1>3, <2>1, InsideViewer
  <2>4. CountsOK'
    BY <1>0, <1>3, <2>3 DEF CountsOK
  <2> QED BY <1>3, <2>2, <2>3, <2>4 DEF PlayerInv, Shape
<1>4. CASE Plays
  BY <1>1, <1>4 DEF Plays
<1>5. CASE Pauses
  BY <1>1, <1>5 DEF Pauses
<1>6. CASE Waits
  <2>1. /\ viewer' = [viewer EXCEPT !.timer = FALSE] /\ video' = "held"
        /\ UNCHANGED <<page, feed, changes, shown>> /\ UNCHANGED <<late, balance>>
    BY <1>6 DEF Waits, StillFeed, StillPage, counts
  <2>2. viewer' = [viewer EXCEPT !.playing = viewer.playing, !.timer = FALSE]
    BY <1>0, <2>1 DEF Viewers
  <2>3. viewer.playing \in BOOLEAN /\ EndsOK'
    BY <1>0, <2>1 DEF Viewers, EndsOK
  <2> QED BY <1>0, <1>3, <2>1, <2>2, <2>3 DEF Phases, CountsOK
<1>7. CASE Finishes
  <2>1. /\ UNCHANGED <<page, feed, changes>> /\ UNCHANGED <<viewer, late, shown>>
        /\ video = "playing" /\ video' = "over" /\ balance' = 1 /\ config' = config
    BY <1>7 DEF Finishes, StillFeed, StillPage, page
  <2>2. ViewerOK' /\ ViewerArmed'
    BY <1>0, <2>1 DEF ViewerOK, InRange, ViewerArmed, Item, Phases
  <2>3. PageOK' /\ FeedOK' /\ FeedArmed' /\ changes' \in 0 .. MaxChanges
    BY <2>1, InsideViewer
  <2>4. CountsOK' /\ EndsOK'
    BY <1>0, <2>1, <2>3 DEF CountsOK, EndsOK
  <2> QED BY <2>2, <2>3, <2>4 DEF PlayerInv, Shape
<1>8. CASE FrameEnded
  <2>1. /\ viewer.open /\ Forward /\ UNCHANGED <<page, feed, changes>>
        /\ UNCHANGED <<late, balance>>
    BY <1>8 DEF FrameEnded, InViewer, StillFeed, StillPage, counts
  <2> QED BY <1>0, <1>2, <2>1 DEF CountsOK, EndsOK
<1>9. CASE PausedByRemoval
  BY <1>0, <1>9, DestroyedInv DEF PausedByRemoval, CountsOK
<1>10. ASSUME NEW gone \in BOOLEAN, Ended(gone) PROVE PlayerInv'
  <2>1. /\ viewer.open /\ UNCHANGED <<page, feed, changes>> /\ late' \in BOOLEAN
        /\ ~gone => video = "over"
    BY <1>0, <1>10 DEF Ended, InViewer, StillFeed, StillPage, CountsOK
  <2>2. CASE gone
    <3>1. UNCHANGED <<viewer, video, balance, shown>> /\ config' = config
      BY <1>10, <2>1, <2>2 DEF Ended, Current, page
    <3>2. ViewerOK' /\ ViewerArmed'
      BY <1>0, <3>1 DEF ViewerOK, InRange, ViewerArmed, Item
    <3>3. PageOK' /\ FeedOK' /\ FeedArmed' /\ changes' \in 0 .. MaxChanges
      BY <2>1, <3>1, InsideViewer
    <3>4. CountsOK' /\ EndsOK'
      BY <1>0, <2>1, <3>1, <3>3 DEF CountsOK, EndsOK
    <3> QED BY <3>2, <3>3, <3>4 DEF PlayerInv, Shape
  <2>3. CASE ~gone
    <3>1. \/ balance' = balance - 1 /\ Forward
          \/ /\ viewer' = [viewer EXCEPT !.playing = FALSE, !.timer = FALSE]
             /\ video' = "paused" /\ balance' = 0 /\ UNCHANGED shown
      BY <1>10, <2>3 DEF Ended, Current
    <3>2. CASE balance' = balance - 1 /\ Forward
      <4>1. balance' \in Int /\ balance' >= 0
        BY <1>0, <2>1, <2>3, <3>2 DEF EndsOK
      <4> QED BY <1>2, <2>1, <3>2, <4>1
    <3>3. CASE /\ viewer' = [viewer EXCEPT !.playing = FALSE, !.timer = FALSE]
               /\ video' = "paused" /\ balance' = 0 /\ UNCHANGED shown
      <4>1. EndsOK' /\ balance' \in Int /\ video' \in Phases
        BY <3>3 DEF EndsOK, Phases
      <4>2. FALSE \in BOOLEAN /\ (video' # "playing" \/ ~FALSE)
        OBVIOUS
      <4> QED BY <1>3, <2>1, <3>3, <4>1, <4>2, Zenon
    <3> QED BY <3>1, <3>2, <3>3
  <2> QED BY <2>2, <2>3
<1>11. CASE ViewerTimer
  <2>1. CASE Orphan
    BY <1>0, <1>11, <2>1, DestroyedInv DEF ViewerTimer, CountsOK
  <2>2. CASE ~Orphan
    <3>1. /\ UNCHANGED <<page, feed, changes>> /\ late' \in BOOLEAN /\ Forward
          /\ balance' = IF video = "over" THEN balance - 1 ELSE balance
      BY <1>11, <2>2 DEF ViewerTimer, StillPage, Replaced
    <3>2. viewer.open
      BY <1>0, <1>11 DEF ViewerTimer, ViewerArmed
    <3>3. balance' \in Int /\ balance' >= 0
      BY <1>0, <3>1 DEF EndsOK
    <3> QED BY <1>2, <3>1, <3>2, <3>3
  <2> QED BY <2>1, <2>2
<1> QED
  BY <1>4, <1>5, <1>6, <1>7, <1>8, <1>9, <1>10, <1>11 DEF VideoEvents

LEMMA PlayerStep == PlayerInv /\ [Next]_vars => PlayerInv'
<1> SUFFICES ASSUME PlayerInv, [Next]_vars PROVE PlayerInv'
  OBVIOUS
<1>1. CASE UNCHANGED vars
  <2>1. /\ UNCHANGED <<page, feed, changes>> /\ StillViewer /\ config' = config
    BY <1>1 DEF vars, counts, StillViewer, page
  <2>2. changes' \in 0 .. MaxChanges
    BY <2>1 DEF PlayerInv, Shape, CountsOK
  <2>3. ViewerOK' /\ ViewerArmed' /\ CountsOK' /\ EndsOK' /\ viewer'.open = viewer.open
    BY <2>1, <2>2, SameViewer
  <2> QED BY <2>1, <2>3, InsideViewer DEF PlayerInv, Shape
<1> QED
  BY <1>1, PageStep, FeedStep, ViewerStep, VideoStep DEF Next, Reader

LEMMA PlayerAlways == Spec => []PlayerInv
BY PlayerInit, PlayerStep, PTL DEF Spec

\* Both timers are armed exactly when the code means them to be, whatever was
\* opened, configured, hovered and played over them.
THEOREM TimersRight == Spec => []TimersArmed
<1>1. PlayerInv => TimersArmed
  BY ShapeTypes DEF PlayerInv, TimersArmed
<1> QED BY <1>1, PlayerAlways, PTL

\* A video's end takes the viewer on at most once, for any number of videos.
THEOREM NoneSkipped == Spec => []NoVideoSkipped
<1>1. PlayerInv => NoVideoSkipped
  BY DEF PlayerInv, EndsOK, NoVideoSkipped
<1> QED BY <1>1, PlayerAlways, PTL

=============================================================================
